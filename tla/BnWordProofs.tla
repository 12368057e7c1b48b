----------------------------- MODULE BnWordProofs -----------------------------
(***************************************************************************)
(* Proofs that the add and subtract primitives of bn_internal.h compute   *)
(* the exact wide result for every word size the macros of bn.h allow,    *)
(* with and without a double-width type.                                  *)
(***************************************************************************)
EXTENDS BnCalls, TLAPS

\* Facts about the word size used everywhere below.
LEMMA BaseFacts ==
  /\ Base = 2 * BN_TBIT
  /\ BN_TBIT \in Nat \ {0, 1}
  /\ Base \in Nat \ {0}
  /\ BN_MASK2 = Base - 1
  BY BnMacrosAssumption DEF Base

(***************************************************************************)
(* The top bit of a word: x >> (BN_BITS2 - 1) is 1 exactly when x is at    *)
(* least BN_TBIT.                                                          *)
(***************************************************************************)
LEMMA MsbWord ==
  ASSUME NEW x \in Word
  PROVE  Msb(x) <=> x >= BN_TBIT
  <1>1. x \in 0..2 * BN_TBIT - 1
    BY BaseFacts DEF Word
  <1>2. x >= BN_TBIT => x \div BN_TBIT = 1
    BY <1>1, BaseFacts
  <1>3. x < BN_TBIT => x \div BN_TBIT = 0
    BY <1>1, BaseFacts
  <1>. QED  BY <1>1, <1>2, <1>3, BaseFacts DEF Msb

(***************************************************************************)
(* Wrap-around of a value at most one word out of range.                   *)
(***************************************************************************)
LEMMA WrapRange ==
  \A x \in -Base..2 * Base - 1 :
     /\ 0 <= x /\ x < Base => Wrap(x) = x
     /\ x >= Base => Wrap(x) = x - Base
     /\ x < 0 => Wrap(x) = x + Base
  BY BaseFacts DEF Wrap, Base

(***************************************************************************)
(* The portable carry: for words x and y, AddCarry of their wrapped sum is *)
(* the word that sum lost.                                                 *)
(***************************************************************************)
LEMMA AddCarryCorrect ==
  ASSUME NEW x \in Word, NEW y \in Word
  PROVE  /\ AddCarry(x, y, Wrap(x + y)) \in {0, 1}
         /\ AddCarry(x, y, Wrap(x + y)) * Base + Wrap(x + y) = x + y
  <1> DEFINE s == Wrap(x + y)
  <1>1. x + y \in 0..2 * Base - 1
    BY BaseFacts DEF Word
  <1>2. /\ x + y < Base => s = x + y
        /\ x + y >= Base => s = x + y - Base
    <2>1. x + y \in -Base..2 * Base - 1
      BY <1>1, BaseFacts
    <2>2. /\ 0 <= x + y /\ x + y < Base => Wrap(x + y) = x + y
          /\ x + y >= Base => Wrap(x + y) = x + y - Base
      BY <2>1, BaseFacts DEF Wrap, Base, Word
    <2>. QED  BY <2>2, <1>1, BaseFacts
  <1>3. s \in Word
    BY <1>1, <1>2, BaseFacts DEF Word
  <1>4. /\ Msb(x) <=> x >= BN_TBIT
        /\ Msb(y) <=> y >= BN_TBIT
        /\ Msb(s) <=> s >= BN_TBIT
    BY <1>3, MsbWord
  <1>. QED
    BY <1>1, <1>2, <1>4, BaseFacts DEF AddCarry, Word

(***************************************************************************)
(* bn_addw, in either build, returns a 0/1 carry and a word whose wide     *)
(* value is a + b.                                                         *)
(***************************************************************************)
LEMMA AddwCorrect ==
  ASSUME NEW a \in Word, NEW b \in Word
  PROVE  /\ BnAddw(a, b)[1] \in {0, 1}
         /\ BnAddw(a, b)[2] \in Word
         /\ BnAddw(a, b)[1] * Base + BnAddw(a, b)[2] = a + b
  <1>1. a + b \in 0..2 * Base - 1
    BY BaseFacts DEF Word
  <1>2. Wrap(a + b) \in Word
    <2>1. /\ a + b < Base => Wrap(a + b) = a + b
          /\ a + b >= Base => Wrap(a + b) = a + b - Base
      <3>1. a + b \in -Base..2 * Base - 1
        BY <1>1, BaseFacts
      <3>2. /\ 0 <= a + b /\ a + b < Base => Wrap(a + b) = a + b
            /\ a + b >= Base => Wrap(a + b) = a + b - Base
        BY <3>1, BaseFacts DEF Wrap, Base, Word
      <3>. QED  BY <3>2, <1>1, BaseFacts
    <2>. QED  BY <1>1, <2>1, BaseFacts DEF Word
  <1>3. CASE BN_LLONG
    <2>1. BnAddw(a, b) = <<(a + b) \div Base, Wrap(a + b)>>
      BY <1>3 DEF BnAddw, BnAddwLLong, Base
    <2>2. /\ a + b < Base => (a + b) \div Base = 0
          /\ a + b >= Base => (a + b) \div Base = 1
      BY <1>1, BaseFacts
    <2>3. /\ a + b < Base => Wrap(a + b) = a + b
          /\ a + b >= Base => Wrap(a + b) = a + b - Base
      <3>1. a + b \in -Base..2 * Base - 1
        BY <1>1, BaseFacts
      <3>2. /\ 0 <= a + b /\ a + b < Base => Wrap(a + b) = a + b
            /\ a + b >= Base => Wrap(a + b) = a + b - Base
        BY <3>1, BaseFacts DEF Wrap, Base, Word
      <3>. QED  BY <3>2, <1>1, BaseFacts
    <2>4. CASE a + b < Base
      <3>1. BnAddw(a, b) = <<0, a + b>>
        BY <2>1, <2>2, <2>3, <2>4
      <3>. QED  BY <1>1, <2>4, <3>1, BaseFacts DEF Word
    <2>5. CASE a + b >= Base
      <3>1. BnAddw(a, b) = <<1, a + b - Base>>
        BY <2>1, <2>2, <2>3, <2>5
      <3>. QED  BY <1>1, <2>5, <3>1, BaseFacts DEF Word
    <2>. QED  BY <1>1, <2>4, <2>5, BaseFacts
  <1>4. CASE ~BN_LLONG
    <2>1. BnAddw(a, b) = <<AddCarry(a, b, Wrap(a + b)), Wrap(a + b)>>
      BY <1>4 DEF BnAddw, BnAddwPortable
    <2>. QED  BY <1>2, <2>1, AddCarryCorrect
  <1>. QED  BY <1>3, <1>4

(***************************************************************************)
(* bn_subw returns a 0/1 borrow and a word r0 with r0 - borrow * 2^BN_BITS2 *)
(* = a - b.                                                                *)
(***************************************************************************)
LEMMA SubwCorrect ==
  ASSUME NEW a \in Word, NEW b \in Word
  PROVE  /\ BnSubw(a, b)[1] \in {0, 1}
         /\ BnSubw(a, b)[2] \in Word
         /\ BnSubw(a, b)[2] - BnSubw(a, b)[1] * Base = a - b
  <1> DEFINE r0 == Wrap(a - b)
  <1>1. a - b \in -Base..Base - 1
    BY BaseFacts DEF Word
  <1>2. /\ a - b >= 0 => r0 = a - b
        /\ a - b < 0 => r0 = a - b + Base
    BY <1>1, WrapRange, BaseFacts
  <1>3. r0 \in Word
    BY <1>1, <1>2, BaseFacts DEF Word
  <1>4. /\ Msb(a) <=> a >= BN_TBIT
        /\ Msb(b) <=> b >= BN_TBIT
        /\ Msb(r0) <=> r0 >= BN_TBIT
    BY <1>3, MsbWord
  <1>5. BnSubw(a, b) =
          <<IF (Msb(r0) \/ (Msb(b) /\ ~Msb(a))) /\ (Msb(b) \/ ~Msb(a))
            THEN 1 ELSE 0, r0>>
    BY DEF BnSubw
  <1>. QED
    BY <1>1, <1>2, <1>3, <1>4, <1>5, BaseFacts DEF Word

\* A carry or borrow of at most 2 does not wrap: a word has at least two bits.
LEMMA SmallWrap ==
  ASSUME NEW k \in 0..2
  PROVE  Wrap(k) = k
  BY BaseFacts DEF Wrap, Base

(***************************************************************************)
(* bn_addw_addw returns a carry word of 0, 1 or 2 and a sum word whose     *)
(* wide value is a + b + c.                                                *)
(***************************************************************************)
LEMMA AddwAddwCorrect ==
  ASSUME NEW a \in Word, NEW b \in Word, NEW c \in Word
  PROVE  /\ BnAddwAddw(a, b, c)[1] \in 0..2
         /\ BnAddwAddw(a, b, c)[2] \in Word
         /\ BnAddwAddw(a, b, c)[1] * Base + BnAddwAddw(a, b, c)[2] = a + b + c
  <1> DEFINE s1 == BnAddw(a, b)
             s2 == BnAddw(s1[2], c)
  <1>1. s1[1] \in {0, 1} /\ s1[2] \in Word /\ s1[1] * Base + s1[2] = a + b
    BY AddwCorrect
  <1>2. s2[1] \in {0, 1} /\ s2[2] \in Word /\ s2[1] * Base + s2[2] = s1[2] + c
    BY <1>1, AddwCorrect
  <1>3. BnAddwAddw(a, b, c) = <<s1[1] + s2[1], s2[2]>>
    <2>1. Wrap(s1[1] + s2[1]) = s1[1] + s2[1]
      BY <1>1, <1>2, SmallWrap
    <2>. QED  BY <2>1 DEF BnAddwAddw
  <1>. QED
    BY <1>1, <1>2, <1>3, BaseFacts DEF Word

(***************************************************************************)
(* bn_subw_subw returns a borrow of 0, 1 or 2 and a word r0 with           *)
(* r0 - borrow * 2^BN_BITS2 = a - b - c.                                   *)
(***************************************************************************)
LEMMA SubwSubwCorrect ==
  ASSUME NEW a \in Word, NEW b \in Word, NEW c \in Word
  PROVE  /\ BnSubwSubw(a, b, c)[1] \in 0..2
         /\ BnSubwSubw(a, b, c)[2] \in Word
         /\ BnSubwSubw(a, b, c)[2] - BnSubwSubw(a, b, c)[1] * Base = a - b - c
  <1> DEFINE d1 == BnSubw(a, b)
             d2 == BnSubw(d1[2], c)
  <1>1. d1[1] \in {0, 1} /\ d1[2] \in Word /\ d1[2] - d1[1] * Base = a - b
    BY SubwCorrect
  <1>2. d2[1] \in {0, 1} /\ d2[2] \in Word /\ d2[2] - d2[1] * Base = d1[2] - c
    BY <1>1, SubwCorrect
  <1>3. BnSubwSubw(a, b, c) = <<d1[1] + d2[1], d2[2]>>
    <2>1. Wrap(d1[1] + d2[1]) = d1[1] + d2[1]
      BY <1>1, <1>2, SmallWrap
    <2>. QED  BY <2>1 DEF BnSubwSubw
  <1>. QED
    BY <1>1, <1>2, <1>3, BaseFacts DEF Word

(***************************************************************************)
(* bn_ct_ne_zero is 1 exactly for a non-zero word: for w = 0 the top bit of *)
(* ~(w - 1) = ~BN_MASK2 is clear, for 0 < w < BN_TBIT that of ~(w - 1) is  *)
(* set, and above it that of w.                                            *)
(***************************************************************************)
LEMMA CtNeZeroCorrect ==
  ASSUME NEW w \in Word
  PROVE  BnCtNeZero(w) = IF w # 0 THEN 1 ELSE 0
  <1>1. CASE w = 0
    <2>1. Wrap(w - 1) = Base - 1
      BY <1>1, BaseFacts DEF Wrap, Base
    <2>2. Base - 1 \in Word /\ Base - 1 >= BN_TBIT
      BY BaseFacts DEF Word
    <2>3. Msb(Base - 1) /\ ~Msb(w)
      BY <1>1, <2>2, MsbWord, BaseFacts DEF Word
    <2>. QED  BY <1>1, <2>1, <2>3 DEF BnCtNeZero
  <1>2. CASE w # 0
    <2>1. Wrap(w - 1) = w - 1 /\ w - 1 \in Word
      BY <1>2, BaseFacts DEF Wrap, Base, Word
    <2>2. (Msb(w) <=> w >= BN_TBIT) /\ (Msb(w - 1) <=> w - 1 >= BN_TBIT)
      BY <2>1, MsbWord
    <2>3. Msb(w) \/ ~Msb(w - 1)
      BY <1>2, <2>2, BaseFacts DEF Word
    <2>. QED  BY <1>2, <2>1, <2>3 DEF BnCtNeZero
  <1>. QED  BY <1>1, <1>2

\* The masks: all ones or all zeros.
LEMMA CtMasksCorrect ==
  ASSUME NEW w \in Word
  PROVE  /\ BnCtEqZero(w) = IF w = 0 THEN 1 ELSE 0
         /\ BnCtNeZeroMask(w) = IF w # 0 THEN BN_MASK2 ELSE 0
         /\ BnCtEqZeroMask(w) = IF w = 0 THEN BN_MASK2 ELSE 0
  <1>1. BnCtEqZero(w) = IF w = 0 THEN 1 ELSE 0
    BY CtNeZeroCorrect DEF BnCtEqZero
  <1>2. /\ Wrap(0 - 1) = BN_MASK2
        /\ Wrap(0 - 0) = 0
    BY BaseFacts DEF Wrap, Base
  <1>. QED  BY <1>1, <1>2, CtNeZeroCorrect DEF BnCtNeZeroMask, BnCtEqZeroMask

-----------------------------------------------------------------------------
\* The zero tests and the add and subtract primitives.
AddSubOps == {"addw", "addw_addw", "subw", "subw_subw", "ct_ne_zero",
              "ct_ne_zero_mask", "ct_eq_zero", "ct_eq_zero_mask"}

(***************************************************************************)
(* The inductive invariant of a call: the arguments are as many words as   *)
(* the primitive takes, and the result is either absent or the one the    *)
(* primitive returns for them.                                             *)
(***************************************************************************)
CallInv ==
  /\ op \in Ops
  /\ args \in [1..Arity[op] -> Word]
  /\ res = <<>> \/ res = Result(op, args)

LEMMA InitCallInv == Init => CallInv
  <1> SUFFICES ASSUME Init PROVE CallInv
    OBVIOUS
  <1>1. CASE op = "mulw_addtw"
    <2>1. Arity[op] = 5
      BY <1>1 DEF Arity
    <2>2. args \in {<<a, b, c2, c1, c0>> : a \in Word, b \in Word, c2 \in C2Words,
                                         c1 \in Word, c0 \in Word}
      BY <1>1 DEF Init, Args
    <2>. QED  BY <2>1, <2>2, C2WordsAssumption DEF Init, CallInv
  <1>2. CASE op # "mulw_addtw"
    BY <1>2 DEF Init, Args, CallInv
  <1>. QED  BY <1>1, <1>2

LEMMA NextCallInv == CallInv /\ [Next]_vars => CallInv'
  <1> SUFFICES ASSUME CallInv, [Next]_vars PROVE CallInv'
    OBVIOUS
  <1>1. CASE Call
    BY <1>1 DEF Call, CallInv
  <1>2. CASE UNCHANGED vars
    BY <1>2 DEF vars, CallInv
  <1>. QED  BY <1>1, <1>2 DEF Next

LEMMA CallInvCarry == CallInv => CarryIdentity
  <1> SUFFICES ASSUME CallInv, res # <<>>
               PROVE  CarryIdentity
    BY DEF CarryIdentity
  <1>1. res = Result(op, args)
    BY DEF CallInv
  <1>2. ASSUME op = "addw" PROVE res[1] * Base + res[2] = args[1] + args[2]
    <2>1. args \in [1..2 -> Word]
      BY <1>2 DEF CallInv, AddSubOps, Arity
    <2>2. res = BnAddw(args[1], args[2])
      BY <1>1, <1>2 DEF Result
    <2>. QED  BY <2>1, <2>2, AddwCorrect
  <1>3. ASSUME op = "addw_addw"
        PROVE  res[1] * Base + res[2] = args[1] + args[2] + args[3]
    <2>1. args \in [1..3 -> Word]
      BY <1>3 DEF CallInv, AddSubOps, Arity
    <2>2. res = BnAddwAddw(args[1], args[2], args[3])
      BY <1>1, <1>3 DEF Result
    <2>. QED  BY <2>1, <2>2, AddwAddwCorrect
  <1>4. ASSUME op = "subw" PROVE res[2] - res[1] * Base = args[1] - args[2]
    <2>1. args \in [1..2 -> Word]
      BY <1>4 DEF CallInv, AddSubOps, Arity
    <2>2. res = BnSubw(args[1], args[2])
      BY <1>1, <1>4 DEF Result
    <2>. QED  BY <2>1, <2>2, SubwCorrect
  <1>5. ASSUME op = "subw_subw"
        PROVE  res[2] - res[1] * Base = args[1] - args[2] - args[3]
    <2>1. args \in [1..3 -> Word]
      BY <1>5 DEF CallInv, AddSubOps, Arity
    <2>2. res = BnSubwSubw(args[1], args[2], args[3])
      BY <1>1, <1>5 DEF Result
    <2>. QED  BY <2>1, <2>2, SubwSubwCorrect
  <1>. QED  BY <1>2, <1>3, <1>4, <1>5 DEF CarryIdentity

(***************************************************************************)
(* For every word size and either build, every call of bn_addw,           *)
(* bn_addw_addw, bn_subw or bn_subw_subw returns the exact wide result of *)
(* its arguments (CarryIdentity, checked by TLC for 4-bit words).         *)
(***************************************************************************)
THEOREM CarryCorrect == Spec => []CarryIdentity
  <1>1. Init => CallInv
    BY InitCallInv
  <1>2. CallInv /\ [Next]_vars => CallInv'
    BY NextCallInv
  <1>3. CallInv => CarryIdentity
    BY CallInvCarry
  <1>. QED  BY <1>1, <1>2, <1>3, PTL DEF Spec

LEMMA CallInvZero == CallInv => ZeroTests
  <1> SUFFICES ASSUME CallInv, res # <<>>
               PROVE  ZeroTests
    BY DEF ZeroTests
  <1>1. res = Result(op, args)
    BY DEF CallInv
  <1>2. ASSUME op \in {"ct_ne_zero", "ct_ne_zero_mask", "ct_eq_zero",
                       "ct_eq_zero_mask"}
        PROVE  args[1] \in Word
    <2>1. Arity[op] = 1
      BY <1>2 DEF Arity
    <2>2. args \in [1..Arity[op] -> Word]
      BY <1>2 DEF CallInv, AddSubOps
    <2>. QED  BY <2>1, <2>2
  <1>3. op = "ct_ne_zero" => res[1] = IF args[1] # 0 THEN 1 ELSE 0
    BY <1>1, <1>2, CtNeZeroCorrect DEF Result
  <1>4. op = "ct_eq_zero" => res[1] = IF args[1] = 0 THEN 1 ELSE 0
    BY <1>1, <1>2, CtMasksCorrect DEF Result
  <1>5. op = "ct_ne_zero_mask" => res[1] = IF args[1] # 0 THEN BN_MASK2 ELSE 0
    BY <1>1, <1>2, CtMasksCorrect DEF Result
  <1>6. op = "ct_eq_zero_mask" => res[1] = IF args[1] = 0 THEN BN_MASK2 ELSE 0
    BY <1>1, <1>2, CtMasksCorrect DEF Result
  <1>. QED  BY <1>3, <1>4, <1>5, <1>6 DEF ZeroTests

(***************************************************************************)
(* For every word size, the constant-time zero tests and their masks       *)
(* answer whether the word is zero, the wrap of w - 1 at w = 0 included    *)
(* (ZeroTests, checked by TLC for 4-bit words).                           *)
(***************************************************************************)
THEOREM ZeroTestsCorrect == Spec => []ZeroTests
  <1>1. Init => CallInv
    BY InitCallInv
  <1>2. CallInv /\ [Next]_vars => CallInv'
    BY NextCallInv
  <1>3. CallInv => ZeroTests
    BY CallInvZero
  <1>. QED  BY <1>1, <1>2, <1>3, PTL DEF Spec
=============================================================================
