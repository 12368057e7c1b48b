------------------------------- MODULE BnCalls -------------------------------
(***************************************************************************)
(* A caller of the bn_internal.h primitives, as the BIGNUM routines are:   *)
(* it picks a primitive and its word arguments, makes the call and keeps   *)
(* the result.  The properties compare that result with the exact integer *)
(* value the primitive's comment promises, for every argument.             *)
(***************************************************************************)
EXTENDS BnWord, Sequences

\* The top words c2 a caller of bn_mulw_addtw passes.
CONSTANT C2Words

ASSUME C2WordsAssumption == C2Words \subseteq Word

VARIABLES op, args, res

vars == <<op, args, res>>

\* The primitives and the number of word arguments each takes.
Arity == [ct_ne_zero |-> 1, ct_ne_zero_mask |-> 1, ct_eq_zero |-> 1,
          ct_eq_zero_mask |-> 1, addw |-> 2, addw_addw |-> 3, subw |-> 2,
          subw_subw |-> 3, umul_hilo |-> 2, umul_lo |-> 2, umul_hi |-> 2,
          mulw_addw |-> 3, mulw_addw_addw |-> 4, mulw_addtw |-> 5]

Ops == DOMAIN Arity

\* The argument lists of a call; bn_mulw_addtw takes c2 from C2Words.
Args(o) ==
  IF o = "mulw_addtw"
  THEN {<<a, b, c2, c1, c0>> : a \in Word, b \in Word, c2 \in C2Words,
                               c1 \in Word, c0 \in Word}
  ELSE [1..Arity[o] -> Word]

\* Before the call: the result is not there yet.
Init ==
  /\ op \in Ops
  /\ args \in Args(op)
  /\ res = <<>>

\* One call of the chosen primitive.
Result(o, x) ==
  CASE o = "ct_ne_zero" -> <<BnCtNeZero(x[1])>>
    [] o = "ct_ne_zero_mask" -> <<BnCtNeZeroMask(x[1])>>
    [] o = "ct_eq_zero" -> <<BnCtEqZero(x[1])>>
    [] o = "ct_eq_zero_mask" -> <<BnCtEqZeroMask(x[1])>>
    [] o = "addw" -> BnAddw(x[1], x[2])
    [] o = "addw_addw" -> BnAddwAddw(x[1], x[2], x[3])
    [] o = "subw" -> BnSubw(x[1], x[2])
    [] o = "subw_subw" -> BnSubwSubw(x[1], x[2], x[3])
    [] o = "umul_hilo" -> BnUmulHilo(x[1], x[2])
    [] o = "umul_lo" -> <<BnUmulLo(x[1], x[2])>>
    [] o = "umul_hi" -> <<BnUmulHi(x[1], x[2])>>
    [] o = "mulw_addw" -> BnMulwAddw(x[1], x[2], x[3])
    [] o = "mulw_addw_addw" -> BnMulwAddwAddw(x[1], x[2], x[3], x[4])
    [] o = "mulw_addtw" -> BnMulwAddtw(x[1], x[2], x[3], x[4], x[5])

Call ==
  /\ res = <<>>
  /\ res' = Result(op, args)
  /\ UNCHANGED <<op, args>>

\* The call returns and the caller has nothing more to do.
Next == Call

Spec == Init /\ [][Next]_vars

-----------------------------------------------------------------------------
Base == BN_MASK2 + 1

(***************************************************************************)
(* The add and subtract primitives give the exact wide result: the carry  *)
(* word above the sum word is a + b (+ c), and the sum word minus the     *)
(* borrow times 2^BN_BITS2 is a - b (- c).  This is what bn_addw's and    *)
(* bn_subw's top-bit carry and borrow formulas must get right at every    *)
(* wrap-around.                                                           *)
(***************************************************************************)
CarryIdentity ==
  res # <<>> =>
    /\ op = "addw" => res[1] * Base + res[2] = args[1] + args[2]
    /\ op = "addw_addw" =>
         res[1] * Base + res[2] = args[1] + args[2] + args[3]
    /\ op = "subw" => res[2] - res[1] * Base = args[1] - args[2]
    /\ op = "subw_subw" =>
         res[2] - res[1] * Base = args[1] - args[2] - args[3]

(***************************************************************************)
(* The multiply primitives give the exact double-word (or, for            *)
(* bn_mulw_addtw, triple-word) result, including a = b = BN_MASK2: the    *)
(* portable bn_umul_hilo must propagate both middle-product carries into  *)
(* the high word.  bn_mulw_addtw is exact when its caller keeps c2 from   *)
(* overflowing, as its comment requires.                                  *)
(***************************************************************************)
ProductIdentity ==
  LET a == args[1]
      b == args[2]
  IN res # <<>> =>
    /\ op = "umul_hilo" => res[1] * Base + res[2] = a * b
    /\ op = "umul_lo" => res[1] = (a * b) % Base
    /\ op = "umul_hi" => res[1] = (a * b) \div Base
    /\ op = "mulw_addw" => res[1] * Base + res[2] = a * b + args[3]
    /\ op = "mulw_addw_addw" =>
         res[1] * Base + res[2] = a * b + args[3] + args[4]
    /\ (op = "mulw_addtw" /\
        a * b + args[3] * Base * Base + args[4] * Base + args[5]
          < Base * Base * Base) =>
         res[1] * Base * Base + res[2] * Base + res[3]
           = a * b + args[3] * Base * Base + args[4] * Base + args[5]

(***************************************************************************)
(* The constant-time zero tests answer whether w is zero, w = 0 included, *)
(* where bn_ct_ne_zero's w - 1 wraps to BN_MASK2, and the masks are all   *)
(* ones or all zeros accordingly.                                          *)
(***************************************************************************)
ZeroTests ==
  LET w == args[1]
  IN res # <<>> =>
    /\ op = "ct_ne_zero" => res[1] = IF w # 0 THEN 1 ELSE 0
    /\ op = "ct_eq_zero" => res[1] = IF w = 0 THEN 1 ELSE 0
    /\ op = "ct_ne_zero_mask" => res[1] = IF w # 0 THEN BN_MASK2 ELSE 0
    /\ op = "ct_eq_zero_mask" => res[1] = IF w = 0 THEN BN_MASK2 ELSE 0

(***************************************************************************)
(* What section 4.6 of the design says of the add and subtract            *)
(* primitives: their carry and borrow are 0 or 1.                         *)
(***************************************************************************)
CarriesAreBits ==
  (res # <<>> /\ op \in {"addw", "addw_addw", "subw", "subw_subw"}) =>
    res[1] \in {0, 1}
=============================================================================
