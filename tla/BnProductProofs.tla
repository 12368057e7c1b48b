---------------------------- MODULE BnProductProofs ----------------------------
(***************************************************************************)
(* Proofs that the multiply primitives of bn_internal.h compute the exact  *)
(* double-word (and, for bn_mulw_addtw, triple-word) result for every word *)
(* size, with and without a double-width type.  The portable bn_umul_hilo  *)
(* is the schoolbook product of half words: H = 2^BN_BITS4 is the weight   *)
(* of a high half, and H * H = 2^BN_BITS2.                                 *)
(***************************************************************************)
EXTENDS BnWordProofs

H == BN_MASK2l + 1

\* The half-word weight.
LEMMA HalfFacts ==
  /\ H \in Nat \ {0, 1}
  /\ H * H = Base
  /\ Base \in Nat \ {0, 1, 2, 3}
  <1>1. H \in Nat \ {0, 1}
    BY BnMacrosAssumption DEF H
  <1>2. H * H = Base
    BY BnMacrosAssumption DEF H, Base
  <1>3. Base \in Nat \ {0, 1, 2, 3}
    BY <1>1, <1>2
  <1>. QED  BY <1>1, <1>2, <1>3

(***************************************************************************)
(* Division with remainder by a positive divisor d: the quotient and the   *)
(* remainder are the unique q and r with n = q * d + r and 0 <= r < d.     *)
(***************************************************************************)
LEMMA DivMod ==
  ASSUME NEW n \in Nat, NEW d \in Nat \ {0}
  PROVE  /\ n = (n \div d) * d + (n % d)
         /\ n \div d \in Nat
         /\ n % d \in 0..d - 1
  OBVIOUS

LEMMA DivModUnique ==
  ASSUME NEW n \in Nat, NEW d \in Nat \ {0}, NEW q \in Nat, NEW r \in 0..d - 1,
         n = q * d + r
  PROVE  n \div d = q /\ n % d = r
  OBVIOUS

\* The halves of a word are below H.
LEMMA HalvesOfWord ==
  ASSUME NEW x \in Word
  PROVE  /\ Hi(x) \in 0..H - 1
         /\ Lo(x) \in 0..H - 1
         /\ x = Hi(x) * H + Lo(x)
  <1>1. x = Hi(x) * H + Lo(x) /\ Hi(x) \in Nat /\ Lo(x) \in 0..H - 1
    <2>1. x \in Nat /\ H \in Nat \ {0}
      BY HalfFacts DEF Word
    <2>2. Hi(x) = x \div H /\ Lo(x) = x % H
      BY DEF Hi, Lo, H
    <2>3. x = (x \div H) * H + (x % H) /\ x \div H \in Nat /\ x % H \in 0..H - 1
      BY <2>1, DivMod
    <2>. QED  BY <2>2, <2>3
  <1>2. x < H * H
    BY HalfFacts, BaseFacts DEF Word
  <1>3. Hi(x) < H
    <2>1. Hi(x) >= H => Hi(x) * H >= H * H
      BY <1>1, HalfFacts
    <2>. QED  BY <1>1, <1>2, <2>1, HalfFacts
  <1>. QED  BY <1>1, <1>3, HalfFacts

\* A product of two half words is a word.
LEMMA HalfProduct ==
  ASSUME NEW p \in 0..H - 1, NEW q \in 0..H - 1
  PROVE  p * q \in Word /\ Wrap(p * q) = p * q
  <1>1. p * q <= (H - 1) * (H - 1)
    BY HalfFacts
  <1>2. p * q \in 0..Base - 1
    BY <1>1, HalfFacts
  <1>. QED  BY <1>2, BaseFacts DEF Word, Wrap

\* Wrap is the remainder by Base.
LEMMA WrapMod ==
  ASSUME NEW n \in Nat
  PROVE  /\ Wrap(n) = n % Base
         /\ Wrap(n) \in Word
         /\ n = (n \div Base) * Base + Wrap(n)
  <1>1. Wrap(n) = n % Base
    BY DEF Wrap, Base
  <1>2. n = (n \div Base) * Base + (n % Base) /\ n % Base \in 0..Base - 1
    BY BaseFacts, DivMod
  <1>. QED  BY <1>1, <1>2, BaseFacts DEF Word

\* A word does not wrap.
LEMMA WrapWord ==
  ASSUME NEW n \in Word
  PROVE  Wrap(n) = n
  <1>1. n \in Nat /\ n \in 0..Base - 1 /\ n = 0 * Base + n
    BY BaseFacts DEF Word
  <1>2. n % Base = n
    BY <1>1, BaseFacts, DivModUnique
  <1>. QED  BY <1>1, <1>2, WrapMod

(***************************************************************************)
(* x << BN_BITS4 keeps the low half of x, shifted into the high half of    *)
(* the word: the high half of x is what the shift loses.                   *)
(***************************************************************************)
LEMMA ShiftLo ==
  ASSUME NEW x \in Word
  PROVE  /\ Wrap(x * H) = Lo(x) * H
         /\ x * H = Hi(x) * Base + Lo(x) * H
  <1>1. x = Hi(x) * H + Lo(x) /\ Hi(x) \in 0..H - 1 /\ Lo(x) \in 0..H - 1
    BY HalvesOfWord
  <1>2. x * H = Hi(x) * Base + Lo(x) * H
    BY <1>1, HalfFacts
  <1>3. Lo(x) * H \in 0..Base - 1
    <2>1. Lo(x) * H <= (H - 1) * H
      BY <1>1, HalfFacts
    <2>. QED  BY <1>1, <2>1, HalfFacts
  <1>4. x * H \in Nat
    BY HalfFacts DEF Word
  <1>5. PICK n \in Nat : n = x * H
    BY <1>4
  <1>6. PICK q \in Nat : q = Hi(x)
    BY <1>1
  <1>7. PICK r \in 0..Base - 1 : r = Lo(x) * H
    BY <1>3
  <1>8. n % Base = r
    <2>1. n = q * Base + r
      BY <1>2, <1>5, <1>6, <1>7
    <2>. QED  BY <2>1, BaseFacts, DivModUnique
  <1>. QED  BY <1>2, <1>5, <1>7, <1>8, WrapMod

\* The product of two words fits in two words.
LEMMA WordProduct ==
  ASSUME NEW a \in Word, NEW b \in Word
  PROVE  /\ a * b \in Nat
         /\ a * b <= (Base - 1) * (Base - 1)
         /\ a * b <= Base * Base - 2 * Base + 1
  <1>1. a * b <= (Base - 1) * b /\ (Base - 1) * b <= (Base - 1) * (Base - 1)
    BY BaseFacts DEF Word
  <1>. QED  BY <1>1, BaseFacts DEF Word

(***************************************************************************)
(* One partial product of the portable bn_umul_hilo: when the double word  *)
(* (h:l) plus x << BN_BITS4 still fits in two words, AddPartial returns    *)
(* exactly that sum.                                                       *)
(***************************************************************************)
LEMMA AddPartialCorrect ==
  ASSUME NEW h \in Word, NEW l \in Word, NEW x \in Word,
         h * Base + l + x * H < Base * Base
  PROVE  /\ AddPartial(h, l, x)[1] \in Word
         /\ AddPartial(h, l, x)[2] \in Word
         /\ AddPartial(h, l, x)[1] * Base + AddPartial(h, l, x)[2]
              = h * Base + l + x * H
  <1>1. PICK xs \in Word : xs = Wrap(x * H) /\ xs = Lo(x) * H
    <2>1. x * H \in Nat
      BY HalfFacts DEF Word
    <2>. QED  BY <2>1, ShiftLo, WrapMod
  <1>2. PICK hx \in 0..H - 1 : hx = Hi(x) /\ x * H = hx * Base + xs
    BY <1>1, ShiftLo, HalvesOfWord
  <1>3. PICK l2 \in Word : l2 = Wrap(l + xs)
    BY WrapMod DEF Word
  <1>4. PICK c \in {0, 1} : c = AddCarry(l, xs, l2) /\ c * Base + l2 = l + xs
    BY <1>3, AddCarryCorrect
  <1>5. hx \in Nat /\ H <= Base
    BY HalfFacts
  <1>6. (h + hx + c) * Base = h * Base + hx * Base + c * Base
    BY <1>5, BaseFacts DEF Word
  <1>7. (h + hx + c) * Base + l2 = h * Base + l + x * H
    BY <1>2, <1>4, <1>5, <1>6, BaseFacts, HalfFacts DEF Word
  <1>8. h + hx + c \in Word
    <2>1. (h + hx + c) * Base < Base * Base
      BY <1>7, BaseFacts DEF Word
    <2>2. h + hx + c >= Base => (h + hx + c) * Base >= Base * Base
      BY <1>5, BaseFacts DEF Word
    <2>. QED  BY <2>1, <2>2, <1>5, BaseFacts DEF Word
  <1>9. Wrap(Wrap(h + hx) + c) = h + hx + c
    <2>1. h + hx \in Word
      BY <1>4, <1>5, <1>8, BaseFacts DEF Word
    <2>2. Wrap(h + hx) = h + hx
      BY <2>1, WrapWord
    <2>. QED  BY <2>2, <1>8, WrapWord
  <1>10. AddPartial(h, l, x) = <<h + hx + c, l2>>
    BY <1>1, <1>2, <1>3, <1>4, <1>9 DEF AddPartial, H
  <1>. QED  BY <1>3, <1>7, <1>8, <1>10

\* A double word below Base * Base has a high word that is a word.
LEMMA HighWord ==
  ASSUME NEW q \in Nat, NEW r \in Nat, q * Base + r < Base * Base
  PROVE  q \in Word
  <1>1. q >= Base => q * Base >= Base * Base
    BY BaseFacts
  <1>. QED  BY <1>1, BaseFacts DEF Word

(***************************************************************************)
(* bn_umul_hilo, in either build, returns the high and the low word of the *)
(* product.  The portable code adds the two middle products ah * bl and    *)
(* bh * al, shifted by half a word, to (ah * bh : al * bl); each addition  *)
(* fits in two words because the whole product does.                       *)
(***************************************************************************)
LEMMA UmulHiloCorrect ==
  ASSUME NEW a \in Word, NEW b \in Word
  PROVE  /\ BnUmulHilo(a, b)[1] \in Word
         /\ BnUmulHilo(a, b)[2] \in Word
         /\ BnUmulHilo(a, b)[1] * Base + BnUmulHilo(a, b)[2] = a * b
  <1>1. PICK n \in Nat : n = a * b /\ n <= Base * Base - 2 * Base + 1
    BY WordProduct
  <1>2. n < Base * Base
    BY <1>1, BaseFacts
  <1>3. CASE BN_LLONG
    <2>1. BnUmulHilo(a, b) = <<n \div Base, Wrap(n)>>
      BY <1>1, <1>3 DEF BnUmulHilo, BnUmulHiloLLong, Base
    <2>2. n = (n \div Base) * Base + Wrap(n) /\ Wrap(n) \in Word
      BY WrapMod
    <2>3. n \div Base \in Word
      <3>1. PICK q \in Nat : q = n \div Base
        BY BaseFacts, DivMod
      <3>2. PICK w \in Nat : w = Wrap(n)
        BY <2>2 DEF Word
      <3>. QED  BY <1>2, <2>2, <3>1, <3>2, HighWord
    <2>. QED  BY <1>1, <2>1, <2>2, <2>3
  <1>4. CASE ~BN_LLONG
    <2>1. PICK ah \in 0..H - 1 : ah = Hi(a)
      BY HalvesOfWord
    <2>2. PICK al \in 0..H - 1 : al = Lo(a) /\ a = ah * H + al
      BY <2>1, HalvesOfWord
    <2>3. PICK bh \in 0..H - 1 : bh = Hi(b)
      BY HalvesOfWord
    <2>4. PICK bl \in 0..H - 1 : bl = Lo(b) /\ b = bh * H + bl
      BY <2>3, HalvesOfWord
    <2>5. PICK hh \in Word : hh = ah * bh /\ Wrap(ah * bh) = hh
      BY HalfProduct
    <2>6. PICK ll \in Word : ll = al * bl /\ Wrap(al * bl) = ll
      BY HalfProduct
    <2>7. PICK x1 \in Word : x1 = ah * bl /\ Wrap(ah * bl) = x1
      BY HalfProduct
    <2>8. PICK x2 \in Word : x2 = bh * al /\ Wrap(bh * al) = x2
      BY HalfProduct
    <2>9. n = hh * Base + ll + x1 * H + x2 * H
      <3>1. a * b = ah * bh * (H * H) + ah * bl * H + al * bh * H + al * bl
        BY <2>2, <2>4, HalfFacts
      <3>. QED  BY <1>1, <3>1, <2>5, <2>6, <2>7, <2>8, HalfFacts
    <2>10. x2 * H \in Nat /\ hh * Base + ll + x1 * H \in Nat
      BY BaseFacts, HalfFacts DEF Word
    <2>11. PICK p1 \in Word \X Word :
             /\ p1 = AddPartial(hh, ll, x1)
             /\ p1[1] * Base + p1[2] = hh * Base + ll + x1 * H
      <3>1. hh * Base + ll + x1 * H < Base * Base
        BY <1>2, <2>9, <2>10, BaseFacts, HalfFacts DEF Word
      <3>2. /\ AddPartial(hh, ll, x1)[1] \in Word
            /\ AddPartial(hh, ll, x1)[2] \in Word
            /\ AddPartial(hh, ll, x1)[1] * Base + AddPartial(hh, ll, x1)[2]
                 = hh * Base + ll + x1 * H
        BY <3>1, AddPartialCorrect
      <3>3. AddPartial(hh, ll, x1) \in Word \X Word
        BY <3>2 DEF AddPartial
      <3>. QED  BY <3>2, <3>3
    <2>12. PICK ph \in Word : ph = p1[1]
      OBVIOUS
    <2>13. PICK pl \in Word : pl = p1[2]
      OBVIOUS
    <2>14. ph * Base + pl + x2 * H < Base * Base
      BY <1>2, <2>9, <2>11, <2>12, <2>13
    <2>15. BnUmulHilo(a, b) = AddPartial(ph, pl, x2)
      BY <2>1, <2>2, <2>3, <2>4, <2>5, <2>6, <2>7, <2>8, <2>11, <2>12, <2>13, <1>4
         DEF BnUmulHilo, BnUmulHiloPortable
    <2>16. /\ AddPartial(ph, pl, x2)[1] \in Word
           /\ AddPartial(ph, pl, x2)[2] \in Word
           /\ AddPartial(ph, pl, x2)[1] * Base + AddPartial(ph, pl, x2)[2]
                = ph * Base + pl + x2 * H
      BY <2>14, AddPartialCorrect
    <2>. QED  BY <1>1, <2>9, <2>11, <2>12, <2>13, <2>15, <2>16
  <1>. QED  BY <1>3, <1>4

(***************************************************************************)
(* bn_mulw_addw: a * b + c fits in two words, with room for one more word  *)
(* below Base * Base, so the carry into the high word never wraps.         *)
(***************************************************************************)
LEMMA MulwAddwCorrect ==
  ASSUME NEW a \in Word, NEW b \in Word, NEW c \in Word
  PROVE  /\ BnMulwAddw(a, b, c)[1] \in Word
         /\ BnMulwAddw(a, b, c)[2] \in Word
         /\ BnMulwAddw(a, b, c)[1] * Base + BnMulwAddw(a, b, c)[2] = a * b + c
         /\ a * b + c <= Base * Base - Base
  <1>1. PICK n \in Nat : n = a * b /\ n <= Base * Base - 2 * Base + 1
    BY WordProduct
  <1>2. PICK ph \in Word : ph = BnUmulHilo(a, b)[1]
    BY UmulHiloCorrect
  <1>3. PICK pl \in Word : pl = BnUmulHilo(a, b)[2] /\ ph * Base + pl = n
    BY <1>1, <1>2, UmulHiloCorrect
  <1>4. PICK s1 \in {0, 1} : s1 = BnAddw(pl, c)[1]
    BY AddwCorrect
  <1>5. PICK s2 \in Word : s2 = BnAddw(pl, c)[2] /\ s1 * Base + s2 = pl + c
    BY <1>4, AddwCorrect
  <1>6. (ph + s1) * Base + s2 = n + c
    <2>0. s1 \in Nat /\ ph \in Nat /\ pl \in Nat /\ s2 \in Nat /\ Base \in Nat
      BY BaseFacts DEF Word
    <2>1. (ph + s1) * Base = ph * Base + s1 * Base
      BY <2>0
    <2>2. ph * Base + pl = n
      BY <1>3
    <2>3. s1 * Base + s2 = pl + c
      BY <1>5
    <2>. QED  BY <2>0, <2>1, <2>2, <2>3
  <1>7. n + c <= Base * Base - Base
    BY <1>1, BaseFacts DEF Word
  <1>8. ph + s1 \in Word
    <2>1. PICK q \in Nat : q = ph + s1
      BY DEF Word
    <2>. QED  BY <1>6, <1>7, <2>1, BaseFacts, HighWord DEF Word
  <1>9. BnMulwAddw(a, b, c) = <<ph + s1, s2>>
    BY <1>2, <1>3, <1>4, <1>5, <1>8, WrapWord DEF BnMulwAddw
  <1>. QED  BY <1>1, <1>6, <1>7, <1>8, <1>9

\* bn_mulw_addw_addw: a * b + c + d still fits in two words.
LEMMA MulwAddwAddwCorrect ==
  ASSUME NEW a \in Word, NEW b \in Word, NEW c \in Word, NEW d \in Word
  PROVE  /\ BnMulwAddwAddw(a, b, c, d)[1] \in Word
         /\ BnMulwAddwAddw(a, b, c, d)[2] \in Word
         /\ BnMulwAddwAddw(a, b, c, d)[1] * Base + BnMulwAddwAddw(a, b, c, d)[2]
              = a * b + c + d
  <1>1. PICK n \in Nat : n = a * b
    BY WordProduct
  <1>2. PICK ph \in Word : ph = BnMulwAddw(a, b, c)[1]
    BY MulwAddwCorrect
  <1>3. PICK pl \in Word : pl = BnMulwAddw(a, b, c)[2] /\ ph * Base + pl = n + c
                            /\ n + c <= Base * Base - Base
    BY <1>1, <1>2, MulwAddwCorrect
  <1>4. PICK s1 \in {0, 1} : s1 = BnAddw(pl, d)[1]
    BY AddwCorrect
  <1>5. PICK s2 \in Word : s2 = BnAddw(pl, d)[2] /\ s1 * Base + s2 = pl + d
    BY <1>4, AddwCorrect
  <1>6. (ph + s1) * Base + s2 = n + c + d
    <2>0. s1 \in Nat /\ ph \in Nat /\ pl \in Nat /\ s2 \in Nat /\ Base \in Nat
      BY BaseFacts DEF Word
    <2>1. (ph + s1) * Base = ph * Base + s1 * Base
      BY <2>0
    <2>2. ph * Base + pl = n + c
      BY <1>3
    <2>3. s1 * Base + s2 = pl + d
      BY <1>5
    <2>. QED  BY <2>0, <2>1, <2>2, <2>3
  <1>7. n + c + d < Base * Base
    BY <1>3, BaseFacts DEF Word
  <1>8. ph + s1 \in Word
    <2>1. PICK q \in Nat : q = ph + s1
      BY DEF Word
    <2>. QED  BY <1>6, <1>7, <2>1, BaseFacts, HighWord DEF Word
  <1>9. BnMulwAddwAddw(a, b, c, d) = <<ph + s1, s2>>
    BY <1>2, <1>3, <1>4, <1>5, <1>8, WrapWord DEF BnMulwAddwAddw
  <1>. QED  BY <1>1, <1>6, <1>8, <1>9

(***************************************************************************)
(* bn_mulw_addtw: when (c2:c1:c0) + a * b does not overflow c2, as the    *)
(* function's comment requires of its caller, the triple word it returns  *)
(* is exact.  The high word of a * b is at most Base - 2, so adding the    *)
(* first carry to it (x1 += carry) never wraps.                            *)
(***************************************************************************)
LEMMA MulwAddtwCorrect ==
  ASSUME NEW a \in Word, NEW b \in Word, NEW c2 \in Word, NEW c1 \in Word,
         NEW c0 \in Word,
         a * b + c2 * Base * Base + c1 * Base + c0 < Base * Base * Base
  PROVE  /\ BnMulwAddtw(a, b, c2, c1, c0)[1] * Base * Base
              + BnMulwAddtw(a, b, c2, c1, c0)[2] * Base
              + BnMulwAddtw(a, b, c2, c1, c0)[3]
              = a * b + c2 * Base * Base + c1 * Base + c0
         /\ \A k \in 1..3 : BnMulwAddtw(a, b, c2, c1, c0)[k] \in Word
  <1>0. Base \in Nat \ {0}
    BY BaseFacts
  <1>1. PICK n \in Nat : n = a * b /\ n <= Base * Base - 2 * Base + 1
    BY WordProduct
  <1>2. PICK xh \in Word : xh = BnUmulHilo(a, b)[1]
    BY UmulHiloCorrect
  <1>3. PICK xl \in Word : xl = BnUmulHilo(a, b)[2] /\ xh * Base + xl = n
    BY <1>1, <1>2, UmulHiloCorrect
  <1>4. xh <= Base - 2
    <2>1. xh * Base + xl = n
      BY <1>3
    <2>2. xh >= Base - 1 => xh * Base >= (Base - 1) * Base
      BY <1>0, BaseFacts DEF Word
    <2>3. n <= Base * Base - 2 * Base + 1
      BY <1>1
    <2>4. (Base - 1) * Base = Base * Base - Base /\ Base >= 4
      BY HalfFacts
    <2>5. xl \in Nat /\ xh \in Nat
      BY BaseFacts DEF Word
    <2>. QED  BY <1>0, <2>1, <2>2, <2>3, <2>4, <2>5
  <1>5. PICK s0c \in {0, 1} : s0c = BnAddw(c0, xl)[1]
    BY AddwCorrect
  <1>6. PICK s0w \in Word : s0w = BnAddw(c0, xl)[2] /\ s0c * Base + s0w = c0 + xl
    BY <1>5, AddwCorrect
  <1>7. PICK x1 \in Word : x1 = xh + s0c /\ Wrap(xh + s0c) = x1
    <2>1. xh + s0c \in Word
      BY <1>0, <1>4, BaseFacts DEF Word
    <2>. QED  BY <2>1, WrapWord
  <1>8. PICK s1c \in {0, 1} : s1c = BnAddw(c1, x1)[1]
    BY AddwCorrect
  <1>9. PICK s1w \in Word : s1w = BnAddw(c1, x1)[2] /\ s1c * Base + s1w = c1 + x1
    BY <1>8, AddwCorrect
  <1>10. (c2 + s1c) * Base * Base + s1w * Base + s0w
           = n + c2 * Base * Base + c1 * Base + c0
    <2>0. s0c \in Nat /\ s1c \in Nat /\ c2 \in Nat /\ c1 \in Nat /\ xh \in Nat
          /\ s1w \in Nat /\ s0w \in Nat /\ xl \in Nat
      BY DEF Word
    <2>1. xh * Base + xl = n
      BY <1>3
    <2>2. s0c * Base + s0w = c0 + xl
      BY <1>6
    <2>3. x1 = xh + s0c
      BY <1>7
    <2>4. s1c * Base + s1w = c1 + x1
      BY <1>9
    <2>5. (c2 + s1c) * Base * Base + s1w * Base
            = c2 * Base * Base + (s1c * Base + s1w) * Base
      BY <1>0, <2>0
    <2>6. (c1 + xh + s0c) * Base = c1 * Base + xh * Base + s0c * Base
      BY <1>0, <2>0
    <2>. QED  BY <1>0, <2>0, <2>1, <2>2, <2>3, <2>4, <2>5, <2>6
  <1>11. c2 + s1c \in Word
    <2>1. (c2 + s1c) * Base * Base < Base * Base * Base
      BY <1>0, <1>1, <1>10 DEF Word
    <2>2. c2 + s1c >= Base => (c2 + s1c) * (Base * Base) >= Base * (Base * Base)
      BY <1>0, BaseFacts DEF Word
    <2>3. /\ (c2 + s1c) * Base * Base = (c2 + s1c) * (Base * Base)
          /\ Base * Base * Base = Base * (Base * Base)
      BY <1>0, BaseFacts DEF Word
    <2>. QED  BY <1>0, <2>1, <2>2, <2>3, BaseFacts DEF Word
  <1>12. BnMulwAddtw(a, b, c2, c1, c0) = <<c2 + s1c, s1w, s0w>>
    BY <1>2, <1>3, <1>5, <1>6, <1>7, <1>8, <1>9, <1>11, WrapWord DEF BnMulwAddtw
  <1>. QED  BY <1>1, <1>10, <1>11, <1>12

-----------------------------------------------------------------------------
\* The arguments of a call, named.
LEMMA ArgsOfCall ==
  ASSUME CallInv
  PROVE  /\ Arity[op] >= 2 => args[1] \in Word /\ args[2] \in Word
         /\ Arity[op] >= 3 => args[3] \in Word
         /\ Arity[op] >= 4 => args[4] \in Word
         /\ Arity[op] >= 5 => args[5] \in Word
         /\ Arity[op] >= 1 => args[1] \in Word
  BY DEF CallInv, Arity, Ops

LEMMA CallInvProduct == CallInv => ProductIdentity
  <1> SUFFICES ASSUME CallInv, res # <<>>
               PROVE  ProductIdentity
    BY DEF ProductIdentity
  <1>1. res = Result(op, args)
    BY DEF CallInv
  <1>2. PICK a \in Word : a = args[1]
    BY ArgsOfCall DEF CallInv, Arity, Ops
  <1>3. ASSUME op = "umul_hilo" PROVE res[1] * Base + res[2] = a * args[2]
    <2>1. PICK b \in Word : b = args[2]
      BY <1>3, ArgsOfCall DEF Arity
    <2>2. res = BnUmulHilo(a, b)
      BY <1>1, <1>2, <1>3, <2>1 DEF Result
    <2>. QED  BY <2>1, <2>2, UmulHiloCorrect
  <1>4. ASSUME op = "umul_lo" PROVE res[1] = (a * args[2]) % Base
    <2>1. PICK b \in Word : b = args[2]
      BY <1>4, ArgsOfCall DEF Arity
    <2>2. res = <<BnUmulLo(a, b)>>
      BY <1>1, <1>2, <1>4, <2>1 DEF Result
    <2>3. PICK n \in Nat : n = a * b
      BY WordProduct
    <2>4. Wrap(n) = n % Base
      BY WrapMod
    <2>. QED  BY <2>1, <2>2, <2>3, <2>4 DEF BnUmulLo
  <1>5. ASSUME op = "umul_hi" PROVE res[1] = (a * args[2]) \div Base
    <2>1. PICK b \in Word : b = args[2]
      BY <1>5, ArgsOfCall DEF Arity
    <2>2. res = <<BnUmulHilo(a, b)[1]>>
      BY <1>1, <1>2, <1>5, <2>1 DEF Result, BnUmulHi
    <2>3. PICK n \in Nat : n = a * b
      BY WordProduct
    <2>4. PICK q \in Word : q = BnUmulHilo(a, b)[1]
      BY UmulHiloCorrect
    <2>5. PICK r \in Word : r = BnUmulHilo(a, b)[2] /\ q * Base + r = n
      BY <2>3, <2>4, UmulHiloCorrect
    <2>6. n \div Base = q
      <3>1. q \in Nat /\ r \in 0..Base - 1
        BY BaseFacts DEF Word
      <3>2. n = q * Base + r
        BY <2>5
      <3>. QED  BY <3>1, <3>2, BaseFacts, DivModUnique
    <2>. QED  BY <2>1, <2>2, <2>3, <2>4, <2>6
  <1>6. ASSUME op = "mulw_addw"
        PROVE  res[1] * Base + res[2] = a * args[2] + args[3]
    <2>1. PICK b \in Word : b = args[2]
      BY <1>6, ArgsOfCall DEF Arity
    <2>2. PICK c \in Word : c = args[3]
      BY <1>6, ArgsOfCall DEF Arity
    <2>3. res = BnMulwAddw(a, b, c)
      BY <1>1, <1>2, <1>6, <2>1, <2>2 DEF Result
    <2>. QED  BY <2>1, <2>2, <2>3, MulwAddwCorrect
  <1>7. ASSUME op = "mulw_addw_addw"
        PROVE  res[1] * Base + res[2] = a * args[2] + args[3] + args[4]
    <2>1. PICK b \in Word : b = args[2]
      BY <1>7, ArgsOfCall DEF Arity
    <2>2. PICK c \in Word : c = args[3]
      BY <1>7, ArgsOfCall DEF Arity
    <2>3. PICK d \in Word : d = args[4]
      BY <1>7, ArgsOfCall DEF Arity
    <2>4. res = BnMulwAddwAddw(a, b, c, d)
      BY <1>1, <1>2, <1>7, <2>1, <2>2, <2>3 DEF Result
    <2>. QED  BY <2>1, <2>2, <2>3, <2>4, MulwAddwAddwCorrect
  <1>8. ASSUME op = "mulw_addtw",
               a * args[2] + args[3] * Base * Base + args[4] * Base + args[5]
                 < Base * Base * Base
        PROVE  res[1] * Base * Base + res[2] * Base + res[3]
                 = a * args[2] + args[3] * Base * Base + args[4] * Base + args[5]
    <2>1. PICK b \in Word : b = args[2]
      BY <1>8, ArgsOfCall DEF Arity
    <2>2. PICK c2 \in Word : c2 = args[3]
      BY <1>8, ArgsOfCall DEF Arity
    <2>3. PICK c1 \in Word : c1 = args[4]
      BY <1>8, ArgsOfCall DEF Arity
    <2>4. PICK c0 \in Word : c0 = args[5]
      BY <1>8, ArgsOfCall DEF Arity
    <2>5. res = BnMulwAddtw(a, b, c2, c1, c0)
      BY <1>1, <1>2, <1>8, <2>1, <2>2, <2>3, <2>4 DEF Result
    <2>6. a * b + c2 * Base * Base + c1 * Base + c0 < Base * Base * Base
      BY <1>8, <2>1, <2>2, <2>3, <2>4
    <2>7. BnMulwAddtw(a, b, c2, c1, c0)[1] * Base * Base
            + BnMulwAddtw(a, b, c2, c1, c0)[2] * Base
            + BnMulwAddtw(a, b, c2, c1, c0)[3]
            = a * b + c2 * Base * Base + c1 * Base + c0
      BY <2>6, MulwAddtwCorrect
    <2>. QED  BY <2>1, <2>2, <2>3, <2>4, <2>5, <2>7
  <1>. QED  BY <1>2, <1>3, <1>4, <1>5, <1>6, <1>7, <1>8 DEF ProductIdentity

(***************************************************************************)
(* For every word size and either build, every call of bn_umul_hilo,      *)
(* bn_umul_lo, bn_umul_hi, bn_mulw_addw and bn_mulw_addw_addw returns the *)
(* exact product, and bn_mulw_addtw does so whenever its caller keeps c2  *)
(* from overflowing (ProductIdentity, checked by TLC for 4-bit words).    *)
(***************************************************************************)
THEOREM ProductCorrect == Spec => []ProductIdentity
  <1>1. Init => CallInv
    BY InitCallInv
  <1>2. CallInv /\ [Next]_vars => CallInv'
    BY NextCallInv
  <1>3. CallInv => ProductIdentity
    BY CallInvProduct
  <1>. QED  BY <1>1, <1>2, <1>3, PTL DEF Spec

=============================================================================
