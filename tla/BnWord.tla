------------------------------- MODULE BnWord -------------------------------
(***************************************************************************)
(* The word primitives of lib/libcrypto/bn/bn_internal.h: constant-time    *)
(* zero tests, and single-word add, subtract and multiply with a carry,    *)
(* borrow or high word.  A BN_ULONG is a natural below 2^BN_BITS2 and C's  *)
(* unsigned arithmetic wraps modulo 2^BN_BITS2 (Wrap).                     *)
(*                                                                         *)
(* The macros of bn.h are constants, related by BnMacrosAssumption.        *)
(* BN_LLONG says whether the build has a double-width type: with it,       *)
(* bn_addw and bn_umul_hilo use it; without it, the portable code below    *)
(* computes the carry from top bits and the product from half words.       *)
(***************************************************************************)
EXTENDS Integers

CONSTANTS BN_BITS2, BN_BITS4, BN_TBIT, BN_MASK2, BN_MASK2l, BN_LLONG

\* bn.h: BN_TBIT is the top bit of a word, BN_MASK2 all its bits, BN_MASK2l
\* those of its low half.
ASSUME BnMacrosAssumption ==
  /\ BN_BITS4 \in Nat \ {0}
  /\ BN_BITS2 = 2 * BN_BITS4
  /\ BN_TBIT = 2^(BN_BITS2 - 1)
  /\ BN_MASK2 = 2^BN_BITS2 - 1
  /\ BN_MASK2l = 2^BN_BITS4 - 1
  /\ BN_MASK2l \in Nat \ {0}
  /\ BN_TBIT \in Nat \ {0, 1}
  /\ BN_MASK2 = 2 * BN_TBIT - 1
  /\ (BN_MASK2l + 1) * (BN_MASK2l + 1) = BN_MASK2 + 1
  /\ BN_LLONG \in BOOLEAN

Word == 0..BN_MASK2

\* Unsigned wrap-around of BN_ULONG arithmetic.
Wrap(x) == x % (BN_MASK2 + 1)

\* x >> (BN_BITS2 - 1) = 1 for a word x.  That shift keeps the top bit
\* alone, so in the carry formulas below |, & and ~ act on top bits only.
Msb(x) == x \div BN_TBIT = 1

\* x >> BN_BITS4 and x & BN_MASK2l: the high and the low half of a word.
Hi(x) == x \div (BN_MASK2l + 1)
Lo(x) == x % (BN_MASK2l + 1)

(***************************************************************************)
(* The constant-time zero tests.  bn_ct_ne_zero takes the top bit of       *)
(* w | ~(w - 1): w - 1 wraps to BN_MASK2 for w = 0.                        *)
(***************************************************************************)
\* Mutant: w - 1 computed in a signed type, without the wrap.
BnCtNeZeroSigned(w) == IF Msb(w) \/ ~Msb(w - 1) THEN 1 ELSE 0

BnCtNeZero(w) ==
  IF Msb(w) \/ ~Msb(Wrap(w - 1)) THEN 1 ELSE 0

BnCtNeZeroMask(w) == Wrap(0 - BnCtNeZero(w))

BnCtEqZero(w) == 1 - BnCtNeZero(w)

BnCtEqZeroMask(w) == Wrap(0 - BnCtEqZero(w))

(***************************************************************************)
(* The carry out of s = x + y (wrapped), as the portable bn_addw computes  *)
(* it: ((x | y) & ~s) | (x & y), shifted down to its top bit.              *)
(***************************************************************************)
AddCarry(x, y, s) ==
  IF ((Msb(x) \/ Msb(y)) /\ ~Msb(s)) \/ (Msb(x) /\ Msb(y)) THEN 1 ELSE 0

\* bn_addw with a double-width type: r1 and r0 are the halves of a + b.
BnAddwLLong(a, b) == <<(a + b) \div (BN_MASK2 + 1), Wrap(a + b)>>

\* bn_addw without one.
BnAddwPortable(a, b) == <<AddCarry(a, b, Wrap(a + b)), Wrap(a + b)>>

BnAddw(a, b) == IF BN_LLONG THEN BnAddwLLong(a, b) ELSE BnAddwPortable(a, b)

\* bn_addw_addw: (r1:r0) = a + b + c by two bn_addw.
BnAddwAddw(a, b, c) ==
  LET s1 == BnAddw(a, b)
      s2 == BnAddw(s1[2], c)
  IN <<Wrap(s1[1] + s2[1]), s2[2]>>

\* Mutant: the borrow formula without its b & ~a term.
BnSubwNoBAndNotA(a, b) ==
  LET r0 == Wrap(a - b)
  IN <<IF Msb(r0) /\ (Msb(b) \/ ~Msb(a)) THEN 1 ELSE 0, r0>>

\* bn_subw: r0 = a - b wrapped, and the borrow as the top bit of
\* (r0 | (b & ~a)) & (b | ~a).
BnSubw(a, b) ==
  LET r0 == Wrap(a - b)
  IN <<IF (Msb(r0) \/ (Msb(b) /\ ~Msb(a))) /\ (Msb(b) \/ ~Msb(a))
       THEN 1 ELSE 0,
       r0>>

\* bn_subw_subw: r0 = a - b - c by two bn_subw; the borrows are added.
BnSubwSubw(a, b, c) ==
  LET d1 == BnSubw(a, b)
      d2 == BnSubw(d1[2], c)
  IN <<Wrap(d1[1] + d2[1]), d2[2]>>

\* bn_umul_hilo with a double-width type.
BnUmulHiloLLong(a, b) == <<(a * b) \div (BN_MASK2 + 1), Wrap(a * b)>>

\* Mutant: the carry out of l + (x << BN_BITS4) is dropped.
AddPartialNoCarry(h, l, x) ==
  LET xs == Wrap(x * (BN_MASK2l + 1))
  IN <<Wrap(h + Hi(x)), Wrap(l + xs)>>

(***************************************************************************)
(* One partial product of the portable bn_umul_hilo: x = ah * bl (or      *)
(* bh * al) is split across (h:l), its high half added to h, its low half *)
(* shifted up and added to l, and the carry of that addition added to h.  *)
(***************************************************************************)
AddPartial(h, l, x) ==
  LET xs == Wrap(x * (BN_MASK2l + 1))
      l2 == Wrap(l + xs)
  IN <<Wrap(Wrap(h + Hi(x)) + AddCarry(l, xs, l2)), l2>>

\* bn_umul_hilo without a double-width type (the "#if 1" version).
BnUmulHiloPortable(a, b) ==
  LET p1 == AddPartial(Wrap(Hi(a) * Hi(b)), Wrap(Lo(a) * Lo(b)),
                       Wrap(Hi(a) * Lo(b)))
  IN AddPartial(p1[1], p1[2], Wrap(Hi(b) * Lo(a)))

BnUmulHilo(a, b) ==
  IF BN_LLONG THEN BnUmulHiloLLong(a, b) ELSE BnUmulHiloPortable(a, b)

\* bn_umul_lo: the wrapped product.
BnUmulLo(a, b) == Wrap(a * b)

\* bn_umul_hi: the high word of bn_umul_hilo.
BnUmulHi(a, b) == BnUmulHilo(a, b)[1]

\* bn_mulw_addw: (r1:r0) = a * b + c.
BnMulwAddw(a, b, c) ==
  LET p == BnUmulHilo(a, b)
      s == BnAddw(p[2], c)
  IN <<Wrap(p[1] + s[1]), s[2]>>

\* bn_mulw_addw_addw: (r1:r0) = a * b + c + d.
BnMulwAddwAddw(a, b, c, d) ==
  LET p == BnMulwAddw(a, b, c)
      s == BnAddw(p[2], d)
  IN <<Wrap(p[1] + s[1]), s[2]>>

\* bn_mulw_addtw: (r2:r1:r0) = a * b + (c2:c1:c0); c2 + carry wraps.
BnMulwAddtw(a, b, c2, c1, c0) ==
  LET x == BnUmulHilo(a, b)
      s0 == BnAddw(c0, x[2])
      x1 == Wrap(x[1] + s0[1])
      s1 == BnAddw(c1, x1)
  IN <<Wrap(c2 + s1[1]), s1[2], s0[2]>>
=============================================================================
