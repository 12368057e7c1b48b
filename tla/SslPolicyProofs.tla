--------------------------- MODULE SslPolicyProofs ---------------------------
(***************************************************************************)
(* Proofs about the default security callback, for every level, every     *)
(* bits value and every protocol version.                                  *)
(***************************************************************************)
EXTENDS SslPolicy, TLAPS

\* The operation codes and protocol versions are distinct literals.
USE DEF SECOP_CIPHER_SUPPORTED, SECOP_CIPHER_SHARED, SECOP_CIPHER_CHECK,
        SECOP_VERSION, SECOP_COMPRESSION, SECOP_TICKET, SECOP_TMP_DH,
        TLS1_VERSION, TLS1_1_VERSION, TLS1_2_VERSION, TLS1_3_VERSION,
        DTLS1_VERSION, DTLS1_2_VERSION

\* The bits minimum of each level 0..5.
MinBits(n) == IF n = 0 THEN 0 ELSE IF n = 1 THEN 80
              ELSE IF n = 2 THEN 112 ELSE IF n = 3 THEN 128
              ELSE IF n = 4 THEN 192 ELSE 256

LEMMA MinimumBitsTable ==
  ASSUME NEW n \in 0..5
  PROVE  LevelToMinimumBits(n).ok /\ LevelToMinimumBits(n).bits = MinBits(n)
<1>1. LevelToMinimumBits(n).ok
  <2>1. n >= 0
    OBVIOUS
  <2>2. QED
    BY <2>1, Zenon DEF LevelToMinimumBits
<1>2. LevelToMinimumBits(n).bits =
        IF n >= 5 THEN 256 ELSE <<0, 80, 112, 128, 192>>[n + 1]
  <2>1. n >= 0
    OBVIOUS
  <2>2. LevelToMinimumBits(n).bits =
          IF n >= 5 THEN 256 ELSE IF n >= 0 THEN <<0, 80, 112, 128, 192>>[n + 1]
          ELSE 0
    BY Zenon DEF LevelToMinimumBits
  <2>3. QED
    BY <2>1, <2>2
<1>3. (IF n >= 5 THEN 256 ELSE <<0, 80, 112, 128, 192>>[n + 1]) = MinBits(n)
  <2>1. CASE n = 0  BY <2>1 DEF MinBits
  <2>2. CASE n = 1  BY <2>2 DEF MinBits
  <2>3. CASE n = 2  BY <2>3 DEF MinBits
  <2>4. CASE n = 3  BY <2>4 DEF MinBits
  <2>5. CASE n = 4  BY <2>5 DEF MinBits
  <2>6. CASE n = 5  BY <2>6 DEF MinBits
  <2>7. QED  BY <2>1, <2>2, <2>3, <2>4, <2>5, <2>6
<1>4. QED
  BY <1>1, <1>2, <1>3

\* ssl_security_level_and_minimum_bits never fails, clamps the level to
\* 0..5, and the level and the bits minimum it returns grow with the level.
LEMMA LevelBitsMonotone ==
  ASSUME NEW l1 \in Int, NEW l2 \in Int, l1 <= l2
  PROVE  LET s1 == LevelAndMinimumBits(l1)
             s2 == LevelAndMinimumBits(l2)
         IN /\ s1.ok /\ s2.ok
            /\ s1.level \in 0..5 /\ s2.level \in 0..5
            /\ s1.level <= s2.level
            /\ s1.bits \in Int /\ s2.bits \in Int
            /\ s1.bits <= s2.bits
            /\ s1.level >= 1 => s1.bits >= 80
<1> DEFINE n1 == NormalizeLevel(l1)
           n2 == NormalizeLevel(l2)
<1>1. n1 \in 0..5 /\ n2 \in 0..5 /\ n1 <= n2
  BY DEF NormalizeLevel
<1>2. /\ LevelToMinimumBits(n1).ok /\ LevelToMinimumBits(n1).bits = MinBits(n1)
      /\ LevelToMinimumBits(n2).ok /\ LevelToMinimumBits(n2).bits = MinBits(n2)
  BY <1>1, MinimumBitsTable
<1>3. /\ MinBits(n1) \in Int /\ MinBits(n2) \in Int
      /\ MinBits(n1) <= MinBits(n2)
      /\ n1 >= 1 => MinBits(n1) >= 80
  BY <1>1 DEF MinBits
<1>4. /\ LevelAndMinimumBits(l1).ok
      /\ LevelAndMinimumBits(l1).level = n1
      /\ LevelAndMinimumBits(l1).bits = MinBits(n1)
      /\ LevelAndMinimumBits(l2).ok
      /\ LevelAndMinimumBits(l2).level = n2
      /\ LevelAndMinimumBits(l2).bits = MinBits(n2)
  BY <1>1, <1>2 DEF LevelAndMinimumBits
<1>5. QED
  BY <1>1, <1>3, <1>4

\* ssl_tls_version returns an integer.
LEMMA TlsVersionInt ==
  ASSUME NEW v
  PROVE  TlsVersion(v) \in Int
BY DEF TlsVersion

\* What the default callback allows at a level it allows at a lower one.
LEMMA DefaultCbMonotone ==
  ASSUME NEW l1 \in Int, NEW l2 \in Int, l1 <= l2,
         NEW o, NEW b \in Int, NEW v, NEW c,
         DefaultCb(l2, o, b, v, c) = 1
  PROVE  DefaultCb(l1, o, b, v, c) = 1
<1> DEFINE s1 == LevelAndMinimumBits(l1)
           s2 == LevelAndMinimumBits(l2)
<1>1. /\ s1.ok /\ s2.ok
      /\ s1.level \in 0..5 /\ s2.level \in 0..5
      /\ s1.level <= s2.level
      /\ s1.bits \in Int /\ s2.bits \in Int
      /\ s1.bits <= s2.bits
      /\ s2.level >= 1 => s2.bits >= 80
  <2>1. LevelAndMinimumBits(l2).level >= 1 => LevelAndMinimumBits(l2).bits >= 80
    BY LevelBitsMonotone
  <2>2. QED
    BY LevelBitsMonotone, <2>1
<1>2. CASE o \in {SECOP_CIPHER_SUPPORTED, SECOP_CIPHER_SHARED, SECOP_CIPHER_CHECK}
  <2>1. SecopCipher(l2, b, c) = 1
    BY <1>2 DEF DefaultCb
  <2>2. SecopCipher(l1, b, c) = 1
    BY <1>1, <2>1 DEF SecopCipher, Answer
  <2>3. QED
    BY <1>2, <2>2 DEF DefaultCb
<1>3. CASE o = SECOP_VERSION
  <2>1. SecopVersion(l2, v) = 1
    BY <1>3 DEF DefaultCb
  <2>2. TlsVersion(v) \in Int
    BY TlsVersionInt
  <2>3. SecopVersion(l1, v) = 1
    BY <1>1, <2>1, <2>2
    DEF SecopVersion, Answer
  <2>4. QED
    BY <1>3, <2>3 DEF DefaultCb
<1>4. CASE o = SECOP_COMPRESSION
  BY <1>4 DEF DefaultCb, SecopCompression, SECOP_COMPRESSION, SECOP_VERSION,
              SECOP_CIPHER_SUPPORTED, SECOP_CIPHER_SHARED, SECOP_CIPHER_CHECK
<1>5. CASE o = SECOP_TICKET
  <2>1. SecopTickets(l2) = 1
    BY <1>5 DEF DefaultCb
  <2>2. SecopTickets(l1) = 1
    BY <1>1, <2>1 DEF SecopTickets, Answer
  <2>3. QED
    BY <1>5, <2>2 DEF DefaultCb
<1>6. CASE o = SECOP_TMP_DH
  <2>1. SecopTmpDh(l2, b) = 1
    BY <1>6 DEF DefaultCb
  <2>2. SecopTmpDh(l1, b) = 1
    BY <1>1, <2>1 DEF SecopTmpDh, Answer
  <2>3. QED
    BY <1>6, <2>2 DEF DefaultCb
<1>7. CASE o \notin {SECOP_CIPHER_SUPPORTED, SECOP_CIPHER_SHARED, SECOP_CIPHER_CHECK,
                     SECOP_VERSION, SECOP_COMPRESSION, SECOP_TICKET, SECOP_TMP_DH}
  <2>1. SecopDefault(l2, b) = 1
    BY <1>7 DEF DefaultCb
  <2>2. SecopDefault(l1, b) = 1
    BY <1>1, <2>1 DEF SecopDefault, Answer
  <2>3. QED
    BY <1>7, <2>2 DEF DefaultCb
<1>8. QED
  BY <1>2, <1>3, <1>4, <1>5, <1>6, <1>7

-----------------------------------------------------------------------------
\* The harness's state stays typed, with the bits an integer.
PolicyInv ==
  /\ level \in Levels
  /\ bits \in Bits
  /\ res = -1 \/ res = DefaultCb(level, op, bits, version, cipher)

LEMMA InitPolicyInv == Init => PolicyInv
BY DEF Init, PolicyInv

LEMMA NextPolicyInv == PolicyInv /\ [Next]_vars => PolicyInv'
BY DEF PolicyInv, Next, Call, vars

LEMMA PolicyInvMonotone == PolicyInv => PolicyMonotone
<1> SUFFICES ASSUME PolicyInv, res = 1, NEW l \in Levels, l <= level
             PROVE  DefaultCb(l, op, bits, version, cipher) = 1
  BY DEF PolicyMonotone
<1>1. res = DefaultCb(level, op, bits, version, cipher)
  BY DEF PolicyInv
<1>2. level \in Int /\ l \in Int /\ bits \in Int
  BY SslPolicyAssumption DEF PolicyInv
<1>3. QED
  BY <1>1, <1>2, DefaultCbMonotone

(***************************************************************************)
(* For every set of levels, bits and versions: whatever the default       *)
(* security callback allows at the SSL object's level, it allows at every *)
(* lower level (PolicyMonotone, which the run policy_levels checks).      *)
(***************************************************************************)
THEOREM PolicyMonotoneCorrect == Spec => []PolicyMonotone
<1>1. Init => PolicyInv
  BY InitPolicyInv
<1>2. PolicyInv /\ [Next]_vars => PolicyInv'
  BY NextPolicyInv
<1>3. PolicyInv => PolicyMonotone
  BY PolicyInvMonotone
<1>4. QED
  BY <1>1, <1>2, <1>3, PTL DEF Spec
====
