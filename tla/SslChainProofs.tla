---------------------------- MODULE SslChainProofs ----------------------------
(***************************************************************************)
(* Proofs about ssl_security_cert_chain, for every stack length, every    *)
(* level, every callback and every ssl_security_cert: the proofs never    *)
(* look inside SecurityCert, so they hold whatever the policy is.         *)
(***************************************************************************)
EXTENDS SslChain, TLAPS

\* The verdict ssl_security_cert_chain has reached when it fails.
FailVerdict ==
  \E k \in 1..NChecked :
    /\ ~Verdict(k).ok
    /\ out_error = Verdict(k).error
    /\ \A j \in 1..(k - 1) : Verdict(j).ok

(***************************************************************************)
(* The inductive invariant: in the loop and at a successful return, the   *)
(* end entity and the CAs sk[start_idx..i-1] have passed, which are the   *)
(* first i - start_idx + 1 certificates of the contract's order.          *)
(***************************************************************************)
IInv ==
  /\ sk \in Seq(Certs)
  /\ i \in Nat
  /\ pc \in {"start", "loop", "done", "fail"}
  /\ pc = "start" => i = 0
  /\ pc \in {"loop", "done"} =>
       /\ StartIdx <= i
       /\ \A k \in 1..(i - StartIdx + 1) : Verdict(k).ok
  /\ pc = "done" => i >= Len(sk)
  /\ pc = "fail" => FailVerdict

LEMMA StartIdxNat == StartIdx \in {0, 1}
BY DEF StartIdx

LEMMA InitIInv == Init => IInv
<1> SUFFICES ASSUME Init PROVE IInv
  OBVIOUS
<1>1. sk \in Seq(Certs)
  <2>1. PICK n \in 0..MaxStack : sk \in [1..n -> Certs]
    BY SslChainAssumption DEF Init, Stacks
  <2>2. QED
    BY <2>1, SslChainAssumption
<1>2. QED
  BY <1>1 DEF Init, IInv

\* The first certificate is checked as the end entity.
LEMMA CheckEeStep == IInv /\ CheckEe => IInv'
<1> SUFFICES ASSUME IInv, CheckEe PROVE IInv'
  OBVIOUS
<1> DEFINE r == SecurityCert(cb, level, EeCert, TRUE)
<1>1. /\ pc = "start" /\ i = 0
      /\ out_error' = r.error
      /\ i' = StartIdx
      /\ pc' = IF r.ok THEN "loop" ELSE "fail"
      /\ UNCHANGED <<sk, x509, level, cb>>
  BY DEF CheckEe, IInv
<1>2. r = Verdict(1) /\ Verdict(1)' = Verdict(1)
  BY <1>1 DEF Verdict, EeCert, SkValue
<1>3. /\ StartIdx' = StartIdx /\ NChecked' = NChecked
      /\ 1 \in 1..NChecked
  BY <1>1, StartIdxNat DEF StartIdx, NChecked
<1>4. CASE r.ok
  <2>1. pc' = "loop" /\ i' = StartIdx
    BY <1>1, <1>4
  <2>2. \A k \in 1..(i' - StartIdx' + 1) : Verdict(k)'.ok
    <3>1. 1..(i' - StartIdx' + 1) = {1}
      BY <1>3, <2>1, StartIdxNat
    <3>2. Verdict(1)'.ok
      BY <1>2, <1>4
    <3>3. QED
      BY <3>1, <3>2
  <2>3. sk' \in Seq(Certs) /\ i' \in Nat /\ StartIdx' <= i'
    BY <1>1, <1>3, <2>1, StartIdxNat DEF IInv
  <2>4. QED
    BY <2>1, <2>2, <2>3 DEF IInv
<1>5. CASE ~r.ok
  <2>1. pc' = "fail"
    BY <1>1, <1>5
  <2>2. FailVerdict'
    <3>1. /\ ~Verdict(1)'.ok
          /\ out_error' = Verdict(1)'.error
          /\ \A j \in 1..(1 - 1) : Verdict(j)'.ok
      <4>1. ~Verdict(1)'.ok
        BY <1>2, <1>5, Zenon
      <4>2. out_error' = Verdict(1)'.error
        BY <1>1, <1>2
      <4>3. 1..(1 - 1) = {}
        OBVIOUS
      <4>4. QED
        BY <4>1, <4>2, <4>3, Zenon
    <3>2. 1 \in 1..NChecked'
      BY <1>3
    <3>3. QED
      BY <3>1, <3>2 DEF FailVerdict
  <2>3. sk' \in Seq(Certs) /\ i' \in Nat
    BY <1>1, StartIdxNat DEF IInv
  <2>4. QED
    BY <2>1, <2>2, <2>3 DEF IInv
<1>6. QED
  BY <1>4, <1>5

\* The verdicts are the inputs' and a step leaves the inputs alone.
LEMMA VerdictUnchanged ==
  ASSUME UNCHANGED <<sk, x509, level, cb>>
  PROVE  /\ \A k \in Int : Verdict(k)' = Verdict(k)
         /\ StartIdx' = StartIdx /\ NChecked' = NChecked
BY DEF Verdict, EeCert, SkValue, StartIdx, NChecked

\* One iteration of the loop checks the next certificate of the order.
LEMMA CheckCaStep == IInv /\ CheckCa => IInv'
<1> SUFFICES ASSUME IInv, CheckCa PROVE IInv'
  OBVIOUS
<1> DEFINE r == SecurityCert(cb, level, SkValue(i), FALSE)
<1>0. i \in Nat /\ StartIdx \in {0, 1}
  BY StartIdxNat DEF IInv
<1>m. PICK m \in Nat : m = i - StartIdx + 2
  BY <1>0
<1>1. /\ pc = "loop" /\ i < Len(sk)
      /\ out_error' = r.error
      /\ i' = IF r.ok THEN i + 1 ELSE i
      /\ pc' = IF r.ok THEN "loop" ELSE "fail"
      /\ UNCHANGED <<sk, x509, level, cb>>
  BY DEF CheckCa
<1>2. /\ i \in Nat /\ StartIdx <= i
      /\ \A k \in 1..(i - StartIdx + 1) : Verdict(k).ok
  BY <1>1 DEF IInv
<1>3. /\ StartIdx \in {0, 1} /\ m \in Nat /\ m >= 2
      /\ m \in 1..NChecked
      /\ StartIdx + m - 1 = i + 1
  BY <1>1, <1>2, <1>m, StartIdxNat DEF NChecked
<1>4. r = Verdict(m)
  <2>1. SkValue(i) = sk[i + 1]
    BY <1>1, <1>2 DEF SkValue
  <2>2. Verdict(m) = SecurityCert(cb, level, sk[StartIdx + m - 1], FALSE)
    <3>1. m # 1
      BY <1>3
    <3>2. QED
      BY <3>1 DEF Verdict
  <2>3. QED
    BY <1>3, <2>1, <2>2
<1>5. /\ \A k \in Int : Verdict(k)' = Verdict(k)
      /\ StartIdx' = StartIdx /\ NChecked' = NChecked
  BY <1>1, VerdictUnchanged
<1>6. sk' \in Seq(Certs)
  BY <1>1 DEF IInv
<1>7. CASE r.ok
  <2>1. i' = i + 1 /\ pc' = "loop"
    BY <1>1, <1>7
  <2>2. \A k \in 1..(i' - StartIdx' + 1) : Verdict(k)'.ok
    <3>1. SUFFICES ASSUME NEW k \in 1..m PROVE Verdict(k)'.ok
      BY <1>0, <1>5, <1>m, <2>1
    <3>0. Verdict(k)' = Verdict(k)
      BY <1>5
    <3>2. CASE k = m
      BY <1>4, <1>7, <3>2, <3>0, Zenon
    <3>3. CASE k # m
      <4>1. k \in 1..(i - StartIdx + 1)
        BY <1>0, <1>m, <3>3
      <4>2. QED
        BY <1>2, <3>0, <4>1
    <3>4. QED
      BY <3>2, <3>3
  <2>3. i' \in Nat /\ StartIdx' <= i'
    BY <1>0, <1>2, <1>5, <2>1
  <2>4. QED
    BY <1>6, <2>1, <2>2, <2>3 DEF IInv
<1>8. CASE ~r.ok
  <2>1. i' = i /\ pc' = "fail"
    BY <1>1, <1>8
  <2>2. FailVerdict'
    <3>0. Verdict(m)' = Verdict(m)
      BY <1>5
    <3>1. ~Verdict(m)'.ok
      BY <1>4, <3>0, <1>8, Zenon
    <3>2. out_error' = Verdict(m)'.error
      BY <1>1, <1>4, <3>0
    <3>3. \A j \in 1..(m - 1) : Verdict(j)'.ok
      <4>1. SUFFICES ASSUME NEW j \in 1..(m - 1) PROVE Verdict(j)'.ok
        OBVIOUS
      <4>2. Verdict(j)' = Verdict(j)
        BY <1>5
      <4>3. j \in 1..(i - StartIdx + 1)
        BY <1>0, <1>m
      <4>4. QED
        BY <1>2, <4>2, <4>3
    <3>4. m \in 1..NChecked'
      BY <1>3, <1>5
    <3>5. QED
      BY <3>1, <3>2, <3>3, <3>4 DEF FailVerdict
  <2>3. QED
    BY <1>2, <1>6, <2>1, <2>2 DEF IInv
<1>9. QED
  BY <1>7, <1>8

\* The loop ends after the last certificate.
LEMMA FinishStep == IInv /\ Finish => IInv'
<1> SUFFICES ASSUME IInv, Finish PROVE IInv'
  OBVIOUS
<1>1. UNCHANGED <<sk, x509, level, cb, i, out_error>> /\ pc = "loop" /\ pc' = "done"
      /\ i >= Len(sk)
  BY DEF Finish
<1>2. /\ \A k \in Int : Verdict(k)' = Verdict(k)
      /\ StartIdx' = StartIdx /\ NChecked' = NChecked
  BY <1>1, VerdictUnchanged
<1>3. /\ StartIdx <= i
      /\ \A k \in 1..(i - StartIdx + 1) : Verdict(k).ok
  BY <1>1 DEF IInv
<1>4. \A k \in 1..(i' - StartIdx' + 1) : Verdict(k)'.ok
  BY <1>1, <1>2, <1>3
<1>5. QED
  BY <1>1, <1>2, <1>3, <1>4 DEF IInv

LEMMA NextIInv == IInv /\ [Next]_vars => IInv'
<1> SUFFICES ASSUME IInv, [Next]_vars PROVE IInv'
  OBVIOUS
<1>1. CASE CheckEe
  BY <1>1, CheckEeStep
<1>2. CASE CheckCa
  BY <1>2, CheckCaStep
<1>3. CASE Finish
  BY <1>3, FinishStep
<1>4. CASE Returned \/ UNCHANGED vars
  <2>1. UNCHANGED vars
    BY <1>4 DEF Returned
  <2>2. /\ \A k \in Int : Verdict(k)' = Verdict(k)
        /\ StartIdx' = StartIdx /\ NChecked' = NChecked
    BY <2>1, VerdictUnchanged DEF vars
  <2>3. FailVerdict' = FailVerdict
    BY <2>1, <2>2 DEF vars, FailVerdict
  <2>4. QED
    BY <2>1, <2>2, <2>3 DEF vars, IInv
<1>5. QED
  BY <1>1, <1>2, <1>3, <1>4 DEF Next

LEMMA IInvVerdict == IInv => ChainVerdict
<1> SUFFICES ASSUME IInv PROVE ChainVerdict
  OBVIOUS
<1>1. pc = "done" => \A k \in 1..NChecked : Verdict(k).ok
  <2> SUFFICES ASSUME pc = "done", NEW k \in 1..NChecked PROVE Verdict(k).ok
    OBVIOUS
  <2>1. /\ i \in Nat /\ StartIdx <= i /\ i >= Len(sk)
        /\ \A j \in 1..(i - StartIdx + 1) : Verdict(j).ok
    BY DEF IInv
  <2>2. k \in 1..(i - StartIdx + 1)
    BY <2>1, StartIdxNat DEF NChecked
  <2>3. QED
    BY <2>1, <2>2
<1>2. QED
  BY <1>1 DEF IInv, FailVerdict, ChainVerdict

(***************************************************************************)
(* For every stack, every level and every callback: when                   *)
(* ssl_security_cert_chain returns 1, the callback accepted the end entity *)
(* once as an end entity and every other certificate of sk once as a CA;  *)
(* when it returns 0, *out_error is the reason of the first certificate    *)
(* refused (ChainVerdict, which the run seclevel_chain checks).            *)
(***************************************************************************)
THEOREM ChainVerdictCorrect == Spec => []ChainVerdict
<1>1. Init => IInv
  BY InitIInv
<1>2. IInv /\ [Next]_vars => IInv'
  BY NextIInv
<1>3. IInv => ChainVerdict
  BY IInvVerdict
<1>4. QED
  BY <1>1, <1>2, <1>3, PTL DEF Spec
-----------------------------------------------------------------------------
\* ssl_security_cert reports one of its three reasons, or none.
LEMMA SecurityCertError ==
  ASSUME NEW c, NEW l, NEW x, NEW e \in BOOLEAN
  PROVE  SecurityCert(c, l, x, e).error \in
           {SSL_R_NONE, SSL_R_EE_KEY_TOO_SMALL, SSL_R_CA_KEY_TOO_SMALL,
            SSL_R_CA_MD_TOO_WEAK}
BY DEF SecurityCert

\* A stack of certificates is a sequence, so its length is a number.
LEMMA StackLen ==
  ASSUME NEW s \in Stacks
  PROVE  s \in Seq(Certs) /\ Len(s) \in Nat
<1>1. PICK n \in 0..MaxStack : s \in [1..n -> Certs]
  BY SslChainAssumption DEF Stacks
<1>2. QED
  BY <1>1, SslChainAssumption

LEMMA InitTypeOK == Init => TypeOK
<1> SUFFICES ASSUME Init PROVE TypeOK
  OBVIOUS
<1>1. Len(sk) \in Nat
  BY StackLen DEF Init
<1>2. QED
  BY <1>1 DEF Init, TypeOK

LEMMA NextTypeOK == TypeOK /\ [Next]_vars => TypeOK'
<1> SUFFICES ASSUME TypeOK, [Next]_vars PROVE TypeOK'
  OBVIOUS
<1>0. Len(sk) \in Nat /\ i \in Nat
  BY StackLen DEF TypeOK
<1>1. CASE CheckEe
  <2>1. SecurityCert(cb, level, EeCert, TRUE).error \in
          {SSL_R_NONE, SSL_R_EE_KEY_TOO_SMALL, SSL_R_CA_KEY_TOO_SMALL,
           SSL_R_CA_MD_TOO_WEAK}
    BY SecurityCertError
  <2>2. StartIdx \in 0..(Len(sk) + 1)
    BY <1>0, StartIdxNat
  <2>. QED  BY <1>1, <2>1, <2>2 DEF CheckEe, TypeOK
<1>2. CASE CheckCa
  <2>1. SecurityCert(cb, level, SkValue(i), FALSE).error \in
          {SSL_R_NONE, SSL_R_EE_KEY_TOO_SMALL, SSL_R_CA_KEY_TOO_SMALL,
           SSL_R_CA_MD_TOO_WEAK}
    BY SecurityCertError
  <2>2. i < Len(sk)
    BY <1>2 DEF CheckCa
  <2>3. i \in 0..(Len(sk) + 1) /\ i + 1 \in 0..(Len(sk) + 1)
    BY <1>0, <2>2
  <2>. QED  BY <1>2, <2>1, <2>3 DEF CheckCa, TypeOK
<1>3. CASE Finish
  BY <1>3 DEF Finish, TypeOK
<1>4. CASE Returned \/ UNCHANGED vars
  BY <1>4 DEF Returned, vars, TypeOK
<1>5. QED
  BY <1>1, <1>2, <1>3, <1>4 DEF Next

(***************************************************************************)
(* For every bound on the stack and every set of key sizes and levels,    *)
(* ssl_security_cert_chain's loop index stays in 0..Len(sk) + 1, start_idx *)
(* included, and *out_error is always 0 or one of ssl_security_cert's     *)
(* three reasons (TypeOK, which the run seclevel_chain checks).           *)
(***************************************************************************)
THEOREM ChainTypeCorrect == Spec => []TypeOK
<1>1. Init => TypeOK
  BY InitTypeOK
<1>2. TypeOK /\ [Next]_vars => TypeOK'
  BY NextTypeOK
<1>3. QED
  BY <1>1, <1>2, PTL DEF Spec
====
