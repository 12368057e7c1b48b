------------------------------- MODULE SslChain -------------------------------
(***************************************************************************)
(* ssl_security_cert_chain: the end-entity certificate (x509, or sk[0]     *)
(* when x509 is NULL) is checked as an end entity, then the certificates   *)
(* of sk from start_idx on as CAs, until one is refused.  The SSL object's *)
(* security level and callback, the stack and the x509 argument are the    *)
(* call's inputs; i and out_error are its state.                           *)
(***************************************************************************)
EXTENDS SslSeclevel

CONSTANTS
  KeyBits,     \* what EVP_PKEY_security_bits may return for a certificate
  SigAlgs,     \* the signature algorithms certificates may carry
  Levels,      \* the security levels the SSL object may have
  Callbacks,   \* its security callback: "default" or "dummy"
  MaxStack     \* the longest stack sk

Certs == [keyBits : KeyBits, sig : SigAlgs]

ASSUME SslChainAssumption ==
  /\ KeyBits \subseteq Int
  /\ Levels \subseteq Int
  /\ Callbacks \subseteq {"default", "dummy"}
  /\ MaxStack \in Nat
  /\ NULL \notin Certs

Stacks == UNION {[1..n -> Certs] : n \in 0..MaxStack}

VARIABLES
  sk, x509, level, cb,   \* the inputs
  i,                     \* the loop index, start_idx before the loop
  out_error,             \* *out_error
  pc                     \* "start", "loop", "done" (returned 1), "fail" (0)

vars == <<sk, x509, level, cb, i, out_error, pc>>

\* sk_X509_value: the certificate at 0-based index k, NULL past the end.
SkValue(k) == IF k < Len(sk) THEN sk[k + 1] ELSE NULL

\* if (x509 == NULL) { x509 = sk_X509_value(sk, 0); start_idx = 1; }
EeCert == IF x509 = NULL THEN SkValue(0) ELSE x509

StartIdx == IF x509 = NULL THEN 1 ELSE 0

Init ==
  /\ sk \in Stacks
  /\ x509 \in Certs \cup {NULL}
  /\ level \in Levels
  /\ cb \in Callbacks
  /\ i = 0
  /\ out_error = SSL_R_NONE
  /\ pc = "start"

\* Mutant: start_idx one too far when x509 is NULL.
CheckEeSkipTwo ==
  LET r == SecurityCert(cb, level, EeCert, TRUE)
  IN /\ pc = "start"
     /\ out_error' = r.error
     /\ i' = 2 * StartIdx
     /\ pc' = IF r.ok THEN "loop" ELSE "fail"
     /\ UNCHANGED <<sk, x509, level, cb>>

\* x509 (or sk[0], and then start_idx = 1) checked with is_ee = 1.
CheckEe ==
  LET r == SecurityCert(cb, level, EeCert, TRUE)
  IN /\ pc = "start"
     /\ out_error' = r.error
     /\ i' = StartIdx
     /\ pc' = IF r.ok THEN "loop" ELSE "fail"
     /\ UNCHANGED <<sk, x509, level, cb>>

\* Mutant: the loop runs while i <= sk_X509_num(sk).
CheckCaPastEnd ==
  LET r == SecurityCert(cb, level, SkValue(i), FALSE)
  IN /\ pc = "loop"
     /\ i <= Len(sk)
     /\ out_error' = r.error
     /\ i' = IF r.ok THEN i + 1 ELSE i
     /\ pc' = IF r.ok THEN "loop" ELSE "fail"
     /\ UNCHANGED <<sk, x509, level, cb>>

\* Mutant: the loop forgets i++.
CheckCaNoIncrement ==
  LET r == SecurityCert(cb, level, SkValue(i), FALSE)
  IN /\ pc = "loop"
     /\ i < Len(sk)
     /\ out_error' = r.error
     /\ UNCHANGED i
     /\ pc' = IF r.ok THEN "loop" ELSE "fail"
     /\ UNCHANGED <<sk, x509, level, cb>>

\* One iteration of the loop: sk[i] checked with is_ee = 0.
CheckCa ==
  LET r == SecurityCert(cb, level, SkValue(i), FALSE)
  IN /\ pc = "loop"
     /\ i < Len(sk)
     /\ out_error' = r.error
     /\ i' = IF r.ok THEN i + 1 ELSE i
     /\ pc' = IF r.ok THEN "loop" ELSE "fail"
     /\ UNCHANGED <<sk, x509, level, cb>>

\* The loop ends: return 1.
Finish ==
  /\ pc = "loop"
  /\ i >= Len(sk)
  /\ pc' = "done"
  /\ UNCHANGED <<sk, x509, level, cb, i, out_error>>

\* A returned call stays returned.
Returned == pc \in {"done", "fail"} /\ UNCHANGED vars

Next == CheckEe \/ CheckCa \/ Finish \/ Returned

Spec == Init /\ [][Next]_vars

\* The call runs on one thread to its return once it is made.
FairSpec == Spec /\ WF_vars(Next)

-----------------------------------------------------------------------------
TypeOK ==
  /\ sk \in Stacks
  /\ x509 \in Certs \cup {NULL}
  /\ level \in Levels
  /\ cb \in Callbacks
  /\ i \in 0..(Len(sk) + 1)
  /\ out_error \in {SSL_R_NONE, SSL_R_EE_KEY_TOO_SMALL, SSL_R_CA_KEY_TOO_SMALL,
                    SSL_R_CA_MD_TOO_WEAK}
  /\ pc \in {"start", "loop", "done", "fail"}

\* The certificates the function's contract says it checks, in order: the
\* end entity first, then every certificate of sk after it as a CA.
NChecked == IF Len(sk) >= StartIdx THEN Len(sk) - StartIdx + 1 ELSE 1

Verdict(k) ==
  IF k = 1 THEN SecurityCert(cb, level, EeCert, TRUE)
  ELSE SecurityCert(cb, level, sk[StartIdx + k - 1], FALSE)

(***************************************************************************)
(* ssl_security_cert_chain returns 1 exactly when the security callback    *)
(* accepts every certificate of the chain, the end entity once as an end   *)
(* entity and each other certificate once as a CA; when it returns 0,      *)
(* *out_error is the reason of the first certificate refused.  This is     *)
(* what the loop bounds and start_idx must get right.                      *)
(***************************************************************************)
ChainVerdict ==
  /\ pc = "done" => \A k \in 1..NChecked : Verdict(k).ok
  /\ pc = "fail" =>
       \E k \in 1..NChecked :
         /\ ~Verdict(k).ok
         /\ out_error = Verdict(k).error
         /\ \A j \in 1..(k - 1) : Verdict(j).ok

\* Every call of ssl_security_cert_chain returns.
Termination == <>(pc \in {"done", "fail"})
=============================================================================
