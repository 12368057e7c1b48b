------------------------------ MODULE SslPolicy ------------------------------
(***************************************************************************)
(* A caller of the default security callback, as libssl is when it asks   *)
(* about a cipher, a protocol version, compression, tickets, a DH key or  *)
(* a certificate: it picks the operation and its arguments, calls         *)
(* ssl_security_default_cb at the SSL object's level and keeps the answer. *)
(***************************************************************************)
EXTENDS SslSeclevel

CONSTANTS
  Levels,      \* the security levels the SSL object may have
  Bits,        \* the security bits a caller may pass
  Versions,    \* the protocol versions it may pass
  CipherFlags  \* the properties a cipher may have

ASSUME SslPolicyAssumption ==
  /\ Levels \subseteq Int
  /\ Bits \subseteq Int
  /\ Versions \subseteq Int

Secops == {SECOP_CIPHER_SUPPORTED, SECOP_CIPHER_SHARED, SECOP_CIPHER_CHECK,
           SECOP_VERSION, SECOP_COMPRESSION, SECOP_TICKET, SECOP_TMP_DH,
           SECOP_EE_KEY, SECOP_CA_KEY, SECOP_CA_MD}

VARIABLES level, op, bits, version, cipher, res

vars == <<level, op, bits, version, cipher, res>>

\* Before the call; -1 is an answer the callback never gives.
Init ==
  /\ level \in Levels
  /\ op \in Secops
  /\ bits \in Bits
  /\ version \in Versions
  /\ cipher \in SUBSET CipherFlags
  /\ res = -1

\* ssl_security through an SSL object whose callback is the default one.
Call ==
  /\ res = -1
  /\ res' = DefaultCb(level, op, bits, version, cipher)
  /\ UNCHANGED <<level, op, bits, version, cipher>>

Next == Call

Spec == Init /\ [][Next]_vars

-----------------------------------------------------------------------------
(***************************************************************************)
(* The levels are ordered: what the default callback allows at a level it *)
(* allows at every lower level, for every operation.  Each secop handler  *)
(* turns the level into a bits minimum, a version minimum or a list of    *)
(* cipher exclusions, and they must all grow with the level, the clamping *)
(* of levels below 0 and above 5 and the level-0 DHE floor included.      *)
(***************************************************************************)
PolicyMonotone ==
  res = 1 =>
    \A l \in Levels : l <= level => DefaultCb(l, op, bits, version, cipher) = 1
====
