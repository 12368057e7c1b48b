----------------------------- MODULE MC_SslChain -----------------------------
(***************************************************************************)
(* ssl_security_cert_chain over stacks of up to two certificates whose     *)
(* keys have no bits (-1), 80, 112 or 128 bits, signed with SHA-1,        *)
(* SHA-256, Ed25519 (no digest) or an unknown algorithm, at every level    *)
(* from -1 to 6, with the default and the dummy callback.                 *)
(***************************************************************************)
EXTENDS SslChain

MC_KeyBits == {-1, 80, 112, 128}
MC_SigAlgs == {"sha1WithRSA", "sha256WithRSA", "ED25519", "unknown"}
MC_Levels == -1..6
=============================================================================
