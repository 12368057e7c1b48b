----------------------------- MODULE MC_SslPolicy -----------------------------
(***************************************************************************)
(* The default callback at every level from -1 to 6, with bits at and     *)
(* around each level's minimum, every protocol version libssl knows and   *)
(* one it does not, and every combination of the cipher properties the    *)
(* callback tests.                                                         *)
(***************************************************************************)
EXTENDS SslPolicy

MC_Levels == -1..6
MC_Bits == {-1, 0, 79, 80, 112, 127, 128, 192, 256}
MC_Versions == {0, TLS1_VERSION, TLS1_1_VERSION, TLS1_2_VERSION, TLS1_3_VERSION,
                DTLS1_VERSION, DTLS1_2_VERSION}
MC_CipherFlags == {"aNULL", "RC4", "kDHE", "kECDHE", "TLSv1.3"}
=============================================================================
