----------------------------- MODULE SslSeclevel -----------------------------
(***************************************************************************)
(* lib/libssl/ssl_seclevel.c: the default security callback, which maps a *)
(* security level to what an SSL_SECOP_* operation may use, and            *)
(* ssl_security_cert_chain, which walks a certificate chain and asks the   *)
(* SSL object's security callback about the key and the signature digest  *)
(* of every certificate.                                                   *)
(*                                                                         *)
(* A cipher is the set of its properties the callback tests (the bit      *)
(* tests of algorithm_auth, _enc, _mkey and _ssl); a certificate is the    *)
(* security bits of its public key (EVP_PKEY_security_bits, -1 when it     *)
(* has none) and its signature algorithm.  NULL is a certificate pointer   *)
(* that is NULL, as sk_X509_value returns past the end of the stack.       *)
(***************************************************************************)
EXTENDS Integers, Sequences

\* A NULL certificate pointer.
CONSTANT NULL

\* SSL_SECOP_* operations (ssl.h).
SECOP_CIPHER_SUPPORTED == "CIPHER_SUPPORTED"
SECOP_CIPHER_SHARED == "CIPHER_SHARED"
SECOP_CIPHER_CHECK == "CIPHER_CHECK"
SECOP_VERSION == "VERSION"
SECOP_COMPRESSION == "COMPRESSION"
SECOP_TICKET == "TICKET"
SECOP_TMP_DH == "TMP_DH"
SECOP_EE_KEY == "EE_KEY"
SECOP_CA_KEY == "CA_KEY"
SECOP_CA_MD == "CA_MD"

\* Protocol versions (tls1.h, dtls1.h).
TLS1_VERSION == 769
TLS1_1_VERSION == 770
TLS1_2_VERSION == 771
TLS1_3_VERSION == 772
DTLS1_VERSION == 65279
DTLS1_2_VERSION == 65277

\* ssl_tls_version (ssl_versions.c): the TLS version a DTLS version
\* corresponds to, and 0 for one it does not know.
TlsVersion(v) ==
  IF v \in {TLS1_VERSION, TLS1_1_VERSION, TLS1_2_VERSION, TLS1_3_VERSION} THEN v
  ELSE IF v = DTLS1_VERSION THEN TLS1_1_VERSION
  ELSE IF v = DTLS1_2_VERSION THEN TLS1_2_VERSION
  ELSE 0

\* The digest of a signature algorithm (OBJ_find_sigid_algs): Ed25519
\* signs without a separate digest, and an unknown algorithm has none.
SigDigest == [sha1WithRSA |-> "sha1", sha256WithRSA |-> "sha256",
              ED25519 |-> "undef"]

\* EVP_MD_size of the digests, in bytes.
MdSize == [sha1 |-> 20, sha256 |-> 32]

\* SSL_R_* reasons ssl_security_cert reports, and the 0 it reports for none.
SSL_R_NONE == "none"
SSL_R_EE_KEY_TOO_SMALL == "EE_KEY_TOO_SMALL"
SSL_R_CA_KEY_TOO_SMALL == "CA_KEY_TOO_SMALL"
SSL_R_CA_MD_TOO_WEAK == "CA_MD_TOO_WEAK"

-----------------------------------------------------------------------------
\* ssl_security_normalize_level: the level clamped to 0..5.
NormalizeLevel(l) == IF l < 0 THEN 0 ELSE IF l > 5 THEN 5 ELSE l

\* Mutant: level 4 with 92 bits instead of 192.
LevelToMinimumBitsTypo(l) ==
  [ok |-> l >= 0,
   bits |-> IF l >= 5 THEN 256 ELSE IF l >= 0 THEN <<0, 80, 112, 128, 92>>[l + 1]
            ELSE 0]

\* ssl_security_level_to_minimum_bits: fails for a negative level; levels
\* 0 to 4 index the table, and 5 and above need 256 bits.
LevelToMinimumBits(l) ==
  [ok |-> l >= 0,
   bits |-> IF l >= 5 THEN 256 ELSE IF l >= 0 THEN <<0, 80, 112, 128, 192>>[l + 1]
            ELSE 0]

\* ssl_security_level_and_minimum_bits.
LevelAndMinimumBits(l) ==
  LET n == NormalizeLevel(l)
      m == LevelToMinimumBits(n)
  IN [ok |-> m.ok, level |-> n, bits |-> IF m.ok THEN m.bits ELSE 0]

\* The callbacks' answers: 1 allows, 0 refuses.
Answer(b) == IF b THEN 1 ELSE 0

(***************************************************************************)
(* ssl_security_secop_cipher: anything goes at level 0; above it the       *)
(* cipher needs the minimum bits and authentication, from level 2 on no    *)
(* RC4, and from level 3 on forward secrecy (or TLSv1.3).                  *)
(***************************************************************************)
SecopCipher(l, bits, cipher) ==
  LET s == LevelAndMinimumBits(l)
  IN Answer(/\ s.ok
            /\ \/ s.level <= 0
               \/ /\ bits >= s.bits
                  /\ "aNULL" \notin cipher
                  /\ \/ s.level <= 1
                     \/ /\ "RC4" \notin cipher
                        /\ \/ s.level <= 2
                           \/ "kDHE" \in cipher \/ "kECDHE" \in cipher
                           \/ "TLSv1.3" \in cipher)

\* ssl_security_secop_version: TLSv1.2 from level 4, TLSv1.1 at level 3.
SecopVersion(l, version) ==
  LET s == LevelAndMinimumBits(l)
      min_version == IF s.level < 3 THEN TLS1_VERSION
                     ELSE IF s.level < 4 THEN TLS1_1_VERSION
                     ELSE TLS1_2_VERSION
  IN Answer(s.ok /\ TlsVersion(version) >= min_version)

\* ssl_security_secop_compression: never.
SecopCompression == 0

\* ssl_security_secop_tickets: below level 3.
SecopTickets(l) ==
  LET s == LevelAndMinimumBits(l) IN Answer(s.ok /\ s.level < 3)

\* ssl_security_secop_tmp_dh: the minimum bits, and at least 80 at level 0.
SecopTmpDh(l, bits) ==
  LET s == LevelAndMinimumBits(l)
  IN Answer(s.ok /\ ~(s.level <= 0 /\ bits < 80) /\ bits >= s.bits)

\* ssl_security_secop_default: the minimum bits.
SecopDefault(l, bits) ==
  LET s == LevelAndMinimumBits(l) IN Answer(s.ok /\ bits >= s.bits)

\* ssl_security_default_cb: the dispatch on the operation.
DefaultCb(l, op, bits, version, cipher) ==
  IF op \in {SECOP_CIPHER_SUPPORTED, SECOP_CIPHER_SHARED, SECOP_CIPHER_CHECK}
  THEN SecopCipher(l, bits, cipher)
  ELSE IF op = SECOP_VERSION THEN SecopVersion(l, version)
  ELSE IF op = SECOP_COMPRESSION THEN SecopCompression
  ELSE IF op = SECOP_TICKET THEN SecopTickets(l)
  ELSE IF op = SECOP_TMP_DH THEN SecopTmpDh(l, bits)
  ELSE SecopDefault(l, bits)

\* ssl_security: the SSL object's callback; ssl_security_dummy_cb allows all.
Security(cb, l, op, bits, nid, other) ==
  IF cb = "dummy" THEN 1 ELSE DefaultCb(l, op, bits, nid, other)

-----------------------------------------------------------------------------
\* ssl_cert_pubkey_security_bits: -1 without a public key.
PubkeySecurityBits(x509) == IF x509 = NULL THEN -1 ELSE x509.keyBits

\* ssl_cert_signature_md_nid: the digest of the signature algorithm.
SignatureMdNid(x509) ==
  IF x509 = NULL \/ x509.sig \notin DOMAIN SigDigest THEN "undef"
  ELSE SigDigest[x509.sig]

\* ssl_cert_md_nid_security_bits: four bits per digest octet, -1 without one.
MdNidSecurityBits(md) == IF md \in DOMAIN MdSize THEN MdSize[md] * 4 ELSE -1

\* ssl_security_cert_key and ssl_security_cert_sig, for an SSL object.
CertKeyOk(cb, l, x509, op) ==
  Security(cb, l, op, PubkeySecurityBits(x509), 0, x509) = 1

CertSigOk(cb, l, x509) ==
  LET md == SignatureMdNid(x509)
  IN Security(cb, l, SECOP_CA_MD, MdNidSecurityBits(md), md, x509) = 1

(***************************************************************************)
(* ssl_security_cert: the key, as an end-entity or a CA key, then the      *)
(* signature digest; *out_error names the first check that refused.        *)
(***************************************************************************)
SecurityCert(cb, l, x509, is_ee) ==
  LET op == IF is_ee THEN SECOP_EE_KEY ELSE SECOP_CA_KEY
      key_error == IF is_ee THEN SSL_R_EE_KEY_TOO_SMALL ELSE SSL_R_CA_KEY_TOO_SMALL
  IN IF ~CertKeyOk(cb, l, x509, op) THEN [ok |-> FALSE, error |-> key_error]
     ELSE IF ~CertSigOk(cb, l, x509) THEN [ok |-> FALSE, error |-> SSL_R_CA_MD_TOO_WEAK]
     ELSE [ok |-> TRUE, error |-> SSL_R_NONE]
=============================================================================
