----------------------------- MODULE X509Match -----------------------------
(***************************************************************************)
(* The matcher of lib/libcrypto/x509/x509_constraints.c: the comparison of *)
(* one normalised name with one normalised constraint, and                 *)
(* x509_constraints_check, which tests a list of names against the        *)
(* permitted and excluded constraints of one CA certificate.              *)
(*                                                                         *)
(* A string is a sequence of one-character strings; a DER blob or an      *)
(* address is a sequence of values.  A normalised name is one record kind  *)
(* for every type, as struct x509_constraints_name is one C struct: the    *)
(* fields a type does not use keep their calloc'ed value (<<>> or 0).      *)
(* An absent local part (local == NULL) is <<>>: parse_mailbox never       *)
(* produces an empty local part, so the two cannot be confused.            *)
(***************************************************************************)
EXTENDS Naturals, Sequences

\* GENERAL_NAME type tags (openssl/x509v3.h); 0 doubles as "no type set".
GEN_OTHERNAME == 0
GEN_EMAIL == 1
GEN_DNS == 2
GEN_DIRNAME == 4
GEN_URI == 6
GEN_IPADD == 7
NameTypes == {GEN_EMAIL, GEN_DNS, GEN_DIRNAME, GEN_URI, GEN_IPADD}

\* Address families as stored in name->af (0 when unset).
AF_INET == 2
AF_INET6 == 24

\* X509_V_ERR_* codes the constraint code sets.
ErrorCodes == {"UNSPECIFIED", "OUT_OF_MEM", "UNSUPPORTED_NAME_SYNTAX",
               "UNSUPPORTED_CONSTRAINT_SYNTAX", "SUBTREE_MINMAX",
               "EXCLUDED_VIOLATION", "PERMITTED_VIOLATION", "NONE"}

\* Case folding of strncasecmp for the ASCII letters.
UpperLetters == <<"A","B","C","D","E","F","G","H","I","J","K","L","M",
                  "N","O","P","Q","R","S","T","U","V","W","X","Y","Z">>
LowerLetters == <<"a","b","c","d","e","f","g","h","i","j","k","l","m",
                  "n","o","p","q","r","s","t","u","v","w","x","y","z">>
ToLower(c) ==
  IF \E k \in 1..26 : UpperLetters[k] = c
  THEN LowerLetters[CHOOSE k \in 1..26 : UpperLetters[k] = c]
  ELSE c

\* strncasecmp(s, t, Len(t)) == 0 for strings of equal length.
EqualNoCase(s, t) ==
  /\ Len(s) = Len(t)
  /\ \A k \in 1..Len(s) : ToLower(s[k]) = ToLower(t[k])

\* The last n characters of s.
Tail_(s, n) == SubSeq(s, Len(s) - n + 1, Len(s))

\* Bitwise AND of two bytes, bit by bit.
ByteAnd(x, y) ==
  LET acc[k \in 0..8] ==
        IF k = 0 THEN 0
        ELSE acc[k - 1] + 2^(k - 1) * (((x \div 2^(k - 1)) % 2) * ((y \div 2^(k - 1)) % 2))
  IN acc[8]

(***************************************************************************)
(* x509_constraints_sandns: an empty constraint matches everything, else   *)
(* the constraint must be a case-insensitive suffix of the SAN dNSName.    *)
(***************************************************************************)
Sandns(sandns, constraint) ==
  \/ Len(constraint) = 0
  \/ /\ Len(sandns) >= Len(constraint)
     /\ EqualNoCase(Tail_(sandns, Len(constraint)), constraint)

(***************************************************************************)
(* x509_constraints_domain: an empty constraint matches everything; a      *)
(* constraint starting with '.' must be a suffix of the domain; a domain   *)
(* starting with '.' must be a suffix of the constraint; otherwise the two *)
(* must be equal ignoring case.                                            *)
(***************************************************************************)
Domain(domain, constraint) ==
  IF Len(constraint) = 0 THEN TRUE
  ELSE IF constraint[1] = "."
       THEN Len(domain) >= Len(constraint)
            /\ EqualNoCase(Tail_(domain, Len(constraint)), constraint)
  ELSE IF Len(domain) > 0 /\ domain[1] = "."
       THEN Len(constraint) >= Len(domain)
            /\ EqualNoCase(Tail_(constraint, Len(domain)), domain)
  ELSE EqualNoCase(domain, constraint)

(***************************************************************************)
(* x509_constraints_ipaddr: the constraint is address then mask; every     *)
(* byte of the address agrees with the constraint under the mask.          *)
(***************************************************************************)
Ipaddr(address, constraint) ==
  LET alen == Len(address)
  IN /\ alen * 2 = Len(constraint)
     /\ \A k \in 1..alen :
          ByteAnd(address[k], constraint[alen + k])
            = ByteAnd(constraint[k], constraint[alen + k])

\* x509_constraints_dirname: byte-for-byte equal canonical encodings.
Dirname(dirname, constraint) == dirname = constraint

(***************************************************************************)
(* x509_constraints_match: names and constraints of different types never  *)
(* match; per type the comparisons above.  The IP case takes the first     *)
(* Len(name.address) * 2 bytes of the constraint, as clen does.            *)
(***************************************************************************)
Match(name, constraint) ==
  /\ name.type = constraint.type
  /\ CASE name.type = GEN_DNS -> Sandns(name.name, constraint.name)
       [] name.type = GEN_URI -> Domain(name.name, constraint.name)
       [] name.type = GEN_IPADD ->
            /\ name.af \in {AF_INET, AF_INET6}
            /\ constraint.af \in {AF_INET, AF_INET6}
            /\ name.af = constraint.af
            /\ Ipaddr(name.address,
                      SubSeq(constraint.address, 1, 2 * Len(name.address)))
       [] name.type = GEN_EMAIL ->
            IF constraint.local # <<>>
            THEN name.local = constraint.local /\ name.name = constraint.name
            ELSE Domain(name.name, constraint.name)
       [] name.type = GEN_DIRNAME -> Dirname(name.der, constraint.der)
       [] OTHER -> FALSE

(***************************************************************************)
(* The two halves of one iteration of x509_constraints_check's outer loop: *)
(* a name violates the excluded list if it matches any entry, and the      *)
(* permitted list if an entry of its type exists but none matches.         *)
(***************************************************************************)
ExcludedHit(name, excluded) ==
  \E j \in 1..Len(excluded) : Match(name, excluded[j])

PermittedMiss(name, permitted) ==
  /\ \E j \in 1..Len(permitted) : permitted[j].type = name.type
  /\ ~\E j \in 1..Len(permitted) : Match(name, permitted[j])

Violates(name, permitted, excluded) ==
  ExcludedHit(name, excluded) \/ PermittedMiss(name, permitted)

(***************************************************************************)
(* x509_constraints_check: the names are tried in order and the first one  *)
(* that violates decides the error, excluded before permitted.             *)
(***************************************************************************)
Check(names, permitted, excluded) ==
  LET bad == {x \in 1..Len(names) : Violates(names[x], permitted, excluded)}
      first == CHOOSE x \in bad : \A y \in bad : x <= y
  IN IF bad = {} THEN [ok |-> TRUE, error |-> "NONE"]
     ELSE [ok |-> FALSE,
           error |-> IF ExcludedHit(names[first], excluded)
                     THEN "EXCLUDED_VIOLATION" ELSE "PERMITTED_VIOLATION"]
=============================================================================
