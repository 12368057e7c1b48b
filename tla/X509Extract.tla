----------------------------- MODULE X509Extract -----------------------------
(***************************************************************************)
(* The extractors of x509_constraints.c: x509_constraints_extract_names    *)
(* (the names of one certificate that constraints are checked against),   *)
(* x509_constraints_validate and x509_constraints_extract_constraints (the *)
(* permitted and excluded subtrees of a CA certificate).                   *)
(*                                                                         *)
(* A certificate is what the decoding layer hands over: its subjectAltName *)
(* GENERAL_NAMEs [type, data], its subject as a sequence of attributes     *)
(* [nid, data], and, when it has a NameConstraints extension (cert->nc),   *)
(* the permitted and excluded GENERAL_SUBTREEs [minmax, base], where       *)
(* minmax says that a minimum or maximum is present.                       *)
(***************************************************************************)
EXTENDS X509Syntax, Integers

\* Subject attribute NIDs that extract_names asks for; anything else is OTHER.
NID_commonName == "CN"
NID_pkcs9_emailAddress == "EMAIL"

\* A normalised name with the fields its type uses; the rest stay zero.
MkName(type, name, local, der, af, address) ==
  [type |-> type, name |-> name, local |-> local, der |-> der,
   af |-> af, address |-> address]

\* The canonical encoding (X509_NAME canon_enc) folds the case of strings.
CanonDer(subject) ==
  [k \in DOMAIN subject |->
     [nid |-> subject[k].nid,
      data |-> [j \in DOMAIN subject[k].data |-> ToLower(subject[k].data[j])]]]

\* x509_constraints_general_to_bytes: IA5Strings are read with strlen.
GeneralType(gn) == IF gn.type \in NameTypes THEN gn.type ELSE GEN_OTHERNAME
GeneralBytes(gn) ==
  IF gn.type \in {GEN_DNS, GEN_EMAIL, GEN_URI} THEN CString(gn.data) ELSE gn.data

Add(n) == [kind |-> "add", error |-> "NONE", name |-> n]
Skip == [kind |-> "skip", error |-> "NONE", name |-> MkName(0, <<>>, <<>>, <<>>, 0, <<>>)]
Fail(e) == [Skip EXCEPT !.kind = "err", !.error = e]

(***************************************************************************)
(* One iteration of the subjectAltName loop of extract_names.              *)
(***************************************************************************)
SanName(gn) ==
  LET b == GeneralBytes(gn)
      m == ParseMailbox(b)
      u == UriHost(b)
  IN CASE GeneralType(gn) = GEN_DNS ->
            IF ValidSandns(b) THEN Add(MkName(GEN_DNS, b, <<>>, <<>>, 0, <<>>))
            ELSE Fail("UNSUPPORTED_NAME_SYNTAX")
       [] GeneralType(gn) = GEN_EMAIL ->
            IF m.ok THEN Add(MkName(GEN_EMAIL, m.domain, m.local, <<>>, 0, <<>>))
            ELSE Fail("UNSUPPORTED_NAME_SYNTAX")
       [] GeneralType(gn) = GEN_URI ->
            IF u.ok THEN Add(MkName(GEN_URI, u.host, <<>>, <<>>, 0, <<>>))
            ELSE Fail("UNSUPPORTED_NAME_SYNTAX")
       [] GeneralType(gn) = GEN_DIRNAME ->
            IF Len(b) = 0 THEN Fail("UNSUPPORTED_NAME_SYNTAX")
            ELSE Add(MkName(GEN_DIRNAME, <<>>, <<>>, b, 0, <<>>))
       [] GeneralType(gn) = GEN_IPADD ->
            IF Len(b) \notin {4, 16} THEN Fail("UNSUPPORTED_NAME_SYNTAX")
            ELSE Add(MkName(GEN_IPADD, <<>>, <<>>, <<>>,
                            IF Len(b) = 4 THEN AF_INET ELSE AF_INET6, b))
       [] OTHER -> Skip

\* The error of the first failed iteration of a loop that stops at it.
FirstError(rs) ==
  rs[CHOOSE k \in 1..Len(rs) : rs[k].kind = "err" /\ \A j \in 1..k - 1 : rs[j].kind # "err"].error
HasError(rs) == \E k \in 1..Len(rs) : rs[k].kind = "err"
\* The names the iterations added, in order.
Added(rs) ==
  LET adds == SelectSeq(rs, LAMBDA r : r.kind = "add")
  IN [k \in 1..Len(adds) |-> adds[k].name]

(***************************************************************************)
(* The subject part of extract_names.  X509_NAME_get_index_by_NID(subject, *)
(* nid, lastpos) returns the first matching attribute after index lastpos  *)
(* (0-based), so the email loop scans the attributes after emailLast and   *)
(* the CN loop those after cnLast.                                         *)
(***************************************************************************)
AttrsAfter(subject, nid, last) ==
  SelectSeq([p \in 1..Len(subject) |-> p], LAMBDA p : p - 1 > last /\ subject[p].nid = nid)

ExtractNamesFrom(cert, isLeaf, emailLast, cnLast) ==
  LET alt == cert.altname
      subj == cert.subject
      sans == [k \in 1..Len(alt) |-> SanName(alt[k])]
      includeCn == isLeaf /\ ~\E k \in 1..Len(alt) : GeneralType(alt[k]) = GEN_DNS
      includeEmail == isLeaf /\ ~\E k \in 1..Len(alt) : GeneralType(alt[k]) = GEN_EMAIL
      ePos == IF includeEmail THEN AttrsAfter(subj, NID_pkcs9_emailAddress, emailLast) ELSE <<>>
      mbox == [k \in 1..Len(ePos) |-> ParseMailbox(subj[ePos[k]].data)]
      cPos == IF includeCn
              THEN SelectSeq(AttrsAfter(subj, NID_commonName, cnLast),
                             LAMBDA p : ValidHost(subj[p].data, CString(subj[p].data)))
              ELSE <<>>
      dir == MkName(GEN_DIRNAME, <<>>, <<>>, CanonDer(subj), 0, <<>>)
      emails == [k \in 1..Len(mbox) |->
                   MkName(GEN_EMAIL, mbox[k].domain, mbox[k].local, <<>>, 0, <<>>)]
      cns == [k \in 1..Len(cPos) |->
                MkName(GEN_DNS, CString(subj[cPos[k]].data), <<>>, <<>>, 0, <<>>)]
  IN IF HasError(sans) THEN [ok |-> FALSE, error |-> FirstError(sans), names |-> <<>>]
     ELSE IF Len(subj) = 0 THEN [ok |-> TRUE, error |-> "NONE", names |-> Added(sans)]
     ELSE IF \E k \in 1..Len(mbox) : ~mbox[k].ok
          THEN [ok |-> FALSE, error |-> "UNSUPPORTED_NAME_SYNTAX", names |-> <<>>]
     ELSE [ok |-> TRUE, error |-> "NONE",
           names |-> Added(sans) \o <<dir>> \o emails \o cns]

(***************************************************************************)
(* x509_constraints_extract_names.  The index i of the altname loop ends   *)
(* at Len(altname) + 1 and is then passed as lastpos to the email loop;    *)
(* the CN loop starts from where the email loop left i: -1 when the email  *)
(* loop ran to its end, the altname index when it did not run.             *)
(***************************************************************************)
ExtractNamesCode(cert, isLeaf) ==
  LET n == Len(cert.altname)
      includeEmail == isLeaf /\ ~\E k \in 1..n : GeneralType(cert.altname[k]) = GEN_EMAIL
  IN ExtractNamesFrom(cert, isLeaf, n + 1, IF includeEmail THEN -1 ELSE n + 1)

\* The names the specification says are extracted: every subject emailAddress
\* and every hostname-like CN, scanning the subject from its first attribute.
ExtractNamesSpec(cert, isLeaf) == ExtractNamesFrom(cert, isLeaf, -1, -1)

(***************************************************************************)
(* x509_constraints_validate for one subtree base.                         *)
(***************************************************************************)
ValidateConstraint(gn) ==
  LET b == GeneralBytes(gn)
      m == ParseMailbox(b)
      hasAt == \E k \in 1..Len(b) : b[k] = "@"
  IN CASE GeneralType(gn) = GEN_DIRNAME ->
            IF Len(b) = 0 THEN Fail("UNSUPPORTED_CONSTRAINT_SYNTAX")
            ELSE Add(MkName(GEN_DIRNAME, <<>>, <<>>, b, 0, <<>>))
       [] GeneralType(gn) = GEN_DNS ->
            IF ValidDomainConstraint(b) THEN Add(MkName(GEN_DNS, b, <<>>, <<>>, 0, <<>>))
            ELSE Fail("UNSUPPORTED_CONSTRAINT_SYNTAX")
       [] GeneralType(gn) = GEN_EMAIL /\ hasAt ->
            IF m.ok THEN Add(MkName(GEN_EMAIL, m.domain, m.local, <<>>, 0, <<>>))
            ELSE Fail("UNSUPPORTED_CONSTRAINT_SYNTAX")
       [] GeneralType(gn) = GEN_EMAIL ->
            IF ValidDomainConstraint(b) THEN Add(MkName(GEN_EMAIL, b, <<>>, <<>>, 0, <<>>))
            ELSE Fail("UNSUPPORTED_CONSTRAINT_SYNTAX")
       [] GeneralType(gn) = GEN_IPADD ->
            IF Len(b) \notin {8, 32} THEN Fail("UNSUPPORTED_CONSTRAINT_SYNTAX")
            ELSE Add(MkName(GEN_IPADD, <<>>, <<>>, <<>>,
                            IF Len(b) = 8 THEN AF_INET ELSE AF_INET6, b))
       [] GeneralType(gn) = GEN_URI ->
            IF ValidDomainConstraint(b) THEN Add(MkName(GEN_URI, b, <<>>, <<>>, 0, <<>>))
            ELSE Fail("UNSUPPORTED_CONSTRAINT_SYNTAX")
       [] OTHER -> Skip

\* One iteration of either subtree loop of extract_constraints.
Subtree(st) == IF st.minmax THEN Fail("SUBTREE_MINMAX") ELSE ValidateConstraint(st.base)

(***************************************************************************)
(* x509_constraints_extract_constraints: the permitted loop, then the      *)
(* excluded loop, each stopping at its first error; subtrees of a type     *)
(* validate leaves at 0 are dropped.                                       *)
(***************************************************************************)
ExtractConstraintsCode(cert) ==
  LET ps == [k \in 1..Len(cert.permitted) |-> Subtree(cert.permitted[k])]
      es == [k \in 1..Len(cert.excluded) |-> Subtree(cert.excluded[k])]
  IN IF ~cert.hasNc THEN [ok |-> TRUE, error |-> "NONE", permitted |-> <<>>, excluded |-> <<>>]
     ELSE IF HasError(ps) THEN [ok |-> FALSE, error |-> FirstError(ps), permitted |-> <<>>, excluded |-> <<>>]
     ELSE IF HasError(es) THEN [ok |-> FALSE, error |-> FirstError(es), permitted |-> <<>>, excluded |-> <<>>]
     ELSE [ok |-> TRUE, error |-> "NONE", permitted |-> Added(ps), excluded |-> Added(es)]
=============================================================================
