----------------------------- MODULE MC_X509Chain -----------------------------
(***************************************************************************)
(* Model-checking instance of X509Chain with the extractors of X509Extract *)
(* over chains of up to three certificates built from small parts: leaves  *)
(* with DNS, email, IP, URI and malformed subjectAltNames and CN or        *)
(* emailAddress subject attributes, and CAs with permitted and excluded    *)
(* DNS, email, URI, IP and directoryName subtrees, a min/max subtree and a *)
(* malformed one.  Names are over the letters a, b, c and the dot.         *)
(***************************************************************************)
EXTENDS X509Chain, X509Extract

\* Strings used as names and constraints.
sA == <<"a">>
sBA == <<"b", ".", "a">>
sBa == <<"b", "a">>
sC == <<"c">>
sCapC == <<"C">>
sMailBA == <<"x", "@", "b", ".", "a">>
sMailC == <<"x", "@", "c">>
sUriC == <<"h", ":", "/", "/", "c">>
sBad == <<"-", "a">>

GN(t, d) == [type |-> t, data |-> d]
Attr(nid, d) == [nid |-> nid, data |-> d]
CaSubject == <<Attr("O", sC)>>

Cert(alt, subj, hasNc, p, e) ==
  [altname |-> alt, subject |-> subj, hasNc |-> hasNc, permitted |-> p, excluded |-> e]
Sub(gn) == [minmax |-> FALSE, base |-> gn]

LeafAltnames ==
  { <<>>, <<GN(GEN_DNS, sBA)>>, <<GN(GEN_DNS, sBa)>>, <<GN(GEN_EMAIL, sMailBA)>>,
    <<GN(GEN_IPADD, <<10, 0, 1, 5>>)>>, <<GN(GEN_URI, sUriC)>>, <<GN(GEN_DNS, sBad)>> }

LeafSubjects ==
  { <<>>, <<Attr(NID_commonName, sC)>>, <<Attr(NID_commonName, sCapC)>>, <<Attr(NID_commonName, sBA)>>,
    <<Attr(NID_pkcs9_emailAddress, sMailC)>>,
    <<Attr("O", sA), Attr("O", sA), Attr("O", sA), Attr(NID_commonName, sC)>> }

Leaves == {Cert(a, s, FALSE, <<>>, <<>>) : a \in LeafAltnames, s \in LeafSubjects}

\* NameConstraints of the CAs: (hasNc, permitted, excluded).
CaConstraints ==
  { <<FALSE, <<>>, <<>>>>,
    <<TRUE, <<Sub(GN(GEN_DNS, sBA))>>, <<>>>>,
    <<TRUE, <<>>, <<Sub(GN(GEN_DNS, sA))>>>>,
    <<TRUE, <<>>, <<Sub(GN(GEN_EMAIL, sC))>>>>,
    <<TRUE, <<Sub(GN(GEN_URI, sC))>>, <<>>>>,
    <<TRUE, <<Sub(GN(GEN_IPADD, <<10, 0, 0, 0, 255, 255, 255, 0>>))>>, <<>>>>,
    <<TRUE, <<Sub(GN(GEN_DIRNAME, CanonDer(CaSubject)))>>, <<Sub(GN(GEN_DNS, sC))>>>>,
    <<TRUE, <<[minmax |-> TRUE, base |-> GN(GEN_DNS, sA)]>>, <<>>>>,
    <<TRUE, <<Sub(GN(GEN_DNS, <<"*", "a">>))>>, <<>>>> }

CAs == {Cert(<<>>, CaSubject, nc[1], nc[2], nc[3]) : nc \in CaConstraints}

MCChains ==
  {<<>>} \cup {<<l>> : l \in Leaves} \cup (Leaves \X CAs) \cup (Leaves \X CAs \X CAs)

-----------------------------------------------------------------------------
\* The names the specification says extract_names yields for the certificate
\* at position j: every emailAddress and hostname CN of the subject.
NamesOfSpec(j) == ExtractNamesSpec(chain[j], j = 1).names

(***************************************************************************)
(* What the specification promises of x509_constraints_chain returning 1:  *)
(* every subject emailAddress and every hostname-like commonName of the    *)
(* leaf (when it has no email, resp. DNS, subjectAltName), and every other *)
(* name, satisfies the constraints of every CA above it.  extract_names    *)
(* scans the subject from the lastpos its altname loop left behind, so     *)
(* this fails.                                                             *)
(***************************************************************************)
NamesConstrainedSpec ==
  pc = "done" =>
    \A k \in 2..Len(chain) : \A j \in 1..k - 1 :
      ~(/\ chain[k].hasNc
        /\ \E x \in 1..Len(NamesOfSpec(j)) :
              Violates(NamesOfSpec(j)[x], ConstraintsOf(k).permitted,
                       ConstraintsOf(k).excluded))
=============================================================================
