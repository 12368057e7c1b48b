----------------------------- MODULE X509Chain -----------------------------
(***************************************************************************)
(* x509_constraints_chain: the walk of a verified chain from the leaf      *)
(* (chain[1], index 0 in the code) towards the root.  The names of every   *)
(* certificate walked so far accumulate in names; each certificate with a  *)
(* NameConstraints extension has its permitted and excluded subtrees       *)
(* extracted, counted and checked against all of the names accumulated     *)
(* before its own are added.                                               *)
(*                                                                         *)
(* The function is one synchronous call; its state is the local variables *)
(* and pc is the point of the loop body it is at.  i is the code's index   *)
(* into the chain (0-based), so the certificate at i is chain[i + 1].      *)
(*                                                                         *)
(* The chain walk is written against the interface of the extractors:      *)
(* ExtractNames(cert, is_leaf) and ExtractConstraints(cert) return a       *)
(* success flag, an error code and the names (resp. the permitted and      *)
(* excluded constraints).  The model-checking modules bind them to the     *)
(* translations of x509_constraints_extract_names and                      *)
(* x509_constraints_extract_constraints in X509Extract.                    *)
(***************************************************************************)
EXTENDS X509Match

CONSTANTS
  Chains,                  \* the chains the caller may pass
  MAX_CHAIN_NAMES,         \* X509_VERIFY_MAX_CHAIN_NAMES
  MAX_CHAIN_CONSTRAINTS,   \* X509_VERIFY_MAX_CHAIN_CONSTRAINTS
  ExtractNames(_, _),
  ExtractConstraints(_)

\* Normalised names (struct x509_constraints_name).
NameRec ==
  [type: NameTypes, name: Seq(STRING), local: Seq(STRING),
   der: Seq([nid: STRING, data: Seq(STRING)]), af: {0, AF_INET, AF_INET6},
   address: Seq(Nat)]

NamesResult == [ok: BOOLEAN, error: ErrorCodes, names: Seq(NameRec)]
ConstraintsResult ==
  [ok: BOOLEAN, error: ErrorCodes, permitted: Seq(NameRec), excluded: Seq(NameRec)]

Certs == UNION {{c[k] : k \in DOMAIN c} : c \in Chains}

ASSUME ChainAssumption ==
  /\ Chains \subseteq Seq(Certs)
  /\ \A c \in Certs : c.hasNc \in BOOLEAN
  /\ MAX_CHAIN_NAMES \in Nat
  /\ MAX_CHAIN_CONSTRAINTS \in Nat

ASSUME ExtractorAssumption ==
  /\ \A c \in Certs, leaf \in BOOLEAN : ExtractNames(c, leaf) \in NamesResult
  /\ \A c \in Certs : ExtractConstraints(c) \in ConstraintsResult

\* Only x509_constraints_check reports a violation: the extractors' errors
\* are syntax, min/max and allocation errors.
ASSUME ExtractorErrorAssumption ==
  /\ \A c \in Certs, leaf \in BOOLEAN :
       ExtractNames(c, leaf).error \notin {"EXCLUDED_VIOLATION", "PERMITTED_VIOLATION"}
  /\ \A c \in Certs :
       ExtractConstraints(c).error \notin {"EXCLUDED_VIOLATION", "PERMITTED_VIOLATION"}

VARIABLES
  chain,              \* the chain argument
  pc,                 \* where in x509_constraints_chain the call is
  i,                  \* the loop index
  names,              \* the accumulated names of certificates 0 .. i - 1
  permitted,          \* the transient permitted list of certificate i
  excluded,           \* the transient excluded list of certificate i
  constraints_count,  \* the running count of constraints
  error,              \* *error (verify_err)
  depth               \* *depth

vars == <<chain, pc, i, names, permitted, excluded, constraints_count, error, depth>>

PCs == {"start", "leaf", "nc", "check", "names", "done", "err"}

\* Mutants of the err label: depth set one past, or one before, the index.
GotoErrDepthPlusOne(e) == pc' = "err" /\ error' = e /\ depth' = i + 1
GotoErrDepthMinusOne(e) == pc' = "err" /\ error' = e /\ depth' = i - 1

\* The goto err: the call returns 0 with the error and the index it was at.
GotoErr(e) ==
  /\ pc' = "err"
  /\ error' = e
  /\ depth' = i

Init ==
  /\ chain \in Chains
  /\ pc = "start"
  /\ i = 0
  /\ names = <<>>
  /\ permitted = <<>>
  /\ excluded = <<>>
  /\ constraints_count = 0
  /\ error = "UNSPECIFIED"
  /\ depth = 0

(***************************************************************************)
(* An empty chain is an error, a single certificate passes, otherwise the  *)
(* names list is allocated and the leaf's names are extracted.             *)
(***************************************************************************)
Start ==
  /\ pc = "start"
  /\ IF Len(chain) = 0 THEN GotoErr("UNSPECIFIED")
     ELSE IF Len(chain) = 1 THEN pc' = "done" /\ UNCHANGED <<error, depth>>
     ELSE pc' = "leaf" /\ UNCHANGED <<error, depth>>
  /\ UNCHANGED <<chain, i, names, permitted, excluded, constraints_count>>

ExtractLeafNames ==
  /\ pc = "leaf"
  /\ LET r == ExtractNames(chain[1], TRUE)
     IN IF r.ok
        THEN /\ names' = r.names
             /\ i' = 1
             /\ pc' = "nc"
             /\ UNCHANGED <<error, depth>>
        ELSE GotoErr(r.error) /\ UNCHANGED <<names, i>>
  /\ UNCHANGED <<chain, permitted, excluded, constraints_count>>

(***************************************************************************)
(* A certificate with NameConstraints: extract its subtrees, add their     *)
(* number to constraints_count and fail when it passes the ceiling.        *)
(***************************************************************************)
ExtractCertConstraints ==
  /\ pc = "nc"
  /\ LET cert == chain[i + 1]
         r == ExtractConstraints(cert)
         count == constraints_count + Len(r.permitted) + Len(r.excluded)
     IN IF ~cert.hasNc
        THEN pc' = "names" /\ UNCHANGED <<permitted, excluded, constraints_count, error, depth>>
        ELSE IF ~r.ok
        THEN GotoErr(r.error) /\ UNCHANGED <<permitted, excluded, constraints_count>>
        ELSE /\ permitted' = r.permitted
             /\ excluded' = r.excluded
             /\ constraints_count' = count
             /\ IF count > MAX_CHAIN_CONSTRAINTS
                THEN GotoErr("OUT_OF_MEM")
                ELSE pc' = "check" /\ UNCHANGED <<error, depth>>
  /\ UNCHANGED <<chain, i, names>>

\* x509_constraints_check of every accumulated name, then the lists are freed.
CheckConstraints ==
  /\ pc = "check"
  /\ LET r == Check(names, permitted, excluded)
     IN IF r.ok
        THEN /\ permitted' = <<>>
             /\ excluded' = <<>>
             /\ pc' = "names"
             /\ UNCHANGED <<error, depth>>
        ELSE GotoErr(r.error) /\ UNCHANGED <<permitted, excluded>>
  /\ UNCHANGED <<chain, i, names, constraints_count>>

(***************************************************************************)
(* The certificate's own names are appended; the names ceiling is checked  *)
(* after them, and the loop moves on to the next certificate.              *)
(***************************************************************************)
\* Mutant: the certificate's names replace the accumulated ones.
ExtractCertNamesReplacing ==
  /\ pc = "names"
  /\ LET r == ExtractNames(chain[i + 1], FALSE)
     IN IF ~r.ok
        THEN GotoErr(r.error) /\ UNCHANGED <<names, i>>
        ELSE /\ names' = r.names
             /\ IF Len(r.names) > MAX_CHAIN_NAMES
                THEN GotoErr("OUT_OF_MEM") /\ UNCHANGED i
                ELSE /\ i' = i + 1
                     /\ pc' = IF i + 1 < Len(chain) THEN "nc" ELSE "done"
                     /\ UNCHANGED <<error, depth>>
  /\ UNCHANGED <<chain, permitted, excluded, constraints_count>>

ExtractCertNames ==
  /\ pc = "names"
  /\ LET r == ExtractNames(chain[i + 1], FALSE)
         all == names \o r.names
     IN IF ~r.ok
        THEN GotoErr(r.error) /\ UNCHANGED <<names, i>>
        ELSE /\ names' = all
             /\ IF Len(all) > MAX_CHAIN_NAMES
                THEN GotoErr("OUT_OF_MEM") /\ UNCHANGED i
                ELSE /\ i' = i + 1
                     /\ pc' = IF i + 1 < Len(chain) THEN "nc" ELSE "done"
                     /\ UNCHANGED <<error, depth>>
  /\ UNCHANGED <<chain, permitted, excluded, constraints_count>>

(***************************************************************************)
(* An allocation (names_new, the extractors' malloc/strdup/names_add) that *)
(* returns NULL: the call fails with X509_V_ERR_OUT_OF_MEM at index i.     *)
(***************************************************************************)
AllocFail ==
  /\ \/ pc \in {"leaf", "names"}
     \/ pc = "nc" /\ chain[i + 1].hasNc
  /\ GotoErr("OUT_OF_MEM")
  /\ UNCHANGED <<chain, i, names, permitted, excluded, constraints_count>>

\* The call has returned.
Returned ==
  /\ pc \in {"done", "err"}
  /\ UNCHANGED vars

Next ==
  \/ Start
  \/ ExtractLeafNames
  \/ ExtractCertConstraints
  \/ CheckConstraints
  \/ ExtractCertNames
  \/ AllocFail
  \/ Returned

Spec == Init /\ [][Next]_vars

-----------------------------------------------------------------------------
TypeOK ==
  /\ chain \in Seq(Certs)
  /\ pc \in PCs
  /\ i \in Nat
  /\ names \in Seq(NameRec)
  /\ permitted \in Seq(NameRec)
  /\ excluded \in Seq(NameRec)
  /\ constraints_count \in Nat
  /\ error \in ErrorCodes
  /\ depth \in Nat

\* The names extracted from the certificate at position j (1-based) and the
\* constraints of the one at position k, as the walk extracts them.
NamesOf(j) == ExtractNames(chain[j], j = 1).names
ConstraintsOf(k) == ExtractConstraints(chain[k])

\* A name of certificate j violates the constraints of certificate k.
ViolationAt(j, k) ==
  /\ chain[k].hasNc
  /\ \E x \in 1..Len(NamesOf(j)) :
       Violates(NamesOf(j)[x], ConstraintsOf(k).permitted, ConstraintsOf(k).excluded)

(***************************************************************************)
(* Soundness of x509_constraints_chain returning 1: every name of every    *)
(* certificate satisfies the NameConstraints of every certificate above it *)
(* in the chain (the leaf's names against every CA, each intermediate's    *)
(* against the CAs above it, the root's own constraints included).         *)
(***************************************************************************)
NamesConstrained ==
  pc = "done" =>
    \A k \in 2..Len(chain) : \A j \in 1..k - 1 : ~ViolationAt(j, k)

(***************************************************************************)
(* A constraint violation is reported at the first certificate whose       *)
(* constraints some name below it violates: such a name exists below the   *)
(* reported depth, and no certificate nearer the leaf was violated.        *)
(***************************************************************************)
ViolationAtFirstDepth ==
  (pc = "err" /\ error \in {"EXCLUDED_VIOLATION", "PERMITTED_VIOLATION"}) =>
    /\ depth + 1 \in 2..Len(chain)
    /\ \E j \in 1..depth : ViolationAt(j, depth + 1)
    /\ \A k \in 2..depth : \A j \in 1..k - 1 : ~ViolationAt(j, k)

(***************************************************************************)
(* What section 5 of the design says of the ceilings: MAX_CHAIN_NAMES      *)
(* bounds the work of a call, so no x509_constraints_check runs over more  *)
(* than MAX_CHAIN_NAMES names.  The names ceiling is tested only after a   *)
(* CA's own names are appended, never after the leaf's, so the first CA    *)
(* with NameConstraints checks all of the leaf's names, however many.      *)
(***************************************************************************)
CheckedNamesBounded ==
  pc = "check" => Len(names) <= MAX_CHAIN_NAMES
=============================================================================
