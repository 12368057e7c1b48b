--------------------------- MODULE X509ChainProofs ---------------------------
(***************************************************************************)
(* Proofs about x509_constraints_chain (module X509Chain) for every set of *)
(* chains, every pair of ceilings and every pair of extractors whose       *)
(* results have the types ExtractorAssumption gives them.                  *)
(*                                                                         *)
(* Neither TypeOK nor NamesConstrained is inductive by itself: the loop    *)
(* body reads chain[i + 1], which is a certificate only while i is below   *)
(* the length of the chain, and a "done" state says nothing of the names   *)
(* that were checked on the way.  IInv adds where i is at each pc, what    *)
(* the transient permitted and excluded lists hold at "check", and that    *)
(* every name of the certificates walked so far is in names and has       *)
(* passed the constraints of every certificate walked so far.              *)
(***************************************************************************)
EXTENDS X509Chain, SequenceTheorems, TLAPS

\* The set of the elements of a sequence.
Elems(s) == {s[x] : x \in 1..Len(s)}

\* No name of the certificates 1 .. k - 1 violates the constraints of k.
CheckedUpTo(k) == \A j \in 1..k - 1 : ~ViolationAt(j, k)

(***************************************************************************)
(* Where the loop index is at each point of the walk: the leaf's names are *)
(* extracted only from chains of two or more, the loop body runs with      *)
(* chain[i + 1] a certificate above the leaf, and a successful return has  *)
(* walked the whole chain.                                                 *)
(***************************************************************************)
PcInv ==
  /\ pc = "start" => i = 0
  /\ pc = "leaf" => Len(chain) >= 2 /\ i = 0
  /\ pc \in {"nc", "check", "names"} => i \in 1..Len(chain) - 1
  /\ pc = "done" => i = Len(chain) \/ (Len(chain) = 1 /\ i = 0)

\* At "check" the transient lists hold the subtrees of chain[i + 1].
ListsInv ==
  pc = "check" =>
    /\ chain[i + 1].hasNc
    /\ permitted = ConstraintsOf(i + 1).permitted
    /\ excluded = ConstraintsOf(i + 1).excluded

(***************************************************************************)
(* At "names" the names so far passed the constraints of chain[i + 1];     *)
(* from "nc" on, names holds every name of chain[1 .. i] and those names   *)
(* passed the constraints of every certificate of chain[2 .. i].           *)
(***************************************************************************)
WalkInv ==
  /\ pc = "names" => (chain[i + 1].hasNc => CheckedUpTo(i + 1))
  /\ pc \in {"nc", "check", "names", "done"} =>
       /\ \A j \in 1..i : Elems(NamesOf(j)) \subseteq Elems(names)
       /\ \A k \in 2..i : CheckedUpTo(k)

IInv == TypeOK /\ PcInv /\ ListsInv /\ WalkInv

-----------------------------------------------------------------------------
\* x509_constraints_check returns a flag and one of the verifier's error codes.
LEMMA CheckType ==
  ASSUME NEW n, NEW p, NEW e
  PROVE  /\ Check(n, p, e).ok \in BOOLEAN
         /\ Check(n, p, e).error \in ErrorCodes
BY DEF Check, ErrorCodes

\* x509_constraints_check succeeds only when no name violates the subtrees.
LEMMA CheckSound ==
  ASSUME NEW n, NEW p, NEW e, Check(n, p, e).ok
  PROVE  \A x \in 1..Len(n) : ~Violates(n[x], p, e)
BY DEF Check

\* A length is empty, single or longer.
LEMMA NatCases == \A n \in Nat : n = 0 \/ n = 1 \/ n > 1
OBVIOUS

\* The running count of constraints stays a natural number.
LEMMA NatSum == \A a, b, c \in Nat : a + b + c \in Nat
OBVIOUS

\* The loop index ranges grow by one at their top.
LEMMA IntervalSplit ==
  \A n \in Nat :
    /\ \A j \in 1..n + 1 : j \in 1..n \/ j = n + 1
    /\ \A j \in 2..n + 1 : j \in 2..n \/ j = n + 1
OBVIOUS

\* The certificates of every chain the caller may pass.
LEMMA ChainCert ==
  ASSUME NEW c \in Seq(Certs), NEW k \in 1..Len(c)
  PROVE  c[k] \in Certs
OBVIOUS

\* Appending the names of a certificate keeps the names already there.
LEMMA ElemsConcat ==
  ASSUME NEW S, NEW s \in Seq(S), NEW t \in Seq(S)
  PROVE  Elems(s) \cup Elems(t) \subseteq Elems(s \o t)
<1>1. Elems(s) \subseteq Elems(s \o t)
  <2> SUFFICES ASSUME NEW x \in 1..Len(s) PROVE s[x] \in Elems(s \o t)
    BY DEF Elems
  <2>1. x \in 1..Len(s \o t) /\ (s \o t)[x] = s[x]
    OBVIOUS
  <2>. QED
    BY <2>1 DEF Elems
<1>2. Elems(t) \subseteq Elems(s \o t)
  <2> SUFFICES ASSUME NEW x \in 1..Len(t) PROVE t[x] \in Elems(s \o t)
    BY DEF Elems
  <2>1. Len(s) + x \in 1..Len(s \o t) /\ (s \o t)[Len(s) + x] = t[x]
    OBVIOUS
  <2>. QED
    BY <2>1 DEF Elems
<1>. QED
  BY <1>1, <1>2

\* What the walk has checked depends on the chain alone.
LEMMA ChainFrame ==
  ASSUME chain' = chain
  PROVE  /\ \A j : NamesOf(j)' = NamesOf(j)
         /\ \A k : ConstraintsOf(k)' = ConstraintsOf(k)
         /\ \A k : CheckedUpTo(k)' = CheckedUpTo(k)
BY DEF NamesOf, ConstraintsOf, CheckedUpTo, ViolationAt

\* The walk starts in a state of IInv.
LEMMA InitIInv == Init => IInv
BY ChainAssumption DEF Init, IInv, TypeOK, PCs, ErrorCodes, PcInv, ListsInv, WalkInv
\* A step to the err label keeps IInv whatever it leaves in the lists.
LEMMA ErrStep ==
  ASSUME IInv, pc' = "err", error' \in ErrorCodes, depth' = i,
         chain' = chain, i' \in Nat,
         names' \in Seq(NameRec), permitted' \in Seq(NameRec),
         excluded' \in Seq(NameRec), constraints_count' \in Nat
  PROVE  IInv'
BY DEF IInv, TypeOK, PCs, PcInv, ListsInv, WalkInv

\* The stuttering steps, and the returned call, keep IInv.
LEMMA StutterStep ==
  ASSUME IInv, UNCHANGED vars
  PROVE  IInv'
<1>1. \A j : NamesOf(j)' = NamesOf(j)
  BY ChainFrame DEF vars
<1>2. \A k : ConstraintsOf(k)' = ConstraintsOf(k)
  BY ChainFrame DEF vars
<1>3. \A k : CheckedUpTo(k)' = CheckedUpTo(k)
  BY ChainFrame DEF vars
<1>. QED
  BY <1>1, <1>2, <1>3 DEF vars, IInv, TypeOK, PcInv, ListsInv, WalkInv

\* Start: an empty chain fails, a lone leaf returns, a longer chain goes on.
LEMMA StartStep ==
  ASSUME IInv, Start
  PROVE  IInv'
<1>1. pc = "start" /\ UNCHANGED <<chain, i, names, permitted, excluded, constraints_count>>
  BY DEF Start
<1>2. i = 0 /\ chain \in Seq(Certs)
  BY <1>1 DEF IInv, TypeOK, PcInv
<1>3. CASE Len(chain) = 0
  BY <1>1, <1>2, <1>3, ErrStep DEF Start, GotoErr, ErrorCodes, IInv, TypeOK
<1>4. CASE Len(chain) = 1
  <2>1. pc' = "done" /\ UNCHANGED <<error, depth>>
    BY <1>4 DEF Start
  <2>. QED
    BY <1>1, <1>2, <1>4, <2>1 DEF IInv, TypeOK, PCs, PcInv, ListsInv, WalkInv
<1>5. CASE Len(chain) > 1
  <2>0. Len(chain) # 0 /\ Len(chain) # 1
    BY <1>5
  <2>1. pc' = "leaf" /\ UNCHANGED <<error, depth>>
    BY <2>0, Zenon DEF Start
  <2>. QED
    BY <1>1, <1>2, <1>5, <2>1 DEF IInv, TypeOK, PCs, PcInv, ListsInv, WalkInv
<1>6. Len(chain) = 0 \/ Len(chain) = 1 \/ Len(chain) > 1
  <2>1. Len(chain) \in Nat
    BY <1>2, LenProperties
  <2>. QED
    BY <2>1, NatCases, Zenon
<1>. QED
  BY <1>3, <1>4, <1>5, <1>6

\* The leaf's names become the first names of the walk.
LEMMA LeafStep ==
  ASSUME IInv, ExtractLeafNames
  PROVE  IInv'
<1> DEFINE r == ExtractNames(chain[1], TRUE)
<1>1. pc = "leaf" /\ Len(chain) >= 2 /\ i = 0 /\ chain \in Seq(Certs)
  BY DEF ExtractLeafNames, IInv, TypeOK, PcInv
<1>2. r \in NamesResult
  <2>1. chain[1] \in Certs
    BY <1>1, ChainCert
  <2>. QED
    BY <2>1, ExtractorAssumption
<1>3. UNCHANGED <<chain, permitted, excluded, constraints_count>>
  BY DEF ExtractLeafNames
<1>4. CASE r.ok
  <2>1. names' = r.names /\ i' = 1 /\ pc' = "nc" /\ UNCHANGED <<error, depth>>
    BY <1>4 DEF ExtractLeafNames
  <2>2. NamesOf(1)' = names'
    BY <1>3, <2>1, ChainFrame DEF NamesOf
  <2>3. TypeOK'
    BY <1>2, <1>3, <2>1 DEF IInv, TypeOK, PCs, NamesResult
  <2>4. PcInv'
    BY <1>1, <1>3, <2>1 DEF PcInv
  <2>5. WalkInv'
    <3>1. \A j \in 1..i' : Elems(NamesOf(j))' \subseteq Elems(names)'
      <4> SUFFICES ASSUME NEW j \in 1..i' PROVE Elems(NamesOf(j))' \subseteq Elems(names)'
        OBVIOUS
      <4>1. j = 1
        BY <2>1
      <4>. QED
        BY <4>1, <2>2
    <3>2. \A k \in 2..i' : CheckedUpTo(k)'
      BY <2>1
    <3>. QED
      BY <2>1, <3>1, <3>2 DEF WalkInv
  <2>. QED
    BY <2>1, <2>3, <2>4, <2>5 DEF IInv, ListsInv
<1>5. CASE ~r.ok
  <2>1. GotoErr(r.error) /\ UNCHANGED <<names, i>>
    BY <1>5 DEF ExtractLeafNames
  <2>. QED
    BY <1>2, <1>3, <2>1, ErrStep DEF GotoErr, NamesResult, IInv, TypeOK
<1>. QED
  BY <1>2, <1>4, <1>5 DEF NamesResult

\* The subtrees of chain[i + 1] are extracted and counted.
LEMMA ConstraintsStep ==
  ASSUME IInv, ExtractCertConstraints
  PROVE  IInv'
<1> DEFINE cert == chain[i + 1]
           r == ExtractConstraints(cert)
           count == constraints_count + Len(r.permitted) + Len(r.excluded)
<1>1. pc = "nc" /\ i \in 1..Len(chain) - 1 /\ chain \in Seq(Certs)
  BY DEF ExtractCertConstraints, IInv, TypeOK, PcInv
<1>2. cert \in Certs
  BY <1>1, ChainCert
<1>3. r \in ConstraintsResult /\ cert.hasNc \in BOOLEAN
  BY <1>2, ExtractorAssumption, ChainAssumption
<1>4. UNCHANGED <<chain, i, names>>
  BY DEF ExtractCertConstraints
<1>5. \A j : NamesOf(j)' = NamesOf(j)
  BY <1>4, ChainFrame
<1>6. \A k : ConstraintsOf(k)' = ConstraintsOf(k)
  BY <1>4, ChainFrame
<1>7. \A k : CheckedUpTo(k)' = CheckedUpTo(k)
  BY <1>4, ChainFrame
<1>8. CASE ~cert.hasNc
  <2>1. pc' = "names" /\ UNCHANGED <<permitted, excluded, constraints_count, error, depth>>
    BY <1>8 DEF ExtractCertConstraints
  <2>. QED
    BY <1>1, <1>4, <1>5, <1>7, <1>8, <2>1 DEF IInv, TypeOK, PCs, PcInv, ListsInv, WalkInv
<1>9. CASE cert.hasNc /\ ~r.ok
  <2>1. GotoErr(r.error) /\ UNCHANGED <<permitted, excluded, constraints_count>>
    BY <1>9 DEF ExtractCertConstraints
  <2>. QED
    BY <1>3, <1>4, <2>1, ErrStep DEF GotoErr, ConstraintsResult, IInv, TypeOK
<1>10. CASE cert.hasNc /\ r.ok
  <2>1. permitted' = r.permitted /\ excluded' = r.excluded /\ constraints_count' = count
    BY <1>10 DEF ExtractCertConstraints
  <2>2. permitted' \in Seq(NameRec) /\ excluded' \in Seq(NameRec) /\ constraints_count' \in Nat
    <3>1. r.permitted \in Seq(NameRec) /\ r.excluded \in Seq(NameRec)
      BY <1>3 DEF ConstraintsResult
    <3>2. Len(r.permitted) \in Nat /\ Len(r.excluded) \in Nat /\ constraints_count \in Nat
      BY <3>1, LenProperties DEF IInv, TypeOK
    <3>3. count \in Nat
      BY <3>2, NatSum, Zenon
    <3>4. constraints_count' \in Nat
      BY <2>1, <3>3, Zenon
    <3>. QED
      BY <2>1, <3>1, <3>4, Zenon
  <2>3. CASE count > MAX_CHAIN_CONSTRAINTS
    <3>1. GotoErr("OUT_OF_MEM")
      BY <1>10, <2>3 DEF ExtractCertConstraints
    <3>. QED
      BY <1>4, <2>2, <3>1, ErrStep DEF GotoErr, ErrorCodes, IInv, TypeOK
  <2>4. CASE ~(count > MAX_CHAIN_CONSTRAINTS)
    <3>1. pc' = "check" /\ UNCHANGED <<error, depth>>
      BY <1>10, <2>4 DEF ExtractCertConstraints
    <3>2. ListsInv'
      BY <1>6, <1>4, <1>10, <2>1, <3>1 DEF ListsInv, ConstraintsOf
    <3>. QED
      BY <1>1, <1>4, <1>5, <1>7, <2>2, <3>1, <3>2 DEF IInv, TypeOK, PCs, PcInv, WalkInv
  <2>. QED
    BY <2>3, <2>4
<1>. QED
  BY <1>3, <1>8, <1>9, <1>10

(***************************************************************************)
(* x509_constraints_check of the names so far against chain[i + 1]: when   *)
(* it passes, no name of chain[1 .. i] violates those subtrees, since each *)
(* of them is one of the names checked.                                    *)
(***************************************************************************)
LEMMA CheckStep ==
  ASSUME IInv, CheckConstraints
  PROVE  IInv'
<1> DEFINE r == Check(names, permitted, excluded)
<1>1. pc = "check" /\ i \in 1..Len(chain) - 1
  BY DEF CheckConstraints, IInv, PcInv
<1>2. UNCHANGED <<chain, i, names, constraints_count>>
  BY DEF CheckConstraints
<1>3. r.ok \in BOOLEAN /\ r.error \in ErrorCodes
  BY CheckType
<1>4. \A j : NamesOf(j)' = NamesOf(j)
  BY <1>2, ChainFrame
<1>5. \A k : CheckedUpTo(k)' = CheckedUpTo(k)
  BY <1>2, ChainFrame
<1>6. CASE r.ok
  <2>1. permitted' = <<>> /\ excluded' = <<>> /\ pc' = "names" /\ UNCHANGED <<error, depth>>
    BY <1>6 DEF CheckConstraints
  <2>2. CheckedUpTo(i + 1)
    <3> SUFFICES ASSUME NEW j \in 1..i, ViolationAt(j, i + 1) PROVE FALSE
      BY <1>1 DEF CheckedUpTo
    <3>1. PICK x \in 1..Len(NamesOf(j)) :
            Violates(NamesOf(j)[x], ConstraintsOf(i + 1).permitted, ConstraintsOf(i + 1).excluded)
      BY DEF ViolationAt
    <3>2. NamesOf(j)[x] \in Elems(names)
      BY <1>1 DEF IInv, WalkInv, Elems
    <3>3. PICK y \in 1..Len(names) : names[y] = NamesOf(j)[x]
      BY <3>2 DEF Elems
    <3>4. ~Violates(names[y], permitted, excluded)
      BY <1>6, CheckSound
    <3>5. permitted = ConstraintsOf(i + 1).permitted /\ excluded = ConstraintsOf(i + 1).excluded
      BY <1>1 DEF IInv, ListsInv
    <3>. QED
      BY <3>1, <3>3, <3>4, <3>5
  <2>3. CheckedUpTo(i + 1)'
    BY <2>2, <1>2, <1>5, Zenon
  <2>. QED
    BY <1>1, <1>2, <1>4, <1>5, <2>1, <2>3 DEF IInv, TypeOK, PCs, PcInv, ListsInv, WalkInv
<1>7. CASE ~r.ok
  <2>1. GotoErr(r.error) /\ UNCHANGED <<permitted, excluded>>
    BY <1>7 DEF CheckConstraints
  <2>. QED
    BY <1>2, <1>3, <2>1, ErrStep DEF GotoErr, IInv, TypeOK
<1>. QED
  BY <1>3, <1>6, <1>7

(***************************************************************************)
(* The names of chain[i + 1] are appended and the loop moves on: the names *)
(* of chain[1 .. i + 1] are all in names, and chain[i + 1] was checked at  *)
(* "check" when it has constraints and trivially when it has none.         *)
(***************************************************************************)
LEMMA NamesStep ==
  ASSUME IInv, ExtractCertNames
  PROVE  IInv'
<1> DEFINE r == ExtractNames(chain[i + 1], FALSE)
           all == names \o r.names
<1>1. pc = "names" /\ i \in 1..Len(chain) - 1 /\ chain \in Seq(Certs) /\ names \in Seq(NameRec)
  BY DEF ExtractCertNames, IInv, TypeOK, PcInv
<1>2. chain[i + 1] \in Certs
  BY <1>1, ChainCert
<1>3. r \in NamesResult
  BY <1>2, ExtractorAssumption
<1>4. r.names \in Seq(NameRec) /\ r.ok \in BOOLEAN /\ r.error \in ErrorCodes
  BY <1>3 DEF NamesResult
<1>5. all \in Seq(NameRec)
  BY <1>1, <1>4, ConcatProperties
<1>6. UNCHANGED <<chain, permitted, excluded, constraints_count>>
  BY DEF ExtractCertNames
<1>7. \A j : NamesOf(j)' = NamesOf(j)
  BY <1>6, ChainFrame
<1>8. \A k : CheckedUpTo(k)' = CheckedUpTo(k)
  BY <1>6, ChainFrame
<1>9. CASE ~r.ok
  <2>1. GotoErr(r.error) /\ UNCHANGED <<names, i>>
    BY <1>9 DEF ExtractCertNames
  <2>. QED
    BY <1>1, <1>4, <1>6, <2>1, ErrStep DEF GotoErr, IInv, TypeOK
<1>10. CASE r.ok /\ Len(all) > MAX_CHAIN_NAMES
  <2>1. names' = all /\ GotoErr("OUT_OF_MEM") /\ UNCHANGED i
    BY <1>10 DEF ExtractCertNames
  <2>. QED
    BY <1>1, <1>5, <1>6, <2>1, ErrStep DEF GotoErr, ErrorCodes, IInv, TypeOK
<1>11. CASE r.ok /\ ~(Len(all) > MAX_CHAIN_NAMES)
  <2>1. /\ names' = all /\ i' = i + 1
        /\ pc' = IF i + 1 < Len(chain) THEN "nc" ELSE "done"
        /\ UNCHANGED <<error, depth>>
    BY <1>11 DEF ExtractCertNames
  <2>2. PcInv'
    BY <1>1, <1>6, <2>1 DEF PcInv
  <2>3. \A j \in 1..i + 1 : Elems(NamesOf(j)) \subseteq Elems(all)
    <3> SUFFICES ASSUME NEW j \in 1..i + 1 PROVE Elems(NamesOf(j)) \subseteq Elems(all)
      OBVIOUS
    <3>1. Elems(names) \cup Elems(r.names) \subseteq Elems(all)
      BY <1>1, <1>4, ElemsConcat
    <3>2. CASE j \in 1..i
      BY <1>1, <3>1, <3>2 DEF IInv, WalkInv
    <3>3. CASE j = i + 1
      <4>0. (j = 1) = FALSE
        BY <1>1, <3>3
      <4>1. NamesOf(j) = r.names
        BY <4>0, <3>3, Zenon DEF NamesOf
      <4>. QED
        BY <3>1, <4>1
    <3>4. i \in Nat
      BY <1>1
    <3>5. j \in 1..i \/ j = i + 1
      BY <3>4, IntervalSplit, Zenon
    <3>. QED
      BY <3>2, <3>3, <3>5
  <2>4. \A k \in 2..i + 1 : CheckedUpTo(k)
    <3> SUFFICES ASSUME NEW k \in 2..i + 1 PROVE CheckedUpTo(k)
      OBVIOUS
    <3>1. CASE k \in 2..i
      BY <1>1, <3>1 DEF IInv, WalkInv
    <3>2. CASE k = i + 1 /\ chain[i + 1].hasNc
      BY <1>1, <3>2 DEF IInv, WalkInv
    <3>3. CASE k = i + 1 /\ ~chain[i + 1].hasNc
      BY <3>3 DEF CheckedUpTo, ViolationAt
    <3>4. i \in Nat
      BY <1>1
    <3>5. k \in 2..i \/ k = i + 1
      BY <3>4, IntervalSplit, Zenon
    <3>. QED
      BY <3>1, <3>2, <3>3, <3>5
  <2>5. WalkInv'
    <3>1. \A j \in 1..i' : Elems(NamesOf(j))' \subseteq Elems(names)'
      <4> SUFFICES ASSUME NEW j \in 1..i + 1 PROVE Elems(NamesOf(j)') \subseteq Elems(names')
        BY <2>1
      <4>. QED
        BY <1>7, <2>1, <2>3, Zenon
    <3>2. \A k \in 2..i' : CheckedUpTo(k)'
      <4> SUFFICES ASSUME NEW k \in 2..i + 1 PROVE CheckedUpTo(k)'
        BY <2>1
      <4>. QED
        BY <1>8, <2>4, Zenon
    <3>. QED
      BY <2>1, <3>1, <3>2 DEF WalkInv
  <2>6. TypeOK'
    <3>1. pc' \in PCs /\ i' \in Nat
      BY <1>1, <2>1 DEF PCs
    <3>. QED
      BY <1>5, <1>6, <2>1, <3>1 DEF IInv, TypeOK
  <2>. QED
    BY <2>1, <2>2, <2>5, <2>6 DEF IInv, ListsInv
<1>. QED
  BY <1>4, <1>9, <1>10, <1>11

\* An allocation that fails sends the walk to err.
LEMMA AllocFailStep ==
  ASSUME IInv, AllocFail
  PROVE  IInv'
BY ErrStep DEF AllocFail, GotoErr, ErrorCodes, IInv, TypeOK

\* Every step of the walk keeps IInv.
LEMMA NextIInv == IInv /\ [Next]_vars => IInv'
<1> SUFFICES ASSUME IInv, [Next]_vars PROVE IInv'
  OBVIOUS
<1>1. CASE Next
  BY <1>1, StartStep, LeafStep, ConstraintsStep, CheckStep, NamesStep, AllocFailStep,
     StutterStep DEF Next, Returned
<1>2. CASE UNCHANGED vars
  BY <1>2, StutterStep
<1>. QED
  BY <1>1, <1>2

-----------------------------------------------------------------------------
\* IInv is an invariant of the walk.
LEMMA IInvInvariant == Spec => []IInv
BY InitIInv, NextIInv, PTL DEF Spec

(***************************************************************************)
(* Type correctness of x509_constraints_chain: the index, the counters,    *)
(* the name lists and the error code keep their types in every state of   *)
(* every call, for every chain and every pair of ceilings.                 *)
(***************************************************************************)
THEOREM TypeCorrect == Spec => []TypeOK
<1>1. IInv => TypeOK
  BY DEF IInv
<1>. QED
  BY <1>1, IInvInvariant, PTL

\* IInv gives soundness in every state.
LEMMA IInvSound == IInv => NamesConstrained
<1> SUFFICES ASSUME IInv, pc = "done",
                    NEW k \in 2..Len(chain), NEW j \in 1..k - 1
             PROVE  ~ViolationAt(j, k)
  BY DEF NamesConstrained
<1>1. i = Len(chain) \/ (Len(chain) = 1 /\ i = 0)
  BY DEF IInv, PcInv
<1>2. k \in 2..i
  <2>1. CASE i = Len(chain)
    BY <2>1
  <2>2. CASE Len(chain) = 1 /\ i = 0
    <3>1. k \in 2..1
      BY <2>2
    <3>. QED
      BY <3>1
  <2>. QED
    BY <1>1, <2>1, <2>2
<1>3. CheckedUpTo(k)
  BY <1>2 DEF IInv, WalkInv
<1>. QED
  BY <1>3 DEF CheckedUpTo

(***************************************************************************)
(* Soundness of x509_constraints_chain: when the call returns 1, no name   *)
(* extracted from any certificate violates the NameConstraints of any     *)
(* certificate above it, for every chain and every pair of ceilings.       *)
(***************************************************************************)
THEOREM ChainSound == Spec => []NamesConstrained
BY IInvSound, IInvInvariant, PTL

-----------------------------------------------------------------------------
(***************************************************************************)
(* Where a violation is reported.  IInv says every name of the walked      *)
(* certificates is in names; a violation reported at depth i must also    *)
(* come from one of them, so NamesFrom adds the converse: every name in    *)
(* names is a name of some certificate chain[1 .. i].                      *)
(***************************************************************************)
NamesFrom ==
  /\ pc \in {"start", "leaf"} => names = <<>>
  /\ pc \in {"nc", "check", "names", "done"} =>
       \A x \in 1..Len(names) : \E j \in 1..i : names[x] \in Elems(NamesOf(j))

DInv == IInv /\ NamesFrom /\ ViolationAtFirstDepth

\* The two errors x509_constraints_check reports.
Viol == {"EXCLUDED_VIOLATION", "PERMITTED_VIOLATION"}

\* x509_constraints_check fails only when some name violates the subtrees.
LEMMA CheckFails ==
  ASSUME NEW n, NEW p, NEW e, ~Check(n, p, e).ok
  PROVE  \E x \in 1..Len(n) : Violates(n[x], p, e)
BY DEF Check

\* A return with an error other than a violation says nothing to check.
LEMMA QuietErr ==
  ASSUME pc' = "err", error' \notin Viol
  PROVE  NamesFrom' /\ ViolationAtFirstDepth'
BY DEF NamesFrom, ViolationAtFirstDepth, Viol

\* A step that stays in the loop and keeps names and i keeps NamesFrom.
LEMMA LoopFrame ==
  ASSUME NamesFrom, chain' = chain, names' = names, i' = i,
         pc \in {"nc", "check", "names"}, pc' \in {"nc", "check", "names"}
  PROVE  NamesFrom' /\ ViolationAtFirstDepth'
<1>1. \A j : NamesOf(j)' = NamesOf(j)
  BY ChainFrame
<1>. QED
  BY <1>1 DEF NamesFrom, ViolationAtFirstDepth

\* The initial state: names is empty and nothing is reported.
LEMMA InitDInv == Init => DInv
<1> SUFFICES ASSUME Init PROVE DInv
  OBVIOUS
<1>1. IInv
  BY InitIInv
<1>. QED
  BY <1>1 DEF Init, DInv, NamesFrom, ViolationAtFirstDepth

\* Start: the names list is still empty when a lone leaf returns.
LEMMA StartDInv ==
  ASSUME IInv, NamesFrom, Start
  PROVE  NamesFrom' /\ ViolationAtFirstDepth'
<1>1. pc = "start" /\ names = <<>> /\ UNCHANGED <<chain, i, names>>
  BY DEF Start, NamesFrom
<1>2. CASE Len(chain) = 0
  <2>1. pc' = "err" /\ error' \notin Viol
    BY <1>2 DEF Start, GotoErr, Viol
  <2>. QED  BY <2>1, QuietErr
<1>3. CASE Len(chain) # 0
  <2>1. pc' \in {"done", "leaf"}
    BY <1>3 DEF Start
  <2>. QED  BY <1>1, <2>1 DEF NamesFrom, ViolationAtFirstDepth
<1>. QED  BY <1>2, <1>3

\* The leaf's names are the names of chain[1].
LEMMA LeafDInv ==
  ASSUME IInv, NamesFrom, ExtractLeafNames
  PROVE  NamesFrom' /\ ViolationAtFirstDepth'
<1> DEFINE r == ExtractNames(chain[1], TRUE)
<1>1. pc = "leaf" /\ Len(chain) >= 2 /\ chain \in Seq(Certs) /\ chain' = chain
  BY DEF ExtractLeafNames, IInv, TypeOK, PcInv
<1>2. r.error \notin Viol
  <2>1. chain[1] \in Certs
    BY <1>1, ChainCert
  <2>. QED  BY <2>1, ExtractorErrorAssumption DEF Viol
<1>3. CASE r.ok
  <2>1. names' = r.names /\ i' = 1 /\ pc' = "nc"
    BY <1>3 DEF ExtractLeafNames
  <2>2. NamesOf(1)' = names'
    BY <1>1, <2>1, ChainFrame DEF NamesOf
  <2>3. \A x \in 1..Len(names') : names'[x] \in Elems(NamesOf(1)')
    BY <2>2 DEF Elems
  <2>4. \A x \in 1..Len(names') : \E j \in 1..i' : names'[x] \in Elems(NamesOf(j)')
    <3> SUFFICES ASSUME NEW x \in 1..Len(names')
                 PROVE  \E j \in 1..i' : names'[x] \in Elems(NamesOf(j)')
      OBVIOUS
    <3>1. 1 \in 1..i'
      BY <2>1
    <3>2. names'[x] \in Elems(NamesOf(1)')
      BY <2>3
    <3>. QED  BY <3>1, <3>2, Zenon
  <2>. QED  BY <2>1, <2>4 DEF NamesFrom, ViolationAtFirstDepth
<1>4. CASE ~r.ok
  <2>1. pc' = "err" /\ error' = r.error
    BY <1>4 DEF ExtractLeafNames, GotoErr
  <2>. QED  BY <1>2, <2>1, QuietErr
<1>. QED  BY <1>3, <1>4

\* Extracting the constraints keeps names and i, or fails without a violation.
LEMMA ConstraintsDInv ==
  ASSUME IInv, NamesFrom, ExtractCertConstraints
  PROVE  NamesFrom' /\ ViolationAtFirstDepth'
<1> DEFINE cert == chain[i + 1]
           r == ExtractConstraints(cert)
<1>1. pc = "nc" /\ i \in 1..Len(chain) - 1 /\ chain \in Seq(Certs)
  BY DEF ExtractCertConstraints, IInv, TypeOK, PcInv
<1>2. UNCHANGED <<chain, i, names>>
  BY DEF ExtractCertConstraints
<1>3. r.error \notin Viol
  <2>1. cert \in Certs
    BY <1>1, ChainCert
  <2>. QED  BY <2>1, ExtractorErrorAssumption DEF Viol
<1>4. pc' \in {"names", "check"} \/ (pc' = "err" /\ error' \notin Viol)
  BY <1>3 DEF ExtractCertConstraints, GotoErr, Viol
<1>. QED  BY <1>1, <1>2, <1>4, QuietErr, LoopFrame


(***************************************************************************)
(* x509_constraints_check fails: the name it tripped on is a name of some  *)
(* chain[j] with j <= i (NamesFrom), so chain[i + 1] is violated, and      *)
(* every certificate below it passed (WalkInv): depth = i is the first.   *)
(***************************************************************************)
LEMMA CheckDInv ==
  ASSUME IInv, NamesFrom, CheckConstraints
  PROVE  NamesFrom' /\ ViolationAtFirstDepth'
<1> DEFINE r == Check(names, permitted, excluded)
<1>1. pc = "check" /\ i \in 1..Len(chain) - 1
  BY DEF CheckConstraints, IInv, PcInv
<1>2. UNCHANGED <<chain, i, names>>
  BY DEF CheckConstraints
<1>3. CASE r.ok
  <2>1. pc' = "names"
    BY <1>3 DEF CheckConstraints
  <2>. QED  BY <1>1, <1>2, <2>1, LoopFrame
<1>4. CASE ~r.ok
  <2>1. pc' = "err" /\ error' = r.error /\ depth' = i
    BY <1>4 DEF CheckConstraints, GotoErr
  <2>2. NamesFrom'
    BY <2>1 DEF NamesFrom
  <2>3. PICK x \in 1..Len(names) : Violates(names[x], permitted, excluded)
    BY <1>4, CheckFails
  <2>4. PICK j \in 1..i : names[x] \in Elems(NamesOf(j))
    BY <1>1, <2>3 DEF NamesFrom
  <2>5. ViolationAt(j, i + 1)
    <3>1. PICK y \in 1..Len(NamesOf(j)) : NamesOf(j)[y] = names[x]
      BY <2>4 DEF Elems
    <3>2. /\ chain[i + 1].hasNc
          /\ permitted = ConstraintsOf(i + 1).permitted
          /\ excluded = ConstraintsOf(i + 1).excluded
      BY <1>1 DEF IInv, ListsInv
    <3>. QED  BY <2>3, <3>1, <3>2 DEF ViolationAt
  <2>6. \A k \in 2..i : CheckedUpTo(k)
    BY <1>1 DEF IInv, WalkInv
  <2>7. /\ \A a, b : ViolationAt(a, b)' = ViolationAt(a, b)
        /\ Len(chain') = Len(chain)
    BY <1>2 DEF ViolationAt, NamesOf, ConstraintsOf
  <2>8. (depth + 1 \in 2..Len(chain))'
    BY <1>1, <2>1, <2>7
  <2>9. (\E jj \in 1..depth : ViolationAt(jj, depth + 1))'
    <3>1. ViolationAt(j, i + 1)'
      BY <1>2, <2>5, <2>7
    <3>. QED  BY <1>2, <2>1, <3>1
  <2>10. (\A k \in 2..depth : \A jj \in 1..k - 1 : ~ViolationAt(jj, k))'
    BY <2>1, <2>6, <2>7 DEF CheckedUpTo
  <2>. QED  BY <2>2, <2>8, <2>9, <2>10 DEF ViolationAtFirstDepth
<1>. QED  BY <1>3, <1>4

\* A CA's names are appended: the new ones are the names of chain[i + 1].
LEMMA NamesDInv ==
  ASSUME IInv, NamesFrom, ExtractCertNames
  PROVE  NamesFrom' /\ ViolationAtFirstDepth'
<1> DEFINE r == ExtractNames(chain[i + 1], FALSE)
           all == names \o r.names
<1>1. pc = "names" /\ i \in 1..Len(chain) - 1 /\ chain \in Seq(Certs)
      /\ names \in Seq(NameRec)
  BY DEF ExtractCertNames, IInv, TypeOK, PcInv
<1>2. chain[i + 1] \in Certs
  BY <1>1, ChainCert
<1>3. r.names \in Seq(NameRec) /\ r.error \notin Viol
  BY <1>2, ExtractorAssumption, ExtractorErrorAssumption DEF NamesResult, Viol
<1>4. chain' = chain
  BY DEF ExtractCertNames
<1>5. CASE ~r.ok \/ Len(all) > MAX_CHAIN_NAMES
  <2>1. pc' = "err" /\ error' \notin Viol
    BY <1>3, <1>5 DEF ExtractCertNames, GotoErr, Viol
  <2>. QED  BY <2>1, QuietErr
<1>6. CASE r.ok /\ ~(Len(all) > MAX_CHAIN_NAMES)
  <2>0. PICK rn \in Seq(NameRec) : rn = r.names
    BY <1>3
  <2>1. /\ names' = names \o rn /\ i' = i + 1
        /\ pc' \in {"nc", "done"}
    BY <1>6, <2>0 DEF ExtractCertNames
  <2>2. NamesOf(i + 1) = rn
    <3>1. (i + 1 = 1) = FALSE
      BY <1>1
    <3>. QED  BY <2>0, <3>1, Zenon DEF NamesOf
  <2>3. \A j : NamesOf(j)' = NamesOf(j)
    BY <1>4, ChainFrame
  <2>4. ASSUME NEW x \in 1..Len(names \o rn)
        PROVE  \E j \in 1..i + 1 : (names \o rn)[x] \in Elems(NamesOf(j))
    <3>0. PICK l1 \in Nat : l1 = Len(names)
      BY <1>1, LenProperties
    <3>1. PICK l2 \in Nat : l2 = Len(rn)
      BY LenProperties
    <3>2. /\ Len(names \o rn) = l1 + l2
          /\ \A z \in 1..l1 + l2 :
               (names \o rn)[z] = IF z <= l1 THEN names[z] ELSE rn[z - l1]
      BY <1>1, <3>0, <3>1, ConcatProperties
    <3>3. x \in 1..l1 + l2
      BY <3>2
    <3>4. CASE x <= l1
      <4>1. (names \o rn)[x] = names[x] /\ x \in 1..Len(names)
        BY <3>0, <3>2, <3>3, <3>4
      <4>2. \A z \in 1..Len(names) : \E j \in 1..i : names[z] \in Elems(NamesOf(j))
        BY <1>1 DEF NamesFrom
      <4>3. PICK j \in 1..i : names[x] \in Elems(NamesOf(j))
        BY <4>1, <4>2
      <4>4. j \in 1..i + 1
        BY <1>1
      <4>. QED  BY <4>1, <4>3, <4>4
    <3>5. CASE ~(x <= l1)
      <4>1. x - l1 \in 1..Len(rn) /\ (names \o rn)[x] = rn[x - l1]
        BY <3>1, <3>2, <3>3, <3>5
      <4>2. (names \o rn)[x] \in Elems(NamesOf(i + 1))
        BY <4>1, <2>2 DEF Elems
      <4>3. i + 1 \in 1..i + 1
        BY <1>1
      <4>. QED  BY <4>2, <4>3, Zenon
    <3>. QED  BY <3>4, <3>5
  <2>5. NamesFrom'
    BY <2>1, <2>3, <2>4 DEF NamesFrom
  <2>. QED  BY <2>1, <2>5 DEF ViolationAtFirstDepth
<1>. QED  BY <1>5, <1>6

\* A failed allocation reports X509_V_ERR_OUT_OF_MEM.
LEMMA AllocFailDInv ==
  ASSUME AllocFail
  PROVE  NamesFrom' /\ ViolationAtFirstDepth'
<1>1. pc' = "err" /\ error' \notin Viol
  BY DEF AllocFail, GotoErr, Viol
<1>. QED  BY <1>1, QuietErr


\* Every step of the walk keeps DInv.
LEMMA NextDInv == DInv /\ [Next]_vars => DInv'
<1> SUFFICES ASSUME DInv, [Next]_vars PROVE DInv'
  OBVIOUS
<1>1. IInv /\ NamesFrom
  BY DEF DInv
<1>2. IInv'
  BY <1>1, NextIInv
<1>3. CASE UNCHANGED vars \/ Returned
  <2>1. UNCHANGED vars
    BY <1>3 DEF Returned
  <2>2. \A j : NamesOf(j)' = NamesOf(j)
    BY <2>1, ChainFrame DEF vars
  <2>3. \A a, b : ViolationAt(a, b)' = ViolationAt(a, b)
    BY <2>1 DEF vars, ViolationAt, NamesOf, ConstraintsOf
  <2>4. NamesFrom'
    BY <1>1, <2>1, <2>2 DEF vars, NamesFrom
  <2>5. ViolationAtFirstDepth'
    BY <2>1, <2>3 DEF vars, DInv, ViolationAtFirstDepth
  <2>. QED  BY <1>2, <2>4, <2>5 DEF DInv
<1>4. CASE Start \/ ExtractLeafNames \/ ExtractCertConstraints \/ CheckConstraints
           \/ ExtractCertNames \/ AllocFail
  <2>1. NamesFrom' /\ ViolationAtFirstDepth'
    BY <1>1, <1>4, StartDInv, LeafDInv, ConstraintsDInv, CheckDInv, NamesDInv,
       AllocFailDInv
  <2>. QED  BY <1>2, <2>1 DEF DInv
<1>. QED  BY <1>3, <1>4 DEF Next

(***************************************************************************)
(* For every set of chains, both ceilings and any pair of extractors that  *)
(* report no violation themselves: when x509_constraints_chain fails with  *)
(* X509_V_ERR_EXCLUDED_VIOLATION or _PERMITTED_VIOLATION, *depth is the    *)
(* index of a CA whose NameConstraints some name of a certificate below    *)
(* it violates, and of the first such CA from the leaf up                  *)
(* (ViolationAtFirstDepth, which the run chain_pass checks).               *)
(***************************************************************************)
THEOREM ViolationDepthCorrect == Spec => []ViolationAtFirstDepth
<1>1. Init => DInv
  BY InitDInv
<1>2. DInv /\ [Next]_vars => DInv'
  BY NextDInv
<1>3. DInv => ViolationAtFirstDepth
  BY DEF DInv
<1>. QED
  BY <1>1, <1>2, <1>3, PTL DEF Spec

=============================================================================
