---------------------------- MODULE FirestoreProofs ----------------------------
(***************************************************************************)
(* The two stores over Firestore are what the code above them takes them   *)
(* for: with a single process the run store is an atomic one, and the      *)
(* optimistic retry loop of the spend store is an atomic row.              *)
(***************************************************************************)
EXTENDS FirestoreRunStore, FirestoreSpendStore, SequenceTheorems, TLAPS

-----------------------------------------------------------------------------
(* The run store. *)

(* The run record is written by one process at a time. *)
OneProcess == \A p, q \in Clients : p = q

(* Merging a patch into a record gives a record. *)
LEMMA PatchedType ==
  ASSUME NEW rec \in Atomic!Records, NEW patch \in Atomic!Patches
  PROVE  Atomic!Patched(rec, patch) \in Atomic!Records
BY DEF Atomic!Patched, Atomic!Records, Atomic!Patches

(* The head of a chain is a request, and the rest of it a chain. *)
LEMMA ChainHead ==
  ASSUME TypeOK, NEW p \in Clients, pending[p] # <<>>
  PROVE  /\ Head(pending[p]) \in Atomic!Requests
         /\ Head(pending[p]).patch \in Atomic!Patches
         /\ Tail(pending[p]) \in Seq(Atomic!Requests)
<1>1. pending[p] \in Seq(Atomic!Requests)
  BY DEF TypeOK
<1>2. Head(pending[p]) \in Atomic!Requests /\ Tail(pending[p]) \in Seq(Atomic!Requests)
  BY <1>1, HeadTailProperties
<1> QED
  BY <1>2 DEF Atomic!Requests

(* Taking the head off a chain is removing its first request. *)
LEMMA AdvanceRemovesFirst ==
  ASSUME NEW s \in Seq(Atomic!Requests), s # <<>>
  PROVE  /\ 1 \in DOMAIN s
         /\ s[1] = Head(s)
         /\ Atomic!RemoveAt(s, 1) = Tail(s)
<1>1. Len(s) \in Nat /\ Len(s) >= 1 /\ DOMAIN s = 1..Len(s)
  BY LenProperties, EmptySeq
<1>2. 1 \in DOMAIN s /\ s[1] = Head(s)
  BY <1>1
<1>3. SubSeq(s, 1, 0) = <<>>
  BY <1>1
<1>4. Tail(s) = SubSeq(s, 2, Len(s))
  BY TailIsSubSeq
<1>5. <<>> \o SubSeq(s, 2, Len(s)) = SubSeq(s, 2, Len(s))
  BY <1>4, HeadTailProperties, ConcatEmptySeq
<1> QED
  BY <1>2, <1>3, <1>4, <1>5 DEF Atomic!RemoveAt

LEMMA ChainInit == Init => ChainInv
<1> SUFFICES ASSUME Init PROVE ChainInv
  OBVIOUS
<1>1. TypeOK
  BY StoreAssumption, EmptySeq DEF Init, Atomic!Init, TypeOK
<1>2. MergeIsCurrent
  BY DEF Init, MergeIsCurrent
<1> QED
  BY <1>1, <1>2 DEF ChainInv

(* The process that writes is the only one with a merged document, so no    *)
(* other merge goes stale.                                                  *)
LEMMA ChainStep ==
  ASSUME OneProcess, ChainInv, [Next]_vars
  PROVE  ChainInv'
<1> USE DEF ChainInv
<1>1. CASE UNCHANGED vars
  BY <1>1 DEF vars, TypeOK, MergeIsCurrent
<1>2. ASSUME NEW p \in Clients, NEW w \in Atomic!Requests, Submit(p, w)
      PROVE  ChainInv'
  <2> USE <1>2 DEF Submit, Atomic!Submit
  <2>1. pending[p] \in Seq(Atomic!Requests)
    BY DEF TypeOK
  <2>2. Append(pending[p], w) \in Seq(Atomic!Requests) /\ Append(pending[p], w) # <<>>
    BY <2>1, AppendProperties
  <2>3. TypeOK'
    BY <2>2 DEF TypeOK
  <2>4. pending[p] # <<>> => Head(Append(pending[p], w)) = Head(pending[p])
    BY <2>1, HeadTailAppend
  <2>5. MergeIsCurrent'
    BY <2>2, <2>4 DEF MergeIsCurrent, TypeOK
  <2> QED
    BY <2>3, <2>5
<1>3. ASSUME NEW p \in Clients, Get(p)
      PROVE  ChainInv'
  <2> USE <1>3 DEF Get
  <2>1. Head(pending[p]).patch \in Atomic!Patches
    BY ChainHead
  <2>2. Atomic!Patched(record, Head(pending[p]).patch) \in Atomic!Records
    BY <2>1, PatchedType DEF TypeOK
  <2>3. TypeOK'
    BY <2>2 DEF TypeOK
  <2>4. MergeIsCurrent'
    BY DEF MergeIsCurrent, TypeOK
  <2> QED
    BY <2>3, <2>4
<1>4. ASSUME NEW p \in Clients, Advance(p), pending[p] # <<>>, record' \in Atomic!Records
      PROVE  ChainInv'
  <2>1. Tail(pending[p]) \in Seq(Atomic!Requests)
    BY <1>4, ChainHead
  <2>2. TypeOK'
    BY <1>4, <2>1 DEF Advance, TypeOK
  <2>3. \A q \in Clients : next'[q] = NoDoc
    BY <1>4 DEF Advance, TypeOK, OneProcess
  <2> QED
    BY <2>2, <2>3 DEF MergeIsCurrent
<1>5. ASSUME NEW p \in Clients, Patch(p)
      PROVE  ChainInv'
  BY <1>4, <1>5 DEF Patch, MergeIsCurrent, TypeOK
<1>6. ASSUME NEW p \in Clients, Drop(p)
      PROVE  ChainInv'
  BY <1>4, <1>6 DEF Drop, TypeOK
<1> QED
  BY <1>1, <1>2, <1>3, <1>5, <1>6 DEF Next

(* Every step is a step of the atomic store or leaves it alone: a get       *)
(* stutters, a write applies the oldest request, a failure drops it.        *)
LEMMA StepIsAtomic ==
  ASSUME ChainInv, [Next]_vars
  PROVE  [Atomic!Next]_(Atomic!vars)
<1>1. CASE UNCHANGED vars
  BY <1>1 DEF vars, Atomic!vars
<1>2. ASSUME NEW p \in Clients, NEW w \in Atomic!Requests,
             Len(pending[p]) < MaxPending, Submit(p, w)
      PROVE  Atomic!Next
  BY <1>2 DEF Submit, Atomic!Next
<1>3. ASSUME NEW p \in Clients, Get(p)
      PROVE  UNCHANGED Atomic!vars
  BY <1>3 DEF Get, Atomic!vars
<1>4. ASSUME NEW p \in Clients, pending[p] # <<>>, Advance(p)
      PROVE  1 \in DOMAIN pending[p] /\ pending[p][1] = Head(pending[p]) /\ Atomic!Answered(p, 1)
  BY <1>4, AdvanceRemovesFirst DEF Advance, Atomic!Answered, ChainInv, TypeOK
<1>5. ASSUME NEW p \in Clients, Patch(p)
      PROVE  Atomic!Next
  <2>1. pending[p] # <<>> /\ record' = Atomic!Patched(record, Head(pending[p]).patch)
    BY <1>5 DEF Patch, ChainInv, MergeIsCurrent
  <2>2. Atomic!Apply(p, 1) /\ 1 \in DOMAIN pending[p]
    BY <1>4, <1>5, <2>1 DEF Patch, Atomic!Apply
  <2> QED
    BY <2>2 DEF Atomic!Next
<1>6. ASSUME NEW p \in Clients, Drop(p)
      PROVE  Atomic!Next
  <2>1. Atomic!Drop(p, 1) /\ 1 \in DOMAIN pending[p]
    BY <1>4, <1>6 DEF Drop, Atomic!Drop
  <2> QED
    BY <2>1 DEF Atomic!Next
<1> QED
  BY <1>1, <1>2, <1>3, <1>5, <1>6 DEF Next

(***************************************************************************)
(* With one process writing, FirestoreRunStore implements the atomic run   *)
(* store, whatever the fields, the patches and the failures.               *)
(***************************************************************************)
THEOREM ChainImplementsAtomic == OneProcess => (Spec => ChainIsAtomic)
<1> SUFFICES ASSUME OneProcess PROVE Spec => ChainIsAtomic
  OBVIOUS
<1>1. Init => ChainInv
  BY ChainInit
<1>2. ChainInv /\ [Next]_vars => ChainInv'
  BY ChainStep
<1>3. ChainInv /\ [Next]_vars => [Atomic!Next]_(Atomic!vars)
  BY StepIsAtomic
<1>4. Init => Atomic!Init
  BY DEF Init
<1> QED
  BY <1>1, <1>2, <1>3, <1>4, PTL DEF Spec, ChainIsAtomic, Atomic!Spec

(* Between its get and its write nothing overtakes a call of the one        *)
(* process: what it will write is the stored document with its patch.       *)
THEOREM MergeStaysCurrent == OneProcess => (Spec => []MergeIsCurrent)
<1> SUFFICES ASSUME OneProcess PROVE Spec => []MergeIsCurrent
  OBVIOUS
<1>1. ChainInv /\ [Next]_vars => ChainInv'
  BY ChainStep
<1>2. ChainInv => MergeIsCurrent
  BY DEF ChainInv
<1> QED
  BY ChainInit, <1>1, <1>2, PTL DEF Spec

(* The document is always a whole record, and so is what is to be written.  *)
THEOREM StoreTypes == OneProcess => (Spec => []TypeOK)
<1> SUFFICES ASSUME OneProcess PROVE Spec => []TypeOK
  OBVIOUS
<1>1. ChainInv /\ [Next]_vars => ChainInv'
  BY ChainStep
<1>2. ChainInv => TypeOK
  BY DEF ChainInv
<1> QED
  BY ChainInit, <1>1, <1>2, PTL DEF Spec

-----------------------------------------------------------------------------
(* The spend store. *)

LEMMA CasStart == CasInit => CasInv
BY SpendAssumption DEF CasInit, CasInv, CasTypeOK, SeenIsPast, LossesCounted, Unchanged

(* A write leaves every other attempt behind the new version. *)
LEMMA WriteKeepsInv ==
  ASSUME CasInv, NEW c \in Callers, WriteSeen(c), UNCHANGED <<at, seen, lost>>,
         \E r \in {"added", "threw"} : Row!Return(c, r)
  PROVE  CasInv'
<1> USE SpendAssumption DEF CasInv, WriteSeen, Row!Return
<1>1. CasTypeOK'
  BY DEF CasTypeOK
<1>2. SeenIsPast'
  BY DEF CasTypeOK, SeenIsPast, Unchanged
<1>3. LossesCounted'
  BY DEF CasTypeOK, LossesCounted
<1> QED
  BY <1>1, <1>2, <1>3

LEMMA CasStep ==
  ASSUME CasInv, [CasNext]_casVars
  PROVE  CasInv'
<1> USE SpendAssumption DEF CasInv
<1>1. CASE UNCHANGED casVars
  BY <1>1 DEF casVars, CasTypeOK, SeenIsPast, LossesCounted, Unchanged
<1>2. ASSUME NEW c \in Callers, Read(c)
      PROVE  CasInv'
  <2> USE <1>2 DEF Read, Row!Return, Row!Fits
  <2>1. CasTypeOK'
    BY DEF CasTypeOK
  <2>2. SeenIsPast'
    BY DEF CasTypeOK, SeenIsPast, Unchanged
  <2>3. LossesCounted'
    BY DEF CasTypeOK, LossesCounted
  <2> QED
    BY <2>1, <2>2, <2>3
<1>3. ASSUME NEW c \in Callers, Write(c)
      PROVE  CasInv'
  BY <1>3, WriteKeepsInv DEF Write
<1>4. ASSUME NEW c \in Callers, LoseRace(c)
      PROVE  CasInv'
  <2> USE <1>4 DEF LoseRace, Row!Return, Unchanged
  <2>1. seen[c].version < version /\ lost[c] <= seen[c].version
    <3>1. seen[c].version \in Nat /\ version \in Nat
      BY DEF CasTypeOK
    <3>2. seen[c].version <= version /\ seen[c].version # version
      BY DEF SeenIsPast
    <3> QED
      BY <3>1, <3>2 DEF LossesCounted
  <2>2. CasTypeOK'
    BY DEF CasTypeOK, LossesCounted
  <2>3. SeenIsPast'
    <3>1. \A d \in Callers : at'[d] = "write" => at[d] = "write"
      BY DEF CasTypeOK
    <3> QED
      BY <3>1 DEF CasTypeOK, SeenIsPast
  <2>4. LossesCounted'
    BY <2>1 DEF CasTypeOK, LossesCounted
  <2> QED
    BY <2>2, <2>3, <2>4
<1>5. ASSUME NEW c \in Callers, Break(c)
      PROVE  CasInv'
  <2>1. CASE UNCHANGED <<total, version>>
    BY <1>5, <2>1 DEF Break, Row!Return, CasTypeOK, SeenIsPast, LossesCounted, Unchanged
  <2>2. CASE WriteSeen(c)
    BY <1>5, <2>2, WriteKeepsInv DEF Break
  <2> QED
    BY <1>5, <2>1, <2>2 DEF Break
<1> QED
  BY <1>1, <1>2, <1>3, <1>4, <1>5 DEF CasNext

(* Each step is a step of the atomic row, or reads and leaves it alone. *)
LEMMA CasStepIsAtomic ==
  ASSUME CasInv, [CasNext]_casVars
  PROVE  [Row!Next]_<<total, result>>
<1> USE SpendAssumption DEF CasInv
<1>1. CASE UNCHANGED casVars
  BY <1>1 DEF casVars
<1>2. ASSUME NEW c \in Callers, Read(c)
      PROVE  Row!Refuse(c) \/ UNCHANGED <<total, result>>
  BY <1>2 DEF Read, Row!Refuse
<1>3. ASSUME NEW c \in Callers, at[c] = "write", Unchanged(c), WriteSeen(c)
      PROVE  Row!Fits(c) /\ total' = total + Delta[c]
  BY <1>3 DEF WriteSeen, SeenIsPast, Row!Fits
<1>4. ASSUME NEW c \in Callers, Write(c)
      PROVE  Row!Add(c)
  BY <1>3, <1>4 DEF Write, Row!Add
<1>5. ASSUME NEW c \in Callers, LoseRace(c)
      PROVE  Row!Throw(c) \/ UNCHANGED <<total, result>>
  BY <1>5 DEF LoseRace, Row!Throw
<1>6. ASSUME NEW c \in Callers, Break(c)
      PROVE  Row!Throw(c)
  BY <1>3, <1>6 DEF Break, Row!Throw
<1> QED
  BY <1>1, <1>2, <1>4, <1>5, <1>6 DEF CasNext, Row!Next

(***************************************************************************)
(* add() and reserve() over Firestore implement the atomic row, for any    *)
(* number of callers, amounts and ceilings and any bound on the attempts.  *)
(***************************************************************************)
THEOREM CasImplementsRow == CasSpec => CasIsAtomic
<1>1. CasInit => CasInv
  BY CasStart
<1>2. CasInv /\ [CasNext]_casVars => CasInv'
  BY CasStep
<1>3. CasInv /\ [CasNext]_casVars => [Row!Next]_<<total, result>>
  BY CasStepIsAtomic
<1>4. CasInit => Row!Init
  BY DEF CasInit, Row!Init
<1> QED
  BY <1>1, <1>2, <1>3, <1>4, PTL DEF CasSpec, CasIsAtomic, Row!Spec

(***************************************************************************)
(* A caller that gives up after MaxAttempts lost races lost them to as     *)
(* many writes that took effect.                                           *)
(***************************************************************************)
THEOREM LossesAreWins == CasSpec => []EveryLossIsAWin
<1>1. CasInv => EveryLossIsAWin
  <2> SUFFICES ASSUME CasInv, NEW c \in Callers PROVE lost[c] <= version
    BY DEF EveryLossIsAWin
  <2> QED
    BY DEF CasInv, CasTypeOK, SeenIsPast, LossesCounted
<1> QED
  BY <1>1, CasStart, CasStep, PTL DEF CasSpec

(* No caller makes more than MaxAttempts attempts, and the total stays one  *)
(* amount, whoever breaks where.                                            *)
THEOREM CasTypes == CasSpec => []CasTypeOK
<1>1. CasInv => CasTypeOK
  BY DEF CasInv
<1> QED
  BY <1>1, CasStart, CasStep, PTL DEF CasSpec
=============================================================================
