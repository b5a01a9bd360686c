--------------------------- MODULE FirestoreRunStore ---------------------------
(***************************************************************************)
(* FirestoreRunStore: the run is one JSON document, so update() gets the   *)
(* document, merges its patch and writes the whole of it back.  Within a   *)
(* process the mutations go through a FIFO promise chain, one at a time;   *)
(* between processes nothing orders them.                                  *)
(***************************************************************************)
EXTENDS Integers, Sequences

CONSTANTS Clients,     \* processes, each with a store object and its writeChain
          Fields, Values, Initial, MaxPending,
          NoDoc        \* no document read yet

VARIABLES
  record,   \* the document
  pending,  \* pending[p]: the chain of p's calls, the running one first
  next      \* next[p]: what the running call is about to write, or NoDoc

vars == <<record, pending, next>>

Atomic == INSTANCE AtomicRunStore

ASSUME StoreAssumption ==
  /\ Initial \in Atomic!Records
  /\ NoDoc \notin Atomic!Records
  /\ MaxPending \in Nat

Init ==
  /\ Atomic!Init
  /\ next = [p \in Clients |-> NoDoc]

(* serialize(): a call joins the chain. *)
Submit(p, request) ==
  /\ Atomic!Submit(p, request)
  /\ UNCHANGED next

(* The call at the head of the chain reads the document and merges its     *)
(* patch into what it read.                                                *)
Get(p) ==
  /\ pending[p] # <<>>
  /\ next[p] = NoDoc
  /\ next' = [next EXCEPT ![p] = Atomic!Patched(record, Head(pending[p]).patch)]
  /\ UNCHANGED <<record, pending>>

Advance(p) ==
  /\ pending' = [pending EXCEPT ![p] = Tail(@)]
  /\ next' = [next EXCEPT ![p] = NoDoc]

(* Variant: no chain.  The next call reads and writes between the running   *)
(* call's get and its write.                                                *)
PatchUnchained(p) ==
  /\ next[p] # NoDoc
  /\ IF Len(pending[p]) > 1
       THEN /\ record' = Atomic!Patched(record, pending[p][2].patch)
            /\ pending' = [pending EXCEPT ![p] = <<Head(@)>> \o Tail(Tail(@))]
            /\ UNCHANGED next
       ELSE /\ record' = next[p]
            /\ Advance(p)

(* Variant: the next call merges into what the running call read. *)
PatchStale(p) ==
  /\ next[p] # NoDoc
  /\ record' = next[p]
  /\ pending' = [pending EXCEPT ![p] = Tail(@)]
  /\ next' = [next EXCEPT ![p] =
                IF Len(pending[p]) > 1
                  THEN Atomic!Patched(record, pending[p][2].patch) ELSE NoDoc]

(* It writes the merged document, and the chain moves on. *)
Patch(p) ==
  /\ next[p] # NoDoc
  /\ record' = next[p]
  /\ Advance(p)

(* Its get or its write fails; the chain moves on all the same. *)
Drop(p) ==
  /\ pending[p] # <<>>
  /\ Advance(p)
  /\ UNCHANGED record

Next ==
  \E p \in Clients :
    \/ Len(pending[p]) < MaxPending /\ \E w \in Atomic!Requests : Submit(p, w)
    \/ Get(p) \/ Patch(p) \/ Drop(p)

Spec == Init /\ [][Next]_vars

-----------------------------------------------------------------------------
TypeOK ==
  /\ record \in Atomic!Records
  /\ pending \in [Clients -> Seq(Atomic!Requests)]
  /\ next \in [Clients -> Atomic!Records \cup {NoDoc}]

(***************************************************************************)
(* With one process writing, the chain makes update() atomic: no progress  *)
(* write can carry a stale copy of the document over a later status.       *)
(***************************************************************************)
ChainIsAtomic == Atomic!Spec

(* Why: between its get and its write, the document a call will write is   *)
(* still the stored one with the call's patch.                             *)
MergeIsCurrent ==
  \A p \in Clients :
    next[p] # NoDoc =>
      /\ pending[p] # <<>>
      /\ next[p] = Atomic!Patched(record, Head(pending[p]).patch)

ChainInv == TypeOK /\ MergeIsCurrent
=============================================================================
