---------------------------- MODULE AtomicRunStore ----------------------------
(***************************************************************************)
(* A run record whose updates are atomic: DynamoRunStore, whose update()   *)
(* is one UpdateItem that sets the fields of its patch and no others, and  *)
(* what any RunStore has to look like to the code above it.                *)
(*                                                                         *)
(* A client may have several updates outstanding (a progress write is not  *)
(* awaited), and outstanding requests take effect in any order.            *)
(***************************************************************************)
EXTENDS Sequences, SequencesExt

CONSTANTS Clients,    \* processes that hold a store object
          Fields,     \* the fields of the run record
          Values,     \* what they may hold
          Initial,    \* the record as created
          MaxPending  \* bound on a client's outstanding updates

Records  == [Fields -> Values]
Patches  == UNION {[F -> Values] : F \in SUBSET Fields}
Requests == [patch : Patches]

VARIABLES
  record,   \* the stored record
  pending   \* pending[p]: p's outstanding update() calls, oldest first

vars == <<record, pending>>

(* The record after a patch: `{ ...current, ...patch }`. *)
Patched(rec, patch) ==
  [f \in DOMAIN rec |-> IF f \in DOMAIN patch THEN patch[f] ELSE rec[f]]

Init ==
  /\ record = Initial
  /\ pending = [p \in Clients |-> <<>>]

(* update() is called. *)
Submit(p, request) ==
  /\ pending' = [pending EXCEPT ![p] = Append(@, request)]
  /\ UNCHANGED record

Answered(p, i) == pending' = [pending EXCEPT ![p] = RemoveAt(@, i)]

(* An outstanding update takes effect, and its promise settles. *)
Apply(p, i) ==
  /\ i \in DOMAIN pending[p]
  /\ record' = Patched(record, pending[p][i].patch)
  /\ Answered(p, i)

(* An outstanding update fails, leaving the record as it was. *)
Drop(p, i) ==
  /\ i \in DOMAIN pending[p]
  /\ Answered(p, i)
  /\ UNCHANGED record

Next ==
  \E p \in Clients :
    \/ Len(pending[p]) < MaxPending /\ \E w \in Requests : Submit(p, w)
    \/ \E i \in DOMAIN pending[p] : Apply(p, i) \/ Drop(p, i)

Spec == Init /\ [][Next]_vars
=============================================================================
