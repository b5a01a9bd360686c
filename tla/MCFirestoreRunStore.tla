-------------------------- MODULE MCFirestoreRunStore --------------------------
(* Two fields are enough for a patch to lose another's field. *)
EXTENDS FirestoreRunStore

CONSTANT p1

MCClients == {p1}
MCFields  == {"status", "messages"}
MCValues  == 0..1
MCInitial == [f \in MCFields |-> 0]
=============================================================================
