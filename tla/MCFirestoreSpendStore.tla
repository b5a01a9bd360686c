------------------------- MODULE MCFirestoreSpendStore -------------------------
(* Three reserves that cannot all fit, and a refund. *)
EXTENDS FirestoreSpendStore, TLC

CONSTANTS r1, r2, r3, a1

MCCapped  == {r1, r2, r3}
MCCallers == MCCapped \cup {a1}
MCDelta   == (a1 :> -1) @@ [c \in MCCapped |-> 2]
MCCeiling == [c \in MCCallers |-> 4]
=============================================================================
