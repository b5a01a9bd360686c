------------------------------- MODULE SpendRow -------------------------------
(***************************************************************************)
(* One row of a SpendStore, as LocalGate counts on it: add() and reserve() *)
(* take effect in a single step, whoever else is at the row.  DynamoDB's   *)
(* conditional UpdateItem, Postgres' conditional upsert and the in-memory  *)
(* map are this module; a call whose reply is lost has thrown, and may or  *)
(* may not have taken effect.                                              *)
(***************************************************************************)
EXTENDS Integers

CONSTANTS Callers,   \* each makes one call
          Delta,     \* [Callers -> Int]
          Capped,    \* the callers that call reserve(), not add()
          Ceiling    \* [Callers -> Int], what a reserve is checked against

VARIABLES
  total,    \* spentUsd
  result    \* result[c]: "waiting", "added", "refused" (null) or "threw"

Init ==
  /\ total = 0
  /\ result = [c \in Callers |-> "waiting"]

Return(c, r) ==
  /\ result[c] = "waiting"
  /\ result' = [result EXCEPT ![c] = r]

Fits(c) == c \in Capped => total + Delta[c] <= Ceiling[c]

Add(c) ==
  /\ Fits(c)
  /\ total' = total + Delta[c]
  /\ Return(c, "added")

Refuse(c) ==
  /\ ~Fits(c)
  /\ Return(c, "refused")
  /\ UNCHANGED total

Throw(c) ==
  /\ Return(c, "threw")
  /\ \/ Fits(c) /\ total' = total + Delta[c]
     \/ UNCHANGED total

Next == \E c \in Callers : Add(c) \/ Refuse(c) \/ Throw(c)

Spec == Init /\ [][Next]_<<total, result>>
=============================================================================
