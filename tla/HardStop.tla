------------------------------- MODULE HardStop -------------------------------
(***************************************************************************)
(* What a spend cap promises, with no ledger in sight: requests are        *)
(* admitted or refused in single steps, an admitted request is finished at *)
(* some cost, and what a scope's requests were admitted for never exceeds  *)
(* its cap.  A request may be refused for reasons of the implementation's  *)
(* own; it may not be admitted for any.                                    *)
(***************************************************************************)
EXTENDS Integers, FiniteSets

CONSTANTS Calls, Scopes, ScopeOf, Worst, Cap, Most

VARIABLES state, cost

Init ==
  /\ state = [c \in Calls |-> "waiting"]
  /\ cost = [c \in Calls |-> 0]

(* The units the requests of scope s are admitted for together.            *)
CostIn(s) ==
  Cardinality({u \in {c \in Calls : ScopeOf[c] = s} \X (1..Most) : u[2] <= cost[u[1]]})

Admit(c) ==
  /\ state[c] = "waiting"
  /\ CostIn(ScopeOf[c]) + Worst[c] <= Cap
  /\ state' = [state EXCEPT ![c] = "admitted"]
  /\ cost' = [cost EXCEPT ![c] = Worst[c]]

Refuse(c) ==
  /\ state[c] = "waiting"
  /\ state' = [state EXCEPT ![c] = "refused"]
  /\ UNCHANGED cost

Finish(c) ==
  /\ state[c] = "admitted"
  /\ state' = [state EXCEPT ![c] = "finished"]
  /\ \E paid \in 0..Worst[c] : cost' = [cost EXCEPT ![c] = paid]

Next == \E c \in Calls : Admit(c) \/ Refuse(c) \/ Finish(c)

Spec == Init /\ [][Next]_<<state, cost>>
=============================================================================
