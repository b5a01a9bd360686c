----------------------------- MODULE MCBudgetGate -----------------------------
(* Three calls of one tenant, two of them in one session; a cap of 3 takes  *)
(* one call of 2 at a time, on the session as on the month.                 *)
EXTENDS BudgetGate, TLC

CONSTANTS c1, c2, c3, t1, s1

MCCalls     == {c1, c2, c3}
MCTenants   == {t1}
MCSessions  == {s1}
MCTenantOf  == [c \in MCCalls |-> t1]
MCSessionOf == (c1 :> s1 @@ c2 :> s1) @@ (c3 :> NoSession)
MCWorst     == [c \in MCCalls |-> 2]

(* The two calls of the session are alike. *)
Symmetry == Permutations({c1, c2})
=============================================================================
