---------------------------- MODULE MCAdmissionHook ----------------------------
(* Two calls of one tenant at a worst case of 2 under caps of 3. *)
EXTENDS AdmissionHook, TLC

CONSTANTS c1, c2, p1, p2, t1

MCCalls     == {c1, c2}
MCProcesses == {p1, p2}
MCTenants   == {t1}
MCBearerOf  == [c \in MCCalls |-> t1]
MCNaming    == {MCCalls, {}}
MCWorst     == [c \in MCCalls |-> 2]

Symmetry == Permutations(MCCalls) \cup Permutations(MCProcesses)
===============================================================================
