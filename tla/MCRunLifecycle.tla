---------------------------- MODULE MCRunLifecycle ----------------------------
(* One or two executors, and the faults each run allows. *)
EXTENDS RunLifecycle, TLC

CONSTANTS e1, e2

OneExecutor  == {e1}
TwoExecutors == {e1, e2}
Symmetry     == Permutations(TwoExecutors)

OnDynamo     == AllModes \X {FALSE}
OnFirestore  == {"inprocess", "agentengine"} \X {TRUE}
OnEither     == OnDynamo \cup OnFirestore

(* What processRun has to cope with on its own. *)
LocalFaults == {"dispatch", "session", "toolset", "clone", "loop"}

(* Everything but a toolset that does not resolve. *)
NearlyAllFaults == AllFaults \ {"toolset"}
=============================================================================
