----------------------------- MODULE CredentialCache -----------------------------
(***************************************************************************)
(* A credential that is bought, kept and handed out until shortly before   *)
(* it lapses: the client's machine login and Google identity token, which  *)
(* share one purchase among the callers that wait for it, and the token    *)
(* vault's on-behalf-of exchange, where each caller that misses buys its   *)
(* own and the last answer to arrive is kept.                              *)
(*                                                                         *)
(* A token lives from when the authority issues it; some holders reckon    *)
(* its end from when the answer arrives, which is later.                   *)
(***************************************************************************)
EXTENDS Naturals, FiniteSets

CONSTANTS
  Callers,
  None,
  Life,      \* of a token
  Margin,    \* before the end, from which it is bought anew
  Latency,   \* bound on the time an answer takes, which no code enforces
  Horizon,   \* bound on the clock
  Failures   \* bound on purchases that fail
Policies == {"machine", "gcp", "vault"}
Shares(p) == p # "vault"

CacheAssumption ==
  /\ Life \in Nat /\ Margin \in Nat /\ Latency \in Nat /\ Latency <= Margin /\ Margin < Life
  /\ Horizon \in Nat /\ Failures \in Nat /\ None \notin Callers

VARIABLES
  policy,
  clock,
  cached,    \* the token kept, with the end its holder reckons
  pending,   \* the purchase that callers share
  purchases, \* those under way at the authority: who asked, and when
  caller,    \* each caller
  failures

vars == <<policy, clock, cached, pending, purchases, caller, failures>>

(* Nothing bought yet.  A process whose policy is "none" has no such holder.  *)
Empty ==
  /\ clock = 0 /\ cached = None /\ pending = None
  /\ purchases = {} /\ failures = 0
  /\ caller = [c \in Callers |-> [at |-> "idle", token |-> None]]

Init == policy \in Policies /\ Empty

(* Variant: the margin is added to the wrong side. *)
UsableLate(token) == token # None /\ clock < token.reckoned + Margin
Usable(token) == token # None /\ clock + Margin < token.reckoned

Is(c, at, token) == caller' = [caller EXCEPT ![c] = [at |-> at, token |-> token]]

(* The caller's one synchronous step: a hit, or it joins what is pending, or *)
(* it buys.                                                                  *)
Hit(c) ==
  /\ policy # "none" /\ caller[c].at = "idle" /\ Usable(cached)
  /\ Is(c, "has", cached)
  /\ UNCHANGED <<policy, clock, cached, pending, purchases, failures>>

Joins(c) ==
  /\ policy # "none" /\ caller[c].at = "idle" /\ ~Usable(cached)
  /\ Shares(policy) /\ pending # None
  /\ Is(c, "waits", None)
  /\ UNCHANGED <<policy, clock, cached, pending, purchases, failures>>

Buys(c) ==
  /\ policy # "none" /\ caller[c].at = "idle" /\ ~Usable(cached)
  /\ Shares(policy) => pending = None
  /\ pending' = IF Shares(policy) THEN c ELSE None
  /\ purchases' = purchases \cup {[by |-> c, at |-> clock]}
  /\ Is(c, "waits", None)
  /\ UNCHANGED <<policy, clock, cached, failures>>

(* The authority issued the token, for this purchase, some time before its   *)
(* answer is here; gcp reads the end from the token itself.                  *)
Reckoned(issued) == IF policy = "gcp" THEN issued + Life ELSE clock + Life

WaitingFor(p) == IF Shares(policy) THEN {c \in Callers : caller[c].at = "waits"} ELSE {p.by}

(* Variant: a purchase that fails is not forgotten. *)
SettledIfWon(failed) == pending' = IF failed THEN pending ELSE None
Settled(failed) == pending' = None

Answered(p) ==
  /\ p \in purchases
  /\ \E issued \in p.at .. clock :
       LET token == [ends |-> issued + Life, reckoned |-> Reckoned(issued)]
       IN  /\ cached' = token
           /\ caller' = [c \in Callers |->
                IF c \in WaitingFor(p) THEN [at |-> "has", token |-> token] ELSE caller[c]]
  /\ Settled(FALSE)
  /\ purchases' = purchases \ {p} /\ UNCHANGED <<policy, clock, failures>>

(* The login throws to all who wait; the vault denies. *)
Failed(p) ==
  /\ p \in purchases /\ failures < Failures
  /\ Settled(TRUE)
  /\ caller' = [c \in Callers |->
       IF c \in WaitingFor(p) THEN [at |-> "idle", token |-> None] ELSE caller[c]]
  /\ failures' = failures + 1
  /\ purchases' = purchases \ {p} /\ UNCHANGED <<policy, clock, cached>>

(* A caller uses what it was handed, at once, and asks again another time. *)
Used(c) ==
  /\ caller[c].at = "has" /\ Is(c, "idle", None)
  /\ UNCHANGED <<policy, clock, cached, pending, purchases, failures>>

Tick ==
  /\ policy # "none" /\ clock < Horizon /\ clock' = clock + 1
  /\ \A p \in purchases : clock < p.at + Latency
  /\ \A c \in Callers : caller[c].at # "has"
  /\ UNCHANGED <<policy, cached, pending, purchases, caller, failures>>

Next ==
  \/ Tick
  \/ \E c \in Callers : Hit(c) \/ Joins(c) \/ Buys(c) \/ Used(c)
  \/ \E p \in purchases : Answered(p) \/ Failed(p)

(* A caller asks, a purchase is answered or fails, and a failure that is     *)
(* transient is not all there ever is: Failures bounds it.                   *)
Ask(c) == Hit(c) \/ Joins(c) \/ Buys(c)
Fairness ==
  /\ WF_vars(\E p \in purchases : Answered(p))
  /\ \A c \in Callers : WF_vars(Ask(c)) /\ WF_vars(Used(c))

Spec == Init /\ [][Next]_vars /\ Fairness

-----------------------------------------------------------------------------
(* Types; and what callers share is one purchase at a time. *)
TypeOK ==
  /\ policy \in Policies \cup {"none"} /\ clock \in 0 .. Horizon
  /\ pending \in Callers \cup {None} /\ failures \in 0 .. Failures
  /\ \A c \in Callers : caller[c].at \in {"idle", "waits", "has"}
  /\ Shares(policy) => Cardinality(purchases) <= 1

(* No caller is handed a token that its authority already considers dead,    *)
(* whoever's purchase it was, if an answer takes no longer than the margin   *)
(* (CacheAssumption).  No timeout in the code sees to that: a login answered *)
(* later is taken to live longer than it does.                               *)
HandedAlive ==
  \A c \in Callers : caller[c].at = "has" => clock < caller[c].token.ends

(* Whatever purchases failed, a caller that asks comes to be handed a token: *)
(* none waits for a purchase that is no longer under way.                    *)
HandedAgain == \A c \in Callers : []<>(caller[c].at = "has")
===============================================================================
