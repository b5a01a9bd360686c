------------------------------- MODULE AgentWork -------------------------------
(***************************************************************************)
(* What surrounds a run: its tenant's memory, its repository's workspace,  *)
(* the sandbox and the tool connections it holds, the credentials it is    *)
(* handed, the prices of its model calls, and the sign-in of whoever asks  *)
(* for it.  The six share no state: a behaviour here is one of theirs, and *)
(* a property of one is checked against all of its behaviours.             *)
(***************************************************************************)
EXTENDS Naturals, FiniteSets

CONSTANTS
  Calls, Notes, NoReply, Refused, Error, Remembered, Best, TopK, MaxResults,
  Plain, Dot, Vendored, MassMin, MaxFiles, Native,
  Jobs, Servers,
  Callers, None, Life, Margin, Latency, Horizon, Failures,
  Runs, Cap, MaxTurns, MaxOut, Chars,
  MaxLogins, Mishaps
Parts == {"memory", "workspace", "session", "credentials", "pricing", "signin"}

VARIABLES part,
  backend, file, index, events, facts, call, human, kept,
  phase, globbed, repo, box, preexisting, baseline, branch, note, edits, theirs, unread,
  job,
  policy, clock, cached, pending, purchases, caller, failures,
  setup, row, run, bill, unheard, short, unsettled,
  client, place, attempts, keys, clicks, page, url, exchange, codes, spent, sent, token,
  serving, stopping, unopened, resent, mishaps

M == INSTANCE TenantMemory
W == INSTANCE CoderWorkspace
S == INSTANCE AgentSession
C == INSTANCE CredentialCache
P == INSTANCE PricedRun
I == INSTANCE SignIn

ASSUME WorkAssumption ==
  /\ M!MemoryAssumption /\ W!CoderAssumption /\ C!CacheAssumption /\ P!PricingAssumption
  /\ I!SignAssumption /\ IsFiniteSet(Runs)

memory      == <<backend, file, index, events, facts, call, human, kept>>
workspace   == <<phase, globbed, repo, box, preexisting, baseline, branch, note, edits, theirs, unread>>
credentials == <<policy, clock, cached, pending, purchases, caller, failures>>
pricing     == <<setup, row, run, bill, unheard, short, unsettled>>
signin      == <<client, place, attempts, keys, clicks, page, url, exchange, codes, spent, sent,
                 token, serving, stopping, unopened, resent, mishaps>>

vars == <<part, memory, workspace, job, credentials, pricing, signin>>

Init ==
  /\ part \in Parts /\ M!Init /\ W!Init /\ S!Init /\ P!Init
  /\ policy \in (IF part = "credentials" THEN C!Policies ELSE {"none"}) /\ C!Empty
  /\ client \in (IF part = "signin" THEN {"console", "script"} ELSE {"none"}) /\ I!Empty

OnMemory ==
  part = "memory" /\ M!Next /\ UNCHANGED <<part, workspace, job, credentials, pricing, signin>>
OnWorkspace ==
  part = "workspace" /\ W!Next /\ UNCHANGED <<part, memory, job, credentials, pricing, signin>>
OnSession ==
  part = "session" /\ S!Next /\ UNCHANGED <<part, memory, workspace, credentials, pricing, signin>>
OnCredentials ==
  part = "credentials" /\ C!Next /\ UNCHANGED <<part, memory, workspace, job, pricing, signin>>
OnPricing ==
  part = "pricing" /\ P!Next /\ UNCHANGED <<part, memory, workspace, job, credentials, signin>>
OnSignIn ==
  part = "signin" /\ I!Next /\ UNCHANGED <<part, memory, workspace, job, credentials, pricing>>

Next == OnMemory \/ OnWorkspace \/ OnSession \/ OnCredentials \/ OnPricing \/ OnSignIn

(* Authorities answer and callers go on asking; nobody else is made to act.  *)
Spec == Init /\ [][Next]_vars /\ C!Fairness

-----------------------------------------------------------------------------
(* Each part's own types. *)
TypeOK ==
  part \in Parts /\ M!TypeOK /\ W!TypeOK /\ S!TypeOK /\ C!TypeOK /\ P!TypeOK /\ I!TypeOK

(* What the tenant was told is remembered, and what a human wrote, is found  *)
(* by every later search of the file adapters.                               *)
RememberedIsFound == M!RememberedIsFound

(* Whatever finalize() pushes is the agent's own work.                       *)
PushedIsTheirs == [][W!PushesTheirs]_workspace

(* Whatever the agent changed, and could be read, is pushed.                 *)
NothingForgotten == [][W!ForgetsNothing]_workspace

(* finalize() pushes all of the agent's work, and nothing else, nor what a   *)
(* sandbox that stopped answering makes of a repository.                     *)
PushedIsTheWork == [][W!PushesTheirs /\ W!ForgetsNothing /\ W!LeavesHalf]_workspace

(* A job that reached its try block leaves nothing open behind it.           *)
ReleasedAtTheEnd == S!ReleasedAtTheEnd

(* A sandboxed run's "completed" is its command's zero, or a cut stream.     *)
CompletedIsEarned == S!CompletedIsEarned

(* A job ends with nothing open and with the status it earned.               *)
JobEndsWell == S!JobEndsWell

(* No caller is handed a credential that has lapsed, if answers are in time.  *)
HandedAlive == C!HandedAlive

(* Purchases that fail keep no caller from the next.                         *)
HandedAgain == part = "credentials" => C!HandedAgain

(* The tenant's row covers what the models of its runs cost, as far as       *)
(* anybody said; it passes its cap only by prompts that were underestimated; *)
(* and a run on its process's own model records what the gate charged.       *)
(* (And every part keeps its types.)                                         *)
MoneyIsTold == TypeOK /\ P!MoneyIsTold

(* What comes back for another login is turned down before it is spent.      *)
SentForItself == I!SentForItself

(* An authorization code is sent for exchange once.                          *)
SentOnce == I!SentOnce

(* A script's port is held no longer than its login takes.                   *)
PortReleased == I!PortReleased

(* A login's code goes out once, for itself, and its port is let go.         *)
LoginIsItsOwn == I!LoginIsItsOwn
===============================================================================
