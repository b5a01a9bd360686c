------------------------------ MODULE AgentSession ------------------------------
(***************************************************************************)
(* What a job holds while it runs: a sandbox, and a connection to each MCP *)
(* server its toolset was resolved from.  A job is a run, which holds both *)
(* until its finally block, or a request to the tool gateway, which        *)
(* resolves and closes a toolset of its own; a run whose tools come from   *)
(* that gateway connects to nobody.  A sandboxed run is one command, whose *)
(* exit code is what its backend could learn of it.                        *)
(***************************************************************************)
EXTENDS Naturals, Sequences, SequencesExt, FiniteSets

CONSTANTS Jobs, Servers
Kinds == {"loop", "sandboxed", "list", "tool"}
Run(kind) == kind \in {"loop", "sandboxed"}
Backends == {"agentcore", "e2b", "agent-sandbox", "local"}

VARIABLE job
vars == <<job>>

Idle == [kind |-> "none", at |-> "idle", backend |-> "none", box |-> "none",
         left |-> <<>>, conn |-> [s \in Servers |-> "none"], stuck |-> {},
         threw |-> FALSE, exit |-> "none", cut |-> FALSE, status |-> "none"]

Init == job = [j \in Jobs |-> Idle]

At(j, at)  == job[j].at = at
Put(j, rec) == job' = [job EXCEPT ![j] = rec]

(* Order in which the servers are configured; it does not matter which. *)
InOrder == SetToSeq(Servers)

(* TOOL_GATEWAY_URL: the tools come from the tool gateway, not from servers.  *)
ToolsFrom(gateway) == IF gateway THEN "fetching" ELSE "resolving"

Start(j) ==
  /\ At(j, "idle")
  /\ \E kind \in Kinds, backend \in Backends :
       Put(j, [Idle EXCEPT !.kind = kind, !.left = InOrder,
                           !.backend = IF Run(kind) THEN backend ELSE "none",
                           !.at = IF Run(kind) THEN "starting" ELSE "authenticating"])

(* startSession() returns a session, or throws and knows of none: but a      *)
(* service that was asked may have started one, and the Sandbox object that  *)
(* was created stays when its pod does not come up.                          *)
BoxStarts(j) ==
  /\ At(j, "starting")
  /\ \E gateway \in BOOLEAN : Put(j, [job[j] EXCEPT !.at = ToolsFrom(gateway), !.box = "up"])

(* Before the try block: the run's record stays "running" and nobody closes. *)
Throws(j, rec) == Put(j, [rec EXCEPT !.at = "ended", !.threw = TRUE])

Leaves(backend) == IF backend = "local" THEN {"none"} ELSE {"none", "up"}

BoxFails(j) ==
  /\ At(j, "starting")
  /\ \E box \in Leaves(job[j].backend) : Throws(j, [job[j] EXCEPT !.box = box])

(* authenticate(): 401, or a failure of the authority for Bun to answer. *)
Authenticated(j) ==
  /\ At(j, "authenticating")
  /\ \/ Put(j, [job[j] EXCEPT !.at = "resolving"])
     \/ Put(j, [job[j] EXCEPT !.at = "ended", !.status = "unauthorized"])
     \/ Throws(j, job[j])

-----------------------------------------------------------------------------
(* GatewayToolProvider.resolve(): one request lists the tools, and there is  *)
(* nothing to close.                                                         *)
Fetched(j) ==
  /\ At(j, "fetching")
  /\ Put(j, [job[j] EXCEPT !.at = "working"]) \/ Throws(j, job[j])

(* McpToolProvider.resolve(): one server after the other.                    *)
Rest(j) == [job[j] EXCEPT !.left = Tail(@)]

(* Not on the tenant's list, or the broker grants it nothing here. *)
Skipped(j) == At(j, "resolving") /\ job[j].left # <<>> /\ Put(j, Rest(j))

(* Its tools are listed; the broker, connect() or listTools() may throw, and  *)
(* then what was opened before is nobody's.                                   *)
Connected(j) ==
  /\ At(j, "resolving") /\ job[j].left # <<>>
  /\ LET open == [Rest(j) EXCEPT !.conn[Head(job[j].left)] = "open"]
     IN  Put(j, open) \/ Throws(j, Rest(j)) \/ Throws(j, open)

(* The list is answered from what was resolved; a tool that is not among it  *)
(* is not found.                                                             *)
Resolved(j) ==
  /\ At(j, "resolving") /\ job[j].left = <<>>
  /\ Put(j, [job[j] EXCEPT !.at = IF job[j].kind = "list" THEN "closing" ELSE "working",
                           !.status = IF job[j].kind = "list" THEN "answered" ELSE @])

Open(j) == {s \in Servers : job[j].conn[s] = "open"}

(* A tool that throws is feedback to a loop and a 500 to a request. *)
Called(j) ==
  /\ At(j, "working") /\ job[j].kind \in {"loop", "tool"}
  /\ IF job[j].kind = "loop"
     THEN \E status \in {"completed", "failed"} :
            Put(j, [job[j] EXCEPT !.at = "closing", !.status = status])
     ELSE \E status \in {"notFound", "failed"} \cup IF Open(j) = {} THEN {} ELSE {"answered"} :
            Put(j, [job[j] EXCEPT !.at = "closing", !.status = status])

(* What a backend says of a command that ended: its exit code, or that it    *)
(* failed, or success, or the stream closes before any of these.             *)
Delivered(exit) ==
  {"nothing", "code"} \cup IF exit = "zero" THEN {"success"} ELSE {"failure"}

OwnCode(exit) == IF exit = "zero" THEN 0 ELSE 1

(* agent-sandbox: zero until a status says Failure; its exit code when it has *)
(* one, and one when it has none.                                             *)
PodExit(delivered) == IF delivered \in {"failure", "code"} THEN 1 ELSE 0

(* agentcore: the structured code, else one if a result is an error, else     *)
(* zero, which it is as well when no result came at all.                      *)
InterpreterExit(delivered, exit) ==
  IF delivered = "code" THEN OwnCode(exit) ELSE IF delivered = "failure" THEN 1 ELSE 0

ExitCodeOf(backend, delivered, exit) ==
  CASE backend = "agent-sandbox" -> PodExit(delivered)
    [] backend = "agentcore"     -> InterpreterExit(delivered, exit)
    [] OTHER                     -> OwnCode(exit)

(* A status of Failure is one with a code other than zero. *)
Sayable(backend, exit) ==
  CASE backend = "agent-sandbox" -> Delivered(exit) \ IF exit = "zero" THEN {"code"} ELSE {}
    [] backend = "agentcore"     -> Delivered(exit)
    [] OTHER                     -> {"code"}

(* Variant: a run that throws leaves its session to the process's end. *)
AfterWorkThat(failed) == IF failed THEN "ended" ELSE "closing"
AfterWork(failed) == "closing"

CommandEnds(j) ==
  /\ At(j, "working") /\ job[j].kind = "sandboxed"
  /\ \E exit \in {"zero", "nonzero"} : \E delivered \in Sayable(job[j].backend, exit) :
       LET failed == ExitCodeOf(job[j].backend, delivered, exit) # 0
       IN  Put(j, [job[j] EXCEPT !.at = AfterWork(failed), !.exit = exit,
                     !.cut = delivered = "nothing",
                     !.status = IF failed THEN "failed" ELSE "completed"])

(* The finally block: each connection, then the session; a close that fails  *)
(* is swallowed, and what it was to close stays.                             *)
Closes(j) ==
  /\ At(j, "closing") /\ Open(j) \ job[j].stuck # {}
  /\ \E s \in Open(j) \ job[j].stuck :
       \/ Put(j, [job[j] EXCEPT !.conn[s] = "closed"])
       \/ Put(j, [job[j] EXCEPT !.stuck = @ \cup {s}])

BoxCloses(j) ==
  /\ At(j, "closing") /\ Open(j) \subseteq job[j].stuck
  /\ \/ Put(j, [job[j] EXCEPT !.at = "ended", !.box = IF Run(job[j].kind) THEN "gone" ELSE @])
     \/ Run(job[j].kind) /\ Put(j, [job[j] EXCEPT !.at = "ended", !.stuck = @ \cup {"box"}])

Next ==
  \E j \in Jobs : \/ Start(j) \/ BoxStarts(j) \/ BoxFails(j) \/ Authenticated(j)
                  \/ Fetched(j) \/ Skipped(j) \/ Connected(j) \/ Resolved(j) \/ Called(j) \/ CommandEnds(j)
                  \/ Closes(j) \/ BoxCloses(j)

Spec == Init /\ [][Next]_vars

-----------------------------------------------------------------------------
(* Types. *)
TypeOK ==
  \A j \in Jobs : /\ job[j].kind \in Kinds \cup {"none"}
                  /\ Run(job[j].kind) <=> job[j].backend \in Backends
                  /\ job[j].conn \in [Servers -> {"none", "open", "closed"}]
                  /\ job[j].box \in {"none", "up", "gone"}
                  /\ job[j].stuck \subseteq Servers \cup {"box"}

(* Whichever way the work went, a job that got as far as its try block holds *)
(* nothing at its end, but for what would not be closed; so what is lost is  *)
(* lost by a toolset that does not resolve or a session that does not start. *)
ReleasedAtTheEnd ==
  \A j \in Jobs : At(j, "ended") /\ ~job[j].threw =>
    /\ Open(j) \subseteq job[j].stuck
    /\ job[j].box = "up" => "box" \in job[j].stuck

(* A sandboxed run is "completed" by a command that exited zero; the one way *)
(* it is not is a stream that closed before it said how the command ended.   *)
CompletedIsEarned ==
  \A j \in Jobs : job[j].kind = "sandboxed" /\ job[j].status = "completed" =>
    job[j].exit = "zero" \/ job[j].cut

(* Both: a job ends with what it opened closed and with the status it earned. *)
JobEndsWell == ReleasedAtTheEnd /\ CompletedIsEarned
===============================================================================
