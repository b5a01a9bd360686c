------------------------------- MODULE FrontDoor -------------------------------
(***************************************************************************)
(* The runtime's HTTP surface: requests authenticate, are authorized and   *)
(* admitted, write the agent registry or create a run; a created run is    *)
(* dispatched to the executor of its agent's kind and watched by whoever   *)
(* asked for it, the console or a calling agent (A2A).                     *)
(*                                                                         *)
(* Each step ends at an await, where requests interleave and what is       *)
(* awaited may throw.  The registry is read anew at every stage of a run.  *)
(* How an executor lives and dies is RunLifecycle's subject, the dollar    *)
(* ledger BudgetGate's; here a launched run ends and a budget is met or    *)
(* not.                                                                    *)
(***************************************************************************)
EXTENDS Identity

CONSTANTS
  Requests,
  Agents, NoAgent, NoSpec,
  Deployments,  \* the environments providersFromEnv() and dispatchFromEnv() read
  Sent,         \* [authn -> SUBSET Contexts]: what callers may present
  Permitted,    \* subset of Tenants \X Operations: OPA's policy
  Seeds,        \* registries to start from
  Edits,        \* what may be written to the registry behind the front door
  May,          \* [Requests -> SUBSET (Operations \X Clients)]: bound on what is asked
  MaxPolls,     \* of call_agent; 60 in the code
  MaxEdits      \* bound on the registry writes made behind the front door

Kinds      == {"loop", "claude-code"}  \* sandboxed, coder: dispatched like loop
Specs      == [kind : Kinds, tenant : Tenants \cup {NoTenant}]
Operations == {"run", "register", "delete", "read"}
Clients    == {"console", "a2a"}
Modes      == {"inprocess", "runtask", "agentcore", "agentengine"}
Terminal   == {"completed", "failed", "max_steps"}  \* blocked, stuck: like completed

(* The edge forwards a mesh deployment's identities, and is its only ingress. *)
ASSUME FrontDoorAssumption ==
  /\ IsFiniteSet(Requests)
  /\ NoAgent \notin Agents /\ NoSpec \notin Specs
  /\ \A d \in Deployments :
       /\ d.mode \in Modes /\ d.wired \subseteq Modes \ {"inprocess"}
       /\ {d.writable, d.opa, d.cc, d.metered} \subseteq BOOLEAN
       /\ d.quota \in Nat /\ d.authn \in Authns
       /\ \A ctx \in Sent[d.authn] :
            /\ ctx \in Contexts
            /\ d.authn = "mesh" /\ ctx.bearer # NoToken => ctx.bearer.subject \in EdgeTrusted
  /\ Permitted \subseteq Tenants \X Operations
  /\ Seeds \subseteq [Agents -> Specs \cup {NoSpec}]
  /\ Edits \subseteq Specs \cup {NoSpec}
  /\ May \in [Requests -> SUBSET (Operations \X Clients)]
  /\ MaxPolls \in Nat \ {0} /\ MaxEdits \in Nat

VARIABLES
  deployment,  \* the process's environment
  registry,    \* the agents, by name
  edits,       \* registry writes made behind the front door
  used,        \* used[t]: the row runs#<month> of the spend store
  request,     \* each request: what it asks and where it is
  run,         \* the run each request created
  watch        \* who watches that run and what they have learned

vars == <<deployment, registry, edits, used, request, run, watch>>

-----------------------------------------------------------------------------
Idle == [pc |-> "idle", op |-> "read", via |-> "console", ctx |-> Anonymous,
         agent |-> NoAgent, kind |-> "loop", mode |-> "none", who |-> NoTenant,
         seen |-> NoSpec, slot |-> FALSE, deaf |-> FALSE, moved |-> FALSE, reply |-> 0]

NoRun == [at |-> "none", status |-> "none", mode |-> "none", lane |-> "none", as |-> "none"]

(* The substrate DISPATCH names must be fully wired, or the process does not   *)
(* start; any other that is wired is offered besides, but in-process never:   *)
(* a front door that scales to zero would take the run with it.               *)
FullyWired(d) == d.mode \in d.wired \cup {"inprocess"}
Offered(d)    == {d.mode} \cup d.wired

Init ==
  /\ deployment \in {d \in Deployments : FullyWired(d)}
  /\ registry \in Seeds
  /\ edits = 0
  /\ used = [t \in Tenants |-> 0]
  /\ request = [r \in Requests |-> Idle]
  /\ run = [r \in Requests |-> NoRun]
  /\ watch = [r \in Requests |-> [at |-> "off", polls |-> 0]]

At(r, place)      == request[r].pc = place
Becomes(r, new)   == request' = [request EXCEPT ![r] = new]
Proceed(r, place) == Becomes(r, [request[r] EXCEPT !.pc = place])

(* What is forgotten of a request that has been answered. *)
Answered(asked, code) ==
  [asked EXCEPT !.pc = "done", !.reply = code, !.kind = "loop", !.seen = NoSpec]

Reply(r, code) == Becomes(r, Answered(request[r], code))

(* A registry entry is written: whoever has read the old one and is not     *)
(* done with it acts on stale knowledge from here on.                       *)
Stale(n) ==
  [r \in Requests |->
     [request[r] EXCEPT !.moved = @ \/ /\ request[r].agent = n
                                       /\ request[r].pc # "idle"
                                       /\ run[r].as = "none"]]

-----------------------------------------------------------------------------
(* What a caller may ask: the body was parsed, and an unknown substrate       *)
(* refused before authn (validateAgentSpec() comes after it).                *)
(* message/send names an agent or leaves it to the front door's own; it has   *)
(* no word for a substrate.                                                   *)
SentByAgent(a) == a.op = "run" /\ a.mode = deployment.mode

Asked(r) ==
  { a \in [op : Operations, via : Clients, agent : Agents \cup {NoAgent},
           ctx : Sent[deployment.authn], kind : Kinds, mode : Offered(deployment) \cup {"none"}] :
      /\ <<a.op, a.via>> \in May[r]
      /\ a.via = "a2a" => SentByAgent(a)
      /\ a.op = "run" <=> a.mode # "none"
      /\ a.op # "register" => a.kind = "loop"
      /\ a.op = "read" => a.agent = NoAgent
      /\ a.op \in {"register", "delete"} => a.agent # NoAgent }

(* A read answers 401 whatever went wrong; the governed routes only when     *)
(* the credential was rejected.  501: the registry has no write here.        *)
Identified(asked, verdict, deaf) ==
  CASE verdict.is = "rejected" \/ (verdict.is = "thrown" /\ asked.op = "read") ->
         [Answered(asked, 401) EXCEPT !.deaf = deaf]
    [] verdict.is = "thrown" /\ asked.op # "read" -> Answered(asked, 500)
    [] verdict.is = "principal" /\ asked.op = "read" -> [asked EXCEPT !.pc = "read"]
    [] verdict.is = "principal" /\ asked.op = "run" -> [asked EXCEPT !.pc = "authz"]
    [] OTHER -> IF deployment.writable THEN [asked EXCEPT !.pc = "authz"] ELSE Answered(asked, 501)

(* OpaAuthorizer denies whenever it has no decision; AllowAll never does. *)
Authorized(asked, answers) ==
  IF deployment.opa => answers /\ <<asked.who, asked.op>> \in Permitted
  THEN [asked EXCEPT !.pc = IF asked.agent = NoAgent THEN "admit" ELSE "lookup"]
  ELSE Answered(asked, 403)

(* The console's request throws on any answer that is not 2xx, and shows it;  *)
(* a 401 signs its user out.                                                  *)
Shown(asked) == IF asked.via = "console" /\ asked.reply = 401 THEN "signed out" ELSE "off"

(* Parsing, authentication and authorization wait for services, but neither  *)
(* read nor write what other steps do: they are one step.                    *)
Arrives(r) ==
  /\ At(r, "idle")
  /\ \E a \in Asked(r), up \in SUBSET Consulted(deployment.authn), answers, valid \in BOOLEAN :
       LET verdict == Authenticated(deployment.authn, a.ctx, up)
           asked   == [Idle EXCEPT !.op = a.op, !.via = a.via, !.agent = a.agent, !.ctx = a.ctx,
                                   !.kind = a.kind, !.mode = a.mode, !.who = verdict.tenant]
           known   == Identified(asked, verdict, up # Consulted(deployment.authn))
       IN  /\ Becomes(r, IF known.pc # "authz" THEN known
                         ELSE IF a.op = "register" /\ ~valid THEN Answered(known, 400)
                         ELSE Authorized(known, answers))
           /\ watch' = [watch EXCEPT ![r].at = Shown(known)]
  /\ UNCHANGED <<deployment, registry, edits, used, run>>

(* GET /runs, /agents, /tenants/{t}/budget and /usage. *)
Read(r) ==
  /\ At(r, "read")
  /\ Reply(r, 200)
  /\ UNCHANGED <<deployment, registry, edits, used, run, watch>>

(* Variant: the condition inverted, an unowned agent is the foreign one. *)
ForeignUnowned(spec, tenant) == spec # NoSpec /\ spec.tenant = NoTenant

(* An agent belongs to the tenant that registered it. *)
Foreign(spec, tenant) == spec # NoSpec /\ spec.tenant \notin {NoTenant, tenant}

Lookup(r) ==
  LET spec == registry[request[r].agent]
  IN  /\ At(r, "lookup")
      /\ CASE spec = NoSpec /\ request[r].op # "register" -> Reply(r, 404)
           [] request[r].op # "run" /\ Foreign(spec, request[r].who) -> Reply(r, 403)
           [] OTHER -> Becomes(r, [request[r] EXCEPT
                         !.seen = spec, !.pc = IF request[r].op = "run" THEN "admit" ELSE "write"])
      /\ UNCHANGED <<deployment, registry, edits, used, run, watch>>

(* LocalGate.reserveRun(): one conditional add on the runs# row.  No quota   *)
(* configured admits all, a quota below 1 nobody.                           *)
QuotaOff == deployment.metered = FALSE

(* Variant: the ceiling met is the ceiling passed. *)
FitsPast(t) == used[t] <= deployment.quota

Fits(t) == used[t] + 1 <= deployment.quota

ReserveRun(r) ==
  LET t == request[r].who
  IN  CASE QuotaOff -> Proceed(r, "create") /\ UNCHANGED used
        [] ~QuotaOff /\ Fits(t) ->
             /\ used' = [used EXCEPT ![t] = @ + 1]
             /\ Becomes(r, [request[r] EXCEPT !.pc = "create", !.slot = TRUE])
        [] OTHER -> Reply(r, 429) /\ UNCHANGED used

(* checkBudget(): what the dollar ledger says at this moment. *)
CheckBudget(r) ==
  /\ Proceed(r, "create") \/ Reply(r, 402)
  /\ UNCHANGED used

(* The agent's kind, as read by Lookup, picks the admission control. *)
Admit(r) ==
  /\ At(r, "admit")
  /\ IF request[r].seen # NoSpec /\ request[r].seen.kind = "claude-code"
       THEN ReserveRun(r) ELSE CheckBudget(r)
  /\ UNCHANGED <<deployment, registry, edits, run, watch>>

(* store.create() and, without waiting, dispatch().  If its answer is lost   *)
(* the record is there, but nobody dispatches it.                           *)
Create(r) ==
  LET quota == request[r].seen # NoSpec /\ request[r].seen.kind = "claude-code"
      born  == [NoRun EXCEPT !.status = "queued", !.mode = request[r].mode,
                             !.lane = IF quota THEN "quota" ELSE "dollar"]
  IN  /\ At(r, "create")
      /\ \/ /\ run' = [run EXCEPT ![r] = [born EXCEPT !.at = "mint"]]
            /\ watch' = [watch EXCEPT ![r].at = "polling"]
            /\ Reply(r, 202)
         \/ /\ run' = [run EXCEPT ![r] = [born EXCEPT !.at = "orphan"]]
            /\ Reply(r, 500)
            /\ UNCHANGED watch
      /\ UNCHANGED <<deployment, registry, edits, used>>

(* AgentRegistry.put(), stamped with the caller's tenant, and delete().  The *)
(* owner was looked up in an earlier step.                                  *)
Write(r) ==
  LET n == request[r].agent
  IN  /\ At(r, "write")
      /\ registry' = [registry EXCEPT ![n] =
           IF request[r].op = "delete" THEN NoSpec
           ELSE [kind |-> request[r].kind, tenant |-> request[r].who]]
      /\ request' = [Stale(n) EXCEPT ![r] = [request[r] EXCEPT
           !.pc = "done",
           !.reply = IF request[r].op = "register" /\ request[r].seen = NoSpec THEN 201 ELSE 200]]
      /\ UNCHANGED <<deployment, edits, used, run, watch>>

(* Whatever the handler awaits may throw: nothing is undone.  A read has no  *)
(* better answer for it either.                                             *)
Breaks(r) ==
  /\ request[r].pc \in {"lookup", "admit", "create", "write", "read"}
  /\ Reply(r, 500)
  /\ UNCHANGED <<deployment, registry, edits, used, run, watch>>

(* agents-cli put and delete, AGENTS_JSON, kubectl: no owner is asked. *)
Edit(n) ==
  /\ edits < MaxEdits
  /\ edits' = edits + 1
  /\ \E spec \in Edits : registry' = [registry EXCEPT ![n] = spec]
  /\ request' = Stale(n)
  /\ UNCHANGED <<deployment, used, run, watch>>

-----------------------------------------------------------------------------
(* Dispatch: a promise chain of its own. *)
Moves(r, new) ==
  /\ run' = [run EXCEPT ![r] = new]
  /\ UNCHANGED <<deployment, registry, edits, used, request, watch>>

Launch(r, kind) == Moves(r, [run[r] EXCEPT !.at = "launched", !.as = kind])

(* Nobody works on the run any more and its record does not say so. *)
Strand(r) == Moves(r, [run[r] EXCEPT !.at = "stranded"])

(* What throws fails the run, if the one write that says so lands: that it    *)
(* did not is swallowed, and the run stays queued.                           *)
Fail(r) ==
  \/ Moves(r, [run[r] EXCEPT !.at = "ended", !.status = "failed"])
  \/ Strand(r)

KindNow(r) ==
  IF request[r].agent = NoAgent \/ registry[request[r].agent] = NoSpec THEN "loop"
  ELSE registry[request[r].agent].kind

(* The registry is read; a coder with a repo takes along a GitHub token       *)
(* minted here, if the App is wired and GitHub gives one.                     *)
Mint(r) ==
  /\ run[r].at = "mint"
  /\ Moves(r, [run[r] EXCEPT !.at = "route"]) \/ Fail(r)

(* runtask: the kind is read again and picks the task definition. *)
RunTask(r) ==
  /\ \/ run[r].at = "route" /\ run[r].mode = "runtask"
     \/ run[r].at = "fallback"
  /\ \/ KindNow(r) # "claude-code" /\ Launch(r, "loop")
     \/ KindNow(r) = "claude-code" /\ deployment.cc /\ Launch(r, "claude-code")
     \/ Fail(r)

(* Variant: a lane that is not wired runs on the loop. *)
AgentCoreToLoop(r) ==
  /\ run[r].at = "route" /\ run[r].mode = "agentcore"
  /\ \/ ~(KindNow(r) = "claude-code" /\ deployment.cc) /\ Launch(r, "loop")
     \/ /\ KindNow(r) = "claude-code" /\ deployment.cc
        /\ Moves(r, [run[r] EXCEPT !.at = "fallback"])
     \/ Fail(r)

(* agentcore: a claude-code run is handed to a runtask dispatch, which reads  *)
(* the kind once more.                                                       *)
AgentCore(r) ==
  /\ run[r].at = "route" /\ run[r].mode = "agentcore"
  /\ \/ KindNow(r) # "claude-code" /\ Launch(r, "loop")
     \/ /\ KindNow(r) = "claude-code" /\ deployment.cc
        /\ Moves(r, [run[r] EXCEPT !.at = "fallback"])
     \/ Fail(r)

(* These execute every run on the loop; agentengine may not be reached, or    *)
(* give no token.                                                            *)
InProcess(r)   == run[r].at = "route" /\ run[r].mode = "inprocess" /\ Launch(r, "loop")
AgentEngine(r) == run[r].at = "route" /\ run[r].mode = "agentengine" /\ (Launch(r, "loop") \/ Fail(r))

Route(r) == RunTask(r) \/ AgentCore(r) \/ InProcess(r) \/ AgentEngine(r)

(* The executor: RunLifecycle tells how it comes to its end. *)
Starts(r) ==
  /\ run[r].at = "launched"
  /\ Moves(r, [run[r] EXCEPT !.at = "running", !.status = "running"])

Ends(r) ==
  /\ run[r].at = "running"
  /\ \E status \in Terminal : Moves(r, [run[r] EXCEPT !.at = "ended", !.status = status])

(* It throws before its try block, loses its last write, hangs or dies:      *)
(* nothing comes back for the run.                                          *)
Abandons(r) == run[r].at \in {"launched", "running"} /\ Strand(r)

-----------------------------------------------------------------------------
(* Variant: the console as it was before max_steps had a status. *)
TerminalWithoutSteps == Terminal \ {"max_steps"}

(* RunDetailView stops polling at these. *)
ConsoleTerminal == Terminal

(* runToTask(): A2A's task states, of which max_steps has none. *)
TaskState(status) ==
  CASE status = "queued"    -> "submitted"
    [] status = "running"   -> "working"
    [] status = "max_steps" -> "none"
    [] OTHER                -> status

(* call_agent goes on polling until one of these. *)
A2ATerminal == {"completed", "failed", "canceled"}

Told(r, place) == watch' = [watch EXCEPT ![r].at = place]

(* The console keeps the identity it signed in with and presents its token    *)
(* again, which may have lapsed meanwhile.                                   *)
Presented(ctx) ==
  {ctx} \cup IF ctx.bearer = NoToken THEN {} ELSE {[ctx EXCEPT !.bearer.live = FALSE]}

(* A 401 signs its user out. *)
ConsolePolls(r) ==
  /\ request[r].via = "console" /\ watch[r].at = "polling"
  /\ \E up \in SUBSET Consulted(deployment.authn), now \in Presented(request[r].ctx) :
       IF Authenticated(deployment.authn, now, up).is # "principal" THEN Told(r, "signed out")
       ELSE Told(r, IF run[r].status \in ConsoleTerminal THEN "told" ELSE "polling")
  /\ UNCHANGED <<deployment, registry, edits, used, request, run>>

(* call_agent gives up after MaxPolls of them; tasks/get asks for no token. *)
AgentPolls(r) ==
  /\ request[r].via = "a2a" /\ watch[r].at = "polling"
  /\ \E answered \in BOOLEAN :
       watch' = [watch EXCEPT ![r].polls = @ + 1,
                              ![r].at = CASE answered /\ TaskState(run[r].status) \in A2ATerminal -> "told"
                                          [] watch[r].polls + 1 = MaxPolls -> "gave up"
                                          [] OTHER -> "polling"]
  /\ UNCHANGED <<deployment, registry, edits, used, request, run>>

(* Its fetch throws: the tool call ends there. *)
AgentDisconnects(r) ==
  /\ request[r].via = "a2a" /\ watch[r].at = "polling"
  /\ Told(r, "gave up")
  /\ UNCHANGED <<deployment, registry, edits, used, request, run>>

-----------------------------------------------------------------------------
Handles(r) ==
  Arrives(r) \/ Read(r) \/ Lookup(r) \/ Admit(r)
  \/ Create(r) \/ Write(r) \/ Breaks(r)

Executes(r) == Mint(r) \/ Route(r) \/ Starts(r) \/ Ends(r) \/ Abandons(r)

Watches(r) == ConsolePolls(r) \/ AgentPolls(r) \/ AgentDisconnects(r)

Next ==
  \/ \E r \in Requests : Handles(r) \/ Executes(r) \/ Watches(r)
  \/ \E n \in Agents : Edit(n)

(* An accepted run is dispatched, and executed or given up, and timers       *)
(* re-arm; the agent's polls are counted, the console's are answered now and *)
(* then.                                                                     *)
Fairness ==
  \A r \in Requests : /\ WF_vars(Executes(r))
                      /\ WF_vars(ConsolePolls(r)) /\ WF_vars(AgentPolls(r))

Spec == Init /\ [][Next]_vars /\ Fairness

-----------------------------------------------------------------------------
(* Where a request, a run and a watcher may be, and what the record of each   *)
(* holds there.                                                              *)
TypeOK ==
  /\ registry \in [Agents -> Specs \cup {NoSpec}]
  /\ used \in [Tenants -> 0..Cardinality(Requests)]
  /\ \A r \in Requests :
       /\ request[r].pc \in {"idle", "read", "lookup", "admit", "create", "write", "done"}
       /\ request[r].pc = "done" <=> request[r].reply # 0
       /\ request[r].reply \in {202} <=> run[r].at \notin {"none", "orphan"}
       /\ request[r].reply \in {202} => watch[r].at # "off"
       /\ watch[r].at \in {"polling", "told", "gave up"} => request[r].reply = 202
       /\ run[r].at = "ended" <=> run[r].status \in Terminal
       /\ run[r].status = "queued" =>
            run[r].at \in {"mint", "route", "fallback", "launched", "orphan", "stranded"}

(* Whatever a request brings about, a run or a registry entry, is brought     *)
(* about for the tenant its credential stands for, and with the policy's      *)
(* consent: gate identity is VERIFIED (router.ts, authenticators, OPA).        *)
ServedIsVouched ==
  \A r \in Requests :
    run[r].at # "none" \/ request[r].reply \in {200, 201} \/ request[r].pc = "write" =>
      /\ request[r].who \in Tenants
      /\ request[r].who = VouchedFor(deployment.authn, request[r].ctx)
      /\ deployment.opa /\ request[r].op # "read" => <<request[r].who, request[r].op>> \in Permitted

(* A governed request is turned away with 401 only for its credential, never  *)
(* because a verifier did not answer, except where the issuer's keys have to  *)
(* be fetched: those authenticators take their absence for a bad token.       *)
RejectionIsEarned ==
  \A r \in Requests :
    request[r].reply = 401 /\ request[r].op # "read" =>
      \/ VouchedFor(deployment.authn, request[r].ctx) = NoTenant
      \/ request[r].deaf /\ deployment.authn \in {"cognito", "gcp-oidc"}

(* Both: the credential decides, and nothing but the credential.              *)
Governed == ServedIsVouched /\ RejectionIsEarned

(* The quota row counts the slots taken, never past the quota, and a slot     *)
(* belongs to a run, to a request on its way to create one, or to one that    *)
(* broke: no refused request keeps a slot.  (And the types.)                  *)
SlotsAreHeld ==
  /\ TypeOK
  /\ \A t \in Tenants :
       /\ used[t] = Cardinality({r \in Requests : request[r].slot /\ request[r].who = t})
       /\ used[t] <= deployment.quota
  /\ \A r \in Requests : request[r].slot =>
       run[r].at # "none" \/ request[r].pc = "create" \/ request[r].reply = 500

(* A claude-code task runs on the quota and everything else on the dollar     *)
(* gate, unless the agent was registered anew between admission and launch,   *)
(* or its substrate runs everything on the loop.                             *)
LaneMatches ==
  \A r \in Requests : run[r].as # "none" /\ ~request[r].moved =>
    /\ run[r].as = "claude-code" => run[r].lane = "quota"
    /\ run[r].lane = "quota" /\ run[r].mode \in {"runtask", "agentcore"} => run[r].as = "claude-code"

(* An agent changes hands through the front door only unawares: its new owner *)
(* was told that it was free or theirs, before somebody else wrote it.        *)
TakenUnawares ==
  [][\A n \in Agents, r \in Requests :
       /\ request[r].agent = n /\ request[r].reply = 0 /\ request'[r].reply \in {200, 201}
       /\ registry[n] # NoSpec /\ registry[n].tenant \notin {NoTenant, request[r].who}
       => request[r].moved]_vars

(* Nobody polls for ever: an accepted run comes to a status its watcher takes  *)
(* for an end, or the watcher stops, as an agent does after MaxPolls in any   *)
(* case.  The one exception is a console whose run nobody will ever end: the  *)
(* failure write got lost (dispatch.ts:148-150), or its executor went without *)
(* a word (process-run.ts:44).                                               *)
StrandedAtConsole(r) == request[r].via = "console" /\ run[r].at = "stranded"

WatchEnds ==
  \A r \in Requests :
    watch[r].at = "polling" ~> watch[r].at # "polling" \/ StrandedAtConsole(r)
===============================================================================
