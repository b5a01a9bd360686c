----------------------------- MODULE RunLifecycle -----------------------------
(***************************************************************************)
(* The life of one run: the front door creates its record and dispatches   *)
(* it to a substrate; an executor there runs processRun() and reports what *)
(* came of it through the run store, which is all a poller sees.           *)
(*                                                                         *)
(* The front door and each executor are processes with a store object of   *)
(* their own (under inprocess dispatch they are one process, whose front   *)
(* door writes nothing once the executor runs).  A write is submitted in   *)
(* one step and takes effect in a later one; any of what Faults names may  *)
(* go wrong, at every place where the code meets it.                       *)
(*                                                                         *)
(* A record keeps the fields that are written more than once: the status,  *)
(* messages (how many model turns it holds) and the output.  Progress      *)
(* writes carry the turns at the call: Firestore serializes the live array *)
(* a little later, and then holds no fewer.                                *)
(***************************************************************************)
EXTENDS Integers, Sequences, FiniteSets

CONSTANTS
  Deployments, \* pairs of a substrate and whether the store is Firestore
  Executors,   \* processes the substrate may start for the run
  MaxSteps,    \* spec.maxSteps
  Faults,      \* what may go wrong
  NoDoc

Front == "front door"

Results   == {"completed", "blocked", "stuck", "max_steps"}
Terminal  == Results \cup {"failed"}
Statuses  == {"none", "queued", "running"} \cup Terminal
Outputs   == {"none", "answer", "answer and note", "note"}
AllModes  == {"inprocess", "runtask", "agentcore", "agentengine"}
AllFaults == {"dispatch", "reply", "redeliver", "store", "session", "toolset",
              "clone", "loop", "crash"}

ASSUME LifecycleAssumption ==
  /\ Deployments \subseteq AllModes \X BOOLEAN /\ Deployments # {}
  /\ Front \notin Executors /\ Executors # {}
  /\ MaxSteps \in Nat \ {0}
  /\ Faults \subseteq AllFaults

VARIABLES
  record,     \* the stored run
  pending,    \* outstanding store updates of each process
  next,       \* the merged document a Firestore update is about to write
  mode,       \* run.dispatch
  wholeDoc,   \* TRUE: FirestoreRunStore, FALSE: DynamoRunStore
  coder,      \* the run's agent is kind "coder" and targets a repo
  front,      \* where the front door is
  request,    \* the dispatch request: none, transit, accepted, rejected
  pc,         \* where each executor is in processRun
  turns,      \* model turns its loop has taken
  verdict,    \* the status it last set out to record, or "none"
  raised,     \* it is on the way to throw out of processRun
  session,    \* its sandbox session: none, open, closed
  workspace,  \* its coder workspace: none, cloned, pushed
  reread,     \* the output it read before adding the push note
  watch       \* awaitRun: off, polling, answered, gave up, with what it saw

given    == <<mode, wholeDoc, coder>>
store    == <<record, pending, next>>
executor == <<pc, turns, verdict, raised, session, workspace, reread>>
vars     == <<store, given, front, request, executor, watch>>

Processes == {Front} \cup Executors

Uncreated == [status |-> "none", messages |-> 0, output |-> "none"]

Field == INSTANCE AtomicRunStore WITH
  Clients <- Processes, Fields <- {"status", "messages", "output"},
  Values <- Nat \cup STRING, Initial <- Uncreated, MaxPending <- MaxSteps

Doc == INSTANCE FirestoreRunStore WITH
  Clients <- Processes, Fields <- {"status", "messages", "output"},
  Values <- Nat \cup STRING, Initial <- Uncreated, MaxPending <- MaxSteps

Init ==
  /\ record = Uncreated
  /\ pending = [p \in Processes |-> <<>>]
  /\ next = [p \in Processes |-> NoDoc]
  /\ \E d \in Deployments : mode = d[1] /\ wholeDoc = d[2]
  /\ coder \in BOOLEAN
  /\ front = "new"
  /\ request = "none"
  /\ pc = [e \in Executors |-> "idle"]
  /\ turns = [e \in Executors |-> 0]
  /\ verdict = [e \in Executors |-> "none"]
  /\ raised = [e \in Executors |-> FALSE]
  /\ session = [e \in Executors |-> "none"]
  /\ workspace = [e \in Executors |-> "none"]
  /\ reread = [e \in Executors |-> "none"]
  /\ watch = [at |-> "off", seen |-> "none"]

-----------------------------------------------------------------------------
(* The store as its clients use it. *)

Update(p, patch, awaited) ==
  /\ pending' = [pending EXCEPT ![p] = Append(@, [patch |-> patch, awaited |-> awaited])]
  /\ UNCHANGED <<record, next>>

Goto(e, place) == pc' = [pc EXCEPT ![e] = place]

(* Variant: the push is skipped. *)
FinallyClose(e) == "close"

(* processRun is left through `finally`; what it then throws is caught by   *)
(* the engine's handler, which records the failure, and by the others only  *)
(* to be logged.                                                            *)
Finally(e)    == IF workspace[e] = "cloned" THEN "push" ELSE "close"
Uncaught      == IF mode = "agentengine" THEN "rescue" ELSE "ended"
Throw(e)      == Goto(e, Uncaught) /\ raised' = [raised EXCEPT ![e] = TRUE]

(* An awaited update settles: where its executor goes from there. *)
Resume(e, ok) ==
  LET Proceed(place) == Goto(e, place) /\ UNCHANGED raised
  IN  CASE pc[e] = "claiming"  -> IF ok THEN Proceed("start") ELSE Throw(e)
        [] pc[e] = "reporting" -> Proceed(IF ok THEN Finally(e) ELSE "fail")
        [] pc[e] = "failing"   -> /\ Goto(e, Finally(e))
                                  /\ raised' = [raised EXCEPT ![e] = ~ok]
        [] pc[e] = "noting"    -> Proceed("close")
        [] pc[e] = "rescuing"  -> Proceed("ended")
        [] OTHER               -> UNCHANGED <<pc, raised>>

(* A progress write is not awaited, and the front door swallows how its own *)
(* failure write ends.                                                      *)
Settle(p, i, ok) ==
  /\ IF p = Front
       THEN /\ front' = IF front = "failing" THEN "done" ELSE front
            /\ UNCHANGED <<pc, raised>>
       ELSE /\ IF pending[p][i].awaited THEN Resume(p, ok) ELSE UNCHANGED <<pc, raised>>
            /\ UNCHANGED front
  /\ UNCHANGED <<given, request, turns, verdict, session, workspace, reread, watch>>

Stopped(p) ==
  IF p = Front THEN front = "dead" ELSE pc[p] \in {"exited", "dead"}

(* An outstanding update takes effect; with a store fault its reply may be  *)
(* lost, and then the caller sees a failure.                                *)
Lands(p, i) ==
  /\ IF wholeDoc THEN i = 1 /\ Doc!Patch(p) ELSE Field!Apply(p, i) /\ UNCHANGED next
  /\ \E ok \in IF "store" \in Faults THEN BOOLEAN ELSE {TRUE} : Settle(p, i, ok)

(* It fails; what a stopped process had outstanding may also just be gone. *)
Fails(p, i) ==
  /\ "store" \in Faults \/ Stopped(p)
  /\ IF wholeDoc THEN i = 1 /\ Doc!Drop(p) ELSE Field!Drop(p, i) /\ UNCHANGED next
  /\ Settle(p, i, FALSE)

Reads(p) ==
  /\ wholeDoc
  /\ ~Stopped(p)
  /\ Doc!Get(p)
  /\ UNCHANGED <<given, front, request, executor, watch>>

StoreStep(p) == Reads(p) \/ \E i \in DOMAIN pending[p] : Lands(p, i) \/ Fails(p, i)

-----------------------------------------------------------------------------
(* The front door. *)

MoveFront(place) == front' = place /\ UNCHANGED <<given, executor, watch>>

(* Authentication, authorization, an unknown agent or the gate turn the    *)
(* request away; so does a create that fails.                              *)
Refuse ==
  /\ front = "new"
  /\ MoveFront("refused")
  /\ UNCHANGED <<store, request>>

(* The run is created; with a store fault create() may throw nonetheless,  *)
(* and the run is then never dispatched.                                   *)
Create ==
  /\ front = "new"
  /\ record' = [record EXCEPT !.status = "queued"]
  /\ MoveFront("dispatch") \/ ("store" \in Faults /\ MoveFront("refused"))
  /\ UNCHANGED <<pending, next, request>>

(* The agent's spec is read and a coder's credential minted; then the run   *)
(* goes to its substrate.  The in-process executor starts in this step.     *)
Dispatch ==
  /\ front = "dispatch"
  /\ IF mode = "inprocess"
       THEN /\ front' = "done"
            /\ \E e \in Executors : Goto(e, "get")
            /\ UNCHANGED request
       ELSE /\ front' = "sent"
            /\ request' = "transit"
            /\ UNCHANGED pc
  /\ UNCHANGED <<store, given, turns, verdict, raised, session, workspace, reread, watch>>

(* Variant: a dispatch that throws is only logged. *)
DispatchSwallowed ==
  /\ "dispatch" \in Faults
  /\ front = "dispatch"
  /\ MoveFront("done")
  /\ UNCHANGED <<store, request>>

DispatchThrows ==
  /\ "dispatch" \in Faults
  /\ front = "dispatch"
  /\ MoveFront("fail")
  /\ UNCHANGED <<store, request>>

(* A failed dispatch is marked on the run, except that agentcore first      *)
(* looks whether the run was claimed.                                       *)
Failed == IF mode = "agentcore" THEN "check" ELSE "fail"

Delivered(e) == pc[e] # "idle"

(* RunTask answers when the task is accepted, the other two when the run    *)
(* ended.                                                                   *)
ReplyOk ==
  /\ front = "sent"
  /\ request = "accepted"
  /\ mode # "runtask" => \E e \in Executors : pc[e] \in {"ended", "exited"}
  /\ MoveFront("done")
  /\ UNCHANGED <<store, request>>

(* A rejected request, an executor that died, or a reply that is lost.      *)
ReplyError ==
  /\ front = "sent"
  /\ \/ request = "rejected"
     \/ mode # "runtask" /\ \E e \in Executors : pc[e] = "dead"
     \/ "reply" \in Faults
  /\ MoveFront(Failed)
  /\ UNCHANGED <<store, request>>

(* Only a run that nobody claimed is to be marked; if it cannot be read, it *)
(* is marked too.                                                           *)
Check ==
  /\ front = "check"
  /\ \/ MoveFront(IF record.status = "queued" THEN "fail" ELSE "done")
     \/ "store" \in Faults /\ MoveFront("fail")
  /\ UNCHANGED <<store, request>>

MarkFailed ==
  /\ front = "fail"
  /\ MoveFront("failing")
  /\ Update(Front, [status |-> "failed"], TRUE)
  /\ UNCHANGED request

(* Fire-and-forget work dies with its process (or is frozen with it). *)
FrontDies ==
  /\ "crash" \in Faults
  /\ front \notin {"new", "refused", "done", "dead"}
  /\ MoveFront("dead")
  /\ UNCHANGED <<store, request>>

FrontDoor ==
  Refuse \/ Create \/ Dispatch \/ DispatchThrows \/ ReplyOk \/ ReplyError \/ Check \/ MarkFailed

-----------------------------------------------------------------------------
(* The substrate (external): RunTask, InvokeAgentRuntime, :query. *)

Accept ==
  /\ request = "transit"
  /\ request' = "accepted"
  /\ UNCHANGED <<store, given, front, executor, watch>>

Reject ==
  /\ "dispatch" \in Faults
  /\ request = "transit"
  /\ request' = "rejected"
  /\ UNCHANGED <<store, given, front, executor, watch>>

(* It starts an executor, however late; the SDK's retry of an invocation    *)
(* may start a second one.                                                  *)
Deliver(e) ==
  /\ request = "accepted"
  /\ pc[e] = "idle"
  /\ \/ \A f \in Executors : pc[f] = "idle"
     \/ "redeliver" \in Faults /\ mode = "agentcore"
  /\ Goto(e, "get")
  /\ UNCHANGED <<store, given, front, request, turns, verdict, raised, session,
                 workspace, reread, watch>>

-----------------------------------------------------------------------------
(* processRun. *)

others == <<given, front, request, watch>>

(* The run is read and its agent looked up, then claimed: set to running,   *)
(* whatever it was.                                                         *)
Claim(e) ==
  /\ pc[e] = "get"
  /\ \/ Goto(e, "claiming") /\ Update(e, [status |-> "running"], TRUE) /\ UNCHANGED raised
     \/ "store" \in Faults /\ Throw(e) /\ UNCHANGED store
  /\ UNCHANGED <<others, turns, verdict, session, workspace, reread>>

(* The sandbox session and the toolset: neither is inside the try. *)
StartSession(e) ==
  /\ pc[e] = "start"
  /\ \/ Goto(e, "resolve") /\ session' = [session EXCEPT ![e] = "open"] /\ UNCHANGED raised
     \/ "session" \in Faults /\ Throw(e) /\ UNCHANGED session
  /\ UNCHANGED <<others, store, turns, verdict, workspace, reread>>

ResolveTools(e) ==
  /\ pc[e] = "resolve"
  /\ \/ Goto(e, IF coder THEN "clone" ELSE "think") /\ UNCHANGED raised
     \/ "toolset" \in Faults /\ Throw(e)
  /\ UNCHANGED <<others, store, turns, verdict, session, workspace, reread>>

Clone(e) ==
  /\ pc[e] = "clone"
  /\ \/ Goto(e, "think") /\ workspace' = [workspace EXCEPT ![e] = "cloned"]
     \/ "clone" \in Faults /\ Goto(e, "fail") /\ UNCHANGED workspace
  /\ UNCHANGED <<others, store, turns, verdict, raised, session, reread>>

(* One turn of the loop; the progress write is not awaited. *)
Turn(e) ==
  /\ pc[e] = "think"
  /\ turns[e] < MaxSteps
  /\ turns' = [turns EXCEPT ![e] = @ + 1]
  /\ Update(e, [messages |-> turns'[e]], FALSE)
  /\ UNCHANGED <<others, pc, verdict, raised, session, workspace, reread>>

(* How the loop may end: the guard blocks the task before the first turn,  *)
(* a turn asks for no tool, a turn repeats the one before it, or the steps  *)
(* run out.                                                                 *)
EndsAs(e) ==
  {r \in Results :
     /\ r = "blocked" => turns[e] = 0
     /\ r = "completed" => turns[e] >= 1
     /\ r = "stuck" => turns[e] >= 2
     /\ r = "max_steps" => turns[e] = MaxSteps}

(* Variant: running out of steps is reported as completion. *)
ReportedDone(r) ==
  [status |-> IF r = "max_steps" THEN "completed" ELSE r, output |-> "answer"]

(* A blocked or exhausted run has no output: DynamoRunStore skips the       *)
(* field, Firestore's JSON drops it.                                        *)
Reported(r) ==
  IF r \in {"completed", "stuck"} THEN [status |-> r, output |-> "answer"]
  ELSE IF wholeDoc THEN [status |-> r, output |-> "none"]
  ELSE [status |-> r]

Report(e) ==
  /\ pc[e] = "think"
  /\ \E r \in EndsAs(e) :
       /\ verdict' = [verdict EXCEPT ![e] = r]
       /\ Update(e, Reported(r), TRUE)
  /\ Goto(e, "reporting")
  /\ UNCHANGED <<others, turns, raised, session, workspace, reread>>

LoopThrows(e) ==
  /\ "loop" \in Faults
  /\ pc[e] = "think"
  /\ Goto(e, "fail")
  /\ UNCHANGED <<others, store, turns, verdict, raised, session, workspace, reread>>

(* The catch: anything thrown inside the try, the report itself included.   *)
Fail(e) ==
  /\ pc[e] = "fail"
  /\ verdict' = [verdict EXCEPT ![e] = "failed"]
  /\ Update(e, [status |-> "failed"], TRUE)
  /\ Goto(e, "failing")
  /\ UNCHANGED <<others, turns, raised, session, workspace, reread>>

(* The finally: push the workspace, note the outcome on the output that is  *)
(* read back (nothing, if the read fails), close the session.               *)
Push(e) ==
  /\ pc[e] = "push"
  /\ workspace' = [workspace EXCEPT ![e] = "pushed"]
  /\ \E seen \in {record.output} \cup (IF "store" \in Faults THEN {"none"} ELSE {}) :
       reread' = [reread EXCEPT ![e] = seen]
  /\ Goto(e, "note")
  /\ UNCHANGED <<others, store, turns, verdict, raised, session>>

WithNote(output) == IF output = "none" \/ output = "note" THEN "note" ELSE "answer and note"

Note(e) ==
  /\ pc[e] = "note"
  /\ Update(e, [output |-> WithNote(reread[e])], TRUE)
  /\ Goto(e, "noting")
  /\ UNCHANGED <<others, turns, verdict, raised, session, workspace, reread>>

(* agent-engine.ts then reads the run once more, for its answer. *)
Close(e) ==
  /\ pc[e] = "close"
  /\ session' = [session EXCEPT ![e] = "closed"]
  /\ \/ Goto(e, IF raised[e] THEN Uncaught ELSE "ended")
     \/ "store" \in Faults /\ Goto(e, Uncaught)
  /\ UNCHANGED <<others, store, turns, verdict, raised, workspace, reread>>

(* agent-engine.ts: what processRun or the read after it throws is recorded *)
(* on the run, over whatever the run had come to.                           *)
Rescue(e) ==
  /\ pc[e] = "rescue"
  /\ verdict' = [verdict EXCEPT ![e] = "failed"]
  /\ Update(e, [status |-> "failed"], TRUE)
  /\ Goto(e, "rescuing")
  /\ UNCHANGED <<others, turns, raised, session, workspace, reread>>

(* A task exits when its run ended, a microVM is frozen once it has         *)
(* answered: what they have outstanding may or may not arrive.              *)
Exit(e) ==
  /\ pc[e] = "ended"
  /\ mode \in {"runtask", "agentcore"}
  /\ Goto(e, "exited")
  /\ UNCHANGED <<others, store, turns, verdict, raised, session, workspace, reread>>

ExecutorDies(e) ==
  /\ "crash" \in Faults
  /\ pc[e] \notin {"idle", "ended", "exited", "dead"}
  /\ Goto(e, "dead")
  /\ UNCHANGED <<others, store, turns, verdict, raised, session, workspace, reread>>

ProcessRun(e) ==
  \/ Claim(e) \/ StartSession(e) \/ ResolveTools(e) \/ Clone(e) \/ Turn(e) \/ Report(e)
  \/ LoopThrows(e) \/ Fail(e) \/ Push(e) \/ Note(e) \/ Close(e) \/ Rescue(e)

-----------------------------------------------------------------------------
(* agent-engine.ts awaitRun: an inline task is created in this process and  *)
(* polled until its status is one of these, or the deadline passes.         *)

(* Variant: only what ended well or threw. *)
AwaitTwo == {"completed", "failed"}

AwaitTerminal == {"completed", "failed", "blocked", "stuck"}

Poll ==
  /\ watch.at = "polling"
  /\ watch' = [at |-> IF record.status \in AwaitTerminal THEN "answered" ELSE "polled",
               seen |-> record.status]
  /\ UNCHANGED <<store, given, front, request, executor>>

Deadline ==
  /\ watch.at = "polled"
  /\ \E at \in {"polling", "gave up"} : watch' = [watch EXCEPT !.at = at]
  /\ UNCHANGED <<store, given, front, request, executor>>

Await ==
  /\ watch.at = "off"
  /\ mode = "inprocess"
  /\ front \in {"dispatch", "fail", "failing", "done"}
  /\ watch' = [watch EXCEPT !.at = "polling"]
  /\ UNCHANGED <<store, given, front, request, executor>>

Watch == Await \/ Poll \/ Deadline

-----------------------------------------------------------------------------
Next ==
  \/ FrontDoor \/ FrontDies
  \/ Accept \/ Reject \/ Watch
  \/ \E e \in Executors : Deliver(e) \/ ProcessRun(e) \/ Exit(e) \/ ExecutorDies(e)
  \/ \E p \in Processes : StoreStep(p)

Spec == Init /\ [][Next]_vars

(* Fairness: a process that can go on does, a store request is eventually   *)
(* answered, and the substrate starts what it accepted.  Nothing makes a    *)
(* client create a run, and nothing makes a fault happen.                   *)
Fairness ==
  /\ WF_vars(Dispatch \/ DispatchThrows) /\ WF_vars(ReplyOk \/ ReplyError)
  /\ WF_vars(Check) /\ WF_vars(MarkFailed)
  /\ WF_vars(Accept \/ Reject)
  /\ WF_vars(\E e \in Executors : Deliver(e))
  /\ \A e \in Executors : WF_vars(ProcessRun(e))
  /\ \A p \in Processes : WF_vars(StoreStep(p))

LiveSpec == Spec /\ Fairness

-----------------------------------------------------------------------------
Places == {"idle", "get", "claiming", "start", "resolve", "clone", "think", "reporting",
           "fail", "failing", "push", "note", "noting", "close", "rescue", "rescuing",
           "ended", "exited", "dead"}

FrontPlaces == {"new", "refused", "dispatch", "sent", "check", "fail", "failing", "done", "dead"}

TypeOK ==
  /\ record \in [status : Statuses, messages : 0..MaxSteps, output : Outputs]
  /\ \A p \in Processes :
       \A i \in DOMAIN pending[p] : pending[p][i].awaited \in BOOLEAN
  /\ <<mode, wholeDoc>> \in Deployments /\ coder \in BOOLEAN
  /\ front \in FrontPlaces
  /\ request \in {"none", "transit", "accepted", "rejected"}
  /\ pc \in [Executors -> Places]
  /\ turns \in [Executors -> 0..MaxSteps]
  /\ verdict \in [Executors -> Terminal \cup {"none"}]
  /\ raised \in [Executors -> BOOLEAN]
  /\ session \in [Executors -> {"none", "open", "closed"}]
  /\ workspace \in [Executors -> {"none", "cloned", "pushed"}]
  /\ reread \in [Executors -> Outputs]
  /\ watch \in [at : {"off", "polling", "polled", "answered", "gave up"}, seen : Statuses]

Ended(e) == pc[e] \in {"ended", "exited"}

(***************************************************************************)
(* What a poller may rely on: a terminal status it has seen is final, and  *)
(* no late progress, failure or workspace write takes it back.             *)
(***************************************************************************)
StatusStays   == record.status \in Terminal => record'.status = record.status
TerminalStays == [][StatusStays]_vars

(***************************************************************************)
(* Once processRun is over, the record says what it set out to say: the    *)
(* status of its last verdict and, for a completed run, the answer, which  *)
(* the note on the push has not displaced.                                 *)
(***************************************************************************)
OutcomeStands ==
  \A e \in Executors :
    (Ended(e) /\ verdict[e] # "none") =>
      /\ record.status = verdict[e]
      /\ verdict[e] = "completed" => record.output \in {"answer", "answer and note"}

(***************************************************************************)
(* Whatever fails, processRun leaves no session open and no cloned         *)
(* workspace unpushed behind (a toolset that does not resolve apart).      *)
(***************************************************************************)
NothingLeftOpen ==
  \A e \in Executors :
    (Ended(e) \/ pc[e] \in {"rescue", "rescuing"}) =>
      session[e] # "open" /\ workspace[e] # "cloned"

(***************************************************************************)
(* No status comes from nowhere: a run is only said to have ended as some  *)
(* executor said it did (one whose report went unacknowledged then says    *)
(* failed), or failed by a front door that could not dispatch it.          *)
(***************************************************************************)
StatusHasAuthor ==
  /\ record.status \in Results => \E e \in Executors : verdict[e] \in {record.status, "failed"}
  /\ record.status = "running" => \E e \in Executors : Delivered(e)
  /\ record.status = "failed" =>
       \/ \E e \in Executors : verdict[e] = "failed"
       \/ front \in {"failing", "done", "dead"}

(***************************************************************************)
(* A whole document keeps every turn: when processRun is over and its      *)
(* writes have settled, messages holds the turns the loop took.            *)
(***************************************************************************)
TurnsDurable ==
  wholeDoc =>
    \A e \in Executors : (Ended(e) /\ pending[e] = <<>>) => record.messages = turns[e]

(***************************************************************************)
(* Together: the record comes to say what the run did, and goes on saying  *)
(* it.                                                                     *)
(***************************************************************************)
RecordStands ==
  [](TypeOK /\ OutcomeStands /\ TurnsDurable) /\ [][StatusStays]_vars

(***************************************************************************)
(* What awaitRun answers with is final, and it gives up only on a run that *)
(* may still advance or one that ran out of steps, which it takes to be    *)
(* one.                                                                    *)
(***************************************************************************)
AnswerStands ==
  /\ watch.at = "answered" => watch.seen \in Terminal /\ record.status = watch.seen
  /\ watch.at = "gave up" => watch.seen \notin Terminal \ {"max_steps"}

(* startSession() or the toolset threw outside the try: processRun rejects *)
(* with the run claimed, and only the engine's handler records it.         *)
LeftRunning ==
  \E e \in Executors : pc[e] \in {"ended", "exited"} /\ raised[e] /\ verdict[e] = "none"

(***************************************************************************)
(* A created run does not rot in queued: whichever way its dispatch, its   *)
(* clone or its loop fails, it becomes terminal, unless what failed is     *)
(* what processRun calls outside its try.                                  *)
(***************************************************************************)
SettlesEventually ==
  record.status = "queued" ~> (record.status \in Terminal \/ LeftRunning)
=============================================================================
