------------------------------ MODULE CodeRunner ------------------------------
(***************************************************************************)
(* One run as one headless Claude Code invocation: the runner container    *)
(* (task.ts), the egress sidecar beside it (sidecar.ts), and between them  *)
(* the harness, which writes events on a pipe, edits and commits in the    *)
(* clone and may send the sidecar any request it likes.                    *)
(*                                                                         *)
(* The runner waits for the sidecar, clones, marks the run running, spawns *)
(* the harness and reads its events until the pipe closes; a timer and the *)
(* loop detector may kill the harness on the way.  Then it commits what is *)
(* left, pushes the run's branch, opens a pull request and writes the      *)
(* terminal status.  What throws before the spawn, and the last write, are *)
(* outside any try: the process dies there with the record as it stands.   *)
(***************************************************************************)
EXTENDS LoopDetector, FiniteSets

CONSTANTS Repos,       \* repositories behind the sidecar
          NoRepo,      \* the target of a run that names none
          RunRepos,    \* \subseteq Repos \cup {NoRepo}: what run.repo may be
          ToolCalls,   \* tool calls, by signature
          Threshold,   \* CC_LOOP_THRESHOLD
          MaxEvents,   \* bound on the events of a harness
          MaxCommits   \* bound on the commits made

ASSUME RunnerAssumption ==
  /\ NoRepo \notin Repos /\ RunRepos \subseteq Repos \cup {NoRepo}
  /\ Threshold \in Nat /\ Threshold >= 2
  /\ MaxEvents \in Nat /\ MaxCommits \in Nat
  /\ "none" \notin ToolCalls

VARIABLES
  repo,      \* run.repo
  status,    \* the stored status of the run
  notes,     \* what the stored output says of the push
  pc,        \* where the runner is
  sidecar,   \* [up, token]: is it healthy, which repository its token is for
  harness,   \* the spawned process: none, live, killed, gone
  pipe,      \* its events not yet read
  emitted,   \* how many it has written
  timer,     \* the timeout is armed
  terminal,  \* the terminal status so far, "none" if unset
  stopped,   \* stoppedEarly is set
  detector,  \* the loop detector
  pending,   \* the annotations of the output so far
  head,      \* the branch checked out in the clone
  local,     \* local[b]: the commits on branch b of the clone
  dirty,     \* the clone has uncommitted changes
  tracked,   \* commits on a remote-tracking branch of the clone
  remote,    \* remote[<<r, ref>>]: the commits a ref of a repository was sent
  pulls,     \* repositories a pull request was opened on
  calls,     \* history: the tool calls the detector recorded
  said       \* history: the results read from the pipe

record  == <<status, notes>>
process == <<harness, pipe, emitted>>
reading == <<terminal, stopped, detector, calls, said>>
clone   == <<head, local, dirty, tracked>>
github  == <<remote, pulls>>
vars    == <<repo, record, pc, sidecar, process, timer, reading, pending, clone, github>>

-----------------------------------------------------------------------------
Commits  == 1..MaxCommits
Branches == {"run", "other"}
(* refs/heads/run/<id>, another run's branch, any other ref. *)
Refs     == {"self", "peer", "main"}
RunRefs  == {"self", "peer"}

Results  == {"ok", "error"}
Events   == [kind : {"message"}, calls : {<<>>} \cup {<<c>> : c \in ToolCalls} \cup (ToolCalls \X ToolCalls)]
            \cup [kind : {"result"}, is : Results] \cup [kind : {"odd"}]
Ends     == {"completed", "failed", "stuck"}
Places   == {"wait", "clone", "start", "spawn", "stream", "push", "pull", "final", "exited", "died"}

Init ==
  /\ repo \in RunRepos
  /\ status = "queued" /\ notes = {}
  /\ pc = "wait"
  /\ sidecar = [up |-> FALSE, token |-> NoRepo]
  /\ harness = "none" /\ pipe = <<>> /\ emitted = 0
  /\ timer = FALSE
  /\ terminal = "none" /\ stopped = FALSE /\ detector = Fresh
  /\ calls = <<>> /\ said = {}
  /\ pending = {}
  /\ head = "run" /\ local = [b \in Branches |-> {}] /\ dirty = FALSE /\ tracked = {}
  /\ remote = [x \in Repos \X Refs |-> {}] /\ pulls = {}

-----------------------------------------------------------------------------
(***************************************************************************)
(* The sidecar.  It resolves the run's repository and mints a token for    *)
(* that one repository before it listens; it never mints another.          *)
(***************************************************************************)
(* The token is good for one repository; a failed mint leaves none. *)
Minted(r) == {NoRepo, r}

SidecarStarts ==
  /\ ~sidecar.up
  /\ \E t \in Minted(repo) : sidecar' = [up |-> TRUE, token |-> t]
  /\ UNCHANGED <<repo, record, pc, process, timer, reading, pending, clone, github>>

TokenExpires ==
  /\ sidecar.token # NoRepo
  /\ sidecar' = [sidecar EXCEPT !.token = NoRepo]
  /\ UNCHANGED <<repo, record, pc, process, timer, reading, pending, clone, github>>

(* Variant: deletions too. *)
AllowedPushDeleting(commands) == commands # {} /\ \A c \in commands : c.ref \in RunRefs

(* denyReceivePack: every command creates or updates a run branch. *)
AllowedPush(commands) ==
  /\ commands # {}
  /\ \A c \in commands : c.ref \in RunRefs /\ ~c.delete

(* A git request reaches the upstream only for the run's repository. *)
Reaches(r) == sidecar.up /\ repo # NoRepo /\ r = repo /\ sidecar.token = r

(* What an accepted push leaves on the remote. *)
Pushed(r, commands, commits) ==
  [x \in Repos \X Refs |->
     IF x[1] = r /\ \E c \in commands : c.ref = x[2]
     THEN IF \E c \in commands : c.ref = x[2] /\ c.delete THEN {} ELSE remote[x] \cup commits
     ELSE remote[x]]

-----------------------------------------------------------------------------
(***************************************************************************)
(* Before the harness.                                                     *)
(***************************************************************************)
Goto(from, to) == pc = from /\ pc' = to

(* An uncaught rejection ends the process; the record is as it was. *)
Dies == pc' = "died" /\ harness' = IF harness = "none" THEN "none" ELSE "gone"

(* waitForSidecar: healthy in time or not; registry.get may throw as well. *)
Wait ==
  /\ \/ Goto("wait", "clone") /\ sidecar.up /\ UNCHANGED harness
     \/ pc = "wait" /\ Dies
  /\ UNCHANGED <<repo, record, sidecar, pipe, emitted, timer, reading, pending, clone, github>>

(* git clone and checkout -b through the sidecar, or an empty directory. *)
Clone ==
  /\ \/ Goto("clone", "start") /\ (repo = NoRepo \/ Reaches(repo)) /\ UNCHANGED harness
     \/ pc = "clone" /\ repo # NoRepo /\ Dies
  /\ UNCHANGED <<repo, record, sidecar, pipe, emitted, timer, reading, pending, clone, github>>

MarkRunning ==
  /\ \/ Goto("start", "spawn") /\ status' = "running" /\ UNCHANGED harness
     \/ pc = "start" /\ Dies /\ UNCHANGED status
  /\ UNCHANGED <<repo, notes, sidecar, pipe, emitted, timer, reading, pending, clone, github>>

AfterTheRun == IF repo = NoRepo THEN "final" ELSE "push"

Spawn ==
  /\ Goto("spawn", "stream")
  /\ harness' = "live" /\ timer' = TRUE
  /\ UNCHANGED <<repo, record, sidecar, pipe, emitted, reading, pending, clone, github>>

SpawnThrows ==
  /\ Goto("spawn", AfterTheRun)
  /\ terminal' = "failed"
  /\ UNCHANGED <<repo, record, sidecar, process, timer, stopped, detector, calls, said,
                 pending, clone, github>>

-----------------------------------------------------------------------------
(***************************************************************************)
(* The harness: whatever it writes, however it works in its clone, and any *)
(* request it sends the sidecar.                                           *)
(***************************************************************************)
Emit ==
  /\ harness \in {"live", "killed"} /\ emitted < MaxEvents
  /\ \E e \in Events : pipe' = Append(pipe, e)
  /\ emitted' = emitted + 1
  /\ UNCHANGED <<repo, record, pc, sidecar, harness, timer, reading, pending, clone, github>>

Edit ==
  /\ harness = "live" /\ repo # NoRepo
  /\ \/ /\ dirty' = TRUE
        /\ UNCHANGED <<head, local>>
     \/ /\ \E n \in Commits : n \notin UNION {local[b] : b \in Branches}
                             /\ local' = [local EXCEPT ![head] = @ \cup {n}]
        /\ dirty' = FALSE /\ UNCHANGED head
     \/ /\ head = "run" /\ head' = "other"
        /\ local' = [local EXCEPT !["other"] = local["run"]]
        /\ UNCHANGED dirty
  /\ UNCHANGED <<repo, record, pc, sidecar, process, timer, reading, pending, tracked, github>>

PushItself ==
  /\ harness = "live"
  /\ \E r \in Repos, b \in Branches, commands \in SUBSET [ref : Refs, delete : BOOLEAN] :
       /\ Reaches(r) /\ AllowedPush(commands)
       /\ remote' = Pushed(r, commands, local[b])
       /\ tracked' = tracked \cup local[b]
  /\ UNCHANGED <<repo, record, pc, sidecar, process, timer, reading, pending, head, local,
                 dirty, pulls>>

OpenPullItself ==
  /\ harness = "live"
  /\ \E r \in Repos : Reaches(r) /\ pulls' = pulls \cup {r}
  /\ UNCHANGED <<repo, record, pc, sidecar, process, timer, reading, pending, clone, remote>>

HarnessEnds ==
  /\ harness \in {"live", "killed"} /\ harness' = "gone"
  /\ UNCHANGED <<repo, record, pc, sidecar, pipe, emitted, timer, reading, pending, clone, github>>

-----------------------------------------------------------------------------
(***************************************************************************)
(* Reading the stream.                                                     *)
(***************************************************************************)
Kill == harness' = IF harness = "live" THEN "killed" ELSE harness

(* Variant: the timeout only says so. *)
TimerOnlyLogs ==
  /\ pc \in {"stream", "push", "pull", "final"} /\ timer
  /\ timer' = FALSE
  /\ UNCHANGED <<repo, record, pc, sidecar, process, reading, pending, clone, github>>

TimerFires ==
  /\ pc \in {"stream", "push", "pull", "final"} /\ timer
  /\ timer' = FALSE /\ Kill
  /\ UNCHANGED <<repo, record, pc, sidecar, pipe, emitted, reading, pending, clone, github>>

(* A message is mirrored, then its tool calls pass the detector. *)
ReadMessage ==
  /\ pc = "stream" /\ pipe # <<>> /\ Head(pipe).kind = "message"
  /\ LET made == Head(pipe).calls
         n    == RecordedCalls(detector, made, Threshold)
         next == After(detector, made)[n]
     IN  /\ detector' = next
         /\ calls' = calls \o SubSeq(made, 1, n)
         /\ IF n > 0 /\ Tripped(next, Threshold)
            THEN stopped' = TRUE /\ Kill
            ELSE UNCHANGED <<stopped, harness>>
  /\ pipe' = Tail(pipe)
  /\ UNCHANGED <<repo, record, pc, sidecar, emitted, timer, terminal, said, pending, clone, github>>

ReadResult ==
  /\ pc = "stream" /\ pipe # <<>> /\ Head(pipe).kind = "result"
  /\ terminal' = IF Head(pipe).is = "error" THEN "failed" ELSE "completed"
  /\ said' = said \cup {Head(pipe).is}
  /\ pipe' = Tail(pipe)
  /\ UNCHANGED <<repo, record, pc, sidecar, harness, emitted, timer, stopped, detector, calls,
                 pending, clone, github>>

(* An event toMessage() trips over (content that is no list, a bare null)    *)
(* throws out of the loop: timer and harness live on, the result is lost.  *)
StreamThrows ==
  /\ Goto("stream", AfterTheRun)
  /\ pipe # <<>> /\ Head(pipe).kind = "odd"
  /\ pipe' = Tail(pipe)
  /\ terminal' = "failed" /\ said' = said \cup {"odd"}
  /\ UNCHANGED <<repo, record, sidecar, harness, emitted, timer, stopped, detector, calls, pending,
                 clone, github>>

(* Variant: our own reason first. *)
EndingStuckFirst == IF stopped THEN "stuck" ELSE IF terminal # "none" THEN terminal ELSE "failed"

(* The pipe closes: the exit code and the reason decide if no result did. *)
Ending == IF terminal # "none" THEN terminal ELSE IF stopped THEN "stuck" ELSE "failed"

StreamEnds ==
  /\ Goto("stream", AfterTheRun)
  /\ pipe = <<>> /\ harness = "gone"
  /\ timer' = FALSE
  /\ terminal' = Ending
  /\ UNCHANGED <<repo, record, sidecar, process, stopped, detector, calls, said, pending,
                 clone, github>>

-----------------------------------------------------------------------------
(***************************************************************************)
(* Afterwards: commit what is left, push, open the pull request, write.    *)
(***************************************************************************)
(* What is on HEAD once the uncommitted changes are committed. *)
Swept == IF dirty THEN [local EXCEPT ![head] = @ \cup {0}] ELSE local
(* Variant: counted before the sweep. *)
AheadUnswept == local[head] \ tracked
Ahead == Swept[head] \ tracked

Push ==
  /\ Goto("push", "pull")
  /\ Ahead # {} /\ Reaches(repo)
  /\ local' = Swept /\ dirty' = FALSE
  /\ remote' = Pushed(repo, {[ref |-> "self", delete |-> FALSE]}, Swept["run"])
  /\ tracked' = tracked \cup Swept["run"]
  /\ pending' = pending \cup {"pushed"}
  /\ UNCHANGED <<repo, record, sidecar, process, timer, reading, head, pulls>>

NothingToPush ==
  /\ Goto("push", "final")
  /\ Ahead = {}
  /\ local' = Swept /\ dirty' = FALSE
  /\ UNCHANGED <<repo, record, sidecar, process, timer, reading, pending, head, tracked, github>>

(* Any git command failed, the commit of what is left included. *)
PushFails ==
  /\ Goto("push", "final")
  /\ \/ UNCHANGED <<local, dirty>>
     \/ local' = Swept /\ dirty' = FALSE /\ Ahead # {}
  /\ pending' = pending \cup {"push failed"}
  /\ UNCHANGED <<repo, record, sidecar, process, timer, reading, head, tracked, github>>

OpenPull ==
  /\ Goto("pull", "final")
  /\ \/ /\ Reaches(repo)
        /\ pulls' = pulls \cup {repo} /\ pending' = pending \cup {"pull"}
     \/ UNCHANGED pulls /\ pending' = pending \cup {"pull failed"}
  /\ UNCHANGED <<repo, record, sidecar, process, timer, reading, clone, remote>>

(* The last write: status and output together, or the process dies of it. *)
Finish ==
  /\ \/ Goto("final", "exited") /\ status' = terminal /\ notes' = pending /\ harness' = "gone"
     \/ pc = "final" /\ Dies /\ UNCHANGED record
  /\ UNCHANGED <<repo, sidecar, pipe, emitted, timer, reading, pending, clone, github>>

(* The container is stopped at any point. *)
TaskStops ==
  /\ pc \notin {"exited", "died"} /\ Dies
  /\ UNCHANGED <<repo, record, sidecar, pipe, emitted, timer, reading, pending, clone, github>>

Harness == Emit \/ Edit \/ PushItself \/ OpenPullItself
Runner  == \/ Wait \/ Clone \/ MarkRunning \/ Spawn \/ SpawnThrows
           \/ ReadMessage \/ ReadResult \/ StreamThrows \/ StreamEnds
           \/ Push \/ NothingToPush \/ PushFails \/ OpenPull \/ Finish

Next == \/ SidecarStarts \/ TokenExpires \/ Harness \/ HarnessEnds \/ TimerFires
        \/ Runner \/ TaskStops

(* The runner and its timer are one event loop nothing blocks; a killed     *)
(* process ends.  What the harness does of itself is up to it.              *)
Fairness == WF_vars(Runner) /\ WF_vars(TimerFires) /\ WF_vars(HarnessEnds /\ harness = "killed")

Spec == Init /\ [][Next]_vars /\ Fairness

-----------------------------------------------------------------------------
TypeOK ==
  /\ repo \in RunRepos
  /\ status \in Ends \cup {"queued", "running"}
  /\ notes \cup pending \subseteq {"pushed", "push failed", "pull", "pull failed"}
  /\ pc \in Places
  /\ sidecar \in [up : BOOLEAN, token : Repos \cup {NoRepo}]
  /\ harness \in {"none", "live", "killed", "gone"}
  /\ pipe \in Seq(Events) /\ emitted \in 0..MaxEvents
  /\ timer \in BOOLEAN /\ stopped \in BOOLEAN
  /\ terminal \in Ends \cup {"none"}
  /\ detector \in [last : ToolCalls \cup {"none"}, count : Nat]
  /\ calls \in Seq(ToolCalls) /\ said \subseteq Results \cup {"odd"}
  /\ head \in Branches /\ local \in [Branches -> SUBSET (Commits \cup {0})]
  /\ dirty \in BOOLEAN /\ tracked \subseteq Commits \cup {0}
  /\ remote \in [Repos \X Refs -> SUBSET (Commits \cup {0})]
  /\ pulls \subseteq Repos

(***************************************************************************)
(* The loop detector's promise: the run is called stuck exactly for        *)
(* Threshold identical calls in a row, whatever messages they came in.     *)
(***************************************************************************)
DetectsSpinning ==
  /\ Tripped(detector, Threshold) <=> Spinning(calls, Threshold)
  /\ stopped <=> \E n \in 1..Len(calls) : Spinning(SubSeq(calls, 1, n), Threshold)

(***************************************************************************)
(* The recorded end is the harness's own word if it gave one before the    *)
(* pipe closed, and the runner's reason otherwise, killed or not; an event *)
(* the runner cannot read fails the run.                                   *)
(***************************************************************************)
EndIsExplained ==
  /\ status = "completed" => "ok" \in said /\ "odd" \notin said
  /\ status = "stuck" => stopped /\ said = {}
  /\ status = "failed" => {"error", "odd"} \cap said # {} \/ (~stopped /\ said = {})

(***************************************************************************)
(* The types, and: committed work of the run's branch is on the remote by the time the     *)
(* record is final, or the record says that the push failed.  (A harness   *)
(* that outlives its stream may commit after the push.)                    *)
(***************************************************************************)
WorkIsAccounted ==
  /\ TypeOK
  /\ (pc = "exited" /\ repo # NoRepo /\ head = "run" /\ "odd" \notin said) =>
       \/ "push failed" \in notes
       \/ ~dirty /\ local["run"] \subseteq remote[<<repo, "self">>] \cup remote[<<repo, "peer">>]

(***************************************************************************)
(* ADR-0034: whatever the harness asks of the sidecar, nothing outside the *)
(* run branches of the run's one repository is ever written.               *)
(***************************************************************************)
BlastRadius ==
  /\ \A r \in Repos, f \in Refs : remote[<<r, f>>] # {} => r = repo /\ f \in RunRefs
  /\ pulls \subseteq {repo}

(* ... and nothing written is taken back. *)
RefsStay       == \A x \in Repos \X Refs : remote[x] # {} => remote'[x] # {}
NothingDeleted == [][RefsStay]_vars

(* Both: what the harness may do to GitHub is add to its own run branches. *)
Confined == []BlastRadius /\ [][RefsStay]_vars

(***************************************************************************)
(* A run that was marked running gets a terminal status, however long the  *)
(* harness hangs, unless its container died.                               *)
(***************************************************************************)
RunEnds == (status = "running") ~> (status \in Ends \/ pc = "died")
===============================================================================
