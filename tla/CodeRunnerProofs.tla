--------------------------- MODULE CodeRunnerProofs ---------------------------
(***************************************************************************)
(* Theorems about the hosted claude-code run: whatever the harness asks of *)
(* the sidecar, only run branches of the run's repository are written and  *)
(* none is deleted, the recorded end is explained by what was read, the    *)
(* run is stopped exactly when it spins, and its work is accounted for.    *)
(***************************************************************************)
EXTENDS CodeRunner, TLAPS

-----------------------------------------------------------------------------
(* What BlastRadius rests on: the table keeps its shape and the repository  *)
(* of a run never changes, nor does a run without one reach any.            *)
GitHubInv ==
  /\ repo \in Repos \cup {NoRepo}
  /\ remote \in [Repos \X Refs -> SUBSET (Commits \cup {0})]
  /\ local \in [Branches -> SUBSET (Commits \cup {0})]
  /\ head \in Branches
  /\ BlastRadius

(* An accepted push writes run branches of the repository that is reached. *)
LEMMA PushStaysInside ==
  ASSUME NEW r \in Repos, NEW commands \in SUBSET [ref : Refs, delete : BOOLEAN],
         NEW commits \in SUBSET (Commits \cup {0}),
         GitHubInv, Reaches(r), AllowedPush(commands),
         remote' = Pushed(r, commands, commits)
  PROVE  /\ remote' \in [Repos \X Refs -> SUBSET (Commits \cup {0})]
         /\ \A x \in Repos, f \in Refs : remote'[<<x, f>>] # {} => x = repo /\ f \in RunRefs
<1>1. /\ r = repo
      /\ \A c \in commands : c.ref \in RunRefs /\ ~c.delete
  BY DEF Reaches, AllowedPush
<1>2. \A x \in Repos \X Refs :
        remote'[x] = IF x[1] = r /\ \E c \in commands : c.ref = x[2]
                     THEN remote[x] \cup commits ELSE remote[x]
  BY <1>1 DEF Pushed
<1>3. remote' \in [Repos \X Refs -> SUBSET (Commits \cup {0})]
  <2>1. \A x \in Repos \X Refs : remote[x] \in SUBSET (Commits \cup {0})
    BY DEF GitHubInv
  <2>2. \A x \in Repos \X Refs :
          (IF x[1] = r /\ \E c \in commands : c.ref = x[2]
           THEN IF \E c \in commands : c.ref = x[2] /\ c.delete THEN {} ELSE remote[x] \cup commits
           ELSE remote[x]) \in SUBSET (Commits \cup {0})
    BY <2>1
  <2> QED BY <2>2 DEF Pushed
<1>4. ASSUME NEW x \in Repos, NEW f \in Refs, remote'[<<x, f>>] # {}
      PROVE  x = repo /\ f \in RunRefs
  <2>1. <<x, f>> \in Repos \X Refs /\ <<x, f>>[1] = x /\ <<x, f>>[2] = f
    OBVIOUS
  <2>2. CASE x = r /\ \E c \in commands : c.ref = f
    BY <1>1, <2>2
  <2>3. CASE ~(x = r /\ \E c \in commands : c.ref = f)
    <3>1. remote'[<<x, f>>] = remote[<<x, f>>]
      BY <1>2, <2>1, <2>3
    <3> QED BY <3>1, <1>4 DEF GitHubInv, BlastRadius
  <2> QED BY <2>2, <2>3
<1> QED BY <1>3, <1>4

(* Committing what is left keeps the clone's branches what they are. *)
LEMMA SweptIsTyped ==
  ASSUME GitHubInv PROVE Swept \in [Branches -> SUBSET (Commits \cup {0})]
BY DEF GitHubInv, Swept, Branches

LEMMA GitHubStart == Init => GitHubInv
BY RunnerAssumption DEF Init, GitHubInv, BlastRadius, Branches

LEMMA GitHubStep == GitHubInv /\ [Next]_vars => GitHubInv'
<1> SUFFICES ASSUME GitHubInv, [Next]_vars PROVE GitHubInv'
  OBVIOUS
<1> USE DEF GitHubInv
<1>1. ASSUME UNCHANGED <<repo, clone, github>> PROVE GitHubInv'
  BY <1>1 DEF clone, github, BlastRadius
<1>2. CASE Edit
  <2>1. UNCHANGED <<repo, remote, pulls>>
    BY <1>2 DEF Edit, github
  <2>2. head' \in Branches
    BY <1>2 DEF Edit, Branches
  <2>3. local' \in [Branches -> SUBSET (Commits \cup {0})]
    BY <1>2 DEF Edit, Branches
  <2> QED BY <2>1, <2>2, <2>3 DEF BlastRadius
<1>3. CASE PushItself
  <2>1. PICK r \in Repos, b \in Branches, commands \in SUBSET [ref : Refs, delete : BOOLEAN] :
          /\ Reaches(r) /\ AllowedPush(commands)
          /\ remote' = Pushed(r, commands, local[b])
    BY <1>3 DEF PushItself
  <2>2. local[b] \in SUBSET (Commits \cup {0})
    OBVIOUS
  <2>3. UNCHANGED <<repo, local, head, pulls>>
    BY <1>3 DEF PushItself
  <2> QED BY <2>1, <2>2, <2>3, PushStaysInside DEF BlastRadius
<1>4. CASE OpenPullItself
  BY <1>4 DEF OpenPullItself, Reaches, BlastRadius, clone
<1>5. CASE Push
  <2>1. Reaches(repo) /\ repo \in Repos /\ UNCHANGED <<repo, head, pulls>> /\ local' = Swept
    BY <1>5 DEF Push, Reaches
  <2>2. AllowedPush({[ref |-> "self", delete |-> FALSE]})
    BY DEF AllowedPush, RunRefs
  <2>3. {[ref |-> "self", delete |-> FALSE]} \in SUBSET [ref : Refs, delete : BOOLEAN]
    BY DEF Refs
  <2>4. Swept["run"] \in SUBSET (Commits \cup {0})
    BY SweptIsTyped DEF Branches
  <2>5. remote' = Pushed(repo, {[ref |-> "self", delete |-> FALSE]}, Swept["run"])
    BY <1>5 DEF Push
  <2>6. /\ remote' \in [Repos \X Refs -> SUBSET (Commits \cup {0})]
        /\ \A x \in Repos, f \in Refs : remote'[<<x, f>>] # {} => x = repo /\ f \in RunRefs
    BY <2>1, <2>2, <2>3, <2>4, <2>5, PushStaysInside
  <2> QED BY <2>1, <2>6, SweptIsTyped DEF BlastRadius
<1>6. CASE NothingToPush
  BY <1>6, SweptIsTyped DEF NothingToPush, github, BlastRadius
<1>7. CASE PushFails
  BY <1>7, SweptIsTyped DEF PushFails, github, BlastRadius
<1>8. CASE OpenPull
  BY <1>8 DEF OpenPull, Reaches, clone, BlastRadius
<1> QED
  BY <1>1, <1>2, <1>3, <1>4, <1>5, <1>6, <1>7, <1>8
  DEF Next, Harness, Runner, vars, SidecarStarts, TokenExpires, Emit, HarnessEnds, TimerFires,
      Wait, Clone, MarkRunning, Spawn, SpawnThrows, ReadMessage, ReadResult, StreamThrows,
      StreamEnds, Finish, TaskStops

(* sidecar.ts, ADR-0034: for any repositories, harness and run, nothing is  *)
(* written outside the run branches of the run's one repository, and no     *)
(* pull request is opened on another.                                       *)
THEOREM BlastRadiusHolds == Spec => []BlastRadius
<1>1. GitHubInv => BlastRadius
  BY DEF GitHubInv
<1> QED BY GitHubStart, GitHubStep, <1>1, PTL DEF Spec

(* No request the sidecar lets through empties a ref that was written.      *)
LEMMA PushDeletesNothing ==
  ASSUME NEW r \in Repos, NEW commands \in SUBSET [ref : Refs, delete : BOOLEAN],
         NEW commits \in SUBSET (Commits \cup {0}),
         GitHubInv, AllowedPush(commands),
         remote' = Pushed(r, commands, commits)
  PROVE  \A x \in Repos \X Refs : remote[x] # {} => remote'[x] # {}
BY DEF Pushed, AllowedPush, GitHubInv

(* sidecar.ts denyReceivePack: what a ref was sent is never taken back.     *)
THEOREM NothingDeletedHolds == Spec => NothingDeleted
<1> DEFINE Kept == \A x \in Repos \X Refs : remote[x] # {} => remote'[x] # {}
<1>1. GitHubInv /\ [Next]_vars => Kept
  <2> SUFFICES ASSUME GitHubInv, [Next]_vars PROVE Kept
    OBVIOUS
  <2>1. ASSUME UNCHANGED remote PROVE Kept
    BY <2>1
  <2>2. CASE PushItself
    <3>1. PICK r \in Repos, b \in Branches, commands \in SUBSET [ref : Refs, delete : BOOLEAN] :
            /\ AllowedPush(commands)
            /\ remote' = Pushed(r, commands, local[b])
      BY <2>2 DEF PushItself
    <3>2. local[b] \in SUBSET (Commits \cup {0})
      BY DEF GitHubInv
    <3> QED BY <3>1, <3>2, PushDeletesNothing
  <2>3. CASE Push
    <3>1. repo \in Repos
      BY <2>3 DEF Push, Reaches, GitHubInv
    <3>2. AllowedPush({[ref |-> "self", delete |-> FALSE]})
      BY DEF AllowedPush, RunRefs
    <3>3. {[ref |-> "self", delete |-> FALSE]} \in SUBSET [ref : Refs, delete : BOOLEAN]
      BY DEF Refs
    <3>4. Swept["run"] \in SUBSET (Commits \cup {0})
      BY SweptIsTyped DEF Branches
    <3>5. remote' = Pushed(repo, {[ref |-> "self", delete |-> FALSE]}, Swept["run"])
      BY <2>3 DEF Push
    <3> QED BY <3>1, <3>2, <3>3, <3>4, <3>5, PushDeletesNothing
  <2> QED
    BY <2>1, <2>2, <2>3
    DEF Next, Harness, Runner, vars, clone, github, SidecarStarts, TokenExpires, Emit, Edit,
        OpenPullItself, HarnessEnds, TimerFires, Wait, Clone, MarkRunning, Spawn, SpawnThrows,
        ReadMessage, ReadResult, StreamThrows, StreamEnds, NothingToPush, PushFails, OpenPull,
        Finish, TaskStops
<1>2. GitHubInv /\ [Next]_vars => [RefsStay]_vars
  BY <1>1 DEF RefsStay
<1> QED BY GitHubStart, GitHubStep, <1>2, PTL DEF Spec, NothingDeleted

(* ADR-0034, in one statement: a harness can only add to its run branches.  *)
THEOREM ConfinedHolds == Spec => Confined
BY BlastRadiusHolds, NothingDeletedHolds, PTL DEF NothingDeleted, Confined

-----------------------------------------------------------------------------
(***************************************************************************)
(* The recorded end.                                                       *)
(***************************************************************************)
Explains(end) ==
  /\ end = "completed" => "ok" \in said /\ "odd" \notin said
  /\ end = "stuck" => stopped /\ said = {}
  /\ end = "failed" => {"error", "odd"} \cap said # {} \/ (~stopped /\ said = {})

(* Before the stream nothing was said; while it is read the end so far is   *)
(* the last result's; afterwards it is decided, and what was said is not    *)
(* added to; it is recorded as the runner's last act.                       *)
EndInv ==
  /\ pipe \in Seq(Events)
  /\ pc \in Places
  /\ status \in Ends => pc = "exited" /\ Explains(status)
  /\ pc \in {"wait", "clone", "start", "spawn"} => terminal = "none" /\ said = {} /\ ~stopped
  /\ pc = "stream" => /\ terminal \in {"none", "completed", "failed"}
                      /\ terminal = "none" <=> said = {}
                      /\ "odd" \notin said
                      /\ terminal = "failed" => "error" \in said
                      /\ Explains(IF terminal = "none" THEN "running" ELSE terminal)
  /\ pc \in {"push", "pull", "final"} => terminal \in Ends /\ Explains(terminal)

LEMMA EndStart == Init => EndInv
BY DEF Init, EndInv, Places, Ends

LEMMA EndStep == EndInv /\ [Next]_vars => EndInv'
<1> SUFFICES ASSUME EndInv, [Next]_vars PROVE EndInv'
  OBVIOUS
<1> USE DEF EndInv, Places, Ends, Explains
<1>1. ASSUME UNCHANGED <<status, pc, terminal, stopped, said>>, pipe' \in Seq(Events)
      PROVE  EndInv'
  BY <1>1
<1>2. CASE UNCHANGED vars \/ SidecarStarts \/ TokenExpires \/ Edit \/ PushItself \/ OpenPullItself
           \/ HarnessEnds \/ TimerFires
  BY <1>1, <1>2 DEF vars, record, process, reading, SidecarStarts, TokenExpires, Edit, PushItself,
     OpenPullItself, HarnessEnds, TimerFires
<1>3. CASE Emit
  <2>1. PICK e \in Events : pipe' = Append(pipe, e)
    BY <1>3 DEF Emit
  <2>2. pipe' \in Seq(Events)
    BY <2>1
  <2> QED BY <1>1, <1>3, <2>2 DEF Emit, record, reading
<1>4. CASE TaskStops
  BY <1>4 DEF TaskStops, Dies, record, reading
<1>5. CASE Wait
  BY <1>5 DEF Wait, Goto, Dies, record, reading
<1>6. CASE Clone
  BY <1>6 DEF Clone, Goto, Dies, record, reading
<1>7. CASE MarkRunning
  BY <1>7 DEF MarkRunning, Goto, Dies, reading
<1>8. CASE Spawn
  BY <1>8 DEF Spawn, Goto, record, reading
<1>9. CASE SpawnThrows
  BY <1>9 DEF SpawnThrows, Goto, AfterTheRun, record, process
<1>10. CASE ReadMessage
  <2>1. /\ pc = "stream" /\ pipe # <<>> /\ pipe' = Tail(pipe)
        /\ UNCHANGED <<pc, terminal, said, status>>
    BY <1>10 DEF ReadMessage, record
  <2>2. pipe' \in Seq(Events)
    BY <2>1
  <2> QED BY <2>1, <2>2
<1>11. CASE ReadResult
  <2>1. /\ pc = "stream" /\ pipe # <<>> /\ Head(pipe).kind = "result" /\ pipe' = Tail(pipe)
        /\ terminal' = IF Head(pipe).is = "error" THEN "failed" ELSE "completed"
        /\ said' = said \cup {Head(pipe).is}
        /\ UNCHANGED <<pc, status, stopped>>
    BY <1>11 DEF ReadResult, record
  <2>2. pipe' \in Seq(Events)
    BY <2>1
  <2>3. Head(pipe) \in Events
    BY <2>1
  <2>4. Head(pipe).is \in Results
    BY <2>1, <2>3 DEF Events
  <2> QED BY <2>1, <2>2, <2>4 DEF Results
<1>12. CASE StreamThrows
  <2>1. pipe' \in Seq(Events)
    BY <1>12 DEF StreamThrows
  <2> QED BY <1>12, <2>1 DEF StreamThrows, Goto, AfterTheRun, record
<1>13. CASE StreamEnds
  BY <1>13 DEF StreamEnds, Goto, AfterTheRun, Ending, record, process
<1>14. CASE Push \/ NothingToPush \/ PushFails \/ OpenPull
  <2>1. /\ pc \in {"push", "pull"} /\ pc' \in {"pull", "final"}
        /\ UNCHANGED <<status, terminal, stopped, said, pipe>>
    BY <1>14 DEF Push, NothingToPush, PushFails, OpenPull, Goto, record, reading, process
  <2> QED BY <2>1
<1>15. CASE Finish
  BY <1>15 DEF Finish, Goto, Dies, reading, record
<1> QED
  BY <1>2, <1>3, <1>4, <1>5, <1>6, <1>7, <1>8, <1>9, <1>10, <1>11, <1>12, <1>13, <1>14, <1>15
  DEF Next, Harness, Runner

(* task.ts: whatever the harness writes, and whoever kills it, the recorded *)
(* status is the harness's word if it gave one that could be read, and the  *)
(* runner's own reason otherwise.                                           *)
THEOREM EndIsExplainedHolds == Spec => []EndIsExplained
<1>1. EndInv => EndIsExplained
  BY DEF EndInv, EndIsExplained, Explains, Ends
<1> QED BY EndStart, EndStep, <1>1, PTL DEF Spec

-----------------------------------------------------------------------------
(***************************************************************************)
(* The loop detector.  Its count is the length of the run of equal calls   *)
(* that what was recorded ends in.                                         *)
(***************************************************************************)
(* The last n calls are c, and the one before them is another. *)
EndsIn(made, c, n) ==
  /\ n \in 0..Len(made)
  /\ \A i \in Len(made) - n + 1 .. Len(made) : made[i] = c
  /\ n < Len(made) => made[Len(made) - n] # c

Counts(d, made) ==
  /\ d = [last |-> d.last, count |-> d.count]
  /\ EndsIn(made, d.last, d.count)
  /\ d.last \in ToolCalls \cup {"none"}
  /\ d.count = 0 <=> made = <<>>

(* Some prefix of what was recorded spun. *)
HasSpun(made) == \E n \in 1..Len(made) : Spinning(SubSeq(made, 1, n), Threshold)

LEMMA FreshCounts == Counts(Fresh, <<>>)
BY DEF Counts, Fresh, EndsIn

(* The detector trips exactly when the calls spin. *)
LEMMA TripsOnSpinning ==
  ASSUME NEW d, NEW made \in Seq(ToolCalls), Counts(d, made)
  PROVE  Tripped(d, Threshold) <=> Spinning(made, Threshold)
<1> DEFINE len == Len(made)
           n   == d.count
<1>1. /\ n \in 0..len /\ len \in Nat /\ Threshold \in Nat /\ Threshold >= 2
      /\ \A i \in len - n + 1 .. len : made[i] = d.last
      /\ n < len => made[len - n] # d.last
      /\ n = 0 <=> made = <<>>
  BY RunnerAssumption DEF Counts, EndsIn
<1> HIDE DEF n
<1>2. ASSUME n >= Threshold PROVE Spinning(made, Threshold)
  <2>1. len >= Threshold /\ made[len] = d.last
    BY <1>1, <1>2
  <2>2. ASSUME NEW i \in len - Threshold + 1 .. len PROVE made[i] = made[len]
    BY <1>1, <1>2, <2>1
  <2> QED BY <2>1, <2>2 DEF Spinning
<1>3. ASSUME Spinning(made, Threshold) PROVE n >= Threshold
  <2>1. /\ len >= Threshold
        /\ \A i \in len - Threshold + 1 .. len : made[i] = made[len]
    BY <1>3 DEF Spinning
  <2>2. SUFFICES ASSUME n < Threshold PROVE FALSE
    BY <1>1
  <2>3. made # <<>> /\ n > 0
    BY <1>1, <2>1
  <2>4. made[len] = d.last
    BY <1>1, <2>3
  <2>5. len - n \in len - Threshold + 1 .. len
    BY <1>1, <2>1, <2>2, <2>3
  <2>6. made[len - n] # d.last
    BY <1>1, <2>1, <2>2
  <2> QED BY <2>1, <2>4, <2>5, <2>6
<1> QED BY <1>2, <1>3 DEF Tripped, n

(* One more call is recorded. *)
LEMMA OneMoreCall ==
  ASSUME NEW d, NEW made \in Seq(ToolCalls), Counts(d, made), NEW c \in ToolCalls
  PROVE  /\ Append(made, c) \in Seq(ToolCalls)
         /\ Counts(Recorded(d, c), Append(made, c))
         /\ HasSpun(Append(made, c)) <=> HasSpun(made) \/ Tripped(Recorded(d, c), Threshold)
<1> DEFINE more == Append(made, c)
           len  == Len(made)
           e    == Recorded(d, c)
<1>1. /\ more \in Seq(ToolCalls) /\ len \in Nat /\ Len(more) = len + 1
      /\ more[len + 1] = c /\ \A i \in 1..len : more[i] = made[i]
  OBVIOUS
<1>2. /\ d.count \in 0..len
      /\ \A i \in len - d.count + 1 .. len : made[i] = d.last
      /\ d.count < len => made[len - d.count] # d.last
      /\ d.count = 0 <=> made = <<>>
  BY DEF Counts, EndsIn
<1>3. e.last = c /\ e = [last |-> e.last, count |-> e.count]
      /\ e.count = IF c = d.last THEN d.count + 1 ELSE 1
  BY DEF Recorded
<1> HIDE DEF more, e
<1>4. Counts(e, more)
  <2>1. CASE c = d.last
    <3>1. e.count = d.count + 1 /\ e.count \in 1..len + 1
      BY <1>2, <1>3, <2>1
    <3>2. ASSUME NEW i \in (len + 1) - e.count + 1 .. len + 1 PROVE more[i] = c
      <4>1. i = len + 1 \/ (i \in len - d.count + 1 .. len /\ i \in 1..len)
        BY <1>1, <1>2, <3>1
      <4> QED BY <1>1, <1>2, <2>1, <4>1
    <3>3. ASSUME e.count < len + 1 PROVE more[(len + 1) - e.count] # c
      <4>1. (len + 1) - e.count = len - d.count /\ len - d.count \in 1..len /\ d.count < len
        BY <1>2, <3>1, <3>3
      <4> QED BY <1>1, <1>2, <2>1, <4>1
    <3> QED BY <1>1, <1>3, <3>1, <3>2, <3>3 DEF Counts, EndsIn
  <2>2. CASE c # d.last
    <3>1. e.count = 1
      BY <1>3, <2>2
    <3>2. ASSUME 1 < len + 1 PROVE more[(len + 1) - 1] # c
      <4>1. made # <<>> /\ d.count # 0
        BY <1>2, <3>2
      <4>2. made[len] = d.last
        BY <1>2, <4>1
      <4> QED BY <1>1, <2>2, <3>2, <4>2
    <3> QED BY <1>1, <1>3, <3>1, <3>2 DEF Counts, EndsIn
  <2> QED BY <2>1, <2>2
<1>5. HasSpun(more) <=> HasSpun(made) \/ Spinning(more, Threshold)
  <2>1. \A n \in 1..len : SubSeq(more, 1, n) = SubSeq(made, 1, n)
    BY <1>1 DEF more
  <2>2. SubSeq(more, 1, len + 1) = more
    BY <1>1
  <2>3. \A n \in 1..len + 1 : n = len + 1 \/ n \in 1..len
    BY <1>1
  <2>4. len + 1 \in 1..len + 1 /\ 1..len \subseteq 1..len + 1
    BY <1>1
  <2> QED BY <1>1, <2>1, <2>2, <2>3, <2>4 DEF HasSpun
<1>6. Tripped(e, Threshold) <=> Spinning(more, Threshold)
  BY <1>1, <1>4, TripsOnSpinning
<1> QED BY <1>1, <1>4, <1>5, <1>6 DEF more, e

(* What a message's calls, at most two of them, make of the detector.       *)
LEMMA AfterNone == ASSUME NEW d PROVE After(d, <<>>)[0] = d
<1> DEFINE made == <<>>
           IsAfter(f) == f = [i \in 0..Len(made) |-> IF i = 0 THEN d ELSE Recorded(f[i - 1], made[i])]
           g == [i \in 0..0 |-> d]
<1>1. 0..Len(made) = 0..0
  OBVIOUS
<1>2. IsAfter(g)
  BY <1>1
<1>3. IsAfter(CHOOSE f : IsAfter(f))
  BY <1>2
<1>4. After(d, made) = CHOOSE f : IsAfter(f)
  BY DEF After
<1> QED BY <1>1, <1>3, <1>4

LEMMA AfterOne ==
  ASSUME NEW d, NEW c
  PROVE  After(d, <<c>>)[0] = d /\ After(d, <<c>>)[1] = Recorded(d, c)
<1> DEFINE made == <<c>>
           IsAfter(f) == f = [i \in 0..Len(made) |-> IF i = 0 THEN d ELSE Recorded(f[i - 1], made[i])]
           g == [i \in 0..1 |-> IF i = 0 THEN d ELSE Recorded(d, c)]
<1>1. 0..Len(made) = 0..1 /\ made[1] = c
  OBVIOUS
<1>2. IsAfter(g)
  <2>1. \A i \in 0..1 : g[i] = IF i = 0 THEN d ELSE Recorded(g[i - 1], made[i])
    BY <1>1
  <2> QED BY <1>1, <2>1
<1>3. IsAfter(CHOOSE f : IsAfter(f))
  BY <1>2
<1>4. After(d, made) = CHOOSE f : IsAfter(f)
  BY DEF After
<1>5. PICK f : f = After(d, made)
  OBVIOUS
<1>6. f = [i \in 0..1 |-> IF i = 0 THEN d ELSE Recorded(f[i - 1], made[i])]
  BY <1>1, <1>3, <1>4, <1>5
<1>7. f[0] = d
  BY <1>6
<1>8. f[1] = Recorded(f[0], c)
  BY <1>1, <1>6
<1> QED BY <1>5, <1>7, <1>8

LEMMA AfterTwo ==
  ASSUME NEW d, NEW c, NEW b
  PROVE  /\ After(d, <<c, b>>)[0] = d /\ After(d, <<c, b>>)[1] = Recorded(d, c)
         /\ After(d, <<c, b>>)[2] = Recorded(Recorded(d, c), b)
<1> DEFINE made == <<c, b>>
           IsAfter(f) == f = [i \in 0..Len(made) |-> IF i = 0 THEN d ELSE Recorded(f[i - 1], made[i])]
           g == [i \in 0..2 |-> IF i = 0 THEN d ELSE IF i = 1 THEN Recorded(d, c) ELSE Recorded(Recorded(d, c), b)]
<1>1. 0..Len(made) = 0..2 /\ made[1] = c /\ made[2] = b
  OBVIOUS
<1>2. IsAfter(g)
  <2>1. \A i \in 0..2 : g[i] = IF i = 0 THEN d ELSE Recorded(g[i - 1], made[i])
    BY <1>1
  <2> QED BY <1>1, <2>1
<1>3. IsAfter(CHOOSE f : IsAfter(f))
  BY <1>2
<1>4. After(d, made) = CHOOSE f : IsAfter(f)
  BY DEF After
<1>5. PICK f : f = After(d, made)
  OBVIOUS
<1>6. f = [i \in 0..2 |-> IF i = 0 THEN d ELSE Recorded(f[i - 1], made[i])]
  BY <1>1, <1>3, <1>4, <1>5
<1>7. f[0] = d
  BY <1>6
<1>8. f[1] = Recorded(f[0], c)
  BY <1>1, <1>6
<1>9. f[2] = Recorded(f[1], b)
  BY <1>1, <1>6
<1> QED BY <1>5, <1>7, <1>8, <1>9

(* What the runner makes of a message: calls are recorded one by one up to   *)
(* the one that trips.                                                       *)
HeardOut(d, made, n) ==
  /\ n \in 0..Len(made)
  /\ \A i \in 1..n - 1 : ~Tripped(After(d, made)[i], Threshold)
  /\ n = Len(made) \/ (n > 0 /\ Tripped(After(d, made)[n], Threshold))

Messages == {<<>>} \cup {<<c>> : c \in ToolCalls} \cup (ToolCalls \X ToolCalls)

(* One message more.                                                         *)
LEMMA OneMoreMessage ==
  ASSUME NEW d, NEW made \in Seq(ToolCalls), Counts(d, made), NEW message \in Messages
  PROVE  LET n    == RecordedCalls(d, message, Threshold)
             next == After(d, message)[n]
             more == made \o SubSeq(message, 1, n)
         IN  /\ more \in Seq(ToolCalls) /\ Counts(next, more)
             /\ HasSpun(more) <=> HasSpun(made) \/ (n > 0 /\ Tripped(next, Threshold))
<1> DEFINE n    == RecordedCalls(d, message, Threshold)
           next == After(d, message)[n]
           more == made \o SubSeq(message, 1, n)
           Goal == /\ more \in Seq(ToolCalls) /\ Counts(next, more)
                   /\ HasSpun(more) <=> HasSpun(made) \/ (n > 0 /\ Tripped(next, Threshold))
<1>1. ASSUME NEW k, HeardOut(d, message, k) PROVE HeardOut(d, message, n)
  BY <1>1 DEF HeardOut, RecordedCalls
<1>2. ASSUME message = <<>> PROVE Goal
  <2>1. Len(message) = 0
    BY <1>2
  <2>2. HeardOut(d, message, 0)
    BY <2>1 DEF HeardOut
  <2>3. n = 0
    BY <1>1, <2>1, <2>2 DEF HeardOut
  <2>4. more = made /\ next = d
    BY <1>2, <2>3, AfterNone
  <2> HIDE DEF n, next, more
  <2> QED BY <2>3, <2>4
<1>3. ASSUME NEW c \in ToolCalls, message = <<c>> PROVE Goal
  <2>1. Len(message) = 1
    BY <1>3
  <2>2. HeardOut(d, message, 1)
    BY <2>1 DEF HeardOut
  <2>3. \A k : HeardOut(d, message, k) => k = 1
    BY <2>1 DEF HeardOut
  <2>4. n = 1
    BY <1>1, <2>2, <2>3
  <2>5. more = Append(made, c) /\ next = Recorded(d, c)
    BY <1>3, <2>4, AfterOne
  <2> HIDE DEF n, next, more
  <2> QED BY <2>4, <2>5, OneMoreCall
<1>4. ASSUME NEW c \in ToolCalls, NEW b \in ToolCalls, message = <<c, b>> PROVE Goal
  <2> DEFINE e == Recorded(d, c)
  <2>1. Len(message) = 2 /\ message[1] = c /\ message[2] = b
    BY <1>4
  <2>2. After(d, message)[1] = e /\ After(d, message)[2] = Recorded(e, b)
    BY <1>4, AfterTwo
  <2>3. /\ Append(made, c) \in Seq(ToolCalls) /\ Counts(e, Append(made, c))
        /\ HasSpun(Append(made, c)) <=> HasSpun(made) \/ Tripped(e, Threshold)
    BY OneMoreCall
  <2> HIDE DEF e
  <2>4. CASE Tripped(e, Threshold)
    <3>1. HeardOut(d, message, 1)
      BY <2>1, <2>2, <2>4 DEF HeardOut
    <3>2. HeardOut(d, message, n)
      BY <1>1, <3>1
    <3>3. n \in 0..2 /\ n # 0 /\ n # 2
      BY <2>1, <2>2, <2>4, <3>2 DEF HeardOut
    <3>4. n = 1
      BY <3>3
    <3>5. more = Append(made, c) /\ next = e
      BY <1>4, <2>2, <3>4
    <3> HIDE DEF n, next, more
    <3> QED BY <2>3, <3>4, <3>5
  <2>5. CASE ~Tripped(e, Threshold)
    <3>1. HeardOut(d, message, 2)
      BY <2>1, <2>2, <2>5 DEF HeardOut
    <3>2. HeardOut(d, message, n)
      BY <1>1, <3>1
    <3>3. n \in 0..2 /\ n # 0 /\ n # 1
      BY <2>1, <2>2, <2>5, <3>2 DEF HeardOut
    <3>4. n = 2
      BY <3>3
    <3>5. SubSeq(message, 1, 2) = <<c, b>>
      <4>1. message \in Seq(ToolCalls)
        BY <1>4
      <4>2. SubSeq(message, 1, Len(message)) = message
        BY <4>1
      <4> QED BY <1>4, <2>1, <4>2
    <3>6. made \o <<c, b>> = Append(Append(made, c), b)
      OBVIOUS
    <3>7. more = Append(Append(made, c), b) /\ next = Recorded(e, b)
      BY <2>2, <3>4, <3>5, <3>6
    <3> HIDE DEF n, next, more
    <3>8. /\ Append(Append(made, c), b) \in Seq(ToolCalls)
          /\ Counts(Recorded(e, b), Append(Append(made, c), b))
          /\ HasSpun(Append(Append(made, c), b)) <=>
               HasSpun(Append(made, c)) \/ Tripped(Recorded(e, b), Threshold)
      BY <2>3, OneMoreCall
    <3> QED BY <2>3, <2>5, <3>4, <3>7, <3>8
  <2> QED BY <2>4, <2>5
<1>5. \/ message = <<>> \/ \E c \in ToolCalls : message = <<c>>
      \/ \E c \in ToolCalls, b \in ToolCalls : message = <<c, b>>
  BY DEF Messages
<1> HIDE DEF n, next, more
<1>6. Goal
  BY <1>2, <1>3, <1>4, <1>5
<1> QED BY <1>6 DEF n, next, more

(***************************************************************************)
(* What was heard is what is counted, and the runner stopped for it.       *)
(***************************************************************************)
DetectorInv ==
  /\ pipe \in Seq(Events)
  /\ calls \in Seq(ToolCalls)
  /\ Counts(detector, calls)
  /\ stopped \in BOOLEAN
  /\ stopped = TRUE <=> HasSpun(calls)

LEMMA DetectorStart == Init => DetectorInv
<1> SUFFICES ASSUME Init PROVE DetectorInv
  OBVIOUS
<1>1. calls = <<>> /\ detector = Fresh /\ stopped = FALSE /\ pipe = <<>>
  BY DEF Init
<1>2. ~HasSpun(<<>>)
  BY DEF HasSpun
<1>3. ~HasSpun(calls) /\ Counts(detector, calls)
  BY <1>1, <1>2, FreshCounts
<1>4. pipe \in Seq(Events) /\ calls \in Seq(ToolCalls) /\ stopped = FALSE
  BY <1>1
<1> QED BY <1>3, <1>4 DEF DetectorInv

LEMMA DetectorStep == DetectorInv /\ [Next]_vars => DetectorInv'
<1> SUFFICES ASSUME DetectorInv, [Next]_vars PROVE DetectorInv'
  OBVIOUS
<1>1. ASSUME UNCHANGED <<stopped, detector, calls>>, pipe' \in Seq(Events)
      PROVE  DetectorInv'
  BY <1>1 DEF DetectorInv
<1>2. CASE Emit
  <2>1. PICK e \in Events : pipe' = Append(pipe, e)
    BY <1>2 DEF Emit
  <2>2. pipe' \in Seq(Events)
    BY <2>1 DEF DetectorInv
  <2> QED BY <1>1, <1>2, <2>2 DEF Emit, reading
<1>3. CASE ReadMessage
  <2> DEFINE made == Head(pipe).calls
             n    == RecordedCalls(detector, made, Threshold)
             next == After(detector, made)[n]
             more == calls \o SubSeq(made, 1, n)
             trip == n > 0 /\ Tripped(next, Threshold)
  <2>1. pipe # <<>> /\ Head(pipe).kind = "message" /\ pipe' = Tail(pipe)
    BY <1>3 DEF ReadMessage
  <2>2. Head(pipe) \in Events /\ pipe' \in Seq(Events)
    BY <2>1 DEF DetectorInv
  <2>3. made \in Messages
    BY <2>1, <2>2 DEF Events, Messages
  <2>4. more \in Seq(ToolCalls) /\ Counts(next, more) /\ (HasSpun(more) <=> HasSpun(calls) \/ trip)
    BY <2>3, OneMoreMessage DEF DetectorInv
  <2>5. /\ detector' = next /\ calls' = more
        /\ IF trip THEN stopped' = TRUE ELSE stopped' = stopped
    BY <1>3 DEF ReadMessage
  <2> HIDE DEF next, more, trip
  <2> QED BY <2>2, <2>4, <2>5 DEF DetectorInv
<1>4. ASSUME UNCHANGED <<stopped, detector, calls>>, UNCHANGED pipe \/ (pipe # <<>> /\ pipe' = Tail(pipe))
      PROVE  DetectorInv'
  BY <1>1, <1>4 DEF DetectorInv
<1>5. CASE Wait \/ Clone \/ MarkRunning \/ Spawn \/ SpawnThrows \/ ReadResult \/ StreamThrows
           \/ StreamEnds \/ Push \/ NothingToPush \/ PushFails \/ OpenPull \/ Finish
  BY <1>4, <1>5 DEF Wait, Clone, MarkRunning, Spawn, SpawnThrows, ReadResult, StreamThrows,
     StreamEnds, Push, NothingToPush, PushFails, OpenPull, Finish, reading, process
<1>6. CASE UNCHANGED vars \/ SidecarStarts \/ TokenExpires \/ Edit \/ PushItself \/ OpenPullItself
           \/ HarnessEnds \/ TimerFires \/ TaskStops
  BY <1>4, <1>6 DEF vars, SidecarStarts, TokenExpires, Edit, PushItself, OpenPullItself,
     HarnessEnds, TimerFires, TaskStops, reading, process
<1> QED BY <1>2, <1>3, <1>5, <1>6 DEF Next, Harness, Runner

(* loop-detector.ts, task.ts: for any tool calls and any threshold, the run  *)
(* is stopped as stuck exactly when that many equal calls followed one       *)
(* another, in one message or several.                                       *)
THEOREM DetectsSpinningHolds == Spec => []DetectsSpinning
<1>1. DetectorInv => DetectsSpinning
  <2> SUFFICES ASSUME DetectorInv PROVE DetectsSpinning
    OBVIOUS
  <2>1. Tripped(detector, Threshold) <=> Spinning(calls, Threshold)
    BY TripsOnSpinning DEF DetectorInv
  <2>2. stopped <=> \E n \in 1..Len(calls) : Spinning(SubSeq(calls, 1, n), Threshold)
    BY DEF DetectorInv, HasSpun
  <2> QED BY <2>1, <2>2 DEF DetectsSpinning
<1> QED BY DetectorStart, DetectorStep, <1>1, PTL DEF Spec

-----------------------------------------------------------------------------
(***************************************************************************)
(* The work.  What the clone believes pushed is on the remote; nobody else *)
(* is at the clone once the stream has ended, unless it ended in an event  *)
(* that could not be read; and what the runner says of the push is so.     *)
(***************************************************************************)
Sent == remote[<<repo, "self">>] \cup remote[<<repo, "peer">>]

AllSent == ~dirty /\ local["run"] \subseteq Sent

WorkInv ==
  /\ tracked \subseteq Commits \cup {0}
  /\ dirty \in BOOLEAN
  /\ repo \in Repos => tracked \subseteq Sent
  /\ pc \in {"wait", "clone", "start", "spawn"} => harness = "none"
  /\ pc \in {"push", "pull", "final", "exited"} /\ "odd" \notin said => harness \in {"none", "gone"}
  /\ pc = "pull" /\ head = "run" /\ "odd" \notin said => AllSent
  /\ pc = "final" /\ repo # NoRepo /\ head = "run" /\ "odd" \notin said =>
       "push failed" \in pending \/ AllSent
  /\ pc = "exited" /\ repo # NoRepo /\ head = "run" /\ "odd" \notin said =>
       "push failed" \in notes \/ AllSent

LEMMA WorkStart == Init => WorkInv
BY DEF Init, WorkInv

(* A push that is let through is seen on the remote. *)
LEMMA PushArrives ==
  ASSUME GitHubInv, repo \in Repos, NEW commands \in SUBSET [ref : Refs, delete : BOOLEAN],
         AllowedPush(commands), NEW commits \in SUBSET (Commits \cup {0}),
         remote' = Pushed(repo, commands, commits), repo' = repo
  PROVE  Sent' = Sent \cup commits
<1>1. \A x \in Repos \X Refs :
        remote'[x] = IF x[1] = repo /\ \E c \in commands : c.ref = x[2]
                     THEN remote[x] \cup commits ELSE remote[x]
  BY DEF AllowedPush, Pushed
<1>2. \E c \in commands : c.ref \in RunRefs
  BY DEF AllowedPush
<1>3. <<repo, "self">> \in Repos \X Refs /\ <<repo, "peer">> \in Repos \X Refs
  BY DEF Refs
<1>4. /\ remote'[<<repo, "self">>] = IF \E c \in commands : c.ref = "self"
                                     THEN remote[<<repo, "self">>] \cup commits
                                     ELSE remote[<<repo, "self">>]
      /\ remote'[<<repo, "peer">>] = IF \E c \in commands : c.ref = "peer"
                                     THEN remote[<<repo, "peer">>] \cup commits
                                     ELSE remote[<<repo, "peer">>]
  BY <1>1, <1>3
<1> QED BY <1>2, <1>4 DEF Sent, RunRefs

(* The runner's own push is one the sidecar lets through. *)
LEMMA OwnPush ==
  LET commands == {[ref |-> "self", delete |-> FALSE]}
  IN  AllowedPush(commands) /\ commands \in SUBSET [ref : Refs, delete : BOOLEAN]
BY DEF AllowedPush, RunRefs, Refs

LEMMA WorkStep == GitHubInv /\ WorkInv /\ [Next]_vars => WorkInv'
<1> SUFFICES ASSUME GitHubInv, WorkInv, [Next]_vars PROVE WorkInv'
  OBVIOUS
<1> USE DEF WorkInv
<1>1. ASSUME UNCHANGED <<repo, pc, harness, said, clone, remote, pending, notes>> PROVE WorkInv'
  BY <1>1 DEF clone, Sent, AllSent
<1>2. ASSUME UNCHANGED <<repo, clone, remote>>, pc' = "died" PROVE WorkInv'
  BY <1>2 DEF clone, Sent
<1>3. CASE UNCHANGED vars \/ SidecarStarts \/ TokenExpires \/ Emit \/ OpenPullItself \/ ReadMessage
  <2>1. CASE ReadMessage
    <3>1. UNCHANGED <<repo, pc, said, clone, remote, pending, notes>> /\ pc = "stream"
      BY <2>1 DEF ReadMessage, record, github
    <3> QED BY <3>1 DEF clone, Sent, AllSent
  <2> QED BY <1>1, <1>3, <2>1 DEF vars, SidecarStarts, TokenExpires, Emit, OpenPullItself, record,
             process, reading, github
<1>4. CASE HarnessEnds \/ TimerFires
  <2>1. UNCHANGED <<repo, pc, said, clone, remote, pending, notes>>
    BY <1>4 DEF HarnessEnds, TimerFires, record, reading, github
  <2>2. harness' \in {"gone", "killed", harness} /\ (harness' # harness => harness \in {"live", "killed"})
    BY <1>4 DEF HarnessEnds, TimerFires, Kill
  <2> QED BY <2>1, <2>2 DEF clone, Sent, AllSent
<1>5. CASE Edit
  <2>1. UNCHANGED <<repo, pc, harness, said, remote, pending, notes, tracked>> /\ harness = "live"
    BY <1>5 DEF Edit, record, reading, process, github
  <2>2. dirty' \in BOOLEAN
    BY <1>5 DEF Edit
  <2> QED BY <2>1, <2>2 DEF Sent
<1>6. CASE PushItself
  <2>1. PICK r \in Repos, b \in Branches, commands \in SUBSET [ref : Refs, delete : BOOLEAN] :
          /\ Reaches(r) /\ AllowedPush(commands)
          /\ remote' = Pushed(r, commands, local[b])
          /\ tracked' = tracked \cup local[b]
    BY <1>6 DEF PushItself
  <2>2. /\ r = repo /\ repo \in Repos /\ local[b] \in SUBSET (Commits \cup {0})
        /\ UNCHANGED <<repo, pc, harness, said, pending, notes, local, head, dirty>> /\ harness = "live"
    BY <1>6, <2>1 DEF Reaches, GitHubInv, PushItself, record, process, reading
  <2>3. Sent' = Sent \cup local[b]
    BY <2>1, <2>2, PushArrives
  <2> QED BY <2>1, <2>2, <2>3
<1>7. CASE Wait \/ Clone \/ MarkRunning \/ Spawn \/ SpawnThrows
  <2>1. UNCHANGED <<repo, clone, remote, said>> /\ pc \in {"wait", "clone", "start", "spawn"}
    BY <1>7 DEF Wait, Clone, MarkRunning, Spawn, SpawnThrows, Goto, reading, github
  <2>2. \/ pc' = "died"
        \/ pc' \in {"clone", "start", "spawn"} /\ UNCHANGED harness
        \/ pc' = "stream"
        \/ pc' = AfterTheRun /\ UNCHANGED harness
    BY <1>7 DEF Wait, Clone, MarkRunning, Spawn, SpawnThrows, Goto, Dies, process
  <2> QED BY <2>1, <2>2 DEF clone, Sent, AllSent, AfterTheRun
<1>8. CASE ReadResult \/ StreamThrows \/ StreamEnds
  <2>1. UNCHANGED <<repo, clone, remote, harness>> /\ pc = "stream"
    BY <1>8 DEF ReadResult, StreamThrows, StreamEnds, Goto, github, process
  <2>2. CASE ReadResult
    BY <2>1, <2>2 DEF ReadResult, clone, Sent
  <2>3. CASE StreamThrows
    BY <2>1, <2>3 DEF StreamThrows, Goto, AfterTheRun, clone, Sent
  <2>4. CASE StreamEnds
    BY <2>1, <2>4 DEF StreamEnds, Goto, AfterTheRun, clone, Sent
  <2> QED BY <1>8, <2>2, <2>3, <2>4
<1>9. CASE Push
  <2> DEFINE commits == Swept["run"]
  <2>1. /\ pc = "push" /\ pc' = "pull" /\ Reaches(repo) /\ repo \in Repos
        /\ local' = Swept /\ dirty' = FALSE /\ tracked' = tracked \cup commits
        /\ remote' = Pushed(repo, {[ref |-> "self", delete |-> FALSE]}, commits)
        /\ UNCHANGED <<repo, harness, said, head>>
    BY <1>9 DEF Push, Reaches, Goto, process, reading, GitHubInv
  <2>2. commits \in SUBSET (Commits \cup {0})
    BY SweptIsTyped DEF Branches
  <2>3. Sent' = Sent \cup commits
    BY <2>1, <2>2, OwnPush, PushArrives
  <2>4. local'["run"] = commits
    BY <2>1
  <2>5. AllSent'
    BY <2>1, <2>3, <2>4 DEF AllSent
  <2> HIDE DEF commits
  <2> QED BY <2>1, <2>2, <2>3, <2>5
<1>10. CASE NothingToPush \/ PushFails
  <2>1. /\ pc = "push" /\ pc' = "final" /\ UNCHANGED <<repo, harness, said, head, tracked, remote>>
        /\ dirty' \in BOOLEAN
    BY <1>10 DEF NothingToPush, PushFails, Goto, process, reading, github
  <2>2. Sent' = Sent
    BY <2>1 DEF Sent
  <2>3. CASE PushFails
    BY <2>1, <2>2, <2>3 DEF PushFails
  <2>4. CASE NothingToPush
    <3>1. Swept[head] \subseteq tracked /\ local' = Swept /\ dirty' = FALSE
      BY <2>4 DEF NothingToPush, Ahead
    <3>2. ASSUME head = "run", repo # NoRepo PROVE AllSent'
      <4>1. repo \in Repos /\ Swept["run"] \subseteq Sent
        BY <3>1, <3>2 DEF GitHubInv
      <4> QED BY <2>2, <3>1, <4>1 DEF AllSent
    <3> QED BY <2>1, <2>2, <3>2
  <2> QED BY <1>10, <2>3, <2>4
<1>11. CASE OpenPull
  <2>1. /\ pc = "pull" /\ pc' = "final" /\ UNCHANGED <<repo, harness, said, clone, remote>>
    BY <1>11 DEF OpenPull, Goto, process, reading
  <2> QED BY <2>1 DEF clone, Sent, AllSent
<1>12. CASE Finish
  <2>1. CASE pc' = "died"
    BY <1>2, <1>12, <2>1 DEF Finish, github
  <2>2. CASE pc' # "died"
    <3>1. /\ pc = "final" /\ pc' = "exited" /\ notes' = pending /\ harness' = "gone"
          /\ UNCHANGED <<repo, said, clone, remote>>
      BY <1>12, <2>2 DEF Finish, Goto, Dies, reading, github
    <3> QED BY <3>1 DEF clone, Sent, AllSent
  <2> QED BY <2>1, <2>2
<1>13. CASE TaskStops
  BY <1>2, <1>13 DEF TaskStops, Dies, github
<1> QED
  BY <1>3, <1>4, <1>5, <1>6, <1>7, <1>8, <1>9, <1>10, <1>11, <1>12, <1>13
  DEF Next, Harness, Runner

(* The types of what no invariant above speaks of. *)
RestInv ==
  /\ repo \in RunRepos
  /\ status \in Ends \cup {"queued", "running"}
  /\ notes \cup pending \subseteq {"pushed", "push failed", "pull", "pull failed"}
  /\ sidecar \in [up : BOOLEAN, token : Repos \cup {NoRepo}]
  /\ harness \in {"none", "live", "killed", "gone"}
  /\ emitted \in 0..MaxEvents
  /\ timer \in BOOLEAN
  /\ terminal \in Ends \cup {"none"}
  /\ said \subseteq Results \cup {"odd"}
  /\ pulls \subseteq Repos

LEMMA RestStart == Init => RestInv
<1> SUFFICES ASSUME Init PROVE RestInv
  OBVIOUS
<1>1. sidecar = [up |-> FALSE, token |-> NoRepo] /\ FALSE \in BOOLEAN /\ NoRepo \in Repos \cup {NoRepo}
  BY DEF Init
<1>2. sidecar \in [up : BOOLEAN, token : Repos \cup {NoRepo}]
  BY <1>1
<1>3. emitted \in 0..MaxEvents
  BY RunnerAssumption DEF Init
<1> QED BY <1>2, <1>3 DEF Init, RestInv

LEMMA OneMoreEvent ==
  ASSUME emitted \in 0..MaxEvents, emitted < MaxEvents, emitted' = emitted + 1
  PROVE  emitted' \in 0..MaxEvents
BY RunnerAssumption

LEMMA HeadIsEvent == ASSUME pipe \in Seq(Events), pipe # <<>> PROVE Head(pipe) \in Events
OBVIOUS

LEMMA RestStep == EndInv /\ RestInv /\ [Next]_vars => RestInv'
<1> SUFFICES ASSUME EndInv, RestInv, [Next]_vars PROVE RestInv'
  OBVIOUS
<1> USE DEF RestInv
<1>1. CASE UNCHANGED vars \/ Edit \/ PushItself
  BY <1>1 DEF vars, Edit, PushItself, record, process, reading, github
<1>2. CASE SidecarStarts \/ TokenExpires
  <2>1. sidecar' \in [up : BOOLEAN, token : Repos \cup {NoRepo}]
    <3>1. ASSUME NEW t \in Minted(repo) PROVE t \in Repos \cup {NoRepo}
      BY RunnerAssumption DEF Minted
    <3>2. CASE SidecarStarts
      <4>1. PICK t \in Minted(repo) : sidecar' = [up |-> TRUE, token |-> t]
        BY <3>2 DEF SidecarStarts
      <4>2. t \in Repos \cup {NoRepo}
        BY <3>1
      <4> QED BY <4>1, <4>2
    <3>3. CASE TokenExpires
      BY <3>3 DEF TokenExpires
    <3> QED BY <1>2, <3>2, <3>3
  <2> QED BY <1>2, <2>1 DEF SidecarStarts, TokenExpires, record, process, reading, github
<1>3. CASE Emit
  <2>1. emitted' \in 0..MaxEvents
    BY <1>3, OneMoreEvent DEF Emit
  <2> QED BY <1>3, <2>1 DEF Emit, record, reading, github
<1>4. CASE OpenPullItself \/ OpenPull
  BY <1>4 DEF OpenPullItself, OpenPull, Reaches, record, process, reading
<1>5. CASE HarnessEnds \/ TimerFires \/ TaskStops
  BY <1>5 DEF HarnessEnds, TimerFires, TaskStops, Kill, Dies, record, process, reading, github
<1>6. CASE Wait \/ Clone \/ MarkRunning \/ Spawn \/ SpawnThrows
  BY <1>6 DEF Wait, Clone, MarkRunning, Spawn, SpawnThrows, Dies, Ends, record, process, reading, github
<1>7. CASE ReadMessage
  BY <1>7 DEF ReadMessage, Kill, record, github
<1>8. CASE ReadResult
  <2>1. Head(pipe) \in Events /\ Head(pipe).kind = "result"
    BY <1>8, HeadIsEvent DEF ReadResult, EndInv
  <2>2. Head(pipe).is \in Results
    BY <2>1 DEF Events
  <2> QED BY <1>8, <2>2 DEF ReadResult, Ends, record, github
<1>9. CASE StreamThrows \/ StreamEnds
  BY <1>9 DEF StreamThrows, StreamEnds, Ending, Ends, record, process, github
<1>10. CASE Push \/ NothingToPush \/ PushFails
  BY <1>10 DEF Push, NothingToPush, PushFails, record, process, reading, github
<1>11. CASE Finish
  <2>1. status' \in Ends \cup {"queued", "running"} /\ notes' \in {notes, pending}
    BY <1>11 DEF Finish, Goto, EndInv, record
  <2>2. harness' \in {"none", "gone"}
    BY <1>11 DEF Finish, Dies
  <2>3. UNCHANGED <<repo, pending, sidecar, emitted, timer, terminal, said, pulls>>
    BY <1>11 DEF Finish, reading, github
  <2> QED BY <2>1, <2>2, <2>3
<1> QED
  BY <1>1, <1>2, <1>3, <1>4, <1>5, <1>6, <1>7, <1>8, <1>9, <1>10, <1>11
  DEF Next, Harness, Runner

(* task.ts: for any repositories, harness, commits and time of a kill, by    *)
(* the time the record is final the work committed on the run's branch is on *)
(* the remote, or the record says that the push failed.  (And the types.)    *)
THEOREM WorkIsAccountedHolds == Spec => []WorkIsAccounted
<1> DEFINE Inv == GitHubInv /\ EndInv /\ DetectorInv /\ WorkInv /\ RestInv
<1>1. Init => Inv
  BY GitHubStart, EndStart, DetectorStart, WorkStart, RestStart
<1>2. Inv /\ [Next]_vars => Inv'
  BY GitHubStep, EndStep, DetectorStep, WorkStep, RestStep
<1>3. Inv => WorkIsAccounted
  <2> SUFFICES ASSUME Inv PROVE WorkIsAccounted
    OBVIOUS
  <2>1. detector \in [last : ToolCalls \cup {"none"}, count : Nat]
    BY DEF DetectorInv, Counts, EndsIn
  <2>2. TypeOK
    BY <2>1 DEF TypeOK, GitHubInv, EndInv, DetectorInv, WorkInv, RestInv
  <2> QED BY <2>2 DEF WorkIsAccounted, WorkInv, AllSent, Sent
<1> HIDE DEF Inv
<1> QED BY <1>1, <1>2, <1>3, PTL DEF Spec
===============================================================================
