-------------------------- MODULE RunLifecycleProofs --------------------------
(***************************************************************************)
(* Theorems about the life of a run, for any number of executors, any      *)
(* substrates and stores and any step limit: what may be left open, who    *)
(* said a status, and, while nothing but its parts fail, that the record   *)
(* and the answers given from it stand.                                    *)
(***************************************************************************)
EXTENDS RunLifecycle, SequenceTheorems, TLAPS

(* What an executor holds, place by place: nothing before it started, and   *)
(* nothing any more where processRun has been left.                         *)
Holds(e) ==
  /\ pc[e] \in {"idle", "get", "claiming", "start"} => session[e] = "none"
  /\ pc[e] \in {"idle", "get", "claiming", "start", "resolve", "clone"} => workspace[e] = "none"
  /\ pc[e] \in {"note", "noting"} => workspace[e] = "pushed"
  /\ pc[e] \in {"close", "rescue", "rescuing", "ended", "exited"} => workspace[e] # "cloned"
  /\ pc[e] \in {"rescue", "rescuing", "ended", "exited"} => session[e] # "open"

OpenInv ==
  /\ pc \in [Executors -> Places]
  /\ session \in [Executors -> {"none", "open", "closed"}]
  /\ workspace \in [Executors -> {"none", "cloned", "pushed"}]
  /\ \A e \in Executors : Holds(e)

LEMMA OpenStart == Init => OpenInv
BY DEF Init, OpenInv, Holds, Places

(* An executor that moves takes nobody else along. *)
LEMMA OneMoves ==
  ASSUME OpenInv, NEW e \in Executors, NEW place \in Places, Goto(e, place),
         NEW s \in {"none", "open", "closed"}, NEW w \in {"none", "cloned", "pushed"},
         session' = [session EXCEPT ![e] = s], workspace' = [workspace EXCEPT ![e] = w],
         /\ place \in {"idle", "get", "claiming", "start"} => s = "none"
         /\ place \in {"idle", "get", "claiming", "start", "resolve", "clone"} => w = "none"
         /\ place \in {"note", "noting"} => w = "pushed"
         /\ place \in {"close", "rescue", "rescuing", "ended", "exited"} => w # "cloned"
         /\ place \in {"rescue", "rescuing", "ended", "exited"} => s # "open"
  PROVE  OpenInv'
<1>1. /\ pc' \in [Executors -> Places]
      /\ session' \in [Executors -> {"none", "open", "closed"}]
      /\ workspace' \in [Executors -> {"none", "cloned", "pushed"}]
  BY DEF OpenInv, Goto
<1>2. Holds(e)'
  BY DEF OpenInv, Goto, Holds
<1>3. ASSUME NEW f \in Executors, f # e PROVE Holds(f)'
  <2>1. pc'[f] = pc[f] /\ session'[f] = session[f] /\ workspace'[f] = workspace[f]
    BY <1>3 DEF OpenInv, Goto
  <2> QED BY <2>1 DEF OpenInv, Holds
<1> QED BY <1>1, <1>2, <1>3 DEF OpenInv

(* ... and if it keeps what it holds: *)
LEMMA OneGoes ==
  ASSUME OpenInv, NEW e \in Executors, NEW place \in Places, Goto(e, place),
         UNCHANGED <<session, workspace>>,
         /\ place \in {"idle", "get", "claiming", "start"} => session[e] = "none"
         /\ place \in {"idle", "get", "claiming", "start", "resolve", "clone"} => workspace[e] = "none"
         /\ place \in {"note", "noting"} => workspace[e] = "pushed"
         /\ place \in {"close", "rescue", "rescuing", "ended", "exited"} => workspace[e] # "cloned"
         /\ place \in {"rescue", "rescuing", "ended", "exited"} => session[e] # "open"
  PROVE  OpenInv'
<1>1. /\ session' = [session EXCEPT ![e] = session[e]]
      /\ workspace' = [workspace EXCEPT ![e] = workspace[e]]
      /\ session[e] \in {"none", "open", "closed"} /\ workspace[e] \in {"none", "cloned", "pushed"}
  BY DEF OpenInv
<1> QED BY <1>1, OneMoves

(* Where an awaited update leaves its executor. *)
LEMMA ResumeKeepsOpen ==
  ASSUME OpenInv, NEW e \in Executors, NEW ok \in BOOLEAN, Resume(e, ok),
         UNCHANGED <<session, workspace>>
  PROVE  OpenInv'
<1> USE DEF Resume, Throw, Uncaught, Finally, Places
<1>0. Holds(e)
  BY DEF OpenInv
<1>1. CASE pc[e] = "claiming"
  <2>1. PICK place \in {"start", "rescue", "ended"} : Goto(e, place)
    BY <1>1
  <2> QED BY <1>0, <1>1, <2>1, OneGoes DEF Holds
<1>2. CASE pc[e] = "reporting" \/ pc[e] = "failing"
  <2>1. \/ Goto(e, "fail")
        \/ Goto(e, "push") /\ workspace[e] = "cloned"
        \/ Goto(e, "close") /\ workspace[e] # "cloned"
    BY <1>2
  <2> QED BY <1>0, <1>2, <2>1, OneGoes DEF Holds
<1>3. CASE pc[e] = "noting"
  <2>1. Goto(e, "close")
    BY <1>3
  <2> QED BY <1>0, <1>3, <2>1, OneGoes DEF Holds
<1>4. CASE pc[e] = "rescuing"
  <2>1. Goto(e, "ended")
    BY <1>4
  <2> QED BY <1>0, <1>4, <2>1, OneGoes DEF Holds
<1>5. CASE pc[e] \notin {"claiming", "reporting", "failing", "noting", "rescuing"}
  <2>1. UNCHANGED pc
    BY <1>5
  <2> QED BY <2>1 DEF OpenInv, Holds
<1> QED BY <1>1, <1>2, <1>3, <1>4, <1>5

LEMMA StoreKeepsOpen ==
  ASSUME OpenInv, NEW p \in Processes, StoreStep(p)
  PROVE  OpenInv'
<1>1. CASE Reads(p)
  BY <1>1 DEF Reads, executor, OpenInv, Holds
<1>2. ASSUME NEW i, NEW ok \in BOOLEAN, Settle(p, i, ok) PROVE OpenInv'
  <2>1. UNCHANGED <<session, workspace>>
    BY <1>2 DEF Settle
  <2>2. CASE UNCHANGED pc
    BY <2>1, <2>2 DEF OpenInv, Holds
  <2>3. CASE p # Front /\ Resume(p, ok)
    <3>1. p \in Executors
      BY <2>3 DEF Processes
    <3> QED BY <2>1, <2>3, <3>1, ResumeKeepsOpen
  <2> QED BY <1>2, <2>2, <2>3 DEF Settle
<1>3. CASE \E i \in DOMAIN pending[p] : Lands(p, i) \/ Fails(p, i)
  <2>1. PICK i : \E ok \in BOOLEAN : Settle(p, i, ok)
    BY <1>3 DEF Lands, Fails
  <2> QED BY <1>2, <2>1
<1> QED BY <1>1, <1>3 DEF StoreStep

(* Nobody is started, and nothing asked of the substrate, before the front  *)
(* door dispatches.                                                         *)
NotYet ==
  front \in {"new", "dispatch"} => request = "none" /\ \A e \in Executors : pc[e] = "idle"

(* The front door does not create or dispatch a run twice. *)
LEMMA NoWayBack ==
  ASSUME [Next]_vars, front \notin {"new", "dispatch"}
  PROVE  front' \notin {"new", "dispatch"}
<1>1. CASE FrontDoor \/ FrontDies
  BY <1>1 DEF FrontDoor, FrontDies, Refuse, Create, Dispatch, DispatchThrows, ReplyOk, ReplyError,
     Check, MarkFailed, MoveFront, Failed
<1>2. CASE UNCHANGED vars \/ Accept \/ Reject \/ Watch
  BY <1>2 DEF vars, Accept, Reject, Watch, Await, Poll, Deadline
<1>3. ASSUME NEW e \in Executors, Deliver(e) \/ ProcessRun(e) \/ Exit(e) \/ ExecutorDies(e)
      PROVE  UNCHANGED front
  BY <1>3 DEF Deliver, Exit, ExecutorDies, ProcessRun, Claim, StartSession, ResolveTools, Clone,
     Turn, Report, LoopThrows, Fail, Push, Note, Close, Rescue, others
<1>4. ASSUME NEW p \in Processes, StoreStep(p) PROVE front' \in {front, "done"}
  <2>1. CASE Reads(p)
    BY <2>1 DEF Reads
  <2>2. CASE \E i \in DOMAIN pending[p] : Lands(p, i) \/ Fails(p, i)
    <3>1. PICK i : \E ok \in BOOLEAN : Settle(p, i, ok)
      BY <2>2 DEF Lands, Fails
    <3> QED BY <3>1 DEF Settle
  <2> QED BY <1>4, <2>1, <2>2 DEF StoreStep
<1> QED BY <1>1, <1>2, <1>3, <1>4 DEF Next

LEMMA NotYetStart == Init => NotYet
BY DEF Init, NotYet

LEMMA NotYetStep == NotYet /\ [Next]_vars => NotYet'
<1> SUFFICES ASSUME NotYet, [Next]_vars, front' \in {"new", "dispatch"}
             PROVE  request' = "none" /\ \A e \in Executors : pc'[e] = "idle"
  BY DEF NotYet
<1>1. CASE front \in {"new", "dispatch"}
  <2>1. request = "none" /\ \A e \in Executors : pc[e] = "idle"
    BY <1>1 DEF NotYet
  <2>2. ASSUME UNCHANGED <<request, pc>>
        PROVE  request' = "none" /\ \A e \in Executors : pc'[e] = "idle"
    BY <2>1, <2>2
  <2>3. CASE FrontDoor \/ FrontDies
    BY <2>2, <2>3 DEF FrontDoor, FrontDies, Refuse, Create, Dispatch, DispatchThrows, ReplyOk,
       ReplyError, Check, MarkFailed, MoveFront, executor
  <2>4. CASE UNCHANGED vars \/ Accept \/ Reject \/ Watch
    BY <2>1, <2>2, <2>4 DEF vars, executor, Accept, Reject, Watch, Await, Poll, Deadline
  <2>5. ASSUME NEW e \in Executors, Deliver(e) \/ ProcessRun(e) \/ Exit(e) \/ ExecutorDies(e)
        PROVE  FALSE
    <3>1. pc[e] = "idle" /\ request = "none"
      BY <2>1
    <3> QED BY <2>5, <3>1 DEF Deliver, Exit, ExecutorDies, ProcessRun, Claim, StartSession,
        ResolveTools, Clone, Turn, Report, LoopThrows, Fail, Push, Note, Close, Rescue
  <2>6. ASSUME NEW p \in Processes, StoreStep(p) PROVE UNCHANGED <<request, pc>>
    <3>1. CASE Reads(p)
      BY <3>1 DEF Reads, executor
    <3>2. CASE \E i \in DOMAIN pending[p] : Lands(p, i) \/ Fails(p, i)
      <4>1. PICK i : \E ok \in BOOLEAN : Settle(p, i, ok)
        BY <3>2 DEF Lands, Fails
      <4>2. PICK ok \in BOOLEAN : Settle(p, i, ok)
        BY <4>1
      <4>3. ASSUME p # Front, Resume(p, ok) PROVE UNCHANGED pc
        BY <2>1, <4>3 DEF Resume, Processes
      <4> QED BY <4>2, <4>3 DEF Settle
    <3> QED BY <2>6, <3>1, <3>2 DEF StoreStep
  <2> QED BY <2>2, <2>3, <2>4, <2>5, <2>6 DEF Next
<1>2. CASE front \notin {"new", "dispatch"}
  BY <1>2, NoWayBack
<1> QED BY <1>1, <1>2

LEMMA OpenStep == "toolset" \notin Faults /\ OpenInv /\ NotYet /\ [Next]_vars => OpenInv'
<1> SUFFICES ASSUME "toolset" \notin Faults, OpenInv, NotYet, [Next]_vars PROVE OpenInv'
  OBVIOUS
<1>1. ASSUME UNCHANGED <<pc, session, workspace>> PROVE OpenInv'
  BY <1>1 DEF OpenInv, Holds
<1>2. CASE UNCHANGED vars \/ FrontDies \/ Accept \/ Reject \/ Watch
  BY <1>1, <1>2 DEF vars, executor, FrontDies, Accept, Reject, Watch, Await, Poll, Deadline, MoveFront
<1>3. CASE FrontDoor
  <2>1. CASE Refuse \/ Create \/ DispatchThrows \/ ReplyOk \/ ReplyError \/ Check \/ MarkFailed
    BY <1>1, <2>1 DEF executor, Refuse, Create, DispatchThrows, ReplyOk, ReplyError, Check,
       MarkFailed, MoveFront
  <2>2. CASE Dispatch
    <3>1. CASE UNCHANGED pc
      BY <1>1, <2>2, <3>1 DEF Dispatch
    <3>2. CASE \E e \in Executors : Goto(e, "get")
      <4>1. PICK e \in Executors : pc[e] = "idle" /\ Goto(e, "get")
        BY <2>2, <3>2 DEF Dispatch, NotYet
      <4>2. Holds(e)
        BY DEF OpenInv
      <4> QED BY <2>2, <4>1, <4>2, OneGoes DEF Dispatch, Holds, Places
    <3> QED BY <2>2, <3>1, <3>2 DEF Dispatch
  <2> QED BY <1>3, <2>1, <2>2 DEF FrontDoor
<1>4. ASSUME NEW e \in Executors, Deliver(e) \/ Exit(e) \/ ExecutorDies(e) PROVE OpenInv'
  <2>1. Holds(e)
    BY DEF OpenInv
  <2>2. CASE Deliver(e)
    BY <2>1, <2>2, OneGoes DEF Deliver, Holds, Places
  <2>3. CASE Exit(e)
    BY <2>1, <2>3, OneGoes DEF Exit, Holds, Places
  <2>4. CASE ExecutorDies(e)
    BY <2>1, <2>4, OneGoes DEF ExecutorDies, Holds, Places
  <2> QED BY <1>4, <2>2, <2>3, <2>4
<1>5. ASSUME NEW e \in Executors, ProcessRun(e) PROVE OpenInv'
  <2>0. Holds(e)
    BY DEF OpenInv
  <2>1. CASE Claim(e)
    <3>1. PICK place \in {"claiming", "rescue", "ended"} : Goto(e, place)
      BY <2>1 DEF Claim, Throw, Uncaught
    <3> QED BY <2>0, <2>1, <3>1, OneGoes DEF Claim, Holds, Places
  <2>2. CASE StartSession(e)
    <3>1. CASE Goto(e, "resolve") /\ session' = [session EXCEPT ![e] = "open"]
      <4>1. workspace' = [workspace EXCEPT ![e] = "none"]
        BY <2>0, <2>2 DEF StartSession, Holds, OpenInv
      <4> QED BY <3>1, <4>1, OneMoves DEF Places
    <3>2. CASE Throw(e) /\ UNCHANGED session
      <4>1. PICK place \in {"rescue", "ended"} : Goto(e, place)
        BY <3>2 DEF Throw, Uncaught
      <4> QED BY <2>0, <2>2, <3>2, <4>1, OneGoes DEF StartSession, Holds, Places
    <3> QED BY <2>2, <3>1, <3>2 DEF StartSession
  <2>3. CASE ResolveTools(e)
    <3>1. PICK place \in {"clone", "think"} : Goto(e, place)
      BY <2>3 DEF ResolveTools
    <3> QED BY <2>0, <2>3, <3>1, OneGoes DEF ResolveTools, Holds, Places
  <2>4. CASE Clone(e)
    <3>1. CASE Goto(e, "think") /\ workspace' = [workspace EXCEPT ![e] = "cloned"]
      <4>1. session' = [session EXCEPT ![e] = session[e]] /\ session[e] \in {"none", "open", "closed"}
        BY <2>4 DEF Clone, OpenInv
      <4> QED BY <3>1, <4>1, OneMoves DEF Places
    <3>2. CASE Goto(e, "fail") /\ UNCHANGED workspace
      BY <2>4, <3>2, OneGoes DEF Clone, Places
    <3> QED BY <2>4, <3>1, <3>2 DEF Clone
  <2>5. CASE Turn(e)
    BY <1>1, <2>5 DEF Turn
  <2>6. CASE Report(e)
    BY <2>6, OneGoes DEF Report, Places
  <2>7. CASE LoopThrows(e)
    BY <2>7, OneGoes DEF LoopThrows, Places
  <2>8. CASE Fail(e)
    BY <2>8, OneGoes DEF Fail, Places
  <2>9. CASE Push(e)
    <3>1. session' = [session EXCEPT ![e] = session[e]] /\ session[e] \in {"none", "open", "closed"}
      BY <2>9 DEF Push, OpenInv
    <3> QED BY <2>9, <3>1, OneMoves DEF Push, Places
  <2>10. CASE Note(e)
    BY <2>0, <2>10, OneGoes DEF Note, Places, Holds
  <2>11. CASE Close(e)
    <3>1. PICK place \in {"rescue", "ended"} : Goto(e, place)
      BY <2>11 DEF Close, Uncaught
    <3>2. workspace' = [workspace EXCEPT ![e] = workspace[e]] /\ workspace[e] \in {"none", "pushed"}
      BY <2>0, <2>11 DEF Close, Holds, OpenInv
    <3>3. session' = [session EXCEPT ![e] = "closed"]
      BY <2>11 DEF Close
    <3> QED BY <3>1, <3>2, <3>3, OneMoves DEF Places
  <2>12. CASE Rescue(e)
    BY <2>0, <2>12, OneGoes DEF Rescue, Places, Holds
  <2> QED BY <1>5, <2>1, <2>2, <2>3, <2>4, <2>5, <2>6, <2>7, <2>8, <2>9, <2>10, <2>11, <2>12
       DEF ProcessRun
<1>6. ASSUME NEW p \in Processes, StoreStep(p) PROVE OpenInv'
  BY <1>6, StoreKeepsOpen
<1> QED BY <1>2, <1>3, <1>4, <1>5, <1>6 DEF Next

(* process-run.ts:108-123: for any executors and any faults but a toolset   *)
(* that does not resolve, whoever has left processRun holds neither an open *)
(* session nor a cloned workspace.                                          *)
THEOREM NothingLeftOpenHolds == "toolset" \notin Faults => (Spec => []NothingLeftOpen)
<1> SUFFICES ASSUME "toolset" \notin Faults PROVE Spec => []NothingLeftOpen
  OBVIOUS
<1>1. OpenInv /\ NotYet /\ [Next]_vars => OpenInv'
  BY OpenStep
<1>2. OpenInv => NothingLeftOpen
  BY DEF OpenInv, Holds, NothingLeftOpen, Ended
<1> QED BY OpenStart, NotYetStart, NotYetStep, <1>1, <1>2, PTL DEF Spec

-----------------------------------------------------------------------------
(* The author of a status: what executors say (v), where they are (c) and   *)
(* where the front door is (f) account for a record that says s.            *)
Said(s, v, c, f) ==
  /\ s \in Results => \E e \in Executors : v[e] \in {s, "failed"}
  /\ s = "running" => \E e \in Executors : c[e] # "idle"
  /\ s = "failed" =>
       \/ \E e \in Executors : v[e] = "failed"
       \/ f \in {"failing", "done", "dead"}

Early == {"idle", "get", "claiming", "start", "resolve", "clone", "think"}

(* Nobody has a verdict before the loop is over. *)
SpeakInv ==
  /\ pc \in [Executors -> Places]
  /\ verdict \in [Executors -> Terminal \cup {"none"}]
  /\ \A e \in Executors : pc[e] \in Early => verdict[e] = "none"

(* Statuses once accounted for stay so: nobody becomes idle again, takes    *)
(* back a verdict but to say failed, and the front door that marked a run   *)
(* stays past its marking.                                                  *)
Grows ==
  \A s : Said(s, verdict, pc, front) => Said(s, verdict', pc', front')

Marked == {"failing", "done", "dead"}

LEMMA NobodySpeaks ==
  ASSUME SpeakInv, UNCHANGED <<pc, verdict>>, front \in Marked => front' \in Marked
  PROVE  SpeakInv' /\ Grows
BY DEF SpeakInv, Grows, Said, Marked

LEMMA OneSpeaks ==
  ASSUME SpeakInv, NEW e \in Executors, NEW place \in Places, Goto(e, place), place # "idle",
         NEW v \in Terminal \cup {"none"}, verdict' = [verdict EXCEPT ![e] = v],
         place \in Early => v = "none",
         v \in {verdict[e], "failed"} \/ verdict[e] = "none",
         front \in Marked => front' \in Marked
  PROVE  SpeakInv' /\ Grows
<1>1. /\ pc'[e] = place /\ verdict'[e] = v
      /\ \A f \in Executors \ {e} : pc'[f] = pc[f] /\ verdict'[f] = verdict[f]
  BY DEF SpeakInv, Goto
<1>2. SpeakInv'
  BY <1>1 DEF SpeakInv, Goto
<1>3. ASSUME NEW s, Said(s, verdict, pc, front) PROVE Said(s, verdict', pc', front')
  <2>1. ASSUME s \in Results PROVE \E f \in Executors : verdict'[f] \in {s, "failed"}
    <3>1. PICK f \in Executors : verdict[f] \in {s, "failed"}
      BY <1>3, <2>1 DEF Said
    <3>2. verdict[f] # "none"
      BY <2>1, <3>1 DEF Results
    <3> QED BY <1>1, <3>1, <3>2
  <2>2. ASSUME s = "running" PROVE \E f \in Executors : pc'[f] # "idle"
    BY <1>1
  <2>3. ASSUME s = "failed"
        PROVE  (\E f \in Executors : verdict'[f] = "failed") \/ front' \in Marked
    <3>1. CASE front \in Marked
      BY <3>1
    <3>2. CASE front \notin Marked
      <4>1. PICK f \in Executors : verdict[f] = "failed"
        BY <1>3, <2>3, <3>2 DEF Said, Marked
      <4> QED BY <1>1, <4>1
    <3> QED BY <3>1, <3>2
  <2> QED BY <2>1, <2>2, <2>3 DEF Said, Marked
<1> QED BY <1>2, <1>3 DEF Grows

(* ... or it goes on without a word. *)
LEMMA OneSilent ==
  ASSUME SpeakInv, NEW e \in Executors, NEW place \in Places, Goto(e, place), place # "idle",
         UNCHANGED <<verdict, front>>, place \in Early => pc[e] \in Early
  PROVE  SpeakInv' /\ Grows
<1>1. /\ verdict[e] \in Terminal \cup {"none"}
      /\ verdict' = [verdict EXCEPT ![e] = verdict[e]]
      /\ place \in Early => verdict[e] = "none"
  BY DEF SpeakInv
<1> QED BY <1>1, OneSpeaks

LEMMA ResumeSpeaks ==
  ASSUME SpeakInv, NEW e \in Executors, NEW ok \in BOOLEAN, Resume(e, ok),
         UNCHANGED <<verdict, front>>
  PROVE  SpeakInv' /\ Grows
<1>1. CASE UNCHANGED pc
  BY <1>1, NobodySpeaks
<1>2. CASE pc[e] = "claiming"
  <2>1. PICK place \in {"start", "rescue", "ended"} : Goto(e, place)
    BY <1>2 DEF Resume, Throw, Uncaught
  <2> QED BY <1>2, <2>1, OneSilent DEF Places, Early
<1>3. CASE \E place \in {"push", "close", "fail", "ended"} : Goto(e, place)
  BY <1>3, OneSilent DEF Places, Early
<1>4. CASE pc[e] \in {"reporting", "failing", "noting", "rescuing"}
  BY <1>3, <1>4 DEF Resume, Finally
<1> QED BY <1>1, <1>2, <1>4 DEF Resume

LEMMA SpeakStart == Init => SpeakInv
BY DEF Init, SpeakInv, Places

LEMMA SpeakStep == SpeakInv /\ NotYet /\ [Next]_vars => SpeakInv' /\ Grows
<1> SUFFICES ASSUME SpeakInv, NotYet, [Next]_vars PROVE SpeakInv' /\ Grows
  OBVIOUS
<1>1. CASE UNCHANGED vars \/ FrontDies \/ Accept \/ Reject \/ Watch
  BY <1>1, NobodySpeaks DEF vars, executor, FrontDies, Accept, Reject, Watch, Await, Poll,
     Deadline, MoveFront, Marked
<1>2. CASE FrontDoor
  <2>1. CASE Refuse \/ Create \/ DispatchThrows \/ ReplyOk \/ ReplyError \/ Check \/ MarkFailed
    <3>1. UNCHANGED <<pc, verdict>>
      BY <2>1 DEF executor, Refuse, Create, DispatchThrows, ReplyOk, ReplyError, Check,
         MarkFailed, MoveFront
    <3>2. front \notin Marked
      BY <2>1 DEF Refuse, Create, DispatchThrows, ReplyOk, ReplyError, Check, MarkFailed, Marked
    <3> QED BY <3>1, <3>2, NobodySpeaks
  <2>2. CASE Dispatch
    <3>1. front \notin Marked
      BY <2>2 DEF Dispatch, Marked
    <3>2. CASE UNCHANGED pc
      BY <2>2, <3>1, <3>2, NobodySpeaks DEF Dispatch
    <3>3. CASE \E e \in Executors : Goto(e, "get")
      <4>1. PICK e \in Executors : pc[e] = "idle" /\ Goto(e, "get")
        BY <2>2, <3>3 DEF Dispatch, NotYet
      <4>2. /\ verdict[e] = "none"
            /\ verdict' = [verdict EXCEPT ![e] = "none"]
        BY <2>2, <4>1 DEF Dispatch, SpeakInv, Early
      <4> QED BY <3>1, <4>1, <4>2, OneSpeaks DEF Places
    <3> QED BY <2>2, <3>2, <3>3 DEF Dispatch
  <2> QED BY <1>2, <2>1, <2>2 DEF FrontDoor
<1>3. ASSUME NEW e \in Executors, Deliver(e) \/ Exit(e) \/ ExecutorDies(e)
      PROVE  SpeakInv' /\ Grows
  BY <1>3, OneSilent DEF Deliver, Exit, ExecutorDies, others, Places, Early
<1>4. ASSUME NEW e \in Executors, ProcessRun(e) PROVE SpeakInv' /\ Grows
  <2>1. UNCHANGED front
    BY <1>4 DEF ProcessRun, others, Claim, StartSession, ResolveTools, Clone, Turn, Report,
       LoopThrows, Fail, Push, Note, Close, Rescue
  <2>2. CASE Claim(e) \/ StartSession(e) \/ ResolveTools(e) \/ Clone(e) \/ LoopThrows(e)
             \/ Push(e) \/ Note(e) \/ Close(e)
    <3>1. UNCHANGED verdict
      BY <2>2 DEF Claim, StartSession, ResolveTools, Clone, LoopThrows, Push, Note, Close
    <3>2. CASE Claim(e) \/ StartSession(e) \/ ResolveTools(e) \/ Clone(e) \/ LoopThrows(e)
      <4>1. pc[e] \in Early
        BY <3>2 DEF Claim, StartSession, ResolveTools, Clone, LoopThrows, Early
      <4>2. \E place \in {"claiming", "rescue", "ended", "resolve", "clone", "think", "fail"} :
              Goto(e, place)
        BY <3>2 DEF Claim, StartSession, ResolveTools, Clone, LoopThrows, Throw, Uncaught
      <4> QED BY <2>1, <3>1, <4>1, <4>2, OneSilent DEF Places
    <3>3. CASE Push(e) \/ Note(e) \/ Close(e)
      <4>1. \E place \in {"note", "noting", "rescue", "ended"} : Goto(e, place)
        BY <3>3 DEF Push, Note, Close, Uncaught
      <4> QED BY <2>1, <3>1, <4>1, OneSilent DEF Places, Early
    <3> QED BY <2>2, <3>2, <3>3
  <2>3. CASE Turn(e)
    BY <2>1, <2>3, NobodySpeaks DEF Turn
  <2>4. CASE Report(e)
    <3>1. PICK r \in Results : verdict' = [verdict EXCEPT ![e] = r]
      BY <2>4 DEF Report, EndsAs
    <3>2. verdict[e] = "none" /\ Goto(e, "reporting")
      BY <2>4 DEF Report, SpeakInv, Early
    <3> QED BY <2>1, <3>1, <3>2, OneSpeaks DEF Places, Early, Terminal
  <2>5. CASE Fail(e)
    BY <2>1, <2>5, OneSpeaks DEF Fail, Places, Early, Terminal
  <2>6. CASE Rescue(e)
    BY <2>1, <2>6, OneSpeaks DEF Rescue, Places, Early, Terminal
  <2> QED BY <1>4, <2>2, <2>3, <2>4, <2>5, <2>6 DEF ProcessRun
<1>5. ASSUME NEW p \in Processes, StoreStep(p) PROVE SpeakInv' /\ Grows
  <2>1. CASE Reads(p)
    BY <2>1, NobodySpeaks DEF Reads, executor
  <2>2. CASE \E i \in DOMAIN pending[p] : Lands(p, i) \/ Fails(p, i)
    <3>1. PICK i : \E ok \in BOOLEAN : Settle(p, i, ok)
      BY <2>2 DEF Lands, Fails
    <3>2. PICK ok \in BOOLEAN : Settle(p, i, ok)
      BY <3>1
    <3>3. UNCHANGED verdict /\ (front \in Marked => front' \in Marked)
      BY <3>2 DEF Settle, Marked
    <3>4. CASE p # Front /\ Resume(p, ok)
      <4>1. p \in Executors /\ UNCHANGED front
        BY <3>2, <3>4 DEF Processes, Settle
      <4> QED BY <3>3, <3>4, <4>1, ResumeSpeaks
    <3>5. CASE UNCHANGED pc
      BY <3>3, <3>5, NobodySpeaks
    <3> QED BY <3>2, <3>4, <3>5 DEF Settle
  <2> QED BY <1>5, <2>1, <2>2 DEF StoreStep
<1> QED BY <1>1, <1>2, <1>3, <1>4, <1>5 DEF Next

-----------------------------------------------------------------------------
(* Whatever is stored, outstanding or about to be written has its author,   *)
(* and its fields hold what such a field may.                               *)
Keys    == {"status", "messages", "output"}
Cells   == Nat \cup Statuses \cup Outputs
Docs    == [Keys -> Cells]
Patches == UNION {[F -> Cells] : F \in SUBSET Keys}
Writes  == [patch : Patches, awaited : BOOLEAN]

Fits(doc) ==
  /\ "status" \in DOMAIN doc => doc["status"] \in Statuses
  /\ "messages" \in DOMAIN doc => doc["messages"] \in 0..MaxSteps
  /\ "output" \in DOMAIN doc => doc["output"] \in Outputs

SaidIn(doc, v, c, f) ==
  /\ Fits(doc)
  /\ "status" \in DOMAIN doc => Said(doc["status"], v, c, f)

AuthorInv ==
  /\ record \in Docs
  /\ pending \in [Processes -> Seq(Writes)]
  /\ next \in [Processes -> Docs \cup {NoDoc}]
  /\ SaidIn(record, verdict, pc, front)
  /\ \A p \in Processes :
       \A i \in 1..Len(pending[p]) : SaidIn(pending[p][i].patch, verdict, pc, front)
  /\ \A p \in Processes : next[p] # NoDoc => SaidIn(next[p], verdict, pc, front)

(* A sequence that lost its i-th entry closes up and holds no new one.      *)
Lost(rest, s, i) ==
  /\ Len(rest) = Len(s) - 1
  /\ \A j \in 1..(Len(s) - 1) : rest[j] = IF j < i THEN s[j] ELSE s[j + 1]

LEMMA Removed ==
  ASSUME NEW S, NEW s \in Seq(S), NEW i \in 1..Len(s)
  PROVE  Field!RemoveAt(s, i) \in Seq(S) /\ Lost(Field!RemoveAt(s, i), s, i)
<1> DEFINE before == SubSeq(s, 1, i - 1)
           after  == SubSeq(s, i + 1, Len(s))
<1>1. /\ before \in Seq(S) /\ Len(before) = i - 1
      /\ \A j \in 1..Len(before) : before[j] = s[j]
  OBVIOUS
<1>2. /\ after \in Seq(S) /\ Len(after) = Len(s) - i
      /\ \A j \in 1..Len(after) : after[j] = s[i + j]
  OBVIOUS
<1> HIDE DEF before, after
<1>3. /\ before \o after \in Seq(S) /\ Len(before \o after) = Len(s) - 1
      /\ \A j \in 1..(Len(s) - 1) :
           (before \o after)[j] = IF j < i THEN s[j] ELSE s[j + 1]
  <2>1. before \o after \in Seq(S) /\ Len(before \o after) = Len(before) + Len(after)
    BY <1>1, <1>2, ConcatProperties
  <2>2. Len(before) + Len(after) = Len(s) - 1
    BY <1>1, <1>2
  <2>3. ASSUME NEW j \in 1..(Len(s) - 1)
        PROVE  (before \o after)[j] = IF j < i THEN s[j] ELSE s[j + 1]
    <3>1. CASE j < i
      <4>1. j \in 1..Len(before)
        BY <1>1, <3>1
      <4> QED BY <1>1, <1>2, <3>1, <4>1
    <3>2. CASE j >= i
      <4>1. j - (i - 1) \in 1..Len(after) /\ j > Len(before)
        BY <1>1, <1>2, <3>2
      <4>2. (before \o after)[j] = after[j - (i - 1)]
        BY <1>1, <1>2, <2>1, <3>2, <4>1
      <4>3. after[j - (i - 1)] = s[i + (j - (i - 1))] /\ i + (j - (i - 1)) = j + 1
        BY <1>2, <4>1
      <4> QED BY <3>2, <4>2, <4>3
    <3>3. j < i \/ j >= i
      OBVIOUS
    <3> QED BY <3>1, <3>2, <3>3
  <2>4. \A j \in 1..(Len(s) - 1) :
          (before \o after)[j] = IF j < i THEN s[j] ELSE s[j + 1]
    BY ONLY <2>3, Zenon
  <2>5. before \o after \in Seq(S) /\ Len(before \o after) = Len(s) - 1
    BY ONLY <2>1, <2>2, Zenon
  <2> QED BY ONLY <2>4, <2>5, Zenon
<1>4. Field!RemoveAt(s, i) = before \o after
  BY DEF Field!RemoveAt, before, after
<1> QED BY <1>3, <1>4 DEF Lost

LEMMA Shorter ==
  ASSUME NEW S, NEW s \in Seq(S), NEW i \in 1..Len(s)
  PROVE  /\ Field!RemoveAt(s, i) \in Seq(S)
         /\ \A j \in 1..Len(Field!RemoveAt(s, i)) :
              \E k \in 1..Len(s) : Field!RemoveAt(s, i)[j] = s[k]
<1>1. \A j \in 1..(Len(s) - 1) : j \in 1..Len(s) /\ j + 1 \in 1..Len(s)
  OBVIOUS
<1> QED BY <1>1, Removed DEF Lost

LEMMA TailShorter ==
  ASSUME NEW S, NEW s \in Seq(S), s # <<>>
  PROVE  /\ Tail(s) \in Seq(S)
         /\ \A j \in 1..Len(Tail(s)) : \E k \in 1..Len(s) : Tail(s)[j] = s[k]
         /\ Lost(Tail(s), s, 1)
<1>1. \A j \in 1..Len(Tail(s)) : j + 1 \in 1..Len(s) /\ Tail(s)[j] = s[j + 1]
  OBVIOUS
<1>2. Len(Tail(s)) = Len(s) - 1
  OBVIOUS
<1> QED BY <1>1, <1>2 DEF Lost

(* A merged document says what either of the two says. *)
LEMMA Merged ==
  ASSUME NEW doc \in Docs, NEW q \in Patches, NEW v, NEW c, NEW f,
         SaidIn(doc, v, c, f), SaidIn(q, v, c, f)
  PROVE  /\ Field!Patched(doc, q) \in Docs /\ SaidIn(Field!Patched(doc, q), v, c, f)
         /\ Doc!Atomic!Patched(doc, q) = Field!Patched(doc, q)
<1>1. /\ Field!Patched(doc, q) \in Docs
      /\ Field!Patched(doc, q)["status"] =
           IF "status" \in DOMAIN q THEN q["status"] ELSE doc["status"]
      /\ Field!Patched(doc, q)["messages"] =
           IF "messages" \in DOMAIN q THEN q["messages"] ELSE doc["messages"]
      /\ Field!Patched(doc, q)["output"] =
           IF "output" \in DOMAIN q THEN q["output"] ELSE doc["output"]
  BY DEF Field!Patched, Docs, Keys, Patches
<1>2. Doc!Atomic!Patched(doc, q) = Field!Patched(doc, q)
  BY DEF Field!Patched, Doc!Atomic!Patched
<1>3. "status" \in DOMAIN doc /\ "messages" \in DOMAIN doc /\ "output" \in DOMAIN doc
  BY DEF Docs, Keys
<1>4. Fits(Field!Patched(doc, q))
  BY <1>1, <1>3 DEF SaidIn, Fits
<1> QED BY <1>1, <1>2, <1>3, <1>4 DEF SaidIn

(* What is said stays said. *)
LEMMA StillSaid ==
  ASSUME Grows, NEW doc, SaidIn(doc, verdict, pc, front)
  PROVE  SaidIn(doc, verdict', pc', front')
BY DEF Grows, SaidIn

LEMMA QueueShrinks ==
  ASSUME AuthorInv, Grows, NEW p \in Processes, NEW i \in 1..Len(pending[p]),
         NEW rest \in Seq(Writes), pending' = [pending EXCEPT ![p] = rest],
         \A j \in 1..Len(rest) : \E k \in 1..Len(pending[p]) : rest[j] = pending[p][k]
  PROVE  /\ pending' \in [Processes -> Seq(Writes)]
         /\ \A q \in Processes : \A j \in 1..Len(pending'[q]) :
              SaidIn(pending'[q][j].patch, verdict', pc', front')
<1>1. pending' \in [Processes -> Seq(Writes)] /\ pending'[p] = rest
  BY DEF AuthorInv
<1>2. ASSUME NEW q \in Processes, NEW j \in 1..Len(pending'[q])
      PROVE  SaidIn(pending'[q][j].patch, verdict', pc', front')
  <2>1. \E k \in 1..Len(pending[q]) : pending'[q][j] = pending[q][k]
    BY <1>1, <1>2 DEF AuthorInv
  <2> QED BY <2>1, StillSaid DEF AuthorInv
<1> QED BY <1>1, <1>2

LEMMA QueueStays ==
  ASSUME AuthorInv, Grows, UNCHANGED pending
  PROVE  /\ pending' \in [Processes -> Seq(Writes)]
         /\ \A q \in Processes : \A j \in 1..Len(pending'[q]) :
              SaidIn(pending'[q][j].patch, verdict', pc', front')
BY StillSaid DEF AuthorInv

LEMMA NextStays ==
  ASSUME AuthorInv, Grows, UNCHANGED next
  PROVE  /\ next' \in [Processes -> Docs \cup {NoDoc}]
         /\ \A q \in Processes : next'[q] # NoDoc => SaidIn(next'[q], verdict', pc', front')
BY StillSaid DEF AuthorInv

LEMMA NextMoves ==
  ASSUME AuthorInv, Grows, NEW p \in Processes, NEW doc \in Docs \cup {NoDoc},
         next' = [next EXCEPT ![p] = doc],
         doc # NoDoc => SaidIn(doc, verdict, pc, front)
  PROVE  /\ next' \in [Processes -> Docs \cup {NoDoc}]
         /\ \A q \in Processes : next'[q] # NoDoc => SaidIn(next'[q], verdict', pc', front')
<1>1. next' \in [Processes -> Docs \cup {NoDoc}]
  BY DEF AuthorInv
<1>2. ASSUME NEW q \in Processes, next'[q] # NoDoc PROVE SaidIn(next'[q], verdict, pc, front)
  BY <1>2 DEF AuthorInv
<1> QED BY <1>1, <1>2, StillSaid

(* The four things that happen to the store. *)
LEMMA Untouched ==
  ASSUME AuthorInv, Grows, UNCHANGED store
  PROVE  AuthorInv'
<1>1. record' = record /\ pending' = pending /\ next' = next
  BY DEF store
<1>2. SaidIn(record', verdict', pc', front')
  BY <1>1, StillSaid DEF AuthorInv
<1> QED BY <1>1, <1>2, QueueStays, NextStays DEF AuthorInv

LEMMA Submitted ==
  ASSUME AuthorInv, Grows, NEW p \in Processes, NEW q \in Patches, NEW awaited \in BOOLEAN,
         Update(p, q, awaited), SaidIn(q, verdict', pc', front')
  PROVE  AuthorInv'
<1> DEFINE w == [patch |-> q, awaited |-> awaited]
<1>1. /\ record' = record /\ next' = next
      /\ pending' = [pending EXCEPT ![p] = Append(pending[p], w)]
  BY DEF Update
<1>2. w \in Writes /\ w.patch = q
  BY DEF Writes
<1>3. pending' \in [Processes -> Seq(Writes)]
  BY <1>1, <1>2 DEF AuthorInv
<1>4. ASSUME NEW r \in Processes, NEW j \in 1..Len(pending'[r])
      PROVE  SaidIn(pending'[r][j].patch, verdict', pc', front')
  <2>1. CASE r # p
    BY <1>1, <1>4, <2>1, StillSaid DEF AuthorInv
  <2>2. CASE r = p
    <3>1. pending[p] \in Seq(Writes) /\ pending'[p] = Append(pending[p], w)
      BY <1>1 DEF AuthorInv
    <3>2. CASE j = Len(pending[p]) + 1
      BY <1>2, <2>2, <3>1, <3>2
    <3>3. CASE j \in 1..Len(pending[p])
      <4>1. pending'[p][j] = pending[p][j]
        BY <3>1, <3>3
      <4> QED BY <2>2, <3>3, <4>1, StillSaid DEF AuthorInv
    <3> QED BY <1>4, <2>2, <3>1, <3>2, <3>3
  <2> QED BY <2>1, <2>2
<1>5. SaidIn(record', verdict', pc', front')
  BY <1>1, StillSaid DEF AuthorInv
<1> QED BY <1>1, <1>3, <1>4, <1>5, NextStays DEF AuthorInv

LEMMA Created ==
  ASSUME AuthorInv, Grows, record' = [record EXCEPT !.status = "queued"],
         UNCHANGED <<pending, next>>
  PROVE  AuthorInv'
<1>1. record' = [record EXCEPT !["status"] = "queued"]
  BY DEF AuthorInv, Docs, Keys
<1>2. record' \in Docs
  BY <1>1 DEF AuthorInv, Docs, Keys, Cells, Statuses
<1>3. /\ record'["status"] = "queued"
      /\ record'["messages"] = record["messages"] /\ record'["output"] = record["output"]
  BY <1>1 DEF AuthorInv, Docs, Keys
<1>4. Fits(record')
  BY <1>2, <1>3 DEF AuthorInv, SaidIn, Fits, Statuses, Docs, Keys
<1>5. SaidIn(record', verdict', pc', front')
  BY <1>3, <1>4 DEF SaidIn, Said, Results
<1> QED BY <1>2, <1>5, QueueStays, NextStays DEF AuthorInv

LEMMA FieldSettles ==
  ASSUME AuthorInv, Grows, NEW p \in Processes, NEW i \in 1..Len(pending[p]),
         Field!Apply(p, i) \/ Field!Drop(p, i), UNCHANGED next
  PROVE  AuthorInv'
<1>1. pending' = [pending EXCEPT ![p] = Field!RemoveAt(pending[p], i)]
  BY DEF Field!Apply, Field!Drop, Field!Answered
<1>2. pending[p] \in Seq(Writes) /\ pending[p][i] \in Writes
  BY DEF AuthorInv
<1>3. /\ pending' \in [Processes -> Seq(Writes)]
      /\ \A q \in Processes : \A j \in 1..Len(pending'[q]) :
           SaidIn(pending'[q][j].patch, verdict', pc', front')
  BY <1>1, <1>2, Shorter, QueueShrinks
<1>4. /\ record' \in Docs
      /\ SaidIn(record', verdict, pc, front)
  <2>1. CASE Field!Drop(p, i)
    BY <2>1 DEF Field!Drop, AuthorInv
  <2>2. CASE Field!Apply(p, i)
    <3>1. record' = Field!Patched(record, pending[p][i].patch)
      BY <2>2 DEF Field!Apply
    <3>2. pending[p][i].patch \in Patches /\ SaidIn(pending[p][i].patch, verdict, pc, front)
      BY <1>2 DEF Writes, AuthorInv
    <3> QED BY <3>1, <3>2, Merged DEF AuthorInv
  <2> QED BY <2>1, <2>2
<1>5. SaidIn(record', verdict', pc', front')
  BY <1>4, StillSaid
<1> QED BY <1>3, <1>4, <1>5, NextStays DEF AuthorInv

LEMMA DocSettles ==
  ASSUME AuthorInv, Grows, NEW p \in Processes, 1 \in 1..Len(pending[p]),
         Doc!Patch(p) \/ Doc!Drop(p)
  PROVE  AuthorInv'
<1>1. /\ pending' = [pending EXCEPT ![p] = Tail(pending[p])]
      /\ next' = [next EXCEPT ![p] = NoDoc]
  BY DEF Doc!Patch, Doc!Drop, Doc!Advance
<1>2. pending[p] \in Seq(Writes) /\ pending[p] # <<>>
  BY DEF AuthorInv
<1>3. /\ pending' \in [Processes -> Seq(Writes)]
      /\ \A q \in Processes : \A j \in 1..Len(pending'[q]) :
           SaidIn(pending'[q][j].patch, verdict', pc', front')
  BY <1>1, <1>2, TailShorter, QueueShrinks
<1>4. record' \in Docs /\ SaidIn(record', verdict, pc, front)
  BY DEF Doc!Patch, Doc!Drop, AuthorInv
<1>5. SaidIn(record', verdict', pc', front')
  BY <1>4, StillSaid
<1>6. /\ next' \in [Processes -> Docs \cup {NoDoc}]
      /\ \A q \in Processes : next'[q] # NoDoc => SaidIn(next'[q], verdict', pc', front')
  BY <1>1, NextMoves
<1> QED BY <1>3, <1>4, <1>5, <1>6 DEF AuthorInv

LEMMA DocReads ==
  ASSUME AuthorInv, Grows, NEW p \in Processes, Doc!Get(p)
  PROVE  AuthorInv'
<1>1. /\ record' = record /\ pending' = pending /\ pending[p] # <<>>
      /\ next' = [next EXCEPT ![p] = Doc!Atomic!Patched(record, Head(pending[p]).patch)]
  BY DEF Doc!Get
<1>2. /\ 1 \in 1..Len(pending[p]) /\ Head(pending[p]) = pending[p][1]
      /\ pending[p][1] \in Writes
  BY <1>1 DEF AuthorInv
<1>3. /\ Head(pending[p]).patch \in Patches
      /\ SaidIn(Head(pending[p]).patch, verdict, pc, front)
  BY <1>2 DEF Writes, AuthorInv
<1>4. /\ Doc!Atomic!Patched(record, Head(pending[p]).patch) \in Docs
      /\ SaidIn(Doc!Atomic!Patched(record, Head(pending[p]).patch), verdict, pc, front)
  BY <1>3, Merged DEF AuthorInv
<1>5. /\ next' \in [Processes -> Docs \cup {NoDoc}]
      /\ \A q \in Processes : next'[q] # NoDoc => SaidIn(next'[q], verdict', pc', front')
  BY <1>1, <1>4, NextMoves
<1>6. SaidIn(record', verdict', pc', front')
  BY <1>1, StillSaid DEF AuthorInv
<1> QED BY <1>1, <1>5, <1>6, QueueStays DEF AuthorInv

-----------------------------------------------------------------------------
CountInv == turns \in [Executors -> 0..MaxSteps]

LEMMA CountStart == Init => CountInv
BY LifecycleAssumption DEF Init, CountInv

LEMMA CountStep == CountInv /\ [Next]_vars => CountInv'
<1> SUFFICES ASSUME CountInv, [Next]_vars PROVE CountInv'
  OBVIOUS
<1>1. CASE UNCHANGED turns
  BY <1>1 DEF CountInv
<1>2. CASE FrontDoor \/ FrontDies \/ UNCHANGED vars \/ Accept \/ Reject \/ Watch
  <2>1. UNCHANGED turns
    BY <1>2 DEF FrontDoor, FrontDies, Refuse, Create, Dispatch, DispatchThrows, ReplyOk,
       ReplyError, Check, MarkFailed, MoveFront, executor, vars, Accept, Reject, Watch, Await,
       Poll, Deadline
  <2> QED BY <1>1, <2>1
<1>3. ASSUME NEW e \in Executors, Deliver(e) \/ ProcessRun(e) \/ Exit(e) \/ ExecutorDies(e)
      PROVE  CountInv'
  <2>1. CASE Turn(e)
    BY <2>1, LifecycleAssumption DEF Turn, CountInv
  <2>2. CASE ~Turn(e)
    <3>1. UNCHANGED turns
      BY <1>3, <2>2 DEF Deliver, Exit, ExecutorDies, ProcessRun, Claim, StartSession,
         ResolveTools, Clone, Report, LoopThrows, Fail, Push, Note, Close, Rescue
    <3> QED BY <1>1, <3>1
  <2> QED BY <2>1, <2>2
<1>4. ASSUME NEW p \in Processes, StoreStep(p) PROVE CountInv'
  <2>1. UNCHANGED turns
    BY <1>4 DEF StoreStep, Reads, Lands, Fails, Settle, executor
  <2> QED BY <1>1, <2>1
<1> QED BY <1>2, <1>3, <1>4 DEF Next

LEMMA AuthorStart == Init => AuthorInv
<1> SUFFICES ASSUME Init PROVE AuthorInv
  OBVIOUS
<1>1. /\ record \in Docs
      /\ record["status"] = "none" /\ record["messages"] = 0 /\ record["output"] = "none"
  <2>1. "none" \in Cells /\ 0 \in Cells
    BY DEF Cells, Statuses
  <2>2. record = [status |-> "none", messages |-> 0, output |-> "none"]
    BY DEF Init, Uncreated
  <2> QED BY <2>1, <2>2 DEF Docs, Keys
<1>2. SaidIn(record, verdict, pc, front)
  <2>1. Fits(record)
    BY <1>1, LifecycleAssumption DEF Fits, Statuses, Outputs
  <2> QED BY <1>1, <2>1 DEF SaidIn, Said, Results
<1>3. pending \in [Processes -> Seq(Writes)] /\ \A p \in Processes : pending[p] = <<>>
  BY DEF Init
<1>4. next \in [Processes -> Docs \cup {NoDoc}] /\ \A p \in Processes : next[p] = NoDoc
  BY DEF Init
<1> QED BY <1>1, <1>2, <1>3, <1>4 DEF AuthorInv

(* The patches that are ever submitted. *)
Fitting == {q \in Patches : Fits(q)}

LEMMA PatchTypes ==
  /\ \A s \in Statuses : [status |-> s] \in Fitting
  /\ \A n \in 0..MaxSteps : [messages |-> n] \in Fitting
  /\ \A o \in Outputs : [output |-> o] \in Fitting
  /\ \A s \in Statuses, o \in Outputs : [status |-> s, output |-> o] \in Fitting
<1> USE DEF Fitting, Fits
<1>1. ASSUME NEW s \in Statuses PROVE [status |-> s] \in Fitting
  <2>1. [status |-> s] \in [{"status"} -> Cells]
    BY DEF Cells
  <2> QED BY <2>1 DEF Patches, Keys
<1>2. ASSUME NEW n \in 0..MaxSteps PROVE [messages |-> n] \in Fitting
  <2>1. [messages |-> n] \in [{"messages"} -> Cells]
    BY LifecycleAssumption DEF Cells
  <2> QED BY <2>1 DEF Patches, Keys
<1>3. ASSUME NEW o \in Outputs PROVE [output |-> o] \in Fitting
  <2>1. [output |-> o] \in [{"output"} -> Cells]
    BY DEF Cells
  <2> QED BY <2>1 DEF Patches, Keys
<1>4. ASSUME NEW s \in Statuses, NEW o \in Outputs
      PROVE  [status |-> s, output |-> o] \in Fitting
  <2>1. [status |-> s, output |-> o] \in [{"status", "output"} -> Cells]
    BY DEF Cells
  <2> QED BY <2>1 DEF Patches, Keys
<1> QED BY <1>1, <1>2, <1>3, <1>4

(* What is submitted has its author. *)
LEMMA ExecutorSubmits ==
  ASSUME AuthorInv, SpeakInv, CountInv, Grows, NEW e \in Executors, ProcessRun(e)
  PROVE  AuthorInv'
<1> USE PatchTypes DEF Fitting
<1>0. e \in Processes
  BY DEF Processes
<1>1. CASE UNCHANGED store
  BY <1>1, Untouched
<1>2. CASE Claim(e)
  <2>1. CASE Goto(e, "claiming") /\ Update(e, [status |-> "running"], TRUE)
    <3>1. pc'[e] # "idle"
      BY <2>1 DEF Goto, SpeakInv
    <3>2. SaidIn([status |-> "running"], verdict', pc', front')
      BY <3>1 DEF SaidIn, Said, Results, Statuses
    <3> QED BY <1>0, <2>1, <3>2, Submitted DEF Statuses
  <2> QED BY <1>1, <1>2, <2>1 DEF Claim
<1>3. CASE Turn(e)
  <2>1. turns'[e] \in 0..MaxSteps
    BY <1>3, LifecycleAssumption DEF Turn, CountInv
  <2>2. SaidIn([messages |-> turns'[e]], verdict', pc', front')
    BY <2>1 DEF SaidIn
  <2> QED BY <1>0, <1>3, <2>1, <2>2, Submitted DEF Turn
<1>4. CASE Report(e)
  <2>1. PICK r \in Results : verdict' = [verdict EXCEPT ![e] = r] /\ Update(e, Reported(r), TRUE)
    BY <1>4 DEF Report, EndsAs
  <2>2. verdict'[e] = r
    BY <2>1 DEF SpeakInv
  <2>3. Reported(r) \in Fitting
    BY DEF Reported, Statuses, Terminal, Outputs
  <2>4. Reported(r)["status"] = r
    BY DEF Reported
  <2>5. SaidIn(Reported(r), verdict', pc', front')
    BY <2>2, <2>3, <2>4 DEF SaidIn, Said, Results
  <2> QED BY <1>0, <2>1, <2>3, <2>5, Submitted
<1>5. CASE Fail(e) \/ Rescue(e)
  <2>1. verdict' = [verdict EXCEPT ![e] = "failed"] /\ Update(e, [status |-> "failed"], TRUE)
    BY <1>5 DEF Fail, Rescue
  <2>2. SaidIn([status |-> "failed"], verdict', pc', front')
    BY <2>1 DEF SaidIn, Said, Results, SpeakInv, Statuses, Terminal
  <2> QED BY <1>0, <2>1, <2>2, Submitted DEF Statuses, Terminal
<1>6. CASE Note(e)
  <2>1. WithNote(reread[e]) \in Outputs
    BY DEF WithNote, Outputs
  <2>2. SaidIn([output |-> WithNote(reread[e])], verdict', pc', front')
    BY <2>1 DEF SaidIn
  <2> QED BY <1>0, <1>6, <2>1, <2>2, Submitted DEF Note
<1>7. CASE StartSession(e) \/ ResolveTools(e) \/ Clone(e) \/ LoopThrows(e) \/ Push(e) \/ Close(e)
  BY <1>1, <1>7 DEF StartSession, ResolveTools, Clone, LoopThrows, Push, Close
<1> QED BY <1>2, <1>3, <1>4, <1>5, <1>6, <1>7 DEF ProcessRun

LEMMA AuthorStep ==
  AuthorInv /\ SpeakInv /\ CountInv /\ Grows /\ [Next]_vars => AuthorInv'
<1> SUFFICES ASSUME AuthorInv, SpeakInv, CountInv, Grows, [Next]_vars PROVE AuthorInv'
  OBVIOUS
<1>1. CASE UNCHANGED store
  BY <1>1, Untouched
<1>2. CASE UNCHANGED vars \/ FrontDies \/ Accept \/ Reject \/ Watch
  BY <1>1, <1>2 DEF vars, FrontDies, Accept, Reject, Watch, Await, Poll, Deadline
<1>3. CASE FrontDoor
  <2>1. CASE Create
    BY <2>1, Created DEF Create
  <2>2. CASE MarkFailed
    <3>1. /\ Front \in Processes
          /\ SaidIn([status |-> "failed"], verdict', pc', front')
      BY <2>2, PatchTypes DEF Processes, MarkFailed, MoveFront, SaidIn, Said, Results, Statuses,
         Terminal, Fitting
    <3>2. Update(Front, [status |-> "failed"], TRUE)
      BY <2>2 DEF MarkFailed
    <3> QED BY <3>1, <3>2, PatchTypes, Submitted DEF Statuses, Terminal, Fitting
  <2>3. CASE Refuse \/ Dispatch \/ DispatchThrows \/ ReplyOk \/ ReplyError \/ Check
    BY <1>1, <2>3 DEF Refuse, Dispatch, DispatchThrows, ReplyOk, ReplyError, Check
  <2> QED BY <1>3, <2>1, <2>2, <2>3 DEF FrontDoor
<1>4. ASSUME NEW e \in Executors, Deliver(e) \/ ProcessRun(e) \/ Exit(e) \/ ExecutorDies(e)
      PROVE  AuthorInv'
  BY <1>1, <1>4, ExecutorSubmits DEF Deliver, Exit, ExecutorDies
<1>5. ASSUME NEW p \in Processes, StoreStep(p) PROVE AuthorInv'
  <2>1. CASE Reads(p)
    BY <2>1, DocReads DEF Reads
  <2>2. CASE \E i \in DOMAIN pending[p] : Lands(p, i) \/ Fails(p, i)
    <3>1. PICK i \in DOMAIN pending[p] : Lands(p, i) \/ Fails(p, i)
      BY <2>2
    <3>2. i \in 1..Len(pending[p])
      BY <3>1 DEF AuthorInv
    <3>3. CASE wholeDoc
      <4>1. i = 1 /\ (Doc!Patch(p) \/ Doc!Drop(p))
        BY <3>1, <3>3 DEF Lands, Fails
      <4> QED BY <3>2, <4>1, DocSettles
    <3>4. CASE ~wholeDoc
      <4>1. (Field!Apply(p, i) \/ Field!Drop(p, i)) /\ UNCHANGED next
        BY <3>1, <3>4 DEF Lands, Fails
      <4> QED BY <3>2, <4>1, FieldSettles
    <3> QED BY <3>3, <3>4
  <2> QED BY <1>5, <2>1, <2>2 DEF StoreStep
<1> QED BY <1>2, <1>3, <1>4, <1>5 DEF Next

(* dispatch.ts:85-98, process-run.ts:43-130, agent-engine.ts: for any       *)
(* executors, either store, any substrate, any faults and any step limit,   *)
(* the status a poller reads was said by an executor, or by a front door    *)
(* that marked the run after its dispatch failed.                           *)
THEOREM StatusHasAuthorHolds == Spec => []StatusHasAuthor
<1>1. AuthorInv => StatusHasAuthor
  <2> SUFFICES ASSUME AuthorInv PROVE StatusHasAuthor
    OBVIOUS
  <2>1. "status" \in DOMAIN record /\ record["status"] = record.status
    BY DEF AuthorInv, Docs, Keys
  <2>2. Said(record.status, verdict, pc, front)
    BY <2>1 DEF AuthorInv, SaidIn
  <2> QED BY <2>2 DEF Said, StatusHasAuthor, Delivered
<1> QED BY <1>1, AuthorStart, AuthorStep, SpeakStart, SpeakStep, CountStart, CountStep,
           NotYetStart, NotYetStep, PTL DEF Spec

-----------------------------------------------------------------------------
(* The rest of the state is typed by what each step assigns. *)
PlacesOK ==
  /\ <<mode, wholeDoc>> \in Deployments /\ coder \in BOOLEAN
  /\ front \in FrontPlaces
  /\ request \in {"none", "transit", "accepted", "rejected"}

HeldOK ==
  /\ raised \in [Executors -> BOOLEAN]
  /\ session \in [Executors -> {"none", "open", "closed"}]
  /\ workspace \in [Executors -> {"none", "cloned", "pushed"}]
  /\ reread \in [Executors -> Outputs]

WatchOK == watch \in [at : {"off", "polling", "polled", "answered", "gave up"}, seen : Statuses]

LEMMA RestStart == Init => PlacesOK /\ HeldOK /\ WatchOK
<1> SUFFICES ASSUME Init PROVE PlacesOK /\ HeldOK /\ WatchOK
  OBVIOUS
<1>1. <<mode, wholeDoc>> \in Deployments
  <2>1. PICK d \in Deployments : mode = d[1] /\ wholeDoc = d[2]
    BY DEF Init
  <2>2. d \in AllModes \X BOOLEAN
    BY LifecycleAssumption
  <2> QED BY <2>1, <2>2
<1> QED BY <1>1 DEF Init, PlacesOK, HeldOK, WatchOK, FrontPlaces, Statuses, Outputs

LEMMA PlacesStep == PlacesOK /\ [Next]_vars => PlacesOK'
<1> SUFFICES ASSUME PlacesOK, [Next]_vars PROVE PlacesOK'
  OBVIOUS
<1> USE DEF PlacesOK, given
<1>1. CASE FrontDoor \/ FrontDies
  BY <1>1 DEF FrontDoor, FrontDies, Refuse, Create, Dispatch, DispatchThrows, ReplyOk, ReplyError,
     Check, MarkFailed, MoveFront, Failed, FrontPlaces
<1>2. CASE UNCHANGED vars \/ Accept \/ Reject \/ Watch
  BY <1>2 DEF vars, Accept, Reject, Watch, Await, Poll, Deadline
<1>3. ASSUME NEW e \in Executors, Deliver(e) \/ ProcessRun(e) \/ Exit(e) \/ ExecutorDies(e)
      PROVE  UNCHANGED <<given, front, request>>
  BY <1>3 DEF Deliver, Exit, ExecutorDies, ProcessRun, Claim, StartSession, ResolveTools, Clone,
     Turn, Report, LoopThrows, Fail, Push, Note, Close, Rescue, others
<1>4. ASSUME NEW p \in Processes, StoreStep(p)
      PROVE  UNCHANGED <<given, request>> /\ front' \in {front, "done"}
  <2>1. CASE Reads(p)
    BY <2>1 DEF Reads
  <2>2. CASE \E i \in DOMAIN pending[p] : Lands(p, i) \/ Fails(p, i)
    <3>1. PICK i : \E ok \in BOOLEAN : Settle(p, i, ok)
      BY <2>2 DEF Lands, Fails
    <3> QED BY <3>1 DEF Settle
  <2> QED BY <1>4, <2>1, <2>2 DEF StoreStep
<1> QED BY <1>1, <1>2, <1>3, <1>4 DEF Next, FrontPlaces

(* What is read back from the record is an output. *)
LEMMA StoredFits ==
  ASSUME AuthorInv
  PROVE  record \in [status : Statuses, messages : 0..MaxSteps, output : Outputs]
<1>1. record = [k \in {"status", "messages", "output"} |-> record[k]] /\ Fits(record)
      /\ DOMAIN record = {"status", "messages", "output"}
  BY DEF AuthorInv, SaidIn, Docs, Keys
<1>2. /\ record["status"] \in Statuses /\ record["messages"] \in 0..MaxSteps
      /\ record["output"] \in Outputs
  BY <1>1 DEF Fits
<1> QED BY <1>1, <1>2

LEMMA HeldStep == HeldOK /\ AuthorInv /\ [Next]_vars => HeldOK'
<1> SUFFICES ASSUME HeldOK, AuthorInv, [Next]_vars PROVE HeldOK'
  OBVIOUS
<1>0. "none" \in Outputs /\ record.output \in Outputs
  BY StoredFits DEF Outputs
<1> USE DEF HeldOK
<1>1. CASE FrontDoor \/ FrontDies \/ UNCHANGED vars \/ Accept \/ Reject \/ Watch
  BY <1>1 DEF FrontDoor, FrontDies, Refuse, Create, Dispatch, DispatchThrows, ReplyOk, ReplyError,
     Check, MarkFailed, MoveFront, executor, vars, Accept, Reject, Watch, Await, Poll, Deadline
<1>2. ASSUME NEW e \in Executors, Deliver(e) \/ Exit(e) \/ ExecutorDies(e) PROVE HeldOK'
  BY <1>2 DEF Deliver, Exit, ExecutorDies
<1>3. ASSUME NEW e \in Executors, ProcessRun(e) PROVE HeldOK'
  <2>1. CASE Claim(e) \/ StartSession(e) \/ ResolveTools(e)
    BY <2>1 DEF Claim, StartSession, ResolveTools, Throw
  <2>2. CASE Clone(e) \/ Turn(e) \/ Report(e) \/ LoopThrows(e) \/ Fail(e) \/ Note(e) \/ Close(e)
             \/ Rescue(e)
    BY <2>2 DEF Clone, Turn, Report, LoopThrows, Fail, Note, Close, Rescue
  <2>3. CASE Push(e)
    <3>1. PICK seen \in Outputs : reread' = [reread EXCEPT ![e] = seen]
      BY <1>0, <2>3 DEF Push
    <3> QED BY <2>3, <3>1 DEF Push
  <2> QED BY <1>3, <2>1, <2>2, <2>3 DEF ProcessRun
<1>4. ASSUME NEW p \in Processes, StoreStep(p) PROVE HeldOK'
  <2>1. CASE Reads(p)
    BY <2>1 DEF Reads, executor
  <2>2. CASE \E i \in DOMAIN pending[p] : Lands(p, i) \/ Fails(p, i)
    <3>1. PICK i : \E ok \in BOOLEAN : Settle(p, i, ok)
      BY <2>2 DEF Lands, Fails
    <3>2. PICK ok \in BOOLEAN : Settle(p, i, ok)
      BY <3>1
    <3>3. UNCHANGED <<session, workspace, reread>>
      BY <3>2 DEF Settle
    <3>4. CASE UNCHANGED raised
      BY <3>3, <3>4
    <3>5. CASE p # Front /\ Resume(p, ok)
      <4>1. UNCHANGED raised \/ \E b \in BOOLEAN : raised' = [raised EXCEPT ![p] = b]
        BY <3>5 DEF Resume, Throw
      <4> QED BY <3>3, <4>1
    <3> QED BY <3>2, <3>4, <3>5 DEF Settle
  <2> QED BY <1>4, <2>1, <2>2 DEF StoreStep
<1> QED BY <1>1, <1>2, <1>3, <1>4 DEF Next

(* Only the poll itself moves what awaitRun has seen. *)
LEMMA OnlyWatched ==
  ASSUME [Next]_vars
  PROVE  Watch \/ UNCHANGED watch
<1>1. CASE FrontDoor \/ FrontDies \/ UNCHANGED vars \/ Accept \/ Reject
  BY <1>1 DEF FrontDoor, FrontDies, Refuse, Create, Dispatch, DispatchThrows, ReplyOk, ReplyError,
     Check, MarkFailed, MoveFront, vars, Accept, Reject
<1>2. ASSUME NEW e \in Executors, Deliver(e) \/ ProcessRun(e) \/ Exit(e) \/ ExecutorDies(e)
      PROVE  UNCHANGED watch
  BY <1>2 DEF Deliver, Exit, ExecutorDies, ProcessRun, Claim, StartSession, ResolveTools, Clone,
     Turn, Report, LoopThrows, Fail, Push, Note, Close, Rescue, others
<1>3. ASSUME NEW p \in Processes, StoreStep(p) PROVE UNCHANGED watch
  BY <1>3 DEF StoreStep, Reads, Lands, Fails, Settle
<1> QED BY <1>1, <1>2, <1>3 DEF Next

LEMMA WatchStep == WatchOK /\ AuthorInv /\ [Next]_vars => WatchOK'
<1> SUFFICES ASSUME WatchOK, AuthorInv, [Next]_vars PROVE WatchOK'
  OBVIOUS
<1>1. record.status \in Statuses
  BY StoredFits
<1>2. CASE Watch
  <2>1. CASE Poll
    BY <1>1, <2>1 DEF Poll, WatchOK
  <2>2. ASSUME NEW at \in {"polling", "gave up"}, watch' = [watch EXCEPT !.at = at]
        PROVE  WatchOK'
    BY <2>2 DEF WatchOK
  <2> QED BY <1>2, <2>1, <2>2 DEF Watch, Await, Deadline
<1> QED BY <1>2, OnlyWatched DEF WatchOK

LEMMA TypesHold ==
  AuthorInv /\ SpeakInv /\ CountInv /\ PlacesOK /\ HeldOK /\ WatchOK => TypeOK
<1> SUFFICES ASSUME AuthorInv, SpeakInv, CountInv, PlacesOK, HeldOK, WatchOK PROVE TypeOK
  OBVIOUS
<1>1. ASSUME NEW p \in Processes, NEW i \in DOMAIN pending[p]
      PROVE  pending[p][i].awaited \in BOOLEAN
  <2>1. pending[p][i] \in Writes
    BY DEF AuthorInv
  <2> QED BY <2>1 DEF Writes
<1> QED BY <1>1, StoredFits DEF SpeakInv, CountInv, PlacesOK, HeldOK, WatchOK, TypeOK

(* run-store.ts, process-run.ts: for any constants and any faults every     *)
(* stored field, outstanding write and executor's place is of its kind.     *)
THEOREM TypesAlways == Spec => []TypeOK
BY AuthorStart, AuthorStep, SpeakStart, SpeakStep, CountStart, CountStep, NotYetStart, NotYetStep,
   RestStart, PlacesStep, HeldStep, WatchStep, TypesHold, PTL DEF Spec

-----------------------------------------------------------------------------
(* Where nothing but the run's own work goes wrong (no lost reply, no       *)
(* failing store, no crash and no second delivery), one executor at most    *)
(* comes to life, and its writes, one awaited and any number of progress    *)
(* writes before it, are the only ones but for a failed dispatch.           *)
Contained == Faults \subseteq {"dispatch", "session", "toolset", "clone", "loop"}

Waiting   == {"claiming", "reporting", "failing", "noting", "rescuing"}
Undecided == {"get", "claiming", "start", "resolve", "clone", "think", "reporting", "fail",
              "failing", "rescue", "rescuing"}
Decided   == {"push", "note", "noting", "close", "ended", "exited"}
Busy      == Waiting \cup {"think", "fail"}
Answers   == {"answer", "answer and note"}

Awaits(w) == w.awaited = TRUE
Tells(w)  == "messages" \in DOMAIN w.patch

(* What an executor at place c with verdict v has asked the store for. *)
Asked(k, c, v, rr) ==
  /\ c \in Waiting
  /\ c = "claiming" => DOMAIN k = {"status"} /\ k["status"] = "running"
  /\ c = "reporting" =>
       /\ DOMAIN k \in {{"status"}, {"status", "output"}}
       /\ k["status"] = v
       /\ v = "completed" => "output" \in DOMAIN k /\ k["output"] = "answer"
  /\ c \in {"failing", "rescuing"} => DOMAIN k = {"status"} /\ k["status"] = "failed" /\ v = "failed"
  /\ c = "noting" => DOMAIN k = {"output"} /\ k["output"] = WithNote(rr)

(* Its queue: progress, and at the end what it waits for, if anything. *)
QueuePart(q, c, v, rr) ==
  \A i \in 1..Len(q) :
    IF Awaits(q[i]) THEN i = Len(q) /\ Asked(q[i].patch, c, v, rr)
    ELSE DOMAIN q[i].patch = {"messages"}

Progress(q) == \A i \in 1..Len(q) : ~Awaits(q[i]) /\ DOMAIN q[i].patch = {"messages"}

(* The status is open until the verdict has landed, and from then on it. *)
StatusPart(doc, c, v) ==
  /\ c \in Undecided => doc["status"] \notin Terminal
  /\ c \in Decided /\ v # "none" => doc["status"] = v

(* So does the answer of a completed run, the note on the push included. *)
AnswerPart(doc, c, v, rr) ==
  /\ c \in Decided /\ v = "completed" => doc["output"] \in Answers
  /\ c \in {"note", "noting"} /\ v = "completed" => rr \in Answers

(* In a chain the last word on the turns is the number taken. *)
Told(doc, q, t) ==
  /\ (\A i \in 1..Len(q) : ~Tells(q[i])) => doc["messages"] = t
  /\ \A i \in 1..Len(q) :
       Tells(q[i]) /\ (\A j \in 1..Len(q) : j > i => ~Tells(q[j])) => q[i].patch["messages"] = t

TurnsPart(doc, q, c, t) == Told(doc, q, t) /\ (c \notin Busy => q = <<>>)

RaisedPart(c, r) == r = TRUE => c \in {"rescue", "rescuing", "ended", "exited"}

(* The course of one executor that came to life. *)
Way(w, doc, q, c, v, t, rr, r) ==
  /\ StatusPart(doc, c, v)
  /\ QueuePart(q, c, v, rr)
  /\ AnswerPart(doc, c, v, rr)
  /\ w = TRUE => TurnsPart(doc, q, c, t)
  /\ RaisedPart(c, r)
  /\ c \in Early => v = "none"

LEMMA QueueQuiet ==
  ASSUME NEW q, NEW c, NEW v, NEW rr, QueuePart(q, c, v, rr), c \notin Waiting
  PROVE  Progress(q)
BY DEF QueuePart, Progress, Asked

LEMMA ProgressAnywhere ==
  ASSUME NEW q, Progress(q), NEW c, NEW v, NEW rr
  PROVE  QueuePart(q, c, v, rr)
BY DEF QueuePart, Progress

LEMMA Asks ==
  ASSUME NEW q \in Seq(Writes), Progress(q), NEW w \in Writes, Awaits(w),
         NEW c, NEW v, NEW rr, Asked(w.patch, c, v, rr)
  PROVE  QueuePart(Append(q, w), c, v, rr)
<1>1. /\ Len(Append(q, w)) = Len(q) + 1 /\ Append(q, w)[Len(q) + 1] = w
      /\ \A i \in 1..Len(q) : Append(q, w)[i] = q[i]
  OBVIOUS
<1>2. \A i \in 1..(Len(q) + 1) : i \in 1..Len(q) \/ i = Len(q) + 1
  OBVIOUS
<1> QED BY <1>1, <1>2 DEF QueuePart, Progress

LEMMA Progresses ==
  ASSUME NEW q \in Seq(Writes), Progress(q), NEW w \in Writes, ~Awaits(w),
         DOMAIN w.patch = {"messages"}
  PROVE  Progress(Append(q, w))
<1>1. /\ Len(Append(q, w)) = Len(q) + 1 /\ Append(q, w)[Len(q) + 1] = w
      /\ \A i \in 1..Len(q) : Append(q, w)[i] = q[i]
  OBVIOUS
<1>2. \A i \in 1..(Len(q) + 1) : i \in 1..Len(q) \/ i = Len(q) + 1
  OBVIOUS
<1> QED BY <1>1, <1>2 DEF Progress

LEMMA LosesProgress ==
  ASSUME NEW q \in Seq(Writes), NEW rest, NEW i \in 1..Len(q), Lost(rest, q, i), ~Awaits(q[i]),
         NEW c, NEW v, NEW rr, QueuePart(q, c, v, rr)
  PROVE  QueuePart(rest, c, v, rr)
<1> SUFFICES ASSUME NEW j \in 1..Len(rest)
             PROVE  IF Awaits(rest[j]) THEN j = Len(rest) /\ Asked(rest[j].patch, c, v, rr)
                    ELSE DOMAIN rest[j].patch = {"messages"}
  BY DEF QueuePart
<1>0. Len(q) \in Nat /\ Len(rest) = Len(q) - 1 /\ j \in Nat
  BY DEF Lost
<1>1. CASE j < i
  <2>1. rest[j] = q[j] /\ j \in 1..Len(q) /\ j # Len(q)
    BY <1>0, <1>1 DEF Lost
  <2> QED BY <2>1 DEF QueuePart
<1>2. CASE ~(j < i)
  <2>1. rest[j] = q[j + 1] /\ j + 1 \in 1..Len(q) /\ (j + 1 = Len(q) => j = Len(rest))
    BY <1>0, <1>2 DEF Lost
  <2> QED BY <2>1 DEF QueuePart
<1> QED BY <1>1, <1>2

LEMMA LosesAsked ==
  ASSUME NEW q \in Seq(Writes), NEW rest, NEW i \in 1..Len(q), Lost(rest, q, i), Awaits(q[i]),
         NEW c, NEW v, NEW rr, QueuePart(q, c, v, rr)
  PROVE  i = Len(q) /\ Asked(q[i].patch, c, v, rr) /\ Progress(rest)
<1>1. i = Len(q) /\ Asked(q[i].patch, c, v, rr)
  BY DEF QueuePart
<1>2. ASSUME NEW j \in 1..Len(rest)
      PROVE  ~Awaits(rest[j]) /\ DOMAIN rest[j].patch = {"messages"}
  <2>1. rest[j] = q[j] /\ j \in 1..Len(q) /\ j # Len(q)
    BY <1>1 DEF Lost
  <2> QED BY <2>1 DEF QueuePart
<1> QED BY <1>1, <1>2 DEF Progress

LEMMA ToldAsk ==
  ASSUME NEW q \in Seq(Writes), NEW w \in Writes, ~Tells(w), NEW doc, NEW t, Told(doc, q, t)
  PROVE  Told(doc, Append(q, w), t)
<1>1. /\ Len(Append(q, w)) = Len(q) + 1 /\ Append(q, w)[Len(q) + 1] = w
      /\ \A i \in 1..Len(q) : Append(q, w)[i] = q[i]
  OBVIOUS
<1>2. \A i \in 1..(Len(q) + 1) : i \in 1..Len(q) \/ i = Len(q) + 1
  OBVIOUS
<1>3. \A i \in 1..Len(q) : i \in 1..(Len(q) + 1)
  OBVIOUS
<1> QED BY <1>1, <1>2, <1>3 DEF Told

LEMMA ToldTurn ==
  ASSUME NEW q \in Seq(Writes), NEW w \in Writes, Tells(w), NEW doc
  PROVE  Told(doc, Append(q, w), w.patch["messages"])
<1>1. /\ Len(Append(q, w)) = Len(q) + 1 /\ Append(q, w)[Len(q) + 1] = w
  OBVIOUS
<1>2. \A i \in 1..(Len(q) + 1) : Len(q) + 1 > i \/ i = Len(q) + 1
  OBVIOUS
<1>3. Len(q) + 1 \in 1..(Len(q) + 1)
  OBVIOUS
<1> QED BY <1>1, <1>2, <1>3 DEF Told

(* What a patch makes of a document. *)
Merges(doc, old, k) ==
  \A f \in Keys : doc[f] = IF f \in DOMAIN k THEN k[f] ELSE old[f]

LEMMA PatchMerges ==
  ASSUME NEW doc \in Docs, NEW k
  PROVE  Merges(Field!Patched(doc, k), doc, k)
BY DEF Merges, Field!Patched, Docs

LEMMA ToldLands ==
  ASSUME NEW q \in Seq(Writes), NEW rest, 1 \in 1..Len(q), Lost(rest, q, 1), NEW old, NEW doc,
         Merges(doc, old, q[1].patch), NEW t, Told(old, q, t)
  PROVE  Told(doc, rest, t)
<1>0. /\ Len(rest) = Len(q) - 1 /\ Len(q) \in Nat
      /\ \A j \in 1..Len(rest) : rest[j] = q[j + 1] /\ j + 1 \in 1..Len(q)
      /\ \A j \in 1..Len(q) : j > 1 => j - 1 \in 1..Len(rest) /\ q[j] = rest[j - 1]
  BY DEF Lost
<1>1. ASSUME \A i \in 1..Len(rest) : ~Tells(rest[i]) PROVE doc["messages"] = t
  <2>1. \A j \in 1..Len(q) : j > 1 => ~Tells(q[j])
    BY <1>0, <1>1
  <2>2. CASE Tells(q[1])
    <3>1. q[1].patch["messages"] = t
      BY <2>1, <2>2 DEF Told
    <3> QED BY <2>2, <3>1 DEF Tells, Merges, Keys
  <2>3. CASE ~Tells(q[1])
    <3>1. \A j \in 1..Len(q) : ~Tells(q[j])
      BY <2>1, <2>3
    <3>2. old["messages"] = t
      BY <3>1 DEF Told
    <3> QED BY <2>3, <3>2 DEF Tells, Merges, Keys
  <2> QED BY <2>2, <2>3
<1>2. ASSUME NEW i \in 1..Len(rest), Tells(rest[i]),
             \A j \in 1..Len(rest) : j > i => ~Tells(rest[j])
      PROVE  rest[i].patch["messages"] = t
  <2>1. rest[i] = q[i + 1] /\ i + 1 \in 1..Len(q)
    BY <1>0
  <2>2. ASSUME NEW j \in 1..Len(q), j > i + 1 PROVE ~Tells(q[j])
    <3>1. j > 1 /\ j - 1 > i
      BY <2>2
    <3> QED BY <1>0, <1>2, <3>1
  <2> QED BY <1>2, <2>1, <2>2 DEF Told
<1> QED BY <1>1, <1>2 DEF Told

(* A progress write lands: nothing but the turns told changes. *)
LEMMA ProgressLands ==
  ASSUME NEW w, NEW old, NEW doc, NEW q \in Seq(Writes), NEW c, NEW v, NEW t, NEW rr, NEW r,
         Way(w, old, q, c, v, t, rr, r), NEW rest, NEW i \in 1..Len(q), Lost(rest, q, i),
         ~Awaits(q[i]), Merges(doc, old, q[i].patch), w = TRUE => i = 1
  PROVE  Way(w, doc, rest, c, v, t, rr, r)
<1>1. DOMAIN q[i].patch = {"messages"}
  BY DEF Way, QueuePart
<1>2. doc["status"] = old["status"] /\ doc["output"] = old["output"]
  BY <1>1 DEF Merges, Keys
<1>3. QueuePart(rest, c, v, rr)
  BY LosesProgress DEF Way
<1>4. ASSUME w = TRUE PROVE TurnsPart(doc, rest, c, t)
  <2>1. c \in Busy /\ Told(old, q, t) /\ i = 1
    BY <1>4 DEF Way, TurnsPart
  <2>2. Told(doc, rest, t)
    BY <2>1, ToldLands
  <2> QED BY <2>1, <2>2 DEF TurnsPart
<1>5. StatusPart(doc, c, v) /\ AnswerPart(doc, c, v, rr) /\ RaisedPart(c, r) /\ (c \in Early => v = "none")
  BY <1>2 DEF Way, StatusPart, AnswerPart
<1> QED BY <1>3, <1>4, <1>5 DEF Way

(* ... or is lost with its process. *)
LEMMA ProgressDropped ==
  ASSUME NEW w, NEW doc, NEW q \in Seq(Writes), NEW c, NEW v, NEW t, NEW rr, NEW r,
         Way(w, doc, q, c, v, t, rr, r), NEW rest, NEW i \in 1..Len(q), Lost(rest, q, i),
         c \notin Busy
  PROVE  Way(w, doc, rest, c, v, t, rr, r) /\ ~Awaits(q[i])
<1>0. q # <<>>
  OBVIOUS
<1>1. w # TRUE
  BY <1>0 DEF Way, TurnsPart
<1>2. ~Awaits(q[i])
  BY QueueQuiet DEF Way, Progress, Busy
<1>3. QueuePart(rest, c, v, rr)
  BY <1>2, LosesProgress DEF Way
<1> QED BY <1>1, <1>2, <1>3 DEF Way

(* Where a landed request takes its executor. *)
Onward(c, d, r, r2) ==
  \/ c = "claiming" /\ d = "start" /\ r2 = r
  \/ c = "reporting" /\ d \in {"push", "close"} /\ r2 = r
  \/ c = "failing" /\ d \in {"push", "close"} /\ r2 = FALSE
  \/ c = "noting" /\ d = "close" /\ r2 = r
  \/ c = "rescuing" /\ d = "ended" /\ r2 = r

LEMMA AskedLands ==
  ASSUME NEW w, NEW old, NEW doc, NEW q \in Seq(Writes), NEW c, NEW v, NEW t, NEW rr, NEW r,
         Way(w, old, q, c, v, t, rr, r), NEW rest \in Seq(Writes), NEW i \in 1..Len(q),
         Lost(rest, q, i), Awaits(q[i]), Merges(doc, old, q[i].patch), w = TRUE => i = 1,
         NEW d, NEW r2, Onward(c, d, r, r2)
  PROVE  Way(w, doc, rest, d, v, t, rr, r2)
<1>1. i = Len(q) /\ Asked(q[i].patch, c, v, rr) /\ Progress(rest)
  BY LosesAsked DEF Way
<1>2. QueuePart(rest, d, v, rr)
  BY <1>1, ProgressAnywhere
<1>3. ASSUME w = TRUE PROVE TurnsPart(doc, rest, d, t)
  <2>1. i = 1 /\ Told(old, q, t)
    BY <1>3 DEF Way, TurnsPart
  <2>2. Told(doc, rest, t)
    BY <2>1, ToldLands
  <2>3. Len(rest) = 0
    BY <1>1, <2>1 DEF Lost
  <2>4. rest = <<>>
    BY <2>3
  <2> QED BY <2>2, <2>4 DEF TurnsPart
<1>4. RaisedPart(d, r2)
  BY DEF Way, RaisedPart, Onward
<1>5. d \in Early => v = "none"
  BY DEF Way, Onward, Early
<1>6. StatusPart(doc, d, v)
  <2>1. CASE c = "claiming"
    <3>1. doc["status"] = "running"
      BY <1>1, <2>1 DEF Asked, Merges, Keys
    <3> QED BY <2>1, <3>1 DEF Onward, StatusPart, Terminal, Results, Decided
  <2>2. CASE c = "reporting"
    <3>1. doc["status"] = v
      BY <1>1, <2>2 DEF Asked, Merges, Keys
    <3> QED BY <2>2, <3>1 DEF Onward, StatusPart, Undecided
  <2>3. CASE c \in {"failing", "rescuing"}
    <3>1. doc["status"] = "failed" /\ v = "failed"
      BY <1>1, <2>3 DEF Asked, Merges, Keys
    <3> QED BY <2>3, <3>1 DEF Onward, StatusPart, Undecided
  <2>4. CASE c = "noting"
    <3>1. doc["status"] = old["status"]
      BY <1>1, <2>4 DEF Asked, Merges, Keys
    <3> QED BY <2>4, <3>1 DEF Way, Onward, StatusPart, Undecided, Decided
  <2> QED BY <2>1, <2>2, <2>3, <2>4 DEF Onward
<1>7. AnswerPart(doc, d, v, rr)
  <2>1. CASE c = "claiming"
    BY <2>1 DEF Onward, AnswerPart, Decided
  <2>2. CASE c = "reporting"
    BY <1>1, <2>2 DEF Asked, Merges, Keys, Onward, AnswerPart, Answers
  <2>3. CASE c \in {"failing", "rescuing"}
    BY <1>1, <2>3 DEF Asked, AnswerPart
  <2>4. CASE c = "noting"
    <3>1. doc["output"] = WithNote(rr)
      BY <1>1, <2>4 DEF Asked, Merges, Keys
    <3>2. v = "completed" => rr \in Answers
      BY <2>4 DEF Way, AnswerPart
    <3> QED BY <2>4, <3>1, <3>2 DEF Onward, AnswerPart, Answers, WithNote
  <2> QED BY <2>1, <2>2, <2>3, <2>4 DEF Onward
<1> QED BY <1>2, <1>3, <1>4, <1>5, <1>6, <1>7 DEF Way

(* It goes on without the store: its queue is progress only. *)
LEMMA Walks ==
  ASSUME NEW w, NEW doc, NEW q \in Seq(Writes), NEW c, NEW v, NEW t, NEW rr, NEW r,
         Way(w, doc, q, c, v, t, rr, r), c \notin Waiting, NEW d, NEW r2, NEW rr2,
         StatusPart(doc, d, v), AnswerPart(doc, d, v, rr2), RaisedPart(d, r2),
         d \in Early => v = "none",
         w = TRUE /\ d \notin Busy => q = <<>>
  PROVE  Way(w, doc, q, d, v, t, rr2, r2)
<1>1. QueuePart(q, d, v, rr2)
  BY QueueQuiet, ProgressAnywhere DEF Way
<1> QED BY <1>1 DEF Way, TurnsPart

(* It asks the store for something and waits. *)
LEMMA WaitsFor ==
  ASSUME NEW wd, NEW doc, NEW q \in Seq(Writes), NEW c, NEW v, NEW t, NEW rr, NEW r,
         Way(wd, doc, q, c, v, t, rr, r), c \notin Waiting,
         NEW w \in Writes, Awaits(w), NEW d \in Waiting, NEW v2, Asked(w.patch, d, v2, rr),
         StatusPart(doc, d, v2), AnswerPart(doc, d, v2, rr), RaisedPart(d, r),
         d \in Early => v2 = "none"
  PROVE  Way(wd, doc, Append(q, w), d, v2, t, rr, r)
<1>1. QueuePart(Append(q, w), d, v2, rr)
  BY QueueQuiet, Asks DEF Way
<1>2. ~Tells(w)
  BY DEF Asked, Tells, Waiting
<1>3. wd = TRUE => TurnsPart(doc, Append(q, w), d, t)
  BY <1>2, ToldAsk DEF Way, TurnsPart, Busy
<1> QED BY <1>1, <1>3 DEF Way

-----------------------------------------------------------------------------
Running(e) == pc[e] # "idle"
Nobody     == \A e \in Executors : ~Running(e)

WayAt(e) ==
  Way(wholeDoc, record, pending[e], pc[e], verdict[e], turns[e], reread[e], raised[e])

Fresh(e) ==
  /\ pending[e] = <<>> /\ next[e] = NoDoc
  /\ turns[e] = 0 /\ verdict[e] = "none" /\ raised[e] # TRUE

(* What a chain is about to write is the stored document with the patch at  *)
(* its head: nobody else writes in between.                                 *)
MergeAt(p) ==
  next[p] # NoDoc =>
    /\ wholeDoc = TRUE
    /\ pending[p] # <<>>
    /\ next[p] = Field!Patched(record, Head(pending[p]).patch)

(* A front door that marks a run failed has no executor beside it, now or   *)
(* later, and a run that may still be started is not over.                  *)
Marking == <<[patch |-> [status |-> "failed"], awaited |-> TRUE]>>

DoorInv ==
  /\ pending[Front] = IF front = "failing" THEN Marking ELSE <<>>
  /\ front \in {"new", "refused"} => record["status"] = "none"
  /\ front = "refused" => request = "none" /\ Nobody
  /\ front \in {"check", "fail", "failing"} => request \in {"none", "rejected"} /\ Nobody
  /\ request \in {"transit", "rejected"} => Nobody
  /\ front # "dead"
  /\ Nobody /\ (front # "done" \/ request \in {"transit", "accepted"}) =>
       record["status"] \notin Terminal
  /\ Nobody => record["messages"] = 0

RunInv(e) ==
  /\ WayAt(e)
  /\ pc[e] # "dead"
  /\ front \notin {"new", "refused", "dispatch", "check", "fail", "failing"}

LifeInv ==
  /\ \A e, f \in Executors : Running(e) /\ Running(f) => e = f
  /\ DoorInv
  /\ \A p \in Processes : MergeAt(p)
  /\ \A e \in Executors : IF Running(e) THEN RunInv(e) ELSE Fresh(e)

Typed == AuthorInv /\ SpeakInv /\ CountInv /\ PlacesOK /\ HeldOK

(* Only e moves. *)
Others(e) ==
  /\ \A f \in Executors \ {e} :
       /\ pc'[f] = pc[f] /\ verdict'[f] = verdict[f] /\ turns'[f] = turns[f]
       /\ raised'[f] = raised[f]
  /\ \A p \in Processes \ {e} : pending'[p] = pending[p] /\ next'[p] = next[p]
  /\ wholeDoc' = wholeDoc /\ front' = front /\ request' = request

LEMMA LifeStart == Init => LifeInv
<1> SUFFICES ASSUME Init PROVE LifeInv
  OBVIOUS
<1>1. record["status"] = "none" /\ record["messages"] = 0
  <2>1. record = [status |-> "none", messages |-> 0, output |-> "none"]
    BY DEF Init, Uncreated
  <2> QED BY <2>1
<1>2. \A p \in Processes : pending[p] = <<>> /\ next[p] = NoDoc
  BY DEF Init
<1>3. Front \in Processes /\ Executors \subseteq Processes
  BY DEF Processes
<1>4. \A e \in Executors : ~Running(e) /\ Fresh(e)
  BY <1>2, <1>3 DEF Init, Running, Fresh
<1>5. DoorInv
  BY <1>1, <1>2, <1>3, <1>4 DEF Init, DoorInv, Nobody, Terminal, Results
<1> QED BY <1>2, <1>4, <1>5 DEF LifeInv, MergeAt

LEMMA LifeGoesOn ==
  ASSUME LifeInv, NEW e \in Executors, Running(e), Others(e),
         Running(e)', pc'[e] # "dead", WayAt(e)', MergeAt(e)'
  PROVE  LifeInv'
<1>0. e # Front /\ e \in Processes /\ Front \in Processes /\ Executors \subseteq Processes
  BY LifecycleAssumption DEF Processes
<1>1. \A f \in Executors \ {e} : ~Running(f) /\ Fresh(f)
  BY DEF LifeInv
<1>2. \A f \in Executors \ {e} : ~Running(f)' /\ Fresh(f)'
  BY <1>0, <1>1 DEF Others, Running, Fresh
<1>3. ~Nobody /\ ~Nobody' /\ RunInv(e)
  BY DEF Nobody, LifeInv
<1>4. DoorInv'
  <2>1. pending[Front] = <<>> /\ pending'[Front] = <<>>
    BY <1>0, <1>3 DEF LifeInv, DoorInv, RunInv, Others
  <2>2. front' = front /\ request' = request
    BY DEF Others
  <2> QED BY <1>3, <2>1, <2>2 DEF LifeInv, DoorInv, RunInv
<1>5. ASSUME NEW p \in Processes, p # e PROVE MergeAt(p)'
  <2>1. pending[p] = <<>>
    <3>1. CASE p = Front
      BY <1>3, <3>1 DEF LifeInv, DoorInv, RunInv
    <3>2. CASE p # Front
      BY <1>1, <1>5, <3>2 DEF Processes, Fresh
    <3> QED BY <3>1, <3>2
  <2>2. next[p] = NoDoc
    BY <2>1 DEF LifeInv, MergeAt
  <2> QED BY <1>5, <2>2 DEF Others, MergeAt
<1>6. RunInv(e)'
  BY <1>3 DEF RunInv, Others
<1>7. \A f, g \in Executors : Running(f)' /\ Running(g)' => f = g
  BY <1>2
<1>8. \A f \in Executors : IF Running(f)' THEN RunInv(f)' ELSE Fresh(f)'
  BY <1>2, <1>6
<1> QED BY <1>4, <1>5, <1>7, <1>8 DEF LifeInv

LEMMA ProcessOthers ==
  ASSUME Typed, NEW e \in Executors, ProcessRun(e) \/ Exit(e)
  PROVE  Others(e)
<1>0. /\ pc \in [Executors -> Places] /\ verdict \in [Executors -> Terminal \cup {"none"}]
      /\ turns \in [Executors -> 0..MaxSteps] /\ raised \in [Executors -> BOOLEAN]
      /\ pending \in [Processes -> Seq(Writes)]
  BY DEF Typed, SpeakInv, CountInv, HeldOK, AuthorInv
<1> USE <1>0 DEF Others, Goto, others, given, store, Update, Throw
<1>1. CASE Claim(e) \/ StartSession(e) \/ ResolveTools(e)
  BY <1>1 DEF Claim, StartSession, ResolveTools
<1>2. CASE Clone(e) \/ LoopThrows(e) \/ Push(e) \/ Close(e) \/ Exit(e)
  BY <1>2 DEF Clone, LoopThrows, Push, Close, Exit
<1>3. CASE Turn(e) \/ Note(e)
  BY <1>3 DEF Turn, Note
<1>4. CASE Report(e)
  <2>1. PICK r : verdict' = [verdict EXCEPT ![e] = r] /\ Update(e, Reported(r), TRUE)
    BY <1>4 DEF Report
  <2> QED BY <1>4, <2>1 DEF Report
<1>5. CASE Fail(e) \/ Rescue(e)
  BY <1>5 DEF Fail, Rescue
<1> QED BY <1>1, <1>2, <1>3, <1>4, <1>5 DEF ProcessRun

OnItsWay(e) == WayAt(e) /\ MergeAt(e) /\ Running(e) /\ pc[e] # "dead"

LEMMA WalksOn ==
  ASSUME Typed, LifeInv, NEW e \in Executors, Running(e), UNCHANGED store, wholeDoc' = wholeDoc,
         turns'[e] = turns[e], verdict'[e] = verdict[e], pc[e] \notin Waiting,
         pc'[e] \notin {"idle", "dead"},
         StatusPart(record, pc'[e], verdict[e]), AnswerPart(record, pc'[e], verdict[e], reread'[e]),
         RaisedPart(pc'[e], raised'[e]), pc'[e] \in Early => verdict[e] = "none",
         pc[e] \in Busy => pc'[e] \in Busy
  PROVE  OnItsWay(e)'
<1>1. WayAt(e) /\ MergeAt(e) /\ pending[e] \in Seq(Writes)
  BY DEF LifeInv, RunInv, Processes, Typed, AuthorInv
<1>2. Way(wholeDoc, record, pending[e], pc[e], verdict[e], turns[e], reread[e], raised[e])
  BY <1>1 DEF WayAt
<1>3. wholeDoc = TRUE /\ pc'[e] \notin Busy => pending[e] = <<>>
  BY <1>2 DEF Way, TurnsPart
<1>4. Way(wholeDoc, record, pending[e], pc'[e], verdict[e], turns[e], reread'[e], raised'[e])
  BY <1>1, <1>2, <1>3, Walks
<1>5. record' = record /\ pending' = pending /\ next' = next
  BY DEF store
<1>6. WayAt(e)'
  BY <1>4, <1>5 DEF WayAt
<1>7. MergeAt(e)'
  BY <1>1, <1>5 DEF MergeAt
<1> QED BY <1>6, <1>7 DEF OnItsWay, Running

(* A request joins the end of the queue. *)
LEMMA QueueGrows ==
  ASSUME Typed, LifeInv, NEW p \in Processes, NEW k \in Patches, NEW b \in BOOLEAN,
         Update(p, k, b), wholeDoc' = wholeDoc
  PROVE  LET w == [patch |-> k, awaited |-> b]
         IN  /\ w \in Writes /\ w.patch = k /\ w.awaited = b
             /\ pending[p] \in Seq(Writes) /\ pending'[p] = Append(pending[p], w)
             /\ record' = record /\ next' = next
             /\ MergeAt(p)'
<1> DEFINE w == [patch |-> k, awaited |-> b]
<1>1. /\ w \in Writes /\ w.patch = k /\ w.awaited = b
      /\ pending[p] \in Seq(Writes) /\ record' = record /\ next' = next
  BY DEF Writes, Update, Typed, AuthorInv
<1>2. pending'[p] = Append(pending[p], w)
  BY DEF Update, Typed, AuthorInv
<1>3. ASSUME next'[p] # NoDoc
      PROVE  /\ wholeDoc' = TRUE
             /\ pending'[p] # <<>>
             /\ next'[p] = Field!Patched(record', Head(pending'[p]).patch)
  <2>1. /\ wholeDoc = TRUE /\ pending[p] # <<>>
        /\ next[p] = Field!Patched(record, Head(pending[p]).patch)
    BY <1>1, <1>3 DEF LifeInv, MergeAt
  <2>2. Head(pending'[p]) = Head(pending[p]) /\ pending'[p] # <<>>
    BY <1>1, <1>2, <2>1
  <2> QED BY <1>1, <2>1, <2>2
<1> QED BY <1>1, <1>2, <1>3 DEF MergeAt

LEMMA AsksOn ==
  ASSUME Typed, LifeInv, NEW e \in Executors, Running(e), NEW k \in Patches,
         Update(e, k, TRUE), wholeDoc' = wholeDoc,
         turns'[e] = turns[e], reread'[e] = reread[e], raised'[e] = raised[e],
         pc[e] \notin Waiting, pc'[e] \in Waiting, Asked(k, pc'[e], verdict'[e], reread[e]),
         StatusPart(record, pc'[e], verdict'[e]), AnswerPart(record, pc'[e], verdict'[e], reread[e]),
         RaisedPart(pc'[e], raised[e]), pc'[e] \in Early => verdict'[e] = "none"
  PROVE  OnItsWay(e)'
<1> DEFINE w == [patch |-> k, awaited |-> TRUE]
<1>0. e \in Processes
  BY DEF Processes
<1>1. /\ w \in Writes /\ w.patch = k /\ w.awaited = TRUE
      /\ pending[e] \in Seq(Writes) /\ pending'[e] = Append(pending[e], w)
      /\ record' = record /\ MergeAt(e)'
  BY <1>0, QueueGrows
<1> HIDE DEF w
<1>2. Way(wholeDoc, record, pending[e], pc[e], verdict[e], turns[e], reread[e], raised[e])
  BY DEF LifeInv, RunInv, WayAt
<1>3. Awaits(w)
  BY <1>1 DEF Awaits
<1>4. Way(wholeDoc, record, Append(pending[e], w), pc'[e], verdict'[e], turns[e], reread[e], raised[e])
  BY <1>1, <1>2, <1>3, WaitsFor
<1>5. WayAt(e)'
  BY <1>1, <1>4 DEF WayAt
<1> QED BY <1>1, <1>5 DEF OnItsWay, Running, Waiting

LEMMA ProcessLife ==
  ASSUME Contained, Typed, LifeInv, NEW e \in Executors, ProcessRun(e) \/ Exit(e)
  PROVE  LifeInv'
<1>0. /\ pc \in [Executors -> Places] /\ verdict \in [Executors -> Terminal \cup {"none"}]
      /\ turns \in [Executors -> 0..MaxSteps] /\ raised \in [Executors -> BOOLEAN]
      /\ reread \in [Executors -> Outputs]
  BY DEF Typed, SpeakInv, CountInv, HeldOK
<1>1. Running(e) /\ Others(e)
  <2>1. Running(e)
    BY DEF ProcessRun, Exit, Claim, StartSession, ResolveTools, Clone, Turn, Report, LoopThrows,
       Fail, Push, Note, Close, Rescue, Running
  <2> QED BY <2>1, ProcessOthers
<1>2. Way(wholeDoc, record, pending[e], pc[e], verdict[e], turns[e], reread[e], raised[e])
  BY <1>1 DEF LifeInv, RunInv, WayAt
<1>3. /\ StatusPart(record, pc[e], verdict[e]) /\ AnswerPart(record, pc[e], verdict[e], reread[e])
      /\ RaisedPart(pc[e], raised[e]) /\ (pc[e] \in Early => verdict[e] = "none")
  BY <1>2 DEF Way
<1>4. wholeDoc' = wholeDoc /\ "store" \notin Faults
  BY <1>1 DEF Others, Contained
<1> SUFFICES OnItsWay(e)'
  BY <1>1, LifeGoesOn DEF OnItsWay
<1>5. CASE Claim(e)
  <2>1. /\ pc[e] = "get" /\ pc'[e] = "claiming" /\ Update(e, [status |-> "running"], TRUE)
        /\ verdict'[e] = verdict[e] /\ turns'[e] = turns[e] /\ reread'[e] = reread[e]
        /\ raised'[e] = raised[e]
    BY <1>0, <1>4, <1>5 DEF Claim, Goto
  <2>2. /\ [status |-> "running"] \in Patches
        /\ Asked([status |-> "running"], "claiming", verdict[e], reread[e])
    BY PatchTypes DEF Fitting, Statuses, Asked, Waiting
  <2>3. /\ StatusPart(record, "claiming", verdict[e]) /\ RaisedPart("claiming", raised[e])
        /\ AnswerPart(record, "claiming", verdict[e], reread[e]) /\ verdict[e] = "none"
    BY <1>3, <2>1 DEF StatusPart, RaisedPart, AnswerPart, Undecided, Decided, Early
  <2> QED BY <1>1, <1>4, <2>1, <2>2, <2>3, AsksOn DEF Waiting
<1>6. CASE StartSession(e)
  <2>1. /\ pc[e] = "start" /\ UNCHANGED store
        /\ verdict'[e] = verdict[e] /\ turns'[e] = turns[e] /\ reread'[e] = reread[e]
        /\ \/ pc'[e] = "resolve" /\ raised'[e] = raised[e]
           \/ pc'[e] \in {"rescue", "ended"} /\ raised'[e] = TRUE
    BY <1>0, <1>6 DEF StartSession, Goto, Throw, Uncaught
  <2> QED BY <1>1, <1>3, <1>4, <2>1, WalksOn
      DEF StatusPart, RaisedPart, AnswerPart, Undecided, Decided, Early, Waiting, Busy
<1>7. CASE ResolveTools(e)
  <2>1. /\ pc[e] = "resolve" /\ UNCHANGED store
        /\ verdict'[e] = verdict[e] /\ turns'[e] = turns[e] /\ reread'[e] = reread[e]
        /\ \/ pc'[e] \in {"clone", "think"} /\ raised'[e] = raised[e]
           \/ pc'[e] \in {"rescue", "ended"} /\ raised'[e] = TRUE
    BY <1>0, <1>7 DEF ResolveTools, Goto, Throw, Uncaught
  <2> QED BY <1>1, <1>3, <1>4, <2>1, WalksOn
      DEF StatusPart, RaisedPart, AnswerPart, Undecided, Decided, Early, Waiting, Busy
<1>8. CASE Clone(e) \/ LoopThrows(e)
  <2>1. /\ pc[e] \in {"clone", "think"} /\ UNCHANGED store /\ pc'[e] \in {"think", "fail"}
        /\ verdict'[e] = verdict[e] /\ turns'[e] = turns[e] /\ reread'[e] = reread[e]
        /\ raised'[e] = raised[e]
    BY <1>0, <1>8 DEF Clone, LoopThrows, Goto
  <2> QED BY <1>1, <1>3, <1>4, <2>1, WalksOn
      DEF StatusPart, RaisedPart, AnswerPart, Undecided, Decided, Early, Waiting, Busy
<1>9. CASE Turn(e)
  <2>1. /\ pc[e] = "think" /\ pc'[e] = "think" /\ turns'[e] \in 0..MaxSteps
        /\ Update(e, [messages |-> turns'[e]], FALSE)
        /\ verdict'[e] = verdict[e] /\ reread'[e] = reread[e] /\ raised'[e] = raised[e]
    <3>1. turns'[e] = turns[e] + 1 /\ turns[e] < MaxSteps /\ turns[e] \in 0..MaxSteps
      BY <1>0, <1>9 DEF Turn
    <3>2. turns'[e] \in 0..MaxSteps
      BY <3>1, LifecycleAssumption
    <3>3. /\ pc[e] = "think" /\ pc' = pc /\ verdict' = verdict /\ reread' = reread
          /\ raised' = raised /\ Update(e, [messages |-> turns'[e]], FALSE)
      BY <1>9 DEF Turn
    <3> QED BY <3>2, <3>3
  <2> DEFINE k == [messages |-> turns'[e]]
             w == [patch |-> k, awaited |-> FALSE]
  <2>2. k \in Patches /\ DOMAIN k = {"messages"} /\ k["messages"] = turns'[e]
    BY <2>1, PatchTypes DEF Fitting
  <2>3. Update(e, k, FALSE) /\ e \in Processes
    BY <2>1 DEF Processes
  <2> HIDE DEF k
  <2>4. /\ w \in Writes /\ w.patch = k /\ w.awaited = FALSE
        /\ pending[e] \in Seq(Writes) /\ pending'[e] = Append(pending[e], w)
        /\ record' = record /\ MergeAt(e)'
    BY <1>4, <2>2, <2>3, QueueGrows
  <2> HIDE DEF w
  <2>5. QueuePart(Append(pending[e], w), "think", verdict[e], reread[e])
    <3>1. Progress(pending[e])
      BY <1>2, <2>1, QueueQuiet DEF Way, Waiting
    <3>2. Progress(Append(pending[e], w))
      BY <2>2, <2>4, <3>1, Progresses DEF Awaits
    <3> QED BY <3>2, ProgressAnywhere
  <2>6. Told(record, Append(pending[e], w), turns'[e])
    BY <2>2, <2>4, ToldTurn DEF Tells
  <2>7. Way(wholeDoc, record, Append(pending[e], w), "think", verdict[e], turns'[e], reread[e], raised[e])
    BY <1>3, <2>1, <2>5, <2>6 DEF Way, TurnsPart, Busy
  <2>8. WayAt(e)'
    BY <1>4, <2>1, <2>4, <2>7 DEF WayAt
  <2> QED BY <2>1, <2>4, <2>8 DEF OnItsWay, Running
<1>10. CASE Report(e)
  <2>1. PICK r \in Results : verdict' = [verdict EXCEPT ![e] = r] /\ Update(e, Reported(r), TRUE)
    BY <1>10 DEF Report, EndsAs
  <2>2. /\ pc[e] = "think" /\ pc'[e] = "reporting" /\ verdict'[e] = r
        /\ turns'[e] = turns[e] /\ reread'[e] = reread[e] /\ raised'[e] = raised[e]
    BY <1>0, <1>10, <2>1 DEF Report, Goto
  <2>3. Reported(r) \in Patches
    BY PatchTypes DEF Fitting, Reported, Statuses, Terminal, Outputs
  <2>4. Asked(Reported(r), "reporting", r, reread[e])
    BY DEF Asked, Reported, Waiting, Results
  <2>5. /\ StatusPart(record, "reporting", r) /\ RaisedPart("reporting", raised[e])
        /\ AnswerPart(record, "reporting", r, reread[e])
    BY <1>3, <2>2 DEF StatusPart, RaisedPart, AnswerPart, Undecided, Decided
  <2> QED BY <1>1, <1>4, <2>1, <2>2, <2>3, <2>4, <2>5, AsksOn DEF Waiting, Early
<1>11. CASE Fail(e) \/ Rescue(e)
  <2>1. /\ \/ pc[e] = "fail" /\ pc'[e] = "failing"
           \/ pc[e] = "rescue" /\ pc'[e] = "rescuing"
        /\ verdict'[e] = "failed" /\ Update(e, [status |-> "failed"], TRUE)
        /\ turns'[e] = turns[e] /\ reread'[e] = reread[e] /\ raised'[e] = raised[e]
    BY <1>0, <1>11 DEF Fail, Rescue, Goto
  <2>2. [status |-> "failed"] \in Patches
    BY PatchTypes DEF Fitting, Statuses, Terminal
  <2>3. Asked([status |-> "failed"], pc'[e], "failed", reread[e])
    BY <2>1 DEF Asked, Waiting
  <2>4. /\ StatusPart(record, pc'[e], "failed") /\ RaisedPart(pc'[e], raised[e])
        /\ AnswerPart(record, pc'[e], "failed", reread[e])
    BY <1>3, <2>1 DEF StatusPart, RaisedPart, AnswerPart, Undecided, Decided
  <2> QED BY <1>1, <1>4, <2>1, <2>2, <2>3, <2>4, AsksOn DEF Waiting, Early
<1>12. CASE Push(e)
  <2>1. /\ pc[e] = "push" /\ pc'[e] = "note" /\ UNCHANGED store /\ reread'[e] = record["output"]
        /\ verdict'[e] = verdict[e] /\ turns'[e] = turns[e] /\ raised'[e] = raised[e]
    BY <1>0, <1>4, <1>12 DEF Push, Goto
  <2> QED BY <1>1, <1>3, <1>4, <2>1, WalksOn
      DEF StatusPart, RaisedPart, AnswerPart, Undecided, Decided, Early, Waiting, Busy
<1>13. CASE Note(e)
  <2>1. /\ pc[e] = "note" /\ pc'[e] = "noting" /\ Update(e, [output |-> WithNote(reread[e])], TRUE)
        /\ verdict'[e] = verdict[e] /\ turns'[e] = turns[e] /\ reread'[e] = reread[e]
        /\ raised'[e] = raised[e]
    BY <1>0, <1>13 DEF Note, Goto
  <2>2. /\ [output |-> WithNote(reread[e])] \in Patches
        /\ Asked([output |-> WithNote(reread[e])], "noting", verdict[e], reread[e])
    BY PatchTypes DEF Fitting, Outputs, WithNote, Asked, Waiting
  <2>3. /\ StatusPart(record, "noting", verdict[e]) /\ RaisedPart("noting", raised[e])
        /\ AnswerPart(record, "noting", verdict[e], reread[e])
    BY <1>3, <2>1 DEF StatusPart, RaisedPart, AnswerPart, Undecided, Decided
  <2> QED BY <1>1, <1>4, <2>1, <2>2, <2>3, AsksOn DEF Waiting, Early
<1>14. CASE Close(e) \/ Exit(e)
  <2>1. /\ \/ pc[e] = "close" /\ pc'[e] = "ended"
           \/ pc[e] = "ended" /\ pc'[e] = "exited"
        /\ UNCHANGED store
        /\ verdict'[e] = verdict[e] /\ turns'[e] = turns[e] /\ reread'[e] = reread[e]
        /\ raised'[e] = raised[e]
    <3>1. CASE Close(e)
      <4>1. raised[e] = FALSE
        BY <1>0, <1>3, <3>1 DEF RaisedPart, Close
      <4> QED BY <1>0, <1>4, <3>1, <4>1 DEF Close, Goto
    <3>2. CASE Exit(e)
      BY <1>0, <3>2 DEF Exit, Goto
    <3> QED BY <1>14, <3>1, <3>2
  <2> QED BY <1>1, <1>3, <1>4, <2>1, WalksOn
      DEF StatusPart, RaisedPart, AnswerPart, Undecided, Decided, Early, Waiting, Busy
<1> QED BY <1>5, <1>6, <1>7, <1>8, <1>9, <1>10, <1>11, <1>12, <1>13, <1>14 DEF ProcessRun

(* What a store step does to the queue it serves. *)
Serves(p, i) ==
  /\ pending'[p] \in Seq(Writes) /\ Lost(pending'[p], pending[p], i)
  /\ next'[p] = NoDoc
  /\ \A q \in Processes \ {p} : pending'[q] = pending[q] /\ next'[q] = next[q]
  /\ wholeDoc = TRUE => i = 1

LEMMA FieldServes ==
  ASSUME Typed, LifeInv, wholeDoc = FALSE, NEW p \in Processes, NEW i \in 1..Len(pending[p]),
         Field!Answered(p, i), UNCHANGED next
  PROVE  Serves(p, i)
<1>1. pending' = [pending EXCEPT ![p] = Field!RemoveAt(pending[p], i)]
  BY DEF Field!Answered
<1>2. pending \in [Processes -> Seq(Writes)]
  BY DEF Typed, AuthorInv
<1>3. Field!RemoveAt(pending[p], i) \in Seq(Writes) /\ Lost(Field!RemoveAt(pending[p], i), pending[p], i)
  BY <1>2, Removed
<1>4. next[p] = NoDoc
  BY DEF LifeInv, MergeAt
<1> QED BY <1>1, <1>2, <1>3, <1>4 DEF Serves

LEMMA DocServes ==
  ASSUME Typed, NEW p \in Processes, 1 \in 1..Len(pending[p]), Doc!Advance(p)
  PROVE  Serves(p, 1)
<1>1. pending' = [pending EXCEPT ![p] = Tail(pending[p])] /\ next' = [next EXCEPT ![p] = NoDoc]
  BY DEF Doc!Advance
<1>2. pending \in [Processes -> Seq(Writes)] /\ next \in [Processes -> Docs \cup {NoDoc}]
  BY DEF Typed, AuthorInv
<1>3. pending[p] # <<>>
  BY <1>2
<1>4. Tail(pending[p]) \in Seq(Writes) /\ Lost(Tail(pending[p]), pending[p], 1)
  BY <1>2, <1>3, TailShorter
<1> QED BY <1>1, <1>2, <1>4 DEF Serves

LEMMA Kinds == Typed => wholeDoc \in BOOLEAN
BY LifecycleAssumption DEF Typed, PlacesOK

LEMMA Landed ==
  ASSUME Typed, LifeInv, NEW p \in Processes, NEW i \in 1..Len(pending[p]), Lands(p, i)
  PROVE  Serves(p, i) /\ Merges(record', record, pending[p][i].patch)
<1>0. record \in Docs /\ pending[p] \in Seq(Writes)
  BY DEF Typed, AuthorInv
<1>1. CASE wholeDoc = TRUE
  <2>1. i = 1 /\ Doc!Patch(p)
    BY <1>1 DEF Lands
  <2>2. next[p] # NoDoc /\ record' = next[p] /\ Doc!Advance(p)
    BY <2>1 DEF Doc!Patch
  <2>3. next[p] = Field!Patched(record, Head(pending[p]).patch) /\ pending[p] # <<>>
    BY <2>2 DEF LifeInv, MergeAt
  <2>4. Head(pending[p]) = pending[p][1]
    BY <1>0, <2>3
  <2>5. record' = Field!Patched(record, pending[p][i].patch)
    BY <2>1, <2>2, <2>3, <2>4
  <2> QED BY <1>0, <2>1, <2>2, <2>5, DocServes, PatchMerges
<1>2. CASE wholeDoc = FALSE
  <2>1. Field!Apply(p, i) /\ UNCHANGED next
    BY <1>2 DEF Lands
  <2>2. record' = Field!Patched(record, pending[p][i].patch) /\ Field!Answered(p, i)
    BY <2>1 DEF Field!Apply
  <2> QED BY <1>0, <1>2, <2>1, <2>2, FieldServes, PatchMerges
<1> QED BY <1>1, <1>2, Kinds

LEMMA Gone ==
  ASSUME Typed, LifeInv, NEW p \in Processes, NEW i \in 1..Len(pending[p]), Fails(p, i)
  PROVE  Serves(p, i) /\ record' = record
<1>1. CASE wholeDoc = TRUE
  <2>1. i = 1 /\ Doc!Advance(p) /\ record' = record
    BY <1>1 DEF Fails, Doc!Drop
  <2> QED BY <2>1, DocServes
<1>2. CASE wholeDoc = FALSE
  <2>1. Field!Answered(p, i) /\ record' = record /\ UNCHANGED next
    BY <1>2 DEF Fails, Field!Drop
  <2> QED BY <1>2, <2>1, FieldServes
<1> QED BY <1>1, <1>2, Kinds

(* An executor's write lands, or was outstanding when it stopped. *)
LEMMA ExecutorStore ==
  ASSUME Contained, Typed, LifeInv, NEW e \in Executors, NEW i \in 1..Len(pending[e]),
         Lands(e, i) \/ Fails(e, i)
  PROVE  LifeInv'
<1>0. /\ e \in Processes /\ e # Front /\ Executors \subseteq Processes
      /\ pc \in [Executors -> Places] /\ raised \in [Executors -> BOOLEAN]
      /\ pending[e] \in Seq(Writes) /\ pending[e][i] \in Writes
  BY LifecycleAssumption DEF Processes, Typed, SpeakInv, HeldOK, AuthorInv
<1>1. Running(e)
  <2>1. pending[e] # <<>>
    BY <1>0
  <2> QED BY <2>1 DEF LifeInv, Fresh
<1>2. /\ pc[e] \notin {"idle", "dead"}
      /\ Way(wholeDoc, record, pending[e], pc[e], verdict[e], turns[e], reread[e], raised[e])
  BY <1>1 DEF LifeInv, RunInv, WayAt, Running
<1>3. Serves(e, i)
  BY <1>0, Landed, Gone
<1>4. ASSUME NEW ok \in BOOLEAN, Settle(e, i, ok)
      PROVE  /\ pending[e][i].awaited = TRUE => Resume(e, ok)
             /\ ~Awaits(pending[e][i]) => UNCHANGED <<pc, raised>>
             /\ wholeDoc' = wholeDoc /\ verdict' = verdict /\ turns' = turns /\ reread' = reread
             /\ front' = front /\ request' = request
  <2>1. pending[e][i].awaited \in BOOLEAN
    BY <1>0 DEF Writes
  <2> QED BY <1>0, <1>4, <2>1 DEF Settle, given, Awaits
<1>5. PICK ok \in BOOLEAN : Settle(e, i, ok)
  BY DEF Lands, Fails
<1>6. Others(e)
  <2>1. \A f \in Executors \ {e} : pc'[f] = pc[f] /\ raised'[f] = raised[f]
    <3>1. CASE ~Awaits(pending[e][i])
      BY <1>4, <1>5, <3>1
    <3>2. CASE Awaits(pending[e][i])
      BY <1>0, <1>4, <1>5, <3>2 DEF Awaits, Resume, Throw, Goto
    <3> QED BY <3>1, <3>2
  <2> QED BY <1>0, <1>3, <1>4, <1>5, <2>1 DEF Others, Serves
<1>7. MergeAt(e)'
  BY <1>3 DEF Serves, MergeAt
<1>8. CASE Fails(e, i)
  <2>1. pc[e] = "exited"
    BY <1>0, <1>2, <1>8 DEF Fails, Contained, Stopped
  <2>2. ~Awaits(pending[e][i]) /\ record' = record
    BY <1>0, <1>2, <1>3, <1>8, <2>1, ProgressDropped, Gone DEF Serves, Busy, Waiting
  <2>3. Way(wholeDoc, record, pending'[e], pc[e], verdict[e], turns[e], reread[e], raised[e])
    BY <1>0, <1>2, <1>3, <2>1, ProgressDropped DEF Serves, Busy, Waiting
  <2>4. WayAt(e)' /\ pc'[e] = pc[e]
    BY <1>4, <1>5, <2>2, <2>3 DEF WayAt
  <2> QED BY <1>1, <1>2, <1>6, <1>7, <2>4, LifeGoesOn DEF Running
<1>9. CASE Lands(e, i)
  <2>0. Merges(record', record, pending[e][i].patch) /\ Settle(e, i, TRUE)
    BY <1>0, <1>9, Landed DEF Lands, Contained
  <2>1. CASE ~Awaits(pending[e][i])
    <3>1. Way(wholeDoc, record', pending'[e], pc[e], verdict[e], turns[e], reread[e], raised[e])
      BY <1>0, <1>2, <1>3, <2>0, <2>1, ProgressLands DEF Serves
    <3>2. WayAt(e)' /\ pc'[e] = pc[e]
      BY <1>4, <2>0, <2>1, <3>1 DEF WayAt
    <3> QED BY <1>1, <1>2, <1>6, <1>7, <3>2, LifeGoesOn DEF Running
  <2>2. CASE Awaits(pending[e][i])
    <3>1. Resume(e, TRUE)
      BY <1>4, <2>0, <2>2 DEF Awaits
    <3>2. pc[e] \in Waiting
      BY <1>2, <2>2 DEF Way, QueuePart, Asked
    <3>3. Onward(pc[e], pc'[e], raised[e], raised'[e])
      <4>1. Finally(e) \in {"push", "close"}
        BY DEF Finally
      <4> QED BY <1>0, <3>1, <3>2, <4>1 DEF Waiting, Resume, Goto, Onward
    <3>4. Way(wholeDoc, record', pending'[e], pc'[e], verdict[e], turns[e], reread[e], raised'[e])
      BY <1>0, <1>2, <1>3, <2>0, <2>2, <3>3, AskedLands DEF Serves
    <3>5. WayAt(e)'
      BY <1>4, <2>0, <3>4 DEF WayAt
    <3>6. pc'[e] \notin {"idle", "dead"}
      BY <3>3 DEF Onward
    <3> QED BY <1>1, <1>6, <1>7, <3>5, <3>6, LifeGoesOn DEF Running
  <2> QED BY <2>1, <2>2
<1> QED BY <1>8, <1>9

(* The front door's mark lands on a run that nobody executes. *)
LEMMA FrontStore ==
  ASSUME Contained, Typed, LifeInv, NEW i \in 1..Len(pending[Front]),
         Lands(Front, i) \/ Fails(Front, i)
  PROVE  LifeInv'
<1>0. Front \in Processes /\ Front \notin Executors /\ pending[Front] \in Seq(Writes)
  BY LifecycleAssumption DEF Processes, Typed, AuthorInv
<1>1. pending[Front] # <<>>
  BY <1>0
<1>2. front = "failing" /\ pending[Front] = Marking /\ Nobody /\ request \in {"none", "rejected"}
  BY <1>1 DEF LifeInv, DoorInv
<1>3. Lands(Front, i)
  BY <1>2 DEF Fails, Contained, Stopped
<1>4. Serves(Front, i) /\ Merges(record', record, pending[Front][i].patch)
  BY <1>0, <1>3, Landed
<1>5. i = 1 /\ Len(pending[Front]) = 1 /\ pending[Front][1].patch = [status |-> "failed"]
  BY <1>2 DEF Marking
<1>6. record'["messages"] = record["messages"]
  BY <1>4, <1>5 DEF Merges, Keys
<1>7. pending'[Front] = <<>> /\ next'[Front] = NoDoc
  <2>1. pending'[Front] \in Seq(Writes) /\ Len(pending'[Front]) = 0
    BY <1>4, <1>5 DEF Serves, Lost
  <2> QED BY <1>4, <2>1 DEF Serves
<1>8. PICK ok \in BOOLEAN : Settle(Front, i, ok)
  BY <1>3 DEF Lands
<1>9. /\ front' = "done" /\ pc' = pc /\ raised' = raised
      /\ request' = request /\ wholeDoc' = wholeDoc /\ verdict' = verdict /\ turns' = turns
  BY <1>2, <1>8 DEF Settle, given
<1>10. \A e \in Executors : ~Running(e)' /\ Fresh(e)'
  BY <1>0, <1>2, <1>4, <1>9 DEF LifeInv, Nobody, Running, Fresh, Serves, Processes
<1>11. \A p \in Processes : MergeAt(p)'
  BY <1>7, <1>10 DEF MergeAt, Processes, Fresh
<1>12. DoorInv'
  BY <1>2, <1>6, <1>7, <1>9, <1>10 DEF LifeInv, DoorInv, Nobody
<1> QED BY <1>10, <1>11, <1>12 DEF LifeInv

LEMMA ReadLife ==
  ASSUME Typed, LifeInv, NEW p \in Processes, Reads(p)
  PROVE  LifeInv'
<1>1. /\ record' = record /\ pending' = pending /\ pending[p] # <<>> /\ wholeDoc = TRUE
      /\ next' = [next EXCEPT ![p] = Doc!Atomic!Patched(record, Head(pending[p]).patch)]
      /\ wholeDoc' = wholeDoc /\ front' = front /\ request' = request /\ pc' = pc
      /\ verdict' = verdict /\ turns' = turns /\ raised' = raised /\ reread' = reread
  BY Kinds DEF Reads, Doc!Get, given, executor
<1>2. next \in [Processes -> Docs \cup {NoDoc}]
  BY DEF Typed, AuthorInv
<1>3. next'[p] = Field!Patched(record, Head(pending[p]).patch)
  BY <1>1, <1>2 DEF Field!Patched, Doc!Atomic!Patched
<1>4. \A q \in Processes : q # p => next'[q] = next[q]
  BY <1>1, <1>2
<1>5. \A q \in Processes : MergeAt(q)'
  <2>1. MergeAt(p)'
    BY <1>1, <1>3 DEF MergeAt
  <2>2. ASSUME NEW q \in Processes, q # p PROVE MergeAt(q)'
    BY <1>1, <1>4, <2>2 DEF LifeInv, MergeAt
  <2> QED BY <2>1, <2>2
<1>6. \A e \in Executors : ~Running(e) => e # p /\ Fresh(e)'
  BY <1>1, <1>4 DEF LifeInv, Fresh, Processes
<1>7. \A e \in Executors : Running(e) => RunInv(e)'
  BY <1>1 DEF LifeInv, RunInv, WayAt
<1>8. \A e \in Executors : Running(e)' = Running(e)
  BY <1>1 DEF Running
<1>9. DoorInv'
  BY <1>1, <1>8 DEF LifeInv, DoorInv, Nobody
<1> QED BY <1>5, <1>6, <1>7, <1>8, <1>9 DEF LifeInv

LEMMA StoreLife ==
  ASSUME Contained, Typed, LifeInv, NEW p \in Processes, StoreStep(p)
  PROVE  LifeInv'
<1>1. CASE Reads(p)
  BY <1>1, ReadLife
<1>2. CASE \E i \in DOMAIN pending[p] : Lands(p, i) \/ Fails(p, i)
  <2>1. PICK i \in DOMAIN pending[p] : Lands(p, i) \/ Fails(p, i)
    BY <1>2
  <2>2. i \in 1..Len(pending[p])
    BY <2>1 DEF Typed, AuthorInv
  <2>3. p = Front \/ p \in Executors
    BY DEF Processes
  <2> QED BY <2>1, <2>2, <2>3, FrontStore, ExecutorStore
<1> QED BY <1>1, <1>2 DEF StoreStep

(* A run is started on its executor, whoever starts it. *)
LEMMA Starts ==
  ASSUME Typed, LifeInv, NEW e \in Executors, pc[e] = "idle", Goto(e, "get"), Nobody,
         front # "failing",
         record["status"] \notin Terminal,
         UNCHANGED <<store, verdict, turns, raised, reread>>, wholeDoc' = wholeDoc,
         front' \in {"sent", "done"}, request' \notin {"transit", "rejected"}
  PROVE  LifeInv'
<1>0. /\ pc'[e] = "get" /\ \A f \in Executors : f # e => pc'[f] = pc[f]
      /\ record' = record /\ pending' = pending /\ next' = next
  BY DEF Goto, Typed, SpeakInv, store
<1>1. /\ \A f \in Executors : ~Running(f) /\ Fresh(f)
      /\ \A f \in Executors : f # e => ~Running(f)' /\ Fresh(f)'
      /\ Running(e)' /\ ~Nobody'
  BY <1>0 DEF LifeInv, Nobody, Running, Fresh
<1>2. Way(wholeDoc, record, pending[e], "get", verdict[e], turns[e], reread[e], raised[e])
  <2>1. /\ pending[e] = <<>> /\ verdict[e] = "none" /\ turns[e] = 0 /\ raised[e] # TRUE
        /\ record["messages"] = 0
    BY <1>1 DEF Fresh, LifeInv, DoorInv
  <2>2. Len(pending[e]) = 0
    BY <2>1
  <2>3. QueuePart(pending[e], "get", verdict[e], reread[e]) /\ Told(record, pending[e], turns[e])
    BY <2>1, <2>2 DEF QueuePart, Told
  <2> QED BY <2>1, <2>3 DEF Way, StatusPart, AnswerPart, TurnsPart, RaisedPart, Decided, Undecided
<1>3. WayAt(e)'
  BY <1>0, <1>2 DEF WayAt
<1>4. RunInv(e)'
  BY <1>0, <1>3 DEF RunInv
<1>5. DoorInv'
  <2>1. pending[Front] = <<>>
    BY DEF LifeInv, DoorInv
  <2> QED BY <1>0, <1>1, <2>1 DEF DoorInv
<1>6. \A p \in Processes : MergeAt(p)'
  BY <1>0 DEF LifeInv, MergeAt
<1> QED BY <1>1, <1>4, <1>5, <1>6 DEF LifeInv

(* While nobody runs, the front door and the substrate only have to keep    *)
(* their own part.                                                          *)
LEMMA NobodyRuns ==
  ASSUME LifeInv, Nobody, front # "failing", next' = next,
         \A e \in Executors : pending'[e] = pending[e],
         UNCHANGED <<pc, verdict, turns, raised>>, DoorInv'
  PROVE  LifeInv'
<1>1. \A e \in Executors : ~Running(e) /\ Fresh(e) /\ ~Running(e)' /\ Fresh(e)'
  BY DEF LifeInv, Nobody, Running, Fresh
<1>2. \A p \in Processes : next[p] = NoDoc
  <2>1. pending[Front] = <<>>
    BY DEF LifeInv, DoorInv
  <2>2. Front \in Processes
    BY DEF Processes
  <2>3. next[Front] = NoDoc
    BY <2>1, <2>2 DEF LifeInv, MergeAt
  <2> QED BY <1>1, <2>3 DEF Processes, Fresh
<1> QED BY <1>1, <1>2 DEF LifeInv, MergeAt

LEMMA DoorLife ==
  ASSUME Contained, Typed, LifeInv, NotYet, FrontDoor
  PROVE  LifeInv'
<1>0. /\ Front \in Processes /\ Front \notin Executors /\ pending \in [Processes -> Seq(Writes)]
      /\ pc \in [Executors -> Places] /\ Executors \subseteq Processes
  BY LifecycleAssumption DEF Processes, Typed, AuthorInv, SpeakInv
<1>1. front \in {"new", "dispatch"} => Nobody /\ request = "none"
  BY DEF NotYet, Nobody, Running
<1>2. DoorInv
  BY DEF LifeInv
<1>3. pc' = pc => (Nobody' = Nobody)
  BY DEF Nobody, Running
<1>4. CASE Refuse \/ DispatchThrows \/ Check
  <2>1. /\ Nobody /\ front # "failing" /\ request \in {"none", "rejected"}
        /\ UNCHANGED <<pc, verdict, turns, raised, store, request>>
        /\ \/ front = "new" /\ front' = "refused" /\ request = "none"
           \/ front = "dispatch" /\ front' = "fail"
           \/ front = "check" /\ front' \in {"fail", "done"}
    <3>1. CASE Refuse
      BY <1>1, <3>1 DEF Refuse, MoveFront, executor
    <3>2. CASE DispatchThrows
      BY <1>1, <3>2 DEF DispatchThrows, MoveFront, executor
    <3>3. CASE Check
      BY <1>2, <3>3 DEF Check, MoveFront, executor, DoorInv
    <3> QED BY <1>4, <3>1, <3>2, <3>3
  <2>2. record' = record /\ pending' = pending /\ next' = next
    BY <2>1 DEF store
  <2>3. DoorInv'
    BY <1>2, <1>3, <2>1, <2>2 DEF DoorInv
  <2> QED BY <2>1, <2>2, <2>3, NobodyRuns
<1>5. CASE Create
  <2>1. /\ Nobody /\ front = "new" /\ front' = "dispatch"
        /\ UNCHANGED <<pc, verdict, turns, raised, request, pending, next>>
        /\ record' = [record EXCEPT !.status = "queued"] /\ request = "none"
    BY <1>1, <1>5 DEF Create, MoveFront, executor, Contained
  <2>2. record'["status"] = "queued" /\ record'["messages"] = record["messages"]
    BY <2>1 DEF Typed, AuthorInv, Docs, Keys
  <2>3. DoorInv'
    BY <1>2, <1>3, <2>1, <2>2 DEF DoorInv, Terminal, Results
  <2> QED BY <2>1, <2>3, NobodyRuns
<1>6. CASE Dispatch
  <2>1. /\ Nobody /\ front = "dispatch" /\ request = "none"
        /\ UNCHANGED <<verdict, turns, raised, reread, store>> /\ wholeDoc' = wholeDoc
        /\ record["status"] \notin Terminal
    BY <1>1, <1>2, <1>6 DEF Dispatch, given, DoorInv
  <2>2. CASE mode = "inprocess"
    <3>1. PICK e \in Executors : Goto(e, "get") /\ front' = "done" /\ request' = request
      BY <1>6, <2>2 DEF Dispatch
    <3>2. pc[e] = "idle"
      BY <2>1 DEF Nobody, Running
    <3> QED BY <2>1, <3>1, <3>2, Starts
  <2>3. CASE mode # "inprocess"
    <3>1. front' = "sent" /\ request' = "transit" /\ pc' = pc
      BY <1>6, <2>3 DEF Dispatch
    <3>2. record' = record /\ pending' = pending /\ next' = next
      BY <2>1 DEF store
    <3>3. DoorInv'
      BY <1>2, <1>3, <2>1, <3>1, <3>2 DEF DoorInv
    <3> QED BY <2>1, <3>1, <3>2, <3>3, NobodyRuns
  <2> QED BY <2>2, <2>3
<1>7. CASE ReplyOk
  <2>1. /\ front = "sent" /\ front' = "done" /\ request' = request
        /\ UNCHANGED <<pc, verdict, turns, raised, reread, store>> /\ wholeDoc' = wholeDoc
    BY <1>7 DEF ReplyOk, MoveFront, executor, given
  <2>2. record' = record /\ pending' = pending /\ next' = next
    BY <2>1 DEF store
  <2>3. DoorInv'
    BY <1>2, <1>3, <2>1, <2>2 DEF DoorInv
  <2>4. \A e \in Executors : IF Running(e)' THEN RunInv(e)' ELSE Fresh(e)'
    BY <2>1, <2>2 DEF LifeInv, Running, RunInv, WayAt, Fresh
  <2>5. \A p \in Processes : MergeAt(p)'
    BY <2>1, <2>2 DEF LifeInv, MergeAt
  <2> QED BY <2>1, <2>3, <2>4, <2>5 DEF LifeInv, Running
<1>8. CASE ReplyError
  <2>1. \A e \in Executors : pc[e] # "dead"
    BY DEF LifeInv, RunInv, Running
  <2>2. /\ front = "sent" /\ request = "rejected" /\ front' \in {"check", "fail"}
        /\ UNCHANGED <<pc, verdict, turns, raised, store, request>>
    BY <1>8, <2>1 DEF ReplyError, MoveFront, Failed, executor, Contained
  <2>3. record' = record /\ pending' = pending /\ next' = next /\ Nobody
    BY <1>2, <2>2 DEF store, DoorInv
  <2>4. DoorInv'
    BY <1>2, <1>3, <2>2, <2>3 DEF DoorInv
  <2> QED BY <2>2, <2>3, <2>4, NobodyRuns
<1>9. CASE MarkFailed
  <2>1. /\ front = "fail" /\ front' = "failing" /\ request' = request
        /\ UNCHANGED <<pc, verdict, turns, raised, record, next>>
        /\ pending' = [pending EXCEPT ![Front] =
                         Append(@, [patch |-> [status |-> "failed"], awaited |-> TRUE])]
    BY <1>9 DEF MarkFailed, MoveFront, Update, executor
  <2>2. Nobody /\ pending[Front] = <<>>
    BY <1>2, <2>1 DEF DoorInv
  <2>3. pending'[Front] = Append(<<>>, [patch |-> [status |-> "failed"], awaited |-> TRUE])
    BY <1>0, <2>1, <2>2
  <2>4. pending'[Front] = Marking
    BY <2>3 DEF Marking
  <2>5. \A e \in Executors : pending'[e] = pending[e]
    BY <1>0, <2>1
  <2>6. DoorInv'
    BY <1>2, <1>3, <2>1, <2>2, <2>4 DEF DoorInv
  <2> QED BY <2>1, <2>2, <2>5, <2>6, NobodyRuns
<1> QED BY <1>4, <1>5, <1>6, <1>7, <1>8, <1>9 DEF FrontDoor

LEMMA SubstrateLife ==
  ASSUME Contained, Typed, LifeInv, NotYet, Accept \/ Reject \/ \E e \in Executors : Deliver(e)
  PROVE  LifeInv'
<1>1. DoorInv
  BY DEF LifeInv
<1>2. CASE Accept \/ Reject
  <2>1. /\ request = "transit" /\ request' \in {"accepted", "rejected"} /\ front' = front
        /\ UNCHANGED <<pc, verdict, turns, raised, store>>
    BY <1>2 DEF Accept, Reject, executor
  <2>2. Nobody /\ front \notin {"new", "dispatch", "refused", "check", "fail", "failing"}
    BY <1>1, <2>1 DEF DoorInv, NotYet
  <2>3. record' = record /\ pending' = pending /\ next' = next /\ Nobody'
    BY <2>1, <2>2 DEF store, Nobody, Running
  <2>4. DoorInv'
    BY <1>1, <2>1, <2>2, <2>3 DEF DoorInv
  <2> QED BY <2>1, <2>2, <2>3, <2>4, NobodyRuns
<1>3. ASSUME NEW e \in Executors, Deliver(e) PROVE LifeInv'
  <2>1. /\ request = "accepted" /\ pc[e] = "idle" /\ Goto(e, "get")
        /\ UNCHANGED <<store, verdict, turns, raised, reread>> /\ wholeDoc' = wholeDoc
        /\ front' = front /\ request' = request
    BY <1>3 DEF Deliver, given
  <2>2. Nobody
    BY <1>3 DEF Deliver, Contained, Nobody, Running
  <2>3. front \in {"sent", "done"}
    BY <1>1, <2>1 DEF DoorInv, NotYet, Typed, PlacesOK, FrontPlaces
  <2>4. record["status"] \notin Terminal
    BY <1>1, <2>1, <2>2 DEF DoorInv
  <2> QED BY <2>1, <2>2, <2>3, <2>4, Starts
<1> QED BY <1>2, <1>3

LEMMA LifeStep == Contained /\ Typed /\ LifeInv /\ NotYet /\ [Next]_vars => LifeInv'
<1> SUFFICES ASSUME Contained, Typed, LifeInv, NotYet, [Next]_vars PROVE LifeInv'
  OBVIOUS
<1>1. CASE FrontDoor
  BY <1>1, DoorLife
<1>2. CASE FrontDies
  BY <1>2 DEF FrontDies, Contained
<1>3. CASE Accept \/ Reject
  BY <1>3, SubstrateLife
<1>4. CASE Watch \/ UNCHANGED vars
  <2>1. /\ record' = record /\ pending' = pending /\ next' = next
        /\ wholeDoc' = wholeDoc /\ front' = front /\ request' = request
        /\ pc' = pc /\ verdict' = verdict /\ turns' = turns /\ raised' = raised /\ reread' = reread
    BY <1>4 DEF Watch, Await, Poll, Deadline, vars, store, given, executor
  <2> QED BY <2>1 DEF LifeInv, DoorInv, MergeAt, Running, Nobody, RunInv, WayAt, Fresh
<1>5. ASSUME NEW e \in Executors, Deliver(e) \/ ProcessRun(e) \/ Exit(e) PROVE LifeInv'
  BY <1>5, SubstrateLife, ProcessLife
<1>6. ASSUME NEW e \in Executors, ExecutorDies(e) PROVE FALSE
  BY <1>6 DEF ExecutorDies, Contained
<1>7. ASSUME NEW p \in Processes, StoreStep(p) PROVE LifeInv'
  BY <1>7, StoreLife
<1> QED BY <1>1, <1>2, <1>3, <1>4, <1>5, <1>6, <1>7 DEF Next

-----------------------------------------------------------------------------
(* What follows from it.  A terminal status meets no write that changes it: *)
(* a status is asked for while it is open only, and by one process.         *)
LEMMA OpenWhenAsked ==
  ASSUME Contained, Typed, LifeInv, NEW p \in Processes, NEW i \in 1..Len(pending[p]),
         Lands(p, i), record["status"] \in Terminal
  PROVE  record'["status"] = record["status"]
<1>0. pending[p] \in Seq(Writes)
  BY DEF Typed, AuthorInv
<1>1. Merges(record', record, pending[p][i].patch)
  BY Landed
<1>2. "status" \notin DOMAIN pending[p][i].patch
  <2>1. CASE p = Front
    <3>1. pending[Front] # <<>>
      BY <1>0, <2>1
    <3> QED BY <3>1 DEF LifeInv, DoorInv
  <2>2. CASE p \in Executors
    <3>1. pending[p] # <<>>
      BY <1>0
    <3>2. Way(wholeDoc, record, pending[p], pc[p], verdict[p], turns[p], reread[p], raised[p])
      BY <2>2, <3>1 DEF LifeInv, Fresh, RunInv, WayAt
    <3>3. CASE Awaits(pending[p][i])
      <4>1. Asked(pending[p][i].patch, pc[p], verdict[p], reread[p]) /\ StatusPart(record, pc[p], verdict[p])
        BY <3>2, <3>3 DEF Way, QueuePart
      <4>2. pc[p] = "noting"
        BY <4>1 DEF StatusPart, Undecided, Asked, Waiting
      <4> QED BY <4>1, <4>2 DEF Asked
    <3>4. CASE ~Awaits(pending[p][i])
      BY <3>2, <3>4 DEF Way, QueuePart
    <3> QED BY <3>3, <3>4
  <2> QED BY <2>1, <2>2 DEF Processes
<1> QED BY <1>1, <1>2 DEF Merges, Keys

LEMMA StatusKept == Contained /\ Typed /\ LifeInv /\ [Next]_vars => StatusStays
<1> SUFFICES ASSUME Contained, Typed, LifeInv, [Next]_vars, record["status"] \in Terminal
             PROVE  record'["status"] = record["status"]
  BY DEF StatusStays
<1>1. CASE Create
  BY <1>1 DEF Create, LifeInv, DoorInv, Terminal, Results
<1>2. CASE (FrontDoor /\ ~Create) \/ FrontDies \/ Accept \/ Reject \/ Watch \/ UNCHANGED vars
  BY <1>2 DEF FrontDoor, FrontDies, Refuse, Dispatch, DispatchThrows, ReplyOk, ReplyError, Check,
     MarkFailed, Update, Accept, Reject, Watch, Await, Poll, Deadline, vars, store
<1>3. ASSUME NEW e \in Executors, Deliver(e) \/ ProcessRun(e) \/ Exit(e) \/ ExecutorDies(e)
      PROVE  record' = record
  BY <1>3 DEF Deliver, Exit, ExecutorDies, ProcessRun, Claim, StartSession, ResolveTools, Clone,
     Turn, Report, LoopThrows, Fail, Push, Note, Close, Rescue, Update, store
<1>4. ASSUME NEW p \in Processes, StoreStep(p) PROVE record'["status"] = record["status"]
  <2>1. CASE Reads(p)
    BY <2>1 DEF Reads, Doc!Get
  <2>2. ASSUME NEW i \in DOMAIN pending[p], Lands(p, i) \/ Fails(p, i)
        PROVE  record'["status"] = record["status"]
    <3>1. i \in 1..Len(pending[p])
      BY <2>2 DEF Typed, AuthorInv
    <3> QED BY <2>2, <3>1, OpenWhenAsked, Gone
  <2> QED BY <1>4, <2>1, <2>2 DEF StoreStep
<1> QED BY <1>1, <1>2, <1>3, <1>4 DEF Next

LEMMA OutcomeKept == LifeInv => OutcomeStands /\ TurnsDurable
<1> SUFFICES ASSUME LifeInv, NEW e \in Executors, Ended(e)
             PROVE  /\ verdict[e] # "none" =>
                         /\ record["status"] = verdict[e]
                         /\ verdict[e] = "completed" => record["output"] \in Answers
                    /\ wholeDoc = TRUE /\ pending[e] = <<>> => record["messages"] = turns[e]
  BY DEF OutcomeStands, TurnsDurable, Answers
<1>1. Way(wholeDoc, record, pending[e], pc[e], verdict[e], turns[e], reread[e], raised[e])
  BY DEF Ended, LifeInv, Running, RunInv, WayAt
<1>2. ASSUME wholeDoc = TRUE, pending[e] = <<>> PROVE record["messages"] = turns[e]
  <2>1. Told(record, pending[e], turns[e]) /\ Len(pending[e]) = 0
    BY <1>1, <1>2 DEF Way, TurnsPart
  <2> QED BY <2>1 DEF Told
<1> QED BY <1>1, <1>2 DEF Ended, Way, StatusPart, AnswerPart, Decided

LEMMA AllTyped ==
  Typed /\ NotYet /\ WatchOK /\ [Next]_vars => Typed' /\ NotYet' /\ WatchOK'
BY AuthorStep, SpeakStep, CountStep, PlacesStep, HeldStep, WatchStep, NotYetStep DEF Typed

LEMMA AllTypedStart == Init => Typed /\ NotYet /\ WatchOK
BY AuthorStart, SpeakStart, CountStart, RestStart, NotYetStart DEF Typed

(* process-run.ts:43-130, runs.ts, firestore-run-store.ts: for any number   *)
(* of executors, any substrate, either store and any step limit, as long as *)
(* only the run's own work can fail, a terminal status is final, and once   *)
(* processRun is over the record says its verdict, its answer and, in a     *)
(* whole document, every turn.                                              *)
THEOREM RecordStandsHolds == Contained => (Spec => RecordStands)
<1> SUFFICES ASSUME Contained PROVE Spec => RecordStands
  OBVIOUS
<1>1. LifeInv /\ Typed /\ NotYet /\ WatchOK /\ [Next]_vars => LifeInv'
  BY LifeStep
<1>2. LifeInv /\ Typed /\ [Next]_vars => [StatusStays]_vars
  BY StatusKept
<1>3. LifeInv /\ Typed /\ WatchOK => TypeOK /\ OutcomeStands /\ TurnsDurable
  BY OutcomeKept, TypesHold DEF Typed
<1> QED BY <1>1, <1>2, <1>3, LifeStart, AllTypedStart, AllTyped, PTL DEF Spec, RecordStands

(* What awaitRun has seen, the poll in between included. *)
SeenInv == AnswerStands /\ (watch.at = "polled" => watch.seen \notin AwaitTerminal)

LEMMA SeenStep == SeenInv /\ StatusStays /\ WatchOK /\ [Next]_vars => SeenInv'
<1> SUFFICES ASSUME SeenInv, StatusStays, WatchOK, [Next]_vars PROVE SeenInv'
  OBVIOUS
<1> USE DEF SeenInv, AnswerStands, AwaitTerminal, Terminal, Results
<1>1. CASE UNCHANGED watch
  BY <1>1 DEF StatusStays
<1>2. CASE Poll
  <2>1. record' = record
    BY <1>2 DEF Poll, store
  <2> QED BY <1>2, <2>1 DEF Poll
<1>3. CASE Await \/ Deadline
  <2>1. watch'.seen = watch.seen /\ watch'.at \in {"polling", "gave up"}
        /\ (watch'.at = "gave up" => watch.at = "polled")
    BY <1>3 DEF Await, Deadline, WatchOK
  <2> QED BY <2>1
<1> QED BY <1>1, <1>2, <1>3, OnlyWatched DEF Watch

(* agent-engine.ts:63-71: under the same faults what awaitRun answers with *)
(* is the status the run keeps, and it gives up only on a run that is not   *)
(* over or that ran out of steps.                                           *)
THEOREM AnswerStandsHolds == Contained => (Spec => []AnswerStands)
<1> SUFFICES ASSUME Contained PROVE Spec => []AnswerStands
  OBVIOUS
<1>1. LifeInv /\ Typed /\ NotYet /\ WatchOK /\ [Next]_vars => LifeInv'
  BY LifeStep
<1>2. LifeInv /\ Typed /\ WatchOK /\ SeenInv /\ [Next]_vars => SeenInv'
  BY StatusKept, SeenStep
<1>3. Init => SeenInv
  BY DEF Init, SeenInv, AnswerStands
<1>4. SeenInv => AnswerStands
  BY DEF SeenInv
<1> QED BY <1>1, <1>2, <1>3, <1>4, LifeStart, AllTypedStart, AllTyped, PTL DEF Spec
===============================================================================
