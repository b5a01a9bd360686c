------------------------------ MODULE TenantMemory ------------------------------
(***************************************************************************)
(* A tenant's durable memory.  The file adapters keep notes as lines of    *)
(* MEMORY.md, which humans edit too; the vector adapter keeps beside it an *)
(* index of embedded notes that any call may rewrite whole, from what it   *)
(* read before it waited for an embedding.  The managed adapters hand a    *)
(* note to a service, which makes it searchable later.                     *)
(*                                                                         *)
(* Calls of one tenant run at the same time: runs share the directory.     *)
(***************************************************************************)
EXTENDS Naturals, Bags

Bag == INSTANCE BagsExt

CONSTANTS
  Calls, Notes, NoReply, Refused, Error, Remembered,
  Best,        \* 5: lines of a vector search's answer
  TopK,        \* 8: facts of a managed search's
  MaxResults   \* 20: facts that AgentCore lists

MemoryAssumption == Best \in Nat /\ TopK \in Nat /\ MaxResults \in Nat

Managed  == {"agentcore", "vertex"}
Backends == {"files", "vector"} \cup Managed
Edits == 2   \* bound: how often a human edits the file

VARIABLES
  backend,
  file,    \* the lines of MEMORY.md: a note may be there more than once
  index,   \* the entries of .index.json
  events,  \* what the managed service was handed
  facts,   \* what it has made searchable
  call,    \* each tool call
  human,   \* history: how often, and what, a human edited
  kept     \* history: notes a call was told are remembered, and no human removed

vars == <<backend, file, index, events, facts, call, human, kept>>

Idle == [at |-> "idle", note |-> NoReply, idx |-> EmptyBag, todo |-> EmptyBag, due |-> {},
         reply |-> NoReply]

Init ==
  /\ backend = "none" /\ file = EmptyBag /\ index = EmptyBag /\ events = {} /\ facts = {}
  /\ call = [c \in Calls |-> Idle]
  /\ human = [edits |-> 0, removed |-> {}] /\ kept = {}

(* Which adapter the environment selects. *)
Selected ==
  /\ backend = "none" /\ backend' \in Backends
  /\ UNCHANGED <<file, index, events, facts, call, human, kept>>

Stay(c, rec)   == call' = [call EXCEPT ![c] = rec]
Reply(c, what) == Stay(c, [call[c] EXCEPT !.at = "done", !.reply = what])
At(c, at)      == backend # "none" /\ call[c].at = at

(* An answer that is a list: of all the lines, or of as many as it may hold, *)
(* which of them being the ranking's to say.                                 *)
List(lines, room) == [notes |-> BagToSet(lines), room |-> room]

All(lines) == List(lines, "left")

BestOf(lines, most) ==
  IF BagCardinality(lines) <= most THEN {lines}
  ELSE {part \in SubBag(lines) : BagCardinality(part) = most}

Cut(lines, most) ==
  {List(part, IF BagCardinality(part) < most THEN "left" ELSE "none") : part \in BestOf(lines, most)}

-----------------------------------------------------------------------------
(* remember: screened first; then the file, then an index read before the    *)
(* embedding and written after it.  What the guardrail masks it also blocks. *)
Verdicts == {"blocked", "as it is"}

Remember(c, n) ==
  /\ At(c, "idle") /\ Stay(c, [call[c] EXCEPT !.at = "screening", !.note = n])
  /\ UNCHANGED <<backend, file, index, events, facts, human, kept>>

Promise(n) == kept' = kept \cup ({n} \ human.removed)

Append(n) == file' = Bag!BagAdd(file, n)

Stores(c, verdict) ==
  CASE verdict = "blocked" -> Reply(c, Refused) /\ UNCHANGED <<file, kept>>
    [] verdict # "blocked" /\ backend = "files" ->
         Append(call[c].note) /\ Reply(c, Remembered) /\ Promise(call[c].note)
    [] verdict # "blocked" /\ backend = "vector" ->
         Append(call[c].note) /\ Stay(c, [call[c] EXCEPT !.at = "embedding", !.idx = index]) /\ UNCHANGED kept
    [] OTHER -> Stay(c, [call[c] EXCEPT !.at = "sending"]) /\ UNCHANGED <<file, kept>>

Screened(c) ==
  /\ At(c, "screening") /\ \E verdict \in Verdicts : Stores(c, verdict)
  /\ UNCHANGED <<backend, index, events, facts, human>>

Embedded(c) ==
  /\ At(c, "embedding")
  /\ index' = Bag!BagAdd(call[c].idx, call[c].note) /\ Reply(c, Remembered) /\ Promise(call[c].note)
  /\ UNCHANGED <<backend, file, events, facts, human>>

Told(c, what) == \E heard \in {what, Error} : Reply(c, heard)

(* createEvent: the answer may be lost when the event is not. *)
EventSent(c) ==
  /\ At(c, "sending") /\ backend = "agentcore"
  /\ events' = events \cup {call[c].note} /\ Told(c, Remembered)
  /\ UNCHANGED <<backend, file, index, facts, human, kept>>

(* CreateMemory: the body is the memory, and so it is for its answer. *)
MemoryCreated(c) ==
  /\ At(c, "sending") /\ backend = "vertex"
  /\ events' = events \cup {call[c].note} /\ Told(c, Remembered)
  /\ UNCHANGED <<backend, file, index, facts, human, kept>>

Extract(n) ==
  /\ n \in events \ facts /\ facts' = facts \cup {n}
  /\ UNCHANGED <<backend, file, index, events, call, human, kept>>

-----------------------------------------------------------------------------
(* recall: what a run's prompt begins with.  The whole file; or what the      *)
(* service has, as far as it lists it, and nothing if it does not answer.     *)
Recall(c) ==
  /\ At(c, "idle")
  /\ IF backend \in Managed THEN Stay(c, [call[c] EXCEPT !.at = "recalling", !.due = facts])
     ELSE Stay(c, [call[c] EXCEPT !.at = "done", !.due = kept, !.reply = All(file)])
  /\ UNCHANGED <<backend, file, index, events, facts, human, kept>>

Recalled(c) ==
  /\ At(c, "recalling") /\ backend = "agentcore"
  /\ \E list \in Cut(SetToBag(facts), MaxResults) : Reply(c, list)
  /\ UNCHANGED <<backend, file, index, events, facts, human, kept>>

AllOfScope(c) ==
  /\ At(c, "recalling") /\ backend = "vertex" /\ Reply(c, All(SetToBag(facts)))
  /\ UNCHANGED <<backend, file, index, events, facts, human, kept>>

FailsOpen(c) ==
  /\ At(c, "recalling")
  /\ Stay(c, [call[c] EXCEPT !.at = "done", !.due = {}, !.reply = All(EmptyBag)])
  /\ UNCHANGED <<backend, file, index, events, facts, human, kept>>

(* memory_search, for words that all notes match.  ensureIndex(): the lines  *)
(* of the file whose note the index read does not have are embedded one by   *)
(* one, and the whole is written back.                                       *)

(* Variant: a count that agrees is taken for an index that does. *)
MissingByCount(idx) ==
  [n \in IF BagCardinality(idx) >= BagCardinality(file) THEN {} ELSE BagToSet(file) \ BagToSet(idx) |->
     file[n]]
Missing(idx) == [n \in BagToSet(file) \ BagToSet(idx) |-> file[n]]

Search(c) ==
  /\ At(c, "idle")
  /\ \/ /\ backend = "files"
        /\ Stay(c, [call[c] EXCEPT !.at = "done", !.due = kept, !.reply = All(file)])
     \/ /\ backend = "vector"
        /\ Stay(c, [call[c] EXCEPT !.at = IF BagToSet(Missing(index)) = {} THEN "ranking" ELSE "indexing",
                                   !.due = BagToSet(file), !.idx = index, !.todo = Missing(index)])
     \/ /\ backend \in Managed
        /\ Stay(c, [call[c] EXCEPT !.at = "retrieving", !.due = facts])
  /\ UNCHANGED <<backend, file, index, events, facts, human, kept>>

Indexed(c) ==
  /\ At(c, "indexing")
  /\ \E n \in BagToSet(call[c].todo) :
       LET todo == Bag!BagRemove(call[c].todo, n)
           idx  == Bag!BagAdd(call[c].idx, n)
           full == BagToSet(todo) = {}
       IN  /\ Stay(c, [call[c] EXCEPT !.at = IF full THEN "ranking" ELSE @, !.idx = idx, !.todo = todo])
           /\ index' = IF full THEN idx ELSE index
  /\ UNCHANGED <<backend, file, events, facts, human, kept>>

Ranked(c) ==
  /\ At(c, "ranking") /\ \E list \in Cut(call[c].idx, Best) : Reply(c, list)
  /\ UNCHANGED <<backend, file, index, events, facts, human, kept>>

RecordsFound(c) ==
  /\ At(c, "retrieving") /\ backend = "agentcore"
  /\ \E list \in Cut(SetToBag(facts), TopK) : Reply(c, list)
  /\ UNCHANGED <<backend, file, index, events, facts, human, kept>>

Retrieved(c) ==
  /\ At(c, "retrieving") /\ backend = "vertex"
  /\ \E list \in Cut(SetToBag(facts), TopK) : Reply(c, list)
  /\ UNCHANGED <<backend, file, index, events, facts, human, kept>>

(* The guard, the embeddings or the service is unreachable: the loop shows   *)
(* the agent an error.                                                       *)
Throws(c) ==
  /\ call[c].at \in {"screening", "embedding", "sending", "indexing", "ranking", "retrieving"}
  /\ Reply(c, Error)
  /\ UNCHANGED <<backend, file, index, events, facts, human, kept>>

(* A human edits a line of the Markdown, and the index is nobody's to edit.  *)
HumanEdits(n) ==
  /\ backend \in {"files", "vector"} /\ human.edits < Edits
  /\ file' \in {Bag!BagAdd(file, n), Bag!BagRemove(file, n)}
  /\ human' = [edits   |-> human.edits + 1,
               removed |-> human.removed \cup (BagToSet(file) \ BagToSet(file'))]
  /\ kept' = kept \cap BagToSet(file')
  /\ UNCHANGED <<backend, index, events, facts, call>>

Next ==
  \/ Selected
  \/ \E c \in Calls : \/ \E n \in Notes : Remember(c, n)
                      \/ Screened(c) \/ Embedded(c) \/ EventSent(c) \/ MemoryCreated(c)
                      \/ Recall(c) \/ Recalled(c) \/ AllOfScope(c) \/ FailsOpen(c)
                      \/ Search(c) \/ Indexed(c) \/ Ranked(c) \/ RecordsFound(c)
                      \/ Retrieved(c) \/ Throws(c)
  \/ \E n \in Notes : Extract(n) \/ HumanEdits(n)

Spec == Init /\ [][Next]_vars

-----------------------------------------------------------------------------
(* Types. *)
TypeOK ==
  /\ backend \in Backends \cup {"none"}
  /\ {BagToSet(file), BagToSet(index), events, facts, kept} \subseteq SUBSET Notes /\ facts \subseteq events
  /\ \A c \in Calls : BagToSet(call[c].idx) \subseteq Notes /\ BagToSet(call[c].todo) \subseteq Notes

(* However calls overlap on the file and on an index that each rewrites      *)
(* whole, a search or a recall finds every note that was promised before it  *)
(* began, a vector search every line that a human had written by then, and   *)
(* a managed one what the service had made searchable.  Except that a list   *)
(* which holds as many lines as it may, copies included, may leave it out.   *)
RememberedIsFound ==
  \A c \in Calls : /\ call[c].at = "done"
                   /\ call[c].reply \notin {NoReply, Refused, Error, Remembered}
                   => \/ call[c].due \subseteq call[c].reply.notes
                      \/ call[c].reply.room = "none"
===============================================================================
