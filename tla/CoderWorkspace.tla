----------------------------- MODULE CoderWorkspace -----------------------------
(***************************************************************************)
(* A coder run's workspace.  The executor copies the repository's text     *)
(* files into the sandbox through GitHub's API, the agent works there, and *)
(* at the end finalize() compares blob ids and pushes what differs as one  *)
(* commit on the run's own branch.                                         *)
(*                                                                         *)
(* What a listing shows depends on the backend, and no listing descends    *)
(* into node_modules; a read may fail though the file is there.  A file's  *)
(* content is what the comparison tells apart: the repository's text, what *)
(* decoding leaves of a file that is not UTF-8, and what others wrote.     *)
(***************************************************************************)
EXTENDS Naturals, FiniteSets

CONSTANTS
  Plain, Dot, Vendored,   \* paths, by what hides them from a listing
  MassMin,                \* 8: the baseline from which the half is refused
  MaxFiles,               \* 200
  Native                  \* the paths a sandbox may come with
Paths == Plain \cup Dot \cup Vendored
Edits == 2   \* bound: what the agent changes
InRepo == {"none", "text", "notUtf8", "skipped"}   \* skipped: binary, or too large
InBox  == {"none", "text", "mangled", "edited", "artifact", "native"}

CoderAssumption ==
  IsFiniteSet(Paths) /\ Native \subseteq Paths /\ MassMin \in Nat /\ MaxFiles \in Nat

VARIABLES
  phase,    \* "idle", "working", "ended"
  globbed,  \* the local sandbox, whose glob hides dotfiles
  repo,     \* the repository's files at the default branch
  box,      \* the session's files
  preexisting, baseline,   \* what the clone noted
  branch,   \* run/<id>: for each path pushed, the content or a deletion
  note,     \* what finalize() answered
  edits,
  theirs,   \* history: the paths the agent wrote or removed
  unread    \* history: the paths a read failed for, or a listing was cut before

vars == <<phase, globbed, repo, box, preexisting, baseline, branch, note, edits, theirs, unread>>

Nothing == [p \in {} |-> "none"]

Init ==
  /\ phase = "idle" /\ globbed = FALSE
  /\ repo = [p \in Paths |-> "none"] /\ box = [p \in Paths |-> "none"]
  /\ preexisting = {} /\ baseline = {} /\ branch = Nothing
  /\ note = "none" /\ edits = 0 /\ theirs = {} /\ unread = {}

There(files) == {p \in DOMAIN files : files[p] # "none"}

(* listFiles(), and the one shell pass that hashes what find reports. *)
Listed(files) == There(files) \ (Vendored \cup IF globbed THEN Dot ELSE {})
Found(files)  == There(files) \ Vendored

(* Of a long listing, finalize() takes the first part.                       *)
FirstOf(listing) ==
  IF Cardinality(listing) <= 2 * MaxFiles THEN {listing}
  ELSE {part \in SUBSET listing : Cardinality(part) = 2 * MaxFiles}

-----------------------------------------------------------------------------
(* cloneCoderWorkspace(): the sandbox's own files are noted before anything  *)
(* is written over them, and what could not be a text file is left out.      *)
Clone ==
  /\ phase = "idle"
  /\ \E local \in BOOLEAN, files \in [Paths -> InRepo], own \in SUBSET Native :
       /\ local => own = {}
       /\ Cardinality(There(files)) <= MaxFiles
       /\ globbed' = local /\ repo' = files
       /\ preexisting' = own \ Vendored
       /\ baseline' = {p \in Paths : files[p] \in {"text", "notUtf8"}}
       /\ box' = [p \in Paths |-> CASE files[p] = "text"    -> "text"
                                    [] files[p] = "notUtf8" -> "mangled"
                                    [] OTHER -> IF p \in own THEN "native" ELSE "none"]
  /\ phase' = "working" /\ UNCHANGED <<branch, note, edits, theirs, unread>>

(* Too many files, an answer that is not 2xx, or a write that fails: the run *)
(* fails without a workspace to push.                                        *)
CloneThrows ==
  /\ phase = "idle" /\ phase' = "ended"
  /\ UNCHANGED <<globbed, repo, box, preexisting, baseline, branch, note, edits, theirs, unread>>

(* The tools, or a command they started: an edit, an artifact that is        *)
(* binary, a removal, a change undone.                                       *)
AgentWrites(p) ==
  /\ phase = "working" /\ edits < Edits
  /\ \E content \in {"none", "edited", "artifact"} \cup IF p \in baseline THEN {"text"} ELSE {} :
       content # box[p] /\ box' = [box EXCEPT ![p] = content]
  /\ edits' = edits + 1 /\ theirs' = theirs \cup {p}
  /\ UNCHANGED <<phase, globbed, repo, preexisting, baseline, branch, note, unread>>

-----------------------------------------------------------------------------
(* finalize().  The fast pass reports ids, and may miss a file whose hash    *)
(* failed; without it, the files of the listing are read.                    *)
Untouched(p) == repo[p] = "text" /\ box[p] = "text"

Considered(present) == {p \in present : p \in baseline \/ p \notin preexisting}

Readable(failing) == There(box) \ failing

Written(present, failing) ==
  {p \in Considered(present) \cap Readable(failing) :
     /\ ~Untouched(p)
     /\ p \in baseline \/ box[p] # "artifact"}

(* What the baseline has and the listing has not is read before it is        *)
(* believed gone.                                                            *)
Unlisted(present) == baseline \ present

(* Variant: what a listing does not show is gone. *)
DeletedUnverified(present, failing) == Unlisted(present)
Deleted(present, failing) == Unlisted(present) \ Readable(failing)

Rewritten(present, failing) ==
  {p \in Unlisted(present) \cap Readable(failing) : ~Untouched(p)}

Entries(present, failing) ==
  LET gone == Deleted(present, failing)
      kept == (Written(present, failing) \cup Rewritten(present, failing)) \ gone
  IN  [p \in gone \cup kept |-> IF p \in gone THEN "deleted" ELSE box[p]]

TooMany(gone) == Cardinality(baseline) >= MassMin /\ 2 * Cardinality(gone) > Cardinality(baseline)

(* The files finalize() goes through; and those of the others, new ones,     *)
(* that a listing could have shown.                                          *)
Present ==
  {Found(box) \ missed : missed \in SUBSET (Found(box) \ baseline)} \cup FirstOf(Listed(box))

LeftOut(present) == Listed(box) \ (present \cup baseline)

(* The files that cannot be read: none, one, or with a broken surface all.   *)
Failing == {{}, There(box)} \cup {{p} : p \in There(box)}

Finalize ==
  /\ phase = "working"
  /\ \E failing \in Failing, present \in Present :
       LET entries == Entries(present, failing)
           gone    == {p \in DOMAIN entries : entries[p] = "deleted"}
       IN  /\ unread' = failing \cup LeftOut(present)
           /\ IF TooMany(gone) THEN note' = "refused" /\ UNCHANGED branch
              ELSE IF DOMAIN entries = {} THEN note' = "nothing" /\ UNCHANGED branch
              ELSE note' \in {"pushed", "failed"} /\ branch' = entries
  /\ phase' = "ended"
  /\ UNCHANGED <<globbed, repo, box, preexisting, baseline, edits, theirs>>

(* A call to GitHub fails before the branch is made, or the listing does, or *)
(* the branch exists since the run was delivered before: the failure is a    *)
(* note in the run's output, and the workspace is closed.                    *)
FinalizeThrows ==
  /\ phase = "working" /\ phase' = "ended" /\ note' = "failed"
  /\ UNCHANGED <<globbed, repo, box, preexisting, baseline, branch, edits, theirs, unread>>

Next ==
  \/ Clone \/ CloneThrows \/ Finalize \/ FinalizeThrows
  \/ \E p \in Paths : AgentWrites(p)

Spec == Init /\ [][Next]_vars

-----------------------------------------------------------------------------
(* Types. *)
TypeOK ==
  /\ phase \in {"idle", "working", "ended"} /\ globbed \in BOOLEAN
  /\ repo \in [Paths -> InRepo] /\ box \in [Paths -> InBox]
  /\ {preexisting, baseline, theirs, unread} \subseteq SUBSET Paths
  /\ DOMAIN branch \subseteq Paths

(* What is pushed is the agent's work: a deletion is of a file that is gone  *)
(* or that could not be read, a content is one the agent wrote.  Except      *)
(* that a file which is not UTF-8 comes back changed by having been decoded. *)
PushesTheirs ==
  phase = "working" /\ branch' # branch =>
       \A p \in DOMAIN branch' :
         IF branch'[p] = "deleted" THEN p \in baseline /\ (box[p] = "none" \/ p \in unread')
         ELSE p \in theirs \/ repo[p] = "notUtf8"
PushedIsTheirs == [][PushesTheirs]_vars

(* What is not pushed is not the agent's work: whatever finalize() says was  *)
(* all, every file of the repository that the agent left different is in the *)
(* branch, and every new text file of the listing, or of as much of it as is *)
(* gone through.                                                             *)
ForgetsNothing ==
  phase = "working" /\ note' \in {"pushed", "nothing"} =>
       \A p \in theirs \ unread' :
         \/ p \in DOMAIN branch'
         \/ Untouched(p)
         \/ p \notin baseline /\ (\/ p \in preexisting \/ p \notin Listed(box)
                               \/ box[p] = "artifact")
NothingForgotten == [][ForgetsNothing]_vars

(* A surface that stopped answering is not a repository the agent emptied.   *)
LeavesHalf == branch' # branch => ~TooMany({p \in DOMAIN branch' : branch'[p] = "deleted"})
===============================================================================
