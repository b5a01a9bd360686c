-------------------------- MODULE FirestoreSpendStore --------------------------
(***************************************************************************)
(* FirestoreSpendStore.casAdd on one document: read the total and its      *)
(* updateTime, check the ceiling, write with the updateTime (or the        *)
(* document's absence) as a precondition, and start over when a concurrent *)
(* writer got there first, a bounded number of times.                      *)
(***************************************************************************)
EXTENDS Integers

CONSTANTS Callers, Delta, Capped, Ceiling,
          MaxAttempts   \* MAX_CAS_ATTEMPTS

ASSUME SpendAssumption ==
  /\ Delta \in [Callers -> Int]
  /\ Ceiling \in [Callers -> Int]
  /\ Capped \subseteq Callers
  /\ MaxAttempts \in Nat \ {0}

VARIABLES
  total,    \* spentUsd in the document, 0 while there is none
  version,  \* its updateTime, 0 while there is no document
  result,   \* how each call ended, "waiting" until it does
  at,       \* "read" or "write": where its attempt is
  seen,     \* seen[c]: the total and version its attempt read
  lost      \* lost[c]: attempts it lost to other writers

casVars == <<total, version, result, at, seen, lost>>

CasInit ==
  /\ total = 0
  /\ version = 0
  /\ result = [c \in Callers |-> "waiting"]
  /\ at = [c \in Callers |-> "read"]
  /\ seen = [c \in Callers |-> [total |-> 0, version |-> 0]]
  /\ lost = [c \in Callers |-> 0]

Row == INSTANCE SpendRow

(* read(), and the ceiling check on what was read. *)
Read(c) ==
  /\ result[c] = "waiting"
  /\ at[c] = "read"
  /\ seen' = [seen EXCEPT ![c] = [total |-> total, version |-> version]]
  /\ IF Row!Fits(c)
       THEN at' = [at EXCEPT ![c] = "write"] /\ UNCHANGED result
       ELSE Row!Return(c, "refused") /\ UNCHANGED at
  /\ UNCHANGED <<total, version, lost>>

(* Variant: the precondition only tells a missing document. *)
ExistsAsSeen(c) == (seen[c].version = 0) <=> (version = 0)

Unchanged(c) == seen[c].version = version

WriteSeen(c) ==
  /\ total' = seen[c].total + Delta[c]
  /\ version' = version + 1

(* The write whose precondition holds. *)
Write(c) ==
  /\ at[c] = "write"
  /\ Unchanged(c)
  /\ WriteSeen(c)
  /\ Row!Return(c, "added")
  /\ UNCHANGED <<at, seen, lost>>

(* Variant: a retry on the stale read. *)
LoseRaceUnread(c) ==
  /\ result[c] = "waiting"
  /\ at[c] = "write"
  /\ ~Unchanged(c)
  /\ lost' = [lost EXCEPT ![c] = @ + 1]
  /\ IF lost'[c] < MaxAttempts
       THEN UNCHANGED result
       ELSE Row!Return(c, "threw")
  /\ UNCHANGED <<total, version, at, seen>>

(* The precondition fails: read again, or give up after the last attempt.  *)
LoseRace(c) ==
  /\ result[c] = "waiting"
  /\ at[c] = "write"
  /\ ~Unchanged(c)
  /\ lost' = [lost EXCEPT ![c] = @ + 1]
  /\ IF lost'[c] < MaxAttempts
       THEN at' = [at EXCEPT ![c] = "read"] /\ UNCHANGED result
       ELSE Row!Return(c, "threw") /\ UNCHANGED at
  /\ UNCHANGED <<total, version, seen>>

(* A request throws; a write may have taken effect with its reply lost.    *)
Break(c) ==
  /\ Row!Return(c, "threw")
  /\ \/ at[c] = "write" /\ Unchanged(c) /\ WriteSeen(c)
     \/ UNCHANGED <<total, version>>
  /\ UNCHANGED <<at, seen, lost>>

CasNext == \E c \in Callers : Read(c) \/ Write(c) \/ LoseRace(c) \/ Break(c)

CasSpec == CasInit /\ [][CasNext]_casVars

-----------------------------------------------------------------------------
CasTypeOK ==
  /\ total \in Int
  /\ version \in Nat
  /\ result \in [Callers -> {"waiting", "added", "refused", "threw"}]
  /\ at \in [Callers -> {"read", "write"}]
  /\ seen \in [Callers -> [total : Int, version : Nat]]
  /\ lost \in [Callers -> 0..MaxAttempts]

(***************************************************************************)
(* The retry loop is one atomic conditional add: no two callers pass the   *)
(* same check, and a refused or refunded amount is never written.          *)
(***************************************************************************)
CasIsAtomic == Row!Spec

(***************************************************************************)
(* A call gives up only under sustained contention: every attempt it lost  *)
(* was another caller's write.                                             *)
(***************************************************************************)
EveryLossIsAWin == \A c \in Callers : lost[c] <= version

(* Why the write is atomic: a version names one total. *)
SeenIsPast ==
  \A c \in Callers :
    /\ seen[c].version <= version
    /\ Unchanged(c) /\ at[c] = "write" =>
         seen[c].total = total /\ (c \in Capped => total + Delta[c] <= Ceiling[c])

(* Why losses are wins: the attempts lost so far were lost to versions up   *)
(* to the one last read.                                                   *)
LossesCounted ==
  \A c \in Callers :
    /\ lost[c] <= version
    /\ result[c] = "waiting" => lost[c] < MaxAttempts
    /\ (result[c] = "waiting" /\ at[c] = "write") => lost[c] <= seen[c].version

CasInv == CasTypeOK /\ SeenIsPast /\ LossesCounted
=============================================================================
