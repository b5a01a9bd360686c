------------------------------ MODULE BudgetGate ------------------------------
(***************************************************************************)
(* The dollar gate: LocalGate over an atomic SpendStore, driven by the     *)
(* model calls of AdmissionInferenceProvider.                              *)
(*                                                                         *)
(* A call prices its worst case, reserves it on the tenant's monthly row,  *)
(* then on the row of its session, sends the request, and settles both     *)
(* rows to the actual cost.  Each store operation is atomic; the calls     *)
(* interleave at every await, a call may break at any of them, the month   *)
(* may turn and a tenant's cap may change at any time.                     *)
(*                                                                         *)
(* Money is counted in whole units, Most is the largest price of a call.   *)
(***************************************************************************)
EXTENDS Integers, FiniteSets

CONSTANTS Calls,       \* the model calls made (any finite set)
          Tenants,
          Sessions,    \* session ids a caller may name
          NoSession,   \* the scope of a call that names none
          TenantOf,    \* [Calls -> Tenants]
          SessionOf,   \* [Calls -> Sessions \cup {NoSession}]
          Worst,       \* [Calls -> 0..Most], the worst-case price of a call
          SessionCap,  \* LocalGateOptions.sessionLimitUsd
          Caps,        \* the monthly caps a tenant may be given
          LastMonth,   \* bound on the calendar
          Most,        \* bound on the price of one call
          Costs        \* what an answered call may turn out to cost

Months == 1..LastMonth

ASSUME GateAssumption ==
  /\ IsFiniteSet(Calls)
  /\ NoSession \notin Sessions
  /\ TenantOf \in [Calls -> Tenants]
  /\ SessionOf \in [Calls -> Sessions \cup {NoSession}]
  /\ Most \in Nat /\ Costs \subseteq 0..Most
  /\ Worst \in [Calls -> 0..Most]
  /\ SessionCap \in Nat
  /\ Caps \subseteq Nat /\ Caps # {}
  /\ LastMonth \in Nat \ {0}

VARIABLES
  month,         \* currentPeriod(now)
  cap,           \* cap[t]: what limitFor(t) answers now
  spent,         \* spent[<<t, m>>]: the tenant's row of month m
  sessionSpent,  \* sessionSpent[<<t, s>>]: the row session#s of tenant t
  pc,            \* where each call is
  period,        \* period[c]: the month reserve() read
  limit,         \* limit[c]: the cap reserve() read
  settlePeriod,  \* settlePeriod[c]: the month settle() read
  actual,        \* actual[c]: the cost of the answered call, 0 if it failed
  \* history: what the store holds for each call, and each tenant's highest cap
  held,          \* units of c on its tenant's row of month period[c]
  sessionHeld,   \* units of c on its session's row
  strayed,       \* units c's settlement took off another month's row
  peak           \* peak[t]: the highest cap t ever had

gateVars == <<pc, period, limit, settlePeriod, actual>>
ledger   == <<spent, sessionSpent>>
history  == <<held, sessionHeld, strayed, peak>>
vars     == <<month, cap, ledger, gateVars, history>>

-----------------------------------------------------------------------------
SessionOn(c) == SessionOf[c] # NoSession

MonthRow(c, m) == <<TenantOf[c], m>>
SessionRow(c)  == <<TenantOf[c], SessionOf[c]>>

MonthRows   == Tenants \X Months
SessionRows == Tenants \X Sessions

(***************************************************************************)
(* SpendStore.reserve: add delta to a row iff the total stays within       *)
(* ceiling.  SpendStore.add: add it whatever the total.                    *)
(***************************************************************************)
Fits(total, delta, ceiling) == total + delta <= ceiling

AddTo(rows, row, delta) == [rows EXCEPT ![row] = @ + delta]

(***************************************************************************)
(* Where a call is.  "lost" and "unsettled" are calls that broke after the *)
(* request was sent: the first without an answer, the second before both   *)
(* rows were reconciled.  "failed" calls broke before anything was sent.   *)
(***************************************************************************)
AtStore   == {"reserve", "session", "refund", "settle", "settleSession"}
Unsent    == {"limit", "reserve", "session", "refund"}
Answered  == {"settle", "settleSession", "done", "unsettled"}
Ended     == {"done", "refused", "failed", "lost", "unsettled"}
Places    == {"new", "sent"} \cup Unsent \cup AtStore \cup Ended

Goto(c, place) == pc' = [pc EXCEPT ![c] = place]

-----------------------------------------------------------------------------
Init ==
  /\ month = 1
  /\ cap \in [Tenants -> Caps]
  /\ peak = cap
  /\ spent = [r \in MonthRows |-> 0]
  /\ sessionSpent = [r \in SessionRows |-> 0]
  /\ pc = [c \in Calls |-> "new"]
  /\ period = [c \in Calls |-> 1]
  /\ limit = [c \in Calls |-> 0]
  /\ settlePeriod = [c \in Calls |-> 1]
  /\ actual = [c \in Calls |-> 0]
  /\ held = [c \in Calls |-> 0]
  /\ sessionHeld = [c \in Calls |-> 0]
  /\ strayed = [c \in Calls |-> 0]

(* generate() prices the call and enters reserve(), which reads the period *)
(* and starts to await the cap.                                            *)
Start(c) ==
  /\ pc[c] = "new"
  /\ period' = [period EXCEPT ![c] = month]
  /\ Goto(c, "limit")
  /\ UNCHANGED <<month, cap, ledger, limit, settlePeriod, actual, history>>

(* limitFor answers; a request above the whole cap is refused unsent.      *)
ReadLimit(c) ==
  /\ pc[c] = "limit"
  /\ limit' = [limit EXCEPT ![c] = cap[TenantOf[c]]]
  /\ Goto(c, IF Worst[c] > limit'[c] THEN "refused" ELSE "reserve")
  /\ UNCHANGED <<month, cap, ledger, period, settlePeriod, actual, history>>

(* Variant: the request alone is held against the cap. *)
TenantFitsAlone(c) == Worst[c] <= limit[c]

TenantFits(c) == Fits(spent[MonthRow(c, period[c])], Worst[c], limit[c])

HoldTenant(c) ==
  /\ spent' = AddTo(spent, MonthRow(c, period[c]), Worst[c])
  /\ held' = [held EXCEPT ![c] = Worst[c]]
  /\ UNCHANGED <<sessionSpent, sessionHeld, strayed>>

(* The atomic reserve on the tenant's row of the month read at the start.  *)
ReserveTenant(c) ==
  /\ pc[c] = "reserve"
  /\ \/ /\ TenantFits(c)
        /\ HoldTenant(c)
        /\ Goto(c, IF SessionOn(c) THEN "session" ELSE "sent")
     \/ /\ ~TenantFits(c)
        /\ Goto(c, "refused")
        /\ UNCHANGED <<ledger, held, sessionHeld, strayed>>
  /\ UNCHANGED <<month, cap, period, limit, settlePeriod, actual, peak>>

(* Variants: the request, or the row, alone is held against the cap. *)
SessionFitsAlone(c) == Worst[c] <= SessionCap
SessionNotFull(c)   == sessionSpent[SessionRow(c)] < SessionCap

SessionFits(c) ==
  /\ Worst[c] <= SessionCap
  /\ Fits(sessionSpent[SessionRow(c)], Worst[c], SessionCap)

HoldSession(c) ==
  /\ sessionSpent' = AddTo(sessionSpent, SessionRow(c), Worst[c])
  /\ sessionHeld' = [sessionHeld EXCEPT ![c] = Worst[c]]
  /\ UNCHANGED <<spent, held, strayed>>

(* The atomic reserve on the session's row, if the session scope is on.    *)
ReserveSession(c) ==
  /\ pc[c] = "session"
  /\ \/ /\ SessionFits(c)
        /\ HoldSession(c)
        /\ Goto(c, "sent")
     \/ /\ ~SessionFits(c)
        /\ Goto(c, "refund")
        /\ UNCHANGED <<ledger, held, sessionHeld, strayed>>
  /\ UNCHANGED <<month, cap, period, limit, settlePeriod, actual, peak>>

(* Variant: the refund is forgotten. *)
ReleaseNothing(c) == UNCHANGED <<ledger, held, sessionHeld, strayed>>

ReleaseTenant(c) ==
  /\ spent' = AddTo(spent, MonthRow(c, period[c]), -Worst[c])
  /\ held' = [held EXCEPT ![c] = 0]
  /\ UNCHANGED <<sessionSpent, sessionHeld, strayed>>

(* The session refused: give the tenant's row its units back.              *)
RefundTenant(c) ==
  /\ pc[c] = "refund"
  /\ ReleaseTenant(c)
  /\ Goto(c, "refused")
  /\ UNCHANGED <<month, cap, period, limit, settlePeriod, actual, peak>>

(* The model answers at some cost, or fails and costs nothing; settle()    *)
(* reads the period in the same synchronous stretch.  The worst case rests *)
(* on an estimate of the prompt, so an answer may cost more than that.     *)
Answer(c) ==
  /\ pc[c] = "sent"
  /\ \E cost \in Costs : actual' = [actual EXCEPT ![c] = cost]
  /\ settlePeriod' = [settlePeriod EXCEPT ![c] = month]
  /\ Goto(c, "settle")
  /\ UNCHANGED <<month, cap, ledger, period, limit, history>>

SettleTenantRow(c) ==
  /\ spent' = AddTo(spent, MonthRow(c, settlePeriod[c]), actual[c] - Worst[c])
  /\ IF settlePeriod[c] = period[c]
       THEN /\ held' = [held EXCEPT ![c] = actual[c]]
            /\ UNCHANGED strayed
       ELSE /\ strayed' = [strayed EXCEPT ![c] =
                             IF actual[c] < Worst[c] THEN Worst[c] - actual[c] ELSE 0]
            /\ UNCHANGED held
  /\ UNCHANGED <<sessionSpent, sessionHeld>>

(* settle() adds actual - worst to the tenant's row of the month it read.  *)
SettleTenant(c) ==
  /\ pc[c] = "settle"
  /\ SettleTenantRow(c)
  /\ Goto(c, IF SessionOn(c) THEN "settleSession" ELSE "done")
  /\ UNCHANGED <<month, cap, period, limit, settlePeriod, actual, peak>>

(* Variant: the session is refunded in full, as for a failed call. *)
RefundSessionRow(c) ==
  /\ sessionSpent' = AddTo(sessionSpent, SessionRow(c), -Worst[c])
  /\ sessionHeld' = [sessionHeld EXCEPT ![c] = 0]
  /\ UNCHANGED <<spent, held, strayed>>

SettleSessionRow(c) ==
  /\ sessionSpent' = AddTo(sessionSpent, SessionRow(c), actual[c] - Worst[c])
  /\ sessionHeld' = [sessionHeld EXCEPT ![c] = actual[c]]
  /\ UNCHANGED <<spent, held, strayed>>

(* ... and then to the session's row.                                      *)
SettleSession(c) ==
  /\ pc[c] = "settleSession"
  /\ SettleSessionRow(c)
  /\ Goto(c, "done")
  /\ UNCHANGED <<month, cap, period, limit, settlePeriod, actual, peak>>

(* The write a call at the store is waiting for, taking effect.            *)
WriteLands(c) ==
  \/ pc[c] = "reserve" /\ TenantFits(c) /\ HoldTenant(c)
  \/ pc[c] = "session" /\ SessionFits(c) /\ HoldSession(c)
  \/ pc[c] = "refund" /\ ReleaseTenant(c)
  \/ pc[c] = "settle" /\ SettleTenantRow(c)
  \/ pc[c] = "settleSession" /\ SettleSessionRow(c)

BrokenPlace(place) ==
  CASE place = "sent" -> "lost"
    [] place \in {"settle", "settleSession"} -> "unsettled"
    [] OTHER -> "failed"

(* The process dies or a store request throws: nothing catches it but the  *)
(* refund of a failed model call, which swallows it.  The write may have   *)
(* landed all the same, its reply lost.                                    *)
Break(c) ==
  /\ pc[c] \notin Ended \cup {"new"}
  /\ \/ WriteLands(c)
     \/ UNCHANGED <<ledger, held, sessionHeld, strayed>>
  /\ Goto(c, BrokenPlace(pc[c]))
  /\ UNCHANGED <<month, cap, period, limit, settlePeriod, actual, peak>>

(* A new month is a new row key. *)
NextMonth ==
  /\ month < LastMonth
  /\ month' = month + 1
  /\ UNCHANGED <<cap, ledger, gateVars, history>>

(* The BudgetSource (an allowance, external to the gate) changes the cap. *)
SetCap(t) ==
  /\ \E v \in Caps \ {cap[t]} :
       /\ cap' = [cap EXCEPT ![t] = v]
       /\ peak' = [peak EXCEPT ![t] = IF v > @ THEN v ELSE @]
  /\ UNCHANGED <<month, ledger, gateVars, held, sessionHeld, strayed>>

Generate(c) ==
  \/ Start(c) \/ ReadLimit(c) \/ ReserveTenant(c) \/ ReserveSession(c)
  \/ RefundTenant(c) \/ Answer(c) \/ SettleTenant(c) \/ SettleSession(c)

Next ==
  \/ \E c \in Calls : Generate(c) \/ Break(c)
  \/ \E t \in Tenants : SetCap(t)
  \/ NextMonth

Spec == Init /\ [][Next]_vars

-----------------------------------------------------------------------------
(* The units the calls of S hold together, f[c] of them held by c.         *)
UnitsOf(f, S) == {u \in S \X (1..Most) : u[2] <= f[u[1]]}
Total(f, S)   == Cardinality(UnitsOf(f, S))

(* The calls that reserved on, and those that settled on, a tenant's row;   *)
(* the calls of a session's row.                                            *)
ReservedOn(r) == {c \in Calls : MonthRow(c, period[c]) = r}
SettledOn(r)  == {c \in Calls : MonthRow(c, settlePeriod[c]) = r}
InSession(r)  == {c \in Calls : SessionOn(c) /\ SessionRow(c) = r}
CallsOf(t)    == {c \in Calls : TenantOf[c] = t}

(* UpTo(rows, t)[m]: what the rows of tenant t hold of months 1 to m.       *)
UpTo(rows, t) ==
  LET f[m \in 0..LastMonth] == IF m = 0 THEN 0 ELSE f[m - 1] + rows[<<t, m>>]
  IN  f

Lesser(a, b) == IF a < b THEN a ELSE b

(* What a call that was sent may have to be paid for: all it reserved until *)
(* the model answers, then its cost, as far as the reservation covers it.   *)
Committed ==
  [c \in Calls |->
     IF pc[c] \in {"sent", "lost"} THEN Worst[c]
     ELSE IF pc[c] \in Answered THEN Lesser(actual[c], Worst[c])
     ELSE 0]

-----------------------------------------------------------------------------
TypeOK ==
  /\ month \in Months
  /\ cap \in [Tenants -> Caps]
  /\ peak \in [Tenants -> Caps]
  /\ spent \in [MonthRows -> Int]
  /\ sessionSpent \in [SessionRows -> Int]
  /\ pc \in [Calls -> Places]
  /\ period \in [Calls -> Months]
  /\ limit \in [Calls -> Nat]
  /\ settlePeriod \in [Calls -> Months]
  /\ actual \in [Calls -> 0..Most]
  /\ held \in [Calls -> 0..Most]
  /\ sessionHeld \in [Calls -> 0..Most]
  /\ strayed \in [Calls -> 0..Most]

(***************************************************************************)
(* The session hard stop (ADR-0019): whatever calls interleave, break or   *)
(* straddle a month, what the calls of a session were sent for never adds  *)
(* up to more than the session cap.                                        *)
(***************************************************************************)
SessionHardStop ==
  \A r \in SessionRows : Total(Committed, InSession(r)) <= SessionCap

(***************************************************************************)
(* The tenant's hard stop, as far as the code holds it: the calls sent on  *)
(* a month's budget may exceed the highest cap the tenant had only by what *)
(* calls of an earlier month were credited into that month by settle().    *)
(***************************************************************************)
OverspendIsStrayCredit ==
  \A r \in MonthRows :
    Total(Committed, ReservedOn(r)) <= peak[r[1]] + Total(strayed, SettledOn(r))

(***************************************************************************)
(* The tenant's hard stop as documented: a call is refused when it would   *)
(* push the tenant's spend of the month over the cap.                      *)
(***************************************************************************)
TenantHardStop ==
  \A r \in MonthRows : Total(Committed, ReservedOn(r)) <= peak[r[1]]

(***************************************************************************)
(* Nothing leaks out of the books: when every call of a tenant returned    *)
(* (none broke), its monthly rows together hold exactly what its calls     *)
(* cost, refused calls nothing, and so does each session row.              *)
(***************************************************************************)
BooksClose ==
  /\ \A t \in Tenants :
       (\A c \in CallsOf(t) : pc[c] \in {"new", "refused", "done"}) =>
         UpTo(spent, t)[LastMonth] = Total(actual, CallsOf(t))
  /\ \A r \in SessionRows :
       (\A c \in InSession(r) : pc[c] \in {"new", "refused", "done"}) =>
         sessionSpent[r] = Total(actual, InSession(r))

(***************************************************************************)
(* Breaking never makes a call cheaper: the ledger charges a session at    *)
(* least what its calls were sent for, so a lost settle over-charges.      *)
(***************************************************************************)
NeverUndercharged ==
  \A r \in SessionRows : sessionSpent[r] >= Total(Committed, InSession(r))

-----------------------------------------------------------------------------
(***************************************************************************)
(* The session scope keeps the promise of HardStop.  The calls that name a *)
(* session are its requests; a call is admitted the moment both its        *)
(* reservations stand, and its cost is what it commits the session to.     *)
(***************************************************************************)
ScopedCalls == {c \in Calls : SessionOn(c)}

Admission ==
  [c \in ScopedCalls |->
     CASE pc[c] \in {"sent", "lost"}        -> "admitted"
       [] pc[c] \in Answered                -> "finished"
       [] pc[c] \in {"refused", "failed"}   -> "refused"
       [] OTHER                             -> "waiting"]

Promise == INSTANCE HardStop WITH
  Calls <- ScopedCalls, Scopes <- SessionRows,
  ScopeOf <- [c \in ScopedCalls |-> SessionRow(c)],
  Worst <- Worst, Cap <- SessionCap, Most <- Most,
  state <- Admission, cost <- [c \in ScopedCalls |-> Committed[c]]

KeepsPromise == Promise!Spec

-----------------------------------------------------------------------------
(***************************************************************************)
(* Why the hard stops hold: the inductive invariant.  What each place of a *)
(* call says about the units the rows hold for it; each row is the sum of  *)
(* what it holds; and of what a row holds, the part that was reserved (and *)
(* not an answer dearer than its estimate) stays within the cap.           *)
(***************************************************************************)
SessionHoldOf(c) ==
  /\ pc[c] \in {"session", "refund", "settleSession"} => SessionOn(c)
  /\ SessionOn(c) =>
       /\ pc[c] \in Unsent \cup {"new", "refused"} => sessionHeld[c] = 0
       /\ pc[c] \in {"sent", "lost", "settle", "settleSession"} => sessionHeld[c] = Worst[c]
       /\ pc[c] = "done" => sessionHeld[c] = actual[c]
       /\ pc[c] = "unsettled" => sessionHeld[c] \in {Worst[c], actual[c]}

TenantHoldOf(c) ==
  /\ pc[c] \in {"new", "limit", "reserve", "refused"} => held[c] = 0
  /\ pc[c] \in {"session", "refund", "sent", "lost", "settle"} => held[c] = Worst[c]
  /\ pc[c] \in {"settleSession", "done", "unsettled"} => held[c] \in {Worst[c], actual[c]}
  /\ pc[c] \notin {"settleSession", "done", "unsettled"} => strayed[c] = 0
  /\ pc[c] = "reserve" => limit[c] <= peak[TenantOf[c]]

SessionBooks == \A r \in SessionRows : sessionSpent[r] = Total(sessionHeld, InSession(r))

TenantBooks ==
  \A r \in MonthRows :
    Total(held, ReservedOn(r)) <= spent[r] + Total(strayed, SettledOn(r))

SessionReserved == [c \in Calls |-> Lesser(sessionHeld[c], Worst[c])]
TenantReserved  == [c \in Calls |-> Lesser(held[c], Worst[c])]

SessionInv ==
  /\ TypeOK
  /\ \A c \in Calls : SessionHoldOf(c)
  /\ SessionBooks
  /\ \A r \in SessionRows : Total(SessionReserved, InSession(r)) <= SessionCap

(* What a tenant's rows hold for a call, whichever months they are of.     *)
Net ==
  [c \in Calls |->
     IF pc[c] \in {"session", "refund", "sent", "lost", "settle"} THEN Worst[c]
     ELSE IF pc[c] \in {"settleSession", "done"} THEN actual[c]
     ELSE 0]

Broken == {"failed", "unsettled"}

(* Only an answer has a cost, and until one of a tenant's calls breaks at   *)
(* the store its rows together hold what its calls hold.                   *)
BooksInv ==
  /\ \A c \in Calls : pc[c] \notin Answered => actual[c] = 0
  /\ \A t \in Tenants :
       (\A c \in CallsOf(t) : pc[c] \notin Broken) =>
         UpTo(spent, t)[LastMonth] = Total(Net, CallsOf(t))

TenantInv ==
  /\ TypeOK
  /\ \A t \in Tenants : cap[t] <= peak[t]
  /\ \A c \in Calls : TenantHoldOf(c)
  /\ TenantBooks
  /\ \A r \in MonthRows :
       Total(TenantReserved, ReservedOn(r)) <= peak[r[1]] + Total(strayed, SettledOn(r))
=============================================================================
