----------------------------- MODULE AdmissionHook -----------------------------
(***************************************************************************)
(* The dollar gate as LiteLLM callbacks: auth_hook.py finds the caller's   *)
(* tenant and its claim, admission_hook.py reserves the worst case before  *)
(* the request is sent and parks the reservation in a stash, and whichever *)
(* completion hook fires first takes it from there and settles it.         *)
(*                                                                         *)
(* Several proxy processes share the ledger and the claims.  A hook is     *)
(* synchronous code on its process' event loop: nothing else of that       *)
(* process runs between its store operations, other processes do.          *)
(*                                                                         *)
(* The engine is off every serving path (ADR-0028) and kept as the parity  *)
(* reference that the other gate's admissions are compared with.           *)
(***************************************************************************)
EXTENDS Integers, FiniteSets, Functions

CONSTANTS Calls,
          Processes,
          Tenants,
          BearerOf,    \* [Calls -> Tenants]: the tenant claim of its token
          Naming,      \* which sets of calls may name their tenant's session
          Worst,       \* [Calls -> Nat]
          Costs,       \* what an answered call may cost
          Grantable,   \* monthlyBudgetUsd of a claim
          NoClaim,
          DefaultCap,  \* GATE_BUDGET_USD
          SessionCap,  \* SESSION_BUDGET_USD
          CacheTTL,    \* CLAIM_CACHE_TTL
          MaxAge,      \* _PENDING_MAX_AGE_S
          LastMonth, MaxTime   \* bounds on the calendar and the clock

Months == 1..LastMonth
SessionScope == 0
Times  == 0..MaxTime
Grants == Grantable \cup {NoClaim}

ASSUME HookAssumption ==
  /\ IsFiniteSet(Calls) /\ LastMonth # 0
  /\ BearerOf \in [Calls -> Tenants] /\ Naming \subseteq SUBSET Calls
  /\ Worst \in [Calls -> Nat] /\ Costs \subseteq Nat /\ 0 \in Costs
  /\ Grantable \subseteq Nat /\ NoClaim \notin Grantable
  /\ {DefaultCap, SessionCap, CacheTTL, MaxAge, LastMonth, MaxTime} \subseteq Nat

VARIABLES
  now, month,
  grants,      \* the claims table
  changedAt,   \* when a tenant's claim last changed
  kept,        \* kept[p][t]: the TTLCache entry, a set of at most one
  spent,       \* spent[<<t, scope>>], a scope is a month or the session
  written,     \* the rows that exist
  named,       \* the calls that name their tenant's session
  pc, proc,
  budget,      \* the claim's budget found by the auth hook
  limit,       \* the cap the admission hook made of it
  period,      \* the month of the reservation
  stash,       \* stash[p]: the parked reservations with their times
  swept,       \* history: the calls whose reservation was swept
  hooks,       \* completion hooks still to fire
  billed,      \* what the model billed
  usage,       \* what the response says it cost, 0 if it does not say
  delta,       \* what a settlement under way adds to both rows
  \* history: what the ledger holds for each call, and whether a hook broke
  held, sessionHeld, broke

where  == <<proc, named>>
dates  == <<now, month>>
claims == <<grants, changedAt>>
ledger == <<spent, written, held, sessionHeld>>
parked == <<stash, swept>>
answer == <<billed, usage>>
hookVars == <<dates, claims, kept, ledger, pc, where, budget, limit, period, parked, hooks,
              answer, delta, broke>>

-----------------------------------------------------------------------------
Success == {"post_call_success", "log_success"}
Failure == {"post_call_failure", "log_failure"}
(* Between two store operations of one hook. *)
Inside  == {"session", "release", "books", "sessionBooks"}
Places  == {"new", "admit", "sent", "answered", "refused"} \cup Inside

Rows == Tenants \X (Months \cup {SessionScope})
(* Variant: the month is read again. *)
MonthRowNow(c) == <<BearerOf[c], month>>
MonthRow(c)   == <<BearerOf[c], period[c]>>
SessionRow(c) == <<BearerOf[c], SessionScope>>

Goto(c, place) == pc' = [pc EXCEPT ![c] = place]

HookInit ==
  /\ now = 0 /\ month = 1
  /\ grants \in [Tenants -> Grants] /\ changedAt = [t \in Tenants |-> 0 - CacheTTL]
  /\ kept = [p \in Processes |-> [t \in Tenants |-> {}]]
  /\ spent = [r \in Rows |-> 0] /\ written = {}
  /\ pc = [c \in Calls |-> "new"] /\ proc \in [Calls -> Processes] /\ named \in Naming
  /\ budget = [c \in Calls |-> 0] /\ limit = [c \in Calls |-> 0]
  /\ period = [c \in Calls |-> 1]
  /\ stash = [p \in Processes |-> {}] /\ swept = {}
  /\ hooks = [c \in Calls |-> {}]
  /\ billed = [c \in Calls |-> 0] /\ usage = [c \in Calls |-> 0]
  /\ delta = [c \in Calls |-> 0]
  /\ held = [c \in Calls |-> 0] /\ sessionHeld = [c \in Calls |-> 0]
  /\ broke = {}

(* The event loop of the call's process is free. *)
Free(c) == \A e \in Calls : proc[e] = proc[c] => pc[e] \notin Inside

-----------------------------------------------------------------------------
(***************************************************************************)
(* The spend store: reserve is one conditional write, add an unconditional *)
(* one; either may throw before or after it took effect.                   *)
(***************************************************************************)
(* Variant: the row alone. *)
FitsRow(r, d, ceiling) == r \notin written \/ spent[r] <= ceiling

Fits(r, d, ceiling) == r \notin written \/ spent[r] + d <= ceiling

AddMonth(c, r, d) ==
  /\ spent' = [spent EXCEPT ![r] = @ + d] /\ written' = written \cup {r}
  /\ held' = [held EXCEPT ![c] = @ + d]
  /\ UNCHANGED sessionHeld

AddSession(c, d) ==
  /\ spent' = [spent EXCEPT ![SessionRow(c)] = @ + d]
  /\ written' = written \cup {SessionRow(c)}
  /\ sessionHeld' = [sessionHeld EXCEPT ![c] = @ + d]
  /\ UNCHANGED held

Throws(c, place, add) ==
  /\ broke' = broke \cup {c}
  /\ Goto(c, place)
  /\ add \/ UNCHANGED ledger

-----------------------------------------------------------------------------
(***************************************************************************)
(* user_api_key_auth: the token's tenant, its claim from the cache if it   *)
(* is younger than the TTL, else from the table.  No claim is cached too.  *)
(***************************************************************************)
(* Variant: an entry never expires. *)
GrantForever(p, t) ==
  IF kept[p][t] # {} THEN (CHOOSE e \in kept[p][t] : TRUE)
                      ELSE [grant |-> grants[t], at |-> now]

Grant(p, t) ==
  IF \E e \in kept[p][t] : now - e.at < CacheTTL
  THEN (CHOOSE e \in kept[p][t] : TRUE)
  ELSE [grant |-> grants[t], at |-> now]

Authenticate(c) ==
  /\ pc[c] = "new" /\ Free(c)
  /\ LET e == Grant(proc[c], BearerOf[c])
     IN  /\ kept' = [kept EXCEPT ![proc[c]][BearerOf[c]] = {e}]
         /\ IF e.grant = NoClaim
            THEN Goto(c, "refused") /\ UNCHANGED budget
            ELSE Goto(c, "admit") /\ budget' = [budget EXCEPT ![c] = e.grant]
  /\ UNCHANGED <<dates, claims, ledger, where, limit, period, parked, hooks, answer, delta, broke>>

(* No token, a bad signature, audience or date, no tenant claim in it. *)
Unverified(c) ==
  /\ pc[c] = "new"
  /\ Goto(c, "refused")
  /\ UNCHANGED <<dates, claims, kept, ledger, where, budget, limit, period, parked, hooks,
                 answer, delta, broke>>

(* _stash: abandoned entries go, the reservation comes in. *)
Abandoned(p) == {e \in stash[p] : now - e.at > MaxAge}

Send(c) ==
  /\ Goto(c, "sent")
  /\ stash' = [stash EXCEPT ![proc[c]] = (@ \ Abandoned(proc[c])) \cup {[call |-> c, at |-> now]}]
  /\ swept' = swept \cup {e.call : e \in Abandoned(proc[c])}

(***************************************************************************)
(* async_pre_call_hook up to its first store operation.  `or` makes a      *)
(* budget of nothing the default cap; a request that does not bound its     *)
(* output is refused.                                                      *)
(***************************************************************************)
CapOf(n) == IF n = 0 THEN DefaultCap ELSE n

PreCall(c, bounded) ==
  /\ pc[c] = "admit" /\ Free(c)
  /\ limit' = [limit EXCEPT ![c] = CapOf(budget[c])]
  /\ period' = [period EXCEPT ![c] = month]
  /\ LET r == <<BearerOf[c], month>>
     IN  \/ /\ ~bounded \/ Worst[c] > limit'[c] \/ ~Fits(r, Worst[c], limit'[c])
            /\ Goto(c, "refused")
            /\ UNCHANGED <<ledger, parked, broke>>
         \/ /\ bounded /\ Worst[c] <= limit'[c] /\ Fits(r, Worst[c], limit'[c])
            /\ \/ /\ AddMonth(c, r, Worst[c])
                  /\ IF c \in named THEN Goto(c, "session") /\ UNCHANGED parked ELSE Send(c)
                  /\ UNCHANGED broke
               \/ Throws(c, "refused", AddMonth(c, r, Worst[c])) /\ UNCHANGED parked
  /\ UNCHANGED <<dates, claims, kept, where, budget, hooks, answer, delta>>

SessionFits(c) == Worst[c] <= SessionCap /\ Fits(SessionRow(c), Worst[c], SessionCap)

ReserveSession(c) ==
  /\ pc[c] = "session"
  /\ \/ SessionFits(c) /\ AddSession(c, Worst[c]) /\ Send(c) /\ UNCHANGED broke
     \/ ~SessionFits(c) /\ Goto(c, "release") /\ UNCHANGED <<ledger, parked, broke>>
     \/ Throws(c, "refused", SessionFits(c) /\ AddSession(c, Worst[c])) /\ UNCHANGED parked
  /\ UNCHANGED <<dates, claims, kept, where, budget, limit, period, hooks, answer, delta>>

Release(c) ==
  /\ pc[c] = "release"
  /\ \/ AddMonth(c, MonthRow(c), -Worst[c]) /\ Goto(c, "refused") /\ UNCHANGED broke
     \/ Throws(c, "refused", AddMonth(c, MonthRow(c), -Worst[c]))
  /\ UNCHANGED <<dates, claims, kept, where, budget, limit, period, parked, hooks, answer, delta>>

-----------------------------------------------------------------------------
(***************************************************************************)
(* The request ends, and LiteLLM will fire the hooks of that end: none at  *)
(* all if the process loses it, both where proxy and logger see it.        *)
(***************************************************************************)
Answer(c) ==
  /\ pc[c] = "sent"
  /\ Goto(c, "answered")
  /\ \E cost \in Costs :
       /\ billed' = [billed EXCEPT ![c] = cost]
       /\ \E said \in {0, cost}, fire \in {{}, {"log_success"}, Success,
                                       {"post_call_failure"}, {"log_failure"}, Failure} :
            /\ usage' = [usage EXCEPT ![c] = IF fire \subseteq Failure THEN 0 ELSE said]
            /\ hooks' = [hooks EXCEPT ![c] = fire]
  /\ UNCHANGED <<dates, claims, kept, ledger, where, budget, limit, period, parked, delta, broke>>

(* What a hook that finds the reservation adds: _settle, _refund. *)
Delta(c, h) == IF h \in Success THEN usage[c] - Worst[c] ELSE -Worst[c]

Popped(p, c) == {e \in stash[p] : e.call # c}

FireHook(c) ==
  /\ pc[c] = "answered" /\ Free(c)
  /\ \E h \in hooks[c] :
       /\ hooks' = [hooks EXCEPT ![c] = @ \ {h}]
       /\ IF \E e \in stash[proc[c]] : e.call = c
          THEN /\ delta' = [delta EXCEPT ![c] = Delta(c, h)]
               /\ Goto(c, "books")
          ELSE UNCHANGED <<delta, pc>>
  /\ stash' = [stash EXCEPT ![proc[c]] = Popped(proc[c], c)]
  /\ UNCHANGED <<dates, claims, kept, ledger, where, budget, limit, period, swept, answer, broke>>

(* Variant: the session's row is left at the reservation. *)
SettleMonthOnly(c) ==
  /\ pc[c] = "books"
  /\ \/ AddMonth(c, MonthRow(c), delta[c]) /\ Goto(c, "answered") /\ UNCHANGED broke
     \/ Throws(c, "answered", AddMonth(c, MonthRow(c), delta[c]))
  /\ UNCHANGED <<dates, claims, kept, where, budget, limit, period, parked, hooks, answer, delta>>

SettleMonth(c) ==
  /\ pc[c] = "books"
  /\ \/ /\ AddMonth(c, MonthRow(c), delta[c])
        /\ Goto(c, IF c \in named THEN "sessionBooks" ELSE "answered")
        /\ UNCHANGED broke
     \/ Throws(c, "answered", AddMonth(c, MonthRow(c), delta[c]))
  /\ UNCHANGED <<dates, claims, kept, where, budget, limit, period, parked, hooks, answer, delta>>

SettleSession(c) ==
  /\ pc[c] = "sessionBooks"
  /\ \/ AddSession(c, delta[c]) /\ Goto(c, "answered") /\ UNCHANGED broke
     \/ Throws(c, "answered", AddSession(c, delta[c]))
  /\ UNCHANGED <<dates, claims, kept, where, budget, limit, period, parked, hooks, answer, delta>>

-----------------------------------------------------------------------------
(* The world: time passes, a month turns, a claim changes. *)
TimePasses ==
  /\ now < MaxTime /\ now' = now + 1
  /\ UNCHANGED <<month, claims, kept, ledger, pc, where, budget, limit, period, parked, hooks,
                 answer, delta, broke>>

NextMonth ==
  /\ month < LastMonth /\ month' = month + 1
  /\ UNCHANGED <<now, claims, kept, ledger, pc, where, budget, limit, period, parked, hooks,
                 answer, delta, broke>>

SetClaim(t) ==
  /\ \E g \in Grants \ {grants[t]} : grants' = [grants EXCEPT ![t] = g]
  /\ changedAt' = [changedAt EXCEPT ![t] = now]
  /\ UNCHANGED <<dates, kept, ledger, pc, where, budget, limit, period, parked, hooks, answer,
                 delta, broke>>

Hook(c) == \/ Authenticate(c) \/ Unverified(c)
           \/ \E bounded \in BOOLEAN : PreCall(c, bounded)
           \/ ReserveSession(c) \/ Release(c)
           \/ FireHook(c) \/ SettleMonth(c) \/ SettleSession(c)

HookNext == \/ \E c \in Calls : Hook(c) \/ Answer(c)
            \/ TimePasses \/ NextMonth \/ \E t \in Tenants : SetClaim(t)

HookSpec == HookInit /\ [][HookNext]_hookVars

-----------------------------------------------------------------------------
HookTypeOK ==
  /\ now \in Times /\ month \in Months
  /\ grants \in [Tenants -> Grants]
  /\ \A p \in Processes, t \in Tenants :
       /\ kept[p][t] \subseteq [grant : Grants, at : Times] /\ Cardinality(kept[p][t]) <= 1
  /\ spent \in [Rows -> Int] /\ written \subseteq Rows
  /\ pc \in [Calls -> Places] /\ proc \in [Calls -> Processes] /\ named \subseteq Calls
  /\ budget \in [Calls -> Nat] /\ limit \in [Calls -> Nat] /\ period \in [Calls -> Months]
  /\ \A p \in Processes : stash[p] \subseteq [call : Calls, at : Times]
  /\ hooks \in [Calls -> SUBSET (Success \cup Failure)]
  /\ billed \in [Calls -> Costs] /\ usage \in [Calls -> Costs] /\ delta \in [Calls -> Int]
  /\ held \in [Calls -> Nat] /\ sessionHeld \in [Calls -> Nat]
  /\ broke \cup swept \subseteq Calls

Lesser(a, b) == IF a < b THEN a ELSE b
Reserved(f)  == [c \in Calls |-> Lesser(f[c], Worst[c])]
OnMonth(t, m) == {c \in Calls : BearerOf[c] = t /\ period[c] = m}
OnSession(t)  == {c \in named : BearerOf[c] = t}

(***************************************************************************)
(* Every unit on a row is held for a call of its tenant: no hook settles a *)
(* reservation twice, and none settles on a row that did not reserve.      *)
(* (And the types.)                                                        *)
(***************************************************************************)
RowsAreHeld ==
  HookTypeOK /\ \A t \in Tenants :
    /\ \A m \in Months : spent[<<t, m>>] = SumFunctionOnSet(held, OnMonth(t, m))
    /\ spent[<<t, SessionScope>>] = SumFunctionOnSet(sessionHeld, OnSession(t))
    /\ \A c \in Calls : held[c] \in {0, Worst[c], usage[c]}

(***************************************************************************)
(* The hard stop, month by month: what a tenant's calls of a month have    *)
(* reserved was within the cap of one of them; a session's is within the   *)
(* session cap.  (The month of the reservation travels in the stash.)      *)
(***************************************************************************)
MonthHardStop ==
  \A t \in Tenants :
    /\ \A m \in Months :
         LET total == SumFunctionOnSet(Reserved(held), OnMonth(t, m))
         IN  total > 0 => \E c \in OnMonth(t, m) : total <= limit[c]
    /\ SumFunctionOnSet(Reserved(sessionHeld), OnSession(t)) <= SessionCap

(***************************************************************************)
(* Over-charge is the safe failure direction: a call whose response names  *)
(* its cost, or that never ends, is charged up to its reservation whatever *)
(* fires, breaks or is swept.                                              *)
(***************************************************************************)
NeverAHole ==
  \A c \in Calls :
    (pc[c] \in {"sent", "answered", "books", "sessionBooks"} /\ usage[c] = billed[c]) =>
      /\ held[c] >= Lesser(billed[c], Worst[c])
      /\ c \in named => sessionHeld[c] >= Lesser(billed[c], Worst[c])

(***************************************************************************)
(* Whichever of its hooks fires first settles a call, once: when all have  *)
(* fired and no store operation threw, both rows hold what the response    *)
(* says, or the whole reservation if it was swept before.                  *)
(***************************************************************************)
Quiet(c) == pc[c] = "answered" /\ hooks[c] = {} /\ c \notin broke

SettledExactly ==
  \A c \in Calls :
    Quiet(c) =>
      /\ c \in named => sessionHeld[c] = held[c]
      /\ held[c] = usage[c] \/ c \in swept \/ \E e \in stash[proc[c]] : e.call = c

(* Both: no less than the reservation covers, and no more than was used.   *)
SettledRight == NeverAHole /\ SettledExactly

(***************************************************************************)
(* A claim that changed or was withdrawn counts within the TTL: whoever    *)
(* passes the hook then does so on the claim as it is.  (A request that    *)
(* the cache refuses although its claim was granted is not spoken of.)     *)
(***************************************************************************)
ClaimIsFresh ==
  [][\A c \in Calls :
       (pc[c] = "new" /\ pc'[c] = "admit" /\ now - changedAt[BearerOf[c]] >= CacheTTL) =>
       budget'[c] = grants[BearerOf[c]]]_hookVars
=============================================================================
