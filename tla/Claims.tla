--------------------------------- MODULE Claims ---------------------------------
(***************************************************************************)
(* Inference claims: who may think, and for how much.  In a cluster a      *)
(* claim is an object of its namespace; the claims controller sums the     *)
(* namespace's claims against its allowance and writes a verdict into each *)
(* one's status, and gateways honour what is not rejected, from a cache.   *)
(* Elsewhere a service posts its own claim into a table.  The agent        *)
(* controller is the same loop over Agents, with a verdict per object; and *)
(* a tenant's IAM role is read from its claim as it is provisioned, and    *)
(* kept for a while tenant by tenant.                                      *)
(*                                                                         *)
(* The objects of one namespace are modelled.  A resourceVersion is what   *)
(* tells a pass that an object changed since it was listed; passes may     *)
(* overlap, for setInterval does not wait for one to end.                  *)
(***************************************************************************)
EXTENDS Integers, FiniteSets, FiniteSetsExt

CONSTANTS
  Names,      \* a set of integers: the order in which a list returns them
  Absent, Unjudged, NoCap,
  Budgets, Caps,
  Passes,     \* reconciliations that may be under way at a time
  Readers,    \* refreshes of a gateway's cache that may be under way at a time
  Settings,   \* which of them are, in which lane, until when, for how many edits
  TTL,        \* of KubeClaimSource's cache, and of a tenant's role
  Latency     \* bound on the time between a list and its use
Lanes   == {"claims", "agents", "table", "roles"}
Specs   == [budget : Budgets \cup {0}, wellFormed : BOOLEAN]
Objects == [spec : Specs, born : Nat,
            status : {Unjudged} \cup [ready : BOOLEAN, sum : Nat, cap : Nat \cup {NoCap}]]

ASSUME ClaimsAssumption ==
  /\ Names \subseteq Int /\ IsFiniteSet(Names)
  /\ Budgets \subseteq Nat /\ Caps \subseteq Nat \cup {NoCap} /\ NoCap \notin Nat
  /\ TTL \in Nat \ {0} /\ Latency \in Nat
  /\ Settings \subseteq [lane : Lanes, passes : SUBSET Passes, readers : SUBSET Readers,
                  until : Nat, edits : Nat]
  \* no controller judges the rows of the table, or the roles
  /\ \A s \in Settings : s.lane \in {"table", "roles"} => s.passes = {}

VARIABLES
  setting, \* the lane, a controller's or the table, and who runs in it
  clock,
  api,     \* the objects, by name
  cap,     \* InferenceAllowance.spec.maxMonthlyUsd, or the table's env
  edits,   \* what users have written
  pass,    \* each reconciliation
  reader,  \* each refresh
  cache,   \* cache[c]: is c honoured (has it a role), as of when
  was      \* history: was[c][h], when c was last honourable (h) or not (~h);
           \* kept where there are readers

vars == <<setting, clock, api, cap, edits, pass, reader, cache, was>>

-----------------------------------------------------------------------------
(* evaluate(): claims in creation order, a list's order among equals; each    *)
(* fits until the running total tips over, and nothing after that does.       *)
Existing(objects) == {c \in DOMAIN objects : objects[c] # Absent}

Earlier(objects, c) ==
  {d \in Existing(objects) : \/ objects[d].born < objects[c].born
                             \/ objects[d].born = objects[c].born /\ d <= c}

RunningTotal(objects, c) == MapThenSumSet(LAMBDA d : objects[d].spec.budget, Earlier(objects, c))

(* Variant: a claim is held against the allowance by itself. *)
EvaluateAlone(objects, ceiling, c) ==
  [ready |-> ceiling # NoCap /\ objects[c].spec.budget <= ceiling,
   sum |-> objects[c].spec.budget, cap |-> ceiling]

Evaluate(objects, ceiling, c) ==
  IF ceiling = NoCap THEN [ready |-> FALSE, sum |-> 0, cap |-> NoCap]
  ELSE LET sum == RunningTotal(objects, c)
       IN  [ready |-> sum <= ceiling, sum |-> sum, cap |-> ceiling]

(* The agent controller's validate(): the object alone. *)
Validate(object) == [ready |-> object.spec.wellFormed, sum |-> 0, cap |-> NoCap]

Verdict(objects, ceiling, c) ==
  IF setting.lane = "agents" THEN Validate(objects[c]) ELSE Evaluate(objects, ceiling, c)

(* isRejected(): what has no status yet is honoured.  A role is there when    *)
(* the status names it.                                                      *)
Honourable(object) ==
  /\ object # Absent
  /\ IF setting.lane = "roles" THEN object.status # Unjudged ELSE TRUE
  /\ object.status # Unjudged => object.status.ready

-----------------------------------------------------------------------------
NotListed == [at |-> "idle", seen |-> [c \in Names |-> Absent], left |-> {}, current |-> {},
           cap |-> NoCap]

NotReading == [at |-> "idle", of |-> {}, by |-> {}, on |-> 0]

Writable ==
  {s \in Specs : CASE setting.lane = "agents" -> s.budget = 0
                   [] setting.lane = "roles"  -> s.budget = 0 /\ s.wellFormed
                   [] OTHER                   -> s.wellFormed /\ s.budget # 0}

(* validateClaim(): model and numbers in order, within the allowance. *)
ValidClaim(spec) == spec.wellFormed /\ spec.budget <= cap

Init ==
  /\ setting \in Settings
  /\ clock = 0
  /\ api \in [Names -> {Absent} \cup [spec : Writable, born : {0}, status : {Unjudged}]]
  /\ cap \in Caps
  /\ setting.lane = "table" =>
       cap # NoCap /\ \A c \in Names : api[c] # Absent => ValidClaim(api[c].spec)
  /\ edits = 0
  /\ pass = [p \in Passes |-> NotListed]
  /\ reader = [q \in Readers |-> NotReading]
  /\ cache = [c \in Names |-> [at |-> -TTL, on |-> FALSE]]
  /\ was = [c \in Names |-> [h \in BOOLEAN |-> -(TTL + Latency)]]

(* The API server: every write gives the object a new resourceVersion. *)
Store(c, object) ==
  /\ api' = [api EXCEPT ![c] = object]
  /\ was' = IF setting.readers = {} THEN was
            ELSE [was EXCEPT ![c][Honourable(api[c])] = clock]

Outdated(c) == [p \in Passes |-> [pass[p] EXCEPT !.current = @ \ {c}]]

Edit == edits < setting.edits /\ edits' = edits + 1

(* kubectl apply: creation, or a change of the spec. *)
Apply(c) ==
  /\ setting.lane # "table" /\ Edit
  /\ \E spec \in Writable :
       Store(c, IF api[c] = Absent THEN [spec |-> spec, born |-> clock, status |-> Unjudged]
                ELSE [api[c] EXCEPT !.spec = spec])
  /\ pass' = Outdated(c)
  /\ UNCHANGED <<setting, clock, cap, reader, cache>>

Delete(c) ==
  /\ setting.lane # "table" /\ api[c] # Absent /\ Edit
  /\ Store(c, Absent)
  /\ pass' = Outdated(c)
  /\ UNCHANGED <<setting, clock, cap, reader, cache>>

SetAllowance ==
  /\ setting.lane = "claims" /\ Edit
  /\ \E ceiling \in Caps : cap' = ceiling
  /\ UNCHANGED <<setting, clock, api, pass, reader, cache, was>>

(* putClaim(): the row of an identity is replaced, whatever it was. *)
PutClaim(c, spec) == Store(c, [spec |-> spec, born |-> clock, status |-> Unjudged])

(* POST /claims: a verified service writes the row of its own identity. *)
Post(c) ==
  /\ setting.lane = "table" /\ Edit
  /\ \E spec \in Writable :
       ValidClaim(spec) /\ PutClaim(c, spec)
  /\ UNCHANGED <<setting, clock, cap, pass, reader, cache>>

(* The composition provisions a tenant's role and names it in the status. *)
Provision(c) ==
  /\ setting.lane = "roles" /\ api[c] # Absent /\ Edit
  /\ \E ready \in BOOLEAN :
       Store(c, [api[c] EXCEPT !.status = [ready |-> ready, sum |-> 0, cap |-> NoCap]])
  /\ UNCHANGED <<setting, clock, cap, pass, reader, cache>>

-----------------------------------------------------------------------------
(* reconcileOnce(): the claims are listed, then the allowances.              *)
ListObjects(p) ==
  /\ pass[p].at = "idle"
  /\ pass' = [pass EXCEPT ![p] = [at |-> "listed", seen |-> api, left |-> Existing(api),
                                  current |-> Names, cap |-> NoCap]]
  /\ UNCHANGED <<setting, clock, api, cap, edits, reader, cache, was>>

(* Variant: what has a verdict is left alone. *)
ConvergedOnce(seen, ceiling, c) == seen[c].status # Unjudged

(* A status that says the same, message included, is not written again. *)
Converged(seen, ceiling, c) == seen[c].status = Verdict(seen, ceiling, c)

ListAllowances(p) ==
  /\ pass[p].at = "listed"
  /\ pass' = [pass EXCEPT ![p].at = "writing", ![p].cap = cap,
                          ![p].left = {c \in @ : ~Converged(pass[p].seen, cap, c)}]
  /\ UNCHANGED <<setting, clock, api, cap, edits, reader, cache, was>>

(* Statuses are written one after the other, each with the object as it was  *)
(* listed: the API server refuses one that has changed.                      *)
NextUp(p) == CHOOSE c \in pass[p].left : \A d \in pass[p].left : c <= d

(* Variant: a patch, which has no resourceVersion. *)
AcceptsAny(p, c) == api[c] # Absent

Accepts(p, c) == c \in pass[p].current

WriteStatus(p) ==
  LET c == NextUp(p)
  IN  /\ pass[p].at = "writing" /\ pass[p].left # {} /\ Accepts(p, c)
      /\ Store(c, [api[c] EXCEPT !.status = Verdict(pass[p].seen, pass[p].cap, c)])
      /\ pass' = [Outdated(c) EXCEPT ![p].left = @ \ {c}]
      /\ UNCHANGED <<setting, clock, cap, edits, reader, cache>>

(* A conflict or any other failure: logged, and on to the next. *)
WriteFails(p) ==
  /\ pass[p].at = "writing" /\ pass[p].left # {}
  /\ pass' = [pass EXCEPT ![p].left = @ \ {NextUp(p)}]
  /\ UNCHANGED <<setting, clock, api, cap, edits, reader, cache, was>>

(* A list that fails ends the pass too. *)
PassEnds(p) ==
  /\ pass[p].at = "listed" \/ (pass[p].at = "writing" /\ pass[p].left = {})
  /\ pass' = [pass EXCEPT ![p] = NotListed]
  /\ UNCHANGED <<setting, clock, api, cap, edits, reader, cache, was>>

-----------------------------------------------------------------------------
Fresh(c) == clock - cache[c].at < TTL

(* KubeClaimSource.refresh(): whoever finds the cache stale lists for itself. *)
RefreshAll == IF \E c \in Names : ~Fresh(c) THEN {Names} ELSE {}

(* roleArnFor(): likewise, but each tenant by itself. *)
RefreshOne == {{c} : c \in {d \in Names : ~Fresh(d)}}

Refresh(q) ==
  /\ reader[q].at = "idle"
  /\ \E of \in (IF setting.lane = "roles" THEN RefreshOne ELSE RefreshAll) :
       reader' = [reader EXCEPT ![q] = [at |-> "listed", of |-> of, on |-> clock,
                                        by |-> {c \in of : Honourable(api[c])}]]
  /\ UNCHANGED <<setting, clock, api, cap, edits, pass, cache, was>>

(* Variant: who is in the cache is kept. *)
FilledKept(q) ==
  [c \in Names |-> IF c \in reader[q].of
                   THEN [at |-> clock, on |-> cache[c].on \/ c \in reader[q].by] ELSE cache[c]]

(* The last list to arrive is the cache, stamped with its arrival; that there *)
(* is no role is kept as long as a role is.                                  *)
Filled(q) ==
  [c \in Names |-> IF c \in reader[q].of
                   THEN [at |-> clock, on |-> c \in reader[q].by] ELSE cache[c]]

Fill(q) ==
  /\ reader[q].at = "listed"
  /\ cache' = Filled(q)
  /\ reader' = [reader EXCEPT ![q] = NotReading]
  /\ UNCHANGED <<setting, clock, api, cap, edits, pass, was>>

(* Who asks now is told what the cache holds; an AgentRegistry and the table  *)
(* are asked anew, and a registry looks at no status.                        *)
Registered(c) == api[c] # Absent
Row(c)        == api[c] # Absent
RoleOf(c)     == cache[c].on

Honoured(c) ==
  CASE setting.lane = "agents" -> Registered(c)
    [] setting.lane = "table"  -> Row(c)
    [] setting.lane = "roles"  -> RoleOf(c)
    [] OTHER                   -> cache[c].on

Known(c) == setting.lane \in {"agents", "table"} \/ Fresh(c)

Tick ==
  /\ clock < setting.until
  /\ \A q \in Readers : reader[q].at = "listed" => clock - reader[q].on < Latency
  /\ clock' = clock + 1
  /\ UNCHANGED <<setting, api, cap, edits, pass, reader, cache, was>>

Reconciles(p) ==
  ListObjects(p) \/ ListAllowances(p) \/ WriteStatus(p) \/ WriteFails(p) \/ PassEnds(p)

Next ==
  \/ \E c \in Names : Apply(c) \/ Delete(c) \/ Post(c)
  \/ SetAllowance \/ (\E c \in Names : Provision(c))
  \/ \E p \in setting.passes : Reconciles(p)
  \/ \E q \in setting.readers : Refresh(q) \/ Fill(q)
  \/ Tick

(* The interval timer starts passes forever, and neither lists nor writes    *)
(* fail forever.                                                             *)
Fairness ==
  \A p \in Passes : /\ WF_vars(p \in setting.passes /\ Reconciles(p))
                    /\ SF_vars(ListAllowances(p)) /\ SF_vars(WriteStatus(p))

Spec == Init /\ [][Next]_vars /\ Fairness

-----------------------------------------------------------------------------
(* What is stored, listed and cached is what the API server was given. *)
TypeOK ==
  /\ \A c \in Names : api[c] = Absent \/ api[c] \in Objects
  /\ cache \in [Names -> [at : -TTL .. clock, on : BOOLEAN]]
  /\ \A p \in Passes :
       /\ pass[p].left \subseteq Existing(pass[p].seen)
       /\ \A c \in pass[p].left \cap pass[p].current : api[c] = pass[p].seen[c]
  /\ \A c \in Names, h \in BOOLEAN : was[c][h] <= clock

(* At any moment the verdicts a pass would give bound the namespace: those    *)
(* ready sum up to no more than the allowance, they are the ones created      *)
(* first, and one more claim takes nothing from an earlier one.  A row of the *)
(* table fits the allowance by itself (evaluate.ts:3-8, claims.ts:58-62).     *)
AllowanceHolds ==
  LET ready == {c \in Existing(api) : Evaluate(api, cap, c).ready}
  IN  /\ setting.lane = "claims" =>
           /\ ready # {} => MapThenSumSet(LAMBDA d : api[d].spec.budget, ready) <= cap
           /\ \A c \in ready : Earlier(api, c) \subseteq ready
           /\ \A c, d \in Existing(api) : c \in ready /\ d \notin Earlier(api, c) =>
                Evaluate([api EXCEPT ![d] = Absent], cap, c).ready
      /\ setting.lane = "table" => \A c \in Existing(api) : api[c].spec.budget <= cap

(* A claim that is rejected or gone stops being honoured, and one that came,  *)
(* or a role that was provisioned, takes effect, within the cache's time and  *)
(* the time a list takes.  But an Agent found invalid is used all the same:   *)
(* its registry looks at the object alone.  (And the types.)                 *)
InvalidUsed(c) == setting.lane = "agents" /\ Honoured(c)

HonouredIsRecent ==
  TypeOK /\ \A c \in Names : Known(c) =>
    \/ Honoured(c) = Honourable(api[c])
    \/ clock - was[c][Honoured(c)] < TTL + Latency
    \/ InvalidUsed(c)

(* A status is only ever written over the spec it judges, however many passes *)
(* and users write at a time.                                                *)
VerdictOfItsSpec ==
  [][\A c \in Names :
       /\ setting.lane # "roles"  \* whose statuses the composition writes
       /\ api[c] # Absent /\ api'[c] # Absent /\ api'[c].status # api[c].status
       => \E p \in Passes : /\ pass[p].seen[c] # Absent
                            /\ pass[p].seen[c].spec = api'[c].spec
                            /\ pass[p].seen[c].born = api'[c].born]_vars

Settled == \A c \in Existing(api) : api[c].status = Verdict(api, cap, c)

(* Once users leave the objects alone, every status comes to say what the     *)
(* objects and the allowance together call for, and stays so: a pass may      *)
(* write a verdict of lists that no longer go together, the next one mends it.*)
Converges == setting.lane \in {"claims", "agents"} => <>[]Settled
===============================================================================
