# Formal models of agent-os (creance)

TLA+ models of agent-os: the money a model call costs, the life of a run from
the request that asks for it to the record of its end, and what surrounds a
run. They are checked with TLC on small instances and, for 49 of their results,
proved with TLAPS for every value of the constants. Every definition is
translated from the code named beside it in `PROJECT.json` ("map").

Paths below leave out `packages/` and `services/`: `core/` is
`packages/core/src/`, `runtime/` is `services/agent-runtime/`.

## 1. Inventory

agent-os runs agents for tenants. A front door authenticates a request, creates
a *run* and dispatches it to a *substrate*; an executor there runs the agent
loop (or hands the work to a sandboxed command, or to Claude Code); every model
call goes through a *gate* that reserves its worst-case price on a budget
ledger and settles it to what it cost. State is kept in stores with
interchangeable backends.

| Component (source) | State | Operations | What is hard | What makes it correct | Module |
|---|---|---|---|---|---|
| Dollar gate (`core/gate.ts`, `adapters/local-gate.ts`, `admission-inference.ts`) | the caller's period, limit, reservation | `reserve`, `settle` on a month row and a session row | two rows, two awaits each; the month turns; caps change; death between reserve and settle | hard stop on both scopes; books balance; never under-charge | BudgetGate, HardStop |
| Prices (`core/pricing`, inference adapters) | – | estimate, price, settle, the record's cost | which model's price, which usage, two implementations | a row covers the bill | PricedRun |
| Run quota (`local-gate.ts` `reserveRun`) | a counter per tenant and month | reserve on `POST /runs` | nothing calls the refund | a slot belongs to a run or a breakage | FrontDoor |
| Spend stores (`dynamo-`, `postgres-`, `firestore-spend-store.ts`, in memory) | one total per key | `add`, `reserve` | Firestore: read, check, write under a precondition, retry | one atomic conditional add | SpendRow, FirestoreSpendStore |
| Run stores (`dynamodb-`, `firestore-run-store.ts`, in memory) | the run record | `create`, `update` | progress updates are not awaited; Firestore rewrites the document | an update changes its own fields only | AtomicRunStore, FirestoreRunStore |
| Front door (`runtime/app.ts`, `router.ts`, `dispatch.ts`) | requests in flight, agent registry | `POST /runs`, `POST`/`DELETE /agents`, reads, dispatch | check-then-write; the registry is read again at each stage; replies are lost | identity, policy, ownership, quota and lane agree over those steps | FrontDoor, Identity |
| Dispatch and execution (`dispatch.ts`, `process-run.ts`, `task.ts`, `agentcore.ts`, `agent-engine.ts`) | session, workspace, turns | claim, session, toolset, clone, loop, report, catch, finally, rescue, `awaitRun` | any step may throw; processes die; invocations are repeated | the outcome is recorded, nothing is left open | RunLifecycle |
| Inference gateway, Anthropic wire (`inference-gateway/messages.ts`) | a request's reservation | reserve, invoke or stream, settle once | stream end, fault and client abort race | over-charge, never a hole | MessagesSpend |
| Inference gateway, LiteLLM (`litellm/admission_hook.py`, `auth_hook.py`) | claim cache, stash of reservations | pre-call reserve, completion hooks, sweep | several hooks fire, or none; processes share the ledger (off every serving path since ADR-0028 and kept as the parity reference, `litellm/README.md:3-8`) | each reservation settled once, to its own row | AdmissionHook |
| Claims (`kube-`, `dynamo-claim-source.ts`, `services/claims-controller`, agent controller) | status on cluster objects, caches | reconcile, refresh, lookup | stale lists, overlapping passes and refreshes, conflicts | no over-grant; verdicts of their spec; convergence | Claims |
| claude-code runner and sidecar (`claude-code-runner/task.ts`, `loop-detector.ts`, `sidecar.ts`) | harness process, timer, token | spawn, stream, kill, push, report | timer, detector and harness race; the harness is untrusted | one explained end; blast radius | CodeRunner, LoopDetector |
| Coder workspace (`adapters/coder-workspace.ts`) | clone, baseline | clone, `finalize` | listings hide files, reads fail | all of the agent's work, nothing else, is pushed | CoderWorkspace |
| Sandboxes, tool gateway, tool providers | sandbox, connections | start, exec, resolve, close | several resources, one after another | what was acquired is released | AgentSession |
| Memory (`adapters/*memory*`) | notes, index | remember, recall, search | a shared file and an index rewritten whole | what was remembered is found | TenantMemory |
| Credential brokers, machine logins | token cache | issue, purchase | expiry between check and use; shared purchases that fail | nobody is handed a dead token | CredentialCache |
| Client and console (`packages/client`, `apps/console`) | verifier and state, token, polling | sign in, poll | reloads, double clicks, two tabs, lapsed tokens | a code goes out once, for its own login | SignIn, FrontDoor |
| A2A (`runtime/a2a.ts`) | – | run → task, `call_agent` | statuses without a task state | a watcher comes to an end | FrontDoor |
| Authenticators, authorizers | – | authenticate, authorize | composition, verifiers that do not answer | governed by a verified identity | Identity |

`POST /runs` (front door) → run store `create` → dispatcher → substrate →
executor → run store `update`s; a poller reads the run store only. An
executor's model calls, and the gateway's requests, go through
`AdmissionInferenceProvider` or `handleMessages` → gate → spend store. Front
door and executor are different processes on every substrate but `inprocess`,
and share nothing but the stores. Claims decide what the gateway's caller may
spend; the registry decides which executor a run is given to.

`PROJECT.json` lists every component with its sources and what of it is
modelled, and under "hazards" what in this code is hard to test.

## 2. Modules

```
HardStop            <- BudgetGate            (refines) what a spend cap promises; gate + model call
SpendRow            <- FirestoreSpendStore   (refines) one atomic row; the compare-and-swap loop
AtomicRunStore      <- FirestoreRunStore     (refines) per-field updates; get-merge-write in a chain
  both used by RunLifecycle                  front door, substrate and executors of one run
MessagesSpend                                the money of one /v1/messages request
AdmissionHook                                the gate as LiteLLM callbacks
LoopDetector <- CodeRunner                   claude-code runner, sidecar and harness
Identity     <- FrontDoor                    requests, registry, quota, routing, watching
Claims                                       controllers, claims table and the caches that read them
AgentWork                                    six parts side by side, sharing no state:
  TenantMemory, CoderWorkspace, AgentSession, CredentialCache, PricedRun, SignIn
```

`MC*.tla` give the constants their values; `*Proofs.tla` hold the theorems.
`AdmissionProofs` and `FirestoreProofs` extend two specifications at once, so
`AdmissionHook` says `HookInit`, `HookNext`, `HookSpec` and
`FirestoreSpendStore` says `CasInit`, `CasNext`, `CasSpec` where the others say
`Init`, `Next`, `Spec`. An operator commented "Variant" differs from the one
below it by a plausible mistake; the project is checked with the one in place
of the other to see that a property notices.

**BudgetGate.** `pc[c]` is where call `c` is in `generate()` → `reserve()` → the
model → `settle()`; each step ends at an `await`. `spent` and `sessionSpent`
are rows of the store; `period`, `limit` and `settlePeriod` are local variables
kept across awaits. `Break` is a throw or death at any await, the write
possibly landed. `NextMonth` and `SetCap` are the environment. `held`,
`sessionHeld`, `strayed` and `peak` are history.

**FirestoreSpendStore.** `Read` is the GET and the ceiling check, `Write` the
PATCH whose precondition holds, `LoseRace` the one whose precondition fails.
`version` is `updateTime`. **FirestoreRunStore.** `pending[p]` is process `p`'s
`writeChain`, its head the running call; `Get` reads and merges, `Patch`
writes, `Drop` is a call that fails.

**RunLifecycle.** One run. `record` is what the store holds of it, reduced to
the fields written more than once. The front door moves through `front`, each
executor through `pc[e]`. Updates are submitted in one step and land in
another; `wholeDoc` selects Firestore's protocol or DynamoDB's. `Faults` names
what may go wrong: dispatch refused or thrown, reply lost, invocation
redelivered, store request failed, session, toolset, clone or loop thrown,
processes dying. `watch` is `awaitRun` of `agent-engine.ts`.

**MessagesSpend.** One request from admission to the end of its response;
`Produce` is the model outside the gateway, `Cancel` the client.

**AdmissionHook.** A hook's code runs to its next store operation in one step;
other processes move in between. `stash[p]` is `_RESERVATIONS` of a process,
`hooks[c]` the completion callbacks still to fire for a call (LiteLLM fires up
to five), `kept[p]` the `TTLCache` of claims. The auth hook's lookup and the
admission hook's reservation are separate steps, with the claim's edits
between. `held` and `sessionHeld` are history.

**CodeRunner.** `pc` follows `task.ts` from the wait for the sidecar to the
last write. The harness is an adversary: it writes any event, commits on any
branch, sends the sidecar any push or pull request, hangs, ends, or outlives
its stream. `TimerFires` and the detector kill it; `killed` is a request
(SIGTERM), so it goes on until `HarnessEnds`. `remote` holds the commits every
ref of every repository was sent.

**FrontDoor.** `request[r].pc` is where a handler stands: `Arrives` (parse,
authenticate, authorize – they touch nothing other steps do), `Lookup`,
`Admit`, `Create`, `Write`; `Breaks` is a throw at any of them. The agent's
kind is read at `Lookup`, at `Mint` and at `Route` again; `Edit` is the
operator who writes the registry behind the front door. `run[r]` is the run
from its creation over its dispatch to its end, `watch[r]` the console or the
calling agent that polls it. `Fail` is the failure write of a dispatch that
threw, which may not land (`Strand`), `Abandons` an executor that set the run
running and never ends it. A deployment names authenticator, substrate,
wiring, quota and policy. **Identity** gives every authenticator as a function
of a credential and of which verifiers answer.

**Claims.** A setting picks a lane: claims controller, agent controller, claims
table, tenant roles. `pass[p]` is a reconciliation (list, list allowances,
write status by status with a resource version), `reader[q]` a refresh of a
cache, `api` the objects.

**AgentWork.** `part` selects one of its six components for a behaviour; the
others keep their initial state, so the state space is a sum and not a product.
TenantMemory: calls on the file, on the vector index and on managed services,
each answer cut to its length, a human editing the file. CoderWorkspace: `Clone`, the agent's edits, every
branch of `finalize()`. AgentSession: what a run or a gateway request opens
and releases. CredentialCache: three policies (client login, Google identity
token, on-behalf-of vault). PricedRun: a run's calls over either wire with
every provider. SignIn: PKCE at the console and from a script.

## 3. What is checked

| Run | Instance | States | Shows |
|---|---|---|---|
| `gate_months` | 3 calls, 2 in a session; worst case 2, cap 3 (tenant: 3 or 4, moving), 2 months | 1.1 M | session cap never exceeded; tenant cap exceeded at most by stray credit; books close; never under-charged; the session scope implements `HardStop` |
| `gate_rollover` | the same, tenant cap fixed at 3 | – | *disagreement*: the documented monthly hard stop fails when a month turns |
| `store_chain` | one process, 2 fields × 2 values, 2 calls outstanding | 724 | the promise chain implements the atomic store; no deadlock |
| `spend_cas` | 3 reserves of 2 under 4, one refund, 2 attempts | 44 106 | the loop implements the atomic conditional add; lost attempts are real writes |
| `messages_money` | estimate 1, up to 3 output tokens, prompt counts 0..2 | 612 | no hole but the three it names; a completed stream is charged exactly |
| `run_records` | one executor, all substrates on DynamoDB, two on Firestore, local faults | 14 002 | the record comes to say what the run did and goes on saying it (`RecordStands`: terminal is final, the outcome is the run's, a Firestore record keeps every turn); `awaitRun`'s answer stands; every created run settles |
| `run_faults` | two executors, all faults but the toolset's | 1.6 M | nothing left open; no status without an author |
| `code_runner` | 2 repositories, 2 tool calls, threshold 2, 2 events, 1 commit a branch | 498 523 | stopped exactly when spinning; explained end; work accounted for; the harness confined to adding to its run branches; the run ends |
| `litellm` | 2 processes, 2 calls of one tenant at 2 under 3, 2 months, TTL 1 | 1.78 M | rows are what is held; monthly and session hard stop; settled once, with no hole; claims are fresh |
| `front_door` | 2 requests, 2 tenants, 1 agent, 6 deployments, one edit behind | 426 475 | the verified credential decides; slots; lanes; ownership; watching ends, unless the run it waits for is one nobody will end |
| `claims` | 2 objects, 2 passes, 2 readers, 6 settings | 668 623 | allowance; recent caches; a verdict is of its spec; convergence |
| `agent_work` | see `AgentWork.cfg` | 1 672 828 | memory is found; jobs end well; live credentials, for every caller in the end; the row covers the bill, the record its cost; the workspace pushes all of the agent's work and nothing else; a code goes out once, for its own login |

No run takes more than about three minutes with two workers. A property that
says several things of one subject is a conjunction of named parts (`Governed`,
`RecordStands`, `SettledRight`, `JobEndsWell`, `MoneyIsTold`, `LoginIsItsOwn`,
`Confined`, `PushedIsTheWork`); in most modules one of the invariants takes the
types along.

### The bounds

*Money.* With worst case 2 and cap 3 one call fits and the second must not, so
three calls on the month and two on the session show every pair of places.
Costs are 0, 1 and 3: nothing, less than the estimate, and more than it, because
a prompt may count more than estimated. Two months show a rollover; a call
remembers nothing of later ones. The LiteLLM instance has two processes
because a hook is atomic within its own, and a bound of one tick past the
cache's TTL because the cache forgets all else.

*Stores.* Two attempts show a retry and a surrender. *Runs.* A progress write
needs one more turn beside it to be reordered, hence the three steps of
`run_records`; with two executors one step keeps the instance small. Two
executors are one redelivery.

*Code runner.* Threshold 2 and two events of up to several calls each reach
"just below", "at" and "reset". Two repositories are the run's own and another,
two tool calls same and different; a run without repository is included.

*Front door.* Two requests on one agent are the check-then-write race; a third
party is `Edit`. Six deployments cover the four substrates, the wired and
unwired claude-code lane, a quota of 1, of 0 and none, and each authenticator
with credentials it accepts, rejects, or cannot verify. `MaxPolls = 1` only
shortens the agent's patience, which any number of unanswered polls exhausts.

*Claims.* Two objects give an order and a conflict; two overlapping passes or
refreshes are the most that disagree; the agent, table and role lanes have
settings of their own.

*AgentWork.* Three calls for an index rewritten from a stale read while a third
searches, on two notes, with answers of two lines (`Best`, five in the code) or
one (`TopK`, `MaxResults`: 8 and 20), so that there are more lines than room;
six paths, with each visibility among them; a baseline of `MassMin = 2` for the
refusal of mass deletion (8 in the code) and a listing of `2 * MaxFiles = 4`
entries, fewer than there may be files; two MCP servers, so that one fails
after another was opened; `Life = 3 > Margin = 1 = Latency`; two runs of two
turns on one row, a call using the least or the most it may; four logins and
two mishaps.

### Fairness

Fairness is weak and of what the code's scheduler or a service does on its own;
no fault is made to happen and, but for callers of a cache, no client to act.

- `run_records` (`RunLifecycle!Fairness`): the front door's and the executors'
  promise chains, the substrate's accepting and starting, the store's answers.
  No crash: nothing restarts a run whose executor died (`listByStatus` exists
  for that, nothing calls it).
- `CodeRunner`: the runner's own steps, the timer, and that a killed harness
  ends. Nothing is assumed of a live one.
- `FrontDoor`: accepted runs are executed or given up (`Abandons`: a run set to
  running that nobody ends), pollers poll. `WatchEnds` names the runs nobody
  will end; which runs are ended is the subject of `run_records` and
  `code_runner`.
- `Claims`: the controllers' passes (`setInterval`), strongly for the listing of
  allowances and the status write, which may fail or conflict, but not always:
  the next interval tries again. Users stop editing (`edits` is bounded).
- `CredentialCache`: the authority answers (with a token or an error; errors
  are bounded), callers go on asking.

### What the code and its words disagree about

`local-gate.ts:123` (run `gate_rollover`): `settle()` computes the month anew,
so a call that straddles midnight of the first is credited to a row that was
never charged, and the next month admits more than its cap.
`OverspendIsStrayCredit` bounds the damage: by exactly what strayed.

Properties that hold name their exceptions, and these are worth a reader's
time: `LeftRunning` (`SettlesEventually`: session and toolset are acquired
outside the `try`, `process-run.ts:44`, against `dispatch.ts:36-37`),
`max_steps` in `AnswerStands` (`agent-engine.ts:62` does not count it as
terminal, nor does `a2a.ts:35-42`), the three holes of `MessagesSpend!NeverAHole`
(`messages.ts:95` refunds a billed invocation whose reply was lost and
`messages.ts:109-112` a stream whose opening failed on its way back;
`messages.ts:140` settles an abandoned stream down, against lines 14-15),
`StrandedAtConsole` in `WatchEnds` (a lost failure write is swallowed,
`dispatch.ts:148-150` and 359-363, or `process-run.ts:44` threw: the console
then polls for ever), `Mispriced` and `unsettled` in `MoneyIsTold` (a settlement
that throws, `admission-inference.ts:51`, leaves the row at its estimate, below
the bill of a prompt that was underestimated), `unopened` in `LoginIsItsOwn`
(`Bun.spawn` of a missing `open` throws after the port was taken and the login
is rejected with the port held, `browser-login.ts:51`, against "URL printed as
fallback"), the listing that `coder-workspace.ts:152` cuts in `PushedIsTheWork`
(new files past it stay behind unsaid), the full list in `RememberedIsFound`
(`vector-memory.ts:137`, `agentcore-memory.ts:59,124`,
`vertex-memory-bank.ts:137`), an answer within the margin in `HandedAlive`
(`machine-login.ts:28` has no timeout), `InvalidUsed` in `HonouredIsRecent`
(the Kubernetes agent registry ignores `status.phase`), `moved` in `LaneMatches`
and `TakenUnawares` (another tenant can take an agent between check and write),
`deaf` in `Governed` (the Cognito and Google authenticators turn a JWKS
outage into 401, against `composite-authenticator.ts:7-8`), the `cut` stream in
`JobEndsWell` (an exec stream that closes without a status leaves exit
code 0, `agent-sandbox.ts:127,145`).

Seen while modelling, without a property:

- *Gate.* A reservation over two scopes may refuse another call for money about
  to be given back (`local-gate.ts:113`, against `gate.ts:84-86`). The failure
  of `JSON.parse` after a billed answer refunds it in full. The Python price
  table has no substring match though it is called a mirror of
  `priceTokensUsd`. A zero budget falls back to the default cap
  (`admission_hook.py:295`, against 292-294).
- *Runs.* The failure write after a lost reply is unconditional and may turn a
  completed run into a failed one (`dispatch.ts:148`, against 93-94); agentcore
  reads the status before its failure write (`dispatch.ts:215`); front door and
  engine may both rewrite one Firestore document (`dispatch.ts:287`, against
  `firestore-run-store.ts:27-29`); progress writes to DynamoDB may land in the
  other order (`process-run.ts:95`); the record's cost is reckoned at the
  platform's model, not the agent's (`process-run.ts:101`), and is 0 for a
  sandboxed run; under agentengine the record is read again after `processRun`,
  and a failing read writes failed over a run that completed
  (`agent-engine.ts:126,135-137`).
- *Front door.* A claude-code run on `inprocess` or `agentengine` runs on the
  loop (`dispatch.ts:56-57`). A `create` that throws after `reserveRun` loses
  the slot; one whose reply is lost leaves a queued run nobody dispatches. A
  401 for any reason signs the console's user out.
- *Code runner.* Commits on another branch are reported pushed and are not
  (`task.ts:229-230`); setup that fails before the `try` leaves the run queued,
  a last write that fails leaves it running.
- *Sandboxes and workspace.* A pod that does not start and a toolset that does
  not resolve leak what was opened. A file that is not UTF-8 is pushed changed;
  one that could not be read, and is not listed, is pushed as a deletion. A
  redelivered run's second push fails, the branch exists.
- *Memory and credentials.* The index keeps notes a human deleted; an append
  after an edit without final newline joins two lines. `kube-sts` keeps an
  absent role for 60 s though `sts-tenant-credentials.ts:46` says it is retried
  on the next call. A declined login leaves the script waiting.

## 4. What is proved

Every invariant and action property the runs check, and each refinement, is a
theorem; what TLC has to itself is liveness. All proofs are checked by TLAPS
from the definitions and the named assumptions of the modules; nothing is
assumed beyond them.

*Sums.* Most of what is said of money is a sum over calls. In `BudgetGate` and
`PricedRun` a sum is the cardinality of a set of units and needs no induction.
`AdmissionHook` and `Claims` use the community modules' fold, which takes its
elements with `CHOOSE`. `AdmissionProofs` shows what it returns from sets
rather than predicates: `NatSets` and `FinSets` say that a set of numbers, or of
subsets of a finite set, that holds the first and with each one the next holds
all (by the well-foundedness of the order). From them `AdderSays`: whatever
order a fold takes, its sum is the same. `SumSplits`, `SumSame`, `SumMoves` and
`SumLess` are what the invariants cite.

**`BudgetGateProofs`**, from `GateAssumption` (finitely many calls, prices
within `0..Most`, natural caps). `TypeCorrect`. `SessionHardStopHolds` and
`NeverUnderchargedHolds`: what a session was sent for is on no row, so
`SessionInv` says for each place what the row holds for the call
(`SessionHoldOf`), that the row is the sum of it (`SessionBooks`), and that the
reserved part is within the cap; it counts `Lesser(sessionHeld, Worst)`, since
an answer dearer than its estimate may take the row itself above the cap.
`OverspendIsStrayCreditHolds`: `TenantInv` has the same for the month row with
a term for stray credit; every action leaves the rows alone or is a
`TenantMove`, and `TenantMoveSums` says once which moves keep the sums.
`BooksCloseHolds`: row by row the months do not balance, because a settlement
may credit another month than was charged, so `BooksInv` sums a tenant's rows
over all months (`UpTo`, a recursive function) against what its calls hold
(`Net`), until a call breaks at the store. `KeepsPromiseHolds`: the gate
implements `HardStop`. `PromiseStep` maps each action to `Admit`, `Refuse`,
`Finish` or a stutter; that a call is admitted only where it fits is
`SessionInv` again.

**`FirestoreProofs`.** The run store, with one process (`OneProcess`):
`ChainImplementsAtomic`, `MergeStaysCurrent`. `ChainInv` says that
between its get and its write the document a call will write is the stored one
with its patch. The spend store: `CasImplementsRow`, `LossesAreWins`,
`CasTypes`. `CasInv` says that a version names one total (`SeenIsPast`) and that
lost attempts are counted by versions (`LossesCounted`).

**`MessagesSpendProofs`**: `MessagesTypes`, `NeverAHoleHolds`,
`CompletedIsExactHolds`. `MoneyInv` relates the usage heard so far to the bill
(`UsageInv`) and the ledger to both, place by place (`LedgerInv`): before the
settlement it holds the estimate, after it what was settled. `threw` remembers
the two refunds of what may have been billed.

**`AdmissionProofs`, the hooks**, from `HookAssumption` (finitely many calls; a
month exists). `RowsAreHeldAlways`, `MonthHardStopHolds`, `SettledRightHolds`
and the action property `ClaimIsFreshHolds` follow from one `HookInv`.
`CallInv` says for each place what both rows hold for a call and whether its
reservation is still parked in the stash; that it is parked at most once, in the
process it was made in, is `StashInv`, and this is why whichever hook fires
first settles and the others find nothing. `RowInv` ties the rows to the sums. A
step of one call changes two amounts: `Adds` says by how much, `Bounded` that
the reserved part does not grow but where a conditional write saw it fit.
`FreshInv`: a cached claim is the table's, or was read before its last change.

**`AdmissionProofs`, the claims**, from `ClaimsAssumption` (nothing judges rows
of the table or roles; names are numbers, so that a list has an order).
`AllowanceHoldsAlways` is about the verdicts themselves (`AllowanceOf`): of those
ready one was created last, its running total contains all the others, and
taking a later claim away changes no earlier total. For the table it needs
`TableInv`: every row was within the allowance when it was put, and a
deployment's allowance does not move. `HonouredIsRecentAlways`: `RecentInv`
says of each refresh under way, and of each entry of the cache less the time a
list may take, that what it says of a claim is so or was so since (`HeldSince`).
`VerdictOfItsSpecHolds`: by `PassInv` an object a pass is still to judge, and
whose resource version it has, is as it was listed.

**`RunLifecycleProofs`**, for any executors, deployments and step limit.
`NothingLeftOpenHolds`, if "toolset" is not among the faults: `OpenInv` says at
which places a session may be open and a workspace cloned, `NotYet` that an
executor which has not begun has neither. `StatusHasAuthorHolds`, with every
fault: a status travels from an executor's decision through a submitted patch,
a fetched document and a write, so `AuthorInv` says of the record, of every
pending patch and of every document about to be written that its status has an
author, and `SpeakInv` that an executor decides before it writes. Authors are
never lost (`Grows`), which carries the invariant past the steps of others.
`TypesAlways`, with every fault. `RecordStandsHolds` and `AnswerStandsHolds` are
proved for `Contained` faults, those of `run_records`: dispatch, session,
toolset, clone and loop may fail in any way. A lost reply, a failing store, a
crash or a second delivery can break both in the code (section 3, *Runs*), so
the hypothesis belongs to the claim. `LifeInv` says that then one executor at
most comes to life, that a front door which marks the run failed has none
beside it (`DoorInv`), and, for each place of the executor, which writes are
outstanding: one awaited, and before it any number of progress writes (`WayAt`);
over Firestore also what the document about to be written says (`MergeAt`).

**`CodeRunnerProofs`**: `ConfinedHolds`, by `BlastRadiusHolds` and
`NothingDeletedHolds`, from `GitHubInv` (the token is for the run's repository
only, refs sent are run branches); `EndIsExplainedHolds` from `EndInv`, which
ties the terminal status so far to what was read from the pipe at each place.
`DetectsSpinningHolds`: the property speaks of prefixes of everything heard,
the detector keeps one counter; `DetectorInv` says that the counter is the
length of the last run of equal calls and that the runner stopped if one was
long enough, and `OneMoreCall` what a call adds. `WorkIsAccountedHolds`:
`WorkInv` follows the commits from the clone to the remote, and says that
nothing is committed after the harness is gone.

**`AgentWorkProofs`**, each over AgentWork's whole next-state relation.
`HandedAliveHolds` from `CacheInv`, using `Latency <= Margin < Life`: every token
kept, under way or handed out ends no earlier than its holder reckons less the
latency. `SentOnceHolds`, `SentForItselfHolds` from `CodeInv` (codes are
numbered; a code in the address bar or under way has not been sent before) and
`PortReleasedHolds` from `PortInv`, which sets apart the logins whose browser
could not be started; together `LoginIsItsOwnHolds`.
`PushedIsTheWorkHolds`, an action property, and its parts `PushedIsTheirsHolds`
and `NothingForgottenHolds` from `CloneInv`: what the clone noted and what is in
the box agree except where the agent wrote; of new files they speak as far as
`finalize()` goes through the listing. `JobEndsWellHolds`, by
`ReleasedAtTheEndHolds` and `CompletedIsEarnedHolds`, from `JobInv`, an account
of what a job has open at each of its places. `RememberedIsFoundHolds`: by
`MemoryInv` a search has in its index, or still to index, what it owes, though
another call rewrites the index from what it read before; and an answer with room
left is the whole of it (`Cut`). `MoneyIsToldHolds`:
by `MoneyInv` the row covers the bill so far and what is held for calls under
way, less what nobody reported and what a settlement that did not land would
have added (`unsettled`), and passes the cap by no more than the prompts that
were underestimated; the
property takes the types of every part along, so the proof adds `PurchaseInv`
(callers who share have one purchase under way) and `SignInv`.

**`FrontDoorProofs`**: `TakenUnawaresHolds`, an action property. `HandInv` says
that a request about to write has seen the agent as it is and may have it,
unless somebody wrote in between (`Current`); a write or an edit marks everyone
who stands between check and write (`Staling`, `Rewriting`). `GovernedHolds`:
what is served is vouched for at every place a handler stands (`GovernInv`).
`LaneMatchesHolds`: `LaneInv` carries what a request knew of its agent past the
three reads of the registry. `SlotsAreHeldAlways`: the quota row is the number
of requests that hold a slot (`SlotInv`), a refused one holds none (`PlaceInv`).

*Assumptions on constants*: a margin no shorter than an answer takes and shorter
than a token's life (`CacheAssumption`; 60 s in `machine-login.ts:42`; that an
answer takes less is an assumption on the network, no timeout enforces it);
numbers
where the code has numbers (`PricingAssumption`, `MemoryAssumption`); names for nothing that name
nothing else (`SignAssumption`, `FrontDoorAssumption`); finite sets where
something is counted. TLC evaluates them in the runs.

*Only model-checked*: liveness under fairness, which TLAPS does not prove
(`SettlesEventually`, `RunEnds`, `WatchEnds`, `Converges`, `HandedAgain`); that
`store_chain` does not deadlock; and the counterexample of `gate_rollover`.

## 5. What is not modelled, and why

- *Telemetry*: write-only. *Example applications*: one-shot scripts.
  *Deployment*: infrastructure as code, no behaviour of its own.
- *Agent loop*: the conversation, the guard between tools and the no-progress
  signature work on transcripts; its turns, progress writes and ends are in
  `RunLifecycle`, and whether a turn repeats is left to chance.
- *Gateway*: body scrubbing, error mapping, `compat_hook` and message
  translation rewrite data; the token review that names a service account is a
  step of the environment.
- *Sidecar*: its inference leg forwards bytes and keeps no state.
- *Memory*: keywords and scores. A search is for words that all notes match,
  and which lines it keeps when it cuts its answer is left to chance.
- *Front doors*: CORS, static routes, the agent card, field validation (one
  predicate). *Stores*: `list`, `listByStatus`, `checkBudget`, `checkQuota`
  are reads that nobody acts on.
- `recordSpend` and `refundRun` change state and are left out because nothing
  calls them.
- Wiring from the environment is a choice of setting in the modules it
  configures; generated client types and the other console views keep no state
  anybody relies on.
