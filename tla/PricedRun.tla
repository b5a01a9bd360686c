------------------------------- MODULE PricedRun -------------------------------
(***************************************************************************)
(* What a run's model calls cost, and where each amount is reckoned: the   *)
(* gate reserves the worst case of a call and settles it to the usage that *)
(* the provider's adapter found in the answer, at the price of the model   *)
(* the provider was built for; processRun prices the sum of the usages     *)
(* once more, for the run's record.  Runs of one tenant share a row.       *)
(*                                                                         *)
(* A call goes to the model directly, or over one of two wires to a        *)
(* gateway, which is then who reserves and settles.  Prices are in cents   *)
(* per million tokens, and so are amounts.                                 *)
(***************************************************************************)
EXTENDS Integers, Sequences

CONSTANTS
  Runs, None,
  Cap,      \* of the tenant
  MaxTurns, \* bound: turns of a run
  MaxOut,   \* max_tokens of a call
  Chars     \* bound: length of a prompt, of which a token takes one or more

PricingAssumption ==
  /\ Cap \in Nat /\ MaxTurns \in Nat
  /\ MaxOut \in Nat \ {0} /\ Chars \in Nat \ {0}

Nova   == "amazon.nova-lite-v1:0"
Alias  == "claude-haiku"
Haiku  == "eu.anthropic.claude-haiku-4-5-20251001-v1:0"
Sonnet == "us.anthropic.claude-sonnet-4-6-v1:0"
Gemini == "gemini-2.5-flash"
Llama  == "llama3.1"

Price(in, out) == [in |-> in, out |-> out]

(* In the order of the source; of the keys, those the models here can meet.  *)
PricePerMtok ==
  << [key |-> Nova,            price |-> Price(6, 24)],
     [key |-> "claude-haiku",  price |-> Price(100, 500)],
     [key |-> "claude-sonnet", price |-> Price(300, 1500)],
     [key |-> Gemini,          price |-> Price(30, 250)] >>
Default == Price(50, 150)

(* Which model names contain which keys. *)
Includes(model, key) ==
  \/ model = key
  \/ <<model, key>> \in {<<Haiku, "claude-haiku">>, <<Sonnet, "claude-sonnet">>}

Models == {Nova, Alias, Haiku, Sonnet, Gemini, Llama}

(* The whole name, else the first key that it contains. *)
Prices ==
  [model \in Models |->
     LET exact    == {i \in DOMAIN PricePerMtok : PricePerMtok[i].key = model}
         within   == {i \in DOMAIN PricePerMtok : Includes(model, PricePerMtok[i].key)}
         First(s) == CHOOSE i \in s : \A j \in s : i <= j
     IN  IF exact # {} THEN PricePerMtok[First(exact)].price
         ELSE IF within # {} THEN PricePerMtok[First(within)].price ELSE Default]
PriceOf(model) == Prices[model]

(* The LiteLLM hook's own table matches whole names only. *)
HookPriceOf(model) ==
  IF model \in {Nova, Alias, Haiku} THEN PriceOf(model) ELSE Default

Cost(price, usage) == usage[1] * price.in + usage[2] * price.out

(* About four characters to a token, rounded up. *)
Estimate(chars) == (chars + 3) \div 4

-----------------------------------------------------------------------------
(* A deployment: the wire to the model, the provider of the process that     *)
(* calls it, and what the claim names.                                       *)
Providers == {"bedrock", "vertex", "ollama"}
PlatformModel(provider) ==
  CASE provider = "bedrock" -> Nova [] provider = "vertex" -> Gemini [] OTHER -> Llama

Setups ==
  [wire : {"direct"}, provider : Providers, claim : {None}]
  \cup [wire : {"bespoke"}, provider : {"bedrock"}, claim : {None, Alias}]
  \cup [wire : {"openai"}, provider : {"bedrock"}, claim : {Alias, Sonnet}]

(* The agent's own model, if it names one; over the bespoke wire it goes     *)
(* unsaid, and behind the LiteLLM gateway it is on the claim's list.         *)
Wanted(s) ==
  CASE s.wire = "direct"  -> {None, Sonnet}
    [] s.wire = "bespoke" -> {None}
    [] OTHER              -> {None, s.claim}

Or(model, default) == IF model = None THEN default ELSE model
Resolved(model) == IF model = Alias THEN Haiku ELSE model

(* The model named to the provider that calls it.                            *)
Named(s, wanted) ==
  CASE s.wire = "direct"  -> wanted
    [] s.wire = "bespoke" -> Resolved(s.claim)
    [] OTHER              -> Or(wanted, PlatformModel(s.provider))

(* Variant: the decorator takes the platform's provider for the inner one.   *)
InnerOfPlatform(s, wanted) == PlatformModel(s.provider)
Inner(s, wanted) ==
  IF s.provider = "bedrock"
  THEN Or(Named(s, wanted), PlatformModel(s.provider))
  ELSE PlatformModel(s.provider)

(* Which model answers: LiteLLM maps the alias by its own configuration.     *)
Served(s, wanted) ==
  IF s.provider = "bedrock"
  THEN Resolved(Or(Named(s, wanted), PlatformModel(s.provider)))
  ELSE PlatformModel(s.provider)

Ledger(s, wanted) ==
  IF s.wire = "openai" THEN HookPriceOf(Inner(s, wanted)) ELSE PriceOf(Inner(s, wanted))

(* The usage an adapter reads from an answer.  Gemini counts the tokens it   *)
(* thought apart from those it answered, Ollama leaves out a prompt it had   *)
(* cached, and LiteLLM's answer may come without.                            *)
FromBedrock(used) == {used}
FromGemini(used)  == {<<used[1], out>> : out \in 0 .. used[2]}
FromOllama(used)  == {used, <<0, used[2]>>}
FromOpenAi(used)  == {used, <<0, 0>>}

Reported(s, used) ==
  CASE s.wire = "openai" -> FromOpenAi(used)
    [] s.provider = "bedrock" -> FromBedrock(used)
    [] s.provider = "vertex" -> FromGemini(used)
    [] OTHER -> FromOllama(used)

-----------------------------------------------------------------------------
VARIABLES
  setup,
  row,      \* the tenant's spend this month
  run,      \* each run
  bill,     \* history: what the models' owners charge
  unheard,  \* history: of the bill, what no usage told the gate
  short,    \* history: what prompts cost beyond their estimates
  unsettled \* history: what calls cost beyond reservations that stayed as they were

vars == <<setup, row, run, bill, unheard, short, unsettled>>

Idle == [at |-> "idle", wanted |-> None, worst |-> 0, turns |-> 0,
         usage |-> <<0, 0>>, charged |-> 0, cost |-> None]

Init ==
  /\ setup = None /\ row = 0 /\ run = [r \in Runs |-> Idle]
  /\ bill = 0 /\ unheard = 0 /\ short = 0 /\ unsettled = 0

Deployed ==
  /\ setup = None /\ setup' \in Setups
  /\ UNCHANGED <<row, run, bill, unheard, short, unsettled>>

At(r, at)   == setup # None /\ run[r].at = at
Put(r, rec) == run' = [run EXCEPT ![r] = rec]
Billed(r, used) == Cost(PriceOf(Served(setup, run[r].wanted)), used)
Charge(r, said) == Cost(Ledger(setup, run[r].wanted), said)

(* What a call may use, the least and the most, costs being linear in it: the *)
(* cap on its answer goes with it to the provider.                            *)
Used == {<<1, 1>>, <<Chars, MaxOut>>}
Beyond(m, n) == IF m > n THEN m - n ELSE 0

Start(r) ==
  /\ At(r, "idle")
  /\ \E wanted \in Wanted(setup) : Put(r, [run[r] EXCEPT !.at = "thinking", !.wanted = wanted])
  /\ UNCHANGED <<setup, row, bill, unheard, short, unsettled>>

Worst(r) == Charge(r, <<Estimate(Chars), MaxOut>>)

Reserve(r) ==
  /\ At(r, "thinking") /\ run[r].turns < MaxTurns /\ row + Worst(r) <= Cap
  /\ row' = row + Worst(r)
  /\ Put(r, [run[r] EXCEPT !.at = "calling", !.worst = Worst(r)])
  /\ UNCHANGED <<setup, bill, unheard, short, unsettled>>

(* BudgetExceededError, which fails the run and leaves it without a cost. *)
TurnedDown(r) ==
  /\ At(r, "thinking") /\ run[r].turns < MaxTurns /\ row + Worst(r) > Cap
  /\ Put(r, [run[r] EXCEPT !.at = "failed"])
  /\ UNCHANGED <<setup, row, bill, unheard, short, unsettled>>

(* What a call used, of which its answer said so much. *)
Spent(r, used, said) ==
  /\ bill' = bill + Billed(r, used)
  /\ unheard' = unheard + Billed(r, used) - Billed(r, said)
  /\ short' = short + Charge(r, <<Beyond(used[1], Estimate(Chars)), 0>>)

(* The gate settles to the usage reported, *)
Settled(r, used, said) ==
  /\ Spent(r, used, said)
  /\ row' = row + Charge(r, said) - run[r].worst
  /\ UNCHANGED unsettled

(* or its write does not land, and the row keeps the worst case.             *)
Unsettled(r, used, said) ==
  /\ Spent(r, used, said)
  /\ unsettled' = unsettled + Beyond(Charge(r, said), run[r].worst)
  /\ UNCHANGED row

Summed(usage, said) == <<usage[1] + said[1], usage[2] + said[2]>>

(* The LiteLLM hook swallows a settlement that failed.                       *)
Answer(r) ==
  /\ At(r, "calling")
  /\ \E used \in Used : \E said \in Reported(setup, used) :
       /\ Settled(r, used, said) \/ (setup.wire = "openai" /\ Unsettled(r, used, said))
       /\ Put(r, [run[r] EXCEPT !.at = "thinking", !.turns = @ + 1, !.worst = 0,
                                !.usage = Summed(@, said), !.charged = @ + Charge(r, said)])
  /\ UNCHANGED setup

(* The other gates throw it after the answer, which fails the run, landed or *)
(* not; and what a gateway settled may not reach the run.                    *)
AnswerLost(r) ==
  /\ At(r, "calling")
  /\ \E used \in Used : \E said \in Reported(setup, used) :
       Settled(r, used, said) \/ Unsettled(r, used, said)
  /\ Put(r, [run[r] EXCEPT !.at = "failed", !.worst = 0])
  /\ UNCHANGED setup

(* The call throws where the gate sits, which refunds all of it, if the      *)
(* refund lands: the call may have been answered, and the answer been lost   *)
(* or been no JSON.                                                          *)
CallFails(r) ==
  /\ At(r, "calling")
  /\ \E lost \in {0} \cup {Billed(r, used) : used \in Used} :
       bill' = bill + lost /\ unheard' = unheard + lost
  /\ row' \in {row, row - run[r].worst}
  /\ Put(r, [run[r] EXCEPT !.at = "failed", !.worst = 0])
  /\ UNCHANGED <<setup, short, unsettled>>

(* The loop returns, and processRun prices its usage at its own model.       *)
Finish(r) ==
  /\ At(r, "thinking") /\ run[r].turns > 0
  /\ Put(r, [run[r] EXCEPT !.at = "completed",
                           !.cost = Cost(PriceOf(PlatformModel(setup.provider)), run[r].usage)])
  /\ UNCHANGED <<setup, row, bill, unheard, short, unsettled>>

Next ==
  \/ Deployed
  \/ \E r \in Runs : \/ Start(r) \/ Reserve(r) \/ TurnedDown(r) \/ Answer(r)
                     \/ AnswerLost(r) \/ CallFails(r) \/ Finish(r)

Spec == Init /\ [][Next]_vars

-----------------------------------------------------------------------------
(* Types; what is reserved is on the row.                                    *)
TypeOK ==
  /\ setup \in Setups \cup {None} /\ {row, bill, unheard, short, unsettled} \subseteq Nat
  /\ \A r \in Runs : /\ run[r].turns \in 0 .. MaxTurns /\ run[r].worst \in 0 .. row
                     /\ run[r].at = "calling" <=> run[r].worst > 0

(* A model that the LiteLLM hook prices otherwise than its owner. *)
Mispriced(s) ==
  s # None /\ s.wire = "openai" /\ \E w \in Wanted(s) : Ledger(s, w) # PriceOf(Served(s, w))

(* Whatever model a run was routed to, whichever process reserved for it and *)
(* however calls ended and overlapped, the tenant's row covers what its      *)
(* models cost, but for usage nobody reported, a reply that was lost, a      *)
(* settlement that did not land after a prompt was underestimated, and a     *)
(* model missing from the hook's table.                                      *)
RowCoversBill == ~Mispriced(setup) => bill <= row + unheard + unsettled

(* The row passes the cap by no more than prompts were underestimated.       *)
CapGivesWay == row <= Cap + short

(* The cost on a completed run's record is what the gate reckoned for its    *)
(* answers, if it ran on the model that its process prices it at.            *)
CostIsCharged ==
  \A r \in Runs :
    run[r].at = "completed" /\ Inner(setup, run[r].wanted) = PlatformModel(setup.provider) =>
      run[r].cost = run[r].charged

(* The row tells what was spent, the cap is given way only for prompts nobody *)
(* could count, and the record says what the gate reckoned.                   *)
MoneyIsTold == RowCoversBill /\ CapGivesWay /\ CostIsCharged
===============================================================================
