-------------------------- MODULE MessagesSpendProofs --------------------------
(***************************************************************************)
(* Theorems about the money of one /v1/messages request, for any estimate, *)
(* any max_tokens and any count of the prompt.                             *)
(***************************************************************************)
EXTENDS MessagesSpend, TLAPS

Reported == outputTokens # NoUsage

(* What the usage reported so far says of what was produced. *)
UsageInv ==
  /\ Reported => answering /\ inputTokens = input /\ outputTokens <= produced
  /\ finished => outputTokens = produced
  /\ inputTokens \in {0, input}
  /\ ~stream => ~finished /\ outputTokens = NoUsage
  /\ threw => at = "done" /\ settled /\ ~finished /\ ~Reported

(* What the ledger holds, place by place: nothing before the reservation,   *)
(* all of it until somebody settles, and then what that path knew.          *)
LedgerInv ==
  /\ at = "new" => charged = 0 /\ ~settled
  /\ at \in {"new", "invoke", "open"} => ~answering /\ produced = 0 /\ outputTokens = NoUsage
                                         /\ ~finished
  /\ at = "invoke" => ~stream
  /\ at \in {"open", "streaming", "close", "catch"} => stream
  /\ at \in {"invoke", "open", "streaming"} => ~settled /\ charged = Worst
  /\ at \in {"streaming", "close", "catch"} => answering
  /\ at = "close" => finished
  /\ ~settled => charged = Worst \/ (charged = 0 /\ ~answering)
  /\ settled => \/ charged = Worst
                \/ charged = 0 /\ threw
                \/ ~stream /\ answering /\ charged = input + produced
                \/ stream /\ Reported /\ charged = inputTokens + outputTokens
  /\ at = "catch" /\ settled => finished

MoneyInv == TypeOK /\ UsageInv /\ LedgerInv

LEMMA MoneyStart == Init => MoneyInv
<1> SUFFICES ASSUME Init PROVE MoneyInv
  OBVIOUS
<1>1. TypeOK
  <2>1. charged \in 0..(Worst + MaxInput)
    BY MessagesAssumption DEF Init, Worst
  <2>2. input \in 0..MaxInput /\ produced \in 0..MaxTokens /\ inputTokens \in 0..MaxInput
    BY MessagesAssumption DEF Init
  <2>3. answering \in BOOLEAN /\ finished \in BOOLEAN /\ settled \in BOOLEAN
        /\ cancelled \in BOOLEAN /\ stream \in BOOLEAN /\ threw \in BOOLEAN
    BY DEF Init
  <2> QED BY <2>1, <2>2, <2>3 DEF Init, TypeOK
<1>2. UsageInv /\ LedgerInv
  BY DEF Init, UsageInv, LedgerInv, Reported
<1> QED BY <1>1, <1>2 DEF MoneyInv

LEMMA MoneyStep == MoneyInv /\ [Next]_vars => MoneyInv'
<1> SUFFICES ASSUME MoneyInv, [Next]_vars PROVE MoneyInv'
  OBVIOUS
<1> USE MessagesAssumption
    DEF MoneyInv, TypeOK, UsageInv, LedgerInv, Worst, NoUsage, Reported, model, usage
<1>1. CASE UNCHANGED vars
  BY <1>1 DEF vars
<1>2. CASE Reserve
  BY <1>2 DEF Reserve
<1>3. CASE InvokeReturns
  BY <1>3 DEF InvokeReturns, SettleOnce
<1>4. CASE InvokeThrows
  <2>1. charged' \in {0, Worst} /\ settled' /\ threw' /\ at' = "done"
    BY <1>4 DEF InvokeThrows, SettleOnce
  <2>2. answering' \in BOOLEAN /\ produced' \in 0..MaxTokens
    BY <1>4 DEF InvokeThrows, Lost
  <2>3. ~Reported /\ ~finished /\ ~stream /\ Reported' = FALSE
    BY <1>4 DEF InvokeThrows
  <2>4. TypeOK'
    BY <1>4, <2>1, <2>2 DEF InvokeThrows
  <2>5. UsageInv' /\ LedgerInv'
    BY <1>4, <2>1, <2>3 DEF InvokeThrows
  <2> QED BY <2>4, <2>5
<1>5. CASE Opens
  BY <1>5 DEF Opens
<1>6. CASE OpenThrows
  <2>1. charged' \in {0, Worst} /\ settled' /\ threw' /\ at' = "done"
    BY <1>6 DEF OpenThrows, SettleOnce
  <2>2. answering' \in BOOLEAN /\ produced' \in 0..MaxTokens
    BY <1>6 DEF OpenThrows, Lost
  <2> QED BY <1>6, <2>1, <2>2 DEF OpenThrows
<1>7. CASE Produce
  BY <1>7 DEF Produce
<1>8. CASE MessageStart
  BY <1>8 DEF MessageStart, Forward
<1>9. CASE MessageDelta
  BY <1>9 DEF MessageDelta, Forward
<1>10. CASE StreamThrows
  BY <1>10 DEF StreamThrows
<1>11. CASE StreamEnds
  <2>1. outputTokens = produced /\ ~settled /\ charged = Worst
    BY <1>11 DEF StreamEnds
  <2>2. settled' /\ charged' \in {inputTokens + outputTokens, Worst}
    BY <1>11, <2>1 DEF StreamEnds, SettleToUsage, SettleOnce
  <2> QED BY <1>11, <2>1, <2>2 DEF StreamEnds
<1>12. CASE Close
  BY <1>12 DEF Close
<1>13. CASE Catch
  <2>1. CASE outputTokens = NoUsage \/ settled
    BY <1>13, <2>1 DEF Catch, SettleToUsage, SettleOnce
  <2>2. CASE outputTokens # NoUsage /\ ~settled
    <3>1. charged = Worst
      BY <1>13, <2>2 DEF Catch
    <3>2. settled' /\ charged' \in {inputTokens + outputTokens, Worst}
      BY <1>13, <2>2, <3>1 DEF Catch, SettleToUsage, SettleOnce
    <3> QED BY <1>13, <2>2, <3>2 DEF Catch
  <2> QED BY <2>1, <2>2
<1>14. CASE Cancel
  BY <1>14 DEF Cancel
<1> QED
  BY <1>1, <1>2, <1>3, <1>4, <1>5, <1>6, <1>7, <1>8, <1>9, <1>10, <1>11, <1>12, <1>13, <1>14
  DEF Next

LEMMA MoneyAlways == Spec => []MoneyInv
BY MoneyStart, MoneyStep, PTL DEF Spec

(* The handler's variables, the flag and the ledger keep their types: no    *)
(* path takes the ledger below zero or above what a request may cost.       *)
THEOREM MessagesTypes == Spec => []TypeOK
<1>1. MoneyInv => TypeOK
  BY DEF MoneyInv
<1> QED BY MoneyAlways, <1>1, PTL

(* messages.ts:10-16: over-charge, never a hole, but for the three named.   *)
THEOREM NeverAHoleHolds == Spec => []NeverAHole
<1>1. MoneyInv => NeverAHole
  BY MessagesAssumption
  DEF MoneyInv, TypeOK, UsageInv, LedgerInv, NeverAHole, FailedInvocation, FailedOpening,
      BrokeAfterReport,
      Billed, Worst, NoUsage, Reported
<1> QED BY MoneyAlways, <1>1, PTL

(* settleOnce: however the client and the stream's end race, a completed    *)
(* stream is settled once and to its bill.                                  *)
THEOREM CompletedIsExactHolds == Spec => []CompletedIsExact
<1>1. MoneyInv => CompletedIsExact
  BY MessagesAssumption
  DEF MoneyInv, TypeOK, UsageInv, LedgerInv, CompletedIsExact, Billed, Worst, NoUsage, Reported
<1> QED BY MoneyAlways, <1>1, PTL
===============================================================================
