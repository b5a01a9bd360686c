----------------------------- MODULE MessagesSpend -----------------------------
(***************************************************************************)
(* The money of one POST /v1/messages request (handleMessages): the worst  *)
(* case is reserved, the model is invoked or streamed, and the reservation *)
(* is settled once, by whichever path gets there first.  The client may    *)
(* walk away from a stream, the stream may break, the settle may fail.     *)
(*                                                                         *)
(* One unit buys an input or an output token; the ledger is the part of    *)
(* the tenant's row that belongs to this request.                          *)
(***************************************************************************)
EXTENDS Integers

CONSTANTS
  Estimate,    \* estimateAnthropicInputTokens
  MaxTokens,   \* body.max_tokens
  MaxInput     \* bound on what the prompt really counts

NoUsage == -1

Worst == Estimate + MaxTokens

ASSUME MessagesAssumption ==
  Estimate \in Nat /\ MaxTokens \in Nat /\ MaxInput \in Nat

VARIABLES
  at,          \* where the handler is
  stream,      \* body.stream
  charged,     \* what the ledger holds for the request
  input,       \* what the prompt counts
  produced,    \* output tokens the model has produced, and bills
  answering,   \* the model has accepted the request and bills it
  finished,    \* the last message_delta was sent
  inputTokens, outputTokens,  \* the handler's variables, NoUsage: undefined
  settled,     \* settleOnce's flag
  cancelled,   \* the client walked away
  threw        \* for the properties only: the model's call, or its opening, threw

usage == <<inputTokens, outputTokens>>
model == <<input, produced, answering, finished>>
vars  == <<at, stream, charged, model, usage, settled, cancelled, threw>>

Billed == IF answering THEN input + produced ELSE 0

Init ==
  /\ at = "new"
  /\ stream \in BOOLEAN
  /\ charged = 0
  /\ input \in 0..MaxInput
  /\ produced = 0
  /\ answering = FALSE
  /\ finished = FALSE
  /\ inputTokens = 0
  /\ outputTokens = NoUsage
  /\ settled = FALSE
  /\ cancelled = FALSE
  /\ threw = FALSE

(* gate.reserve: the worst case is held, or nothing and the answer is 402. *)
Reserve ==
  /\ at = "new"
  /\ \/ at' = (IF stream THEN "open" ELSE "invoke") /\ charged' = Worst
     \/ at' = "done" /\ UNCHANGED charged
  /\ UNCHANGED <<stream, model, usage, settled, cancelled, threw>>

(* Variant: every path settles. *)
SettleAgain(cost) ==
  /\ settled' = TRUE
  /\ charged' \in {charged + cost - Worst, charged}

(* settleOnce: the first call settles, the others are no-ops; a settle that *)
(* throws is swallowed and leaves the reservation.                          *)
SettleOnce(cost) ==
  IF settled
    THEN UNCHANGED <<charged, settled>>
    ELSE /\ settled' = TRUE
         /\ charged' \in {charged + cost - Worst, charged}

(* Variant: an unreported usage counts as none. *)
SettleToSeen ==
  SettleOnce(inputTokens + (IF outputTokens = NoUsage THEN 0 ELSE outputTokens))

SettleToUsage ==
  IF outputTokens = NoUsage
    THEN UNCHANGED <<charged, settled>>
    ELSE SettleOnce(inputTokens + outputTokens)

(* Without streaming: the answer carries its usage. *)
InvokeReturns ==
  /\ at = "invoke"
  /\ answering' = TRUE
  /\ \E n \in 0..MaxTokens :
       produced' = n /\ SettleOnce(input + n)
  /\ at' = "done"
  /\ UNCHANGED <<stream, input, finished, usage, cancelled, threw>>

(* What throws may have failed on its way there, and the model never heard   *)
(* of it, or on its way back, and the model bills what it produces.          *)
Lost ==
  \/ UNCHANGED <<answering, produced>>
  \/ answering' = TRUE /\ produced' \in 0..MaxTokens

(* The call throws and is refunded in full. *)
InvokeThrows ==
  /\ at = "invoke"
  /\ Lost
  /\ SettleOnce(0)
  /\ at' = "done"
  /\ threw' = TRUE
  /\ UNCHANGED <<stream, input, finished, usage, cancelled>>

(* Opening the stream. *)
Opens ==
  /\ at = "open"
  /\ answering' = TRUE
  /\ at' = "streaming"
  /\ UNCHANGED <<stream, charged, input, produced, finished, usage, settled, cancelled, threw>>

(* ... throws: client.send() on its way, or an answer without a body.  Also   *)
(* refunded in full.                                                         *)
OpenThrows ==
  /\ at = "open"
  /\ Lost
  /\ SettleOnce(0)
  /\ at' = "done"
  /\ threw' = TRUE
  /\ UNCHANGED <<stream, input, finished, usage, cancelled>>

(* The model (external) produces output until it has sent its last usage;  *)
(* an abort reaches it late or early.                                      *)
Produce ==
  /\ at = "streaming"
  /\ ~finished
  /\ produced < MaxTokens
  /\ produced' = produced + 1
  /\ UNCHANGED <<at, stream, charged, input, answering, finished, usage, settled, cancelled, threw>>

(* An event is booked, then passed on; a stream the client has cancelled    *)
(* throws at that.                                                          *)
Forward == at' = IF cancelled THEN "catch" ELSE "streaming"

MessageStart ==
  /\ at = "streaming"
  /\ inputTokens = 0
  /\ inputTokens' = input
  /\ Forward
  /\ UNCHANGED <<stream, charged, model, outputTokens, settled, cancelled, threw>>

(* Usage is reported with the last message_delta, and maybe before. *)
MessageDelta ==
  /\ at = "streaming"
  /\ inputTokens = input
  /\ ~finished
  /\ finished' \in BOOLEAN
  /\ outputTokens' = produced
  /\ Forward
  /\ UNCHANGED <<stream, charged, input, produced, answering, inputTokens, settled, cancelled, threw>>

(* Events without usage (text) change nothing but may meet a cancelled      *)
(* stream; the iterator throws, by the abort or by a fault of its own.      *)
StreamThrows ==
  /\ at = "streaming"
  /\ at' = "catch"
  /\ UNCHANGED <<stream, charged, model, usage, settled, cancelled, threw>>

(* The events end: the money is settled before the stream is closed. *)
StreamEnds ==
  /\ at = "streaming"
  /\ finished
  /\ SettleToUsage
  /\ at' = "close"
  /\ UNCHANGED <<stream, model, usage, cancelled, threw>>

(* controller.close() throws on a cancelled stream. *)
Close ==
  /\ at = "close"
  /\ at' = IF cancelled THEN "catch" ELSE "done"
  /\ UNCHANGED <<stream, charged, model, usage, settled, cancelled, threw>>

(* The catch settles to what the stream reported, if anything. *)
Catch ==
  /\ at = "catch"
  /\ SettleToUsage
  /\ at' = "done"
  /\ UNCHANGED <<stream, model, usage, cancelled, threw>>

Cancel ==
  /\ at \in {"streaming", "close"}
  /\ ~cancelled
  /\ cancelled' = TRUE
  /\ UNCHANGED <<at, stream, charged, model, usage, settled, threw>>

Next ==
  \/ Reserve \/ InvokeReturns \/ InvokeThrows \/ Opens \/ OpenThrows
  \/ Produce \/ MessageStart \/ MessageDelta \/ StreamThrows \/ StreamEnds
  \/ Close \/ Catch \/ Cancel

Spec == Init /\ [][Next]_vars

-----------------------------------------------------------------------------
TypeOK ==
  /\ at \in {"new", "invoke", "open", "streaming", "close", "catch", "done"}
  /\ stream \in BOOLEAN
  /\ charged \in 0..(Worst + MaxInput)
  /\ input \in 0..MaxInput
  /\ produced \in 0..MaxTokens
  /\ answering \in BOOLEAN /\ finished \in BOOLEAN
  /\ inputTokens \in 0..MaxInput
  /\ outputTokens \in {NoUsage} \cup 0..MaxTokens
  /\ settled \in BOOLEAN /\ cancelled \in BOOLEAN /\ threw \in BOOLEAN

(***************************************************************************)
(* Over-charge, never a hole: wherever a request is and however it ends,   *)
(* the ledger keeps at least what the model bills for it, as far as the    *)
(* reservation goes.  The three holes left are named: an invocation and a  *)
(* stream's opening that threw after the model had taken the request, both *)
(* refunded as if "nothing reached the model bill", and a stream that      *)
(* broke off between a usage report and its end.                           *)
(***************************************************************************)
FailedInvocation == ~stream /\ threw
FailedOpening    == stream /\ threw
BrokeAfterReport == stream /\ settled /\ ~finished /\ outputTokens # NoUsage

NeverAHole ==
  \/ at = "new"
  \/ charged >= Billed \/ charged >= Worst
  \/ FailedInvocation \/ FailedOpening \/ BrokeAfterReport

(***************************************************************************)
(* A stream that ran to its end and whose settle went through is charged   *)
(* exactly what it is billed, even if the client left while it closed.     *)
(***************************************************************************)
CompletedIsExact ==
  (at \in {"catch", "done"} /\ finished /\ settled) => charged \in {Billed, Worst}
=============================================================================
