----------------------------- MODULE LoopDetector -----------------------------
(***************************************************************************)
(* The per-run inner bound of the claude-code runner: a run is stuck once  *)
(* it has made `threshold` consecutive identical tool calls.  A call is    *)
(* its signature, name and input together (toolSignature).                 *)
(***************************************************************************)
EXTENDS Integers, Sequences

(* A detector that has recorded nothing. *)
Fresh == [last |-> "none", count |-> 0]

(* Variant: the count is never taken back. *)
RecordedForever(detector, call) == [last |-> call, count |-> detector.count + 1]

(* record(): what one more call makes of the detector ... *)
Recorded(detector, call) ==
  [last  |-> call,
   count |-> IF call = detector.last THEN detector.count + 1 ELSE 1]

(* ... and whether it then answers with a reason to stop. *)
Tripped(detector, threshold) == detector.count >= threshold

(* The detector after each call of a message, and how many of them the      *)
(* runner records: it stops at the first one that trips.                    *)
After(detector, calls) ==
  LET after[i \in 0..Len(calls)] ==
        IF i = 0 THEN detector ELSE Recorded(after[i - 1], calls[i])
  IN  after

RecordedCalls(detector, calls, threshold) ==
  CHOOSE n \in 0..Len(calls) :
    /\ \A i \in 1..n - 1 : ~Tripped(After(detector, calls)[i], threshold)
    /\ n = Len(calls) \/ (n > 0 /\ Tripped(After(detector, calls)[n], threshold))

(* What tripping is meant to mean: the calls end in that many equal ones. *)
Spinning(calls, threshold) ==
  /\ Len(calls) >= threshold
  /\ \A i \in Len(calls) - threshold + 1 .. Len(calls) : calls[i] = calls[Len(calls)]
===============================================================================
