------------------------------- MODULE MCClaims -------------------------------
(* Two objects: overlapping passes, overlapping refreshes, each lane. *)
EXTENDS Claims

CONSTANTS p1, p2, q1, q2

Set(lane, passes, readers, until, edit) ==
  [lane |-> lane, passes |-> passes, readers |-> readers, until |-> until, edits |-> edit]

MCSettings ==
  { Set("claims", {p1, p2}, {}, 0, 1), Set("claims", {p1}, {}, 1, 2),
    Set("claims", {p1}, {q1, q2}, 2, 0), Set("agents", {p1, p2}, {}, 0, 1),
    Set("table", {}, {}, 0, 2), Set("roles", {}, {q1, q2}, 2, 2) }
===============================================================================
