-------------------------- MODULE BudgetGateProofs --------------------------
(***************************************************************************)
(* Theorems about BudgetGate for every finite set of calls, every price,   *)
(* cap and calendar: the sums its invariants are about, type correctness,  *)
(* the session and tenant hard stops, that the books close, and that the   *)
(* gate implements HardStop.                                               *)
(***************************************************************************)
EXTENDS BudgetGate, FiniteSetTheorems, WellFoundedInduction, TLAPS

Amounts == [Calls -> 0..Most]

-----------------------------------------------------------------------------
(* Sums of amounts held by calls.                                          *)

(* The units held by finitely many calls can be counted. *)
LEMMA UnitsFinite ==
  ASSUME NEW f, NEW S \in SUBSET Calls
  PROVE  IsFiniteSet(UnitsOf(f, S)) /\ Total(f, S) \in Nat
<1>1. IsFiniteSet(S) /\ IsFiniteSet(1..Most)
  BY GateAssumption, FS_Subset, FS_Interval
<1>2. IsFiniteSet(S \X (1..Most))
  BY <1>1, FS_Product
<1>3. UnitsOf(f, S) \in SUBSET (S \X (1..Most))
  BY DEF UnitsOf
<1>4. QED
  BY <1>2, <1>3, FS_Subset, FS_CardinalityType DEF Total

(* A sum only grows with the amounts. *)
LEMMA TotalMonotone ==
  ASSUME NEW f \in [Calls -> Int], NEW g \in [Calls -> Int], NEW S \in SUBSET Calls,
         \A c \in S : f[c] <= g[c]
  PROVE  Total(f, S) <= Total(g, S)
<1>1. UnitsOf(f, S) \in SUBSET UnitsOf(g, S)
  <2> SUFFICES ASSUME NEW u \in UnitsOf(f, S) PROVE u \in UnitsOf(g, S)
    OBVIOUS
  <2>1. u \in S \X (1..Most) /\ u[2] <= f[u[1]]
    BY DEF UnitsOf
  <2>2. u[1] \in S /\ u[1] \in Calls /\ u[2] \in Int
    BY <2>1, GateAssumption
  <2>3. u[2] <= g[u[1]]
    BY <2>1, <2>2
  <2>4. QED
    BY <2>1, <2>3 DEF UnitsOf
<1>2. QED
  BY <1>1, UnitsFinite, FS_Subset DEF Total

(* Sums over different sets of calls agree when only calls that hold        *)
(* nothing are in one and not in the other.                                *)
LEMMA TotalSame ==
  ASSUME NEW f \in Amounts, NEW g \in Amounts,
         NEW S \in SUBSET Calls, NEW T \in SUBSET Calls,
         \A c \in Calls : (IF c \in S THEN f[c] ELSE 0) = (IF c \in T THEN g[c] ELSE 0)
  PROVE  Total(f, S) = Total(g, T)
<1>1. ASSUME NEW u \in Calls \X (1..Most)
      PROVE  (u[1] \in S /\ u[2] <= f[u[1]]) <=> (u[1] \in T /\ u[2] <= g[u[1]])
  <2>1. u[1] \in Calls /\ u[2] \in Int /\ u[2] >= 1
    BY <1>1, GateAssumption
  <2>2. f[u[1]] \in Int /\ g[u[1]] \in Int
    BY <2>1, GateAssumption DEF Amounts
  <2>3. (IF u[1] \in S THEN f[u[1]] ELSE 0) = (IF u[1] \in T THEN g[u[1]] ELSE 0)
    BY <2>1
  <2>4. QED
    BY <2>1, <2>2, <2>3
<1>2. UnitsOf(f, S) = UnitsOf(g, T)
  BY <1>1 DEF UnitsOf
<1>3. QED
  BY <1>2 DEF Total

(* The units one call holds. *)
LEMMA OneCall ==
  ASSUME NEW c \in Calls, NEW n \in 0..Most
  PROVE  IsFiniteSet({c} \X (1..n)) /\ Cardinality({c} \X (1..n)) = n
<1>1. IsFiniteSet({c}) /\ Cardinality({c}) = 1
  BY FS_Singleton
<1>2. n \in Int /\ n >= 0
  BY GateAssumption
<1>3. IsFiniteSet(1..n) /\ Cardinality(1..n) = n
  BY <1>2, FS_Interval
<1>4. /\ IsFiniteSet({c} \X (1..n))
      /\ Cardinality({c} \X (1..n)) = Cardinality({c}) * Cardinality(1..n)
  BY <1>1, <1>3, FS_Product
<1>5. QED
  BY <1>1, <1>2, <1>3, <1>4

(* A sum splits into one call's amount and the rest. *)
LEMMA TotalSplit ==
  ASSUME NEW f \in Amounts, NEW S \in SUBSET Calls, NEW c \in S
  PROVE  Total(f, S) = Total(f, S \ {c}) + f[c]
<1> DEFINE One == {c} \X (1..f[c])
           Rest == UnitsOf(f, S \ {c})
<1>1. f[c] \in 0..Most /\ Most \in Nat
  BY GateAssumption DEF Amounts
<1>2. UnitsOf(f, S) = Rest \cup One
  <2>1. ASSUME NEW u PROVE u \in UnitsOf(f, S) <=> u \in Rest \cup One
    <3>1. CASE u \in UnitsOf(f, S)
      BY <3>1, <1>1 DEF UnitsOf
    <3>2. CASE u \in Rest
      BY <3>2 DEF UnitsOf
    <3>3. CASE u \in One
      BY <3>3, <1>1 DEF UnitsOf
    <3>4. QED
      BY <3>1, <3>2, <3>3
  <2>2. QED
    BY <2>1
<1>3. Rest \cap One = {}
  BY DEF UnitsOf
<1>4. IsFiniteSet(Rest) /\ Cardinality(Rest) \in Nat
  BY UnitsFinite DEF Total
<1>5. IsFiniteSet(One) /\ Cardinality(One) = f[c]
  BY <1>1, OneCall
<1>6. Cardinality(Rest \cup One) = Cardinality(Rest) + Cardinality(One) - Cardinality(Rest \cap One)
  BY <1>4, <1>5, FS_Union
<1>7. Cardinality(Rest \cap One) = 0
  BY <1>3, FS_EmptySet
<1>8. QED
  BY <1>1, <1>2, <1>4, <1>5, <1>6, <1>7 DEF Total

(* Changing what one call holds changes the sums it is in by as much. *)
LEMMA TotalSet ==
  ASSUME NEW f \in Amounts, NEW S \in SUBSET Calls, NEW c \in Calls, NEW v \in 0..Most
  PROVE  /\ [f EXCEPT ![c] = v] \in Amounts
         /\ Total([f EXCEPT ![c] = v], S)
              = Total(f, S) + (IF c \in S THEN v - f[c] ELSE 0)
<1> DEFINE g == [f EXCEPT ![c] = v]
<1>1. g \in Amounts /\ g[c] = v /\ \A d \in Calls \ {c} : g[d] = f[d]
  BY DEF Amounts
<1> HIDE DEF g
<1>2. Total(g, S \ {c}) = Total(f, S \ {c})
  <2>1. \A d \in Calls : (IF d \in S \ {c} THEN g[d] ELSE 0) = (IF d \in S \ {c} THEN f[d] ELSE 0)
    BY <1>1
  <2>2. S \ {c} \in SUBSET Calls
    OBVIOUS
  <2>3. QED
    BY <1>1, <2>1, <2>2, TotalSame
<1>3. Total(g, S) = Total(f, S) + (IF c \in S THEN v - f[c] ELSE 0)
  <2>1. CASE c \in S
    <3>1. Total(g, S) = Total(g, S \ {c}) + v
      BY <1>1, <2>1, TotalSplit
    <3>2. Total(f, S) = Total(f, S \ {c}) + f[c]
      BY <2>1, TotalSplit
    <3>3. Total(f, S \ {c}) \in Int /\ f[c] \in Int /\ v \in Int
      BY UnitsFinite, GateAssumption DEF Amounts
    <3>4. QED
      BY <1>2, <2>1, <3>1, <3>2, <3>3
  <2>2. CASE c \notin S
    <3>1. S \ {c} = S
      BY <2>2
    <3>2. Total(f, S) \in Int
      BY UnitsFinite
    <3>3. Total(g, S) = Total(f, S)
      BY <1>2, <3>1, Zenon
    <3>4. QED
      BY <2>2, <3>2, <3>3
  <2>3. QED
    BY <2>1, <2>2
<1>4. QED
  BY <1>1, <1>3 DEF g

(* Calls that hold nothing hold nothing together. *)
LEMMA TotalZero ==
  ASSUME NEW f, NEW S \in SUBSET Calls, \A c \in S : f[c] = 0
  PROVE  Total(f, S) = 0
<1>1. UnitsOf(f, S) = {}
  BY DEF UnitsOf
<1>2. QED
  BY <1>1, FS_EmptySet DEF Total

-----------------------------------------------------------------------------
(* Type correctness. *)

LEMMA Rows ==
  ASSUME NEW c \in Calls, NEW m \in Months
  PROVE  /\ MonthRow(c, m) \in MonthRows
         /\ SessionOn(c) => SessionRow(c) \in SessionRows
         /\ Worst[c] \in 0..Most /\ Worst[c] \in Int
BY GateAssumption DEF MonthRow, MonthRows, SessionRow, SessionRows, SessionOn

(* Adding to a row of a table of amounts leaves a table of amounts. *)
LEMMA AddToType ==
  ASSUME NEW R, NEW rows \in [R -> Int], NEW r, NEW d \in Int
  PROVE  /\ AddTo(rows, r, d) \in [R -> Int]
         /\ r \in R => AddTo(rows, r, d)[r] = rows[r] + d
         /\ \A q \in R \ {r} : AddTo(rows, r, d)[q] = rows[q]
<1>1. \A q \in R : rows[q] \in Int
  OBVIOUS
<1>2. AddTo(rows, r, d) = [q \in R |-> IF q = r THEN rows[r] + d ELSE rows[q]]
  BY DEF AddTo
<1>3. \A q \in R : (IF q = r THEN rows[r] + d ELSE rows[q]) \in Int
  BY <1>1
<1>4. QED
  BY <1>2, <1>3

LEMMA TypeInit == Init => TypeOK
<1> SUFFICES ASSUME Init PROVE TypeOK
  OBVIOUS
<1>1. 0 \in 0..Most /\ 1 \in Months /\ 0 \in Nat
  BY GateAssumption DEF Months
<1>2. QED
  BY <1>1 DEF Init, TypeOK, Places

LEMMA TypeStep == TypeOK /\ [Next]_vars => TypeOK'
<1> SUFFICES ASSUME TypeOK, [Next]_vars PROVE TypeOK'
  OBVIOUS
<1> USE DEF Places, AtStore, Unsent, Ended, Goto
<1>1. ASSUME NEW c \in Calls, Start(c) PROVE TypeOK'
  BY <1>1 DEF TypeOK, Start, ledger, history
<1>2. ASSUME NEW c \in Calls, ReadLimit(c) PROVE TypeOK'
  <2>1. cap[TenantOf[c]] \in Nat
    BY GateAssumption DEF TypeOK
  <2>2. limit' \in [Calls -> Nat] /\ pc' \in [Calls -> Places]
    BY <1>2, <2>1 DEF TypeOK, ReadLimit
  <2>3. QED
    BY <1>2, <2>2 DEF TypeOK, ReadLimit, ledger, history
<1>3. ASSUME NEW c \in Calls, HoldTenant(c)
      PROVE  /\ spent' \in [MonthRows -> Int]
             /\ held' \in [Calls -> 0..Most]
  <2>1. Worst[c] \in 0..Most /\ Worst[c] \in Int
    BY GateAssumption
  <2>2. QED
    BY <1>3, <2>1, AddToType DEF TypeOK, HoldTenant
<1>4. ASSUME NEW c \in Calls, HoldSession(c)
      PROVE  /\ sessionSpent' \in [SessionRows -> Int]
             /\ sessionHeld' \in [Calls -> 0..Most]
  <2>1. Worst[c] \in 0..Most /\ Worst[c] \in Int
    BY GateAssumption
  <2>2. QED
    BY <1>4, <2>1, AddToType DEF TypeOK, HoldSession
<1>5. ASSUME NEW c \in Calls, ReleaseTenant(c)
      PROVE  /\ spent' \in [MonthRows -> Int]
             /\ held' \in [Calls -> 0..Most]
  <2>1. -Worst[c] \in Int /\ 0 \in 0..Most
    BY GateAssumption
  <2>2. QED
    BY <1>5, <2>1, AddToType DEF TypeOK, ReleaseTenant
<1>6. ASSUME NEW c \in Calls, SettleTenantRow(c)
      PROVE  /\ spent' \in [MonthRows -> Int]
             /\ held' \in [Calls -> 0..Most]
             /\ strayed' \in [Calls -> 0..Most]
  <2>1. Worst[c] \in 0..Most /\ actual[c] \in 0..Most /\ Most \in Nat
    BY GateAssumption DEF TypeOK
  <2>2. (IF actual[c] < Worst[c] THEN Worst[c] - actual[c] ELSE 0) \in 0..Most
    BY <2>1
  <2>3. actual[c] - Worst[c] \in Int
    BY <2>1
  <2>4. spent' \in [MonthRows -> Int]
    BY <1>6, <2>3, AddToType DEF TypeOK, SettleTenantRow
  <2>5. CASE settlePeriod[c] = period[c]
    BY <1>6, <2>1, <2>4, <2>5 DEF TypeOK, SettleTenantRow
  <2>6. CASE settlePeriod[c] # period[c]
    BY <1>6, <2>2, <2>4, <2>6 DEF TypeOK, SettleTenantRow
  <2>7. QED
    BY <2>5, <2>6
<1>7. ASSUME NEW c \in Calls, SettleSessionRow(c)
      PROVE  /\ sessionSpent' \in [SessionRows -> Int]
             /\ sessionHeld' \in [Calls -> 0..Most]
  <2>1. actual[c] - Worst[c] \in Int /\ actual[c] \in 0..Most
    BY GateAssumption DEF TypeOK
  <2>2. QED
    BY <1>7, <2>1, AddToType DEF TypeOK, SettleSessionRow
<1>8. ASSUME NEW c \in Calls, ReserveTenant(c) PROVE TypeOK'
  <2>1. pc' \in [Calls -> Places]
    BY <1>8 DEF TypeOK, ReserveTenant
  <2>2. CASE HoldTenant(c)
    BY <1>8, <1>3, <2>1, <2>2 DEF TypeOK, ReserveTenant, HoldTenant
  <2>3. CASE UNCHANGED <<ledger, held, sessionHeld, strayed>>
    BY <1>8, <2>1, <2>3 DEF TypeOK, ReserveTenant, ledger
  <2>4. QED
    BY <1>8, <2>2, <2>3 DEF ReserveTenant
<1>9. ASSUME NEW c \in Calls, ReserveSession(c) PROVE TypeOK'
  <2>1. pc' \in [Calls -> Places]
    BY <1>9 DEF TypeOK, ReserveSession
  <2>2. CASE HoldSession(c)
    BY <1>9, <1>4, <2>1, <2>2 DEF TypeOK, ReserveSession, HoldSession
  <2>3. CASE UNCHANGED <<ledger, held, sessionHeld, strayed>>
    BY <1>9, <2>1, <2>3 DEF TypeOK, ReserveSession, ledger
  <2>4. QED
    BY <1>9, <2>2, <2>3 DEF ReserveSession
<1>10. ASSUME NEW c \in Calls, RefundTenant(c) PROVE TypeOK'
  BY <1>10, <1>5 DEF TypeOK, RefundTenant, ReleaseTenant
<1>11. ASSUME NEW c \in Calls, Answer(c) PROVE TypeOK'
  BY <1>11, GateAssumption DEF TypeOK, Answer, ledger, history
<1>12. ASSUME NEW c \in Calls, SettleTenant(c) PROVE TypeOK'
  <2>1. pc' \in [Calls -> Places]
    BY <1>12 DEF TypeOK, SettleTenant
  <2>2. SettleTenantRow(c) /\ UNCHANGED <<sessionSpent, sessionHeld>>
    BY <1>12 DEF SettleTenant, SettleTenantRow
  <2>3. QED
    BY <1>12, <1>6, <2>1, <2>2 DEF TypeOK, SettleTenant
<1>13. ASSUME NEW c \in Calls, SettleSession(c) PROVE TypeOK'
  BY <1>13, <1>7 DEF TypeOK, SettleSession, SettleSessionRow
<1>14. ASSUME NEW c \in Calls, Break(c) PROVE TypeOK'
  <2>1. BrokenPlace(pc[c]) \in Places
    BY DEF BrokenPlace
  <2>2. pc' \in [Calls -> Places]
    BY <1>14, <2>1 DEF TypeOK, Break
  <2>3. /\ spent' \in [MonthRows -> Int] /\ sessionSpent' \in [SessionRows -> Int]
        /\ held' \in [Calls -> 0..Most] /\ sessionHeld' \in [Calls -> 0..Most]
        /\ strayed' \in [Calls -> 0..Most]
    <3>1. CASE HoldTenant(c)
      BY <1>3, <3>1 DEF TypeOK, HoldTenant
    <3>2. CASE HoldSession(c)
      BY <1>4, <3>2 DEF TypeOK, HoldSession
    <3>3. CASE ReleaseTenant(c)
      BY <1>5, <3>3 DEF TypeOK, ReleaseTenant
    <3>4. CASE SettleTenantRow(c)
      <4>1. UNCHANGED <<sessionSpent, sessionHeld>>
        BY <3>4 DEF SettleTenantRow
      <4>2. QED
        BY <1>6, <3>4, <4>1 DEF TypeOK
    <3>5. CASE SettleSessionRow(c)
      BY <1>7, <3>5 DEF TypeOK, SettleSessionRow
    <3>6. CASE UNCHANGED <<ledger, held, sessionHeld, strayed>>
      BY <3>6 DEF TypeOK, ledger
    <3>7. QED
      BY <1>14, <3>1, <3>2, <3>3, <3>4, <3>5, <3>6 DEF Break, WriteLands
  <2>4. QED
    BY <1>14, <2>2, <2>3 DEF TypeOK, Break
<1>15. ASSUME NEW t \in Tenants, SetCap(t) PROVE TypeOK'
  BY <1>15 DEF TypeOK, SetCap, ledger, gateVars
<1>16. CASE NextMonth
  <2>1. month' \in Months
    BY <1>16, GateAssumption DEF TypeOK, NextMonth, Months
  <2>2. QED
    BY <1>16, <2>1 DEF TypeOK, NextMonth, ledger, gateVars, history
<1>17. CASE UNCHANGED vars
  BY <1>17 DEF TypeOK, vars, ledger, gateVars, history
<1>18. QED
  BY <1>1, <1>2, <1>8, <1>9, <1>10, <1>11, <1>12, <1>13, <1>14, <1>15, <1>16, <1>17
  DEF Next, Generate

(* Every reachable state is well typed: in particular every row holds a    *)
(* whole amount and every call is at one of its places.                    *)
THEOREM TypeCorrect == Spec => []TypeOK
<1>1. QED
  BY TypeInit, TypeStep, PTL DEF Spec

-----------------------------------------------------------------------------
(* The session hard stop. *)

LEMMA ReservedTypes ==
  ASSUME TypeOK
  PROVE  /\ held \in Amounts /\ sessionHeld \in Amounts /\ strayed \in Amounts
         /\ TenantReserved \in Amounts /\ SessionReserved \in Amounts
         /\ Committed \in Amounts
<1>1. \A c \in Calls : /\ Worst[c] \in 0..Most /\ actual[c] \in 0..Most
                       /\ held[c] \in 0..Most /\ sessionHeld[c] \in 0..Most
  BY GateAssumption DEF TypeOK
<1>2. Most \in Nat /\ 0 \in 0..Most
  BY GateAssumption
<1>3. \A a, b \in 0..Most : Lesser(a, b) \in 0..Most
  BY <1>2 DEF Lesser
<1>4. QED
  BY <1>1, <1>2, <1>3 DEF Amounts, TypeOK, TenantReserved, SessionReserved, Committed

LEMMA InSessionSubset == \A r : InSession(r) \in SUBSET Calls
BY DEF InSession

(* A call sits in the sums of its own session row and no other. *)
LEMMA InSessionMember ==
  ASSUME NEW c \in Calls, SessionOn(c), NEW r
  PROVE  c \in InSession(r) <=> r = SessionRow(c)
BY DEF InSession

LEMMA SessionInit == Init => SessionInv
<1> SUFFICES ASSUME Init PROVE SessionInv
  OBVIOUS
<1>1. TypeOK
  BY TypeInit
<1>2. \A c \in Calls : pc[c] = "new" /\ sessionHeld[c] = 0 /\ SessionReserved[c] = 0
  <2>1. \A c \in Calls : Worst[c] \in Nat
    BY GateAssumption
  <2>2. QED
    BY <2>1 DEF Init, SessionReserved, Lesser
<1>3. \A c \in Calls : SessionHoldOf(c)
  BY <1>2 DEF SessionHoldOf
<1>4. \A r : Total(sessionHeld, InSession(r)) = 0 /\ Total(SessionReserved, InSession(r)) = 0
  BY <1>2, TotalZero, InSessionSubset
<1>5. SessionBooks
  BY <1>4 DEF Init, SessionBooks
<1>6. QED
  BY <1>1, <1>3, <1>4, <1>5, GateAssumption DEF SessionInv

(* The clauses of SessionInv about the rows, which only two writes touch. *)
SessionSums ==
  /\ SessionBooks
  /\ \A r \in SessionRows : Total(SessionReserved, InSession(r)) <= SessionCap

(* A reservation that fits keeps the session's row within the cap. *)
LEMMA HoldSessionSums ==
  ASSUME SessionInv, TypeOK', NEW c \in Calls,
         SessionHoldOf(c), pc[c] = "session", SessionFits(c), HoldSession(c)
  PROVE  SessionSums'
<1> DEFINE R == SessionReserved
<1>1. SessionOn(c) /\ sessionHeld[c] = 0 /\ Worst[c] \in 0..Most /\ Most \in Nat
  BY GateAssumption DEF SessionHoldOf, Unsent
<1>2. R[c] = 0 /\ R' = [R EXCEPT ![c] = Worst[c]]
  <2>1. R[c] = 0
    BY <1>1 DEF SessionReserved, Lesser
  <2>2. \A d \in Calls : sessionHeld'[d] = IF d = c THEN Worst[c] ELSE sessionHeld[d]
    BY DEF SessionInv, TypeOK, HoldSession
  <2>3. R' = [d \in Calls |-> IF d = c THEN Worst[c] ELSE R[d]]
    BY <1>1, <2>2 DEF SessionReserved, Lesser
  <2>4. QED
    BY <2>1, <2>3 DEF SessionReserved
<1>3. R \in Amounts /\ sessionHeld \in Amounts
  BY ReservedTypes DEF SessionInv
<1>4. ASSUME NEW r \in SessionRows
      PROVE  /\ sessionSpent'[r] = Total(sessionHeld', InSession(r))
             /\ Total(R', InSession(r)) <= SessionCap
  <2>1. /\ Total(sessionHeld', InSession(r)) = Total(sessionHeld, InSession(r))
             + (IF c \in InSession(r) THEN Worst[c] - 0 ELSE 0)
        /\ Total(R', InSession(r)) = Total(R, InSession(r))
             + (IF c \in InSession(r) THEN Worst[c] - 0 ELSE 0)
    <3> HIDE DEF R
    <3>1. sessionHeld' = [sessionHeld EXCEPT ![c] = Worst[c]]
      BY DEF HoldSession
    <3>2. InSession(r) \in SUBSET Calls
      BY InSessionSubset
    <3>3. Total([sessionHeld EXCEPT ![c] = Worst[c]], InSession(r)) = Total(sessionHeld, InSession(r))
            + (IF c \in InSession(r) THEN Worst[c] - sessionHeld[c] ELSE 0)
      BY <1>1, <1>3, <3>2, TotalSet
    <3>4. Total([R EXCEPT ![c] = Worst[c]], InSession(r)) = Total(R, InSession(r))
            + (IF c \in InSession(r) THEN Worst[c] - R[c] ELSE 0)
      BY <1>1, <1>3, <3>2, TotalSet
    <3>5. QED
      BY <1>1, <1>2, <3>1, <3>3, <3>4
  <2>2. /\ sessionSpent \in [SessionRows -> Int]
        /\ sessionSpent[r] = Total(sessionHeld, InSession(r))
        /\ Total(R, InSession(r)) <= SessionCap
    BY DEF SessionInv, SessionBooks, TypeOK
  <2>3. /\ Total(R, InSession(r)) \in Nat /\ Total(sessionHeld, InSession(r)) \in Nat
        /\ SessionCap \in Nat /\ Worst[c] \in Nat
    BY UnitsFinite, InSessionSubset, GateAssumption
  <2>4. CASE r = SessionRow(c)
    <3>1. c \in InSession(r)
      BY <1>1, <2>4, InSessionMember
    <3>2. sessionSpent'[r] = sessionSpent[r] + Worst[c]
      BY <2>2, <2>3, <2>4, AddToType DEF HoldSession
    <3>3. sessionSpent[r] + Worst[c] <= SessionCap
      BY <2>4 DEF SessionFits, Fits
    <3>4. Total(R, InSession(r)) <= Total(sessionHeld, InSession(r))
      <4>1. \A d \in Calls : R[d] <= sessionHeld[d]
        BY GateAssumption DEF SessionInv, TypeOK, SessionReserved, Lesser
      <4>2. R \in [Calls -> Int] /\ sessionHeld \in [Calls -> Int]
        BY <1>3, GateAssumption DEF Amounts
      <4> HIDE DEF R
      <4>3. QED
        BY <4>1, <4>2, TotalMonotone, InSessionSubset
    <3> HIDE DEF R
    <3>5. QED
      BY <2>1, <2>2, <2>3, <3>1, <3>2, <3>3, <3>4
  <2>5. CASE r # SessionRow(c)
    <3>1. c \notin InSession(r)
      BY <1>1, <2>5, InSessionMember
    <3>2. sessionSpent'[r] = sessionSpent[r]
      BY <2>2, <2>3, <2>5, AddToType DEF HoldSession
    <3> HIDE DEF R
    <3>3. QED
      BY <2>1, <2>2, <2>3, <3>1, <3>2
  <2>6. QED
    BY <2>4, <2>5
<1>5. QED
  BY <1>4 DEF SessionSums, SessionBooks, InSession

(* Settling moves the session's row by as much as what the call holds. *)
LEMMA SettleSessionSums ==
  ASSUME SessionInv, TypeOK', NEW c \in Calls,
         pc[c] = "settleSession", SettleSessionRow(c), UNCHANGED actual
  PROVE  SessionSums'
<1> DEFINE R == SessionReserved
           paid == Lesser(actual[c], Worst[c])
<1>1. /\ SessionOn(c) /\ sessionHeld[c] = Worst[c] /\ R[c] = Worst[c]
      /\ Worst[c] \in 0..Most /\ actual[c] \in 0..Most /\ paid \in 0..Most
      /\ paid <= Worst[c] /\ Most \in Nat
  BY GateAssumption DEF SessionInv, SessionHoldOf, TypeOK, SessionReserved, Lesser
<1>2. R' = [R EXCEPT ![c] = paid]
  <2>1. \A d \in Calls : sessionHeld'[d] = IF d = c THEN actual[c] ELSE sessionHeld[d]
    BY DEF SessionInv, TypeOK, SettleSessionRow
  <2>2. R' = [d \in Calls |-> IF d = c THEN paid ELSE R[d]]
    BY <1>1, <2>1 DEF SessionReserved, Lesser
  <2>3. QED
    BY <2>2 DEF SessionReserved
<1>3. R \in Amounts /\ sessionHeld \in Amounts
  BY ReservedTypes DEF SessionInv
<1> HIDE DEF R, paid
<1>4. ASSUME NEW r \in SessionRows
      PROVE  /\ sessionSpent'[r] = Total(sessionHeld', InSession(r))
             /\ Total(R', InSession(r)) <= SessionCap
  <2>1. InSession(r) \in SUBSET Calls
    BY InSessionSubset
  <2>2. Total([sessionHeld EXCEPT ![c] = actual[c]], InSession(r)) = Total(sessionHeld, InSession(r))
          + (IF c \in InSession(r) THEN actual[c] - sessionHeld[c] ELSE 0)
    BY <1>1, <1>3, <2>1, TotalSet
  <2>3. Total([R EXCEPT ![c] = paid], InSession(r)) = Total(R, InSession(r))
          + (IF c \in InSession(r) THEN paid - R[c] ELSE 0)
    BY <1>1, <1>3, <2>1, TotalSet
  <2>4. sessionHeld' = [sessionHeld EXCEPT ![c] = actual[c]]
    BY DEF SettleSessionRow
  <2>5. /\ sessionSpent \in [SessionRows -> Int]
        /\ sessionSpent[r] = Total(sessionHeld, InSession(r))
        /\ Total(R, InSession(r)) <= SessionCap
    BY DEF SessionInv, SessionBooks, TypeOK, R
  <2>6. /\ Total(R, InSession(r)) \in Nat /\ Total(sessionHeld, InSession(r)) \in Nat
        /\ SessionCap \in Nat /\ Worst[c] \in Nat /\ actual[c] \in Nat /\ paid \in Nat
        /\ actual[c] - Worst[c] \in Int
    BY <1>1, <2>1, UnitsFinite, GateAssumption
  <2>7. CASE r = SessionRow(c)
    <3>1. c \in InSession(r)
      BY <1>1, <2>7, InSessionMember
    <3>2. sessionSpent'[r] = sessionSpent[r] + (actual[c] - Worst[c])
      BY <2>5, <2>6, <2>7, AddToType DEF SettleSessionRow
    <3>3. QED
      BY <1>1, <1>2, <2>2, <2>3, <2>4, <2>5, <2>6, <3>1, <3>2
  <2>8. CASE r # SessionRow(c)
    <3>1. c \notin InSession(r)
      BY <1>1, <2>8, InSessionMember
    <3>2. sessionSpent'[r] = sessionSpent[r]
      BY <2>5, <2>6, <2>8, AddToType DEF SettleSessionRow
    <3>3. QED
      BY <1>2, <2>2, <2>3, <2>4, <2>5, <2>6, <3>1, <3>2
  <2>9. QED
    BY <2>7, <2>8
<1>5. QED
  BY <1>4 DEF SessionSums, SessionBooks, R, InSession

(* No other write touches a session row. *)
LEMMA SameSessionSums ==
  ASSUME SessionInv, UNCHANGED <<sessionSpent, sessionHeld>>
  PROVE  SessionSums'
<1>1. SessionReserved' = SessionReserved
  BY DEF SessionReserved
<1>2. QED
  BY <1>1 DEF SessionInv, SessionSums, SessionBooks

LEMMA SessionStep == SessionInv /\ [Next]_vars => SessionInv'
<1> SUFFICES ASSUME SessionInv, [Next]_vars PROVE SessionInv'
  OBVIOUS
<1>1. TypeOK /\ TypeOK'
  BY TypeStep DEF SessionInv
<1> DEFINE Holds == \A d \in Calls : SessionHoldOf(d)
<1> SUFFICES Holds' /\ SessionSums'
  BY <1>1 DEF SessionInv, SessionSums
<1>2. Holds
  BY DEF SessionInv
<1>3. \A d \in Calls : pc[d] \in Places /\ Worst[d] \in Int
  BY <1>1, GateAssumption DEF TypeOK
<1> USE DEF SessionHoldOf, Unsent, Goto
<1>4. ASSUME NEW c \in Calls, Start(c) PROVE Holds' /\ SessionSums'
  BY <1>1, <1>2, <1>4, SameSessionSums DEF Start, ledger, history, TypeOK
<1>5. ASSUME NEW c \in Calls, ReadLimit(c) PROVE Holds' /\ SessionSums'
  BY <1>1, <1>2, <1>5, SameSessionSums DEF ReadLimit, ledger, history, TypeOK
<1>6. ASSUME NEW c \in Calls, ReserveTenant(c) PROVE Holds' /\ SessionSums'
  <2>1. UNCHANGED <<sessionSpent, sessionHeld>>
    BY <1>6 DEF ReserveTenant, HoldTenant, ledger
  <2>2. /\ \A d \in Calls : d # c => actual'[d] = actual[d] /\ pc'[d] = pc[d]
        /\ pc[c] = "reserve"
        /\ \/ pc'[c] = "session" /\ SessionOn(c)
           \/ pc'[c] = "sent" /\ ~SessionOn(c)
           \/ pc'[c] = "refused"
    BY <1>1, <1>6 DEF ReserveTenant, TypeOK, SessionOn
  <2>3. Holds'
    BY <1>2, <2>1, <2>2
  <2>4. QED
    BY <2>1, <2>3, SameSessionSums
<1>7. ASSUME NEW c \in Calls, ReserveSession(c) PROVE Holds' /\ SessionSums'
  <2>1. CASE SessionFits(c) /\ HoldSession(c) /\ Goto(c, "sent")
    <3>1. SessionSums'
      BY <1>1, <1>2, <1>7, <2>1, HoldSessionSums DEF ReserveSession
    <3>2. Holds'
      BY <1>1, <1>2, <1>7, <2>1 DEF ReserveSession, HoldSession, TypeOK
    <3>3. QED
      BY <3>1, <3>2
  <2>2. CASE Goto(c, "refund") /\ UNCHANGED <<ledger, held, sessionHeld, strayed>>
    BY <1>1, <1>2, <1>7, <2>2, SameSessionSums DEF ReserveSession, TypeOK, ledger
  <2>3. QED
    BY <1>7, <2>1, <2>2 DEF ReserveSession
<1>8. ASSUME NEW c \in Calls, RefundTenant(c) PROVE Holds' /\ SessionSums'
  BY <1>1, <1>2, <1>8, SameSessionSums DEF RefundTenant, ReleaseTenant, TypeOK
<1>9. ASSUME NEW c \in Calls, Answer(c) PROVE Holds' /\ SessionSums'
  <2>1. UNCHANGED <<sessionSpent, sessionHeld>>
    BY <1>9 DEF Answer, ledger, history
  <2>2. \A d \in Calls : d # c => actual'[d] = actual[d] /\ pc'[d] = pc[d]
    BY <1>1, <1>9 DEF Answer, TypeOK
  <2>3. pc[c] = "sent" /\ pc'[c] = "settle"
    BY <1>1, <1>9 DEF Answer, TypeOK
  <2>4. Holds'
    BY <1>2, <2>1, <2>2, <2>3
  <2>5. QED
    BY <2>1, <2>4, SameSessionSums
<1>10. ASSUME NEW c \in Calls, SettleTenant(c) PROVE Holds' /\ SessionSums'
  <2>1. UNCHANGED <<sessionSpent, sessionHeld>>
    BY <1>10 DEF SettleTenant, SettleTenantRow
  <2>2. \A d \in Calls : d # c => actual'[d] = actual[d] /\ pc'[d] = pc[d]
    BY <1>1, <1>10 DEF SettleTenant, TypeOK
  <2>3. /\ pc[c] = "settle"
        /\ \/ pc'[c] = "settleSession" /\ SessionOn(c)
           \/ pc'[c] = "done" /\ ~SessionOn(c)
    BY <1>1, <1>10 DEF SettleTenant, TypeOK, SessionOn
  <2>4. Holds'
    BY <1>2, <2>1, <2>2, <2>3
  <2>5. QED
    BY <2>1, <2>4, SameSessionSums
<1>11. ASSUME NEW c \in Calls, SettleSession(c) PROVE Holds' /\ SessionSums'
  <2>1. SessionSums'
    BY <1>1, <1>11, SettleSessionSums DEF SettleSession
  <2>2. Holds'
    BY <1>1, <1>2, <1>11 DEF SettleSession, SettleSessionRow, TypeOK
  <2>3. QED
    BY <2>1, <2>2
<1>12. ASSUME NEW c \in Calls, Break(c) PROVE Holds' /\ SessionSums'
  <2>1. pc' = [pc EXCEPT ![c] = BrokenPlace(pc[c])] /\ UNCHANGED actual
    BY <1>12 DEF Break
  <2>2. /\ pc[c] = "sent" => BrokenPlace(pc[c]) = "lost"
        /\ pc[c] \in {"settle", "settleSession"} => BrokenPlace(pc[c]) = "unsettled"
        /\ pc[c] \notin {"sent", "settle", "settleSession"} => BrokenPlace(pc[c]) = "failed"
    BY DEF BrokenPlace
  <2>3. CASE pc[c] = "session" /\ SessionFits(c) /\ HoldSession(c)
    <3>1. SessionSums'
      BY <1>1, <1>2, <2>3, HoldSessionSums
    <3>2. Holds'
      BY <1>1, <1>2, <2>1, <2>2, <2>3 DEF HoldSession, TypeOK
    <3>3. QED
      BY <3>1, <3>2
  <2>4. CASE pc[c] = "settleSession" /\ SettleSessionRow(c)
    <3>1. SessionSums'
      BY <1>1, <2>1, <2>4, SettleSessionSums
    <3>2. Holds'
      BY <1>1, <1>2, <2>1, <2>2, <2>4 DEF SettleSessionRow, TypeOK
    <3>3. QED
      BY <3>1, <3>2
  <2>5. CASE UNCHANGED <<sessionSpent, sessionHeld>>
    <3>1. Holds'
      <4>1. \A d \in Calls : d # c => pc'[d] = pc[d]
        BY <1>1, <2>1 DEF TypeOK
      <4>2. pc'[c] = BrokenPlace(pc[c])
        BY <1>1, <2>1 DEF TypeOK
      <4>3. pc[c] \notin Ended \cup {"new"}
        BY <1>12 DEF Break
      <4>4. QED
        BY <1>2, <2>1, <2>2, <2>5, <4>1, <4>2, <4>3
    <3>2. QED
      BY <2>5, <3>1, SameSessionSums
  <2>6. QED
    BY <1>12, <2>3, <2>4, <2>5
    DEF Break, WriteLands, HoldTenant, ReleaseTenant, SettleTenantRow, ledger
<1>13. ASSUME NEW t \in Tenants, SetCap(t) PROVE Holds' /\ SessionSums'
  BY <1>2, <1>13, SameSessionSums DEF SetCap, ledger, gateVars
<1>14. CASE NextMonth
  BY <1>2, <1>14, SameSessionSums DEF NextMonth, ledger, gateVars, history
<1>15. CASE UNCHANGED vars
  BY <1>2, <1>15, SameSessionSums DEF vars, ledger, gateVars, history
<1>16. QED
  BY <1>4, <1>5, <1>6, <1>7, <1>8, <1>9, <1>10, <1>11, <1>12, <1>13, <1>14, <1>15
  DEF Next, Generate

(* What a call commits its session to is at most what it reserved there. *)
LEMMA CommittedIsReserved ==
  ASSUME SessionInv, NEW c \in Calls, SessionOn(c)
  PROVE  Committed[c] <= SessionReserved[c]
<1>1. /\ Worst[c] \in Nat /\ actual[c] \in Nat /\ sessionHeld[c] \in Nat
      /\ SessionHoldOf(c) /\ pc[c] \in Places
  BY GateAssumption DEF SessionInv, TypeOK
<1>2. QED
  BY <1>1 DEF Committed, SessionReserved, SessionHoldOf, Answered, Lesser

(* Whatever interleaves, breaks or straddles a month: the calls of a       *)
(* session are never sent for more than the session cap together.          *)
THEOREM SessionHardStopHolds == Spec => []SessionHardStop
<1>1. SessionInv => SessionHardStop
  <2> SUFFICES ASSUME SessionInv, NEW r \in SessionRows
               PROVE  Total(Committed, InSession(r)) <= SessionCap
    BY DEF SessionHardStop
  <2>1. \A c \in InSession(r) : Committed[c] <= SessionReserved[c]
    BY CommittedIsReserved DEF InSession
  <2>2. Committed \in [Calls -> Int] /\ SessionReserved \in [Calls -> Int]
    BY ReservedTypes, GateAssumption DEF SessionInv, Amounts
  <2>3. Total(Committed, InSession(r)) <= Total(SessionReserved, InSession(r))
    BY <2>1, <2>2, TotalMonotone, InSessionSubset
  <2>4. Total(SessionReserved, InSession(r)) <= SessionCap
    BY DEF SessionInv
  <2>5. QED
    BY <2>3, <2>4, UnitsFinite, InSessionSubset, GateAssumption
<1>2. QED
  BY <1>1, SessionInit, SessionStep, PTL DEF Spec

(* What a session's row charges covers what its calls were sent for. *)
LEMMA ChargedForCommitted == SessionInv => NeverUndercharged
<1> SUFFICES ASSUME SessionInv, NEW r \in SessionRows
             PROVE  sessionSpent[r] >= Total(Committed, InSession(r))
  BY DEF NeverUndercharged
<1>1. \A c \in InSession(r) : Committed[c] <= sessionHeld[c]
  <2>1. \A c \in InSession(r) : Committed[c] <= SessionReserved[c]
    BY CommittedIsReserved DEF InSession
  <2>2. \A c \in Calls : SessionReserved[c] <= sessionHeld[c]
    BY GateAssumption DEF SessionInv, TypeOK, SessionReserved, Lesser
  <2>3. \A c \in Calls : /\ Committed[c] \in Int /\ SessionReserved[c] \in Int
                         /\ sessionHeld[c] \in Int
    BY ReservedTypes, GateAssumption DEF SessionInv, Amounts
  <2>4. QED
    BY <2>1, <2>2, <2>3 DEF InSession
<1>2. Committed \in [Calls -> Int] /\ sessionHeld \in [Calls -> Int]
  BY ReservedTypes, GateAssumption DEF SessionInv, Amounts
<1>3. Total(Committed, InSession(r)) <= Total(sessionHeld, InSession(r))
  BY <1>1, <1>2, TotalMonotone, InSessionSubset
<1>4. sessionSpent[r] = Total(sessionHeld, InSession(r))
  BY DEF SessionInv, SessionBooks
<1>5. QED
  BY <1>3, <1>4, UnitsFinite, InSessionSubset

(* A session's row charges at least what its calls were sent for, also     *)
(* when their settlement was lost: a break over-charges, it never opens a  *)
(* hole in the books.                                                      *)
THEOREM NeverUnderchargedHolds == Spec => []NeverUndercharged
<1>1. QED
  BY ChargedForCommitted, SessionInit, SessionStep, PTL DEF Spec

-----------------------------------------------------------------------------
(* The tenant's hard stop and its one leak. *)

LEMMA MonthSets ==
  ASSUME NEW r
  PROVE  /\ ReservedOn(r) \in SUBSET Calls /\ SettledOn(r) \in SUBSET Calls
         /\ \A c \in Calls : c \in ReservedOn(r) <=> r = MonthRow(c, period[c])
         /\ \A c \in Calls : c \in SettledOn(r) <=> r = MonthRow(c, settlePeriod[c])
BY DEF ReservedOn, SettledOn

LEMMA ReservedIsHeld ==
  ASSUME TypeOK, NEW c \in Calls
  PROVE  TenantReserved[c] <= held[c]
BY GateAssumption DEF TypeOK, TenantReserved, Lesser

LEMMA PeakType ==
  ASSUME TypeOK, NEW r \in MonthRows
  PROVE  peak[r[1]] \in Nat
<1>1. peak \in [Tenants -> Caps] /\ r[1] \in Tenants
  BY DEF TypeOK, MonthRows
<1>2. QED
  BY <1>1, GateAssumption

LEMMA PeakOfCall ==
  ASSUME TypeOK, NEW c \in Calls
  PROVE  peak[TenantOf[c]] \in Int
<1>1. peak \in [Tenants -> Caps]
  BY DEF TypeOK
<1>2. TenantOf[c] \in Tenants
  BY GateAssumption
<1>3. Caps \subseteq Int
  BY GateAssumption
<1>4. \A t \in Tenants : peak[t] \in Int
  BY <1>1, <1>3
<1>5. QED
  BY <1>2, <1>4

LEMMA TenantInit == Init => TenantInv
<1> SUFFICES ASSUME Init PROVE TenantInv
  OBVIOUS
<1>1. TypeOK
  BY TypeInit
<1>2. \A c \in Calls : /\ pc[c] = "new" /\ held[c] = 0 /\ strayed[c] = 0
                       /\ TenantReserved[c] = 0
  <2>1. \A c \in Calls : Worst[c] \in Nat
    BY GateAssumption
  <2>2. QED
    BY <2>1 DEF Init, TenantReserved, Lesser
<1>3. \A t \in Tenants : cap[t] <= peak[t] /\ peak[t] \in Nat
  <2>1. cap \in [Tenants -> Caps] /\ peak = cap
    BY DEF Init
  <2>2. \A t \in Tenants : cap[t] \in Nat
    BY <2>1, GateAssumption
  <2>3. QED
    BY <2>1, <2>2
<1>4. \A c \in Calls : TenantHoldOf(c)
  BY <1>2 DEF TenantHoldOf
<1>5. \A r : /\ Total(held, ReservedOn(r)) = 0
             /\ Total(TenantReserved, ReservedOn(r)) = 0
             /\ Total(strayed, SettledOn(r)) = 0
  BY <1>2, TotalZero, MonthSets
<1>6. TenantBooks
  BY <1>5 DEF Init, TenantBooks
<1>7. \A r \in MonthRows : peak[r[1]] \in Nat
  BY <1>3 DEF MonthRows
<1>8. \A r \in MonthRows :
        Total(TenantReserved, ReservedOn(r)) <= peak[r[1]] + Total(strayed, SettledOn(r))
  BY <1>5, <1>7
<1>9. QED
  BY <1>1, <1>3, <1>4, <1>6, <1>8 DEF TenantInv

(* The clauses of TenantInv about the rows. *)
TenantSums ==
  /\ TenantBooks
  /\ \A r \in MonthRows :
       Total(TenantReserved, ReservedOn(r)) <= peak[r[1]] + Total(strayed, SettledOn(r))

(* A write for call c that moves the row of month m by d and leaves h held, *)
(* q of it reserved and s strayed.                                          *)
TenantMove(c, m, d, h, q, s) ==
  /\ spent' = AddTo(spent, MonthRow(c, m), d)
  /\ held' = [held EXCEPT ![c] = h]
  /\ TenantReserved' = [TenantReserved EXCEPT ![c] = q]
  /\ strayed' = [strayed EXCEPT ![c] = s]
  /\ UNCHANGED <<period, settlePeriod, peak>>

(* The row moves by no less than what is held for the call, but for what   *)
(* strays; and more is reserved only within the cap.                       *)
FairMove(c, m, d, h, q, s) ==
  /\ strayed[c] = 0
  /\ \A r \in MonthRows :
       (IF r = MonthRow(c, period[c]) THEN h - held[c] ELSE 0)
         <= (IF r = MonthRow(c, m) THEN d ELSE 0)
              + (IF r = MonthRow(c, settlePeriod[c]) THEN s ELSE 0)
  /\ \/ q <= TenantReserved[c]
     \/ spent[MonthRow(c, period[c])] + (q - TenantReserved[c]) <= peak[TenantOf[c]]

LEMMA TenantMoveSums ==
  ASSUME TenantInv, NEW c \in Calls,
         NEW h \in 0..Most, NEW q \in 0..Most, NEW s \in 0..Most,
         NEW m \in Months, NEW d \in Int,
         TenantMove(c, m, d, h, q, s), FairMove(c, m, d, h, q, s)
  PROVE  TenantSums'
<1> DEFINE R == TenantReserved
<1>1. /\ R \in Amounts /\ held \in Amounts /\ strayed \in Amounts
      /\ \A e \in Calls : R[e] <= held[e]
  <2>1. \A e \in Calls : R[e] <= held[e]
    BY ReservedIsHeld DEF TenantInv
  <2>2. QED
    BY <2>1, ReservedTypes DEF TenantInv
<1>2. /\ Most \in Nat /\ h \in Int /\ q \in Int /\ s \in Int /\ s >= 0
      /\ held[c] \in Int /\ R[c] \in Int /\ strayed[c] = 0
  BY <1>1, GateAssumption DEF Amounts, FairMove
<1> HIDE DEF R
<1>3. ASSUME NEW r \in MonthRows
      PROVE  /\ Total(held', ReservedOn(r)') <= spent'[r] + Total(strayed', SettledOn(r)')
             /\ Total(R', ReservedOn(r)') <= peak'[r[1]] + Total(strayed', SettledOn(r)')
  <2> DEFINE H == Total(held, ReservedOn(r))
             Q == Total(R, ReservedOn(r))
             S == Total(strayed, SettledOn(r))
             dh == IF c \in ReservedOn(r) THEN h - held[c] ELSE 0
             dq == IF c \in ReservedOn(r) THEN q - R[c] ELSE 0
             ds == IF c \in SettledOn(r) THEN s ELSE 0
             dr == IF r = MonthRow(c, m) THEN d ELSE 0
             top == peak[r[1]]
  <2>1. ReservedOn(r) \in SUBSET Calls /\ SettledOn(r) \in SUBSET Calls
    BY MonthSets
  <2>2. ReservedOn(r)' = ReservedOn(r) /\ SettledOn(r)' = SettledOn(r) /\ peak' = peak
    BY DEF ReservedOn, SettledOn, TenantMove
  <2>3. Total(held', ReservedOn(r)') = H + dh
    <3>1. Total([held EXCEPT ![c] = h], ReservedOn(r)) = H + dh
      BY <1>1, <2>1, TotalSet
    <3>2. held' = [held EXCEPT ![c] = h]
      BY DEF TenantMove
    <3>3. QED
      BY <2>2, <3>1, <3>2
  <2>4. Total(R', ReservedOn(r)') = Q + dq
    <3>1. Total([R EXCEPT ![c] = q], ReservedOn(r)) = Q + dq
      BY <1>1, <2>1, TotalSet
    <3>2. R' = [R EXCEPT ![c] = q]
      BY DEF TenantMove, R
    <3>3. QED
      BY <2>2, <3>1, <3>2
  <2>5. Total(strayed', SettledOn(r)') = S + ds
    <3>1. Total([strayed EXCEPT ![c] = s], SettledOn(r)) = S + ds
      BY <1>1, <1>2, <2>1, TotalSet
    <3>2. strayed' = [strayed EXCEPT ![c] = s]
      BY DEF TenantMove
    <3>3. QED
      BY <2>2, <3>1, <3>2
  <2>6. spent[r] \in Int /\ spent'[r] = spent[r] + dr
    <3>1. spent \in [MonthRows -> Int]
      BY DEF TenantInv, TypeOK
    <3>2. AddTo(spent, MonthRow(c, m), d)[r] = spent[r] + dr
      BY <3>1, AddToType
    <3>3. spent' = AddTo(spent, MonthRow(c, m), d)
      BY DEF TenantMove
    <3>4. QED
      BY <3>1, <3>2, <3>3
  <2>7. /\ H \in Int /\ Q \in Int /\ S \in Int /\ top \in Int
        /\ dh \in Int /\ dq \in Int /\ ds \in Int /\ dr \in Int /\ ds >= 0
    <3>1. H \in Int /\ Q \in Int /\ S \in Int
      BY <2>1, UnitsFinite
    <3>2. top \in Int
      BY PeakType DEF TenantInv
    <3>3. QED
      BY <1>2, <3>1, <3>2
  <2>8. H <= spent[r] + S /\ Q <= top + S
    BY DEF TenantInv, TenantBooks, R
  <2>9. dh <= dr + ds
    BY MonthSets DEF FairMove
  <2>10. \/ dq <= 0
         \/ spent[r] + dq <= top /\ Q <= H
    <3>1. CASE c \in ReservedOn(r) /\ ~(q <= R[c])
      <4>1. r = MonthRow(c, period[c]) /\ r[1] = TenantOf[c]
        BY <3>1, MonthSets DEF MonthRow
      <4>2. spent[r] + dq <= top
        BY <3>1, <4>1 DEF FairMove, R
      <4>3. R \in [Calls -> Int] /\ held \in [Calls -> Int]
        BY <1>1, GateAssumption DEF Amounts
      <4>4. Q <= H
        BY <1>1, <2>1, <4>3, TotalMonotone
      <4>5. QED
        BY <4>2, <4>4
    <3>2. CASE ~(c \in ReservedOn(r) /\ ~(q <= R[c]))
      BY <1>2, <3>2
    <3>3. QED
      BY <3>1, <3>2
  <2> HIDE DEF H, Q, S, dh, dq, ds, dr, top
  <2>11. H + dh <= (spent[r] + dr) + (S + ds)
    BY <2>6, <2>7, <2>8, <2>9
  <2>12. Q + dq <= top + (S + ds)
    BY <2>6, <2>7, <2>8, <2>10
  <2>13. peak'[r[1]] = top
    BY <2>2 DEF top
  <2>14. QED
    BY <2>3, <2>4, <2>5, <2>6, <2>11, <2>12, <2>13
<1>4. QED
  BY <1>3 DEF TenantSums, TenantBooks, R

(* How TenantReserved follows held. *)
LEMMA ReservedMoves ==
  ASSUME TypeOK, NEW c \in Calls, NEW h \in 0..Most, held' = [held EXCEPT ![c] = h]
  PROVE  TenantReserved' = [TenantReserved EXCEPT ![c] = Lesser(h, Worst[c])]
<1>1. \A e \in Calls : held'[e] = IF e = c THEN h ELSE held[e]
  BY DEF TypeOK
<1>2. TenantReserved' = [e \in Calls |-> IF e = c THEN Lesser(h, Worst[c]) ELSE TenantReserved[e]]
  BY <1>1 DEF TenantReserved
<1>3. QED
  BY <1>2 DEF TenantReserved

LEMMA StrayedUnmoved ==
  ASSUME TypeOK, NEW c \in Calls, strayed[c] = 0
  PROVE  strayed = [strayed EXCEPT ![c] = 0]
BY DEF TypeOK

(* A reservation that fits is charged in full. *)
LEMMA HoldTenantSums ==
  ASSUME TenantInv, NEW c \in Calls, pc[c] = "reserve", TenantFits(c), HoldTenant(c),
         UNCHANGED <<period, settlePeriod, peak>>
  PROVE  TenantSums'
<1> DEFINE W == Worst[c]
           m == period[c]
<1>1. /\ W \in 0..Most /\ Most \in Nat /\ m \in Months /\ 0 \in 0..Most
      /\ TenantHoldOf(c) /\ TypeOK
  BY GateAssumption DEF TenantInv, TypeOK
<1>2. held[c] = 0 /\ strayed[c] = 0 /\ limit[c] <= peak[TenantOf[c]]
  BY <1>1 DEF TenantHoldOf
<1>3. TenantReserved[c] = 0 /\ Lesser(W, Worst[c]) = W
  BY <1>1, <1>2 DEF TenantReserved, Lesser
<1>4. TenantMove(c, m, W, W, W, 0)
  <2>1. TenantReserved' = [TenantReserved EXCEPT ![c] = W]
    BY <1>1, <1>3, ReservedMoves DEF HoldTenant
  <2>2. strayed' = [strayed EXCEPT ![c] = 0]
    BY <1>1, <1>2, StrayedUnmoved DEF HoldTenant
  <2>3. QED
    BY <2>1, <2>2 DEF TenantMove, HoldTenant
<1>5. FairMove(c, m, W, W, W, 0)
  <2>1. /\ spent[MonthRow(c, m)] \in Int /\ limit[c] \in Int /\ peak[TenantOf[c]] \in Int
        /\ W \in Int
    <3>2. peak[TenantOf[c]] \in Int
      BY <1>1, PeakOfCall
    <3>3. spent[MonthRow(c, m)] \in Int
      BY <1>1, Rows DEF TypeOK
    <3>4. QED
      BY <1>1, <3>2, <3>3 DEF TypeOK
  <2>2. spent[MonthRow(c, m)] + W <= peak[TenantOf[c]]
    BY <1>2, <2>1 DEF TenantFits, Fits
  <2>3. QED
    BY <1>2, <1>3, <2>1, <2>2 DEF FairMove
<1> HIDE DEF W, m
<1>6. W \in Int
  BY <1>1
<1>7. QED
  BY <1>1, <1>4, <1>5, <1>6, TenantMoveSums

(* ... and given back in full when the session refuses. *)
LEMMA ReleaseTenantSums ==
  ASSUME TenantInv, NEW c \in Calls, pc[c] = "refund", ReleaseTenant(c),
         UNCHANGED <<period, settlePeriod, peak>>
  PROVE  TenantSums'
<1> DEFINE W == Worst[c]
           m == period[c]
<1>1. /\ W \in 0..Most /\ Most \in Nat /\ m \in Months /\ 0 \in 0..Most
      /\ TenantHoldOf(c) /\ TypeOK
  BY GateAssumption DEF TenantInv, TypeOK
<1>2. held[c] = W /\ strayed[c] = 0
  BY <1>1 DEF TenantHoldOf
<1>3. TenantReserved[c] = W /\ Lesser(0, Worst[c]) = 0
  BY <1>1, <1>2 DEF TenantReserved, Lesser
<1>4. TenantMove(c, m, -W, 0, 0, 0)
  <2>1. TenantReserved' = [TenantReserved EXCEPT ![c] = 0]
    BY <1>1, <1>3, ReservedMoves DEF ReleaseTenant
  <2>2. strayed' = [strayed EXCEPT ![c] = 0]
    BY <1>1, <1>2, StrayedUnmoved DEF ReleaseTenant
  <2>3. QED
    BY <2>1, <2>2 DEF TenantMove, ReleaseTenant
<1>5. W \in Int /\ -W \in Int /\ 0 <= W
  BY <1>1
<1>6. FairMove(c, m, -W, 0, 0, 0)
  BY <1>2, <1>3, <1>5 DEF FairMove
<1> HIDE DEF W, m
<1>7. QED
  BY <1>1, <1>4, <1>5, <1>6, TenantMoveSums

(* A settlement moves the row of the month it reads; in another month than *)
(* the reservation's, what it credits strays.                              *)
LEMMA SettleTenantSums ==
  ASSUME TenantInv, NEW c \in Calls, pc[c] = "settle", SettleTenantRow(c),
         UNCHANGED <<period, settlePeriod, peak>>
  PROVE  TenantSums'
<1> DEFINE W == Worst[c]
           a == actual[c]
           m == settlePeriod[c]
           stray == IF a < W THEN W - a ELSE 0
<1>1. /\ W \in 0..Most /\ a \in 0..Most /\ Most \in Nat /\ m \in Months
      /\ 0 \in 0..Most /\ TenantHoldOf(c) /\ TypeOK
  BY GateAssumption DEF TenantInv, TypeOK
<1>2. held[c] = W /\ strayed[c] = 0
  BY <1>1 DEF TenantHoldOf
<1>3. /\ TenantReserved[c] = W /\ Lesser(W, Worst[c]) = W
      /\ Lesser(a, Worst[c]) \in 0..Most /\ Lesser(a, Worst[c]) <= W
      /\ a - W \in Int /\ stray \in 0..Most /\ 0 <= (a - W) + stray
  BY <1>1, <1>2 DEF TenantReserved, Lesser
<1>4. CASE m = period[c]
  <2>1. TenantMove(c, m, a - W, a, Lesser(a, Worst[c]), 0)
    <3>1. held' = [held EXCEPT ![c] = a] /\ UNCHANGED strayed
      BY <1>4 DEF SettleTenantRow
    <3>2. TenantReserved' = [TenantReserved EXCEPT ![c] = Lesser(a, Worst[c])]
      BY <1>1, <3>1, ReservedMoves
    <3>3. strayed' = [strayed EXCEPT ![c] = 0]
      BY <1>1, <1>2, <3>1, StrayedUnmoved
    <3>4. QED
      BY <3>1, <3>2, <3>3 DEF TenantMove, SettleTenantRow
  <2>2. FairMove(c, m, a - W, a, Lesser(a, Worst[c]), 0)
    BY <1>2, <1>3, <1>4 DEF FairMove
  <2> HIDE DEF W, a, m, stray
  <2>3. QED
    BY <1>1, <1>3, <2>1, <2>2, TenantMoveSums
<1>5. CASE m # period[c]
  <2>1. TenantMove(c, m, a - W, W, W, stray)
    <3>1. strayed' = [strayed EXCEPT ![c] = stray] /\ UNCHANGED held
      BY <1>5 DEF SettleTenantRow
    <3>2. held' = [held EXCEPT ![c] = W]
      BY <1>1, <1>2, <3>1 DEF TypeOK
    <3>3. TenantReserved' = [TenantReserved EXCEPT ![c] = W]
      BY <1>1, <1>3, <3>2, ReservedMoves
    <3>4. QED
      BY <3>1, <3>2, <3>3 DEF TenantMove, SettleTenantRow
  <2>2. FairMove(c, m, a - W, W, W, stray)
    <3>1. MonthRow(c, m) # MonthRow(c, period[c])
      BY <1>5 DEF MonthRow
    <3>2. W - held[c] = 0 /\ W <= TenantReserved[c]
      BY <1>1, <1>2, <1>3
    <3> HIDE DEF stray
    <3>3. QED
      BY <1>1, <1>2, <1>3, <3>1, <3>2 DEF FairMove
  <2> HIDE DEF W, a, m, stray
  <2>3. QED
    BY <1>1, <1>3, <2>1, <2>2, TenantMoveSums
<1>6. QED
  BY <1>4, <1>5

(* No other step moves what the rows are about: a call that holds nothing  *)
(* may change its month, one that let nothing stray its settling month, and *)
(* a peak may rise.                                                        *)
LEMMA SameTenantSums ==
  ASSUME TenantInv, TypeOK', UNCHANGED <<spent, held, strayed>>,
         \A t \in Tenants : peak[t] <= peak'[t],
         \A c \in Calls : held[c] = 0 \/ period'[c] = period[c],
         \A c \in Calls : strayed[c] = 0 \/ settlePeriod'[c] = settlePeriod[c]
  PROVE  TenantSums'
<1> DEFINE R == TenantReserved
<1>1. R \in Amounts /\ held \in Amounts /\ strayed \in Amounts
  BY ReservedTypes DEF TenantInv
<1>2. \A c \in Calls : held[c] = 0 => R[c] = 0
  <2>1. \A c \in Calls : Worst[c] \in Nat
    BY GateAssumption
  <2>2. QED
    BY <2>1 DEF TenantReserved, Lesser
<1>3. R' = R
  BY DEF TenantReserved
<1> HIDE DEF R
<1>4. ASSUME NEW r \in MonthRows
      PROVE  /\ Total(held', ReservedOn(r)') <= spent'[r] + Total(strayed', SettledOn(r)')
             /\ Total(R', ReservedOn(r)') <= peak'[r[1]] + Total(strayed', SettledOn(r)')
  <2>1. /\ ReservedOn(r) \in SUBSET Calls /\ SettledOn(r) \in SUBSET Calls
        /\ ReservedOn(r)' \in SUBSET Calls /\ SettledOn(r)' \in SUBSET Calls
    BY DEF ReservedOn, SettledOn
  <2>2. \A c \in Calls : /\ held[c] = 0 \/ (c \in ReservedOn(r)' <=> c \in ReservedOn(r))
                         /\ strayed[c] = 0 \/ (c \in SettledOn(r)' <=> c \in SettledOn(r))
    BY DEF ReservedOn, SettledOn, MonthRow
  <2>3. Total(held, ReservedOn(r)') = Total(held, ReservedOn(r))
    <3>1. \A c \in Calls : (IF c \in ReservedOn(r)' THEN held[c] ELSE 0)
                         = (IF c \in ReservedOn(r) THEN held[c] ELSE 0)
      BY <2>2
    <3>2. QED
      BY <1>1, <2>1, <3>1, TotalSame
  <2>4. Total(R, ReservedOn(r)') = Total(R, ReservedOn(r))
    <3>1. \A c \in Calls : (IF c \in ReservedOn(r)' THEN R[c] ELSE 0)
                         = (IF c \in ReservedOn(r) THEN R[c] ELSE 0)
      BY <1>2, <2>2
    <3>2. QED
      BY <1>1, <2>1, <3>1, TotalSame
  <2>5. Total(strayed, SettledOn(r)') = Total(strayed, SettledOn(r))
    <3>1. \A c \in Calls : (IF c \in SettledOn(r)' THEN strayed[c] ELSE 0)
                         = (IF c \in SettledOn(r) THEN strayed[c] ELSE 0)
      BY <2>2
    <3>2. QED
      BY <1>1, <2>1, <3>1, TotalSame
  <2>6. /\ Total(held, ReservedOn(r)) <= spent[r] + Total(strayed, SettledOn(r))
        /\ Total(R, ReservedOn(r)) <= peak[r[1]] + Total(strayed, SettledOn(r))
    BY DEF TenantInv, TenantBooks, R
  <2>7. peak[r[1]] \in Int /\ peak'[r[1]] \in Int /\ peak[r[1]] <= peak'[r[1]]
    <3>1. r[1] \in Tenants
      BY DEF MonthRows
    <3>2. peak \in [Tenants -> Caps] /\ peak' \in [Tenants -> Caps]
      BY DEF TenantInv, TypeOK
    <3>3. QED
      BY <3>1, <3>2, GateAssumption
  <2>8. Total(R, ReservedOn(r)) \in Int /\ Total(strayed, SettledOn(r)) \in Int
    BY <2>1, UnitsFinite
  <2>9. held' = held /\ strayed' = strayed /\ spent' = spent
    OBVIOUS
  <2>10. QED
    BY <1>3, <2>3, <2>4, <2>5, <2>6, <2>7, <2>8, <2>9
<1>5. QED
  BY <1>4 DEF TenantSums, TenantBooks, R

LEMMA TenantStep == TenantInv /\ [Next]_vars => TenantInv'
<1> SUFFICES ASSUME TenantInv, [Next]_vars PROVE TenantInv'
  OBVIOUS
<1>1. TypeOK /\ TypeOK'
  BY TypeStep DEF TenantInv
<1> DEFINE Holds == \A d \in Calls : TenantHoldOf(d)
           Peaks == \A t \in Tenants : cap[t] <= peak[t]
<1>2. Holds /\ Peaks
  BY DEF TenantInv
<1>3. \A t \in Tenants : cap[t] \in Nat /\ peak[t] \in Nat
  <2>1. cap \in [Tenants -> Caps] /\ peak \in [Tenants -> Caps]
    BY <1>1 DEF TypeOK
  <2>2. QED
    BY <2>1, GateAssumption
<1>4. \A d \in Calls : TenantOf[d] \in Tenants
  BY GateAssumption
<1> SUFFICES Holds' /\ Peaks' /\ TenantSums'
  BY <1>1 DEF TenantInv, TenantSums
<1> USE DEF TenantHoldOf, Goto
<1>5. ASSUME NEW c \in Calls, Start(c) PROVE Holds' /\ Peaks' /\ TenantSums'
  <2>1. /\ UNCHANGED <<spent, held, strayed, peak, cap, limit, actual, settlePeriod>>
        /\ pc[c] = "new" /\ pc'[c] = "limit"
        /\ \A d \in Calls \ {c} : pc'[d] = pc[d] /\ period'[d] = period[d]
    BY <1>1, <1>5 DEF Start, TypeOK, ledger, history
  <2>2. Holds' /\ Peaks'
    BY <1>2, <2>1
  <2>3. TenantSums'
    BY <1>1, <1>2, <1>3, <2>1, SameTenantSums
  <2>4. QED
    BY <2>2, <2>3
<1>6. ASSUME NEW c \in Calls, ReadLimit(c) PROVE Holds' /\ Peaks' /\ TenantSums'
  <2>1. /\ UNCHANGED <<spent, held, strayed, peak, cap, actual, period, settlePeriod>>
        /\ pc[c] = "limit" /\ pc'[c] \in {"refused", "reserve"}
        /\ limit'[c] = cap[TenantOf[c]]
        /\ \A d \in Calls \ {c} : pc'[d] = pc[d] /\ limit'[d] = limit[d]
    BY <1>1, <1>6 DEF ReadLimit, TypeOK, ledger, history
  <2>2. Holds' /\ Peaks'
    BY <1>2, <1>4, <2>1
  <2>3. TenantSums'
    BY <1>1, <1>3, <2>1, SameTenantSums
  <2>4. QED
    BY <2>2, <2>3
<1>7. ASSUME NEW c \in Calls, ReserveTenant(c) PROVE Holds' /\ Peaks' /\ TenantSums'
  <2>1. /\ UNCHANGED <<cap, peak, period, settlePeriod, limit, actual>>
        /\ pc[c] = "reserve" /\ pc'[c] \in {"session", "sent", "refused"}
        /\ \A d \in Calls \ {c} : pc'[d] = pc[d]
    BY <1>1, <1>7 DEF ReserveTenant, TypeOK
  <2>2. CASE TenantFits(c) /\ HoldTenant(c) /\ pc'[c] # "refused"
    <3>1. Holds' /\ Peaks'
      BY <1>1, <1>2, <2>1, <2>2 DEF HoldTenant, TypeOK
    <3>2. TenantSums'
      BY <2>1, <2>2, HoldTenantSums
    <3>3. QED
      BY <3>1, <3>2
  <2>3. CASE UNCHANGED <<ledger, held, sessionHeld, strayed>> /\ pc'[c] = "refused"
    <3>1. UNCHANGED <<spent, held, strayed>>
      BY <2>3 DEF ledger
    <3>2. Holds' /\ Peaks'
      BY <1>2, <2>1, <2>3, <3>1
    <3>3. TenantSums'
      BY <1>1, <1>3, <2>1, <3>1, SameTenantSums
    <3>4. QED
      BY <3>2, <3>3
  <2>4. QED
    BY <1>1, <1>7, <2>2, <2>3 DEF ReserveTenant, TypeOK
<1>8. ASSUME NEW c \in Calls, ReserveSession(c) PROVE Holds' /\ Peaks' /\ TenantSums'
  <2>1. /\ UNCHANGED <<spent, held, strayed, cap, peak, period, settlePeriod, limit, actual>>
        /\ pc[c] = "session" /\ pc'[c] \in {"sent", "refund"}
        /\ \A d \in Calls \ {c} : pc'[d] = pc[d]
    BY <1>1, <1>8 DEF ReserveSession, HoldSession, ledger, TypeOK
  <2>2. Holds' /\ Peaks'
    BY <1>2, <2>1
  <2>3. TenantSums'
    BY <1>1, <1>3, <2>1, SameTenantSums
  <2>4. QED
    BY <2>2, <2>3
<1>9. ASSUME NEW c \in Calls, RefundTenant(c) PROVE Holds' /\ Peaks' /\ TenantSums'
  <2>1. /\ UNCHANGED <<cap, peak, period, settlePeriod, limit, actual>>
        /\ pc[c] = "refund" /\ pc'[c] = "refused" /\ ReleaseTenant(c)
        /\ \A d \in Calls \ {c} : pc'[d] = pc[d]
    BY <1>1, <1>9 DEF RefundTenant, TypeOK
  <2>2. Holds' /\ Peaks'
    BY <1>1, <1>2, <2>1 DEF ReleaseTenant, TypeOK
  <2>3. TenantSums'
    BY <2>1, ReleaseTenantSums
  <2>4. QED
    BY <2>2, <2>3
<1>10. ASSUME NEW c \in Calls, Answer(c) PROVE Holds' /\ Peaks' /\ TenantSums'
  <2>1. /\ UNCHANGED <<spent, held, strayed, cap, peak, period, limit>>
        /\ pc[c] = "sent" /\ pc'[c] = "settle"
        /\ \A d \in Calls \ {c} : /\ pc'[d] = pc[d] /\ actual'[d] = actual[d]
                                  /\ settlePeriod'[d] = settlePeriod[d]
    BY <1>1, <1>10 DEF Answer, ledger, history, TypeOK
  <2>2. Holds' /\ Peaks'
    BY <1>2, <2>1
  <2>3. TenantSums'
    BY <1>1, <1>2, <1>3, <2>1, SameTenantSums
  <2>4. QED
    BY <2>2, <2>3
<1>11. ASSUME NEW c \in Calls, SettleTenant(c) PROVE Holds' /\ Peaks' /\ TenantSums'
  <2>1. /\ UNCHANGED <<cap, peak, period, settlePeriod, limit, actual>>
        /\ pc[c] = "settle" /\ pc'[c] \in {"settleSession", "done"} /\ SettleTenantRow(c)
        /\ \A d \in Calls \ {c} : pc'[d] = pc[d]
    BY <1>1, <1>11 DEF SettleTenant, TypeOK
  <2>2. Holds' /\ Peaks'
    BY <1>1, <1>2, <2>1 DEF SettleTenantRow, TypeOK
  <2>3. TenantSums'
    BY <2>1, SettleTenantSums
  <2>4. QED
    BY <2>2, <2>3
<1>12. ASSUME NEW c \in Calls, SettleSession(c) PROVE Holds' /\ Peaks' /\ TenantSums'
  <2>1. /\ UNCHANGED <<spent, held, strayed, cap, peak, period, settlePeriod, limit, actual>>
        /\ pc[c] = "settleSession" /\ pc'[c] = "done"
        /\ \A d \in Calls \ {c} : pc'[d] = pc[d]
    BY <1>1, <1>12 DEF SettleSession, SettleSessionRow, TypeOK
  <2>2. Holds' /\ Peaks'
    BY <1>2, <2>1
  <2>3. TenantSums'
    BY <1>1, <1>3, <2>1, SameTenantSums
  <2>4. QED
    BY <2>2, <2>3
<1>13. ASSUME NEW c \in Calls, Break(c) PROVE Holds' /\ Peaks' /\ TenantSums'
  <2>1. /\ UNCHANGED <<cap, peak, period, settlePeriod, limit, actual>>
        /\ pc[c] \notin Ended \cup {"new"} /\ pc'[c] = BrokenPlace(pc[c])
        /\ \A d \in Calls \ {c} : pc'[d] = pc[d]
    BY <1>1, <1>13 DEF Break, TypeOK
  <2>2. /\ pc[c] = "sent" => BrokenPlace(pc[c]) = "lost"
        /\ pc[c] \in {"settle", "settleSession"} => BrokenPlace(pc[c]) = "unsettled"
        /\ pc[c] \notin {"sent", "settle", "settleSession"} => BrokenPlace(pc[c]) = "failed"
    BY DEF BrokenPlace
  <2>3. Peaks'
    BY <1>2, <2>1
  <2>4. CASE pc[c] = "reserve" /\ TenantFits(c) /\ HoldTenant(c)
    <3>1. Holds'
      BY <1>1, <1>2, <2>1, <2>2, <2>4 DEF HoldTenant, TypeOK
    <3>2. QED
      BY <2>1, <2>3, <2>4, <3>1, HoldTenantSums
  <2>5. CASE pc[c] = "refund" /\ ReleaseTenant(c)
    <3>1. Holds'
      BY <1>1, <1>2, <2>1, <2>2, <2>5 DEF ReleaseTenant, TypeOK
    <3>2. QED
      BY <2>1, <2>3, <2>5, <3>1, ReleaseTenantSums
  <2>6. CASE pc[c] = "settle" /\ SettleTenantRow(c)
    <3>1. Holds'
      BY <1>1, <1>2, <2>1, <2>2, <2>6 DEF SettleTenantRow, TypeOK
    <3>2. QED
      BY <2>1, <2>3, <2>6, <3>1, SettleTenantSums
  <2>7. CASE UNCHANGED <<spent, held, strayed>>
    <3>1. Holds'
      BY <1>2, <2>1, <2>2, <2>7 DEF Ended
    <3>2. TenantSums'
      BY <1>1, <1>3, <2>1, <2>7, SameTenantSums
    <3>3. QED
      BY <2>3, <3>1, <3>2
  <2>8. QED
    BY <1>13, <2>4, <2>5, <2>6, <2>7
    DEF Break, WriteLands, HoldSession, SettleSessionRow, ledger
<1>14. ASSUME NEW t \in Tenants, SetCap(t) PROVE Holds' /\ Peaks' /\ TenantSums'
  <2>1. UNCHANGED <<spent, held, strayed, pc, period, settlePeriod, limit, actual>>
    BY <1>14 DEF SetCap, ledger, gateVars
  <2>2. PICK v \in Caps : /\ cap' = [cap EXCEPT ![t] = v]
                          /\ peak' = [peak EXCEPT ![t] = IF v > @ THEN v ELSE @]
    BY <1>14 DEF SetCap
  <2>3. \A u \in Tenants : peak[u] <= peak'[u] /\ cap'[u] <= peak'[u] /\ peak'[u] \in Nat
    <3>1. v \in Nat
      BY GateAssumption
    <3>2. /\ cap'[t] = v /\ peak'[t] = (IF v > peak[t] THEN v ELSE peak[t])
          /\ \A u \in Tenants \ {t} : cap'[u] = cap[u] /\ peak'[u] = peak[u]
      BY <1>1, <2>2 DEF TypeOK
    <3>3. QED
      BY <1>2, <1>3, <3>1, <3>2
  <2>4. Holds'
    <3>1. ASSUME NEW d \in Calls, pc[d] = "reserve" PROVE limit[d] <= peak'[TenantOf[d]]
      <4>1. limit[d] <= peak[TenantOf[d]] /\ limit[d] \in Nat
        BY <1>1, <1>2, <3>1 DEF TypeOK
      <4>2. QED
        BY <1>3, <1>4, <2>3, <4>1
    <3>2. QED
      BY <1>2, <2>1, <3>1
  <2>5. TenantSums'
    BY <1>1, <2>1, <2>3, SameTenantSums
  <2>6. QED
    BY <2>3, <2>4, <2>5
<1>15. CASE NextMonth \/ UNCHANGED vars
  <2>1. UNCHANGED <<spent, held, strayed, pc, period, settlePeriod, limit, actual, cap, peak>>
    BY <1>15 DEF NextMonth, vars, ledger, gateVars, history
  <2>2. Holds' /\ Peaks'
    BY <1>2, <2>1
  <2>3. TenantSums'
    BY <1>1, <1>3, <2>1, SameTenantSums
  <2>4. QED
    BY <2>2, <2>3
<1>16. QED
  BY <1>5, <1>6, <1>7, <1>8, <1>9, <1>10, <1>11, <1>12, <1>13, <1>14, <1>15 DEF Next, Generate

(* What a tenant's calls of a month are sent for exceeds the highest cap   *)
(* the tenant had by no more than settlements credited to the wrong month. *)
THEOREM OverspendIsStrayCreditHolds == Spec => []OverspendIsStrayCredit
<1>1. TenantInv => OverspendIsStrayCredit
  <2> SUFFICES ASSUME TenantInv, NEW r \in MonthRows
               PROVE  Total(Committed, ReservedOn(r)) <= peak[r[1]] + Total(strayed, SettledOn(r))
    BY DEF OverspendIsStrayCredit
  <2>1. \A c \in Calls : Committed[c] <= TenantReserved[c]
    <3> SUFFICES ASSUME NEW c \in Calls PROVE Committed[c] <= TenantReserved[c]
      OBVIOUS
    <3>1. /\ Worst[c] \in Nat /\ actual[c] \in Nat /\ held[c] \in Nat
          /\ TenantHoldOf(c) /\ pc[c] \in Places
      BY GateAssumption DEF TenantInv, TypeOK
    <3>2. QED
      BY <3>1 DEF Committed, TenantReserved, TenantHoldOf, Answered, Lesser
  <2>2. Committed \in [Calls -> Int] /\ TenantReserved \in [Calls -> Int]
    BY ReservedTypes, GateAssumption DEF TenantInv, Amounts
  <2>3. Total(Committed, ReservedOn(r)) <= Total(TenantReserved, ReservedOn(r))
    BY <2>1, <2>2, TotalMonotone, MonthSets
  <2>4. Total(TenantReserved, ReservedOn(r)) <= peak[r[1]] + Total(strayed, SettledOn(r))
    BY DEF TenantInv
  <2>5. /\ Total(Committed, ReservedOn(r)) \in Nat /\ Total(TenantReserved, ReservedOn(r)) \in Nat
        /\ Total(strayed, SettledOn(r)) \in Nat /\ peak[r[1]] \in Nat
    BY UnitsFinite, MonthSets, PeakType DEF TenantInv
  <2>6. QED
    BY <2>3, <2>4, <2>5
<1>2. QED
  BY <1>1, TenantInit, TenantStep, PTL DEF Spec

-----------------------------------------------------------------------------
(* The session scope implements HardStop. *)

(* How HardStop sees a call that is at a place, and what a call that is    *)
(* there, was answered at a cost a and reserved w commits its session to.  *)
Stage(place) ==
  CASE place \in {"sent", "lost"}      -> "admitted"
    [] place \in Answered              -> "finished"
    [] place \in {"refused", "failed"} -> "refused"
    [] OTHER                           -> "waiting"

Share(place, a, w) ==
  IF place \in {"sent", "lost"} THEN w
  ELSE IF place \in Answered THEN Lesser(a, w)
  ELSE 0

CostOf == [c \in ScopedCalls |-> Committed[c]]

LEMMA ScopedView ==
  ASSUME NEW c \in ScopedCalls
  PROVE  /\ c \in Calls /\ SessionOn(c)
         /\ Admission[c] = Stage(pc[c])
         /\ CostOf[c] = Share(pc[c], actual[c], Worst[c])
<1>1. c \in Calls /\ SessionOn(c)
  BY DEF ScopedCalls
<1>2. Admission[c] = Stage(pc[c])
  BY DEF Admission, Stage
<1>3. CostOf[c] = Share(pc[c], actual[c], Worst[c])
  BY <1>1 DEF CostOf, Committed, Share
<1>4. QED
  BY <1>1, <1>2, <1>3

LEMMA SameCardinality == \A S : Promise!Cardinality(S) = Cardinality(S)
<1> SUFFICES ASSUME NEW S PROVE Promise!Cardinality(S) = Cardinality(S)
  OBVIOUS
<1>1. QED
  BY Zenon DEF Promise!Cardinality, Cardinality

(* HardStop's sum over a session is the sum the session's hard stop bounds. *)
LEMMA PromisedCost ==
  ASSUME NEW r \in SessionRows
  PROVE  Promise!CostIn(r) = Total(Committed, InSession(r))
<1>1. {c \in ScopedCalls : [d \in ScopedCalls |-> SessionRow(d)][c] = r} = InSession(r)
  BY DEF ScopedCalls, InSession
<1>2. \A c \in InSession(r) : [d \in ScopedCalls |-> Committed[d]][c] = Committed[c]
  BY DEF ScopedCalls, InSession
<1>3. {u \in InSession(r) \X (1..Most) : u[2] <= [d \in ScopedCalls |-> Committed[d]][u[1]]}
        = UnitsOf(Committed, InSession(r))
  BY <1>2 DEF UnitsOf
<1>4. QED
  BY <1>1, <1>3, SameCardinality DEF Promise!CostIn, Total

(* The step of one call as HardStop sees it: nothing, or the change of that *)
(* call's state and cost.                                                  *)
LEMMA OneCallSeen ==
  ASSUME NEW c \in Calls,
         \A d \in Calls : d # c => pc'[d] = pc[d] /\ actual'[d] = actual[d]
  PROVE  /\ c \notin ScopedCalls => UNCHANGED <<Admission, CostOf>>
         /\ c \in ScopedCalls =>
              /\ Admission' = [Admission EXCEPT ![c] = Stage(pc'[c])]
              /\ CostOf' = [CostOf EXCEPT ![c] = Share(pc'[c], actual'[c], Worst[c])]
<1>1. \A d \in ScopedCalls : /\ d \in Calls
                             /\ Admission'[d] = Stage(pc'[d])
                             /\ CostOf'[d] = Share(pc'[d], actual'[d], Worst[d])
                             /\ Admission[d] = Stage(pc[d])
                             /\ CostOf[d] = Share(pc[d], actual[d], Worst[d])
  <2>1. \A d \in ScopedCalls : /\ Admission'[d] = Stage(pc'[d])
                               /\ CostOf'[d] = Share(pc'[d], actual'[d], Worst[d])
    BY DEF ScopedCalls, Admission, Stage, CostOf, Committed, Share
  <2>2. QED
    BY <2>1, ScopedView
<1>2. /\ Admission = [d \in ScopedCalls |-> Admission[d]]
      /\ Admission' = [d \in ScopedCalls |-> Admission'[d]]
      /\ CostOf = [d \in ScopedCalls |-> CostOf[d]]
      /\ CostOf' = [d \in ScopedCalls |-> CostOf'[d]]
  BY DEF Admission, CostOf
<1>3. \A d \in ScopedCalls : d # c => Admission'[d] = Admission[d] /\ CostOf'[d] = CostOf[d]
  BY <1>1
<1>4. CASE c \notin ScopedCalls
  BY <1>2, <1>3, <1>4
<1>5. CASE c \in ScopedCalls
  BY <1>1, <1>2, <1>3, <1>5
<1>6. QED
  BY <1>4, <1>5

(* The step HardStop takes for a call that goes from a stage to a stage.   *)
LEMMA PromiseMove ==
  ASSUME NEW c \in Calls,
         \A d \in Calls : d # c => pc'[d] = pc[d] /\ actual'[d] = actual[d],
         NEW old, NEW new, NEW had, NEW has,
         old = Stage(pc[c]), new = Stage(pc'[c]),
         had = Share(pc[c], actual[c], Worst[c]), has = Share(pc'[c], actual'[c], Worst[c]),
         \/ new = old /\ has = had
         \/ old = "waiting" /\ new = "refused" /\ has = had
         \/ /\ old = "waiting" /\ new = "admitted" /\ has = Worst[c]
            /\ SessionOn(c) =>
                 Total(Committed, InSession(SessionRow(c))) + Worst[c] <= SessionCap
         \/ old = "admitted" /\ new = "finished" /\ has \in 0..Worst[c]
  PROVE  [Promise!Next]_<<Admission, CostOf>>
<1>1. CASE c \notin ScopedCalls
  BY <1>1, OneCallSeen
<1>2. CASE c \in ScopedCalls
  <2>1. /\ Admission' = [Admission EXCEPT ![c] = new]
        /\ CostOf' = [CostOf EXCEPT ![c] = has]
    BY <1>2, OneCallSeen
  <2>2. Admission[c] = old /\ CostOf[c] = had /\ SessionOn(c)
    BY <1>2, ScopedView
  <2>3. /\ Admission = [d \in ScopedCalls |-> Admission[d]]
        /\ CostOf = [d \in ScopedCalls |-> CostOf[d]]
    BY DEF Admission, CostOf
  <2>4. CASE new = old /\ has = had
    BY <2>1, <2>2, <2>3, <2>4
  <2>5. CASE old = "waiting" /\ new = "refused" /\ has = had
    <3>1. CostOf' = CostOf
      BY <2>1, <2>2, <2>3, <2>5
    <3>2. Promise!Refuse(c)
      BY <2>1, <2>2, <2>5, <3>1 DEF Promise!Refuse, CostOf
    <3>3. QED
      BY <1>2, <3>2 DEF Promise!Next
  <2>6. CASE /\ old = "waiting" /\ new = "admitted" /\ has = Worst[c]
             /\ SessionOn(c) =>
                  Total(Committed, InSession(SessionRow(c))) + Worst[c] <= SessionCap
    <3>1. SessionRow(c) \in SessionRows
      BY <2>2, GateAssumption DEF SessionRow, SessionRows, SessionOn
    <3>2. Promise!CostIn(SessionRow(c)) + Worst[c] <= SessionCap
      BY <2>2, <2>6, <3>1, PromisedCost
    <3>3. [d \in ScopedCalls |-> SessionRow(d)][c] = SessionRow(c)
      BY <1>2
    <3>4. Promise!Admit(c)
      BY <2>1, <2>2, <2>6, <3>2, <3>3 DEF Promise!Admit, CostOf
    <3>5. QED
      BY <1>2, <3>4 DEF Promise!Next
  <2>7. CASE old = "admitted" /\ new = "finished" /\ has \in 0..Worst[c]
    <3>1. Promise!Finish(c)
      BY <2>1, <2>2, <2>7 DEF Promise!Finish, CostOf
    <3>2. QED
      BY <1>2, <3>1 DEF Promise!Next
  <2>8. QED
    BY <2>4, <2>5, <2>6, <2>7
<1>3. QED
  BY <1>1, <1>2

(* A reservation the session's row has room for is one HardStop admits.    *)
LEMMA RoomPromised ==
  ASSUME SessionInv, NEW c \in Calls, SessionOn(c), SessionFits(c)
  PROVE  Total(Committed, InSession(SessionRow(c))) + Worst[c] <= SessionCap
<1> DEFINE r == SessionRow(c)
<1>1. r \in SessionRows
  BY GateAssumption DEF SessionRow, SessionRows, SessionOn
<1>2. sessionSpent[r] >= Total(Committed, InSession(r))
  <2>1. SessionInv => NeverUndercharged
    BY ChargedForCommitted
  <2>2. QED
    BY <1>1, <2>1 DEF NeverUndercharged
<1>3. sessionSpent[r] + Worst[c] <= SessionCap
  BY DEF SessionFits, Fits
<1>4. /\ sessionSpent[r] \in Int /\ Total(Committed, InSession(r)) \in Int
      /\ Worst[c] \in Int /\ SessionCap \in Int
  <2>1. sessionSpent \in [SessionRows -> Int]
    BY DEF SessionInv, TypeOK
  <2>2. sessionSpent[r] \in Int
    BY <1>1, <2>1
  <2>3. QED
    BY <2>2, UnitsFinite, InSessionSubset, GateAssumption
<1> HIDE DEF r
<1>5. sessionSpent[r] + Worst[c] >= Total(Committed, InSession(r)) + Worst[c]
  BY <1>2, <1>4
<1>6. QED
  BY <1>3, <1>4, <1>5 DEF r

LEMMA PromiseStart == Init => Promise!Init
<1> SUFFICES ASSUME Init PROVE Promise!Init
  OBVIOUS
<1>1. \A c \in ScopedCalls : Admission[c] = "waiting" /\ CostOf[c] = 0
  <2>1. \A c \in ScopedCalls : pc[c] = "new"
    BY DEF Init, ScopedCalls
  <2>2. QED
    BY <2>1, ScopedView DEF Stage, Share, Answered
<1>2. /\ Admission = [d \in ScopedCalls |-> Admission[d]]
      /\ CostOf = [d \in ScopedCalls |-> CostOf[d]]
  BY DEF Admission, CostOf
<1>3. Admission = [d \in ScopedCalls |-> "waiting"] /\ CostOf = [d \in ScopedCalls |-> 0]
  BY <1>1, <1>2
<1>4. QED
  BY <1>3 DEF Promise!Init, CostOf

LEMMA PromiseStep == SessionInv /\ [Next]_vars => [Promise!Next]_<<Admission, CostOf>>
<1> SUFFICES ASSUME SessionInv, [Next]_vars PROVE [Promise!Next]_<<Admission, CostOf>>
  OBVIOUS
<1>1. TypeOK
  BY DEF SessionInv
<1>2. \A d \in Calls : /\ pc[d] \in Places /\ Worst[d] \in Nat /\ actual[d] \in Nat
                       /\ SessionHoldOf(d)
  BY <1>1, GateAssumption DEF TypeOK, SessionInv
<1> DEFINE Others(c) == \A d \in Calls : d # c => pc'[d] = pc[d] /\ actual'[d] = actual[d]
<1> USE DEF Stage, Share, Answered, Goto
<1>3. ASSUME NEW c \in Calls, Start(c) PROVE [Promise!Next]_<<Admission, CostOf>>
  <2>1. Others(c) /\ pc[c] = "new" /\ pc'[c] = "limit"
    BY <1>1, <1>3 DEF Start, TypeOK
  <2>2. QED
    BY <2>1, PromiseMove
<1>4. ASSUME NEW c \in Calls, ReadLimit(c) PROVE [Promise!Next]_<<Admission, CostOf>>
  <2>1. Others(c) /\ pc[c] = "limit" /\ pc'[c] \in {"refused", "reserve"}
    BY <1>1, <1>4 DEF ReadLimit, TypeOK
  <2>2. QED
    BY <2>1, PromiseMove
<1>5. ASSUME NEW c \in Calls, ReserveTenant(c) PROVE [Promise!Next]_<<Admission, CostOf>>
  <2>1. /\ Others(c) /\ pc[c] = "reserve"
        /\ \/ pc'[c] = "session" \/ pc'[c] = "refused"
           \/ pc'[c] = "sent" /\ ~SessionOn(c)
    BY <1>1, <1>5 DEF ReserveTenant, TypeOK
  <2>2. QED
    BY <2>1, PromiseMove
<1>6. ASSUME NEW c \in Calls, ReserveSession(c) PROVE [Promise!Next]_<<Admission, CostOf>>
  <2>1. /\ Others(c) /\ pc[c] = "session" /\ SessionOn(c)
        /\ \/ pc'[c] = "sent" /\ SessionFits(c)
           \/ pc'[c] = "refund"
    BY <1>1, <1>2, <1>6 DEF ReserveSession, TypeOK, SessionHoldOf
  <2>2. QED
    BY <2>1, PromiseMove, RoomPromised
<1>7. ASSUME NEW c \in Calls, RefundTenant(c) PROVE [Promise!Next]_<<Admission, CostOf>>
  <2>1. Others(c) /\ pc[c] = "refund" /\ pc'[c] = "refused"
    BY <1>1, <1>7 DEF RefundTenant, TypeOK
  <2>2. QED
    BY <2>1, PromiseMove
<1>8. ASSUME NEW c \in Calls, Answer(c) PROVE [Promise!Next]_<<Admission, CostOf>>
  <2>1. Others(c) /\ pc[c] = "sent" /\ pc'[c] = "settle"
    BY <1>1, <1>8 DEF Answer, TypeOK
  <2>2. actual'[c] \in Nat
    BY <1>1, <1>8, GateAssumption DEF Answer, TypeOK
  <2>3. Lesser(actual'[c], Worst[c]) \in 0..Worst[c]
    BY <1>2, <2>2 DEF Lesser
  <2>4. QED
    BY <2>1, <2>3, PromiseMove
<1>9. ASSUME NEW c \in Calls, SettleTenant(c) PROVE [Promise!Next]_<<Admission, CostOf>>
  <2>1. Others(c) /\ pc[c] = "settle" /\ pc'[c] \in {"settleSession", "done"} /\ actual' = actual
    BY <1>1, <1>9 DEF SettleTenant, TypeOK
  <2>2. QED
    BY <2>1, PromiseMove
<1>10. ASSUME NEW c \in Calls, SettleSession(c) PROVE [Promise!Next]_<<Admission, CostOf>>
  <2>1. Others(c) /\ pc[c] = "settleSession" /\ pc'[c] = "done" /\ actual' = actual
    BY <1>1, <1>10 DEF SettleSession, TypeOK
  <2>2. QED
    BY <2>1, PromiseMove
<1>11. ASSUME NEW c \in Calls, Break(c) PROVE [Promise!Next]_<<Admission, CostOf>>
  <2>1. /\ Others(c) /\ pc'[c] = BrokenPlace(pc[c]) /\ actual' = actual
        /\ pc[c] \notin Ended \cup {"new"} /\ pc[c] \in Places
    BY <1>1, <1>2, <1>11 DEF Break, TypeOK
  <2>2. CASE pc[c] = "sent"
    <3>1. pc'[c] = "lost"
      BY <2>1, <2>2 DEF BrokenPlace
    <3>2. QED
      BY <2>1, <2>2, <3>1, PromiseMove
  <2>3. CASE pc[c] \in {"settle", "settleSession"}
    <3>1. pc'[c] = "unsettled"
      BY <2>1, <2>3 DEF BrokenPlace
    <3>2. QED
      BY <2>1, <2>3, <3>1, PromiseMove
  <2>4. CASE pc[c] \in {"limit", "reserve", "session", "refund"}
    <3>1. pc'[c] = "failed"
      BY <2>1, <2>4 DEF BrokenPlace
    <3>2. QED
      BY <2>1, <2>4, <3>1, PromiseMove
  <2>5. QED
    BY <2>1, <2>2, <2>3, <2>4 DEF Places, Ended, AtStore, Unsent
<1>12. CASE UNCHANGED <<pc, actual>>
  <2>1. UNCHANGED <<Admission, CostOf>>
    BY <1>12 DEF Admission, CostOf, Committed
  <2>2. QED
    BY <2>1
<1>13. QED
  BY <1>3, <1>4, <1>5, <1>6, <1>7, <1>8, <1>9, <1>10, <1>11, <1>12
  DEF Next, Generate, SetCap, NextMonth, vars, gateVars

(* gate.ts, spend-store.ts: LocalGate's session scope implements HardStop. *)
(* However calls interleave, break or lose a reply, the gate admits a call *)
(* only where the sum the session was admitted for leaves room for it, and *)
(* no call is admitted, refused or charged twice.                          *)
THEOREM KeepsPromiseHolds == Spec => KeepsPromise
<1>1. SessionInv /\ [Next]_vars => [Promise!Next]_<<Admission, [c \in ScopedCalls |-> Committed[c]]>>
  BY PromiseStep DEF CostOf
<1>2. QED
  BY <1>1, PromiseStart, SessionInit, SessionStep, PTL DEF Spec, KeepsPromise, Promise!Spec

-----------------------------------------------------------------------------
(* Sums over a tenant's months, by induction on the month.  The induction  *)
(* rule is the library's minimal-element theorem, read off for sets.       *)

LEMMA NatSets ==
  ASSUME NEW S \in SUBSET Nat, 0 \in S, \A n \in S : n + 1 \in S
  PROVE  \A n \in Nat : n \in S
<1> SUFFICES ASSUME Nat \ S # {} PROVE FALSE
  OBVIOUS
<1> DEFINE R == OpToRel(<, Nat)
<1>1. IsWellFoundedOn(R, Nat)
  BY NatLessThanWellFounded
<1>2. \A i, j \in Nat : i < j => <<i, j>> \in R
  BY DEF OpToRel
<1> HIDE DEF R
<1>3. PICK x \in Nat \ S : \A y \in Nat \ S : ~(<<y, x>> \in R)
  <2>1. Nat \ S \subseteq Nat
    OBVIOUS
  <2> QED BY <1>1, <2>1, WFMin
<1>4. x \in Nat /\ x \notin S /\ \A y \in Nat \ S : ~(y < x)
  BY <1>2, <1>3
<1>5. x - 1 \in Nat /\ x - 1 < x
  BY <1>4
<1> QED BY <1>4, <1>5

(* f adds up the first n months of tenant t. *)
AddsUp(f, n, rows, t) ==
  f = [m \in 0..n |-> IF m = 0 THEN 0 ELSE f[m - 1] + rows[<<t, m>>]]

(* The recursion of UpTo has a solution, however many months there are. *)
LEMMA AddsUpExists ==
  ASSUME NEW rows, NEW t
  PROVE  \A n \in Nat : \E f : AddsUp(f, n, rows, t)
<1> DEFINE S == {n \in Nat : \E f : AddsUp(f, n, rows, t)}
<1>1. 0 \in S
  <2>1. AddsUp([m \in 0..0 |-> 0], 0, rows, t)
    BY DEF AddsUp
  <2> QED BY <2>1
<1>2. ASSUME NEW n \in S PROVE n + 1 \in S
  <2>1. PICK f : AddsUp(f, n, rows, t)
    OBVIOUS
  <2>2. n \in Nat /\ \A m \in 0..(n + 1) : m # 0 => m - 1 \in 0..n
    OBVIOUS
  <2> DEFINE g == [m \in 0..(n + 1) |-> IF m = 0 THEN 0 ELSE f[m - 1] + rows[<<t, m>>]]
  <2>3. \A m \in 0..n : g[m] = f[m]
    <3>1. \A m \in 0..n : f[m] = IF m = 0 THEN 0 ELSE f[m - 1] + rows[<<t, m>>]
      BY <2>1, Zenon DEF AddsUp
    <3>2. \A m \in 0..n : m \in 0..(n + 1)
      BY <2>2
    <3> QED BY <3>1, <3>2, Zenon
  <2>4. g = [m \in 0..(n + 1) |-> IF m = 0 THEN 0 ELSE g[m - 1] + rows[<<t, m>>]]
    <3>1. \A m \in 0..(n + 1) : (IF m = 0 THEN 0 ELSE f[m - 1] + rows[<<t, m>>])
                               = (IF m = 0 THEN 0 ELSE g[m - 1] + rows[<<t, m>>])
      BY <2>2, <2>3, Zenon
    <3> QED BY <3>1, Zenon
  <2> HIDE DEF g
  <2>5. AddsUp(g, n + 1, rows, t)
    BY <2>4 DEF AddsUp
  <2> QED BY <2>2, <2>5
<1> HIDE DEF S
<1>3. S \in SUBSET Nat
  BY DEF S
<1>4. \A n \in Nat : n \in S
  BY <1>1, <1>2, <1>3, NatSets
<1> QED BY <1>4 DEF S

LEMMA UpToIs ==
  ASSUME NEW rows, NEW t
  PROVE  /\ UpTo(rows, t)[0] = 0
         /\ \A m \in Months : UpTo(rows, t)[m] = UpTo(rows, t)[m - 1] + rows[<<t, m>>]
<1> DEFINE U == UpTo(rows, t)
<1>1. U = CHOOSE f : f = [m \in 0..LastMonth |-> IF m = 0 THEN 0 ELSE f[m - 1] + rows[<<t, m>>]]
  BY Zenon DEF UpTo
<1>2. \E f : f = [m \in 0..LastMonth |-> IF m = 0 THEN 0 ELSE f[m - 1] + rows[<<t, m>>]]
  <2>1. LastMonth \in Nat
    BY GateAssumption
  <2>2. \E f : AddsUp(f, LastMonth, rows, t)
    BY <2>1, AddsUpExists
  <2> QED BY <2>2, Zenon DEF AddsUp
<1> HIDE DEF U
<1>3. U = [m \in 0..LastMonth |-> IF m = 0 THEN 0 ELSE U[m - 1] + rows[<<t, m>>]]
  BY <1>1, <1>2, Zenon
<1>4. \A m \in 0..LastMonth : U[m] = IF m = 0 THEN 0 ELSE U[m - 1] + rows[<<t, m>>]
  BY <1>3, Zenon
<1>5. 0 \in 0..LastMonth /\ \A m \in Months : m \in 0..LastMonth /\ m # 0
  BY GateAssumption DEF Months
<1> QED BY <1>4, <1>5, Zenon DEF U

(* new is old with d more on tenant u's row of month k. *)
Moved(old, new, u, k, d) ==
  \A r \in MonthRows : new[r] = old[r] + (IF r = <<u, k>> THEN d ELSE 0)

(* Adding d to one row of a tenant adds d to the sums from that month on,   *)
(* and to no other tenant's.                                               *)
LEMMA UpToMoves ==
  ASSUME NEW old \in [MonthRows -> Int], NEW new \in [MonthRows -> Int],
         NEW t \in Tenants, NEW u \in Tenants, NEW k \in Months, NEW d \in Int,
         Moved(old, new, u, k, d)
  PROVE  \A m \in 0..LastMonth :
           /\ UpTo(old, t)[m] \in Int
           /\ UpTo(new, t)[m] = UpTo(old, t)[m] + (IF t = u /\ m >= k THEN d ELSE 0)
<1> DEFINE P(m) == /\ UpTo(old, t)[m] \in Int
                   /\ UpTo(new, t)[m] = UpTo(old, t)[m] + (IF t = u /\ m >= k THEN d ELSE 0)
           S == {n \in Nat : n <= LastMonth => P(n)}
<1>1. k \in Nat \ {0} /\ LastMonth \in Nat
  BY GateAssumption DEF Months
<1>2. 0 \in S
  <2>1. UpTo(old, t)[0] = 0 /\ UpTo(new, t)[0] = 0
    BY UpToIs
  <2> QED BY <1>1, <2>1
<1>3. ASSUME NEW n \in S PROVE n + 1 \in S
  <2> SUFFICES ASSUME n + 1 <= LastMonth PROVE P(n + 1)
    OBVIOUS
  <2>1. n \in Nat /\ n + 1 \in Months /\ (n + 1) - 1 = n /\ P(n)
    BY <1>1 DEF Months
  <2>2. <<t, n + 1>> \in MonthRows
    BY <2>1 DEF MonthRows
  <2>3. /\ UpTo(old, t)[n + 1] = UpTo(old, t)[n] + old[<<t, n + 1>>]
        /\ UpTo(new, t)[n + 1] = UpTo(new, t)[n] + new[<<t, n + 1>>]
    <3> HIDE DEF P, S
    <3>1. /\ UpTo(old, t)[n + 1] = UpTo(old, t)[(n + 1) - 1] + old[<<t, n + 1>>]
          /\ UpTo(new, t)[n + 1] = UpTo(new, t)[(n + 1) - 1] + new[<<t, n + 1>>]
      BY <2>1, UpToIs, Zenon
    <3>2. (n + 1) - 1 = n
      BY <2>1
    <3> QED BY <3>1, <3>2, Zenon
  <2>4. /\ old[<<t, n + 1>>] \in Int
        /\ new[<<t, n + 1>>] = old[<<t, n + 1>>] + (IF t = u /\ n + 1 = k THEN d ELSE 0)
    BY <2>2 DEF Moved
  <2>5. /\ UpTo(old, t)[n] \in Int
        /\ UpTo(new, t)[n] = UpTo(old, t)[n] + (IF t = u /\ n >= k THEN d ELSE 0)
    BY <2>1
  <2> QED BY <1>1, <2>1, <2>3, <2>4, <2>5
<1>4. S \in SUBSET Nat
  OBVIOUS
<1> HIDE DEF S
<1>5. \A n \in Nat : n \in S
  BY <1>2, <1>3, <1>4, NatSets
<1>6. \A m \in 0..LastMonth : m \in Nat /\ m <= LastMonth
  BY <1>1
<1>7. \A m \in 0..LastMonth : P(m)
  BY <1>5, <1>6 DEF S
<1> QED BY <1>7

(* Empty rows add up to nothing. *)
LEMMA UpToZero ==
  ASSUME NEW rows, \A r \in MonthRows : rows[r] = 0, NEW t \in Tenants
  PROVE  UpTo(rows, t)[LastMonth] = 0
<1> DEFINE S == {n \in Nat : n <= LastMonth => UpTo(rows, t)[n] = 0}
<1>1. 0 \in S
  BY UpToIs
<1>2. ASSUME NEW n \in S PROVE n + 1 \in S
  <2> SUFFICES ASSUME n + 1 <= LastMonth PROVE UpTo(rows, t)[n + 1] = 0
    OBVIOUS
  <2>1. n \in Nat /\ n + 1 \in Months /\ (n + 1) - 1 = n /\ UpTo(rows, t)[n] = 0
    BY GateAssumption DEF Months
  <2>2. rows[<<t, n + 1>>] = 0
    BY <2>1 DEF MonthRows
  <2>3. UpTo(rows, t)[n + 1] = UpTo(rows, t)[n] + rows[<<t, n + 1>>]
    BY <2>1, UpToIs
  <2> QED BY <2>1, <2>2, <2>3
<1>3. S \in SUBSET Nat
  OBVIOUS
<1> HIDE DEF S
<1>4. \A n \in Nat : n \in S
  BY <1>1, <1>2, <1>3, NatSets
<1>5. LastMonth \in Nat /\ LastMonth <= LastMonth
  BY GateAssumption
<1> QED BY <1>4, <1>5 DEF S

-----------------------------------------------------------------------------
(* The books close. *)

(* What the rows hold for a call at a place.                               *)
NetAt(place, a, w) ==
  IF place \in {"session", "refund", "sent", "lost", "settle"} THEN w
  ELSE IF place \in {"settleSession", "done"} THEN a
  ELSE 0

LEMMA NetType ==
  ASSUME TypeOK
  PROVE  /\ Net \in Amounts
         /\ \A c \in Calls : /\ Net[c] = NetAt(pc[c], actual[c], Worst[c])
                             /\ Worst[c] \in 0..Most /\ actual[c] \in 0..Most
                             /\ TenantOf[c] \in Tenants
<1>1. \A c \in Calls : /\ Worst[c] \in 0..Most /\ actual[c] \in 0..Most
                       /\ TenantOf[c] \in Tenants
  BY GateAssumption DEF TypeOK
<1>2. 0 \in 0..Most
  BY GateAssumption
<1>3. \A c \in Calls : Net[c] = NetAt(pc[c], actual[c], Worst[c])
  BY DEF Net, NetAt
<1>4. \A c \in Calls : Net[c] \in 0..Most
  BY <1>1, <1>2, <1>3 DEF NetAt
<1>5. Net = [c \in Calls |-> Net[c]]
  BY DEF Net
<1> QED BY <1>1, <1>3, <1>4, <1>5 DEF Amounts

(* The same of the next state. *)
LEMMA NetTypeNext ==
  ASSUME TypeOK'
  PROVE  /\ Net' \in Amounts
         /\ \A c \in Calls : Net'[c] = NetAt(pc'[c], actual'[c], Worst[c])
<1>1. \A c \in Calls : /\ Worst[c] \in 0..Most /\ actual'[c] \in 0..Most /\ 0 \in 0..Most
  BY GateAssumption DEF TypeOK
<1>2. \A c \in Calls : Net'[c] = NetAt(pc'[c], actual'[c], Worst[c])
  BY DEF Net, NetAt
<1>3. \A c \in Calls : Net'[c] \in 0..Most
  BY <1>1, <1>2 DEF NetAt
<1>4. Net' = [c \in Calls |-> Net'[c]]
  BY DEF Net
<1> QED BY <1>2, <1>3, <1>4 DEF Amounts

(* The clause of BooksInv about tenant t. *)
BooksOf(t) ==
  (\A c \in CallsOf(t) : pc[c] \notin Broken) =>
    UpTo(spent, t)[LastMonth] = Total(Net, CallsOf(t))

LEMMA SpentMoves ==
  ASSUME spent \in [MonthRows -> Int], spent' \in [MonthRows -> Int],
         NEW t \in Tenants, NEW u \in Tenants, NEW k \in Months, NEW d \in Int,
         Moved(spent, spent', u, k, d)
  PROVE  /\ UpTo(spent, t)[LastMonth] \in Int
         /\ UpTo(spent', t)[LastMonth] = UpTo(spent, t)[LastMonth] + (IF t = u THEN d ELSE 0)
<1>1. \A m \in 0..LastMonth :
        /\ UpTo(spent, t)[m] \in Int
        /\ UpTo(spent', t)[m] = UpTo(spent, t)[m] + (IF t = u /\ m >= k THEN d ELSE 0)
  BY UpToMoves
<1>2. LastMonth \in 0..LastMonth /\ LastMonth >= k
  BY GateAssumption DEF Months
<1> QED BY <1>1, <1>2

(* A write that adds d to one of the tenant's rows for call c, d being what *)
(* they hold for c more than before: the books of every tenant stay true,   *)
(* or the call is a broken one and its own tenant's are not asked for.      *)
LEMMA BooksMove ==
  ASSUME TypeOK, TypeOK', BooksInv, NEW c \in Calls, NEW k \in Months, NEW d \in Int,
         \A e \in Calls : e # c => pc'[e] = pc[e] /\ actual'[e] = actual[e],
         spent' = AddTo(spent, MonthRow(c, k), d) \/ (spent' = spent /\ d = 0),
         \/ pc'[c] \in Broken
         \/ pc[c] \notin Broken /\ Net'[c] = Net[c] + d
  PROVE  \A t \in Tenants : BooksOf(t)'
<1> SUFFICES ASSUME NEW t \in Tenants, \A e \in CallsOf(t) : pc'[e] \notin Broken
             PROVE  UpTo(spent', t)[LastMonth] = Total(Net', CallsOf(t))
  BY DEF BooksOf, CallsOf
<1>1. /\ Net \in Amounts /\ Net' \in Amounts
      /\ \A e \in Calls : Net[e] = NetAt(pc[e], actual[e], Worst[e])
      /\ \A e \in Calls : Net'[e] = NetAt(pc'[e], actual'[e], Worst[e])
      /\ TenantOf[c] \in Tenants
  BY NetType, NetTypeNext
<1>2. \A e \in Calls : e # c => Net'[e] = Net[e]
  BY <1>1
<1>3. CallsOf(t) \in SUBSET Calls /\ (c \in CallsOf(t) <=> TenantOf[c] = t)
  BY DEF CallsOf
<1>4. Moved(spent, spent', TenantOf[c], k, d)
  <2>1. spent \in [MonthRows -> Int] /\ \A r \in MonthRows : spent[r] \in Int
    BY DEF TypeOK
  <2>2. CASE spent' = AddTo(spent, MonthRow(c, k), d)
    <3>1. MonthRow(c, k) = <<TenantOf[c], k>> /\ MonthRow(c, k) \in MonthRows
      BY <1>1 DEF MonthRow, MonthRows
    <3> QED BY <2>1, <2>2, <3>1, AddToType DEF Moved
  <2>3. CASE spent' = spent /\ d = 0
    BY <2>1, <2>3 DEF Moved
  <2> QED BY <2>2, <2>3
<1>5. /\ UpTo(spent, t)[LastMonth] \in Int
      /\ UpTo(spent', t)[LastMonth] = UpTo(spent, t)[LastMonth] + (IF TenantOf[c] = t THEN d ELSE 0)
  <2>1. spent \in [MonthRows -> Int] /\ spent' \in [MonthRows -> Int]
    BY DEF TypeOK
  <2> QED BY <1>1, <1>4, <2>1, SpentMoves, Zenon
<1>6. CASE TenantOf[c] # t
  <2>1. UpTo(spent, t)[LastMonth] = Total(Net, CallsOf(t))
    BY <1>6 DEF BooksInv, CallsOf
  <2>2. Total(Net', CallsOf(t)) = Total(Net, CallsOf(t))
    BY <1>1, <1>2, <1>3, <1>6, TotalSame
  <2> QED BY <1>5, <1>6, <2>1, <2>2
<1>7. CASE TenantOf[c] = t
  <2>1. pc[c] \notin Broken /\ Net'[c] = Net[c] + d
    BY <1>3, <1>7
  <2>2. UpTo(spent, t)[LastMonth] = Total(Net, CallsOf(t))
    BY <1>7, <2>1 DEF BooksInv, CallsOf
  <2>3. Net' = [Net EXCEPT ![c] = Net'[c]]
    BY <1>1, <1>2 DEF Amounts
  <2>4. Net'[c] \in 0..Most /\ Net[c] \in Int /\ Net'[c] \in Int
    BY <1>1, GateAssumption DEF Amounts
  <2>5. Total(Net', CallsOf(t)) = Total(Net, CallsOf(t)) + (Net'[c] - Net[c])
    <3>1. Total([Net EXCEPT ![c] = Net'[c]], CallsOf(t))
            = Total(Net, CallsOf(t)) + (IF c \in CallsOf(t) THEN Net'[c] - Net[c] ELSE 0)
      BY <1>1, <1>3, <2>4, TotalSet
    <3> QED BY <1>3, <1>7, <2>3, <3>1
  <2>6. Total(Net, CallsOf(t)) \in Int
    BY <1>3, UnitsFinite
  <2> QED BY <1>5, <1>7, <2>1, <2>2, <2>4, <2>5, <2>6
<1> QED BY <1>6, <1>7

LEMMA BooksStart == Init => BooksInv
<1> SUFFICES ASSUME Init PROVE BooksInv
  OBVIOUS
<1>1. \A c \in Calls : pc[c] = "new" /\ actual[c] = 0 /\ Net[c] = 0
  BY DEF Init, Net
<1>2. ASSUME NEW t \in Tenants PROVE UpTo(spent, t)[LastMonth] = Total(Net, CallsOf(t))
  <2>1. CallsOf(t) \in SUBSET Calls
    BY DEF CallsOf
  <2>2. Total(Net, CallsOf(t)) = 0
    BY <1>1, <2>1, TotalZero
  <2>3. \A r \in MonthRows : spent[r] = 0
    BY DEF Init
  <2> QED BY <2>2, <2>3, UpToZero
<1> QED BY <1>1, <1>2 DEF BooksInv

(* What a step that moves one call does to the tenant's rows.              *)
BookStep(c, k, d) ==
  /\ \A e \in Calls : e # c => pc'[e] = pc[e] /\ actual'[e] = actual[e]
  /\ spent' = AddTo(spent, MonthRow(c, k), d) \/ (spent' = spent /\ d = 0)
  /\ \/ pc'[c] \in Broken
     \/ pc[c] \notin Broken /\ Net'[c] = Net[c] + d
  /\ pc'[c] \notin Answered => actual'[c] = 0

LEMMA BooksStepped ==
  ASSUME TypeOK, TypeOK', BooksInv,
         NEW c \in Calls, NEW k \in Months, NEW d \in Int, BookStep(c, k, d)
  PROVE  BooksInv'
<1>1. \A t \in Tenants : BooksOf(t)'
  BY BooksMove DEF BookStep
<1>2. \A e \in Calls : pc'[e] \notin Answered => actual'[e] = 0
  BY DEF BooksInv, BookStep
<1> QED BY <1>1, <1>2 DEF BooksInv, BooksOf

LEMMA BooksStep == TypeOK /\ BooksInv /\ [Next]_vars => BooksInv'
<1> SUFFICES ASSUME TypeOK, BooksInv, [Next]_vars PROVE BooksInv'
  OBVIOUS
<1>1. TypeOK'
  BY TypeStep
<1>2. \A c \in Calls : /\ Net[c] = NetAt(pc[c], actual[c], Worst[c])
                       /\ Net'[c] = NetAt(pc'[c], actual'[c], Worst[c])
                       /\ Worst[c] \in Int /\ actual[c] \in Int
                       /\ actual[c] - Worst[c] \in Int /\ -Worst[c] \in Int
                       /\ period[c] \in Months /\ settlePeriod[c] \in Months
                       /\ pc[c] \notin Answered => actual[c] = 0
                       /\ pc[c] \in Places
  <2>1. \A c \in Calls : Worst[c] \in 0..Most /\ actual[c] \in 0..Most
    BY NetType
  <2>2. \A c \in Calls : Worst[c] \in Int /\ actual[c] \in Int
    BY <2>1, GateAssumption
  <2>3. \A c \in Calls : period[c] \in Months /\ settlePeriod[c] \in Months /\ pc[c] \in Places
    BY DEF TypeOK
  <2> QED BY <1>1, <2>2, <2>3, NetType, NetTypeNext DEF BooksInv
<1> USE DEF NetAt, Goto, Broken, Answered
<1>3. ASSUME NEW c \in Calls, Start(c) PROVE BooksInv'
  <2>1. BookStep(c, period[c], 0)
    BY <1>2, <1>3 DEF BookStep, Start, TypeOK, ledger
  <2> QED BY <1>1, <1>2, <2>1, BooksStepped
<1>4. ASSUME NEW c \in Calls, ReadLimit(c) PROVE BooksInv'
  <2>1. pc[c] = "limit" /\ pc'[c] \in {"refused", "reserve"}
    BY <1>4 DEF ReadLimit, TypeOK
  <2>2. BookStep(c, period[c], 0)
    BY <1>2, <1>4, <2>1 DEF BookStep, ReadLimit, TypeOK, ledger
  <2> QED BY <1>1, <1>2, <2>2, BooksStepped
<1>5. ASSUME NEW c \in Calls, ReserveTenant(c) PROVE BooksInv'
  <2>1. /\ pc[c] = "reserve" /\ actual' = actual
        /\ \A e \in Calls : e # c => pc'[e] = pc[e]
        /\ \/ pc'[c] \in {"session", "sent"} /\ spent' = AddTo(spent, MonthRow(c, period[c]), Worst[c])
           \/ pc'[c] = "refused" /\ spent' = spent
    BY <1>5 DEF ReserveTenant, HoldTenant, TypeOK, ledger
  <2>2. BookStep(c, period[c], Worst[c]) \/ BookStep(c, period[c], 0)
    BY <1>2, <2>1 DEF BookStep
  <2> QED BY <1>1, <1>2, <2>2, BooksStepped
<1>6. ASSUME NEW c \in Calls, ReserveSession(c) PROVE BooksInv'
  <2>1. /\ pc[c] = "session" /\ actual' = actual /\ spent' = spent
        /\ \A e \in Calls : e # c => pc'[e] = pc[e]
        /\ pc'[c] \in {"sent", "refund"}
    BY <1>6 DEF ReserveSession, HoldSession, TypeOK, ledger
  <2>2. BookStep(c, period[c], 0)
    BY <1>2, <2>1 DEF BookStep
  <2> QED BY <1>1, <1>2, <2>2, BooksStepped
<1>7. ASSUME NEW c \in Calls, RefundTenant(c) PROVE BooksInv'
  <2>1. /\ pc[c] = "refund" /\ pc'[c] = "refused" /\ actual' = actual
        /\ \A e \in Calls : e # c => pc'[e] = pc[e]
        /\ spent' = AddTo(spent, MonthRow(c, period[c]), -Worst[c])
    BY <1>7 DEF RefundTenant, ReleaseTenant, TypeOK
  <2>2. BookStep(c, period[c], -Worst[c])
    BY <1>2, <2>1 DEF BookStep
  <2> QED BY <1>1, <1>2, <2>2, BooksStepped
<1>8. ASSUME NEW c \in Calls, Answer(c) PROVE BooksInv'
  <2>1. /\ pc[c] = "sent" /\ pc'[c] = "settle" /\ spent' = spent
        /\ \A e \in Calls : e # c => pc'[e] = pc[e] /\ actual'[e] = actual[e]
    BY <1>8 DEF Answer, TypeOK, ledger
  <2>2. BookStep(c, period[c], 0)
    BY <1>2, <2>1 DEF BookStep
  <2> QED BY <1>1, <1>2, <2>2, BooksStepped
<1>9. ASSUME NEW c \in Calls, SettleTenant(c) PROVE BooksInv'
  <2>1. /\ pc[c] = "settle" /\ pc'[c] \in {"settleSession", "done"} /\ actual' = actual
        /\ \A e \in Calls : e # c => pc'[e] = pc[e]
        /\ spent' = AddTo(spent, MonthRow(c, settlePeriod[c]), actual[c] - Worst[c])
    BY <1>9 DEF SettleTenant, SettleTenantRow, TypeOK
  <2>2. BookStep(c, settlePeriod[c], actual[c] - Worst[c])
    BY <1>2, <2>1 DEF BookStep
  <2> QED BY <1>1, <1>2, <2>2, BooksStepped
<1>10. ASSUME NEW c \in Calls, SettleSession(c) PROVE BooksInv'
  <2>1. /\ pc[c] = "settleSession" /\ pc'[c] = "done" /\ actual' = actual /\ spent' = spent
        /\ \A e \in Calls : e # c => pc'[e] = pc[e]
    BY <1>10 DEF SettleSession, SettleSessionRow, TypeOK
  <2>2. BookStep(c, period[c], 0)
    BY <1>2, <2>1 DEF BookStep
  <2> QED BY <1>1, <1>2, <2>2, BooksStepped
<1>11. ASSUME NEW c \in Calls, Break(c) PROVE BooksInv'
  <2>1. /\ pc[c] \in Places /\ pc[c] \notin Ended \cup {"new"}
        /\ pc'[c] = BrokenPlace(pc[c]) /\ actual' = actual
        /\ \A e \in Calls : e # c => pc'[e] = pc[e]
    BY <1>2, <1>11 DEF Break, TypeOK
  <2>2. CASE pc[c] = "sent"
    <3>1. pc'[c] = "lost"
      BY <2>1, <2>2 DEF BrokenPlace
    <3>2. spent' = spent
      BY <1>11, <2>2 DEF Break, WriteLands, ledger
    <3>3. BookStep(c, period[c], 0)
      BY <1>2, <2>1, <2>2, <3>1, <3>2 DEF BookStep
    <3> QED BY <1>1, <1>2, <3>3, BooksStepped
  <2>3. CASE pc[c] # "sent"
    <3>1. pc'[c] \in Broken
      BY <2>1, <2>3 DEF BrokenPlace
    <3>2. \/ spent' = spent
          \/ spent' = AddTo(spent, MonthRow(c, period[c]), Worst[c])
          \/ spent' = AddTo(spent, MonthRow(c, period[c]), -Worst[c])
          \/ spent' = AddTo(spent, MonthRow(c, settlePeriod[c]), actual[c] - Worst[c])
      BY <1>11 DEF Break, WriteLands, HoldTenant, HoldSession, ReleaseTenant,
                   SettleTenantRow, SettleSessionRow, ledger
    <3>3. pc'[c] \notin Answered => actual'[c] = 0
      <4>1. pc'[c] = "unsettled" \/ pc[c] \notin {"settle", "settleSession"}
        BY <2>1 DEF BrokenPlace
      <4> QED BY <1>2, <2>1, <4>1 DEF Ended
    <3>4. \/ BookStep(c, period[c], 0) \/ BookStep(c, period[c], Worst[c])
          \/ BookStep(c, period[c], -Worst[c])
          \/ BookStep(c, settlePeriod[c], actual[c] - Worst[c])
      BY <2>1, <3>1, <3>2, <3>3 DEF BookStep
    <3> QED BY <1>1, <1>2, <3>4, BooksStepped
  <2> QED BY <2>2, <2>3
<1>12. CASE UNCHANGED <<pc, actual, spent>>
  BY <1>12 DEF BooksInv, Net, CallsOf
<1> QED
  BY <1>3, <1>4, <1>5, <1>6, <1>7, <1>8, <1>9, <1>10, <1>11, <1>12
  DEF Next, Generate, SetCap, NextMonth, vars, gateVars, ledger

(* gate.ts, spend-store.ts: when none of its calls broke, whatever months   *)
(* they straddled and however they interleaved, a tenant's monthly rows     *)
(* together hold exactly what its calls cost and refused calls nothing, and *)
(* so does each session's row.                                             *)
THEOREM BooksCloseHolds == Spec => []BooksClose
<1>1. TypeOK /\ BooksInv /\ SessionInv => BooksClose
  <2> SUFFICES ASSUME TypeOK, BooksInv, SessionInv PROVE BooksClose
    OBVIOUS
  <2>1. /\ Net \in Amounts /\ actual \in Amounts /\ sessionHeld \in Amounts
        /\ \A c \in Calls : Net[c] = NetAt(pc[c], actual[c], Worst[c])
    BY NetType, ReservedTypes DEF Amounts, TypeOK
  <2>2. \A c \in Calls : pc[c] \in {"new", "refused"} => actual[c] = 0
    BY DEF BooksInv, Answered
  <2>3. ASSUME NEW t \in Tenants, \A c \in CallsOf(t) : pc[c] \in {"new", "refused", "done"}
        PROVE  UpTo(spent, t)[LastMonth] = Total(actual, CallsOf(t))
    <3>1. CallsOf(t) \in SUBSET Calls
      BY DEF CallsOf
    <3>2. \A c \in CallsOf(t) : pc[c] \notin Broken
      BY <2>3 DEF Broken
    <3>3. \A c \in CallsOf(t) : Net[c] = actual[c]
      BY <2>1, <2>2, <2>3, <3>1 DEF NetAt
    <3>4. Total(Net, CallsOf(t)) = Total(actual, CallsOf(t))
      BY <2>1, <3>1, <3>3, TotalSame
    <3>5. UpTo(spent, t)[LastMonth] = Total(Net, CallsOf(t))
      BY <3>2 DEF BooksInv
    <3> QED BY <3>4, <3>5
  <2>4. ASSUME NEW r \in SessionRows, \A c \in InSession(r) : pc[c] \in {"new", "refused", "done"}
        PROVE  sessionSpent[r] = Total(actual, InSession(r))
    <3>1. InSession(r) \in SUBSET Calls /\ \A c \in InSession(r) : SessionOn(c)
      BY DEF InSession
    <3>2. \A c \in InSession(r) : SessionHoldOf(c)
      BY <3>1 DEF SessionInv
    <3>3. \A c \in InSession(r) : sessionHeld[c] = actual[c]
      BY <2>2, <2>4, <3>1, <3>2 DEF SessionHoldOf
    <3>4. Total(sessionHeld, InSession(r)) = Total(actual, InSession(r))
      BY <2>1, <3>1, <3>3, TotalSame
    <3> QED BY <3>4 DEF SessionInv, SessionBooks
  <2> QED BY <2>3, <2>4 DEF BooksClose
<1> QED
  BY <1>1, TypeInit, TypeStep, BooksStart, BooksStep, SessionInit, SessionStep, PTL DEF Spec
===============================================================================
