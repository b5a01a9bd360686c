---------------------------- MODULE AdmissionProofs ----------------------------
(***************************************************************************)
(* Theorems about who is admitted, and for how much: the LiteLLM hooks'    *)
(* ledger (AdmissionHook), for any finite set of calls, any processes,     *)
(* prices and months; and the claims behind them with their verdicts and   *)
(* caches (Claims), for any objects, passes, refreshes and settings.       *)
(* First the sums both are about: that a fold over a set does not depend   *)
(* on its order, and what it does when one term changes.                   *)
(***************************************************************************)
EXTENDS AdmissionHook, Claims, FiniteSetTheorems, WellFoundedInduction, TLAPS

-----------------------------------------------------------------------------
(***************************************************************************)
(* Sums.  The fold of the community modules adds up a set in some order;   *)
(* what it returns does not depend on it.                                  *)
(***************************************************************************)
LEMMA NatSets ==
  ASSUME NEW S \in SUBSET Nat, 0 \in S, \A n \in S : n + 1 \in S
  PROVE  \A n \in Nat : n \in S
<1> SUFFICES ASSUME Nat \ S # {} PROVE FALSE
  OBVIOUS
<1> DEFINE R == OpToRel(<, Nat)
<1>1. IsWellFoundedOn(R, Nat)
  BY NatLessThanWellFounded
<1>2. \A i, j \in Nat : i < j => <<i, j>> \in R
  BY DEF OpToRel
<1> HIDE DEF R
<1>3. PICK x \in Nat \ S : \A y \in Nat \ S : ~(<<y, x>> \in R)
  <2>1. Nat \ S \subseteq Nat
    OBVIOUS
  <2> QED BY <1>1, <2>1, WFMin
<1>4. x \in Nat /\ x \notin S /\ \A y \in Nat \ S : ~(y < x)
  BY <1>2, <1>3
<1>5. x - 1 \in Nat /\ x - 1 < x
  BY <1>4
<1> QED BY <1>4, <1>5

(* What holds of the empty set, and of a set with one member more, holds of  *)
(* every subset of a finite set.                                             *)
LEMMA FinSets ==
  ASSUME NEW U, IsFiniteSet(U), NEW X \in SUBSET (SUBSET U), {} \in X,
         \A T \in X, c \in U : c \notin T => T \cup {c} \in X
  PROVE  \A T \in SUBSET U : T \in X
<1> DEFINE S == {n \in Nat : \A T \in SUBSET U : Cardinality(T) = n => T \in X}
<1>0. \A T \in SUBSET U : IsFiniteSet(T) /\ Cardinality(T) \in Nat
  BY FS_Subset, FS_CardinalityType
<1>1. 0 \in S
  BY <1>0, FS_EmptySet
<1>2. ASSUME NEW n \in S PROVE n + 1 \in S
  <2> SUFFICES ASSUME NEW T \in SUBSET U, Cardinality(T) = n + 1 PROVE T \in X
    BY <1>2
  <2>1. T # {}
    BY FS_EmptySet, <1>2
  <2>2. PICK c \in T : TRUE
    BY <2>1
  <2>3. Cardinality(T \ {c}) = n
    BY <1>0, FS_RemoveElement, <2>2, <1>2
  <2>4. T \ {c} \in X
    BY <2>3, <1>2
  <2>5. (T \ {c}) \cup {c} = T /\ c \in U /\ c \notin T \ {c}
    BY <2>2
  <2> QED BY <2>4, <2>5
<1> HIDE DEF S
<1>3. \A n \in Nat : n \in S
  <2>1. S \in SUBSET Nat
    BY DEF S
  <2> QED BY <1>1, <1>2, <2>1, NatSets
<1> QED BY <1>0, <1>3 DEF S

Pick(s) == CHOOSE x \in s : TRUE

(* I adds up every subset of T that has at most n members. *)
AddsUp(I, n, T, f) ==
  I = [s \in {u \in SUBSET T : Cardinality(u) <= n} |->
         IF s = {} THEN 0 ELSE f[Pick(s)] + I[s \ {Pick(s)}]]

LEMMA PickIs == \A s : s # {} => Pick(s) \in s
BY DEF Pick

LEMMA AddsUpExists ==
  ASSUME NEW T, IsFiniteSet(T), NEW f
  PROVE  \A n \in Nat : \E I : AddsUp(I, n, T, f)
<1> DEFINE S == {n \in Nat : \E I : AddsUp(I, n, T, f)}
           Of(n) == {u \in SUBSET T : Cardinality(u) <= n}
<1>0. \A u \in SUBSET T : Cardinality(u) \in Nat /\ (Cardinality(u) = 0 <=> u = {})
  BY FS_Subset, FS_CardinalityType, FS_EmptySet
<1>1. 0 \in S
  <2>1. AddsUp([s \in Of(0) |-> 0], 0, T, f)
    <3>1. \A s \in Of(0) : s = {}
      BY <1>0
    <3> QED BY <3>1 DEF AddsUp
  <2> QED BY <2>1
<1>2. ASSUME NEW n \in S PROVE n + 1 \in S
  <2>1. PICK I : AddsUp(I, n, T, f)
    BY <1>2
  <2> DEFINE J == [s \in Of(n + 1) |-> IF s = {} THEN 0 ELSE f[Pick(s)] + I[s \ {Pick(s)}]]
  <2>2. \A s \in Of(n + 1) : s # {} => s \ {Pick(s)} \in Of(n)
    <3> SUFFICES ASSUME NEW s \in Of(n + 1), s # {} PROVE s \ {Pick(s)} \in Of(n)
      OBVIOUS
    <3>1. Pick(s) \in s /\ IsFiniteSet(s)
      BY PickIs, FS_Subset
    <3>2. Cardinality(s \ {Pick(s)}) = Cardinality(s) - 1
      BY <3>1, FS_RemoveElement
    <3> QED BY <1>0, <3>2
  <2>3. Of(n) \subseteq Of(n + 1)
    BY <1>0
  <2>4. \A s \in Of(n) : J[s] = I[s]
    <3>1. \A s \in Of(n) : I[s] = IF s = {} THEN 0 ELSE f[Pick(s)] + I[s \ {Pick(s)}]
      BY <2>1, Zenon DEF AddsUp
    <3> QED BY <2>3, <3>1, Zenon
  <2>5. J = [s \in Of(n + 1) |-> IF s = {} THEN 0 ELSE f[Pick(s)] + J[s \ {Pick(s)}]]
    <3>1. \A s \in Of(n + 1) : (IF s = {} THEN 0 ELSE f[Pick(s)] + I[s \ {Pick(s)}])
                             = (IF s = {} THEN 0 ELSE f[Pick(s)] + J[s \ {Pick(s)}])
      BY <2>2, <2>4, Zenon
    <3> QED BY <3>1, Zenon
  <2> HIDE DEF J
  <2>6. AddsUp(J, n + 1, T, f)
    BY <2>5 DEF AddsUp
  <2> QED BY <2>6
<1> HIDE DEF S
<1>3. S \in SUBSET Nat
  BY DEF S
<1>4. \A n \in Nat : n \in S
  BY <1>1, <1>2, <1>3, NatSets
<1> QED BY <1>4 DEF S

(* I adds up every subset of T. *)
Adder(I, T, f) ==
  I = [s \in SUBSET T |-> IF s = {} THEN 0 ELSE f[Pick(s)] + I[s \ {Pick(s)}]]

LEMMA AdderExists ==
  ASSUME NEW T, IsFiniteSet(T), NEW f PROVE \E I : Adder(I, T, f)
<1>1. Cardinality(T) \in Nat
  BY FS_CardinalityType
<1>2. PICK I : AddsUp(I, Cardinality(T), T, f)
  BY <1>1, AddsUpExists
<1>3. {u \in SUBSET T : Cardinality(u) <= Cardinality(T)} = SUBSET T
  BY FS_Subset
<1> QED BY <1>2, <1>3 DEF AddsUp, Adder

LEMMA SumIsAdder ==
  ASSUME NEW T, NEW f
  PROVE  SumFunctionOnSet(f, T) = (CHOOSE I : Adder(I, T, f))[T]
BY DEF SumFunctionOnSet, FoldFunctionOnSet, MapThenFoldSet, Adder, Pick

(* What an adder of a finite set of integers says, in whatever order.        *)
LEMMA AdderSays ==
  ASSUME NEW U, IsFiniteSet(U), NEW f, \A x \in U : f[x] \in Int,
         NEW A, Adder(A, U, f)
  PROVE  /\ A[{}] = 0
         /\ \A s \in SUBSET U : A[s] \in Int
         /\ \A s \in SUBSET U : \A y \in s : A[s] = f[y] + A[s \ {y}]
         /\ \A T \in SUBSET U : \A I : Adder(I, T, f) => \A s \in SUBSET T : I[s] = A[s]
<1> DEFINE Of(s) == IF s = {} THEN 0 ELSE f[Pick(s)] + A[s \ {Pick(s)}]
<1>0. \A s \in SUBSET U : A[s] = Of(s)
  BY Zenon DEF Adder
<1>1. A[{}] = 0
  BY <1>0
<1>2. \A s \in SUBSET U : s # {} =>
        Pick(s) \in s /\ Cardinality(s \ {Pick(s)}) = Cardinality(s) - 1
  BY PickIs, FS_Subset, FS_RemoveElement
<1>3. \A s \in SUBSET U : Cardinality(s) \in Nat /\ (Cardinality(s) = 0 <=> s = {})
  BY FS_Subset, FS_CardinalityType, FS_EmptySet
<1>4. \A s \in SUBSET U : s # {} => A[s] = f[Pick(s)] + A[s \ {Pick(s)}]
  BY <1>0
<1> HIDE DEF Of
<1>5. \A s \in SUBSET U : A[s] \in Int
  <2> DEFINE S == {n \in Nat : \A s \in SUBSET U : Cardinality(s) = n => A[s] \in Int}
  <2>1. 0 \in S
    BY <1>1, <1>3
  <2>2. ASSUME NEW n \in S PROVE n + 1 \in S
    <3> SUFFICES ASSUME NEW s \in SUBSET U, Cardinality(s) = n + 1 PROVE A[s] \in Int
      OBVIOUS
    <3>1. s # {} /\ Pick(s) \in U /\ s \ {Pick(s)} \in SUBSET U /\ Cardinality(s \ {Pick(s)}) = n
      BY <1>2, <1>3
    <3>2. A[s \ {Pick(s)}] \in Int
      BY <3>1
    <3> QED BY <1>4, <3>1, <3>2
  <2>3. S \in SUBSET Nat
    OBVIOUS
  <2> HIDE DEF S
  <2>4. \A n \in Nat : n \in S
    BY <2>1, <2>2, <2>3, NatSets
  <2> QED BY <1>3, <2>4 DEF S
<1>6. \A s \in SUBSET U : \A y \in s : A[s] = f[y] + A[s \ {y}]
  <2> DEFINE S == {n \in Nat : \A s \in SUBSET U : Cardinality(s) = n =>
                                 \A y \in s : A[s] = f[y] + A[s \ {y}]}
  <2>1. 0 \in S
    BY <1>3
  <2>2. ASSUME NEW n \in S PROVE n + 1 \in S
    <3> SUFFICES ASSUME NEW s \in SUBSET U, Cardinality(s) = n + 1, NEW y \in s
                 PROVE  A[s] = f[y] + A[s \ {y}]
      OBVIOUS
    <3> DEFINE x == Pick(s)
    <3>1. x \in s /\ x \in U /\ y \in U /\ A[s] = f[x] + A[s \ {x}]
      BY <1>2, <1>4
    <3> HIDE DEF x
    <3>2. CASE x = y
      BY <3>1, <3>2
    <3>3. CASE x # y
      <4>1. Cardinality(s \ {x}) = n /\ Cardinality(s \ {y}) = n
        BY <3>1, FS_Subset, FS_RemoveElement, <1>3
      <4>2. y \in s \ {x} /\ x \in s \ {y} /\ (s \ {x}) \ {y} = (s \ {y}) \ {x}
        BY <3>1, <3>3
      <4>3. A[s \ {x}] = f[y] + A[(s \ {x}) \ {y}]
        BY <4>1, <4>2
      <4>4. A[s \ {y}] = f[x] + A[(s \ {y}) \ {x}]
        BY <4>1, <4>2
      <4> DEFINE rest == A[(s \ {x}) \ {y}]
                 less == A[s \ {x}]
                 more == A[s \ {y}]
      <4>5. rest \in Int /\ f[x] \in Int /\ f[y] \in Int
        BY <1>5, <3>1
      <4>6. less = f[y] + rest /\ more = f[x] + rest /\ A[s] = f[x] + less
        BY <3>1, <4>2, <4>3, <4>4
      <4> HIDE DEF rest, less
      <4>7. A[s] = f[y] + more
        BY <4>5, <4>6
      <4> QED BY <4>7
    <3> QED BY <3>2, <3>3
  <2>3. S \in SUBSET Nat
    OBVIOUS
  <2> HIDE DEF S
  <2>4. \A n \in Nat : n \in S
    BY <2>1, <2>2, <2>3, NatSets
  <2> QED BY <1>3, <2>4 DEF S
<1>7. ASSUME NEW T \in SUBSET U, NEW I, Adder(I, T, f) PROVE \A s \in SUBSET T : I[s] = A[s]
  <2> DEFINE S == {n \in Nat : \A s \in SUBSET T : Cardinality(s) = n => I[s] = A[s]}
  <2>0. \A s \in SUBSET T : I[s] = IF s = {} THEN 0 ELSE f[Pick(s)] + I[s \ {Pick(s)}]
    BY <1>7, Zenon DEF Adder
  <2>1. 0 \in S
    BY <1>1, <1>3, <2>0
  <2>2. ASSUME NEW n \in S PROVE n + 1 \in S
    <3> SUFFICES ASSUME NEW s \in SUBSET T, Cardinality(s) = n + 1 PROVE I[s] = A[s]
      OBVIOUS
    <3>1. s \in SUBSET U /\ s # {} /\ s \ {Pick(s)} \in SUBSET T /\ Cardinality(s \ {Pick(s)}) = n
      BY <1>2, <1>3
    <3>2. I[s \ {Pick(s)}] = A[s \ {Pick(s)}]
      BY <3>1
    <3> QED BY <1>4, <2>0, <3>1, <3>2
  <2>3. S \in SUBSET Nat
    OBVIOUS
  <2> HIDE DEF S
  <2>4. \A n \in Nat : n \in S
    BY <2>1, <2>2, <2>3, NatSets
  <2> QED BY <1>3, <2>4 DEF S
<1> QED BY <1>1, <1>5, <1>6, <1>7

(* A sum takes out any of its members. *)
LEMMA SumSplits ==
  ASSUME NEW U, IsFiniteSet(U), NEW f, \A x \in U : f[x] \in Int
  PROVE  /\ SumFunctionOnSet(f, {}) = 0
         /\ \A T \in SUBSET U : SumFunctionOnSet(f, T) \in Int
         /\ \A T \in SUBSET U : \A y \in T :
              SumFunctionOnSet(f, T) = f[y] + SumFunctionOnSet(f, T \ {y})
<1>1. PICK A : Adder(A, U, f)
  BY AdderExists
<1>2. ASSUME NEW T \in SUBSET U PROVE SumFunctionOnSet(f, T) = A[T]
  <2> DEFINE I == CHOOSE J : Adder(J, T, f)
  <2>1. Adder(I, T, f)
    BY FS_Subset, AdderExists
  <2>2. SumFunctionOnSet(f, T) = I[T]
    BY SumIsAdder
  <2> HIDE DEF I
  <2>3. \A s \in SUBSET T : I[s] = A[s]
    BY <1>1, <2>1, AdderSays
  <2> QED BY <2>2, <2>3
<1> DEFINE Sum(T) == SumFunctionOnSet(f, T)
<1>3. \A T \in SUBSET U : Sum(T) = A[T]
  BY <1>2
<1> HIDE DEF Sum
<1>4. /\ A[{}] = 0 /\ \A s \in SUBSET U : A[s] \in Int
      /\ \A s \in SUBSET U : \A y \in s : A[s] = f[y] + A[s \ {y}]
  BY <1>1, AdderSays
<1>5. Sum({}) = 0 /\ \A T \in SUBSET U : Sum(T) \in Int
  BY <1>3, <1>4
<1>6. \A T \in SUBSET U : \A y \in T : Sum(T) = f[y] + Sum(T \ {y})
  BY <1>3, <1>4
<1> QED BY <1>5, <1>6 DEF Sum

Finite(U, f) == IsFiniteSet(U) /\ \A x \in U : f[x] \in Int

LEMMA SumSame ==
  ASSUME NEW U, NEW f, NEW g, Finite(U, f), Finite(U, g), NEW T \in SUBSET U,
         \A x \in T : f[x] = g[x]
  PROVE  SumFunctionOnSet(f, T) = SumFunctionOnSet(g, T)
<1> DEFINE F(s) == SumFunctionOnSet(f, s)
           G(s) == SumFunctionOnSet(g, s)
           X == {s \in SUBSET T : F(s) = G(s)}
<1>1. /\ F({}) = 0 /\ \A s \in SUBSET U : F(s) \in Int
      /\ \A s \in SUBSET U : \A y \in s : F(s) = f[y] + F(s \ {y})
  BY SumSplits DEF Finite
<1>2. /\ G({}) = 0 /\ \A s \in SUBSET U : G(s) \in Int
      /\ \A s \in SUBSET U : \A y \in s : G(s) = g[y] + G(s \ {y})
  BY SumSplits DEF Finite
<1> HIDE DEF F, G
<1>3. {} \in X
  BY <1>1, <1>2
<1>4. ASSUME NEW s \in X, NEW c \in T, c \notin s PROVE s \cup {c} \in X
  <2>1. (s \cup {c}) \ {c} = s /\ s \cup {c} \in SUBSET U /\ c \in s \cup {c}
    BY <1>4
  <2>2. F(s \cup {c}) = f[c] + F(s) /\ G(s \cup {c}) = g[c] + G(s)
    BY <1>1, <1>2, <2>1
  <2> QED BY <2>2
<1>5. IsFiniteSet(T) /\ X \in SUBSET (SUBSET T)
  BY FS_Subset DEF Finite
<1> HIDE DEF X
<1>6. \A s \in SUBSET T : s \in X
  BY <1>3, <1>4, <1>5, FinSets
<1>7. F(T) = G(T)
  BY <1>6 DEF X
<1> QED BY <1>7 DEF F, G

(* From T to V and from f to g only x comes, goes or changes. *)
LEMMA SumMoves ==
  ASSUME NEW U, NEW f, NEW g, Finite(U, f), Finite(U, g), NEW T \in SUBSET U, NEW V \in SUBSET U,
         NEW x \in U, T \ {x} = V \ {x}, \A y \in V \ {x} : g[y] = f[y]
  PROVE  /\ SumFunctionOnSet(f, T) \in Int
         /\ SumFunctionOnSet(g, V) = SumFunctionOnSet(f, T)
              - (IF x \in T THEN f[x] ELSE 0) + (IF x \in V THEN g[x] ELSE 0)
<1> DEFINE F(s) == SumFunctionOnSet(f, s)
           G(s) == SumFunctionOnSet(g, s)
           rest == V \ {x}
<1>1. F(T) \in Int /\ F(rest) \in Int /\ F(T) = (IF x \in T THEN f[x] ELSE 0) + F(rest)
  <2>1. F(T) \in Int /\ F(rest) \in Int /\ (x \in T => F(T) = f[x] + F(T \ {x}))
    BY SumSplits DEF Finite
  <2>2. T \ {x} = rest /\ (x \notin T => T = rest)
    OBVIOUS
  <2> HIDE DEF F, rest
  <2> QED BY <2>1, <2>2
<1>2. G(V) = (IF x \in V THEN g[x] ELSE 0) + G(rest)
  <2>1. G(V) \in Int /\ G(rest) \in Int /\ (x \in V => G(V) = g[x] + G(V \ {x}))
    BY SumSplits DEF Finite
  <2>2. V \ {x} = rest /\ (x \notin V => V = rest)
    OBVIOUS
  <2> HIDE DEF G, rest
  <2> QED BY <2>1, <2>2
<1>3. F(rest) = G(rest)
  BY SumSame
<1>4. f[x] \in Int /\ g[x] \in Int
  BY DEF Finite
<1>5. G(V) = F(T) - (IF x \in T THEN f[x] ELSE 0) + (IF x \in V THEN g[x] ELSE 0)
  <2> DEFINE u == F(rest)
             v == F(T)
             w == G(V)
  <2>1. /\ u \in Int /\ v = (IF x \in T THEN f[x] ELSE 0) + u
        /\ w = (IF x \in V THEN g[x] ELSE 0) + u
    BY <1>1, <1>2, <1>3
  <2> HIDE DEF u, v, w
  <2>2. w = v - (IF x \in T THEN f[x] ELSE 0) + (IF x \in V THEN g[x] ELSE 0)
    BY <1>4, <2>1
  <2> QED BY <2>2 DEF v, w
<1> QED BY <1>1, <1>5

(* Less on a smaller set is less. *)
LEMMA SumLess ==
  ASSUME NEW U, NEW f, NEW g, Finite(U, f), Finite(U, g), NEW V \in SUBSET U, NEW T \in SUBSET V,
         \A x \in T : f[x] <= g[x], \A x \in V \ T : 0 <= g[x]
  PROVE  SumFunctionOnSet(f, T) <= SumFunctionOnSet(g, V)
<1> DEFINE F(s) == SumFunctionOnSet(f, s)
           G(s) == SumFunctionOnSet(g, s)
           X == {s \in SUBSET V : F(s \cap T) <= G(s)}
<1>1. /\ F({}) = 0 /\ \A s \in SUBSET U : F(s) \in Int
      /\ \A s \in SUBSET U : \A y \in s : F(s) = f[y] + F(s \ {y})
  BY SumSplits DEF Finite
<1>2. /\ G({}) = 0 /\ \A s \in SUBSET U : G(s) \in Int
      /\ \A s \in SUBSET U : \A y \in s : G(s) = g[y] + G(s \ {y})
  BY SumSplits DEF Finite
<1> HIDE DEF F, G
<1>3. {} \in X
  <2>1. {} \cap T = {}
    OBVIOUS
  <2> QED BY <1>1, <1>2, <2>1
<1>4. ASSUME NEW s \in X, NEW c \in V, c \notin s PROVE s \cup {c} \in X
  <2>0. f[c] \in Int /\ g[c] \in Int /\ F(s \cap T) \in Int /\ G(s) \in Int
    BY <1>1, <1>2 DEF Finite
  <2>1. G(s \cup {c}) = g[c] + G(s)
    <3>1. (s \cup {c}) \ {c} = s /\ s \cup {c} \in SUBSET U /\ c \in s \cup {c}
      BY <1>4
    <3> QED BY <1>2, <3>1
  <2>2. CASE c \in T
    <3>1. /\ (s \cup {c}) \cap T = (s \cap T) \cup {c}
          /\ ((s \cap T) \cup {c}) \ {c} = s \cap T /\ (s \cap T) \cup {c} \in SUBSET U
      BY <1>4, <2>2
    <3>2. F((s \cup {c}) \cap T) = f[c] + F(s \cap T)
      BY <1>1, <3>1
    <3>3. f[c] <= g[c] /\ F(s \cap T) <= G(s)
      BY <2>2
    <3>4. F((s \cup {c}) \cap T) <= G(s \cup {c})
      BY <2>0, <2>1, <3>2, <3>3
    <3> QED BY <3>4
  <2>3. CASE c \notin T
    <3>1. (s \cup {c}) \cap T = s \cap T
      BY <2>3
    <3>2. 0 <= g[c] /\ F(s \cap T) <= G(s)
      BY <2>3
    <3>3. F((s \cup {c}) \cap T) = F(s \cap T)
      BY <3>1
    <3>4. F((s \cup {c}) \cap T) <= G(s \cup {c})
      BY <2>0, <2>1, <3>2, <3>3
    <3> QED BY <3>4
  <2> QED BY <2>2, <2>3
<1>5. IsFiniteSet(V) /\ X \in SUBSET (SUBSET V)
  BY FS_Subset DEF Finite
<1>6. V \cap T = T
  OBVIOUS
<1> HIDE DEF X
<1>7. V \in X
  BY <1>3, <1>4, <1>5, FinSets
<1>8. F(T) <= G(V)
  BY <1>6, <1>7 DEF X
<1> QED BY <1>8 DEF F, G

LEMMA SumOfNothing ==
  ASSUME NEW U, NEW f, Finite(U, f), \A x \in U : f[x] = 0, NEW T \in SUBSET U
  PROVE  SumFunctionOnSet(f, T) = 0
<1> DEFINE X == {s \in SUBSET T : SumFunctionOnSet(f, s) = 0}
<1>1. {} \in X
  BY SumSplits DEF Finite
<1>2. ASSUME NEW s \in X, NEW c \in T, c \notin s PROVE s \cup {c} \in X
  <2>1. (s \cup {c}) \ {c} = s /\ s \cup {c} \in SUBSET U /\ c \in s \cup {c}
    BY <1>2
  <2>2. SumFunctionOnSet(f, s \cup {c}) = f[c] + SumFunctionOnSet(f, (s \cup {c}) \ {c})
    BY <2>1, SumSplits DEF Finite
  <2> QED BY <2>1, <2>2
<1>3. IsFiniteSet(T) /\ X \in SUBSET (SUBSET T)
  BY FS_Subset DEF Finite
<1> HIDE DEF X
<1>4. T \in X
  BY <1>1, <1>2, <1>3, FinSets
<1> QED BY <1>4 DEF X

-----------------------------------------------------------------------------
(***************************************************************************)
(* The hook.  Where a call is says what the ledger holds for it and if its *)
(* reservation is parked; an entry is of a call of its process, and the    *)
(* only one of that call; a claim that is cached is the table's, or was    *)
(* read before the table's last change.                                    *)
(***************************************************************************)
HookTypes ==
  /\ now \in Times /\ month \in Months
  /\ spent \in [Rows -> Int] /\ written \subseteq Rows
  /\ pc \in [Calls -> Places] /\ proc \in [Calls -> Processes] /\ named \subseteq Calls
  /\ budget \in [Calls -> Nat] /\ limit \in [Calls -> Nat] /\ period \in [Calls -> Months]
  /\ hooks \in [Calls -> SUBSET (Success \cup Failure)]
  /\ billed \in [Calls -> Costs] /\ usage \in [Calls -> Costs] /\ delta \in [Calls -> Int]
  /\ held \in [Calls -> Int] /\ sessionHeld \in [Calls -> Int]
  /\ broke \subseteq Calls /\ swept \subseteq Calls

Entries == [call : Calls, at : Times]

StashInv ==
  /\ stash \in [Processes -> SUBSET Entries]
  /\ \A p \in Processes : \A e, f \in stash[p] : proc[e.call] = p /\ (e.call = f.call => e = f)

Cached == [grant : Grants, at : Times]

FreshInv ==
  /\ grants \in [Tenants -> Grants] /\ changedAt \in [Tenants -> Int]
  /\ kept \in [Processes -> [Tenants -> SUBSET Cached]]
  /\ \A p \in Processes, t \in Tenants :
       /\ kept[p][t] = {} \/ \E e \in Cached : kept[p][t] = {e}
       /\ \A e \in kept[p][t] : e.at <= now /\ (e.grant = grants[t] \/ e.at <= changedAt[t])

Entry(c) == \E e \in stash[proc[c]] : e.call = c

HeldBoth(c, n) == held[c] = n /\ sessionHeld[c] = IF c \in named THEN n ELSE 0

CallInv(c) ==
  /\ pc[c] \in {"new", "admit"} => HeldBoth(c, 0) /\ limit[c] = 0
  /\ pc[c] \in {"new", "admit", "session", "release", "sent", "refused"} => usage[c] = 0
  /\ pc[c] \in {"session", "release"} => c \in named /\ held[c] = Worst[c] /\ sessionHeld[c] = 0
  /\ pc[c] = "sent" => HeldBoth(c, Worst[c]) /\ (Entry(c) \/ c \in swept)
  /\ pc[c] = "refused" => held[c] \in {0, Worst[c]} /\ sessionHeld[c] \in {0, Worst[c]}
  /\ pc[c] = "answered" =>
       /\ held[c] \in {Worst[c], usage[c]}
       /\ sessionHeld[c] \in IF c \in named THEN {Worst[c], usage[c]} ELSE {0}
       /\ IF Entry(c) \/ c \in swept THEN HeldBoth(c, Worst[c])
          ELSE c \in broke \/ HeldBoth(c, usage[c])
  /\ pc[c] = "books" => HeldBoth(c, Worst[c]) /\ delta[c] = usage[c] - Worst[c]
  /\ pc[c] = "sessionBooks" => /\ c \in named /\ held[c] = usage[c] /\ sessionHeld[c] = Worst[c]
                               /\ delta[c] = usage[c] - Worst[c]
  /\ Entry(c) => pc[c] \in {"sent", "answered"} /\ c \notin swept
  /\ c \in swept => pc[c] \in {"sent", "answered"}
  /\ hooks[c] \cap Failure # {} => usage[c] = 0

(* The rows: what they hold is what they hold for each call. *)
RowInv ==
  /\ \A t \in Tenants, m \in Months : spent[<<t, m>>] = SumFunctionOnSet(held, OnMonth(t, m))
  /\ \A t \in Tenants :
       spent[<<t, SessionScope>>] = SumFunctionOnSet(sessionHeld, OnSession(t))
  /\ \A r \in Rows \ written : spent[r] = 0

HookInv == /\ HookTypes
           /\ StashInv
           /\ FreshInv
           /\ \A c \in Calls : CallInv(c)
           /\ RowInv
           /\ MonthHardStop

LEMMA RowsAre ==
  /\ \A c \in Calls : BearerOf[c] \in Tenants /\ SessionRow(c) \in Rows /\ Worst[c] \in Nat
  /\ \A t \in Tenants, m \in Months : <<t, m>> \in Rows /\ m # SessionScope
  /\ \A t \in Tenants : <<t, SessionScope>> \in Rows
  /\ 1 \in Months /\ Months \subseteq Nat /\ Costs \subseteq Nat /\ SessionCap \in Nat /\ DefaultCap \in Nat
BY HookAssumption DEF Rows, SessionRow, Months, SessionScope

LEMMA HeldAreFinite ==
  ASSUME HookTypes
  PROVE  /\ Finite(Calls, held) /\ Finite(Calls, sessionHeld)
         /\ Finite(Calls, Reserved(held)) /\ Finite(Calls, Reserved(sessionHeld))
         /\ \A t, m : OnMonth(t, m) \subseteq Calls /\ OnSession(t) \subseteq Calls
BY HookAssumption, RowsAre DEF HookTypes, Finite, Reserved, Lesser, OnMonth, OnSession

LEMMA HookStart == HookInit => HookInv
<1> SUFFICES ASSUME HookInit PROVE HookInv
  OBVIOUS
<1> USE HookAssumption DEF HookInit
<1>1. HookTypes
  BY RowsAre DEF HookTypes, Times, Places
<1>2. StashInv
  BY DEF StashInv
<1>3. FreshInv
  <2>1. kept \in [Processes -> [Tenants -> SUBSET Cached]] /\ changedAt \in [Tenants -> Int]
    OBVIOUS
  <2>2. \A p \in Processes, t \in Tenants : kept[p][t] = {}
    OBVIOUS
  <2> QED BY <2>1, <2>2 DEF FreshInv
<1>4. ASSUME NEW c \in Calls PROVE CallInv(c)
  BY DEF CallInv, HeldBoth, Entry
<1>5. /\ \A T \in SUBSET Calls : SumFunctionOnSet(held, T) = 0 /\ SumFunctionOnSet(sessionHeld, T) = 0
      /\ \A T \in SUBSET Calls : /\ SumFunctionOnSet(Reserved(held), T) = 0
                                 /\ SumFunctionOnSet(Reserved(sessionHeld), T) = 0
  <2>1. \A c \in Calls : /\ held[c] = 0 /\ sessionHeld[c] = 0
                         /\ Reserved(held)[c] = 0 /\ Reserved(sessionHeld)[c] = 0
    BY RowsAre DEF Reserved, Lesser
  <2> QED BY <1>1, <2>1, HeldAreFinite, SumOfNothing
<1>6. \A t, m : OnMonth(t, m) \subseteq Calls /\ OnSession(t) \subseteq Calls
  BY <1>1, HeldAreFinite
<1>7. RowInv
  BY <1>5, <1>6, RowsAre DEF RowInv
<1>8. MonthHardStop
  <2>1. ASSUME NEW t \in Tenants, NEW m \in Months
        PROVE  /\ SumFunctionOnSet(Reserved(held), OnMonth(t, m)) = 0
               /\ SumFunctionOnSet(Reserved(sessionHeld), OnSession(t)) = 0
    BY <1>5, <1>6
  <2>2. SessionCap \in Nat /\ Months # {} /\ ~(0 > 0)
    BY RowsAre
  <2> QED BY <2>1, <2>2 DEF MonthHardStop
<1> QED BY <1>1, <1>2, <1>3, <1>4, <1>7, <1>8 DEF HookInv

-----------------------------------------------------------------------------
(***************************************************************************)
(* The ledger moves for one call: d on the row of its month, e on its      *)
(* session's, in what the store counts and in what is held alike.          *)
(***************************************************************************)
Moves(c, d, e) ==
  /\ HookTypes' /\ named' = named
  /\ \A f \in Calls \ {c} : /\ period'[f] = period[f] /\ limit'[f] = limit[f]
                            /\ held'[f] = held[f] /\ sessionHeld'[f] = sessionHeld[f]
  /\ held'[c] = held[c] + d /\ sessionHeld'[c] = sessionHeld[c] + e
  /\ \A r \in Rows : spent'[r] = spent[r] + (IF r = <<BearerOf[c], period'[c]>> THEN d ELSE 0)
                                          + (IF r = SessionRow(c) THEN e ELSE 0)
  /\ written \subseteq written' /\ \A r \in Rows \ written' : spent'[r] = spent[r]
  /\ period'[c] = period[c] \/ held[c] = 0
  /\ e = 0 \/ c \in named

LEMMA HeldAreFiniteNext ==
  ASSUME HookTypes'
  PROVE  /\ Finite(Calls, held') /\ Finite(Calls, sessionHeld')
         /\ Finite(Calls, Reserved(held)') /\ Finite(Calls, Reserved(sessionHeld)')
         /\ \A t, m : OnMonth(t, m)' \subseteq Calls /\ OnSession(t)' \subseteq Calls
BY HookAssumption, RowsAre DEF HookTypes, Finite, Reserved, Lesser, OnMonth, OnSession

(* Only c's membership in a month changes, if any. *)
LEMMA MonthsMove ==
  ASSUME NEW c \in Calls, NEW d \in Int, NEW e \in Int, HookTypes, Moves(c, d, e),
         NEW t \in Tenants, NEW m \in Months
  PROVE  /\ OnMonth(t, m) \in SUBSET Calls /\ OnMonth(t, m)' \in SUBSET Calls
         /\ OnMonth(t, m) \ {c} = OnMonth(t, m)' \ {c}
         /\ c \in OnMonth(t, m) <=> (t = BearerOf[c] /\ m = period[c])
         /\ c \in OnMonth(t, m)' <=> (t = BearerOf[c] /\ m = period'[c])
         /\ OnSession(t)' = OnSession(t) /\ OnSession(t) \in SUBSET Calls
         /\ c \in OnSession(t) <=> (c \in named /\ t = BearerOf[c])
BY DEF Moves, OnMonth, OnSession, HookTypes

LEMMA MonthRowKeeps ==
  ASSUME NEW c \in Calls, NEW d \in Int, NEW e \in Int, HookTypes, Moves(c, d, e),
         NEW t \in Tenants, NEW m \in Months,
         spent[<<t, m>>] = SumFunctionOnSet(held, OnMonth(t, m))
  PROVE  spent'[<<t, m>>] = SumFunctionOnSet(held', OnMonth(t, m)')
<1> DEFINE T == OnMonth(t, m)
           V == OnMonth(t, m)'
<1>1. /\ T \in SUBSET Calls /\ V \in SUBSET Calls /\ T \ {c} = V \ {c}
      /\ c \in T <=> (t = BearerOf[c] /\ m = period[c])
      /\ c \in V <=> (t = BearerOf[c] /\ m = period'[c])
  BY MonthsMove
<1>2. Finite(Calls, held) /\ Finite(Calls, held')
  BY HeldAreFinite, HeldAreFiniteNext DEF Moves
<1>3. \A y \in Calls \ {c} : held'[y] = held[y]
  BY DEF Moves
<1>4. spent'[<<t, m>>] = spent[<<t, m>>] + (IF c \in V THEN d ELSE 0)
  <2>1. <<t, m>> \in Rows /\ m # SessionScope /\ spent[<<t, m>>] \in Int
    BY RowsAre DEF HookTypes
  <2>2. <<t, m>> # SessionRow(c)
    BY <2>1 DEF SessionRow
  <2>3. <<t, m>> = <<BearerOf[c], period'[c]>> <=> c \in V
    BY <1>1
  <2>4. spent'[<<t, m>>] = spent[<<t, m>>] + (IF <<t, m>> = <<BearerOf[c], period'[c]>> THEN d ELSE 0)
                            + (IF <<t, m>> = SessionRow(c) THEN e ELSE 0)
    BY <2>1 DEF Moves
  <2> QED BY <2>1, <2>2, <2>3, <2>4
<1>5. held'[c] = held[c] + d /\ (period'[c] = period[c] \/ held[c] = 0) /\ held[c] \in Int
  BY DEF Moves, HookTypes
<1>6. SumFunctionOnSet(held, T) \in Int
      /\ SumFunctionOnSet(held', V) = SumFunctionOnSet(held, T)
           - (IF c \in T THEN held[c] ELSE 0) + (IF c \in V THEN held'[c] ELSE 0)
  <2> HIDE DEF T, V
  <2>1. \A y \in V \ {c} : held'[y] = held[y]
    BY <1>1, <1>3
  <2> QED BY <1>1, <1>2, <2>1, SumMoves
<1> DEFINE u == SumFunctionOnSet(held, T)
           v == SumFunctionOnSet(held', V)
<1>7. u = spent[<<t, m>>]
  OBVIOUS
<1>8. spent'[<<t, m>>] = v
  <2>1. u \in Int /\ v = u - (IF c \in T THEN held[c] ELSE 0) + (IF c \in V THEN held'[c] ELSE 0)
        /\ spent'[<<t, m>>] = u + (IF c \in V THEN d ELSE 0)
    BY <1>4, <1>6, <1>7
  <2>2. (c \in T <=> c \in V) \/ held[c] = 0
    BY <1>1, <1>5
  <2> HIDE DEF u, v, T, V
  <2> QED BY <1>5, <2>1, <2>2
<1> QED BY <1>8

LEMMA SessionRowKeeps ==
  ASSUME NEW c \in Calls, NEW d \in Int, NEW e \in Int, HookTypes, Moves(c, d, e),
         NEW t \in Tenants,
         spent[<<t, SessionScope>>] = SumFunctionOnSet(sessionHeld, OnSession(t))
  PROVE  spent'[<<t, SessionScope>>] = SumFunctionOnSet(sessionHeld', OnSession(t)')
<1> DEFINE T == OnSession(t)
<1>1. /\ T \in SUBSET Calls /\ OnSession(t)' = T
      /\ c \in T <=> (c \in named /\ t = BearerOf[c])
  <2>1. 1 \in Months
    BY RowsAre
  <2> QED BY <2>1, MonthsMove
<1>2. Finite(Calls, sessionHeld) /\ Finite(Calls, sessionHeld')
  BY HeldAreFinite, HeldAreFiniteNext DEF Moves
<1>3. \A y \in Calls \ {c} : sessionHeld'[y] = sessionHeld[y]
  BY DEF Moves
<1>4. spent'[<<t, SessionScope>>] = spent[<<t, SessionScope>>] + (IF c \in T THEN e ELSE 0)
  <2>1. <<t, SessionScope>> \in Rows /\ spent[<<t, SessionScope>>] \in Int
    BY RowsAre DEF HookTypes
  <2>2. period'[c] # SessionScope /\ (e = 0 \/ c \in named)
    BY RowsAre DEF Moves, HookTypes
  <2>3. <<t, SessionScope>> = SessionRow(c) <=> t = BearerOf[c]
    BY DEF SessionRow
  <2>4. spent'[<<t, SessionScope>>] = spent[<<t, SessionScope>>]
           + (IF <<t, SessionScope>> = <<BearerOf[c], period'[c]>> THEN d ELSE 0)
           + (IF <<t, SessionScope>> = SessionRow(c) THEN e ELSE 0)
    BY <2>1 DEF Moves
  <2>5. (IF <<t, SessionScope>> = SessionRow(c) THEN e ELSE 0) = (IF c \in T THEN e ELSE 0)
    BY <1>1, <2>2, <2>3
  <2>6. <<t, SessionScope>> # <<BearerOf[c], period'[c]>>
    BY <2>2
  <2> HIDE DEF T
  <2> QED BY <2>1, <2>4, <2>5, <2>6
<1>5. sessionHeld'[c] = sessionHeld[c] + e /\ sessionHeld[c] \in Int
  BY DEF Moves, HookTypes
<1>6. SumFunctionOnSet(sessionHeld, T) \in Int
      /\ SumFunctionOnSet(sessionHeld', T) = SumFunctionOnSet(sessionHeld, T)
           - (IF c \in T THEN sessionHeld[c] ELSE 0) + (IF c \in T THEN sessionHeld'[c] ELSE 0)
  <2> HIDE DEF T
  <2>1. \A y \in T \ {c} : sessionHeld'[y] = sessionHeld[y]
    BY <1>1, <1>3
  <2> QED BY <1>1, <1>2, <2>1, SumMoves
<1> DEFINE u == SumFunctionOnSet(sessionHeld, T)
           v == SumFunctionOnSet(sessionHeld', T)
<1>7. spent'[<<t, SessionScope>>] = v
  <2>1. u \in Int /\ v = u - (IF c \in T THEN sessionHeld[c] ELSE 0) + (IF c \in T THEN sessionHeld'[c] ELSE 0)
        /\ spent'[<<t, SessionScope>>] = u + (IF c \in T THEN e ELSE 0)
    BY <1>4, <1>6
  <2> HIDE DEF u, v, T
  <2> QED BY <1>5, <2>1
<1> QED BY <1>1, <1>7

LEMMA RowsKeep ==
  ASSUME NEW c \in Calls, NEW d \in Int, NEW e \in Int, HookTypes, RowInv, Moves(c, d, e)
  PROVE  RowInv'
<1>1. \A t \in Tenants, m \in Months : spent'[<<t, m>>] = SumFunctionOnSet(held', OnMonth(t, m)')
  BY MonthRowKeeps DEF RowInv
<1>2. \A t \in Tenants :
        spent'[<<t, SessionScope>>] = SumFunctionOnSet(sessionHeld', OnSession(t)')
  BY SessionRowKeeps DEF RowInv
<1>3. \A r \in Rows \ written' : spent'[r] = 0
  BY DEF Moves, RowInv
<1> QED BY <1>1, <1>2, <1>3 DEF RowInv

(***************************************************************************)
(* What a move may do to the caps: within the reservation it does not      *)
(* grow, or the row that it writes is within the cap; the month and the    *)
(* cap of a call are chosen when nothing is held for it.                   *)
(***************************************************************************)
Capped(c) ==
  /\ Lesser(held'[c], Worst[c]) <= Lesser(held[c], Worst[c])
     \/ spent'[<<BearerOf[c], period'[c]>>] <= limit'[c]
  /\ Lesser(sessionHeld'[c], Worst[c]) <= Lesser(sessionHeld[c], Worst[c])
     \/ spent'[SessionRow(c)] <= SessionCap
  /\ (limit'[c] = limit[c] /\ period'[c] = period[c]) \/ (limit[c] = 0 /\ held[c] = 0)
  /\ \A f \in Calls : held[f] >= 0 /\ held'[f] >= 0 /\ sessionHeld'[f] >= 0

MonthCap(t, m) ==
  SumFunctionOnSet(Reserved(held), OnMonth(t, m)) > 0 =>
    \E w \in OnMonth(t, m) : SumFunctionOnSet(Reserved(held), OnMonth(t, m)) <= limit[w]

LEMMA ReservedMoves ==
  ASSUME NEW c \in Calls, NEW d \in Int, NEW e \in Int, HookTypes, Moves(c, d, e), Capped(c)
  PROVE  /\ \A f \in Calls : /\ Reserved(held)[f] = Lesser(held[f], Worst[f])
                             /\ Reserved(held)'[f] = Lesser(held'[f], Worst[f])
                             /\ Reserved(sessionHeld)[f] = Lesser(sessionHeld[f], Worst[f])
                             /\ Reserved(sessionHeld)'[f] = Lesser(sessionHeld'[f], Worst[f])
         /\ \A f \in Calls : /\ Reserved(held)[f] \in Nat /\ Reserved(held)'[f] \in Nat
                             /\ Reserved(held)'[f] <= held'[f]
                             /\ Reserved(sessionHeld)'[f] <= sessionHeld'[f]
         /\ \A f \in Calls \ {c} : /\ Reserved(held)'[f] = Reserved(held)[f]
                                   /\ Reserved(sessionHeld)'[f] = Reserved(sessionHeld)[f]
         /\ held[c] = 0 => Reserved(held)[c] = 0
<1>1. \A f \in Calls : /\ Reserved(held)[f] = Lesser(held[f], Worst[f])
                       /\ Reserved(held)'[f] = Lesser(held'[f], Worst[f])
                       /\ Reserved(sessionHeld)[f] = Lesser(sessionHeld[f], Worst[f])
                       /\ Reserved(sessionHeld)'[f] = Lesser(sessionHeld'[f], Worst[f])
  BY DEF Reserved
<1>2. \A f \in Calls : /\ held[f] \in Int /\ held'[f] \in Int /\ sessionHeld'[f] \in Int
                       /\ Worst[f] \in Nat
  BY RowsAre DEF HookTypes, Moves
<1>3. \A f \in Calls : /\ Lesser(held[f], Worst[f]) \in Nat /\ Lesser(held'[f], Worst[f]) \in Nat
                       /\ Lesser(held'[f], Worst[f]) <= held'[f]
                       /\ Lesser(sessionHeld'[f], Worst[f]) <= sessionHeld'[f]
                       /\ held[f] = 0 => Lesser(held[f], Worst[f]) = 0
  BY <1>2 DEF Capped, Lesser
<1>4. \A f \in Calls \ {c} : held'[f] = held[f] /\ sessionHeld'[f] = sessionHeld[f]
  BY DEF Moves
<1> QED BY <1>1, <1>3, <1>4

LEMMA MonthCapKeeps ==
  ASSUME NEW c \in Calls, NEW d \in Int, NEW e \in Int, HookTypes, Moves(c, d, e), Capped(c),
         RowInv', NEW t \in Tenants, NEW m \in Months, MonthCap(t, m)
  PROVE  MonthCap(t, m)'
<1> DEFINE T == OnMonth(t, m)
           V == OnMonth(t, m)'
           R == Reserved(held)
           S == Reserved(held)'
           u == SumFunctionOnSet(R, T)
           v == SumFunctionOnSet(S, V)
<1>1. /\ T \in SUBSET Calls /\ V \in SUBSET Calls /\ T \ {c} = V \ {c}
      /\ c \in T <=> (t = BearerOf[c] /\ m = period[c])
      /\ c \in V <=> (t = BearerOf[c] /\ m = period'[c])
  BY MonthsMove
<1>2. Finite(Calls, R) /\ Finite(Calls, S) /\ Finite(Calls, held')
  BY HeldAreFinite, HeldAreFiniteNext DEF Moves
<1>3. /\ \A f \in Calls : R[f] \in Nat /\ S[f] \in Nat /\ S[f] <= held'[f]
      /\ \A f \in Calls \ {c} : S[f] = R[f]
      /\ held[c] = 0 => R[c] = 0
      /\ R[c] = Lesser(held[c], Worst[c]) /\ S[c] = Lesser(held'[c], Worst[c])
  BY ReservedMoves
<1>4. u > 0 => \E w \in T : u <= limit[w]
  BY DEF MonthCap
<1>5. /\ \A f \in Calls : limit[f] \in Nat /\ limit'[f] \in Nat
      /\ \A f \in Calls \ {c} : limit'[f] = limit[f]
      /\ period'[c] = period[c] \/ held[c] = 0
  BY DEF Moves, HookTypes
<1>6. u \in Int /\ v = u - (IF c \in T THEN R[c] ELSE 0) + (IF c \in V THEN S[c] ELSE 0)
  <2> HIDE DEF T, V, R, S
  <2>1. \A y \in V \ {c} : S[y] = R[y]
    BY <1>1, <1>3
  <2> QED BY <1>1, <1>2, <2>1, SumMoves DEF u, v
<1>7. v <= spent'[<<t, m>>]
  <2>1. SumFunctionOnSet(held', V) = spent'[<<t, m>>]
    BY DEF RowInv
  <2>2. SumFunctionOnSet(S, V) <= SumFunctionOnSet(held', V)
    <3> HIDE DEF V, S
    <3>1. V \in SUBSET V /\ (\A y \in V : S[y] <= held'[y]) /\ \A y \in V \ V : 0 <= held'[y]
      BY <1>1, <1>3
    <3> QED BY <1>1, <1>2, <3>1, SumLess
  <2> QED BY <2>1, <2>2
<1> HIDE DEF u, v, R, S, T, V
<1>8. v > 0 => \E w \in V : v <= limit'[w]
  <2> SUFFICES ASSUME v > 0 PROVE \E w \in V : v <= limit'[w]
    OBVIOUS
  <2>0. v \in Int /\ spent'[<<t, m>>] \in Int
    BY <1>1, <1>3, <1>6, RowsAre DEF Moves, HookTypes
  <2>1. CASE c \in V /\ spent'[<<BearerOf[c], period'[c]>>] <= limit'[c]
    <3>1. <<BearerOf[c], period'[c]>> = <<t, m>>
      BY <1>1, <2>1
    <3>2. v <= limit'[c]
      BY <1>5, <1>7, <2>0, <2>1, <3>1
    <3> QED BY <2>1, <3>2
  <2>2. CASE c \notin V \/ S[c] <= R[c]
    <3>1. v <= u
      <4>1. (c \in T <=> c \in V) \/ R[c] = 0
        BY <1>1, <1>3, <1>5
      <4>2. R[c] \in Nat /\ S[c] \in Nat
        BY <1>3
      <4> QED BY <1>6, <2>2, <4>1, <4>2
    <3>2. u > 0
      BY <1>6, <2>0, <3>1
    <3>3. PICK w \in T : u <= limit[w]
      BY <1>4, <3>2
    <3>4. w \in Calls /\ limit[w] # 0
      BY <1>1, <1>5, <1>6, <3>2, <3>3
    <3>5. w \in V /\ limit'[w] = limit[w]
      BY <1>1, <1>5, <3>3, <3>4 DEF Capped
    <3> QED BY <1>5, <1>6, <2>0, <3>1, <3>3, <3>4, <3>5
  <2> QED BY <1>3, <2>1, <2>2 DEF Capped
<1>9. MonthCap(t, m)' = (v > 0 => \E w \in V : v <= limit'[w])
  BY DEF MonthCap, u, v, R, S, T, V
<1> QED BY <1>8, <1>9

LEMMA SessionCapKeeps ==
  ASSUME NEW c \in Calls, NEW d \in Int, NEW e \in Int, HookTypes, Moves(c, d, e), Capped(c),
         RowInv', NEW t \in Tenants,
         SumFunctionOnSet(Reserved(sessionHeld), OnSession(t)) <= SessionCap
  PROVE  SumFunctionOnSet(Reserved(sessionHeld)', OnSession(t)') <= SessionCap
<1> DEFINE T == OnSession(t)
           R == Reserved(sessionHeld)
           S == Reserved(sessionHeld)'
           u == SumFunctionOnSet(R, T)
           v == SumFunctionOnSet(S, T)
<1>1. /\ T \in SUBSET Calls /\ OnSession(t)' = T
      /\ c \in T <=> (c \in named /\ t = BearerOf[c])
  <2>1. 1 \in Months
    BY RowsAre
  <2> QED BY <2>1, MonthsMove
<1>2. Finite(Calls, R) /\ Finite(Calls, S) /\ Finite(Calls, sessionHeld')
  BY HeldAreFinite, HeldAreFiniteNext DEF Moves
<1>3. /\ \A f \in Calls : S[f] <= sessionHeld'[f]
      /\ \A f \in Calls \ {c} : S[f] = R[f]
      /\ R[c] = Lesser(sessionHeld[c], Worst[c]) /\ S[c] = Lesser(sessionHeld'[c], Worst[c])
  BY ReservedMoves
<1>6. u \in Int /\ v = u - (IF c \in T THEN R[c] ELSE 0) + (IF c \in T THEN S[c] ELSE 0)
  <2> HIDE DEF T, R, S
  <2>1. \A y \in T \ {c} : S[y] = R[y]
    BY <1>1, <1>3
  <2> QED BY <1>1, <1>2, <2>1, SumMoves DEF u, v
<1>7. v <= spent'[<<t, SessionScope>>]
  <2>1. SumFunctionOnSet(sessionHeld', T) = spent'[<<t, SessionScope>>]
    BY <1>1 DEF RowInv
  <2>2. SumFunctionOnSet(S, T) <= SumFunctionOnSet(sessionHeld', T)
    <3> HIDE DEF T, S
    <3>1. T \in SUBSET T /\ (\A y \in T : S[y] <= sessionHeld'[y]) /\ \A y \in T \ T : 0 <= sessionHeld'[y]
      BY <1>1, <1>3
    <3> QED BY <1>1, <1>2, <3>1, SumLess
  <2> QED BY <2>1, <2>2
<1>8. u <= SessionCap /\ SessionCap \in Nat
  BY RowsAre
<1>9. R[c] \in Int /\ S[c] \in Int /\ spent'[<<t, SessionScope>>] \in Int
  BY <1>2, RowsAre DEF Finite, Moves, HookTypes
<1> HIDE DEF u, v, R, S, T
<1>10. v <= SessionCap
  <2>1. CASE c \in T /\ spent'[SessionRow(c)] <= SessionCap
    <3>1. SessionRow(c) = <<t, SessionScope>>
      BY <1>1, <2>1 DEF SessionRow
    <3> QED BY <1>6, <1>7, <1>8, <1>9, <2>1, <3>1
  <2>2. CASE c \notin T \/ S[c] <= R[c]
    BY <1>6, <1>8, <1>9, <2>2
  <2> QED BY <1>3, <2>1, <2>2 DEF Capped
<1> QED BY <1>1, <1>10 DEF v, S

LEMMA CapsKeep ==
  ASSUME NEW c \in Calls, NEW d \in Int, NEW e \in Int, HookTypes, RowInv, MonthHardStop,
         Moves(c, d, e), Capped(c)
  PROVE  RowInv' /\ MonthHardStop'
<1>1. RowInv'
  BY RowsKeep
<1>2. ASSUME NEW t \in Tenants, NEW m \in Months PROVE MonthCap(t, m)'
  <2>1. MonthCap(t, m)
    BY DEF MonthHardStop, MonthCap
  <2> QED BY <1>1, <2>1, MonthCapKeeps
<1>3. ASSUME NEW t \in Tenants
      PROVE  SumFunctionOnSet(Reserved(sessionHeld)', OnSession(t)') <= SessionCap
  BY <1>1, SessionCapKeeps DEF MonthHardStop
<1>4. MonthHardStop'
  BY <1>2, <1>3 DEF MonthHardStop, MonthCap
<1> QED BY <1>1, <1>4

-----------------------------------------------------------------------------
(***************************************************************************)
(* What a step leaves alone.                                               *)
(***************************************************************************)
LEMMA LedgerStays ==
  ASSUME RowInv, MonthHardStop, UNCHANGED <<ledger, named, period, limit>>
  PROVE  RowInv' /\ MonthHardStop'
<1>1. UNCHANGED <<spent, written, held, sessionHeld, named, period, limit>>
  BY DEF ledger
<1>2. \A t, m : OnMonth(t, m)' = OnMonth(t, m) /\ OnSession(t)' = OnSession(t)
  BY <1>1 DEF OnMonth, OnSession
<1>3. Reserved(held)' = Reserved(held) /\ Reserved(sessionHeld)' = Reserved(sessionHeld)
  BY <1>1 DEF Reserved
<1>4. RowInv'
  BY <1>1, <1>2 DEF RowInv
<1>5. MonthHardStop'
  BY <1>1, <1>2, <1>3 DEF MonthHardStop
<1> QED BY <1>4, <1>5

LEMMA FreshStays == FreshInv /\ UNCHANGED <<now, claims, kept>> => FreshInv'
BY DEF FreshInv, claims

LEMMA StashStays == StashInv /\ UNCHANGED <<stash, proc>> => StashInv'
BY DEF StashInv

(* A step of c: of another call only the parked reservation may go, swept.  *)
Parked(f) == \/ (Entry(f)' <=> Entry(f)) /\ (f \in swept' <=> f \in swept)
             \/ Entry(f) /\ ~Entry(f)' /\ f \in swept'

Others(c) ==
  /\ named' = named /\ broke \subseteq broke'
  /\ \A f \in Calls \ {c} :
       /\ pc'[f] = pc[f] /\ limit'[f] = limit[f] /\ usage'[f] = usage[f] /\ delta'[f] = delta[f]
       /\ hooks'[f] = hooks[f] /\ held'[f] = held[f] /\ sessionHeld'[f] = sessionHeld[f]
       /\ Parked(f)

LEMMA OthersStay ==
  ASSUME NEW c \in Calls, Others(c), NEW f \in Calls \ {c}, CallInv(f)
  PROVE  CallInv(f)'
<1>1. /\ pc'[f] = pc[f] /\ limit'[f] = limit[f] /\ usage'[f] = usage[f] /\ delta'[f] = delta[f]
      /\ hooks'[f] = hooks[f] /\ held'[f] = held[f] /\ sessionHeld'[f] = sessionHeld[f]
      /\ named' = named /\ (f \in broke => f \in broke')
      /\ Parked(f)
  BY DEF Others
<1>2. \A n : HeldBoth(f, n)' <=> HeldBoth(f, n)
  BY <1>1 DEF HeldBoth
<1>3. CASE (Entry(f)' <=> Entry(f)) /\ (f \in swept' <=> f \in swept)
  BY <1>1, <1>2, <1>3 DEF CallInv
<1>4. CASE Entry(f) /\ ~Entry(f)' /\ f \in swept'
  BY <1>1, <1>2, <1>4 DEF CallInv
<1> QED BY <1>1, <1>3, <1>4 DEF Parked

LEMMA ParkedStays ==
  ASSUME UNCHANGED <<proc, parked>> PROVE \A f : (Entry(f)' <=> Entry(f)) /\ Parked(f)
BY DEF Parked, Entry, parked

LEMMA Sends ==
  ASSUME NEW c \in Calls, HookTypes, StashInv, ~Entry(c), c \notin swept, Send(c),
         UNCHANGED <<now, proc>>
  PROVE  /\ StashInv' /\ Entry(c)' /\ c \notin swept' /\ swept' \subseteq Calls
         /\ \A f \in Calls \ {c} : Parked(f)
<1> DEFINE p == proc[c]
           gone == Abandoned(p)
           new == [call |-> c, at |-> now]
<1>0. p \in Processes /\ new \in Entries /\ gone \subseteq stash[p] /\ new.call = c
  BY DEF HookTypes, Entries, Abandoned
<1>1. /\ stash \in [Processes -> SUBSET Entries]
      /\ \A q \in Processes : \A e, f \in stash[q] : proc[e.call] = q /\ (e.call = f.call => e = f)
  BY DEF StashInv
<1>2. /\ stash' = [stash EXCEPT ![p] = (@ \ gone) \cup {new}]
      /\ swept' = swept \cup {e.call : e \in gone}
  BY DEF Send
<1>3. \A e \in stash[p] : e.call # c
  BY DEF Entry
<1>4. proc' = proc
  OBVIOUS
<1> HIDE DEF p, gone, new
<1>5. /\ stash' \in [Processes -> SUBSET Entries] /\ stash'[p] = (stash[p] \ gone) \cup {new}
      /\ \A q \in Processes \ {p} : stash'[q] = stash[q]
  BY <1>0, <1>1, <1>2
<1>6. p = proc[c]
  BY DEF p
<1>7. StashInv'
  <2>1. ASSUME NEW q \in Processes, NEW e \in stash'[q], NEW f \in stash'[q]
        PROVE  proc'[e.call] = q /\ (e.call = f.call => e = f)
    BY <1>0, <1>1, <1>3, <1>4, <1>5, <1>6, <2>1
  <2> QED BY <1>5, <2>1 DEF StashInv
<1>8. Entry(c)'
  BY <1>0, <1>4, <1>5, <1>6 DEF Entry
<1>9. c \notin swept' /\ swept' \subseteq Calls
  <2>1. \A e \in gone : e.call # c /\ e.call \in Calls
    BY <1>0, <1>1, <1>3 DEF Entries
  <2> QED BY <1>2, <2>1 DEF HookTypes
<1>10. ASSUME NEW f \in Calls \ {c} PROVE Parked(f)
  <2>1. proc[f] \in Processes
    BY DEF HookTypes
  <2>2. CASE \E e \in gone : e.call = f
    <3>1. PICK e \in gone : e.call = f
      BY <2>2
    <3>2. proc[f] = p /\ e \in stash[p]
      BY <1>0, <1>1, <3>1
    <3>3. ~\E g \in stash'[p] : g.call = f
      <4>1. \A g \in stash[p] : g.call = f => g = e
        BY <1>0, <1>1, <3>1, <3>2
      <4> QED BY <1>0, <1>5, <3>1, <4>1
    <3>4. Entry(f) /\ ~Entry(f)' /\ f \in swept'
      BY <1>2, <1>4, <3>1, <3>2, <3>3 DEF Entry
    <3> QED BY <3>4 DEF Parked
  <2>3. CASE ~\E e \in gone : e.call = f
    <3>1. f \in swept' <=> f \in swept
      BY <1>2, <2>3
    <3>2. Entry(f)' <=> Entry(f)
      <4>1. (\E g \in stash'[proc[f]] : g.call = f) <=> \E g \in stash[proc[f]] : g.call = f
        BY <1>0, <1>5, <2>1, <2>3
      <4> QED BY <1>4, <4>1 DEF Entry
    <3> QED BY <3>1, <3>2 DEF Parked
  <2> QED BY <2>2, <2>3
<1> QED BY <1>7, <1>8, <1>9, <1>10

LEMMA Pops ==
  ASSUME NEW c \in Calls, HookTypes, StashInv, UNCHANGED <<proc, swept>>,
         stash' = [stash EXCEPT ![proc[c]] = Popped(proc[c], c)]
  PROVE  /\ StashInv' /\ ~Entry(c)'
         /\ \A f \in Calls \ {c} : Parked(f)
<1>0. proc[c] \in Processes /\ proc' = proc /\ swept' = swept
  BY DEF HookTypes
<1>1. /\ stash \in [Processes -> SUBSET Entries]
      /\ \A q \in Processes : \A e, f \in stash[q] : proc[e.call] = q /\ (e.call = f.call => e = f)
  BY DEF StashInv
<1>2. /\ stash' \in [Processes -> SUBSET Entries]
      /\ stash'[proc[c]] = {e \in stash[proc[c]] : e.call # c}
      /\ \A q \in Processes \ {proc[c]} : stash'[q] = stash[q]
  BY <1>0, <1>1 DEF Popped
<1>3. StashInv'
  BY <1>0, <1>1, <1>2 DEF StashInv
<1>4. ~Entry(c)'
  BY <1>0, <1>2 DEF Entry
<1>5. ASSUME NEW f \in Calls \ {c} PROVE Parked(f)
  <2>1. proc[f] \in Processes
    BY DEF HookTypes
  <2>2. (\E g \in stash'[proc[f]] : g.call = f) <=> \E g \in stash[proc[f]] : g.call = f
    BY <1>2, <2>1
  <2> QED BY <1>0, <2>2 DEF Entry, Parked
<1> QED BY <1>3, <1>4, <1>5

-----------------------------------------------------------------------------
(***************************************************************************)
(* A store operation of c: d on its row of month m, e on its session's.    *)
(***************************************************************************)
Adds(c, m, d, e) ==
  /\ spent' \in [Rows -> Int] /\ written' \subseteq Rows /\ written \subseteq written'
  /\ held' \in [Calls -> Int] /\ sessionHeld' \in [Calls -> Int]
  /\ \A f \in Calls \ {c} : held'[f] = held[f] /\ sessionHeld'[f] = sessionHeld[f]
  /\ held'[c] = held[c] + d /\ sessionHeld'[c] = sessionHeld[c] + e
  /\ \A r \in Rows : spent'[r] = spent[r] + (IF r = <<BearerOf[c], m>> THEN d ELSE 0)
                                          + (IF r = SessionRow(c) THEN e ELSE 0)
  /\ \A r \in Rows \ written' : spent'[r] = spent[r]

LEMMA AddsMonth ==
  ASSUME NEW c \in Calls, NEW m \in Months, NEW d \in Int, HookTypes,
         AddMonth(c, <<BearerOf[c], m>>, d)
  PROVE  /\ Adds(c, m, d, 0) /\ sessionHeld' = sessionHeld
         /\ spent'[<<BearerOf[c], m>>] = spent[<<BearerOf[c], m>>] + d
<1> DEFINE row == <<BearerOf[c], m>>
<1>1. row \in Rows /\ row # SessionRow(c)
  BY RowsAre DEF SessionRow
<1>2. /\ spent' = [spent EXCEPT ![row] = @ + d] /\ written' = written \cup {row}
      /\ held' = [held EXCEPT ![c] = @ + d] /\ sessionHeld' = sessionHeld
  BY DEF AddMonth
<1>3. /\ spent \in [Rows -> Int] /\ written \subseteq Rows
      /\ held \in [Calls -> Int] /\ sessionHeld \in [Calls -> Int]
  BY DEF HookTypes
<1> HIDE DEF row
<1>4. /\ spent' \in [Rows -> Int] /\ spent'[row] = spent[row] + d
      /\ \A r \in Rows : spent'[r] = spent[r] + (IF r = row THEN d ELSE 0) + (IF r = SessionRow(c) THEN 0 ELSE 0)
  BY <1>1, <1>2, <1>3
<1>5. /\ held' \in [Calls -> Int] /\ held'[c] = held[c] + d /\ sessionHeld'[c] = sessionHeld[c] + 0
      /\ \A f \in Calls \ {c} : held'[f] = held[f] /\ sessionHeld'[f] = sessionHeld[f]
  BY <1>2, <1>3
<1>6. /\ written' \subseteq Rows /\ written \subseteq written'
      /\ \A r \in Rows \ written' : spent'[r] = spent[r]
  BY <1>1, <1>2, <1>3
<1> QED BY <1>2, <1>3, <1>4, <1>5, <1>6 DEF Adds, row

LEMMA AddsSession ==
  ASSUME NEW c \in Calls, NEW m \in Months, NEW e \in Int, HookTypes, AddSession(c, e)
  PROVE  /\ Adds(c, m, 0, e) /\ held' = held
         /\ spent'[SessionRow(c)] = spent[SessionRow(c)] + e
<1> DEFINE row == SessionRow(c)
<1>1. row \in Rows
  BY RowsAre
<1>2. /\ spent' = [spent EXCEPT ![row] = @ + e] /\ written' = written \cup {row}
      /\ sessionHeld' = [sessionHeld EXCEPT ![c] = @ + e] /\ held' = held
  BY DEF AddSession
<1>3. /\ spent \in [Rows -> Int] /\ written \subseteq Rows
      /\ held \in [Calls -> Int] /\ sessionHeld \in [Calls -> Int]
  BY DEF HookTypes
<1> HIDE DEF row
<1>4. /\ spent' \in [Rows -> Int] /\ spent'[row] = spent[row] + e
      /\ \A r \in Rows : spent'[r] = spent[r] + (IF r = <<BearerOf[c], m>> THEN 0 ELSE 0) + (IF r = row THEN e ELSE 0)
  BY <1>1, <1>2, <1>3
<1>5. /\ sessionHeld' \in [Calls -> Int] /\ sessionHeld'[c] = sessionHeld[c] + e /\ held'[c] = held[c] + 0
      /\ \A f \in Calls \ {c} : held'[f] = held[f] /\ sessionHeld'[f] = sessionHeld[f]
  BY <1>2, <1>3
<1>6. /\ written' \subseteq Rows /\ written \subseteq written'
      /\ \A r \in Rows \ written' : spent'[r] = spent[r]
  BY <1>1, <1>2, <1>3
<1> QED BY <1>2, <1>3, <1>4, <1>5, <1>6 DEF Adds, row

LEMMA AddsNothing ==
  ASSUME NEW c \in Calls, NEW m, HookTypes, UNCHANGED ledger
  PROVE  Adds(c, m, 0, 0) /\ held' = held /\ sessionHeld' = sessionHeld
BY DEF Adds, HookTypes, ledger

LEMMA HeldAreNat ==
  ASSUME NEW c \in Calls, HookTypes, CallInv(c)
  PROVE  /\ held[c] \in {0, Worst[c], usage[c]} /\ sessionHeld[c] \in {0, Worst[c], usage[c]}
         /\ held[c] \in Nat /\ sessionHeld[c] \in Nat /\ usage[c] \in Nat
<1>1. pc[c] \in Places /\ usage[c] \in Nat /\ Worst[c] \in Nat
  BY RowsAre DEF HookTypes
<1>2. held[c] \in {0, Worst[c], usage[c]} /\ sessionHeld[c] \in {0, Worst[c], usage[c]}
  BY <1>1 DEF CallInv, HeldBoth, Places, Inside
<1> QED BY <1>1, <1>2

LEMMA HeldAreNatNext ==
  ASSUME NEW c \in Calls, HookTypes', CallInv(c)'
  PROVE  held'[c] \in Nat /\ sessionHeld'[c] \in Nat
<1>1. pc'[c] \in Places /\ usage'[c] \in Nat /\ Worst[c] \in Nat
  BY RowsAre DEF HookTypes
<1>2. held'[c] \in {0, Worst[c], usage'[c]} /\ sessionHeld'[c] \in {0, Worst[c], usage'[c]}
  BY <1>1 DEF CallInv, HeldBoth, Places, Inside
<1> QED BY <1>1, <1>2

(* What a step of c may do to its caps. *)
Bounded(c, d, e) ==
  /\ d \in Int /\ e \in Int /\ (e = 0 \/ c \in named)
  /\ Lesser(held'[c], Worst[c]) <= Lesser(held[c], Worst[c])
     \/ spent'[<<BearerOf[c], period'[c]>>] <= limit'[c]
  /\ Lesser(sessionHeld'[c], Worst[c]) <= Lesser(sessionHeld[c], Worst[c])
     \/ spent'[SessionRow(c)] <= SessionCap
  /\ (limit'[c] = limit[c] /\ period'[c] = period[c]) \/ (limit[c] = 0 /\ held[c] = 0)
  /\ \A f \in Calls \ {c} : period'[f] = period[f]

LEMMA StepKeeps ==
  ASSUME NEW c \in Calls, NEW d, NEW e, HookInv, HookTypes', StashInv', FreshInv', CallInv(c)',
         Others(c), Adds(c, period'[c], d, e), Bounded(c, d, e)
  PROVE  HookInv'
<1>1. HookTypes /\ RowInv /\ MonthHardStop /\ \A f \in Calls : CallInv(f)
  BY DEF HookInv
<1>2. ASSUME NEW f \in Calls PROVE CallInv(f)'
  BY <1>1, OthersStay
<1>3. \A f \in Calls : held[f] >= 0 /\ held'[f] >= 0 /\ sessionHeld'[f] >= 0
  BY <1>1, <1>2, HeldAreNat, HeldAreNatNext
<1>4. Moves(c, d, e)
  BY DEF Moves, Adds, Others, Bounded
<1>5. Capped(c)
  BY <1>3 DEF Capped, Bounded
<1>6. d \in Int /\ e \in Int
  BY DEF Bounded
<1>7. RowInv' /\ MonthHardStop'
  BY <1>1, <1>4, <1>5, <1>6, CapsKeep
<1> QED BY <1>2, <1>7 DEF HookInv

(* A step of c that leaves the ledger and its terms alone. *)
LEMMA QuietKeeps ==
  ASSUME NEW c \in Calls, HookInv, HookTypes', StashInv', FreshInv', CallInv(c)', Others(c),
         UNCHANGED <<ledger, period, limit>>
  PROVE  HookInv'
<1>1. Adds(c, period'[c], 0, 0) /\ held' = held /\ sessionHeld' = sessionHeld
  BY AddsNothing DEF HookInv
<1>2. held[c] \in Int /\ sessionHeld[c] \in Int /\ Worst[c] \in Nat
  BY RowsAre DEF HookInv, HookTypes
<1>3. Bounded(c, 0, 0)
  BY <1>1, <1>2 DEF Bounded, Lesser
<1> QED BY <1>1, <1>3, StepKeeps

-----------------------------------------------------------------------------
(***************************************************************************)
(* The steps.                                                              *)
(***************************************************************************)
LEMMA AuthenticateKeeps ==
  ASSUME HookInv, NEW c \in Calls, Authenticate(c) PROVE HookInv'
<1> DEFINE e == Grant(proc[c], BearerOf[c])
           p == proc[c]
           t == BearerOf[c]
<1>1. HookTypes /\ StashInv /\ FreshInv /\ CallInv(c)
  BY DEF HookInv
<1>2. /\ kept' = [kept EXCEPT ![p][t] = {e}]
      /\ IF e.grant = NoClaim
         THEN pc' = [pc EXCEPT ![c] = "refused"] /\ budget' = budget
         ELSE pc' = [pc EXCEPT ![c] = "admit"] /\ budget' = [budget EXCEPT ![c] = e.grant]
      /\ UNCHANGED <<dates, claims, ledger, where, limit, period, parked, hooks, answer, delta, broke>>
      /\ pc[c] = "new"
  BY DEF Authenticate, Goto
<1>3. UNCHANGED <<now, month, grants, changedAt, spent, written, held, sessionHeld, proc, named, limit,
                  period, stash, swept, hooks, billed, usage, delta, broke>>
  BY <1>2 DEF dates, claims, ledger, where, parked, answer
<1>4. p \in Processes /\ t \in Tenants
  BY <1>1, RowsAre DEF HookTypes
<1>5. e \in Cached /\ e.at <= now /\ (e.grant = grants[t] \/ e.at <= changedAt[t])
  <2>1. CASE \E g \in kept[p][t] : now - g.at < CacheTTL
    <3>1. e \in kept[p][t]
      BY <2>1 DEF Grant
    <3> QED BY <1>1, <1>4, <3>1 DEF FreshInv
  <2>2. CASE ~\E g \in kept[p][t] : now - g.at < CacheTTL
    <3>1. e = [grant |-> grants[t], at |-> now]
      BY <2>2 DEF Grant
    <3>2. grants[t] \in Grants /\ now \in Times
      BY <1>1, <1>4 DEF FreshInv, HookTypes
    <3> QED BY <3>1, <3>2 DEF Cached, Times
  <2> QED BY <2>1, <2>2
<1> HIDE DEF e, p, t
<1>6. FreshInv'
  <2>1. /\ kept' \in [Processes -> [Tenants -> SUBSET Cached]] /\ kept'[p][t] = {e}
        /\ \A q \in Processes, s \in Tenants : <<q, s>> # <<p, t>> => kept'[q][s] = kept[q][s]
    BY <1>1, <1>2, <1>4, <1>5 DEF FreshInv
  <2>2. ASSUME NEW q \in Processes, NEW s \in Tenants
        PROVE  /\ kept'[q][s] = {} \/ \E g \in Cached : kept'[q][s] = {g}
               /\ \A g \in kept'[q][s] : g.at <= now /\ (g.grant = grants[s] \/ g.at <= changedAt[s])
    <3>1. CASE <<q, s>> = <<p, t>>
      BY <1>5, <2>1, <3>1
    <3>2. CASE <<q, s>> # <<p, t>>
      BY <1>1, <2>1, <3>2 DEF FreshInv
    <3> QED BY <3>1, <3>2
  <2> QED BY <1>1, <1>3, <2>1, <2>2 DEF FreshInv
<1>7. HookTypes'
  <2>1. pc' \in [Calls -> Places] /\ budget' \in [Calls -> Nat]
    <3>1. e.grant = NoClaim \/ e.grant \in Nat
      BY <1>5, HookAssumption DEF Cached, Grants
    <3> QED BY <1>1, <1>2, <3>1 DEF HookTypes, Places
  <2> QED BY <1>1, <1>3, <2>1 DEF HookTypes
<1>8. StashInv' /\ \A f : (Entry(f)' <=> Entry(f)) /\ Parked(f)
  BY <1>1, <1>2, <1>3, StashStays, ParkedStays
<1>9. CallInv(c)'
  <2>1. pc'[c] \in {"refused", "admit"}
    BY <1>1, <1>2 DEF HookTypes
  <2>2. \A n : HeldBoth(c, n)' <=> HeldBoth(c, n)
    BY <1>3 DEF HeldBoth
  <2>3. HeldBoth(c, 0) /\ held[c] = 0 /\ sessionHeld[c] = 0
    BY <1>1, <1>2 DEF CallInv, HeldBoth
  <2> QED BY <1>1, <1>2, <1>3, <1>8, <2>1, <2>2, <2>3 DEF CallInv
<1>10. Others(c)
  BY <1>1, <1>2, <1>3, <1>8 DEF Others, HookTypes
<1> QED BY <1>2, <1>6, <1>7, <1>8, <1>9, <1>10, QuietKeeps

LEMMA UnverifiedKeeps ==
  ASSUME HookInv, NEW c \in Calls, Unverified(c) PROVE HookInv'
<1>1. HookTypes /\ StashInv /\ FreshInv /\ CallInv(c)
  BY DEF HookInv
<1>2. /\ pc[c] = "new" /\ pc' = [pc EXCEPT ![c] = "refused"]
      /\ UNCHANGED <<dates, claims, kept, ledger, where, budget, limit, period, parked, hooks,
                     answer, delta, broke>>
  BY DEF Unverified, Goto
<1>3. UNCHANGED <<now, month, grants, changedAt, kept, spent, written, held, sessionHeld, proc, named,
                  budget, limit, period, stash, swept, hooks, billed, usage, delta, broke>>
  BY <1>2 DEF dates, claims, ledger, where, parked, answer
<1>4. StashInv' /\ FreshInv' /\ \A f : (Entry(f)' <=> Entry(f)) /\ Parked(f)
  BY <1>1, <1>2, <1>3, StashStays, FreshStays, ParkedStays
<1>5. HookTypes'
  BY <1>1, <1>2, <1>3 DEF HookTypes, Places
<1>6. CallInv(c)'
  <2>1. pc'[c] = "refused"
    BY <1>1, <1>2 DEF HookTypes
  <2>2. HeldBoth(c, 0) /\ held[c] = 0 /\ sessionHeld[c] = 0
    BY <1>1, <1>2 DEF CallInv, HeldBoth
  <2> QED BY <1>1, <1>2, <1>3, <1>4, <2>1, <2>2 DEF CallInv
<1>7. Others(c)
  BY <1>1, <1>2, <1>3, <1>4 DEF Others, HookTypes
<1> QED BY <1>2, <1>4, <1>5, <1>6, <1>7, QuietKeeps

LEMMA AnswerKeeps ==
  ASSUME HookInv, NEW c \in Calls, Answer(c) PROVE HookInv'
<1>1. HookTypes /\ StashInv /\ FreshInv /\ CallInv(c)
  BY DEF HookInv
<1>2. /\ pc[c] = "sent" /\ pc' = [pc EXCEPT ![c] = "answered"]
      /\ UNCHANGED <<dates, claims, kept, ledger, where, budget, limit, period, parked, delta, broke>>
  BY DEF Answer, Goto
<1>3. UNCHANGED <<now, month, grants, changedAt, kept, spent, written, held, sessionHeld, proc, named,
                  budget, limit, period, stash, swept, delta, broke>>
  BY <1>2 DEF dates, claims, ledger, where, parked
<1>0. PICK cost \in Costs :
        /\ billed' = [billed EXCEPT ![c] = cost]
        /\ \E said \in {0, cost}, fire \in {{}, {"log_success"}, Success,
                                        {"post_call_failure"}, {"log_failure"}, Failure} :
             /\ usage' = [usage EXCEPT ![c] = IF fire \subseteq Failure THEN 0 ELSE said]
             /\ hooks' = [hooks EXCEPT ![c] = fire]
  BY Zenon DEF Answer
<1>4. PICK said \in {0, cost}, fire \in {{}, {"log_success"}, Success,
                                     {"post_call_failure"}, {"log_failure"}, Failure} :
        /\ usage' = [usage EXCEPT ![c] = IF fire \subseteq Failure THEN 0 ELSE said]
        /\ hooks' = [hooks EXCEPT ![c] = fire]
  BY <1>0, Zenon
<1>5. fire \subseteq Success \cup Failure /\ said \in Costs
      /\ (fire \cap Failure # {} => fire \subseteq Failure)
  BY HookAssumption DEF Success, Failure
<1>6. 0 \in Costs
  BY HookAssumption
<1>7. /\ usage'[c] \in Costs /\ (hooks'[c] \cap Failure # {} => usage'[c] = 0)
      /\ usage' \in [Calls -> Costs] /\ billed' \in [Calls -> Costs]
      /\ hooks' \in [Calls -> SUBSET (Success \cup Failure)]
      /\ \A f \in Calls \ {c} : usage'[f] = usage[f] /\ hooks'[f] = hooks[f]
  BY <1>0, <1>1, <1>4, <1>5, <1>6 DEF HookTypes
<1>8. StashInv' /\ FreshInv' /\ \A f : (Entry(f)' <=> Entry(f)) /\ Parked(f)
  BY <1>1, <1>2, <1>3, StashStays, FreshStays, ParkedStays
<1>9. HookTypes'
  BY <1>1, <1>2, <1>3, <1>7 DEF HookTypes, Places
<1>10. CallInv(c)'
  <2>1. pc'[c] = "answered"
    BY <1>1, <1>2 DEF HookTypes
  <2>2. HeldBoth(c, Worst[c])' /\ (Entry(c)' \/ c \in swept')
    BY <1>1, <1>2, <1>3, <1>8 DEF CallInv, HeldBoth
  <2>3. held'[c] = Worst[c] /\ sessionHeld'[c] = IF c \in named' THEN Worst[c] ELSE 0
    BY <2>2 DEF HeldBoth
  <2>4. Entry(c)' => c \notin swept'
    BY <1>1, <1>3, <1>8 DEF CallInv
  <2> QED BY <1>7, <2>1, <2>2, <2>3, <2>4 DEF CallInv
<1>11. Others(c)
  BY <1>1, <1>2, <1>3, <1>7, <1>8 DEF Others, HookTypes
<1> QED BY <1>2, <1>8, <1>9, <1>10, <1>11, QuietKeeps

LEMMA FireHookKeeps ==
  ASSUME HookInv, NEW c \in Calls, FireHook(c) PROVE HookInv'
<1>1. HookTypes /\ StashInv /\ FreshInv /\ CallInv(c)
  BY DEF HookInv
<1>2. /\ pc[c] = "answered" /\ stash' = [stash EXCEPT ![proc[c]] = Popped(proc[c], c)]
      /\ UNCHANGED <<dates, claims, kept, ledger, where, budget, limit, period, swept, answer, broke>>
  BY DEF FireHook
<1>3. UNCHANGED <<now, month, grants, changedAt, kept, spent, written, held, sessionHeld, proc, named,
                  budget, limit, period, swept, billed, usage, broke>>
  BY <1>2 DEF dates, claims, ledger, where, answer
<1>4. PICK h \in hooks[c] :
        /\ hooks' = [hooks EXCEPT ![c] = @ \ {h}]
        /\ IF \E e \in stash[proc[c]] : e.call = c
           THEN /\ delta' = [delta EXCEPT ![c] = Delta(c, h)]
                /\ Goto(c, "books")
           ELSE UNCHANGED <<delta, pc>>
  BY Zenon DEF FireHook
<1>5. /\ StashInv' /\ ~Entry(c)' /\ \A f \in Calls \ {c} : Parked(f)
  BY <1>1, <1>2, <1>3, Pops
<1>6. FreshInv'
  BY <1>1, <1>2, <1>3, FreshStays
<1>7. Delta(c, h) = usage[c] - Worst[c] /\ usage[c] \in Nat /\ Worst[c] \in Nat
  <2>1. h \in Success \cup Failure /\ usage[c] \in Nat /\ Worst[c] \in Nat
    BY <1>1, RowsAre DEF HookTypes
  <2>2. h \in Failure => usage[c] = 0
    BY <1>1 DEF CallInv
  <2>3. h \notin Success => h \in Failure
    BY <2>1
  <2> QED BY <2>1, <2>2, <2>3 DEF Delta
<1>8. /\ hooks' \in [Calls -> SUBSET (Success \cup Failure)]
      /\ hooks'[c] \subseteq hooks[c] /\ \A f \in Calls \ {c} : hooks'[f] = hooks[f]
  BY <1>1, <1>4 DEF HookTypes
<1>9. hooks'[c] \cap Failure # {} => usage'[c] = 0
  BY <1>1, <1>3, <1>8 DEF CallInv
<1>10. CASE Entry(c)
  <2>1. /\ pc' = [pc EXCEPT ![c] = "books"] /\ delta' = [delta EXCEPT ![c] = usage[c] - Worst[c]]
    BY <1>4, <1>7, <1>10 DEF Goto, Entry
  <2>2. HookTypes'
    BY <1>1, <1>3, <1>7, <1>8, <2>1 DEF HookTypes, Places, Inside
  <2>3. pc'[c] = "books" /\ delta'[c] = usage'[c] - Worst[c]
    BY <1>1, <1>3, <2>1 DEF HookTypes
  <2>4. HeldBoth(c, Worst[c])' /\ c \notin swept'
    BY <1>1, <1>2, <1>3, <1>10 DEF CallInv, HeldBoth
  <2>5. CallInv(c)'
    BY <1>5, <1>9, <2>3, <2>4 DEF CallInv
  <2>6. Others(c)
    BY <1>1, <1>3, <1>5, <1>8, <2>1 DEF Others, HookTypes
  <2> QED BY <1>2, <1>5, <1>6, <2>2, <2>5, <2>6, QuietKeeps
<1>11. CASE ~Entry(c)
  <2>1. pc' = pc /\ delta' = delta
    BY <1>4, <1>11 DEF Entry
  <2>2. HookTypes'
    BY <1>1, <1>3, <1>8, <2>1 DEF HookTypes
  <2>3. \A n : HeldBoth(c, n)' <=> HeldBoth(c, n)
    BY <1>3 DEF HeldBoth
  <2>4. CallInv(c)'
    BY <1>1, <1>2, <1>3, <1>5, <1>9, <1>11, <2>1, <2>3 DEF CallInv
  <2>5. Others(c)
    BY <1>1, <1>3, <1>5, <1>8, <2>1 DEF Others, HookTypes
  <2> QED BY <1>2, <1>5, <1>6, <2>2, <2>4, <2>5, QuietKeeps
<1> QED BY <1>10, <1>11

(***************************************************************************)
(* The store operations.  What of the call they leave alone:               *)
(***************************************************************************)
Elsewhere(c) ==
  /\ UNCHANGED <<dates, claims, kept, where, budget, hooks, answer, delta>>
  /\ pc' = [pc EXCEPT ![c] = pc'[c]] /\ pc'[c] \in Places
  /\ limit' \in [Calls -> Nat] /\ period' \in [Calls -> Months]
  /\ \A f \in Calls \ {c} : limit'[f] = limit[f] /\ period'[f] = period[f]
  /\ broke' \subseteq Calls /\ broke \subseteq broke'

LEMMA StoreKeeps ==
  ASSUME NEW c \in Calls, NEW d, NEW e, HookInv, Elsewhere(c), Adds(c, period'[c], d, e),
         Bounded(c, d, e), CallInv(c)', StashInv', swept' \subseteq Calls,
         \A f \in Calls \ {c} : Parked(f)
  PROVE  HookInv'
<1>1. HookTypes /\ FreshInv
  BY DEF HookInv
<1>2. UNCHANGED <<now, month, grants, changedAt, kept, proc, named, budget, hooks, billed, usage, delta>>
  BY DEF Elsewhere, dates, claims, where, answer
<1>3. FreshInv'
  BY <1>1, FreshStays DEF Elsewhere, dates
<1>4. pc' \in [Calls -> Places] /\ \A f \in Calls \ {c} : pc'[f] = pc[f]
  BY <1>1 DEF Elsewhere, HookTypes
<1>5. HookTypes'
  BY <1>1, <1>2, <1>4 DEF HookTypes, Elsewhere, Adds
<1>6. Others(c)
  BY <1>2, <1>4 DEF Others, Elsewhere, Adds
<1> QED BY <1>3, <1>5, <1>6, StepKeeps

LEMMA PreCallKeeps ==
  ASSUME HookInv, NEW c \in Calls, NEW bounded \in BOOLEAN, PreCall(c, bounded) PROVE HookInv'
<1> DEFINE allowed == CapOf(budget[c])
           row == <<BearerOf[c], month>>
<1>1. HookTypes /\ StashInv /\ CallInv(c) /\ RowInv
  BY DEF HookInv
<1>2. /\ pc[c] = "admit"
      /\ limit' = [limit EXCEPT ![c] = allowed] /\ period' = [period EXCEPT ![c] = month]
      /\ UNCHANGED <<dates, claims, kept, where, budget, hooks, answer, delta>>
  BY DEF PreCall
<1>3. /\ limit' \in [Calls -> Nat] /\ period' \in [Calls -> Months]
      /\ limit'[c] = allowed /\ period'[c] = month /\ month \in Months
      /\ \A f \in Calls \ {c} : limit'[f] = limit[f] /\ period'[f] = period[f]
  <2>1. allowed \in Nat /\ month \in Months
    BY <1>1, RowsAre DEF CapOf, HookTypes
  <2> HIDE DEF allowed
  <2> QED BY <1>1, <1>2, <2>1 DEF HookTypes
<1>4. /\ held[c] = 0 /\ sessionHeld[c] = 0 /\ limit[c] = 0 /\ usage[c] = 0 /\ ~Entry(c)
      /\ c \notin swept /\ Worst[c] \in Nat /\ (hooks[c] \cap Failure # {} => usage[c] = 0)
  BY <1>1, <1>2, RowsAre DEF CallInv, HeldBoth
<1>5. UNCHANGED <<now, proc, named, hooks, usage, delta>>
  BY <1>2 DEF dates, where, answer
<1> DEFINE Refused == /\ Goto(c, "refused")
                      /\ UNCHANGED <<ledger, parked, broke>>
           Reserved2 == /\ Worst[c] <= allowed /\ Fits(row, Worst[c], allowed)
                        /\ AddMonth(c, row, Worst[c])
                        /\ IF c \in named THEN Goto(c, "session") /\ UNCHANGED parked ELSE Send(c)
                        /\ UNCHANGED broke
           Broken == /\ Worst[c] <= allowed /\ Fits(row, Worst[c], allowed)
                     /\ Throws(c, "refused", AddMonth(c, row, Worst[c])) /\ UNCHANGED parked
<1>6. Refused \/ Reserved2 \/ Broken
  BY <1>3 DEF PreCall
<1>7. ASSUME NEW d \in {0, Worst[c]}, Adds(c, month, d, 0),
             d = 0 \/ spent'[row] <= allowed
      PROVE  /\ Bounded(c, d, 0) /\ Adds(c, period'[c], d, 0)
             /\ held'[c] = d /\ sessionHeld'[c] = 0
  <2>1. held'[c] = d /\ sessionHeld'[c] = 0 /\ d \in Nat
    BY <1>4, <1>7 DEF Adds
  <2>2. period'[c] = month /\ limit'[c] = allowed
    BY <1>3
  <2> HIDE DEF allowed
  <2> QED BY <1>3, <1>4, <1>7, <2>1, <2>2 DEF Bounded, Lesser
<1>8. ASSUME Worst[c] <= allowed, Fits(row, Worst[c], allowed), AddMonth(c, row, Worst[c])
      PROVE  Adds(c, month, Worst[c], 0) /\ spent'[row] <= allowed
  <2>1. Adds(c, month, Worst[c], 0) /\ spent'[row] = spent[row] + Worst[c]
    BY <1>1, <1>3, <1>4, <1>8, AddsMonth
  <2>2. row \in Rows
    BY <1>3, RowsAre
  <2>3. row \notin written => spent[row] = 0
    BY <1>1, <2>2 DEF RowInv
  <2> QED BY <1>4, <1>8, <2>1, <2>3 DEF Fits
<1>9. ASSUME UNCHANGED ledger PROVE Adds(c, month, 0, 0)
  BY <1>1, <1>9, AddsNothing
<1> HIDE DEF allowed, row
<1>10. ASSUME pc' = [pc EXCEPT ![c] = pc'[c]], pc'[c] \in Places, broke' \subseteq Calls,
              broke \subseteq broke'
       PROVE  Elsewhere(c)
  BY <1>2, <1>3, <1>10 DEF Elsewhere
<1>11. ASSUME NEW place, pc' = [pc EXCEPT ![c] = place]
       PROVE  pc'[c] = place /\ pc' = [pc EXCEPT ![c] = pc'[c]]
  BY <1>1, <1>11 DEF HookTypes
<1>12. ASSUME UNCHANGED parked
       PROVE  /\ StashInv' /\ swept' \subseteq Calls /\ ~Entry(c)' /\ c \notin swept'
              /\ \A f \in Calls \ {c} : Parked(f)
  BY <1>1, <1>4, <1>5, <1>12, StashStays, ParkedStays DEF parked, HookTypes
<1>13. broke \subseteq Calls
  BY <1>1 DEF HookTypes
<1>14. CASE Refused
  <2>1. Adds(c, period'[c], 0, 0) /\ Bounded(c, 0, 0) /\ held'[c] = 0 /\ sessionHeld'[c] = 0
    BY <1>7, <1>9, <1>14
  <2>2. pc'[c] = "refused" /\ Elsewhere(c)
    BY <1>10, <1>11, <1>13, <1>14 DEF Goto, Places
  <2>3. /\ StashInv' /\ swept' \subseteq Calls /\ ~Entry(c)' /\ c \notin swept'
        /\ \A f \in Calls \ {c} : Parked(f)
    BY <1>12, <1>14
  <2>4. CallInv(c)'
    BY <1>4, <1>5, <2>1, <2>2, <2>3 DEF CallInv
  <2> QED BY <2>1, <2>2, <2>3, <2>4, StoreKeeps
<1>15. CASE Reserved2
  <2>1. /\ Adds(c, period'[c], Worst[c], 0) /\ Bounded(c, Worst[c], 0)
        /\ held'[c] = Worst[c] /\ sessionHeld'[c] = 0
    BY <1>7, <1>8, <1>15
  <2>2. CASE c \in named
    <3>1. pc'[c] = "session" /\ Elsewhere(c)
      BY <1>10, <1>11, <1>13, <1>15, <2>2 DEF Goto, Places, Inside
    <3>2. /\ StashInv' /\ swept' \subseteq Calls /\ ~Entry(c)' /\ c \notin swept'
          /\ \A f \in Calls \ {c} : Parked(f)
      BY <1>12, <1>15, <2>2
    <3>3. CallInv(c)'
      BY <1>4, <1>5, <2>1, <2>2, <3>1, <3>2 DEF CallInv
    <3> QED BY <2>1, <3>1, <3>2, <3>3, StoreKeeps
  <2>3. CASE c \notin named
    <3>1. Send(c)
      BY <1>15, <2>3
    <3>2. pc'[c] = "sent" /\ Elsewhere(c)
      BY <1>10, <1>11, <1>13, <1>15, <3>1 DEF Send, Goto, Places
    <3>3. /\ StashInv' /\ Entry(c)' /\ c \notin swept' /\ swept' \subseteq Calls
          /\ \A f \in Calls \ {c} : Parked(f)
      BY <1>1, <1>4, <1>5, <3>1, Sends
    <3>4. HeldBoth(c, Worst[c])'
      BY <1>5, <2>1, <2>3 DEF HeldBoth
    <3>5. CallInv(c)'
      BY <1>4, <1>5, <3>2, <3>3, <3>4 DEF CallInv
    <3> QED BY <2>1, <3>2, <3>3, <3>5, StoreKeeps
  <2> QED BY <2>2, <2>3
<1>16. CASE Broken
  <2>1. PICK d \in {0, Worst[c]} : Adds(c, month, d, 0) /\ (d = 0 \/ spent'[row] <= allowed)
    BY <1>8, <1>9, <1>16 DEF Throws
  <2>2. Adds(c, period'[c], d, 0) /\ Bounded(c, d, 0) /\ held'[c] = d /\ sessionHeld'[c] = 0
    BY <1>7, <2>1
  <2>3. pc'[c] = "refused" /\ Elsewhere(c)
    BY <1>10, <1>11, <1>13, <1>16 DEF Throws, Goto, Places
  <2>4. /\ StashInv' /\ swept' \subseteq Calls /\ ~Entry(c)' /\ c \notin swept'
        /\ \A f \in Calls \ {c} : Parked(f)
    BY <1>12, <1>16
  <2>5. CallInv(c)'
    BY <1>4, <1>5, <2>2, <2>3, <2>4 DEF CallInv
  <2> QED BY <2>2, <2>3, <2>4, <2>5, StoreKeeps
<1> QED BY <1>6, <1>14, <1>15, <1>16

LEMMA ReserveSessionKeeps ==
  ASSUME HookInv, NEW c \in Calls, ReserveSession(c) PROVE HookInv'
<1>1. HookTypes /\ StashInv /\ CallInv(c) /\ RowInv
  BY DEF HookInv
<1>2. /\ pc[c] = "session"
      /\ UNCHANGED <<dates, claims, kept, where, budget, limit, period, hooks, answer, delta>>
  BY DEF ReserveSession
<1>3. /\ c \in named /\ held[c] = Worst[c] /\ sessionHeld[c] = 0 /\ usage[c] = 0 /\ ~Entry(c)
      /\ c \notin swept /\ Worst[c] \in Nat /\ period[c] \in Months /\ period'[c] = period[c]
      /\ (hooks[c] \cap Failure # {} => usage[c] = 0)
  BY <1>1, <1>2, RowsAre DEF CallInv, HookTypes
<1>4. UNCHANGED <<now, proc, named, hooks, usage, delta>>
  BY <1>2 DEF dates, where, answer
<1>5. ASSUME NEW e \in {0, Worst[c]}, Adds(c, period[c], 0, e), e = 0 \/ spent'[SessionRow(c)] <= SessionCap
      PROVE  /\ Bounded(c, 0, e) /\ Adds(c, period'[c], 0, e)
             /\ held'[c] = Worst[c] /\ sessionHeld'[c] = e
  <2>1. held'[c] = Worst[c] /\ sessionHeld'[c] = e
    BY <1>3, <1>5 DEF Adds
  <2> QED BY <1>2, <1>3, <1>5, <2>1 DEF Bounded, Lesser
<1>6. ASSUME SessionFits(c), AddSession(c, Worst[c])
      PROVE  Adds(c, period[c], 0, Worst[c]) /\ spent'[SessionRow(c)] <= SessionCap
  <2>1. Adds(c, period[c], 0, Worst[c]) /\ spent'[SessionRow(c)] = spent[SessionRow(c)] + Worst[c]
    BY <1>1, <1>3, <1>6, AddsSession
  <2>2. SessionRow(c) \in Rows
    BY RowsAre
  <2>3. SessionRow(c) \notin written => spent[SessionRow(c)] = 0
    BY <1>1, <2>2 DEF RowInv
  <2> QED BY <1>3, <1>6, <2>1, <2>3 DEF SessionFits, Fits
<1>7. ASSUME UNCHANGED ledger PROVE Adds(c, period[c], 0, 0)
  BY <1>1, <1>7, AddsNothing
<1>8. ASSUME NEW place \in Places, pc' = [pc EXCEPT ![c] = place], broke' \subseteq Calls,
             broke \subseteq broke'
      PROVE  pc'[c] = place /\ Elsewhere(c)
  BY <1>1, <1>2, <1>8 DEF Elsewhere, HookTypes
<1>9. ASSUME UNCHANGED parked
      PROVE  /\ StashInv' /\ swept' \subseteq Calls /\ ~Entry(c)' /\ c \notin swept'
             /\ \A f \in Calls \ {c} : Parked(f)
  BY <1>1, <1>3, <1>4, <1>9, StashStays, ParkedStays DEF parked, HookTypes
<1>10. broke \subseteq Calls
  BY <1>1 DEF HookTypes
<1>11. CASE SessionFits(c) /\ AddSession(c, Worst[c]) /\ Send(c) /\ UNCHANGED broke
  <2>1. /\ Adds(c, period'[c], 0, Worst[c]) /\ Bounded(c, 0, Worst[c])
        /\ held'[c] = Worst[c] /\ sessionHeld'[c] = Worst[c]
    BY <1>5, <1>6, <1>11
  <2>2. pc'[c] = "sent" /\ Elsewhere(c)
    BY <1>8, <1>10, <1>11 DEF Send, Goto, Places
  <2>3. /\ StashInv' /\ Entry(c)' /\ c \notin swept' /\ swept' \subseteq Calls
        /\ \A f \in Calls \ {c} : Parked(f)
    BY <1>1, <1>3, <1>4, <1>11, Sends
  <2>4. HeldBoth(c, Worst[c])'
    BY <1>3, <1>4, <2>1 DEF HeldBoth
  <2>5. CallInv(c)'
    BY <1>3, <1>4, <2>2, <2>3, <2>4 DEF CallInv
  <2> QED BY <2>1, <2>2, <2>3, <2>5, StoreKeeps
<1>12. CASE Goto(c, "release") /\ UNCHANGED <<ledger, parked, broke>>
  <2>1. Adds(c, period'[c], 0, 0) /\ Bounded(c, 0, 0) /\ held'[c] = Worst[c] /\ sessionHeld'[c] = 0
    BY <1>5, <1>7, <1>12
  <2>2. pc'[c] = "release" /\ Elsewhere(c)
    BY <1>8, <1>10, <1>12 DEF Goto, Places, Inside
  <2>3. /\ StashInv' /\ swept' \subseteq Calls /\ ~Entry(c)' /\ c \notin swept'
        /\ \A f \in Calls \ {c} : Parked(f)
    BY <1>9, <1>12
  <2>4. CallInv(c)'
    BY <1>3, <1>4, <2>1, <2>2, <2>3 DEF CallInv
  <2> QED BY <2>1, <2>2, <2>3, <2>4, StoreKeeps
<1>13. CASE Throws(c, "refused", SessionFits(c) /\ AddSession(c, Worst[c])) /\ UNCHANGED parked
  <2>1. PICK e \in {0, Worst[c]} :
          Adds(c, period[c], 0, e) /\ (e = 0 \/ spent'[SessionRow(c)] <= SessionCap)
    BY <1>6, <1>7, <1>13 DEF Throws
  <2>2. /\ Adds(c, period'[c], 0, e) /\ Bounded(c, 0, e)
        /\ held'[c] = Worst[c] /\ sessionHeld'[c] = e
    BY <1>5, <2>1
  <2>3. pc'[c] = "refused" /\ Elsewhere(c)
    BY <1>8, <1>10, <1>13 DEF Throws, Goto, Places
  <2>4. /\ StashInv' /\ swept' \subseteq Calls /\ ~Entry(c)' /\ c \notin swept'
        /\ \A f \in Calls \ {c} : Parked(f)
    BY <1>9, <1>13
  <2>5. CallInv(c)'
    BY <1>3, <1>4, <2>2, <2>3, <2>4 DEF CallInv
  <2> QED BY <2>2, <2>3, <2>4, <2>5, StoreKeeps
<1> QED BY <1>11, <1>12, <1>13 DEF ReserveSession

(* A store operation of c that only takes back, or settles: d on its month. *)
LEMMA MonthSettles ==
  ASSUME NEW c \in Calls, NEW place \in Places, NEW d \in Int, HookInv,
         UNCHANGED <<dates, claims, kept, where, budget, limit, period, parked, hooks, answer, delta>>,
         AddMonth(c, MonthRow(c), d) \/ UNCHANGED ledger,
         pc' = [pc EXCEPT ![c] = place], broke' \subseteq Calls, broke \subseteq broke',
         held[c] = Worst[c],
         held'[c] \in {held[c], held[c] + d} /\ sessionHeld'[c] = sessionHeld[c] => CallInv(c)'
  PROVE  HookInv'
<1>1. HookTypes /\ StashInv /\ CallInv(c)
  BY DEF HookInv
<1>2. period[c] \in Months /\ Worst[c] \in Nat /\ period' = period /\ limit' = limit
  BY <1>1, RowsAre DEF HookTypes
<1>3. PICK e \in {0, d} : Adds(c, period[c], e, 0)
  BY <1>1, <1>2, AddsMonth, AddsNothing DEF MonthRow
<1>4. held[c] \in Int /\ sessionHeld[c] \in Int /\ e \in Int /\ held'[c] = held[c] + e
      /\ sessionHeld'[c] = sessionHeld[c]
  BY <1>1, <1>3 DEF Adds, HookTypes
<1>5. Bounded(c, e, 0)
  BY <1>2, <1>4 DEF Bounded, Lesser
<1>6. CallInv(c)'
  BY <1>4
<1>7. Elsewhere(c)
  BY <1>1 DEF Elsewhere, HookTypes
<1>8. StashInv' /\ swept' \subseteq Calls /\ \A f \in Calls \ {c} : Parked(f)
  BY <1>1, StashStays, ParkedStays DEF parked, where, HookTypes
<1> QED BY <1>2, <1>3, <1>5, <1>6, <1>7, <1>8, StoreKeeps

LEMMA ReleaseKeeps ==
  ASSUME HookInv, NEW c \in Calls, Release(c) PROVE HookInv'
<1>1. HookTypes /\ CallInv(c)
  BY DEF HookInv
<1>2. /\ pc[c] = "release"
      /\ UNCHANGED <<dates, claims, kept, where, budget, limit, period, parked, hooks, answer, delta>>
      /\ AddMonth(c, MonthRow(c), -Worst[c]) \/ UNCHANGED ledger
      /\ pc' = [pc EXCEPT ![c] = "refused"] /\ broke' \subseteq Calls /\ broke \subseteq broke'
  BY <1>1 DEF Release, Throws, Goto, HookTypes
<1>3. /\ held[c] = Worst[c] /\ sessionHeld[c] = 0 /\ usage[c] = 0 /\ ~Entry(c) /\ c \notin swept
      /\ Worst[c] \in Nat
  BY <1>1, <1>2, RowsAre DEF CallInv
<1>4. usage' = usage /\ (Entry(c)' <=> Entry(c)) /\ swept' = swept
  BY <1>2, ParkedStays DEF answer, where, parked
<1>5. pc'[c] = "refused"
  BY <1>1, <1>2 DEF HookTypes
<1>6. held'[c] \in {held[c], held[c] - Worst[c]} /\ sessionHeld'[c] = sessionHeld[c] => CallInv(c)'
  BY <1>3, <1>4, <1>5 DEF CallInv
<1>7. "refused" \in Places /\ -Worst[c] \in Int /\ held[c] - Worst[c] = held[c] + (-Worst[c])
  BY <1>3 DEF Places
<1> QED BY <1>2, <1>3, <1>6, <1>7, MonthSettles

LEMMA SettleMonthKeeps ==
  ASSUME HookInv, NEW c \in Calls, SettleMonth(c) PROVE HookInv'
<1> DEFINE unchanged ==
      UNCHANGED <<dates, claims, kept, where, budget, limit, period, parked, hooks, answer, delta>>
<1>1. HookTypes /\ CallInv(c)
  BY DEF HookInv
<1>2. pc[c] = "books" /\ unchanged /\ broke' \subseteq Calls /\ broke \subseteq broke'
  BY <1>1 DEF SettleMonth, Throws, HookTypes
<1>3. /\ HeldBoth(c, Worst[c]) /\ delta[c] = usage[c] - Worst[c] /\ ~Entry(c) /\ c \notin swept
      /\ (hooks[c] \cap Failure # {} => usage[c] = 0)
      /\ Worst[c] \in Nat /\ usage[c] \in Nat /\ period[c] \in Months
  BY <1>1, <1>2, RowsAre DEF CallInv, HookTypes
<1>4. /\ held[c] = Worst[c] /\ held[c] + delta[c] = usage[c] /\ delta[c] \in Int
      /\ sessionHeld[c] = IF c \in named THEN Worst[c] ELSE 0
  BY <1>3 DEF HeldBoth
<1>5. /\ UNCHANGED <<usage, delta, hooks, named, swept>> /\ (Entry(c)' <=> Entry(c))
  BY <1>2, ParkedStays DEF answer, where, parked
<1>6. CASE /\ AddMonth(c, MonthRow(c), delta[c])
           /\ Goto(c, IF c \in named THEN "sessionBooks" ELSE "answered")
  <2> DEFINE place == IF c \in named THEN "sessionBooks" ELSE "answered"
  <2>1. pc' = [pc EXCEPT ![c] = place] /\ pc'[c] = place /\ place \in Places
    BY <1>1, <1>6 DEF Goto, HookTypes, Places, Inside
  <2>2. held'[c] = usage[c] /\ sessionHeld'[c] = sessionHeld[c]
    <3>1. Adds(c, period[c], delta[c], 0)
      BY <1>1, <1>3, <1>4, <1>6, AddsMonth DEF MonthRow
    <3>2. sessionHeld[c] \in Int
      BY <1>1 DEF HookTypes
    <3> QED BY <1>4, <3>1, <3>2 DEF Adds
  <2>3. CallInv(c)'
    <3>1. CASE c \in named
      BY <1>3, <1>4, <1>5, <2>1, <2>2, <3>1 DEF CallInv
    <3>2. CASE c \notin named
      <4>1. HeldBoth(c, usage[c])'
        BY <1>4, <1>5, <2>2, <3>2 DEF HeldBoth
      <4> QED BY <1>3, <1>4, <1>5, <2>1, <2>2, <3>2, <4>1 DEF CallInv, HeldBoth
    <3> QED BY <3>1, <3>2
  <2> HIDE DEF place
  <2> QED BY <1>2, <1>4, <1>6, <2>1, <2>3, MonthSettles
<1>7. CASE Throws(c, "answered", AddMonth(c, MonthRow(c), delta[c]))
  <2>1. /\ pc' = [pc EXCEPT ![c] = "answered"] /\ pc'[c] = "answered" /\ "answered" \in Places
        /\ c \in broke' /\ (AddMonth(c, MonthRow(c), delta[c]) \/ UNCHANGED ledger)
    BY <1>1, <1>7 DEF Throws, Goto, HookTypes, Places
  <2>2. held'[c] \in {held[c], held[c] + delta[c]} /\ sessionHeld'[c] = sessionHeld[c] => CallInv(c)'
    BY <1>3, <1>4, <1>5, <2>1 DEF CallInv
  <2> QED BY <1>2, <1>4, <2>1, <2>2, MonthSettles
<1> QED BY <1>6, <1>7 DEF SettleMonth

LEMMA SettleSessionKeeps ==
  ASSUME HookInv, NEW c \in Calls, SettleSession(c) PROVE HookInv'
<1>1. HookTypes /\ StashInv /\ CallInv(c)
  BY DEF HookInv
<1>2. /\ pc[c] = "sessionBooks"
      /\ UNCHANGED <<dates, claims, kept, where, budget, limit, period, parked, hooks, answer, delta>>
      /\ pc' = [pc EXCEPT ![c] = "answered"] /\ broke' \subseteq Calls /\ broke \subseteq broke'
      /\ AddSession(c, delta[c]) \/ (c \in broke' /\ UNCHANGED ledger)
  BY <1>1 DEF SettleSession, Throws, Goto, HookTypes
<1>3. /\ c \in named /\ held[c] = usage[c] /\ sessionHeld[c] = Worst[c]
      /\ delta[c] = usage[c] - Worst[c] /\ ~Entry(c) /\ c \notin swept
      /\ (hooks[c] \cap Failure # {} => usage[c] = 0)
      /\ Worst[c] \in Nat /\ usage[c] \in Nat /\ period[c] \in Months
  BY <1>1, <1>2, RowsAre DEF CallInv, HookTypes
<1>4. /\ UNCHANGED <<usage, delta, hooks, named, swept, period, limit>> /\ (Entry(c)' <=> Entry(c))
  BY <1>2, ParkedStays DEF answer, where, parked
<1>5. pc'[c] = "answered"
  BY <1>1, <1>2 DEF HookTypes
<1>6. PICK e \in {0, delta[c]} :
        Adds(c, period[c], 0, e) /\ (c \in broke' \/ e = delta[c])
  BY <1>1, <1>2, <1>3, AddsSession, AddsNothing
<1>7. held'[c] = usage[c] /\ sessionHeld'[c] = Worst[c] + e /\ e \in Int
  BY <1>3, <1>6 DEF Adds
<1>8. CallInv(c)'
  <2>1. sessionHeld'[c] \in {Worst[c], usage[c]}
    BY <1>3, <1>7
  <2>2. c \in broke' \/ HeldBoth(c, usage[c])'
    BY <1>3, <1>4, <1>6, <1>7 DEF HeldBoth
  <2> QED BY <1>3, <1>4, <1>5, <1>7, <2>1, <2>2 DEF CallInv
<1>9. Bounded(c, 0, e)
  BY <1>3, <1>4, <1>7 DEF Bounded, Lesser
<1>10. Elsewhere(c)
  BY <1>1, <1>2 DEF Elsewhere, HookTypes, Places
<1>11. StashInv' /\ swept' \subseteq Calls /\ \A f \in Calls \ {c} : Parked(f)
  BY <1>1, <1>2, StashStays, ParkedStays DEF parked, where, HookTypes
<1> QED BY <1>4, <1>6, <1>8, <1>9, <1>10, <1>11, StoreKeeps

(* Time, the calendar and the claims leave the calls and the ledger alone.   *)
LEMMA WorldKeeps ==
  ASSUME HookInv,
         UNCHANGED <<kept, ledger, pc, where, budget, limit, period, parked, hooks, answer, delta, broke>>,
         now' \in Times, month' \in Months, FreshInv'
  PROVE  HookInv'
<1>1. /\ HookTypes /\ StashInv /\ RowInv /\ MonthHardStop /\ \A c \in Calls : CallInv(c)
  BY DEF HookInv
<1>2. UNCHANGED <<spent, written, held, sessionHeld, pc, proc, named, budget, limit, period, stash,
                  swept, hooks, billed, usage, delta, broke>>
  BY DEF ledger, where, parked, answer
<1>3. HookTypes'
  BY <1>1, <1>2 DEF HookTypes
<1>4. StashInv' /\ \A f : Entry(f)' <=> Entry(f)
  BY <1>1, <1>2, StashStays, ParkedStays
<1>5. RowInv' /\ MonthHardStop'
  BY <1>1, <1>2, LedgerStays
<1>6. \A c \in Calls : CallInv(c)'
  BY <1>1, <1>2, <1>4 DEF CallInv, HeldBoth
<1> QED BY <1>3, <1>4, <1>5, <1>6 DEF HookInv

LEMMA TimePassesKeeps == HookInv /\ TimePasses => HookInv'
<1> SUFFICES ASSUME HookInv, TimePasses PROVE HookInv'
  OBVIOUS
<1>1. /\ now < MaxTime /\ now' = now + 1
      /\ UNCHANGED <<month, claims, kept, ledger, pc, where, budget, limit, period, parked, hooks,
                     answer, delta, broke>>
  BY DEF TimePasses
<1>2. now \in Times /\ month \in Months /\ MaxTime \in Nat
  BY HookAssumption DEF HookInv, HookTypes
<1>3. now' \in Times /\ month' \in Months
  BY <1>1, <1>2 DEF Times
<1>4. FreshInv'
  <2>1. \A p \in Processes, t \in Tenants : \A e \in kept[p][t] : e.at \in Times
    BY DEF HookInv, FreshInv, Cached
  <2>2. FreshInv /\ UNCHANGED <<grants, changedAt, kept>>
    BY <1>1 DEF HookInv, claims
  <2>3. \A n \in Times : n <= now => n <= now'
    BY <1>1, <1>2 DEF Times
  <2> QED BY <2>1, <2>2, <2>3 DEF FreshInv
<1> QED BY <1>1, <1>3, <1>4, WorldKeeps

LEMMA NextMonthKeeps == HookInv /\ NextMonth => HookInv'
<1> SUFFICES ASSUME HookInv, NextMonth PROVE HookInv'
  OBVIOUS
<1>1. /\ month < LastMonth /\ month' = month + 1
      /\ UNCHANGED <<now, claims, kept, ledger, pc, where, budget, limit, period, parked, hooks,
                     answer, delta, broke>>
  BY DEF NextMonth
<1>2. now \in Times /\ month \in Months /\ LastMonth \in Nat
  BY HookAssumption DEF HookInv, HookTypes
<1>3. now' \in Times /\ month' \in Months
  BY <1>1, <1>2 DEF Months
<1>4. FreshInv'
  BY <1>1, FreshStays DEF HookInv
<1> QED BY <1>1, <1>3, <1>4, WorldKeeps

LEMMA SetClaimKeeps ==
  ASSUME HookInv, NEW t \in Tenants, SetClaim(t) PROVE HookInv'
<1>1. /\ changedAt' = [changedAt EXCEPT ![t] = now]
      /\ UNCHANGED <<dates, kept, ledger, pc, where, budget, limit, period, parked, hooks, answer,
                     delta, broke>>
  BY DEF SetClaim
<1>2. PICK g \in Grants \ {grants[t]} : grants' = [grants EXCEPT ![t] = g]
  BY DEF SetClaim
<1>3. /\ now \in Times /\ month \in Months /\ now' = now /\ month' = month /\ FreshInv
      /\ Times \subseteq Int
  BY <1>1 DEF HookInv, HookTypes, dates, Times
<1>4. FreshInv'
  <2>1. /\ grants' \in [Tenants -> Grants] /\ changedAt' \in [Tenants -> Int]
        /\ changedAt'[t] = now /\ kept' = kept
        /\ \A s \in Tenants \ {t} : grants'[s] = grants[s] /\ changedAt'[s] = changedAt[s]
    BY <1>1, <1>2, <1>3 DEF FreshInv
  <2>2. ASSUME NEW p \in Processes, NEW s \in Tenants
        PROVE  /\ kept'[p][s] = {} \/ \E e \in Cached : kept'[p][s] = {e}
               /\ \A e \in kept'[p][s] :
                    e.at <= now' /\ (e.grant = grants'[s] \/ e.at <= changedAt'[s])
    <3>1. /\ kept[p][s] = {} \/ \E e \in Cached : kept[p][s] = {e}
          /\ \A e \in kept[p][s] : e.at <= now /\ (e.grant = grants[s] \/ e.at <= changedAt[s])
      BY <1>3 DEF FreshInv
    <3>2. CASE s = t
      BY <1>3, <2>1, <3>1, <3>2
    <3>3. CASE s # t
      BY <1>3, <2>1, <3>1, <3>3
    <3> QED BY <3>2, <3>3
  <2> QED BY <1>3, <2>1, <2>2 DEF FreshInv
<1> QED BY <1>1, <1>3, <1>4, WorldKeeps

LEMMA HookKeeps == HookInv /\ [HookNext]_hookVars => HookInv'
<1> SUFFICES ASSUME HookInv, [HookNext]_hookVars PROVE HookInv'
  OBVIOUS
<1>1. ASSUME NEW c \in Calls, Hook(c) PROVE HookInv'
  BY <1>1, AuthenticateKeeps, UnverifiedKeeps, PreCallKeeps, ReserveSessionKeeps, ReleaseKeeps,
     FireHookKeeps, SettleMonthKeeps, SettleSessionKeeps DEF Hook
<1>2. ASSUME NEW c \in Calls, Answer(c) PROVE HookInv'
  BY <1>2, AnswerKeeps
<1>3. CASE UNCHANGED hookVars
  <2>1. UNCHANGED <<now, month, kept, ledger, pc, where, budget, limit, period, parked, hooks, answer,
                    delta, broke, claims>>
    BY <1>3 DEF hookVars, dates
  <2>2. now \in Times /\ month \in Months /\ FreshInv
    BY DEF HookInv, HookTypes
  <2>3. FreshInv'
    BY <2>1, <2>2, FreshStays
  <2> QED BY <2>1, <2>2, <2>3, WorldKeeps
<1> QED BY <1>1, <1>2, <1>3, TimePassesKeeps, NextMonthKeeps, SetClaimKeeps DEF HookNext

(* The hooks' inductive invariant holds: calls, stash, caches and rows each  *)
(* are as their place in admission_hook.py's callbacks has them.             *)
THEOREM HookInvariant == HookSpec => []HookInv
BY HookStart, HookKeeps, PTL DEF HookSpec

LEMMA HookImplies == HookInv => RowsAreHeld /\ SettledRight
<1> SUFFICES ASSUME HookInv PROVE RowsAreHeld /\ SettledRight
  OBVIOUS
<1>1. HookTypes /\ StashInv /\ FreshInv /\ RowInv
  BY DEF HookInv
<1>2. \A c \in Calls : /\ held[c] \in {0, Worst[c], usage[c]} /\ sessionHeld[c] \in {0, Worst[c], usage[c]}
                       /\ held[c] \in Nat /\ sessionHeld[c] \in Nat /\ usage[c] \in Nat
  BY HeldAreNat DEF HookInv
<1>3. HookTypeOK
  <2>1. held \in [Calls -> Nat] /\ sessionHeld \in [Calls -> Nat]
    BY <1>1, <1>2 DEF HookTypes
  <2>2. ASSUME NEW p \in Processes, NEW t \in Tenants
        PROVE  /\ kept[p][t] \subseteq [grant : Grants, at : Times]
               /\ Cardinality(kept[p][t]) <= 1
    <3>1. kept[p][t] \subseteq Cached /\ (kept[p][t] = {} \/ \E e \in Cached : kept[p][t] = {e})
      BY <1>1 DEF FreshInv
    <3>2. Cardinality({}) = 0 /\ \A e : Cardinality({e}) = 1
      BY FS_EmptySet, FS_Singleton
    <3>3. Cardinality(kept[p][t]) = 0 \/ Cardinality(kept[p][t]) = 1
      BY <3>1, <3>2, Zenon
    <3> QED BY <3>1, <3>3 DEF Cached
  <2>3. \A p \in Processes : stash[p] \subseteq [call : Calls, at : Times]
    BY <1>1 DEF StashInv, Entries
  <2>4. grants \in [Tenants -> Grants] /\ broke \cup swept \subseteq Calls
    BY <1>1 DEF FreshInv, HookTypes
  <2> QED BY <1>1, <2>1, <2>2, <2>3, <2>4 DEF HookTypeOK, HookTypes
<1>4. RowsAreHeld
  BY <1>1, <1>2, <1>3 DEF RowsAreHeld, RowInv
<1>5. ASSUME NEW c \in Calls
      PROVE  /\ CallInv(c) /\ Worst[c] \in Nat /\ billed[c] \in Nat /\ usage[c] \in Nat
  BY <1>1, RowsAre DEF HookInv, HookTypes
<1>6. NeverAHole
  <2> SUFFICES ASSUME NEW c \in Calls, pc[c] \in {"sent", "answered", "books", "sessionBooks"},
                      usage[c] = billed[c]
               PROVE  /\ held[c] >= Lesser(billed[c], Worst[c])
                      /\ c \in named => sessionHeld[c] >= Lesser(billed[c], Worst[c])
    BY DEF NeverAHole
  <2>1. /\ held[c] \in {Worst[c], billed[c]}
        /\ c \in named => sessionHeld[c] \in {Worst[c], billed[c]}
    BY <1>5 DEF CallInv, HeldBoth
  <2> QED BY <1>5, <2>1 DEF Lesser
<1>7. SettledExactly
  <2> SUFFICES ASSUME NEW c \in Calls, Quiet(c)
               PROVE  /\ c \in named => sessionHeld[c] = held[c]
                      /\ held[c] = usage[c] \/ c \in swept \/ \E e \in stash[proc[c]] : e.call = c
    BY DEF SettledExactly
  <2> QED BY <1>5 DEF CallInv, HeldBoth, Quiet, Entry
<1> QED BY <1>4, <1>6, <1>7 DEF SettledRight

(***************************************************************************)
(* Every unit on a row is held for a call of its tenant, whichever hooks   *)
(* fire and whatever throws: no reservation is settled twice, and none on  *)
(* a row that did not reserve.                                             *)
(***************************************************************************)
THEOREM RowsAreHeldAlways == HookSpec => []RowsAreHeld
BY HookInvariant, HookImplies, PTL

(***************************************************************************)
(* The hard stop of the callbacks: what the calls of a tenant's month have *)
(* reserved is within the cap of one of them, a session's within its own.  *)
(***************************************************************************)
THEOREM MonthHardStopHolds == HookSpec => []MonthHardStop
<1>1. HookInv => MonthHardStop
  BY DEF HookInv
<1> QED BY <1>1, HookInvariant, PTL

(***************************************************************************)
(* A call is charged no less than its reservation covers, and once: what   *)
(* the response says, or the whole reservation if it was swept.            *)
(***************************************************************************)
THEOREM SettledRightHolds == HookSpec => []SettledRight
BY HookInvariant, HookImplies, PTL

FreshStep ==
  \A c \in Calls :
    (pc[c] = "new" /\ pc'[c] = "admit" /\ now - changedAt[BearerOf[c]] >= CacheTTL) =>
    budget'[c] = grants[BearerOf[c]]

LEMMA FreshSteps == HookInv /\ [HookNext]_hookVars => [FreshStep]_hookVars
<1> SUFFICES ASSUME HookInv, HookNext, NEW c \in Calls, pc[c] = "new", pc'[c] = "admit",
                    now - changedAt[BearerOf[c]] >= CacheTTL
             PROVE  budget'[c] = grants[BearerOf[c]]
  BY DEF FreshStep
<1>1. HookTypes /\ FreshInv
  BY DEF HookInv
<1>2. Authenticate(c)
  <2>1. ASSUME NEW f \in Calls \ {c}, Hook(f) \/ Answer(f) PROVE FALSE
    <3>1. pc'[c] = pc[c]
      BY <1>1, <2>1 DEF Hook, Answer, Authenticate, Unverified, PreCall, ReserveSession, Release,
           FireHook, SettleMonth, SettleSession, Throws, Send, Goto, HookTypes
    <3> QED BY <3>1
  <2>2. pc' # pc
    OBVIOUS
  <2>3. \E f \in Calls : Hook(f) \/ Answer(f)
    BY <2>2 DEF HookNext, TimePasses, NextMonth, SetClaim
  <2>4. Hook(c) \/ Answer(c)
    BY <2>1, <2>3
  <2>5. pc'[c] # "refused"
    OBVIOUS
  <2> QED BY <1>1, <2>4, <2>5 DEF Hook, Answer, Unverified, PreCall, ReserveSession, Release,
           FireHook, SettleMonth, SettleSession, Goto, HookTypes
<1> DEFINE e == Grant(proc[c], BearerOf[c])
           p == proc[c]
           t == BearerOf[c]
<1>3. p \in Processes /\ t \in Tenants /\ now \in Int /\ changedAt[t] \in Int /\ CacheTTL \in Int
  BY <1>1, RowsAre, HookAssumption DEF HookTypes, FreshInv, Times
<1>4. e.grant = grants[t]
  <2>1. CASE \E g \in kept[p][t] : now - g.at < CacheTTL
    <3>1. PICK g \in kept[p][t] : now - g.at < CacheTTL
      BY <2>1
    <3>2. e \in kept[p][t] /\ (kept[p][t] = {} \/ \E f \in Cached : kept[p][t] = {f})
      BY <1>1, <1>3, <2>1 DEF Grant, FreshInv
    <3>3. e = g /\ e \in Cached
      BY <3>1, <3>2
    <3>4. e.at \in Int
      BY <3>3 DEF Cached, Times
    <3>5. ~(e.at <= changedAt[t])
      BY <1>3, <3>1, <3>3, <3>4
    <3> QED BY <1>1, <1>3, <3>2, <3>5 DEF FreshInv
  <2>2. CASE ~\E g \in kept[p][t] : now - g.at < CacheTTL
    BY <2>2 DEF Grant
  <2> QED BY <2>1, <2>2
<1>5. budget' = [budget EXCEPT ![c] = e.grant]
  <2>1. IF e.grant = NoClaim
        THEN Goto(c, "refused") /\ UNCHANGED budget
        ELSE Goto(c, "admit") /\ budget' = [budget EXCEPT ![c] = e.grant]
    BY <1>2 DEF Authenticate
  <2>2. ~Goto(c, "refused")
    BY <1>1 DEF Goto, HookTypes
  <2> QED BY <2>1, <2>2
<1> QED BY <1>1, <1>4, <1>5 DEF HookTypes

(***************************************************************************)
(* A claim that has not changed for a TTL is the one a call is admitted    *)
(* under, whichever process has what in its cache.                         *)
(***************************************************************************)
THEOREM ClaimIsFreshHolds == HookSpec => ClaimIsFresh
<1>1. HookInv /\ [HookNext]_hookVars => [\A c \in Calls :
       (pc[c] = "new" /\ pc'[c] = "admit" /\ now - changedAt[BearerOf[c]] >= CacheTTL) =>
       budget'[c] = grants[BearerOf[c]]]_hookVars
  BY FreshSteps DEF FreshStep
<1> QED BY <1>1, HookInvariant, PTL DEF HookSpec, ClaimIsFresh

-----------------------------------------------------------------------------
(***************************************************************************)
(* Claims.  A verdict is a sum over the claims created before, whose       *)
(* budgets are these.                                                      *)
(***************************************************************************)
Versions == {Absent} \cup Objects

BudgetsOf(objects) == [d \in Names |-> IF objects[d] = Absent THEN 0 ELSE objects[d].spec.budget]

(* J adds up the budgets of every subset of T. *)
BudgetAdder(J, T, objects) ==
  J = [s \in SUBSET T |-> IF s = {} THEN 0 ELSE objects[Pick(s)].spec.budget + J[s \ {Pick(s)}]]

LEMMA TotalIsAdder ==
  ASSUME NEW T, NEW objects
  PROVE  MapThenSumSet(LAMBDA d : objects[d].spec.budget, T)
           = (CHOOSE J : BudgetAdder(J, T, objects))[T]
BY DEF MapThenSumSet, MapThenFoldSet, BudgetAdder, Pick

LEMMA BudgetsAre ==
  ASSUME NEW objects \in [Names -> Versions]
  PROVE  /\ Finite(Names, BudgetsOf(objects))
         /\ Existing(objects) \in SUBSET Names
         /\ \A d \in Names : BudgetsOf(objects)[d] \in Nat
         /\ \A d \in Existing(objects) : /\ BudgetsOf(objects)[d] = objects[d].spec.budget
                                         /\ objects[d] \in Objects /\ objects[d] # Absent
<1>1. \A d \in Names : objects[d] = Absent \/ objects[d] \in Objects
  BY DEF Versions
<1>2. \A o \in Objects : o.spec.budget \in Nat
  <2>1. \A o \in Objects : o.spec \in Specs
    BY DEF Objects
  <2>2. \A s \in Specs : s.budget \in Nat
    <3>1. Budgets \subseteq Nat
      BY ClaimsAssumption
    <3>2. \A s \in Specs : s.budget \in Budgets \cup {0}
      BY ONLY DEF Specs
    <3>3. Budgets \cup {0} \subseteq Nat
      BY <3>1
    <3> QED BY ONLY <3>2, <3>3
  <2> QED BY <2>1, <2>2
<1>3. \A d \in Names : BudgetsOf(objects)[d] = IF objects[d] = Absent THEN 0 ELSE objects[d].spec.budget
  BY DEF BudgetsOf
<1>4. \A d \in Names : BudgetsOf(objects)[d] \in Nat
  BY <1>1, <1>2, <1>3
<1>5. Finite(Names, BudgetsOf(objects))
  BY <1>4, ClaimsAssumption DEF Finite
<1>6. Existing(objects) = {c \in Names : objects[c] # Absent}
  BY DEF Existing
<1> QED BY <1>1, <1>3, <1>4, <1>5, <1>6

LEMMA TotalIsSum ==
  ASSUME NEW objects \in [Names -> Versions], NEW T \in SUBSET Existing(objects)
  PROVE  MapThenSumSet(LAMBDA d : objects[d].spec.budget, T) = SumFunctionOnSet(BudgetsOf(objects), T)
<1> DEFINE f == BudgetsOf(objects)
<1>1. /\ Finite(Names, f) /\ T \in SUBSET Names
      /\ \A d \in T : f[d] = objects[d].spec.budget
  BY BudgetsAre
<1>2. IsFiniteSet(T)
  BY <1>1, FS_Subset DEF Finite
<1> HIDE DEF f
<1>3. \A I : BudgetAdder(I, T, objects) <=> Adder(I, T, f)
  <2> SUFFICES ASSUME NEW I PROVE BudgetAdder(I, T, objects) <=> Adder(I, T, f)
    OBVIOUS
  <2> DEFINE A(s) == IF s = {} THEN 0 ELSE objects[Pick(s)].spec.budget + I[s \ {Pick(s)}]
             B(s) == IF s = {} THEN 0 ELSE f[Pick(s)] + I[s \ {Pick(s)}]
  <2>1. \A s \in SUBSET T : A(s) = B(s)
    <3>1. \A s \in SUBSET T : s # {} => f[Pick(s)] = objects[Pick(s)].spec.budget
      BY <1>1, PickIs
    <3> QED BY <3>1
  <2>2. BudgetAdder(I, T, objects) <=> I = [s \in SUBSET T |-> A(s)]
    BY DEF BudgetAdder
  <2>3. Adder(I, T, f) <=> I = [s \in SUBSET T |-> B(s)]
    BY DEF Adder
  <2> HIDE DEF A, B
  <2>4. [s \in SUBSET T |-> A(s)] = [s \in SUBSET T |-> B(s)]
    BY <2>1
  <2> QED BY <2>2, <2>3, <2>4
<1>4. PICK I : Adder(I, T, f)
  BY <1>2, AdderExists
<1> DEFINE J == CHOOSE K : BudgetAdder(K, T, objects)
           I2 == CHOOSE K : Adder(K, T, f)
<1>5. Adder(J, T, f)
  <2>1. BudgetAdder(J, T, objects)
    BY <1>3, <1>4
  <2> HIDE DEF J
  <2> QED BY <1>3, <2>1
<1>6. MapThenSumSet(LAMBDA d : objects[d].spec.budget, T) = J[T]
  BY TotalIsAdder
<1>7. SumFunctionOnSet(f, T) = I2[T]
  BY SumIsAdder
<1>8. Adder(I2, T, f)
  BY <1>4
<1> HIDE DEF J, I2
<1>9. \A x \in T : f[x] \in Int
  BY <1>1 DEF Finite
<1>10. J[T] = I2[T]
  BY <1>2, <1>5, <1>8, <1>9, AdderSays
<1> QED BY <1>6, <1>7, <1>10 DEF f

LEMMA TotalsAre ==
  ASSUME NEW objects \in [Names -> Versions], NEW c \in Existing(objects)
  PROVE  /\ RunningTotal(objects, c) = SumFunctionOnSet(BudgetsOf(objects), Earlier(objects, c))
         /\ Earlier(objects, c) \in SUBSET Existing(objects) /\ c \in Earlier(objects, c)
<1>1. Earlier(objects, c) \in SUBSET Existing(objects)
  BY DEF Earlier
<1>2. c \in Earlier(objects, c)
  <2>1. c \in Existing(objects) /\ c \in Int
    BY BudgetsAre, ClaimsAssumption
  <2>2. c <= c
    BY <2>1
  <2> QED BY <2>1, <2>2 DEF Earlier
<1> QED BY <1>1, <1>2, TotalIsSum DEF RunningTotal

(* The order of creation. *)
LEMMA Order ==
  ASSUME NEW objects \in [Names -> Versions], NEW c \in Existing(objects), NEW d \in Existing(objects)
  PROVE  /\ c \in Earlier(objects, c)
         /\ c \in Earlier(objects, d) \/ d \in Earlier(objects, c)
         /\ d \in Earlier(objects, c) => Earlier(objects, d) \subseteq Earlier(objects, c)
<1>1. \A e \in Existing(objects) : objects[e].born \in Nat /\ e \in Int
  <2>1. \A o \in Objects : o.born \in Nat
    BY DEF Objects
  <2>2. \A e \in Existing(objects) : objects[e] \in Objects /\ e \in Names
    BY BudgetsAre
  <2>3. Names \subseteq Int
    BY ClaimsAssumption
  <2> QED BY <2>1, <2>2, <2>3
<1> QED BY <1>1 DEF Earlier

(* Of some claims one was created last. *)
LEMMA LastCreated ==
  ASSUME NEW objects \in [Names -> Versions], NEW T \in SUBSET Existing(objects), T # {}
  PROVE  \E m \in T : T \subseteq Earlier(objects, m)
<1> DEFINE X == {s \in SUBSET T : s = {} \/ \E m \in s : s \subseteq Earlier(objects, m)}
<1>1. {} \in X /\ X \in SUBSET (SUBSET T)
  OBVIOUS
<1>2. ASSUME NEW s \in X, NEW c \in T, c \notin s PROVE s \cup {c} \in X
  <2>1. c \in Existing(objects) /\ c \in Earlier(objects, c)
    BY Order
  <2>2. CASE s = {}
    BY <2>1, <2>2
  <2>3. CASE s # {}
    <3>1. PICK m \in s : s \subseteq Earlier(objects, m)
      BY <2>3
    <3>2. m \in Existing(objects)
      OBVIOUS
    <3>3. c \in Earlier(objects, m) \/ Earlier(objects, m) \subseteq Earlier(objects, c)
      BY <2>1, <3>2, Order
    <3> QED BY <2>1, <3>1, <3>3
  <2> QED BY <2>2, <2>3
<1>3. IsFiniteSet(T)
  <2>1. T \in SUBSET Names /\ IsFiniteSet(Names)
    BY BudgetsAre, ClaimsAssumption
  <2> QED BY <2>1, FS_Subset
<1> HIDE DEF X
<1>4. T \in X
  BY <1>1, <1>2, <1>3, FinSets
<1> QED BY <1>4 DEF X

LEMMA ReadyIs ==
  ASSUME NEW objects, NEW ceiling, NEW c
  PROVE  Evaluate(objects, ceiling, c).ready
           <=> (ceiling # NoCap /\ RunningTotal(objects, c) <= ceiling)
BY DEF Evaluate

(***************************************************************************)
(* The verdicts bound a namespace: by the last of those ready, whose       *)
(* running total holds all of them.                                        *)
(***************************************************************************)
LEMMA AllowanceOf ==
  ASSUME NEW objects \in [Names -> Versions], NEW ceiling \in Nat \cup {NoCap},
         NEW ready, ready = {c \in Existing(objects) : Evaluate(objects, ceiling, c).ready}
  PROVE  /\ ready # {} => MapThenSumSet(LAMBDA d : objects[d].spec.budget, ready) <= ceiling
         /\ \A c \in ready : Earlier(objects, c) \subseteq ready
         /\ \A c, d \in Existing(objects) : c \in ready /\ d \notin Earlier(objects, c) =>
              Evaluate([objects EXCEPT ![d] = Absent], ceiling, c).ready
<1> DEFINE f == BudgetsOf(objects)
           Total(T) == SumFunctionOnSet(f, T)
<1>0. /\ Finite(Names, f) /\ Existing(objects) \in SUBSET Names
      /\ \A d \in Names : f[d] \in Nat
  BY BudgetsAre
<1>1. \A T \in SUBSET Names : Total(T) \in Int
  BY <1>0, SumSplits DEF Finite
<1>2. ASSUME NEW V \in SUBSET Names, NEW T \in SUBSET V PROVE Total(T) <= Total(V)
  <2> HIDE DEF f
  <2>1. (\A x \in T : f[x] <= f[x]) /\ \A x \in V \ T : 0 <= f[x]
    BY <1>0
  <2> QED BY <1>0, <2>1, SumLess
<1>3. \A c \in Existing(objects) :
        /\ RunningTotal(objects, c) = Total(Earlier(objects, c))
        /\ Earlier(objects, c) \in SUBSET Existing(objects) /\ c \in Earlier(objects, c)
  BY TotalsAre
<1>4. \A T \in SUBSET Existing(objects) :
        MapThenSumSet(LAMBDA d : objects[d].spec.budget, T) = Total(T)
  BY TotalIsSum
<1> HIDE DEF Total, f
<1>5. \A c : c \in ready <=> /\ c \in Existing(objects) /\ ceiling # NoCap
                              /\ Total(Earlier(objects, c)) <= ceiling
  <2>1. \A c : Evaluate(objects, ceiling, c).ready
                 <=> (ceiling # NoCap /\ RunningTotal(objects, c) <= ceiling)
    BY ReadyIs
  <2> QED BY <1>3, <2>1
<1>6. ready # {} => MapThenSumSet(LAMBDA d : objects[d].spec.budget, ready) <= ceiling
  <2> SUFFICES ASSUME ready # {} PROVE Total(ready) <= ceiling
    BY <1>4, <1>5
  <2>1. ready \in SUBSET Existing(objects)
    BY <1>5
  <2>2. PICK m \in ready : ready \subseteq Earlier(objects, m)
    BY <2>1, LastCreated
  <2>3. Earlier(objects, m) \in SUBSET Names /\ Total(Earlier(objects, m)) <= ceiling /\ ceiling \in Nat
    BY <1>0, <1>3, <1>5
  <2>4. Total(ready) <= Total(Earlier(objects, m))
    BY <1>2, <2>2, <2>3
  <2>5. Total(ready) \in Int /\ Total(Earlier(objects, m)) \in Int
    BY <1>0, <1>1, <2>1, <2>3
  <2> QED BY <2>3, <2>4, <2>5
<1>7. ASSUME NEW c \in ready, NEW d \in Earlier(objects, c) PROVE d \in ready
  <2>1. c \in Existing(objects) /\ d \in Existing(objects) /\ ceiling # NoCap /\ ceiling \in Nat
    BY <1>3, <1>5
  <2>2. Earlier(objects, d) \subseteq Earlier(objects, c) /\ Earlier(objects, c) \in SUBSET Names
    BY <1>0, <1>3, <2>1, Order
  <2>3. Total(Earlier(objects, d)) <= Total(Earlier(objects, c))
    BY <1>2, <2>2
  <2>4. Total(Earlier(objects, d)) \in Int /\ Total(Earlier(objects, c)) \in Int
    BY <1>1, <2>2
  <2>5. Total(Earlier(objects, c)) <= ceiling
    BY <1>5
  <2> QED BY <1>5, <2>1, <2>3, <2>4, <2>5
<1>8. ASSUME NEW c \in ready, NEW d \in Existing(objects), d \notin Earlier(objects, c)
      PROVE  Evaluate([objects EXCEPT ![d] = Absent], ceiling, c).ready
  <2> DEFINE less == [objects EXCEPT ![d] = Absent]
             g == BudgetsOf(less)
  <2>1. c \in Existing(objects) /\ c # d /\ c \in Names /\ d \in Names
    BY <1>0, <1>3, <1>5, <1>8
  <2>2. /\ less \in [Names -> Versions] /\ less[d] = Absent
        /\ \A e \in Names \ {d} : less[e] = objects[e]
    BY <2>1 DEF Versions
  <2> HIDE DEF less
  <2>3. Existing(less) = Existing(objects) \ {d}
    BY <2>1, <2>2 DEF Existing
  <2>4. Earlier(less, c) = Earlier(objects, c)
    <3>1. \A e \in Names \ {d} : e \in Earlier(less, c) <=> e \in Earlier(objects, c)
      BY <2>1, <2>2, <2>3 DEF Earlier
    <3>2. d \notin Earlier(less, c) /\ Earlier(less, c) \subseteq Names
      BY <1>0, <2>3 DEF Earlier
    <3>3. Earlier(objects, c) \subseteq Names \ {d} /\ Earlier(less, c) \subseteq Names \ {d}
      BY <1>0, <1>3, <1>8, <2>1, <3>2
    <3> DEFINE A == Earlier(less, c)
               B == Earlier(objects, c)
    <3> HIDE DEF A, B
    <3>4. A = B
      BY <3>1, <3>3 DEF A, B
    <3> QED BY <3>4 DEF A, B
  <2>5. RunningTotal(less, c) = SumFunctionOnSet(g, Earlier(objects, c))
    BY <2>1, <2>2, <2>3, <2>4, TotalsAre
  <2>6. Finite(Names, g)
    BY <2>2, BudgetsAre
  <2>7. \A e \in Earlier(objects, c) : g[e] = f[e]
    <3>1. \A e \in Earlier(objects, c) : e \in Names \ {d}
      BY <1>0, <1>3, <1>8, <2>1
    <3> QED BY <2>2, <3>1 DEF BudgetsOf, f
  <2> HIDE DEF g
  <2>8. SumFunctionOnSet(g, Earlier(objects, c)) = Total(Earlier(objects, c))
    BY <1>0, <1>3, <2>1, <2>6, <2>7, SumSame DEF Total
  <2>9. ceiling # NoCap /\ RunningTotal(less, c) <= ceiling
    BY <1>5, <2>5, <2>8
  <2>10. Evaluate(less, ceiling, c).ready
    BY <2>9, ReadyIs
  <2> QED BY <2>10 DEF less
<1> QED BY <1>6, <1>7, <1>8

-----------------------------------------------------------------------------
(***************************************************************************)
(* Passes, refreshes and what they know.                                   *)
(***************************************************************************)
Lists == [at : {"idle", "listed", "writing"}, seen : [Names -> Versions],
          left : SUBSET Names, current : SUBSET Names, cap : Caps \cup {NoCap}]

Readings == [at : {"idle", "listed"}, of : SUBSET Names, by : SUBSET Names, on : Nat]

ClaimsTypes ==
  /\ setting \in Settings /\ clock \in Nat /\ cap \in Caps
  /\ api \in [Names -> Versions]
  /\ pass \in [Passes -> Lists]
  /\ reader \in [Readers -> Readings]
  /\ cache \in [Names -> [at : Int, on : BOOLEAN]]
  /\ was \in [Names -> [BOOLEAN -> Int]]

(* What a pass is still to judge and nobody has written is as it was listed. *)
PassInv ==
  \A p \in Passes :
    /\ pass[p].left \subseteq Existing(pass[p].seen)
    /\ \A c \in pass[p].left \cap pass[p].current : api[c] = pass[p].seen[c]
    /\ p \notin setting.passes => pass[p].left = {}

TableInv ==
  setting.lane = "table" =>
    /\ cap # NoCap
    /\ \A c \in Names : api[c] # Absent => api[c].status = Unjudged /\ api[c].spec.budget <= cap

(* That c is honourable (h), or is not, holds or has held since then. *)
HeldSince(c, h, then) ==
  \/ h /\ (Honourable(api[c]) \/ then <= was[c][TRUE])
  \/ ~h /\ (~Honourable(api[c]) \/ then <= was[c][FALSE])

RecentInv ==
  /\ \A q \in Readers : reader[q].at = "listed" =>
       /\ q \in setting.readers /\ reader[q].on <= clock /\ clock - reader[q].on <= Latency
       /\ \A c \in reader[q].of : HeldSince(c, c \in reader[q].by, reader[q].on)
  /\ \A c \in Names :
       /\ \A h \in BOOLEAN : 0 - (TTL + Latency) <= was[c][h] /\ was[c][h] <= clock
       /\ 0 - TTL <= cache[c].at /\ cache[c].at <= clock
       /\ HeldSince(c, cache[c].on, cache[c].at - Latency)
       /\ setting.readers = {} => cache[c].at = 0 - TTL

ClaimsInv == ClaimsTypes /\ PassInv /\ TableInv /\ RecentInv

LEMMA ClaimConstants ==
  /\ Names \subseteq Int /\ TTL \in Nat /\ TTL # 0 /\ Latency \in Nat
  /\ Caps \subseteq Nat \cup {NoCap} /\ NoCap \notin Nat
  /\ \A s \in Settings : /\ s.lane \in Lanes /\ s.passes \subseteq Passes /\ s.readers \subseteq Readers
                         /\ s.lane \in {"table", "roles"} => s.passes = {}
BY ClaimsAssumption

LEMMA ClaimsStart == Init => ClaimsInv
<1> SUFFICES ASSUME Init PROVE ClaimsInv
  OBVIOUS
<1>1. /\ setting \in Settings /\ clock = 0 /\ cap \in Caps
      /\ api \in [Names -> {Absent} \cup [spec : Writable, born : {0}, status : {Unjudged}]]
      /\ setting.lane = "table" =>
           cap # NoCap /\ \A c \in Names : api[c] # Absent => ValidClaim(api[c].spec)
      /\ pass = [p \in Passes |-> NotListed] /\ reader = [q \in Readers |-> NotReading]
      /\ cache = [c \in Names |-> [at |-> -TTL, on |-> FALSE]]
      /\ was = [c \in Names |-> [h \in BOOLEAN |-> -(TTL + Latency)]]
  BY DEF Init
<1>2. TTL \in Nat /\ Latency \in Nat
  BY ClaimConstants
<1>3. api \in [Names -> Versions]
  <2>1. [spec : Writable, born : {0}, status : {Unjudged}] \subseteq Objects
    BY DEF Writable, Objects
  <2> QED BY <1>1, <2>1 DEF Versions
<1>4. NotListed \in Lists /\ NotReading \in Readings
  BY DEF NotListed, NotReading, Lists, Readings, Versions
<1>5. ClaimsTypes
  BY <1>1, <1>2, <1>3, <1>4 DEF ClaimsTypes
<1>6. PassInv
  BY <1>1 DEF PassInv, NotListed
<1>7. TableInv
  <2>1. \A c \in Names : api[c] # Absent => api[c].status = Unjudged
    BY <1>1
  <2> QED BY <1>1, <2>1 DEF TableInv, ValidClaim
<1>8. RecentInv
  <2>1. \A q \in Readers : reader[q].at = "idle"
    BY <1>1 DEF NotReading
  <2>2. ASSUME NEW c \in Names
        PROVE  /\ \A h \in BOOLEAN : was[c][h] = 0 - (TTL + Latency)
               /\ cache[c].at = 0 - TTL /\ cache[c].on = FALSE
    BY <1>1, <1>2
  <2>3. /\ 0 - (TTL + Latency) <= 0 - (TTL + Latency) /\ 0 - (TTL + Latency) <= 0
        /\ 0 - TTL <= 0 - TTL /\ 0 - TTL <= 0 /\ (0 - TTL) - Latency <= 0 - (TTL + Latency)
    BY <1>2
  <2>4. \A c \in Names : HeldSince(c, cache[c].on, cache[c].at - Latency)
    BY <2>2, <2>3 DEF HeldSince
  <2> QED BY <1>1, <2>1, <2>2, <2>3, <2>4 DEF RecentInv
<1> QED BY <1>5, <1>6, <1>7, <1>8 DEF ClaimsInv

Statuses == [ready : BOOLEAN, sum : Nat, cap : Nat \cup {NoCap}]

LEMMA VerdictIs ==
  ASSUME ClaimsTypes, NEW objects \in [Names -> Versions], NEW ceiling \in Nat \cup {NoCap},
         NEW c \in Existing(objects)
  PROVE  Verdict(objects, ceiling, c) \in Statuses
<1>1. RunningTotal(objects, c) \in Nat
  <2> DEFINE f == BudgetsOf(objects)
             T == Earlier(objects, c)
  <2>1. RunningTotal(objects, c) = SumFunctionOnSet(f, T) /\ T \in SUBSET Names
    BY TotalsAre, BudgetsAre
  <2>2. Finite(Names, f) /\ \A d \in Names : f[d] \in Nat
    BY BudgetsAre
  <2> HIDE DEF f, T
  <2>3. SumFunctionOnSet(f, {}) = 0 /\ SumFunctionOnSet(f, T) \in Int
    BY <2>1, <2>2, SumSplits DEF Finite
  <2>4. {} \in SUBSET T /\ (\A x \in {} : f[x] <= f[x]) /\ \A x \in T \ {} : 0 <= f[x]
    BY <2>1, <2>2
  <2>5. SumFunctionOnSet(f, {}) <= SumFunctionOnSet(f, T)
    BY <2>1, <2>2, <2>4, SumLess
  <2> QED BY <2>1, <2>3, <2>5
<1>2. Evaluate(objects, ceiling, c) \in Statuses
  BY <1>1 DEF Evaluate, Statuses
<1>3. objects[c].spec.wellFormed \in BOOLEAN
  <2>1. objects[c] \in Objects
    BY BudgetsAre
  <2>2. objects[c].spec \in Specs
    BY <2>1 DEF Objects
  <2> QED BY <2>2 DEF Specs
<1>4. Validate(objects[c]) \in Statuses
  BY <1>3 DEF Validate, Statuses
<1> QED BY <1>2, <1>4 DEF Verdict

LEMMA LeastIs ==
  ASSUME NEW T \in SUBSET Names, T # {}
  PROVE  (CHOOSE c \in T : \A d \in T : c <= d) \in T
<1> DEFINE X == {s \in SUBSET T : s = {} \/ \E m \in s : \A d \in s : m <= d}
<1>0. T \subseteq Int /\ IsFiniteSet(T)
  BY ClaimsAssumption, FS_Subset
<1>1. {} \in X /\ X \in SUBSET (SUBSET T)
  OBVIOUS
<1>2. ASSUME NEW s \in X, NEW c \in T, c \notin s PROVE s \cup {c} \in X
  BY <1>0
<1> HIDE DEF X
<1>3. T \in X
  BY <1>0, <1>1, <1>2, FinSets
<1>4. \E c \in T : \A d \in T : c <= d
  BY <1>3 DEF X
<1> QED BY <1>4

LEMMA HonourableIs == \A o : Honourable(o) \in BOOLEAN
BY DEF Honourable

(* What a write of c does: what was so until now was so now. *)
LEMMA StoreIs ==
  ASSUME ClaimsTypes, NEW c \in Names, NEW object \in Versions, Store(c, object)
  PROVE  /\ api' \in [Names -> Versions] /\ api'[c] = object
         /\ \A d \in Names \ {c} : api'[d] = api[d]
         /\ was' \in [Names -> [BOOLEAN -> Int]]
         /\ \A d \in Names, h \in BOOLEAN : was'[d][h] = was[d][h] \/ was'[d][h] = clock
         /\ \A d \in Names \ {c} : was'[d] = was[d]
         /\ setting.readers # {} => was'[c][Honourable(api[c])] = clock
         /\ setting.readers = {} => was' = was
<1> DEFINE old == Honourable(api[c])
<1>1. /\ api' = [api EXCEPT ![c] = object]
      /\ was' = IF setting.readers = {} THEN was ELSE [was EXCEPT ![c][old] = clock]
  BY DEF Store
<1>2. old \in BOOLEAN
  BY HonourableIs
<1> HIDE DEF old
<1>3. /\ api \in [Names -> Versions] /\ was \in [Names -> [BOOLEAN -> Int]] /\ clock \in Int
  BY DEF ClaimsTypes
<1>4. /\ api' \in [Names -> Versions] /\ api'[c] = object
      /\ \A d \in Names \ {c} : api'[d] = api[d]
  BY <1>1, <1>3
<1>5. CASE setting.readers = {}
  <2>1. was' = was
    BY <1>1, <1>5
  <2> QED BY <1>3, <1>4, <1>5, <2>1
<1>6. CASE setting.readers # {}
  <2>1. was' = [was EXCEPT ![c] = [@ EXCEPT ![old] = clock]]
    BY <1>1, <1>6
  <2> DEFINE row == [was[c] EXCEPT ![old] = clock]
  <2>2. row \in [BOOLEAN -> Int] /\ row[old] = clock /\ \A h \in BOOLEAN : row[h] = was[c][h] \/ row[h] = clock
    BY <1>2, <1>3
  <2>3. was' = [was EXCEPT ![c] = row]
    BY <2>1
  <2> HIDE DEF row
  <2>4. /\ was' \in [Names -> [BOOLEAN -> Int]] /\ was'[c] = row
        /\ \A d \in Names \ {c} : was'[d] = was[d]
    BY <1>3, <2>2, <2>3
  <2>5. \A d \in Names, h \in BOOLEAN : was'[d][h] = was[d][h] \/ was'[d][h] = clock
    BY <2>2, <2>4
  <2> QED BY <1>4, <1>6, <2>2, <2>4, <2>5 DEF old
<1> QED BY <1>5, <1>6

LEMMA HeldOn ==
  ASSUME ClaimsTypes, NEW c \in Names, NEW object \in Versions, Store(c, object),
         setting' = setting, setting.readers # {},
         NEW d \in Names, NEW h, NEW then \in Int, then <= clock, HeldSince(d, h, then)
  PROVE  \/ h /\ (Honourable(api[d])' \/ then <= was'[d][TRUE])
         \/ ~h /\ (~Honourable(api[d])' \/ then <= was'[d][FALSE])
<1>1. /\ \A e \in Names \ {c} : api'[e] = api[e] /\ was'[e] = was[e]
      /\ \A k \in BOOLEAN : was'[c][k] = was[c][k] \/ was'[c][k] = clock
      /\ was'[c][Honourable(api[c])] = clock
  BY StoreIs
<1>2. CASE d # c
  <2>1. Honourable(api[d])' <=> Honourable(api[d])
    BY <1>1, <1>2 DEF Honourable
  <2> QED BY <1>1, <1>2, <2>1 DEF HeldSince
<1>3. CASE d = c
  <2>1. CASE Honourable(api[c])
    <3>1. Honourable(api[c]) = TRUE
      BY <2>1
    <3>2. was'[c][TRUE] = clock
      BY <1>1, <3>1
    <3>3. ~h => then <= was[c][FALSE]
      BY <1>3, <2>1 DEF HeldSince
    <3>4. ~h => then <= was'[c][FALSE]
      BY <1>1, <3>3
    <3> QED BY <1>3, <3>2, <3>4
  <2>2. CASE ~Honourable(api[c])
    <3>1. Honourable(api[c]) = FALSE
      BY <2>2
    <3>2. was'[c][FALSE] = clock
      BY <1>1, <3>1
    <3>3. h => then <= was[c][TRUE]
      BY <1>3, <2>2 DEF HeldSince
    <3>4. h => then <= was'[c][TRUE]
      BY <1>1, <3>3
    <3> QED BY <1>3, <3>2, <3>4
  <2> QED BY <2>1, <2>2
<1> QED BY <1>2, <1>3

LEMMA StoreRecent ==
  ASSUME ClaimsTypes, RecentInv, NEW c \in Names, NEW object \in Versions, Store(c, object),
         UNCHANGED <<setting, clock, reader, cache>>
  PROVE  RecentInv'
<1>0. TTL \in Nat /\ Latency \in Nat
  BY ClaimConstants
<1>1. /\ \A d \in Names, h \in BOOLEAN : was'[d][h] = was[d][h] \/ was'[d][h] = clock
      /\ setting.readers = {} => was' = was
  BY StoreIs
<1>2. /\ clock \in Nat /\ \A d \in Names, h \in BOOLEAN : was[d][h] \in Int
      /\ \A d \in Names : cache[d].at \in Int
      /\ \A q \in Readers : reader[q].on \in Int /\ reader[q].of \subseteq Names
  BY DEF ClaimsTypes, Readings
<1>3. ASSUME NEW q \in Readers, reader[q].at = "listed"
      PROVE  /\ q \in setting.readers /\ reader[q].on <= clock /\ clock - reader[q].on <= Latency
             /\ \A d \in reader[q].of : HeldSince(d, d \in reader[q].by, reader[q].on)'
  <2>1. /\ q \in setting.readers /\ reader[q].on <= clock /\ clock - reader[q].on <= Latency
        /\ \A d \in reader[q].of : HeldSince(d, d \in reader[q].by, reader[q].on)
    BY <1>3 DEF RecentInv
  <2>2. ASSUME NEW d \in reader[q].of PROVE HeldSince(d, d \in reader[q].by, reader[q].on)'
    <3> DEFINE h == d \in reader[q].by
               then == reader[q].on
    <3>1. d \in Names /\ then \in Int /\ then <= clock /\ HeldSince(d, h, then) /\ setting.readers # {}
      BY <1>2, <2>1
    <3>2. h' = h /\ then' = then
      OBVIOUS
    <3> HIDE DEF h, then
    <3>3. \/ h /\ (Honourable(api[d])' \/ then <= was'[d][TRUE])
          \/ ~h /\ (~Honourable(api[d])' \/ then <= was'[d][FALSE])
      BY <3>1, HeldOn
    <3> QED BY <3>2, <3>3 DEF HeldSince, h, then
  <2> QED BY <2>1, <2>2
<1>4. ASSUME NEW d \in Names
      PROVE  /\ \A h \in BOOLEAN : 0 - (TTL + Latency) <= was'[d][h] /\ was'[d][h] <= clock
             /\ 0 - TTL <= cache[d].at /\ cache[d].at <= clock
             /\ HeldSince(d, cache[d].on, cache[d].at - Latency)'
             /\ setting.readers = {} => cache[d].at = 0 - TTL
  <2>1. /\ \A h \in BOOLEAN : 0 - (TTL + Latency) <= was[d][h] /\ was[d][h] <= clock
        /\ 0 - TTL <= cache[d].at /\ cache[d].at <= clock
        /\ HeldSince(d, cache[d].on, cache[d].at - Latency)
        /\ setting.readers = {} => cache[d].at = 0 - TTL
    BY DEF RecentInv
  <2>2. \A h \in BOOLEAN : 0 - (TTL + Latency) <= was'[d][h] /\ was'[d][h] <= clock
    BY <1>0, <1>1, <1>2, <2>1
  <2>3. HeldSince(d, cache[d].on, cache[d].at - Latency)'
    <3> DEFINE h == cache[d].on
               then == cache[d].at - Latency
    <3>1. then \in Int /\ then <= clock /\ HeldSince(d, h, then)
      BY <1>0, <1>2, <2>1
    <3>2. h' = h /\ then' = then
      OBVIOUS
    <3>3. setting.readers = {} => then <= was[d][TRUE] /\ then <= was[d][FALSE]
      <4>1. /\ 0 - (TTL + Latency) <= was[d][TRUE] /\ 0 - (TTL + Latency) <= was[d][FALSE]
            /\ was[d][TRUE] \in Int /\ was[d][FALSE] \in Int
        BY <1>2, <2>1
      <4>2. setting.readers = {} => then = (0 - TTL) - Latency
        BY <2>1
      <4>3. (0 - TTL) - Latency = 0 - (TTL + Latency)
        BY <1>0
      <4> HIDE DEF then
      <4> QED BY <4>1, <4>2, <4>3
    <3> HIDE DEF h, then
    <3>4. \/ h /\ (Honourable(api[d])' \/ then <= was'[d][TRUE])
          \/ ~h /\ (~Honourable(api[d])' \/ then <= was'[d][FALSE])
      <4>1. CASE setting.readers = {}
        BY <1>1, <3>3, <4>1
      <4>2. CASE setting.readers # {}
        BY <3>1, <4>2, HeldOn
      <4> QED BY <4>1, <4>2
    <3> QED BY <3>2, <3>4 DEF HeldSince, h, then
  <2> QED BY <2>1, <2>2, <2>3
<1> QED BY <1>3, <1>4 DEF RecentInv

LEMMA RecentStays ==
  ASSUME RecentInv, UNCHANGED <<setting, clock, api, reader, cache, was>> PROVE RecentInv'
<1>1. \A c, h, then : HeldSince(c, h, then) => (\/ h /\ (Honourable(api[c])' \/ then <= was'[c][TRUE])
                                                \/ ~h /\ (~Honourable(api[c])' \/ then <= was'[c][FALSE]))
  BY DEF HeldSince, Honourable
<1> QED BY <1>1 DEF RecentInv, HeldSince

(* A pass may forget what it was to judge, nobody may hand it more. *)
LEMMA PassShrinks ==
  ASSUME PassInv, setting' = setting,
         \A p \in Passes : /\ pass'[p].seen = pass[p].seen
                           /\ pass'[p].left \subseteq pass[p].left
                           /\ pass'[p].current \subseteq pass[p].current
                           /\ \A c \in pass'[p].left \cap pass'[p].current : api'[c] = api[c]
  PROVE  PassInv'
<1> SUFFICES ASSUME NEW p \in Passes
             PROVE  /\ pass'[p].left \subseteq Existing(pass'[p].seen)
                    /\ \A c \in pass'[p].left \cap pass'[p].current : api'[c] = pass'[p].seen[c]
                    /\ p \notin setting.passes => pass'[p].left = {}
  BY DEF PassInv, Existing
<1>1. Existing(pass'[p].seen) = Existing(pass[p].seen)
  BY DEF Existing
<1> QED BY <1>1 DEF PassInv

LEMMA OutdatedIs ==
  ASSUME ClaimsTypes, NEW c \in Names
  PROVE  /\ Outdated(c) \in [Passes -> Lists]
         /\ \A p \in Passes : /\ Outdated(c)[p].seen = pass[p].seen /\ Outdated(c)[p].left = pass[p].left
                              /\ Outdated(c)[p].current = pass[p].current \ {c}
BY DEF ClaimsTypes, Outdated, Lists

(* The writes of users. *)
LEMMA UserKeeps ==
  ASSUME ClaimsInv, NEW c \in Names, NEW object \in Versions, Store(c, object),
         UNCHANGED <<setting, clock, cap, reader, cache>>,
         pass' = Outdated(c) \/ (pass' = pass /\ setting.lane \in {"table", "roles"}),
         setting.lane = "table" => object.status = Unjudged /\ object.spec.budget <= cap
  PROVE  ClaimsInv'
<1>1. ClaimsTypes /\ PassInv /\ TableInv /\ RecentInv /\ setting \in Settings
  BY DEF ClaimsInv, ClaimsTypes
<1>2. /\ api' \in [Names -> Versions] /\ api'[c] = object
      /\ \A d \in Names \ {c} : api'[d] = api[d]
      /\ was' \in [Names -> [BOOLEAN -> Int]]
  BY <1>1, StoreIs
<1>3. ClaimsTypes'
  BY <1>1, <1>2, OutdatedIs DEF ClaimsTypes
<1>4. PassInv'
  <2>1. \A p \in Passes : pass[p].left \subseteq Names
    BY <1>1 DEF ClaimsTypes, Lists
  <2>2. CASE pass' = Outdated(c)
    <3>1. \A p \in Passes : /\ pass'[p].seen = pass[p].seen /\ pass'[p].left = pass[p].left
                            /\ pass'[p].current = pass[p].current \ {c}
      BY <1>1, <2>2, OutdatedIs
    <3> QED BY <1>1, <1>2, <2>1, <3>1, PassShrinks
  <2>3. CASE pass' = pass /\ setting.lane \in {"table", "roles"}
    <3>1. \A p \in Passes : pass[p].left = {}
      BY <1>1, <2>3, ClaimConstants DEF PassInv
    <3> QED BY <1>1, <2>3, <3>1, PassShrinks
  <2> QED BY <2>2, <2>3
<1>5. TableInv'
  BY <1>1, <1>2 DEF TableInv
<1>6. RecentInv'
  BY <1>1, StoreRecent
<1> QED BY <1>3, <1>4, <1>5, <1>6 DEF ClaimsInv

LEMMA ObjectsAre ==
  /\ \A o \in Objects : o.spec \in Specs /\ o.born \in Nat
                        /\ (o.status = Unjudged \/ o.status \in Statuses)
  /\ \A s \in Specs, n \in Nat : [spec |-> s, born |-> n, status |-> Unjudged] \in Objects
  /\ \A o \in Objects, s \in Specs : [o EXCEPT !.spec = s] \in Objects
  /\ \A o \in Objects, v \in Statuses :
       /\ [o EXCEPT !.status = v] \in Objects
       /\ [o EXCEPT !.status = v].spec = o.spec /\ [o EXCEPT !.status = v].born = o.born
  /\ Writable \subseteq Specs
BY DEF Objects, Statuses, Writable

LEMMA ApplyKeeps ==
  ASSUME ClaimsInv, NEW c \in Names, Apply(c) PROVE ClaimsInv'
<1>1. /\ setting.lane # "table" /\ pass' = Outdated(c)
      /\ UNCHANGED <<setting, clock, cap, reader, cache>>
  BY DEF Apply
<1>2. PICK spec \in Writable :
        Store(c, IF api[c] = Absent THEN [spec |-> spec, born |-> clock, status |-> Unjudged]
                 ELSE [api[c] EXCEPT !.spec = spec])
  BY DEF Apply
<1> DEFINE object == IF api[c] = Absent THEN [spec |-> spec, born |-> clock, status |-> Unjudged]
                     ELSE [api[c] EXCEPT !.spec = spec]
<1>3. object \in Versions
  <2>1. clock \in Nat /\ (api[c] = Absent \/ api[c] \in Objects) /\ spec \in Specs
    BY ObjectsAre DEF ClaimsInv, ClaimsTypes, Versions
  <2> QED BY <2>1, ObjectsAre DEF Versions
<1>4. Store(c, object)
  BY <1>2
<1> HIDE DEF object
<1> QED BY <1>1, <1>3, <1>4, UserKeeps

LEMMA DeleteKeeps ==
  ASSUME ClaimsInv, NEW c \in Names, Delete(c) PROVE ClaimsInv'
<1>1. /\ setting.lane # "table" /\ pass' = Outdated(c) /\ Store(c, Absent)
      /\ UNCHANGED <<setting, clock, cap, reader, cache>>
  BY DEF Delete
<1>2. Absent \in Versions
  BY DEF Versions
<1> QED BY <1>1, <1>2, UserKeeps

LEMMA PostKeeps ==
  ASSUME ClaimsInv, NEW c \in Names, Post(c) PROVE ClaimsInv'
<1>1. /\ setting.lane = "table" /\ UNCHANGED <<setting, clock, cap, pass, reader, cache>>
  BY DEF Post
<1>2. PICK spec \in Writable : ValidClaim(spec) /\ PutClaim(c, spec)
  BY DEF Post
<1> DEFINE object == [spec |-> spec, born |-> clock, status |-> Unjudged]
<1>3. object \in Versions /\ object.status = Unjudged /\ object.spec = spec
  <2>1. clock \in Nat /\ spec \in Specs
    BY ObjectsAre DEF ClaimsInv, ClaimsTypes
  <2> QED BY <2>1, ObjectsAre DEF Versions
<1>4. Store(c, object) /\ spec.budget <= cap
  BY <1>2 DEF PutClaim, ValidClaim
<1> HIDE DEF object
<1>5. object.spec.budget <= cap
  BY <1>3, <1>4
<1> QED BY <1>1, <1>3, <1>4, <1>5, UserKeeps

LEMMA ProvisionKeeps ==
  ASSUME ClaimsInv, NEW c \in Names, Provision(c) PROVE ClaimsInv'
<1>1. /\ setting.lane = "roles" /\ api[c] # Absent
      /\ UNCHANGED <<setting, clock, cap, pass, reader, cache>>
  BY DEF Provision
<1>2. PICK ready \in BOOLEAN :
        Store(c, [api[c] EXCEPT !.status = [ready |-> ready, sum |-> 0, cap |-> NoCap]])
  BY DEF Provision
<1> DEFINE object == [api[c] EXCEPT !.status = [ready |-> ready, sum |-> 0, cap |-> NoCap]]
<1>3. object \in Versions
  <2>1. api[c] \in Objects
    BY <1>1 DEF ClaimsInv, ClaimsTypes, Versions
  <2>2. [ready |-> ready, sum |-> 0, cap |-> NoCap] \in Statuses
    BY DEF Statuses
  <2> QED BY <2>1, <2>2, ObjectsAre DEF Versions
<1>4. Store(c, object)
  BY <1>2
<1> HIDE DEF object
<1> QED BY <1>1, <1>3, <1>4, UserKeeps

LEMMA AllowanceKeeps == ClaimsInv /\ SetAllowance => ClaimsInv'
<1> SUFFICES ASSUME ClaimsInv, SetAllowance PROVE ClaimsInv'
  OBVIOUS
<1>1. /\ setting.lane = "claims" /\ cap' \in Caps
      /\ UNCHANGED <<setting, clock, api, pass, reader, cache, was>>
  BY DEF SetAllowance
<1>2. ClaimsTypes /\ PassInv /\ RecentInv
  BY DEF ClaimsInv
<1>3. ClaimsTypes'
  BY <1>1, <1>2 DEF ClaimsTypes
<1>4. PassInv'
  BY <1>1, <1>2 DEF PassInv, Existing
<1>5. TableInv'
  BY <1>1 DEF TableInv
<1>6. RecentInv'
  BY <1>1, <1>2, RecentStays
<1> QED BY <1>3, <1>4, <1>5, <1>6 DEF ClaimsInv

(* A pass that lists, or forgets: the objects are left alone. *)
LEMMA PassKeeps ==
  ASSUME ClaimsInv, UNCHANGED <<setting, clock, api, cap, reader, cache, was>>,
         pass' \in [Passes -> Lists], PassInv'
  PROVE  ClaimsInv'
<1>1. ClaimsTypes /\ TableInv /\ RecentInv
  BY DEF ClaimsInv
<1>2. ClaimsTypes'
  BY <1>1 DEF ClaimsTypes
<1>3. TableInv'
  BY <1>1 DEF TableInv
<1>4. RecentInv'
  BY <1>1, RecentStays
<1> QED BY <1>2, <1>3, <1>4 DEF ClaimsInv

LEMMA ListObjectsKeeps ==
  ASSUME ClaimsInv, NEW p \in setting.passes, ListObjects(p) PROVE ClaimsInv'
<1> DEFINE list == [at |-> "listed", seen |-> api, left |-> Existing(api),
                    current |-> Names, cap |-> NoCap]
<1>1. ClaimsTypes /\ PassInv
  BY DEF ClaimsInv
<1>2. /\ pass' = [pass EXCEPT ![p] = list]
      /\ UNCHANGED <<setting, clock, api, cap, reader, cache, was>>
  BY DEF ListObjects
<1>3. p \in Passes /\ pass \in [Passes -> Lists] /\ api \in [Names -> Versions]
  BY <1>1, ClaimConstants DEF ClaimsTypes
<1>4. list \in Lists
  BY <1>3, BudgetsAre DEF Lists
<1>5. list.seen = api /\ list.left = Existing(api)
  OBVIOUS
<1> HIDE DEF list
<1>6. /\ pass' \in [Passes -> Lists] /\ pass'[p] = list
      /\ \A o \in Passes \ {p} : pass'[o] = pass[o]
  BY <1>2, <1>3, <1>4
<1>7. PassInv'
  <2> SUFFICES ASSUME NEW o \in Passes
               PROVE  /\ pass'[o].left \subseteq Existing(pass'[o].seen)
                      /\ \A c \in pass'[o].left \cap pass'[o].current : api'[c] = pass'[o].seen[c]
                      /\ o \notin setting.passes => pass'[o].left = {}
    BY <1>2 DEF PassInv, Existing
  <2>1. CASE o = p
    BY <1>2, <1>5, <1>6, <2>1
  <2>2. CASE o # p
    BY <1>1, <1>2, <1>6, <2>2 DEF PassInv
  <2> QED BY <2>1, <2>2
<1> QED BY <1>2, <1>6, <1>7, PassKeeps

(* Of p's list only what was left to judge changes, and shrinks. *)
LEMMA ForgetKeeps ==
  ASSUME ClaimsInv, NEW p \in Passes, NEW list \in Lists, pass' = [pass EXCEPT ![p] = list],
         list.left = {} \/ (list.seen = pass[p].seen /\ list.current = pass[p].current),
         list.left \subseteq pass[p].left,
         UNCHANGED <<setting, clock, api, cap, reader, cache, was>>
  PROVE  ClaimsInv'
<1>1. PassInv /\ pass \in [Passes -> Lists]
  BY DEF ClaimsInv, ClaimsTypes
<1>2. /\ pass' \in [Passes -> Lists] /\ pass'[p] = list
      /\ \A o \in Passes \ {p} : pass'[o] = pass[o]
  BY <1>1
<1>3. PassInv'
  <2> SUFFICES ASSUME NEW o \in Passes
               PROVE  /\ pass'[o].left \subseteq Existing(pass'[o].seen)
                      /\ \A c \in pass'[o].left \cap pass'[o].current : api'[c] = pass'[o].seen[c]
                      /\ o \notin setting.passes => pass'[o].left = {}
    BY DEF PassInv, Existing
  <2>1. CASE o = p
    <3>1. CASE list.left = {}
      BY <1>2, <2>1, <3>1
    <3>2. CASE list.seen = pass[p].seen /\ list.current = pass[p].current
      BY <1>1, <1>2, <2>1, <3>2 DEF PassInv
    <3> QED BY <3>1, <3>2
  <2>2. CASE o # p
    BY <1>1, <1>2, <2>2 DEF PassInv
  <2> QED BY <2>1, <2>2
<1> QED BY <1>2, <1>3, PassKeeps

LEMMA ListAllowancesKeeps ==
  ASSUME ClaimsInv, NEW p \in Passes, ListAllowances(p) PROVE ClaimsInv'
<1> DEFINE rest == {c \in pass[p].left : ~Converged(pass[p].seen, cap, c)}
           list == [pass[p] EXCEPT !.at = "writing", !.cap = cap, !.left = rest]
<1>1. /\ pass' = [pass EXCEPT ![p].at = "writing", ![p].cap = cap, ![p].left = rest]
      /\ UNCHANGED <<setting, clock, api, cap, reader, cache, was>>
  BY DEF ListAllowances
<1>2. pass[p] \in Lists /\ cap \in Caps /\ pass \in [Passes -> Lists]
  BY DEF ClaimsInv, ClaimsTypes
<1>3. rest \subseteq pass[p].left
  OBVIOUS
<1> HIDE DEF rest
<1>4. rest \in SUBSET Names
  BY <1>2, <1>3 DEF Lists
<1>5. list \in Lists /\ list.left = rest /\ list.seen = pass[p].seen /\ list.current = pass[p].current
  BY <1>2, <1>4 DEF Lists
<1>6. pass' = [pass EXCEPT ![p] = list]
  BY <1>1, <1>2
<1> HIDE DEF list
<1> QED BY <1>1, <1>3, <1>5, <1>6, ForgetKeeps

LEMMA WriteFailsKeeps ==
  ASSUME ClaimsInv, NEW p \in Passes, WriteFails(p) PROVE ClaimsInv'
<1> DEFINE rest == pass[p].left \ {NextUp(p)}
           list == [pass[p] EXCEPT !.left = rest]
<1>1. /\ pass' = [pass EXCEPT ![p].left = @ \ {NextUp(p)}]
      /\ UNCHANGED <<setting, clock, api, cap, reader, cache, was>>
  BY DEF WriteFails
<1>2. pass[p] \in Lists /\ pass \in [Passes -> Lists]
  BY DEF ClaimsInv, ClaimsTypes
<1>3. rest \subseteq pass[p].left
  OBVIOUS
<1>4. pass' = [pass EXCEPT ![p] = list]
  BY <1>1, <1>2
<1> HIDE DEF rest
<1>5. rest \in SUBSET Names
  BY <1>2, <1>3 DEF Lists
<1>6. list \in Lists /\ list.left = rest /\ list.seen = pass[p].seen /\ list.current = pass[p].current
  BY <1>2, <1>5 DEF Lists
<1> HIDE DEF list
<1> QED BY <1>1, <1>3, <1>4, <1>6, ForgetKeeps

LEMMA PassEndsKeeps ==
  ASSUME ClaimsInv, NEW p \in Passes, PassEnds(p) PROVE ClaimsInv'
<1>1. /\ pass' = [pass EXCEPT ![p] = NotListed]
      /\ UNCHANGED <<setting, clock, api, cap, reader, cache, was>>
  BY DEF PassEnds
<1>2. NotListed \in Lists /\ NotListed.left = {}
  BY DEF NotListed, Lists, Versions
<1> QED BY <1>1, <1>2, ForgetKeeps

LEMMA NextUpIs ==
  ASSUME ClaimsTypes, NEW p \in Passes, pass[p].left # {}
  PROVE  NextUp(p) \in pass[p].left /\ NextUp(p) \in Names
<1>1. pass[p].left \in SUBSET Names
  BY DEF ClaimsTypes, Lists
<1> DEFINE T == pass[p].left
<1>2. (CHOOSE c \in T : \A d \in T : c <= d) \in T
  BY <1>1, LeastIs
<1> QED BY <1>1, <1>2 DEF NextUp

(* What a verdict is written into is the object as it was listed. *)
LEMMA WriteIs ==
  ASSUME ClaimsInv, NEW p \in setting.passes, WriteStatus(p)
  PROVE  \E c \in Names, v \in Statuses :
           /\ c = NextUp(p) /\ p \in Passes /\ v = Verdict(pass[p].seen, pass[p].cap, c)
           /\ c \in pass[p].left /\ api[c] = pass[p].seen[c] /\ api[c] \in Objects
           /\ Store(c, [api[c] EXCEPT !.status = v])
           /\ pass' = [Outdated(c) EXCEPT ![p].left = @ \ {c}]
           /\ UNCHANGED <<setting, clock, cap, edits, reader, cache>>
<1> DEFINE c == NextUp(p)
           v == Verdict(pass[p].seen, pass[p].cap, c)
<1>1. /\ pass[p].left # {} /\ Accepts(p, c)
      /\ Store(c, [api[c] EXCEPT !.status = v])
      /\ pass' = [Outdated(c) EXCEPT ![p].left = @ \ {c}]
      /\ UNCHANGED <<setting, clock, cap, edits, reader, cache>>
  BY DEF WriteStatus
<1>2. ClaimsTypes /\ PassInv /\ p \in Passes
  BY ClaimConstants DEF ClaimsInv, ClaimsTypes
<1>3. c \in pass[p].left /\ c \in Names
  BY <1>1, <1>2, NextUpIs
<1> HIDE DEF c
<1>4. pass[p].seen \in [Names -> Versions] /\ pass[p].cap \in Nat \cup {NoCap}
  BY <1>2, ClaimConstants DEF ClaimsTypes, Lists
<1>5. c \in Existing(pass[p].seen) /\ api[c] = pass[p].seen[c]
  BY <1>1, <1>2, <1>3 DEF PassInv, Accepts
<1>6. v \in Statuses
  BY <1>2, <1>4, <1>5, VerdictIs
<1>7. api[c] \in Objects
  BY <1>4, <1>5, BudgetsAre
<1> HIDE DEF v
<1> QED BY <1>1, <1>2, <1>3, <1>5, <1>6, <1>7 DEF c, v

LEMMA WriteStatusKeeps ==
  ASSUME ClaimsInv, NEW p \in setting.passes, WriteStatus(p) PROVE ClaimsInv'
<1>1. PICK c \in Names, v \in Statuses :
           /\ p \in Passes /\ c \in pass[p].left /\ api[c] \in Objects
           /\ Store(c, [api[c] EXCEPT !.status = v])
           /\ pass' = [Outdated(c) EXCEPT ![p].left = @ \ {c}]
           /\ UNCHANGED <<setting, clock, cap, reader, cache>>
  BY WriteIs
<1>2. ClaimsTypes /\ PassInv /\ TableInv /\ RecentInv
  BY DEF ClaimsInv
<1> DEFINE object == [api[c] EXCEPT !.status = v]
<1>3. object \in Versions
  BY <1>1, ObjectsAre DEF Versions
<1>4. Store(c, object)
  BY <1>1
<1> HIDE DEF object
<1>5. /\ api' \in [Names -> Versions] /\ api'[c] = object
      /\ \A d \in Names \ {c} : api'[d] = api[d]
      /\ was' \in [Names -> [BOOLEAN -> Int]]
  BY <1>2, <1>3, <1>4, StoreIs
<1>6. /\ Outdated(c) \in [Passes -> Lists]
      /\ \A o \in Passes : /\ Outdated(c)[o].seen = pass[o].seen /\ Outdated(c)[o].left = pass[o].left
                           /\ Outdated(c)[o].current = pass[o].current \ {c}
  BY <1>2, OutdatedIs
<1>7. /\ pass' \in [Passes -> Lists]
      /\ \A o \in Passes : /\ pass'[o].seen = pass[o].seen /\ pass'[o].left \subseteq pass[o].left
                           /\ pass'[o].current = pass[o].current \ {c}
  <2> DEFINE old == Outdated(c)
             list == [old[p] EXCEPT !.left = old[p].left \ {c}]
  <2>1. old[p] \in Lists /\ p \in Passes
    BY <1>1, <1>6
  <2> HIDE DEF old
  <2>2. /\ list \in Lists /\ list.seen = old[p].seen /\ list.current = old[p].current
        /\ list.left \subseteq old[p].left
    BY <2>1 DEF Lists
  <2>3. pass' = [old EXCEPT ![p] = list]
    BY <1>1 DEF old
  <2> HIDE DEF list
  <2>4. pass' \in [Passes -> Lists] /\ pass'[p] = list /\ \A o \in Passes \ {p} : pass'[o] = old[o]
    BY <1>6, <2>1, <2>2, <2>3 DEF old
  <2>5. ASSUME NEW o \in Passes
        PROVE  /\ pass'[o].seen = pass[o].seen /\ pass'[o].left \subseteq pass[o].left
               /\ pass'[o].current = pass[o].current \ {c}
    <3>1. /\ old[o].seen = pass[o].seen /\ old[o].left = pass[o].left
          /\ old[o].current = pass[o].current \ {c}
      BY <1>6 DEF old
    <3>2. CASE o = p
      BY <2>2, <2>4, <3>1, <3>2
    <3>3. CASE o # p
      BY <2>4, <3>1, <3>3
    <3> QED BY <3>2, <3>3
  <2> QED BY <2>4, <2>5
<1>8. ClaimsTypes'
  BY <1>1, <1>2, <1>5, <1>7 DEF ClaimsTypes
<1>9. PassInv'
  <2>1. \A o \in Passes : pass[o].left \subseteq Names
    BY <1>2 DEF ClaimsTypes, Lists
  <2>2. \A o \in Passes : \A d \in pass'[o].left \cap pass'[o].current : api'[d] = api[d]
    BY <1>5, <1>7, <2>1
  <2> QED BY <1>1, <1>2, <1>7, <2>2, PassShrinks
<1>10. TableInv'
  <2>1. setting.lane # "table"
    BY <1>1, <1>2, ClaimConstants DEF PassInv, ClaimsTypes
  <2> QED BY <1>1, <2>1 DEF TableInv
<1>11. RecentInv'
  BY <1>1, <1>2, <1>3, <1>4, StoreRecent
<1> QED BY <1>8, <1>9, <1>10, <1>11 DEF ClaimsInv

LEMMA RefreshKeeps ==
  ASSUME ClaimsInv, NEW q \in setting.readers, Refresh(q) PROVE ClaimsInv'
<1>1. ClaimsTypes /\ PassInv /\ TableInv /\ RecentInv
  BY DEF ClaimsInv
<1>2. q \in Readers /\ reader \in [Readers -> Readings] /\ clock \in Nat /\ Latency \in Nat
  BY <1>1, ClaimConstants DEF ClaimsTypes
<1>3. UNCHANGED <<setting, clock, api, cap, pass, cache, was>>
  BY DEF Refresh
<1>4. PICK of \in SUBSET Names :
        reader' = [reader EXCEPT ![q] = [at |-> "listed", of |-> of, on |-> clock,
                                         by |-> {c \in of : Honourable(api[c])}]]
  BY DEF Refresh, RefreshAll, RefreshOne
<1> DEFINE honoured == {c \in of : Honourable(api[c])}
           list == [at |-> "listed", of |-> of, on |-> clock, by |-> honoured]
<1>5. honoured \in SUBSET Names /\ \A c \in of : c \in honoured <=> Honourable(api[c])
  OBVIOUS
<1>6. reader' = [reader EXCEPT ![q] = list]
  BY <1>4
<1> HIDE DEF honoured
<1>7. list \in Readings /\ list.of = of /\ list.by = honoured /\ list.on = clock
  BY <1>2, <1>5 DEF Readings
<1> HIDE DEF list
<1>8. /\ reader' \in [Readers -> Readings] /\ reader'[q] = list
      /\ \A r \in Readers \ {q} : reader'[r] = reader[r]
  BY <1>2, <1>6, <1>7
<1>9. ClaimsTypes' /\ PassInv' /\ TableInv'
  BY <1>1, <1>3, <1>8 DEF ClaimsTypes, PassInv, TableInv, Existing
<1>10. ASSUME NEW r \in Readers, reader'[r].at = "listed"
       PROVE  /\ r \in setting.readers /\ reader'[r].on <= clock /\ clock - reader'[r].on <= Latency
              /\ \A c \in reader'[r].of : HeldSince(c, c \in reader[r].by, reader[r].on)'
  <2>1. CASE r = q
    <3>1. \A c \in of : HeldSince(c, c \in reader[r].by, reader[r].on)'
      BY <1>3, <1>5, <1>7, <1>8, <2>1 DEF HeldSince, Honourable
    <3> QED BY <1>2, <1>7, <1>8, <2>1, <3>1
  <2>2. CASE r # q
    <3>1. reader'[r] = reader[r]
      BY <1>8, <2>2
    <3>2. /\ r \in setting.readers /\ reader[r].on <= clock /\ clock - reader[r].on <= Latency
          /\ \A c \in reader[r].of : HeldSince(c, c \in reader[r].by, reader[r].on)
      BY <1>1, <1>10, <3>1 DEF RecentInv
    <3>3. \A c \in reader[r].of : HeldSince(c, c \in reader[r].by, reader[r].on)'
      BY <1>3, <3>1, <3>2 DEF HeldSince, Honourable
    <3> QED BY <3>1, <3>2, <3>3
  <2> QED BY <2>1, <2>2
<1>11. ASSUME NEW c \in Names
       PROVE  /\ \A h \in BOOLEAN : 0 - (TTL + Latency) <= was'[c][h] /\ was'[c][h] <= clock'
              /\ 0 - TTL <= cache'[c].at /\ cache'[c].at <= clock'
              /\ HeldSince(c, cache[c].on, cache[c].at - Latency)'
              /\ setting'.readers = {} => cache'[c].at = 0 - TTL
  BY <1>1, <1>3 DEF RecentInv, HeldSince, Honourable
<1>12. RecentInv'
  BY <1>3, <1>10, <1>11 DEF RecentInv
<1> QED BY <1>9, <1>12 DEF ClaimsInv

LEMMA FillKeeps ==
  ASSUME ClaimsInv, NEW q \in setting.readers, Fill(q) PROVE ClaimsInv'
<1>1. ClaimsTypes /\ PassInv /\ TableInv /\ RecentInv
  BY DEF ClaimsInv
<1>2. /\ q \in Readers /\ reader \in [Readers -> Readings] /\ clock \in Nat
      /\ TTL \in Nat /\ Latency \in Nat /\ was \in [Names -> [BOOLEAN -> Int]]
      /\ cache \in [Names -> [at : Int, on : BOOLEAN]]
  BY <1>1, ClaimConstants DEF ClaimsTypes
<1>3. /\ UNCHANGED <<setting, clock, api, cap, pass, was>>
      /\ reader[q].at = "listed" /\ cache' = Filled(q)
      /\ reader' = [reader EXCEPT ![q] = NotReading]
  BY DEF Fill
<1>4. NotReading \in Readings /\ NotReading.at = "idle"
  BY DEF NotReading, Readings
<1>5. /\ reader' \in [Readers -> Readings] /\ reader'[q].at = "idle"
      /\ \A r \in Readers \ {q} : reader'[r] = reader[r]
  BY <1>2, <1>3, <1>4
<1>6. /\ cache' \in [Names -> [at : Int, on : BOOLEAN]]
      /\ \A c \in reader[q].of : c \in Names => cache'[c].at = clock /\ (cache'[c].on <=> c \in reader[q].by)
      /\ \A c \in Names \ reader[q].of : cache'[c] = cache[c]
  <2> DEFINE of == reader[q].of
             filled(c) == [at |-> clock, on |-> c \in reader[q].by]
  <2>1. cache' = [c \in Names |-> IF c \in of THEN filled(c) ELSE cache[c]]
    BY <1>3 DEF Filled
  <2>2. \A c : filled(c) \in [at : Int, on : BOOLEAN]
    BY <1>2
  <2>3. \A c : filled(c).at = clock /\ (filled(c).on <=> c \in reader[q].by)
    OBVIOUS
  <2> HIDE DEF filled, of
  <2>4. /\ cache' \in [Names -> [at : Int, on : BOOLEAN]]
        /\ \A c \in Names : c \in of => cache'[c] = filled(c)
        /\ \A c \in Names : c \notin of => cache'[c] = cache[c]
    BY <1>2, <2>1, <2>2
  <2>5. \A c \in of : c \in Names => cache'[c].at = clock /\ (cache'[c].on <=> c \in reader[q].by)
    BY <2>3, <2>4, Zenon
  <2> QED BY <2>4, <2>5 DEF of
<1>7. ClaimsTypes' /\ PassInv' /\ TableInv'
  BY <1>1, <1>3, <1>5, <1>6 DEF ClaimsTypes, PassInv, TableInv, Existing
<1>8. ASSUME NEW r \in Readers, reader'[r].at = "listed"
      PROVE  /\ r \in setting.readers /\ reader'[r].on <= clock /\ clock - reader'[r].on <= Latency
             /\ \A c \in reader'[r].of : HeldSince(c, c \in reader[r].by, reader[r].on)'
  <2>1. reader'[r] = reader[r]
    BY <1>5, <1>8
  <2>2. /\ r \in setting.readers /\ reader[r].on <= clock /\ clock - reader[r].on <= Latency
        /\ \A c \in reader[r].of : HeldSince(c, c \in reader[r].by, reader[r].on)
    BY <1>1, <1>8, <2>1 DEF RecentInv
  <2>3. \A c \in reader[r].of : HeldSince(c, c \in reader[r].by, reader[r].on)'
    BY <1>3, <2>1, <2>2 DEF HeldSince, Honourable
  <2> QED BY <2>1, <2>2, <2>3
<1>9. ASSUME NEW c \in Names
      PROVE  /\ \A h \in BOOLEAN : 0 - (TTL + Latency) <= was'[c][h] /\ was'[c][h] <= clock'
             /\ 0 - TTL <= cache'[c].at /\ cache'[c].at <= clock'
             /\ HeldSince(c, cache[c].on, cache[c].at - Latency)'
             /\ setting'.readers = {} => cache'[c].at = 0 - TTL
  <2>1. CASE c \notin reader[q].of
    BY <1>1, <1>3, <1>6, <2>1 DEF RecentInv, HeldSince, Honourable
  <2>2. CASE c \in reader[q].of
    <3>1. cache'[c].at = clock /\ (cache'[c].on <=> c \in reader[q].by) /\ setting'.readers # {}
      BY <1>3, <1>6, <2>2
    <3>2. /\ reader[q].on \in Int /\ clock - reader[q].on <= Latency
          /\ HeldSince(c, c \in reader[q].by, reader[q].on)
      BY <1>1, <1>2, <1>3, <2>2 DEF RecentInv, Readings
    <3>3. \A h \in BOOLEAN : was[c][h] \in Int /\ 0 - (TTL + Latency) <= was[c][h] /\ was[c][h] <= clock
      BY <1>1, <1>2 DEF RecentInv
    <3>4. \A h \in BOOLEAN : reader[q].on <= was[c][h] => clock - Latency <= was[c][h]
      BY <1>2, <3>2, <3>3
    <3>5. HeldSince(c, c \in reader[q].by, clock - Latency)
      BY <3>2, <3>4 DEF HeldSince
    <3>6. HeldSince(c, cache[c].on, cache[c].at - Latency)'
      BY <1>3, <3>1, <3>5 DEF HeldSince, Honourable
    <3>7. 0 - TTL <= clock /\ clock <= clock
      BY <1>2
    <3> QED BY <1>3, <3>1, <3>3, <3>6, <3>7
  <2> QED BY <2>1, <2>2
<1>10. RecentInv'
  BY <1>3, <1>8, <1>9 DEF RecentInv
<1> QED BY <1>7, <1>10 DEF ClaimsInv

LEMMA TickKeeps == ClaimsInv /\ Tick => ClaimsInv'
<1> SUFFICES ASSUME ClaimsInv, Tick PROVE ClaimsInv'
  OBVIOUS
<1>1. ClaimsTypes /\ PassInv /\ TableInv /\ RecentInv
  BY DEF ClaimsInv
<1>2. /\ reader \in [Readers -> Readings] /\ clock \in Nat
      /\ TTL \in Nat /\ Latency \in Nat /\ was \in [Names -> [BOOLEAN -> Int]]
      /\ cache \in [Names -> [at : Int, on : BOOLEAN]]
  BY <1>1, ClaimConstants DEF ClaimsTypes
<1>3. /\ UNCHANGED <<setting, api, cap, pass, reader, cache, was>> /\ clock' = clock + 1
      /\ \A q \in Readers : reader[q].at = "listed" => clock - reader[q].on < Latency
  BY DEF Tick
<1>4. ClaimsTypes' /\ PassInv' /\ TableInv'
  BY <1>1, <1>2, <1>3 DEF ClaimsTypes, PassInv, TableInv, Existing
<1>5. ASSUME NEW r \in Readers, reader[r].at = "listed"
      PROVE  /\ r \in setting.readers /\ reader[r].on <= clock' /\ clock' - reader[r].on <= Latency
             /\ \A c \in reader[r].of : HeldSince(c, c \in reader[r].by, reader[r].on)'
  <2>1. /\ r \in setting.readers /\ reader[r].on <= clock /\ reader[r].on \in Int
        /\ \A c \in reader[r].of : HeldSince(c, c \in reader[r].by, reader[r].on)
    BY <1>1, <1>2, <1>5 DEF RecentInv, Readings
  <2>2. reader[r].on <= clock' /\ clock' - reader[r].on <= Latency
    BY <1>2, <1>3, <1>5, <2>1
  <2>3. \A c \in reader[r].of : HeldSince(c, c \in reader[r].by, reader[r].on)'
    BY <1>3, <2>1 DEF HeldSince, Honourable
  <2> QED BY <2>1, <2>2, <2>3
<1>6. ASSUME NEW c \in Names
      PROVE  /\ \A h \in BOOLEAN : 0 - (TTL + Latency) <= was'[c][h] /\ was'[c][h] <= clock'
             /\ 0 - TTL <= cache'[c].at /\ cache'[c].at <= clock'
             /\ HeldSince(c, cache[c].on, cache[c].at - Latency)'
             /\ setting'.readers = {} => cache'[c].at = 0 - TTL
  <2>1. /\ \A h \in BOOLEAN : 0 - (TTL + Latency) <= was[c][h] /\ was[c][h] <= clock
        /\ 0 - TTL <= cache[c].at /\ cache[c].at <= clock
        /\ HeldSince(c, cache[c].on, cache[c].at - Latency)
        /\ setting.readers = {} => cache[c].at = 0 - TTL
    BY <1>1 DEF RecentInv
  <2>2. (\A h \in BOOLEAN : was[c][h] <= clock') /\ cache[c].at <= clock'
    BY <1>2, <1>3, <2>1
  <2>3. HeldSince(c, cache[c].on, cache[c].at - Latency)'
    BY <1>3, <2>1 DEF HeldSince, Honourable
  <2> QED BY <1>3, <2>1, <2>2, <2>3
<1>7. RecentInv'
  BY <1>3, <1>5, <1>6 DEF RecentInv
<1> QED BY <1>4, <1>7 DEF ClaimsInv

LEMMA ClaimsKeep == ClaimsInv /\ [Next]_vars => ClaimsInv'
<1> SUFFICES ASSUME ClaimsInv, [Next]_vars PROVE ClaimsInv'
  OBVIOUS
<1>1. ASSUME NEW c \in Names, Apply(c) \/ Delete(c) \/ Post(c) \/ Provision(c) PROVE ClaimsInv'
  BY <1>1, ApplyKeeps, DeleteKeeps, PostKeeps, ProvisionKeeps
<1>2. ASSUME NEW p \in setting.passes, Reconciles(p) PROVE ClaimsInv'
  <2>1. p \in Passes
    BY ClaimConstants DEF ClaimsInv, ClaimsTypes
  <2> QED BY <1>2, <2>1, ListObjectsKeeps, ListAllowancesKeeps, WriteStatusKeeps, WriteFailsKeeps,
             PassEndsKeeps DEF Reconciles
<1>3. ASSUME NEW q \in setting.readers, Refresh(q) \/ Fill(q) PROVE ClaimsInv'
  BY <1>3, RefreshKeeps, FillKeeps
<1>4. CASE UNCHANGED vars
  <2>1. UNCHANGED <<setting, clock, api, cap, pass, reader, cache, was>>
    BY <1>4 DEF vars
  <2>2. PassInv' /\ pass' \in [Passes -> Lists]
    BY <2>1 DEF ClaimsInv, ClaimsTypes, PassInv, Existing
  <2> QED BY <2>1, <2>2, PassKeeps
<1> QED BY <1>1, <1>2, <1>3, <1>4, AllowanceKeeps, TickKeeps DEF Next

(* The claims' inductive invariant holds: passes, refreshes, the table and   *)
(* the cache each know what the controllers and claim sources count on.      *)
THEOREM ClaimsInvariant == Spec => []ClaimsInv
BY ClaimsStart, ClaimsKeep, PTL DEF Spec

LEMMA AllowanceOfNow == ClaimsInv => AllowanceHolds
<1> SUFFICES ASSUME ClaimsInv PROVE AllowanceHolds
  OBVIOUS
<1> DEFINE ready == {c \in Existing(api) : Evaluate(api, cap, c).ready}
<1>1. api \in [Names -> Versions] /\ cap \in Nat \cup {NoCap} /\ TableInv
  BY ClaimConstants DEF ClaimsInv, ClaimsTypes
<1>2. /\ ready # {} => MapThenSumSet(LAMBDA d : api[d].spec.budget, ready) <= cap
      /\ \A c \in ready : Earlier(api, c) \subseteq ready
      /\ \A c, d \in Existing(api) : c \in ready /\ d \notin Earlier(api, c) =>
           Evaluate([api EXCEPT ![d] = Absent], cap, c).ready
  BY <1>1, AllowanceOf
<1>3. setting.lane = "table" => \A c \in Existing(api) : api[c].spec.budget <= cap
  BY <1>1 DEF TableInv, Existing
<1> QED BY <1>2, <1>3 DEF AllowanceHolds

(***************************************************************************)
(* Whatever claims a namespace holds and whatever its allowance becomes,   *)
(* the verdicts evaluate() gives at that moment bound what is ready by the *)
(* allowance, in the order of creation; and each row of the table fits.    *)
(***************************************************************************)
THEOREM AllowanceHoldsAlways == Spec => []AllowanceHolds
BY ClaimsInvariant, AllowanceOfNow, PTL

LEMMA RecentNow == ClaimsInv => HonouredIsRecent
<1> SUFFICES ASSUME ClaimsInv PROVE HonouredIsRecent
  OBVIOUS
<1>1. ClaimsTypes /\ PassInv /\ TableInv /\ RecentInv
  BY DEF ClaimsInv
<1>2. /\ TTL \in Nat /\ Latency \in Nat /\ clock \in Nat
      /\ cache \in [Names -> [at : Int, on : BOOLEAN]] /\ was \in [Names -> [BOOLEAN -> Int]]
  BY <1>1, ClaimConstants DEF ClaimsTypes
<1>3. TypeOK
  <2>1. \A c \in Names : api[c] = Absent \/ api[c] \in Objects
    BY <1>1 DEF ClaimsTypes, Versions
  <2>2. cache \in [Names -> [at : -TTL .. clock, on : BOOLEAN]]
    <3>1. \A c \in Names : cache[c].at \in -TTL .. clock
      BY <1>1, <1>2 DEF RecentInv
    <3>2. \A c \in Names : cache[c] \in [at : -TTL .. clock, on : BOOLEAN]
      BY <1>2, <3>1
    <3> QED BY <1>2, <3>2
  <2> QED BY <1>1, <2>1, <2>2 DEF TypeOK, PassInv, RecentInv
<1>4. ASSUME NEW c \in Names, Known(c)
      PROVE  \/ Honoured(c) = Honourable(api[c])
             \/ clock - was[c][Honoured(c)] < TTL + Latency
             \/ InvalidUsed(c)
  <2>0. Honourable(api[c]) \in BOOLEAN
    BY HonourableIs
  <2>1. CASE setting.lane = "agents"
    <3>1. Honoured(c) <=> api[c] # Absent
      BY <2>1 DEF Honoured, Registered
    <3>2. CASE Honoured(c)
      BY <2>1, <3>2 DEF InvalidUsed
    <3>3. CASE ~Honoured(c)
      <4>1. ~Honourable(api[c])
        BY <3>1, <3>3 DEF Honourable
      <4>2. Honoured(c) \in BOOLEAN
        BY <2>1 DEF Honoured, Registered
      <4> QED BY <2>0, <3>3, <4>1, <4>2
    <3> QED BY <3>2, <3>3
  <2>2. CASE setting.lane = "table"
    <3>1. Honoured(c) = (api[c] # Absent)
      BY <2>2 DEF Honoured, Row
    <3>2. Honourable(api[c]) <=> api[c] # Absent
      BY <1>1, <2>2 DEF Honourable, TableInv
    <3> QED BY <2>0, <3>1, <3>2
  <2>3. CASE setting.lane \notin {"agents", "table"}
    <3> DEFINE on == cache[c].on
               at == cache[c].at
    <3>1. Honoured(c) = on
      BY <2>3 DEF Honoured, RoleOf
    <3>2. clock - at < TTL
      BY <1>4, <2>3 DEF Known, Fresh
    <3>3. on \in BOOLEAN /\ at \in Int
      BY <1>2
    <3>4. HeldSince(c, on, at - Latency)
      BY <1>1 DEF RecentInv
    <3> HIDE DEF on, at
    <3>5. ASSUME NEW w \in Int, at - Latency <= w PROVE clock - w < TTL + Latency
      BY <1>2, <3>2, <3>3, <3>5
    <3>6. CASE on = TRUE
      <4>1. Honourable(api[c]) \/ at - Latency <= was[c][TRUE]
        BY <3>4, <3>6 DEF HeldSince
      <4>2. CASE Honourable(api[c])
        BY <2>0, <3>1, <3>6, <4>2
      <4>3. CASE at - Latency <= was[c][TRUE]
        <5>1. was[c][TRUE] \in Int
          BY <1>2
        <5>2. clock - was[c][TRUE] < TTL + Latency
          BY <3>5, <4>3, <5>1
        <5>3. Honoured(c) = TRUE
          BY <3>1, <3>6
        <5> QED BY <5>2, <5>3
      <4> QED BY <4>1, <4>2, <4>3
    <3>7. CASE on = FALSE
      <4>1. ~Honourable(api[c]) \/ at - Latency <= was[c][FALSE]
        BY <3>4, <3>7 DEF HeldSince
      <4>2. CASE ~Honourable(api[c])
        BY <2>0, <3>1, <3>7, <4>2
      <4>3. CASE at - Latency <= was[c][FALSE]
        <5>1. was[c][FALSE] \in Int
          BY <1>2
        <5>2. clock - was[c][FALSE] < TTL + Latency
          BY <3>5, <4>3, <5>1
        <5>3. Honoured(c) = FALSE
          BY <3>1, <3>7
        <5> QED BY <5>2, <5>3
      <4> QED BY <4>1, <4>2, <4>3
    <3> QED BY <3>3, <3>6, <3>7
  <2> QED BY <2>1, <2>2, <2>3
<1> QED BY <1>3, <1>4 DEF HonouredIsRecent

(***************************************************************************)
(* However long lists take and however refreshes overlap, who is honoured  *)
(* while the cache is fresh is what it was to be at some moment of the     *)
(* last TTL + Latency.                                                     *)
(***************************************************************************)
THEOREM HonouredIsRecentAlways == Spec => []HonouredIsRecent
BY ClaimsInvariant, RecentNow, PTL

VerdictStep ==
  \A c \in Names :
    /\ setting.lane # "roles"
    /\ api[c] # Absent /\ api'[c] # Absent /\ api'[c].status # api[c].status
    => \E p \in Passes : /\ pass[p].seen[c] # Absent
                         /\ pass[p].seen[c].spec = api'[c].spec
                         /\ pass[p].seen[c].born = api'[c].born

LEMMA VerdictSteps == ClaimsInv /\ [Next]_vars => [VerdictStep]_vars
<1> SUFFICES ASSUME ClaimsInv, Next, NEW c \in Names, setting.lane # "roles",
                    api[c] # Absent, api'[c] # Absent, api'[c].status # api[c].status
             PROVE  \E p \in Passes : /\ pass[p].seen[c] # Absent
                                      /\ pass[p].seen[c].spec = api'[c].spec
                                      /\ pass[p].seen[c].born = api'[c].born
  BY DEF VerdictStep
<1>1. ClaimsTypes /\ PassInv /\ TableInv
  BY DEF ClaimsInv
<1>2. api \in [Names -> Versions] /\ api[c] \in Objects /\ api'[c] # api[c] /\ api' # api
  BY <1>1 DEF ClaimsTypes, Versions
<1>3. ASSUME NEW p \in setting.passes, WriteStatus(p)
      PROVE  /\ p \in Passes /\ pass[p].seen[c] # Absent
             /\ pass[p].seen[c].spec = api'[c].spec /\ pass[p].seen[c].born = api'[c].born
  <2>1. PICK d \in Names, v \in Statuses :
             /\ p \in Passes /\ api[d] = pass[p].seen[d] /\ api[d] \in Objects
             /\ Store(d, [api[d] EXCEPT !.status = v])
    BY <1>3, WriteIs
  <2>2. api' = [api EXCEPT ![d] = [api[d] EXCEPT !.status = v]]
    BY <2>1 DEF Store
  <2>3. c = d
    BY <1>2, <2>2
  <2>4. api'[c] = [api[c] EXCEPT !.status = v]
    BY <1>2, <2>2, <2>3
  <2>5. api'[c].spec = api[c].spec /\ api'[c].born = api[c].born
    BY <1>2, <2>4, ObjectsAre
  <2> QED BY <1>2, <2>1, <2>3, <2>5
<1>4. ASSUME NEW d \in Names, Apply(d) PROVE FALSE
  <2>1. PICK spec \in Writable :
          api' = [api EXCEPT ![d] = IF api[d] = Absent
                                    THEN [spec |-> spec, born |-> clock, status |-> Unjudged]
                                    ELSE [api[d] EXCEPT !.spec = spec]]
    BY <1>4 DEF Apply, Store
  <2>2. c = d
    BY <1>2, <2>1
  <2>3. api'[c] = [api[c] EXCEPT !.spec = spec]
    BY <1>2, <2>1, <2>2
  <2>4. api'[c].status = api[c].status
    BY <1>2, <2>3 DEF Objects
  <2> QED BY <2>4
<1>5. ASSUME NEW d \in Names, Delete(d) PROVE FALSE
  <2>1. api' = [api EXCEPT ![d] = Absent]
    BY <1>5 DEF Delete, Store
  <2> QED BY <1>2, <2>1
<1>6. ASSUME NEW d \in Names, Post(d) PROVE FALSE
  <2>1. PICK spec \in Writable :
          api' = [api EXCEPT ![d] = [spec |-> spec, born |-> clock, status |-> Unjudged]]
    BY <1>6 DEF Post, PutClaim, Store
  <2>2. c = d
    BY <1>2, <2>1
  <2>3. api'[c].status = Unjudged
    BY <1>2, <2>1, <2>2
  <2>4. api[c].status = Unjudged
    BY <1>1, <1>6 DEF Post, TableInv
  <2> QED BY <2>3, <2>4
<1>7. ASSUME NEW p \in setting.passes, Reconciles(p) PROVE WriteStatus(p)
  BY <1>2, <1>7 DEF Reconciles, ListObjects, ListAllowances, WriteFails, PassEnds
<1>8. ~(SetAllowance \/ Tick \/ (\E d \in Names : Provision(d))
        \/ (\E q \in setting.readers : Refresh(q) \/ Fill(q)))
  BY <1>2 DEF SetAllowance, Tick, Provision, Refresh, Fill
<1>9. PICK p \in setting.passes : Reconciles(p)
  BY <1>4, <1>5, <1>6, <1>8 DEF Next
<1> QED BY <1>3, <1>7, <1>9

(***************************************************************************)
(* No pass judges one version of an object and writes its verdict over     *)
(* another: the object still is as the pass listed it, or the write is     *)
(* refused.                                                                *)
(***************************************************************************)
THEOREM VerdictOfItsSpecHolds == Spec => VerdictOfItsSpec
<1>1. ClaimsInv /\ [Next]_vars => [\A c \in Names :
       /\ setting.lane # "roles"
       /\ api[c] # Absent /\ api'[c] # Absent /\ api'[c].status # api[c].status
       => \E p \in Passes : /\ pass[p].seen[c] # Absent
                            /\ pass[p].seen[c].spec = api'[c].spec
                            /\ pass[p].seen[c].born = api'[c].born]_vars
  BY VerdictSteps DEF VerdictStep
<1> QED BY <1>1, ClaimsInvariant, PTL DEF Spec, VerdictOfItsSpec
===============================================================================
