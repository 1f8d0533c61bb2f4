--------------------------- MODULE StrategyProofs ---------------------------
(***************************************************************************)
(* Theorems about Strategy and Reports: positions stay calendar spreads,   *)
(* apart from each other and within the limits; the running P&L errs on    *)
(* the side of the halt; the report of a replay, the figures of the        *)
(* commands and what a close does to them are true to the book.  Begins    *)
(* with what folds and sums over finite sets are, which the community      *)
(* modules compute by recursion, and with what the scanner, the sizer and  *)
(* the fees return.                                                        *)
(***************************************************************************)
EXTENDS Reports, FiniteSetTheorems, SequenceTheorems, WellFoundedInduction, TLAPS

Less == {p \in Nat \X Nat : p[1] < p[2]}

LEMMA LessWF == IsWellFoundedOn(Less, Nat)
<1>1. OpToRel(<, Nat) = Less
  BY Zenon DEF OpToRel, Less
<1> QED BY <1>1, NatLessThanWellFounded, Zenon

(* Of a family of finite sets that is not empty, one has no smaller one.     *)
LEMMA Smallest ==
  ASSUME NEW F, F # {}, \A S \in F : IsFiniteSet(S)
  PROVE  \E S \in F : \A T \in F : Cardinality(S) <= Cardinality(T)
<1> DEFINE C == {Cardinality(S) : S \in F}
<1>1. C \subseteq Nat /\ C # {}
  BY FS_CardinalityType
<1>2. PICK n \in C : \A m \in C : ~(<<m, n>> \in Less)
  <2> HIDE DEF C
  <2> QED BY <1>1, WFMin, LessWF
<1>3. PICK S \in F : n = Cardinality(S)
  BY <1>2
<1>4. ASSUME NEW T \in F PROVE Cardinality(S) <= Cardinality(T)
  <2>1. Cardinality(T) \in C
    OBVIOUS
  <2>2. <<Cardinality(T), n>> \notin Less
    BY <2>1, <1>2
  <2>3. n \in Nat /\ Cardinality(T) \in Nat
    BY <2>1, <1>1, <1>2
  <2>4. ~(Cardinality(T) < n)
    BY <2>2, <2>3 DEF Less
  <2> QED BY <2>3, <2>4, <1>3
<1> QED BY <1>4

-----------------------------------------------------------------------------

(* The folds of the modules: sums over a set, in any order, and the drawdown of a curve from its
   first point to its last.  The element taken first (the fold combines it last), the value of
   nothing, and the values that the fold computes for the subsets of S.                          *)
Pick(s) == CHOOSE x \in s : TRUE

Choice(kind, s) == IF kind = "sum" THEN Pick(s) ELSE Max(s)

Start(kind, f) == IF kind = "sum" THEN 0 ELSE [peak |-> f[1], mdd |-> 0]

Highest(acc, v) == Greatest(acc.peak, v)

Combine(kind, acc, v) ==
  IF kind = "sum" THEN v + acc
  ELSE [peak |-> Highest(acc, v), mdd |-> Greatest(acc.mdd, Highest(acc, v) - v)]

IsFold(g, kind, f, S) ==
  g = [s \in SUBSET S |-> IF s = {} THEN Start(kind, f)
                          ELSE Combine(kind, g[s \ {Choice(kind, s)}], f[Choice(kind, s)])]

Chooses(kind, S) == \A s \in SUBSET S : s # {} => Choice(kind, s) \in s

LEMMA SumChooses == ASSUME NEW S PROVE Chooses("sum", S)
BY DEF Chooses, Choice, Pick

LEMMA FoldStep ==
  ASSUME NEW kind, NEW f, NEW S, NEW g, IsFold(g, kind, f, S), NEW s \in SUBSET S
  PROVE  g[s] = IF s = {} THEN Start(kind, f) ELSE Combine(kind, g[s \ {Choice(kind, s)}], f[Choice(kind, s)])
<1> DEFINE h == [u \in SUBSET S |-> IF u = {} THEN Start(kind, f) ELSE Combine(kind, g[u \ {Choice(kind, u)}], f[Choice(kind, u)])]
<1>1. g = h
  BY DEF IsFold
<1>2. h[s] = IF s = {} THEN Start(kind, f) ELSE Combine(kind, g[s \ {Choice(kind, s)}], f[Choice(kind, s)])
  OBVIOUS
<1> HIDE DEF h
<1> QED BY <1>1, <1>2

(* Two such functions agree on what is a subset of both.                     *)
LEMMA FoldUnique ==
  ASSUME NEW kind, NEW f, NEW S, NEW T, NEW g, NEW h, IsFiniteSet(S), Chooses(kind, S),
         IsFold(g, kind, f, S), IsFold(h, kind, f, T)
  PROVE  \A s \in SUBSET (S \cap T) : g[s] = h[s]
<1> DEFINE Bad == {s \in SUBSET (S \cap T) : g[s] # h[s]}
<1> SUFFICES ASSUME Bad # {} PROVE FALSE
  OBVIOUS
<1>1. \A s \in Bad : IsFiniteSet(s)
  BY FS_Subset
<1>2. PICK s \in Bad : \A t \in Bad : Cardinality(s) <= Cardinality(t)
  <2> HIDE DEF Bad
  <2> QED BY <1>1, Smallest
<1> DEFINE t == s \ {Choice(kind, s)}
<1>3. s \in SUBSET S /\ s \in SUBSET T /\ g[s] # h[s]
  OBVIOUS
<1>4. s # {}
  BY <1>3, FoldStep
<1>5. Choice(kind, s) \in s
  BY <1>3, <1>4 DEF Chooses
<1>a. g[s] = Combine(kind, g[t], f[Choice(kind, s)])
  BY <1>3, <1>4, FoldStep
<1>b. h[s] = Combine(kind, h[t], f[Choice(kind, s)])
  BY <1>3, <1>4, FoldStep
<1>6. g[s] = Combine(kind, g[t], f[Choice(kind, s)]) /\ h[s] = Combine(kind, h[t], f[Choice(kind, s)])
  BY <1>a, <1>b
<1>7. IsFiniteSet(t) /\ Cardinality(t) = Cardinality(s) - 1 /\ Cardinality(s) \in Nat
  BY <1>1, <1>5, FS_RemoveElement, FS_CardinalityType
<1>8. t \notin Bad
  <2> HIDE DEF Bad, t
  <2> QED BY <1>2, <1>7
<1>9. g[t] = h[t]
  BY <1>8, <1>3
<1> QED BY <1>3, <1>6, <1>9

LEMMA FoldExists ==
  ASSUME NEW kind, NEW f, NEW S, IsFiniteSet(S), Chooses(kind, S)
  PROVE  \E g : IsFold(g, kind, f, S)
<1> DEFINE Bad == {T \in SUBSET S : ~ \E g : IsFold(g, kind, f, T)}
<1> SUFFICES ASSUME Bad # {} PROVE FALSE
  OBVIOUS
<1>1. \A T \in Bad : IsFiniteSet(T)
  BY FS_Subset
<1>2. PICK T \in Bad : \A U \in Bad : Cardinality(T) <= Cardinality(U)
  <2> HIDE DEF Bad
  <2> QED BY <1>1, Smallest
<1> DEFINE on(U) == CHOOSE g : IsFold(g, kind, f, U)
<1>3. ASSUME NEW U \in SUBSET T, U # T PROVE IsFold(on(U), kind, f, U)
  <2>1. Cardinality(U) < Cardinality(T)
    <3>1. Cardinality(U) <= Cardinality(T) /\ Cardinality(U) # Cardinality(T)
      BY <1>1, <1>3, FS_Subset
    <3>2. Cardinality(U) \in Nat /\ Cardinality(T) \in Nat
      BY <1>1, FS_Subset, FS_CardinalityType
    <3> QED BY <3>1, <3>2
  <2>2. U \notin Bad
    <3>1. Cardinality(U) \in Nat /\ Cardinality(T) \in Nat
      BY <1>1, FS_Subset, FS_CardinalityType
    <3> HIDE DEF Bad
    <3> QED BY <2>1, <3>1, <1>2
  <2>3. U \in SUBSET S
    BY <1>2
  <2>4. \E g : IsFold(g, kind, f, U)
    BY <2>2, <2>3, Zenon
  <2> QED BY <2>4, Zenon
<1> DEFINE val(U) == on(U)[U]
           G == [s \in SUBSET T |-> IF s = {} THEN Start(kind, f) ELSE Combine(kind, val(s \ {Choice(kind, s)}), f[Choice(kind, s)])]
<1>4. ASSUME NEW s \in SUBSET T, s # {}
      PROVE  G[s \ {Choice(kind, s)}] = val(s \ {Choice(kind, s)})
  <2> DEFINE t == s \ {Choice(kind, s)}
             u == t \ {Choice(kind, t)}
  <2> SUFFICES G[t] = val(t)
    OBVIOUS
  <2>1. t \in SUBSET T /\ t # T
    BY <1>3, <1>4 DEF Chooses
  <2>2. IsFold(on(t), kind, f, t)
    <3> HIDE DEF on, t
    <3> QED BY <2>1, <1>3
  <2>3. on(t)[t] = IF t = {} THEN Start(kind, f) ELSE Combine(kind, on(t)[u], f[Choice(kind, t)])
    <3>1. t \in SUBSET t
      OBVIOUS
    <3> DEFINE g == on(t)
    <3>2. IsFold(g, kind, f, t)
      BY <2>2
    <3> HIDE DEF g, t
    <3>3. g[t] = IF t = {} THEN Start(kind, f) ELSE Combine(kind, g[u], f[Choice(kind, t)])
      BY <3>1, <3>2, FoldStep
    <3> QED BY <3>3 DEF g
  <2>4. G[t] = IF t = {} THEN Start(kind, f) ELSE Combine(kind, val(u), f[Choice(kind, t)])
    <3> HIDE DEF val, t
    <3> QED BY <2>1
  <2>5. CASE t = {}
    <3> HIDE DEF on, G
    <3> QED BY <2>3, <2>4, <2>5
  <2>6. CASE t # {}
    <3>1. u \in SUBSET T /\ u # T /\ u \in SUBSET (t \cap u)
      BY <2>6, <2>1, <1>2 DEF Chooses
    <3>2. IsFold(on(u), kind, f, u)
      <4> HIDE DEF on, u
      <4> QED BY <3>1, <1>3
    <3>3. IsFiniteSet(t) /\ Chooses(kind, t)
      BY <2>1, <1>1, <1>2, FS_Subset DEF Chooses
    <3>4. on(t)[u] = on(u)[u]
      <4> HIDE DEF on, u, t
      <4> QED BY <3>1, <3>2, <3>3, <2>2, FoldUnique
    <3> HIDE DEF on, G, t, u
    <3> QED BY <2>3, <2>4, <2>6, <3>4
  <2> QED BY <2>5, <2>6
<1>5. G = [s \in SUBSET T |-> IF s = {} THEN Start(kind, f) ELSE Combine(kind, G[s \ {Choice(kind, s)}], f[Choice(kind, s)])]
  <2>1. \A s \in SUBSET T : s # {} => Combine(kind, val(s \ {Choice(kind, s)}), f[Choice(kind, s)]) = Combine(kind, G[s \ {Choice(kind, s)}], f[Choice(kind, s)])
    <3> HIDE DEF G, val
    <3> QED BY <1>4
  <2>2. \A s \in SUBSET T : (IF s = {} THEN Start(kind, f) ELSE Combine(kind, val(s \ {Choice(kind, s)}), f[Choice(kind, s)]))
                          = (IF s = {} THEN Start(kind, f) ELSE Combine(kind, G[s \ {Choice(kind, s)}], f[Choice(kind, s)]))
    <3> HIDE DEF G, val
    <3> QED BY <2>1
  <2> DEFINE e(s) == IF s = {} THEN Start(kind, f) ELSE Combine(kind, G[s \ {Choice(kind, s)}], f[Choice(kind, s)])
             d(s) == IF s = {} THEN Start(kind, f) ELSE Combine(kind, val(s \ {Choice(kind, s)}), f[Choice(kind, s)])
  <2>3. \A s \in SUBSET T : d(s) = e(s)
    BY <2>2, Zenon
  <2>4. G = [s \in SUBSET T |-> d(s)]
    BY Zenon
  <2> HIDE DEF d, e
  <2>5. [s \in SUBSET T |-> d(s)] = [s \in SUBSET T |-> e(s)]
    BY <2>3
  <2>6. G = [s \in SUBSET T |-> e(s)]
    BY <2>4, <2>5, Zenon
  <2> QED BY <2>6, Zenon DEF e
<1>6. IsFold(G, kind, f, T)
  BY <1>5, Zenon DEF IsFold
<1>7. T \notin Bad
  <2> HIDE DEF G
  <2> QED BY <1>6
<1> QED BY <1>2, <1>7

(* What the fold of S combines last. *)
LEMMA FoldEquation ==
  ASSUME NEW kind, NEW f, NEW S, IsFiniteSet(S), Chooses(kind, S), NEW g, NEW h,
         IsFold(g, kind, f, S), IsFold(h, kind, f, S \ {Choice(kind, S)})
  PROVE  g[S] = IF S = {} THEN Start(kind, f)
                ELSE Combine(kind, h[S \ {Choice(kind, S)}], f[Choice(kind, S)])
<1> DEFINE T == S \ {Choice(kind, S)}
<1>1. S \in SUBSET S /\ T \in SUBSET (S \cap T)
  OBVIOUS
<1>2. g[S] = IF S = {} THEN Start(kind, f) ELSE Combine(kind, g[T], f[Choice(kind, S)])
  BY <1>1, FoldStep
<1>3. g[T] = h[T]
  <2> HIDE DEF T
  <2>1. IsFold(h, kind, f, T)
    BY DEF T
  <2> QED BY <1>1, <2>1, FoldUnique
<1> HIDE DEF T
<1>4. QED
  BY <1>2, <1>3 DEF T

IsSum(g, f, S) ==
  g = [s \in SUBSET S |-> IF s = {} THEN 0 ELSE f[Pick(s)] + g[s \ {Pick(s)}]]

LEMMA SumIsFold == ASSUME NEW g, NEW f, NEW S PROVE IsSum(g, f, S) <=> IsFold(g, "sum", f, S)
<1> DEFINE d(s) == IF s = {} THEN 0 ELSE f[Pick(s)] + g[s \ {Pick(s)}]
           e(s) == IF s = {} THEN Start("sum", f)
                   ELSE Combine("sum", g[s \ {Choice("sum", s)}], f[Choice("sum", s)])
<1>1. \A s \in SUBSET S : d(s) = e(s)
  BY DEF Start, Combine, Choice
<1>2. IsSum(g, f, S) <=> g = [s \in SUBSET S |-> d(s)]
  BY Zenon DEF IsSum
<1>3. IsFold(g, "sum", f, S) <=> g = [s \in SUBSET S |-> e(s)]
  BY Zenon DEF IsFold
<1> HIDE DEF d, e
<1>4. [s \in SUBSET S |-> d(s)] = [s \in SUBSET S |-> e(s)]
  BY <1>1
<1> QED BY <1>2, <1>3, <1>4, Zenon

LEMMA SumIsIter ==
  ASSUME NEW f, NEW S
  PROVE SumFunctionOnSet(f, S) = (CHOOSE g : IsSum(g, f, S))[S]
BY Zenon DEF SumFunctionOnSet, FoldFunctionOnSet, MapThenFoldSet, IsSum, Pick

LEMMA PickIn == ASSUME NEW s, s # {} PROVE Pick(s) \in s
BY DEF Pick

LEMMA SumEquation ==
  ASSUME NEW f, NEW S, IsFiniteSet(S)
  PROVE  SumFunctionOnSet(f, S) =
           IF S = {} THEN 0 ELSE f[Pick(S)] + SumFunctionOnSet(f, S \ {Pick(S)})
<1> DEFINE on(U) == CHOOSE g : IsSum(g, f, U)
           T == S \ {Pick(S)}
<1>1. IsFiniteSet(T)
  BY FS_RemoveElement
<1>2. ASSUME NEW U, IsFiniteSet(U) PROVE IsFold(on(U), "sum", f, U)
  <2>1. \E g : IsFold(g, "sum", f, U)
    BY <1>2, FoldExists, SumChooses
  <2>2. \E g : IsSum(g, f, U)
    BY <2>1, SumIsFold, Zenon
  <2>3. IsSum(on(U), f, U)
    BY <2>2, Zenon
  <2> HIDE DEF on
  <2> QED BY <2>3, SumIsFold
<1>3. SumFunctionOnSet(f, S) = on(S)[S] /\ SumFunctionOnSet(f, T) = on(T)[T]
  BY SumIsIter, Zenon
<1>4. IsFold(on(S), "sum", f, S) /\ IsFold(on(T), "sum", f, T)
  <2> HIDE DEF on, T
  <2> QED BY <1>1, <1>2
<1>5. Choice("sum", S) = Pick(S) /\ Start("sum", f) = 0
  BY DEF Choice, Start
<1>6. T = S \ {Choice("sum", S)}
  BY <1>5
<1>7. Combine("sum", on(T)[T], f[Pick(S)]) = f[Pick(S)] + on(T)[T]
  BY DEF Combine
<1> HIDE DEF on, T
<1>8. on(S)[S] = IF S = {} THEN 0 ELSE Combine("sum", on(T)[T], f[Pick(S)])
  <2>1. Chooses("sum", S)
    BY SumChooses
  <2>2. on(S)[S] = IF S = {} THEN Start("sum", f)
                   ELSE Combine("sum", on(T)[S \ {Choice("sum", S)}], f[Choice("sum", S)])
    BY <1>4, <1>6, <2>1, FoldEquation
  <2> QED BY <2>2, <1>5, <1>6
<1> QED BY <1>3, <1>7, <1>8 DEF T

LEMMA SumEmpty == ASSUME NEW f PROVE SumFunctionOnSet(f, {}) = 0
BY SumEquation, FS_EmptySet

(* A sum of integers is one. *)
LEMMA SumInt ==
  ASSUME NEW f, NEW S, IsFiniteSet(S), \A x \in S : f[x] \in Int
  PROVE  SumFunctionOnSet(f, S) \in Int
<1> DEFINE Bad == {T \in SUBSET S : SumFunctionOnSet(f, T) \notin Int}
<1> SUFFICES ASSUME Bad # {} PROVE FALSE
  OBVIOUS
<1>1. \A T \in Bad : IsFiniteSet(T)
  BY FS_Subset
<1>2. PICK T \in Bad : \A U \in Bad : Cardinality(T) <= Cardinality(U)
  <2> HIDE DEF Bad
  <2> QED BY <1>1, Smallest
<1>3. T \in SUBSET S /\ SumFunctionOnSet(f, T) \notin Int
  BY <1>2
<1> DEFINE U == T \ {Pick(T)}
<1>4. SumFunctionOnSet(f, T) = IF T = {} THEN 0 ELSE f[Pick(T)] + SumFunctionOnSet(f, U)
  BY <1>1, <1>2, SumEquation
<1>5. T # {}
  BY <1>3, <1>4
<1>6. Pick(T) \in T
  BY <1>5, PickIn
<1>7. Cardinality(U) = Cardinality(T) - 1 /\ Cardinality(T) \in Nat
  BY <1>1, <1>6, FS_RemoveElement, FS_CardinalityType
<1>8. U \notin Bad
  <2> HIDE DEF Bad, U
  <2> QED BY <1>2, <1>7
<1>9. SumFunctionOnSet(f, U) \in Int
  BY <1>8, <1>3
<1> HIDE DEF U
<1> QED BY <1>3, <1>4, <1>5, <1>6, <1>9

(* An element adds its value, whatever order the fold takes. *)
LEMMA SumAdd ==
  ASSUME NEW f, NEW S, IsFiniteSet(S), NEW x, x \notin S, \A y \in S \cup {x} : f[y] \in Int
  PROVE  SumFunctionOnSet(f, S \cup {x}) = f[x] + SumFunctionOnSet(f, S)
<1> DEFINE Sum(T) == SumFunctionOnSet(f, T)
           Adds(T, y) == Sum(T \cup {y}) = f[y] + Sum(T)
           Bad == {T \in SUBSET (S \cup {x}) : \E y \in (S \cup {x}) \ T : ~ Adds(T, y)}
<1> SUFFICES ASSUME Bad # {} PROVE FALSE
  OBVIOUS
<1>0. IsFiniteSet(S \cup {x})
  BY FS_AddElement
<1>1. \A T \in Bad : IsFiniteSet(T)
  BY <1>0, FS_Subset
<1>2. PICK T \in Bad : \A U \in Bad : Cardinality(T) <= Cardinality(U)
  <2> HIDE DEF Bad
  <2> QED BY <1>1, Smallest
<1>3. T \in SUBSET (S \cup {x})
  BY <1>2
<1>4. PICK y \in (S \cup {x}) \ T : ~ Adds(T, y)
  BY <1>2
<1> DEFINE p == Pick(T \cup {y})
           q == T \ {p}
<1>5. p \in T \cup {y}
  BY PickIn
<1>6. Sum(T \cup {y}) = f[p] + Sum((T \cup {y}) \ {p})
  BY <1>1, <1>2, FS_AddElement, SumEquation
<1>7. p # y
  <2> SUFFICES ASSUME p = y PROVE FALSE
    OBVIOUS
  <2>1. (T \cup {y}) \ {p} = T
    BY <1>4
  <2> QED BY <2>1, <1>4, <1>6
<1>8. p \in T /\ (T \cup {y}) \ {p} = q \cup {y} /\ q \cup {p} = T
  BY <1>4, <1>5, <1>7
<1>9. q \notin Bad
  <2>1. IsFiniteSet(T) /\ p \in T
    BY <1>1, <1>2, <1>8
  <2> HIDE DEF Bad, p
  <2>2. Cardinality(q) = Cardinality(T) - 1 /\ Cardinality(T) \in Nat
    BY <2>1, FS_RemoveElement, FS_CardinalityType
  <2> HIDE DEF q
  <2> QED BY <1>2, <2>2
<1>10. q \in SUBSET (S \cup {x}) /\ y \in (S \cup {x}) \ q /\ p \in (S \cup {x}) \ q
  BY <1>3, <1>4, <1>8
<1>11. Adds(q, y) /\ Adds(q, p)
  BY <1>9, <1>10, Zenon
<1>12. f[y] \in Int /\ f[p] \in Int /\ Sum(q) \in Int
  <2>1. IsFiniteSet(q)
    BY <1>1, <1>2, FS_RemoveElement
  <2>2. \A z \in q : f[z] \in Int
    BY <1>10
  <2> HIDE DEF q, p
  <2>3. Sum(q) \in Int
    BY <2>1, <2>2, SumInt
  <2> QED BY <1>10, <2>3
<1>13. Sum(T \cup {y}) = f[p] + Sum(q \cup {y}) /\ Sum(T) = Sum(q \cup {p})
  BY <1>6, <1>8, Zenon
<1> HIDE DEF Sum, p, q
<1> QED BY <1>4, <1>11, <1>12, <1>13

(* Sums go by the values alone. *)
LEMMA SumSame ==
  ASSUME NEW f, NEW g, NEW S, IsFiniteSet(S), \A x \in S : f[x] = g[x]
  PROVE  SumFunctionOnSet(f, S) = SumFunctionOnSet(g, S)
<1> DEFINE Bad == {T \in SUBSET S : SumFunctionOnSet(f, T) # SumFunctionOnSet(g, T)}
<1> SUFFICES ASSUME Bad # {} PROVE FALSE
  OBVIOUS
<1>1. \A T \in Bad : IsFiniteSet(T)
  BY FS_Subset
<1>2. PICK T \in Bad : \A U \in Bad : Cardinality(T) <= Cardinality(U)
  <2> HIDE DEF Bad
  <2> QED BY <1>1, Smallest
<1>3. T \in SUBSET S /\ SumFunctionOnSet(f, T) # SumFunctionOnSet(g, T)
  BY <1>2
<1> DEFINE U == T \ {Pick(T)}
<1>4. /\ SumFunctionOnSet(f, T) = IF T = {} THEN 0 ELSE f[Pick(T)] + SumFunctionOnSet(f, U)
      /\ SumFunctionOnSet(g, T) = IF T = {} THEN 0 ELSE g[Pick(T)] + SumFunctionOnSet(g, U)
  BY <1>1, <1>2, SumEquation
<1>5. T # {}
  BY <1>3, <1>4
<1>6. Pick(T) \in T
  BY <1>5, PickIn
<1>7. Cardinality(U) = Cardinality(T) - 1 /\ Cardinality(T) \in Nat
  BY <1>1, <1>6, FS_RemoveElement, FS_CardinalityType
<1>8. U \notin Bad
  <2> HIDE DEF Bad, U
  <2> QED BY <1>2, <1>7
<1>9. SumFunctionOnSet(f, U) = SumFunctionOnSet(g, U)
  BY <1>8, <1>3
<1> HIDE DEF U
<1> QED BY <1>3, <1>4, <1>5, <1>6, <1>9

(* One value changes: the sum changes by the difference. *)
LEMMA SumChange ==
  ASSUME NEW f, NEW g, NEW S, IsFiniteSet(S), NEW x \in S,
         \A y \in S : f[y] \in Int /\ g[y] \in Int, \A y \in S \ {x} : f[y] = g[y]
  PROVE  SumFunctionOnSet(g, S) = SumFunctionOnSet(f, S) - f[x] + g[x]
<1> DEFINE T == S \ {x}
<1>1. IsFiniteSet(T) /\ T \cup {x} = S /\ x \notin T
  BY FS_RemoveElement
<1>2. SumFunctionOnSet(f, T) = SumFunctionOnSet(g, T)
  <2> HIDE DEF T
  <2> QED BY <1>1, SumSame DEF T
<1>3. SumFunctionOnSet(f, S) = f[x] + SumFunctionOnSet(f, T)
  <2>1. \A y \in T \cup {x} : f[y] \in Int
    OBVIOUS
  <2> HIDE DEF T
  <2> QED BY <1>1, <2>1, SumAdd
<1>4. SumFunctionOnSet(g, S) = g[x] + SumFunctionOnSet(g, T)
  <2>1. \A y \in T \cup {x} : g[y] \in Int
    OBVIOUS
  <2> HIDE DEF T
  <2> QED BY <1>1, <2>1, SumAdd
<1>5. SumFunctionOnSet(f, T) \in Int /\ f[x] \in Int /\ g[x] \in Int
  BY <1>1, SumInt
<1> HIDE DEF T
<1> QED BY <1>2, <1>3, <1>4, <1>5

-----------------------------------------------------------------------------

(* A finite set of integers that is not empty has a largest element. *)
LEMMA MaxIs ==
  ASSUME NEW S \in SUBSET Int, IsFiniteSet(S), S # {}
  PROVE  Max(S) \in S /\ \A y \in S : Max(S) >= y
<1> DEFINE Tops(T) == {x \in T : \A y \in T : x >= y}
           Bad == {T \in SUBSET S : T # {} /\ Tops(T) = {}}
<1>1. Bad = {}
  <2> SUFFICES ASSUME Bad # {} PROVE FALSE
    OBVIOUS
  <2>1. \A T \in Bad : IsFiniteSet(T)
    BY FS_Subset
  <2>2. PICK T \in Bad : \A U \in Bad : Cardinality(T) <= Cardinality(U)
    <3> HIDE DEF Bad
    <3> QED BY <2>1, Smallest
  <2>3. T \in SUBSET S /\ T # {} /\ Tops(T) = {}
    BY <2>2
  <2>4. PICK x \in T : TRUE
    BY <2>3
  <2> DEFINE U == T \ {x}
  <2>5. Cardinality(U) = Cardinality(T) - 1 /\ Cardinality(T) \in Nat
    BY <2>1, <2>2, <2>4, FS_RemoveElement, FS_CardinalityType
  <2>6. U \notin Bad
    <3> HIDE DEF Bad, U
    <3> QED BY <2>2, <2>5
  <2>7. x \in Int /\ U \in SUBSET Int
    BY <2>3
  <2>8. CASE U = {}
    <3>1. x \in Tops(T)
      BY <2>7, <2>8
    <3> QED BY <2>3, <3>1
  <2>9. CASE U # {}
    <3>1. PICK z \in U : \A y \in U : z >= y
      BY <2>3, <2>6, <2>9
    <3>2. (\A y \in T : z >= y) \/ (\A y \in T : x >= y)
      BY <2>7, <3>1
    <3>3. z \in Tops(T) \/ x \in Tops(T)
      BY <3>1, <3>2
    <3> QED BY <2>3, <3>3
  <2> QED BY <2>8, <2>9
<1>2. \E x \in S : \A y \in S : x >= y
  <2>1. S \notin Bad
    BY <1>1
  <2> QED BY <2>1
<1> QED
  BY <1>2, Zenon DEF Max

LEMMA DistanceIs ==
  ASSUME NEW a \in Int, NEW b \in Int
  PROVE  Distance(a, b) \in Nat /\ Distance(a, b) = Distance(b, a)
BY DEF Distance, Greatest

LEMMA DaysAre ==
  ASSUME NEW e \in Int, NEW day \in Int
  PROVE  DaysToExpiry(e, day) \in Nat
BY DEF DaysToExpiry, Greatest

(* The fresh quotes, and what the scanner makes of them. *)
ChainOK(q) == DOMAIN q \subseteq Instrument /\ q \in [DOMAIN q -> Quote]

Candidate(c) ==
  /\ c.near \in Instrument /\ c.far \in Instrument
  /\ SeriesOf(c.near) = SeriesOf(c.far)
  /\ c.near.expiry < c.far.expiry
  /\ c.spot \in Nat /\ c.nearDays \in Nat
  /\ c.nearBid \in Nat /\ c.farAsk \in Nat
  /\ c.debit = c.farAsk - c.nearBid /\ c.debit > 0
  /\ c.ev \in Int /\ (c.ev > 0 => c.gains)

LEMMA PairOrder ==
  ASSUME NEW group \in SUBSET Nat, NEW day \in Nat, NEW p \in Pairs(group, day)
  PROVE  p[1] \in group /\ p[2] \in group /\ p[1] < p[2]
<1>1. p[1] \in group /\ p[2] \in group
  BY DEF Pairs
<1>2. PICK ft \in FarTargets : p[2] \in FarChoices(group, day, p[1], ft)
  BY DEF Pairs
<1>3. DaysToExpiry(p[2], day) > DaysToExpiry(p[1], day)
  BY <1>2 DEF FarChoices, Nearest
<1>4. p[1] \in Nat /\ p[2] \in Nat
  BY <1>1
<1>5. p[1] < p[2]
  BY <1>3, <1>4 DEF DaysToExpiry, Greatest
<1> QED
  BY <1>1, <1>5

(* The pricing model and the distribution give numbers. *)
PricesAreNumbers ==
  /\ \A iv, days, distance \in Nat : TimeValue(iv, days, distance) \in Int
  /\ \A offset \in Int : LnCdf(offset) \in 0..100

LEMMA IntrinsicIs ==
  ASSUME NEW type, NEW spot \in Int, NEW strike \in Nat
  PROVE  Intrinsic(type, spot, strike) \in Nat
BY DEF Intrinsic, Greatest

LEMMA OptionIs ==
  ASSUME PricesAreNumbers, NEW type, NEW spot \in Int, NEW strike \in Nat, NEW iv \in Nat, NEW days \in Nat
  PROVE  OptionValue(type, spot, strike, iv, days) \in Int
<1>1. Distance(spot, strike) \in Nat
  BY DistanceIs
<1>2. TimeValue(iv, days, Distance(spot, strike)) \in Int
  BY <1>1 DEF PricesAreNumbers
<1>3. Intrinsic(type, spot, strike) \in Nat
  BY IntrinsicIs
<1> QED
  BY <1>2, <1>3 DEF OptionValue

LEMMA LegFeeIs ==
  ASSUME NEW asset \in Asset, NEW spot \in Nat, NEW qty \in Nat, NEW price \in Int
  PROVE  /\ LegFee(asset, spot, qty, price) \in Int
         /\ price >= 0 => LegFee(asset, spot, qty, price) >= 0
         /\ price = 0 => LegFee(asset, spot, qty, price) = 0
<1> DEFINE low == Greatest((spot * FeeRate * qty) \div 10000, (MinFeeRate[asset] * spot * qty) \div 10000)
           cap == (price * qty * FeeCap) \div 1000
<1>1. FeeRate \in Nat /\ FeeCap \in Nat /\ MinFeeRate[asset] \in Nat
  BY FeesAssumption DEF FeesAssumption
<1>2. spot * FeeRate * qty \in Nat /\ MinFeeRate[asset] * spot * qty \in Nat /\ price * qty * FeeCap \in Int
  BY <1>1
<1>3. low \in Nat
  <2>1. (spot * FeeRate * qty) \div 10000 \in Nat /\ (MinFeeRate[asset] * spot * qty) \div 10000 \in Nat
    <3> DEFINE a == spot * FeeRate * qty
               b == MinFeeRate[asset] * spot * qty
    <3>1. a \in Nat /\ b \in Nat
      BY <1>2
    <3> HIDE DEF a, b
    <3>2. a \div 10000 \in Nat /\ b \div 10000 \in Nat
      BY <3>1
    <3> QED BY <3>2 DEF a, b
  <2> QED BY <2>1 DEF Greatest
<1>4. cap \in Int /\ (price >= 0 => cap >= 0) /\ (price = 0 => cap = 0)
  <2> DEFINE v == price * qty * FeeCap
  <2>1. price >= 0 => v >= 0
    <3> SUFFICES ASSUME price >= 0 PROVE v >= 0
      OBVIOUS
    <3>1. price * qty \in Nat
      OBVIOUS
    <3> QED BY <3>1, <1>1
  <2>2. price = 0 => v = 0
    BY <1>1
  <2>3. v \in Int
    BY <1>2
  <2> HIDE DEF v
  <2>4. v \div 1000 \in Int /\ (v >= 0 => v \div 1000 >= 0) /\ (v = 0 => v \div 1000 = 0)
    BY <2>3
  <2> QED BY <2>1, <2>2, <2>4 DEF v
<1> HIDE DEF low, cap
<1>5. LegFee(asset, spot, qty, price) = Least(low, cap)
  BY DEF LegFee, low, cap
<1> QED
  BY <1>3, <1>4, <1>5 DEF Least

(* A round trip costs something or nothing. *)
LEMMA RoundTripIs ==
  ASSUME NEW asset \in Asset, NEW spot \in Nat, NEW bid \in Nat, NEW ask \in Nat
  PROVE  RoundTripFees(asset, spot, 1, bid, ask, TRUE) \in Nat
<1> DEFINE a == LegFee(asset, spot, 1, bid)
           b == LegFee(asset, spot, 1, ask)
<1>1. a \in Int /\ a >= 0
  BY LegFeeIs
<1>2. b \in Int /\ b >= 0
  BY LegFeeIs
<1> HIDE DEF a, b
<1>3. RoundTripFees(asset, spot, 1, bid, ask, TRUE) = Greatest(a, b) + (a + b)
  BY DEF RoundTripFees, EntryFees, ExitFees, a, b
<1>4. Greatest(a, b) \in Int /\ Greatest(a, b) >= 0
  BY <1>1, <1>2 DEF Greatest
<1>5. Greatest(a, b) + (a + b) \in Nat
  BY <1>1, <1>2, <1>4
<1> QED
  BY <1>3, <1>5

LEMMA OffsetsAre ==
  /\ Grid \in Seq(Int) /\ Len(Grid) \in Nat /\ Len(Grid) > 0 /\ DOMAIN Grid = 1..Len(Grid)
  /\ \A i \in 1..Len(Grid) : Grid[i] \in Int
  /\ Samples \in Seq(Int) /\ Len(Samples) \in Nat /\ DOMAIN Samples = 1..Len(Samples)
<1>1. Grid \in Seq(Int) /\ Grid # <<>> /\ Samples \in Seq(Int)
  BY GridAssumption, SamplesAssumption DEF GridAssumption, SamplesAssumption
<1>2. /\ Len(Grid) \in Nat /\ DOMAIN Grid = 1..Len(Grid)
      /\ Len(Samples) \in Nat /\ DOMAIN Samples = 1..Len(Samples)
  BY <1>1, LenProperties
<1>3. Len(Grid) > 0
  BY <1>1, <1>2, EmptySeq
<1>4. \A i \in 1..Len(Grid) : Grid[i] \in Int
  BY <1>1, <1>2, ElementOfSeq
<1> QED
  BY <1>1, <1>2, <1>3, <1>4

(* What a pair pays at offsets from spot. *)
LEMMA PayoffIs ==
  ASSUME PricesAreNumbers, NEW offsets \in Seq(Int), NEW n \in Instrument, NEW f \in Instrument,
         NEW day \in Nat, NEW near \in Quote, NEW far \in Quote, NEW spot \in Nat
  PROVE  LET P == Payoff(offsets, n, f, day, near, far, spot)
         IN  DOMAIN P = 1..Len(offsets) /\ \A i \in 1..Len(offsets) : P[i] \in Int
<1>1. DOMAIN offsets = 1..Len(offsets) /\ \A i \in 1..Len(offsets) : offsets[i] \in Int
  BY LenProperties, ElementOfSeq
<1>2. /\ near.iv \in Nat /\ near.bid \in Nat /\ far.ask \in Nat /\ n.strike \in Nat
      /\ n.expiry \in Nat /\ f.expiry \in Nat
  BY DEF Quote, Instrument
<1> DEFINE nd == DaysToExpiry(n.expiry, day)
           fd == DaysToExpiry(f.expiry, day)
           days == Greatest(fd - nd, 1)
           debit == far.ask - near.bid
<1>3. days \in Nat /\ debit \in Int
  BY <1>2 DEF DaysToExpiry, Greatest
<1> HIDE DEF days, debit
<1>4. ASSUME NEW i \in 1..Len(offsets)
      PROVE  PnlAtNearExpiry(n.type, spot + offsets[i], n.strike, near.iv, nd, fd, far.ask - near.bid) \in Int
  <2> DEFINE close == spot + offsets[i]
  <2>1. close \in Int
    BY <1>1
  <2> HIDE DEF close
  <2>2. OptionValue(n.type, close, n.strike, near.iv, days) \in Int
    BY <1>2, <1>3, <2>1, OptionIs
  <2>3. Intrinsic(n.type, close, n.strike) \in Int
    BY <1>2, <2>1, IntrinsicIs
  <2>4. OptionValue(n.type, close, n.strike, near.iv, days) - Intrinsic(n.type, close, n.strike) - debit \in Int
    BY <1>3, <2>2, <2>3
  <2> QED BY <2>4 DEF PnlAtNearExpiry, days, debit, close
<1> QED
  BY <1>1, <1>4 DEF Payoff

LEMMA BreakevensAre ==
  ASSUME NEW spot \in Nat, NEW P, DOMAIN P = 1..Len(Grid)
  PROVE  FindBreakevens(spot, P).lo \in Int /\ FindBreakevens(spot, P).hi \in Int
<1> DEFINE steps == 1..(Cardinality(DOMAIN P) - 1)
           rising == {i \in steps : P[i] < 0 /\ P[i + 1] >= 0}
           falling == {i \in steps : P[i] >= 0 /\ P[i + 1] < 0}
<1> DEFINE n == Len(Grid)
<1>0. n \in Nat /\ n > 0
  BY OffsetsAre
<1>1. Cardinality(DOMAIN P) = Len(Grid) /\ IsFiniteSet(1..(Len(Grid) - 1))
  <2>1. DOMAIN P = 1..n
    OBVIOUS
  <2> HIDE DEF n
  <2>2. 1 \in Int /\ n \in Int /\ n - 1 \in Int /\ n - 1 + 1 = n
    BY <1>0
  <2>3. IsFiniteSet(1..(n - 1))
    BY <2>2, FS_Interval
  <2>4. Cardinality(1..n) = IF 1 > n THEN 0 ELSE n - 1 + 1
    BY <2>2, FS_Interval
  <2> QED BY <1>0, <2>1, <2>2, <2>3, <2>4 DEF n
<1>2. steps = 1..(Len(Grid) - 1) /\ rising \in SUBSET steps /\ falling \in SUBSET steps
  BY <1>1
<1>3. ASSUME NEW S \in SUBSET steps, S # {}
      PROVE  Grid[Max(S)] \in Int /\ Grid[Max(S) + 1] \in Int
  <2>0. S \in SUBSET (1..(Len(Grid) - 1))
    BY <1>2
  <2>1. S \in SUBSET Int
    BY <2>0, OffsetsAre
  <2>5. IsFiniteSet(S)
    BY <1>1, <2>0, FS_Subset
  <2>2. Max(S) \in S
    BY <1>3, <2>1, <2>5, MaxIs
  <2>3. Max(S) \in 1..(Len(Grid) - 1)
    BY <1>2, <2>2
  <2>4. Max(S) \in 1..Len(Grid) /\ Max(S) + 1 \in 1..Len(Grid)
    BY <2>3, OffsetsAre
  <2> QED BY <2>4, OffsetsAre
<1>4. FindBreakevens(spot, P) =
        [lo |-> IF rising = {} THEN 0 ELSE spot + Grid[Max(rising)],
         hi |-> IF falling = {} THEN 0 ELSE spot + Grid[Max(falling) + 1]]
  BY DEF FindBreakevens
<1> HIDE DEF rising, falling, steps
<1>5. rising # {} => spot + Grid[Max(rising)] \in Int
  BY <1>2, <1>3
<1>6. falling # {} => spot + Grid[Max(falling) + 1] \in Int
  BY <1>2, <1>3
<1> QED
  BY <1>4, <1>5, <1>6

LEMMA PopIs ==
  ASSUME PricesAreNumbers, NEW spot \in Nat, NEW be, be.lo \in Int, be.hi \in Int
  PROVE  Pop(spot, be) \in 0..100
<1> DEFINE whole == be.lo <= 0 /\ be.hi <= 0
           below(x) == IF x <= 0 THEN 0 ELSE LnCdf(x - spot)
           lo == IF whole THEN spot + Grid[1] ELSE be.lo
           hi == IF whole THEN spot + Grid[Cardinality(DOMAIN Grid)] ELSE be.hi
<1>1. Cardinality(DOMAIN Grid) = Len(Grid)
  <2>1. Len(Grid) \in Nat /\ Len(Grid) > 0 /\ DOMAIN Grid = 1..Len(Grid)
    BY OffsetsAre
  <2>2. Cardinality(1..Len(Grid)) = Len(Grid)
    <3> DEFINE k == Len(Grid)
    <3> HIDE DEF k
    <3>1. k \in Nat /\ k > 0
      BY <2>1 DEF k
    <3>2. Cardinality(1..k) = IF 1 > k THEN 0 ELSE k - 1 + 1
      BY <3>1, FS_Interval
    <3>3. QED
      BY <3>1, <3>2 DEF k
  <2> QED BY <2>1, <2>2
<1>2. lo \in Int /\ hi \in Int
  BY <1>1, OffsetsAre
<1>3. \A x \in Int : below(x) \in 0..100
  BY DEF PricesAreNumbers
<1> HIDE DEF whole, lo, hi
<1>4. below(lo) \in 0..100 /\ below(hi) \in 0..100
  BY <1>2, <1>3
<1>5. Pop(spot, be) = Least(100, Greatest(0, below(hi) - below(lo)))
  BY DEF Pop, whole, lo, hi
<1> HIDE DEF below
<1> QED
  BY <1>4, <1>5 DEF Least, Greatest

(* Without a sample that gains there is nothing to expect. *)
LEMMA ScoreIs ==
  ASSUME NEW P, NEW N \in Nat, DOMAIN P = 1..N, \A i \in 1..N : P[i] \in Int, NEW pop \in 0..100
  PROVE  /\ EvScore(P, pop) \in Int
         /\ (\A i \in DOMAIN P : ~ (P[i] > 0)) => EvScore(P, pop) <= 0
<1> DEFINE gains == {i \in DOMAIN P : P[i] > 0}
           losses == DOMAIN P \ gains
           gain == IF gains = {} THEN 0 ELSE pop * Avg(gains, P)
           loss == IF losses = {} THEN 0 ELSE (100 - pop) * Distance(Avg(losses, P), 0)
<1>1. ASSUME NEW S \in SUBSET DOMAIN P, S # {} PROVE Avg(S, P) \in Int
  <2>1. IsFiniteSet(S)
    BY FS_Interval, FS_Subset
  <2>2. SumFunctionOnSet(P, S) \in Int
    BY <2>1, SumInt
  <2>3. Cardinality(S) \in Nat /\ Cardinality(S) # 0
    BY <1>1, <2>1, FS_CardinalityType, FS_EmptySet
  <2> QED BY <2>2, <2>3 DEF Avg
<1>2. gains \in SUBSET DOMAIN P /\ losses \in SUBSET DOMAIN P
  OBVIOUS
<1>3. EvScore(P, pop) = gain - loss
  BY DEF EvScore
<1>4. (\A i \in DOMAIN P : ~ (P[i] > 0)) => gains = {}
  OBVIOUS
<1> HIDE DEF gains, losses
<1>5. gain \in Int
  BY <1>1, <1>2
<1>6. loss \in Nat
  <2>1. CASE losses # {}
    <3> DEFINE d == Distance(Avg(losses, P), 0)
    <3>1. d \in Nat
      <4>1. Avg(losses, P) \in Int
        BY <1>1, <1>2, <2>1
      <4> QED BY <4>1, DistanceIs
    <3> HIDE DEF d
    <3>2. (100 - pop) * d \in Nat
      BY <3>1
    <3> QED BY <2>1, <3>2 DEF d
  <2> QED BY <2>1
<1>7. gains = {} => gain = 0
  OBVIOUS
<1> HIDE DEF gain, loss
<1> QED
  BY <1>3, <1>4, <1>5, <1>6, <1>7

LEMMA RatedIs ==
  ASSUME NEW n, NEW f, NEW day, NEW spot, NEW near, NEW far, NEW grid, NEW samples
  PROVE  LET c == Rated(n, f, day, spot, near, far, grid, samples)
         IN  /\ c.near = n /\ c.far = f /\ c.spot = spot
             /\ c.nearDays = DaysToExpiry(n.expiry, day)
             /\ c.nearBid = near.bid /\ c.farAsk = far.ask
             /\ c.debit = far.ask - near.bid
BY DEF Rated

(* A candidate that is rated above nothing gains somewhere. *)
LEMMA RatedGains ==
  ASSUME PricesAreNumbers, NEW n \in Instrument, NEW f \in Instrument, NEW day \in Nat,
         NEW near \in Quote, NEW far \in Quote, NEW spot \in Nat, far.ask > near.bid
  PROVE  LET grid == Payoff(Grid, n, f, day, near, far, spot)
             samples == Payoff(Samples, n, f, day, near, far, spot)
             c == Rated(n, f, day, spot, near, far, grid, samples)
         IN  c.ev \in Int /\ (c.ev > 0 => c.gains)
<1> DEFINE grid == Payoff(Grid, n, f, day, near, far, spot)
           samples == Payoff(Samples, n, f, day, near, far, spot)
           pop == Pop(spot, FindBreakevens(spot, grid))
           fees == RoundTripFees(n.asset, spot, 1, near.bid, far.ask, TRUE)
           debit == far.ask - near.bid
           score == EvScore(samples, pop)
           c == Rated(n, f, day, spot, near, far, grid, samples)
<1>1. c.ev = (score - 100 * fees) \div debit /\ c.gains = \E i \in DOMAIN samples : samples[i] > 0
  BY DEF Rated
<1>2. near.bid \in Nat /\ far.ask \in Nat /\ n.asset \in Asset
  BY DEF Quote, Instrument
<1>3. debit \in Nat /\ debit > 0
  BY <1>2
<1>4. fees \in Nat
  BY <1>2, RoundTripIs
<1>5. DOMAIN grid = 1..Len(Grid)
  BY OffsetsAre, PayoffIs
<1>6. DOMAIN samples = 1..Len(Samples) /\ \A i \in 1..Len(Samples) : samples[i] \in Int
  BY OffsetsAre, PayoffIs
<1> HIDE DEF samples, grid, fees, debit
<1>7. pop \in 0..100
  <2> DEFINE be == FindBreakevens(spot, grid)
  <2>1. be.lo \in Int /\ be.hi \in Int
    BY <1>5, BreakevensAre
  <2> HIDE DEF be
  <2>2. Pop(spot, be) \in 0..100
    BY <2>1, PopIs
  <2> QED BY <2>2 DEF be
<1> HIDE DEF pop
<1>8. score \in Int /\ ((\A i \in DOMAIN samples : ~ (samples[i] > 0)) => score <= 0)
  BY <1>6, <1>7, OffsetsAre, ScoreIs
<1> HIDE DEF score, c
<1> DEFINE x == score - 100 * fees
<1>9. x \in Int /\ (score <= 0 => x <= 0)
  BY <1>4, <1>8
<1>11. c.ev = x \div debit
  BY <1>1
<1> HIDE DEF x
<1>10. x \div debit \in Int /\ (x <= 0 => x \div debit <= 0)
  BY <1>3, <1>9
<1>12. c.ev \in Int /\ (c.ev > 0 => c.gains)
  BY <1>1, <1>8, <1>9, <1>10, <1>11
<1> QED
  BY <1>12 DEF c, grid, samples

DatedOn(c, day) == c.nearDays = DaysToExpiry(c.near.expiry, day)

LEMMA EvaluatedIs ==
  ASSUME PricesAreNumbers, NEW n \in Instrument, NEW f \in Instrument, NEW day \in Nat,
         NEW near \in Quote, NEW far \in Quote, NEW spot \in Nat, NEW isRoll,
         SeriesOf(n) = SeriesOf(f), n.expiry < f.expiry,
         NEW c \in EvalCandidate(n, f, day, near, far, spot, isRoll)
  PROVE  Candidate(c) /\ c.near = n /\ c.far = f /\ DatedOn(c, day)
<1> DEFINE grid == Payoff(Grid, n, f, day, near, far, spot)
           samples == Payoff(Samples, n, f, day, near, far, spot)
<1>2. far.ask > near.bid
  BY DEF EvalCandidate, Passes
<1>4. c = Rated(n, f, day, spot, near, far, grid, samples)
  BY DEF EvalCandidate
<1>8. c.ev \in Int /\ (c.ev > 0 => c.gains)
  BY <1>2, <1>4, RatedGains
<1> HIDE DEF grid, samples
<1>5. /\ c.near = n /\ c.far = f /\ c.spot = spot
      /\ c.nearDays = DaysToExpiry(n.expiry, day)
      /\ c.nearBid = near.bid /\ c.farAsk = far.ask
      /\ c.debit = far.ask - near.bid
  BY <1>4, RatedIs
<1>6. near.bid \in Nat /\ far.ask \in Nat /\ n.expiry \in Nat
  BY DEF Quote, Instrument
<1>7. c.nearDays \in Nat
  <2>1. DaysToExpiry(n.expiry, day) \in Nat
    BY <1>6 DEF DaysToExpiry, Greatest
  <2> QED BY <2>1, <1>5
<1> QED
  BY <1>2, <1>5, <1>6, <1>7, <1>8 DEF Candidate, DatedOn

Group == [asset : Asset, type : {"Call", "Put"}, strike : Nat \ {0}]

LEMMA ListedIs ==
  ASSUME NEW quotes, ChainOK(quotes), NEW g \in Group, NEW e \in Expiries(quotes, g)
  PROVE  /\ e \in Nat /\ OptionOf(g, e) \in DOMAIN quotes
         /\ SeriesOf(OptionOf(g, e)) = g /\ OptionOf(g, e).expiry = e
<1>1. PICK i \in DOMAIN quotes : i.asset = g.asset /\ i.type = g.type /\ i.strike = g.strike /\ e = i.expiry
  BY DEF Expiries
<1>2. i \in Instrument
  BY DEF ChainOK
<1>3. OptionOf(g, e) = i /\ e \in Nat
  BY <1>1, <1>2 DEF OptionOf, Instrument
<1>4. SeriesOf(OptionOf(g, e)) = g
  BY DEF OptionOf, SeriesOf, Group
<1> QED
  BY <1>1, <1>3, <1>4

LEMMA ScannedIs ==
  ASSUME PricesAreNumbers, NEW quotes, ChainOK(quotes), NEW sp \in [Asset -> Nat], NEW day \in Nat, NEW isRoll,
         NEW groups \in SUBSET Group, NEW c \in ScanGroups(quotes, sp, day, groups, isRoll)
  PROVE  /\ Candidate(c) /\ SeriesOf(c.near) \in groups
         /\ DatedOn(c, day)
<1>1. PICK g \in groups : c \in ScanGroup(quotes, sp[g.asset], day, g, isRoll)
  BY DEF ScanGroups
<1>2. PICK p \in Pairs(Expiries(quotes, g), day) :
         c \in ScanPair(quotes, sp[g.asset], day, OptionOf(g, p[1]), OptionOf(g, p[2]), isRoll)
  BY <1>1 DEF ScanGroup
<1>3. \A e \in Expiries(quotes, g) : e \in Nat
  BY ListedIs
<1>4. p[1] \in Expiries(quotes, g) /\ p[2] \in Expiries(quotes, g) /\ p[1] < p[2]
  BY <1>3, PairOrder
<1> DEFINE n == OptionOf(g, p[1])
           f == OptionOf(g, p[2])
<1>5. /\ n \in DOMAIN quotes /\ f \in DOMAIN quotes
      /\ SeriesOf(n) = g /\ SeriesOf(f) = g /\ n.expiry < f.expiry
  BY <1>4, ListedIs
<1>6. sp[g.asset] \in Nat
  BY DEF Group
<1>7. c \in EvalCandidate(n, f, day, quotes[n], quotes[f], sp[g.asset], isRoll)
  BY <1>2 DEF ScanPair
<1> HIDE DEF n, f
<1>8. /\ n \in Instrument /\ f \in Instrument
      /\ quotes[n] \in Quote /\ quotes[f] \in Quote
  BY <1>5 DEF ChainOK
<1>9. Candidate(c) /\ c.near = n /\ DatedOn(c, day)
  BY <1>5, <1>6, <1>7, <1>8, EvaluatedIs
<1> QED
  BY <1>5, <1>9

-----------------------------------------------------------------------------

Row ==
  [id : Nat, near : Instrument, far : Instrument, qty : Nat \ {0}, debit : Nat \ {0},
   nearPrem : Int, nearDays : Nat, openFees : Int, rollPnl : Int, lastSv : Int,
   pnl : Int, closedAt : Int, result : {"Open", "Rolled", "TP", "Stop", "RollFailed"},
   notes : {"", "expiry", "signal", "roll"}, stuck : BOOLEAN]

MarketType == clock \in Nat /\ spots \in [Asset -> Nat] /\ ChainOK(chain)

LEMMA ClockNumbers ==
  /\ DayLength \in Nat /\ DayLength > 0
  /\ RetryCap \in Nat /\ RetryCap > 0
  /\ Capital \in Nat /\ MaxTrades \in Nat /\ Slippage \in Nat /\ LossLimit \in Nat
  /\ MinRollGap \in Nat /\ RollTriggerDays \in Nat /\ ConfirmTicks \in Nat
BY StrategyAssumption DEF StrategyAssumption

LEMMA SizerNumbers ==
  /\ MaxPositions \in Nat /\ MaxLossPct \in Nat /\ MaxTotalRiskPct \in Nat /\ MaxQty \in Nat
  /\ MinNetDebit \in Nat /\ CorrelationPct \in Nat /\ Cooldown \in Nat /\ MinLegSize \in Nat
BY SizerAssumption DEF SizerAssumption

LEMMA DayIs == ASSUME MarketType PROVE Day \in Nat
<1>1. clock \in Nat
  BY DEF MarketType
<1> QED
  BY <1>1, ClockNumbers DEF Day

LEMMA RowNumbers ==
  ASSUME NEW p \in Row
  PROVE  /\ p.near \in Instrument /\ p.far \in Instrument
         /\ p.near.asset \in Asset /\ p.far.asset \in Asset
         /\ p.near.strike \in Nat /\ p.near.strike > 0 /\ p.far.strike \in Nat
         /\ p.near.expiry \in Nat /\ p.far.expiry \in Nat
         /\ p.qty \in Nat /\ p.qty > 0 /\ p.debit \in Nat /\ p.debit > 0
         /\ p.lastSv \in Int /\ p.openFees \in Int /\ p.rollPnl \in Int /\ p.pnl \in Int
<1>1. p.near \in Instrument /\ p.far \in Instrument
  BY DEF Row
<1>2. p.qty \in Nat \ {0} /\ p.debit \in Nat \ {0}
  BY DEF Row
<1>3. p.lastSv \in Int /\ p.openFees \in Int /\ p.rollPnl \in Int /\ p.pnl \in Int
  BY DEF Row
<1> QED
  BY <1>1, <1>2, <1>3 DEF Instrument

LEMMA IvIs == ASSUME MarketType, NEW p PROVE GetIv(p) \in Nat
BY DEF GetIv, MarketType, ChainOK, Quote

(* What a position is worth is a number. *)
LEMMA ValueIs ==
  ASSUME PricesAreNumbers, MarketType, NEW p \in Row
  PROVE  PositionValue(p) \in Int
<1>1. /\ p.near \in Instrument /\ p.far \in Instrument
      /\ spots[p.near.asset] \in Nat /\ p.near.strike \in Nat /\ p.qty \in Nat
      /\ p.near.expiry \in Nat /\ p.far.expiry \in Nat
  BY RowNumbers DEF MarketType
<1>2. CASE Quoted(p.near) /\ Quoted(p.far)
  <2>1. Mid2(p.near) \in Int /\ Mid2(p.far) \in Int
    BY <1>2 DEF Quoted, Mid2, MarketType, ChainOK, Quote
  <2>2. Greatest(0, Mid2(p.far) - Mid2(p.near)) \in Int
    BY <2>1 DEF Greatest
  <2>3. Greatest(0, Mid2(p.far) - Mid2(p.near)) * p.qty \in Int
    BY <2>2, <1>1
  <2> QED BY <1>2, <2>3 DEF PositionValue
<1>3. CASE ~ (Quoted(p.near) /\ Quoted(p.far))
  <2> DEFINE nd == Greatest(NearDaysLeft(p), 1)
             fd == Greatest(DaysToExpiry(p.far.expiry, Day), 1)
  <2>1. nd \in Nat /\ fd \in Nat
    BY <1>1, DayIs DEF NearDaysLeft, DaysToExpiry, Greatest
  <2>2. GetIv(p) \in Nat
    BY IvIs
  <2> HIDE DEF nd, fd
  <2>3. /\ OptionValue(p.near.type, spots[p.near.asset], p.near.strike, GetIv(p), nd) \in Int
        /\ OptionValue(p.near.type, spots[p.near.asset], p.near.strike, GetIv(p), fd) \in Int
    BY <1>1, <2>1, <2>2, OptionIs
  <2>4. SpreadValue(p.near.type, spots[p.near.asset], p.near.strike, GetIv(p), nd, fd, p.qty) \in Int
    BY <2>3, <1>1 DEF SpreadValue
  <2> QED BY <1>3, <2>4 DEF PositionValue, ModelValue, nd, fd
<1> QED
  BY <1>2, <1>3

(* The premiums of the closed legs count as 0, and then there is no fee.      *)
LEMMA NoExitFees ==
  ASSUME NEW asset \in Asset, NEW spot \in Nat, NEW qty \in Nat
  PROVE  ExitFees(asset, spot, qty, 0, 0) = 0
<1>1. LegFee(asset, spot, qty, 0) = 0
  BY LegFeeIs
<1> QED
  BY <1>1 DEF ExitFees

LEMMA NetPnlIs ==
  ASSUME MarketType, NEW p \in Row, NEW worth \in Int
  PROVE  NetPnl(p, worth) = worth - p.debit * p.qty + p.rollPnl - p.openFees
BY RowNumbers, NoExitFees DEF NetPnl, MarketType

LEMMA NetPnlType ==
  ASSUME MarketType, NEW p \in Row, NEW worth \in Int
  PROVE  NetPnl(p, worth) \in Int
<1>1. p.debit * p.qty \in Int /\ p.rollPnl \in Int /\ p.openFees \in Int
  BY RowNumbers
<1> QED
  BY <1>1, NetPnlIs

(* What the writes of a turn do to a row. *)
SameTerms(r, p) ==
  /\ r.id = p.id /\ r.far = p.far /\ r.qty = p.qty /\ r.debit = p.debit
  /\ r.nearPrem = p.nearPrem /\ r.nearDays = p.nearDays /\ r.openFees = p.openFees

LEMMA ValuedIs ==
  ASSUME PricesAreNumbers, MarketType, NEW p \in Row
  PROVE  /\ ValuedRow(p) \in Row /\ SameTerms(ValuedRow(p), p)
         /\ ValuedRow(p).near = p.near /\ ValuedRow(p).rollPnl = p.rollPnl
         /\ ValuedRow(p).pnl = p.pnl /\ ValuedRow(p).closedAt = p.closedAt
         /\ ValuedRow(p).result = p.result /\ ValuedRow(p).notes = p.notes
         /\ ValuedRow(p).stuck = p.stuck
<1>1. PositionValue(p) \in Int
  BY ValueIs
<1>2. ValuedRow(p) \in Row
  BY <1>1 DEF ValuedRow, Row
<1>3. SameTerms(ValuedRow(p), p)
  BY DEF ValuedRow, Row, SameTerms
<1> QED
  BY <1>2, <1>3 DEF ValuedRow, Row

LEMMA StuckIs ==
  ASSUME NEW p \in Row
  PROVE  LET r == [p EXCEPT !.stuck = TRUE]
         IN  /\ r \in Row /\ SameTerms(r, p)
             /\ r.near = p.near /\ r.rollPnl = p.rollPnl /\ r.pnl = p.pnl
             /\ r.closedAt = p.closedAt /\ r.result = p.result /\ r.notes = p.notes /\ r.stuck
<1> DEFINE r == [p EXCEPT !.stuck = TRUE]
<1>2. r \in Row
  BY DEF Row
<1>3. SameTerms(r, p)
  BY DEF Row, SameTerms
<1> QED
  BY <1>2, <1>3 DEF Row

LEMMA ClosedIs ==
  ASSUME MarketType, NEW p \in Row, NEW worth \in Int, NEW sv \in Int,
         NEW label \in {"TP", "Stop", "RollFailed"}, NEW why \in {"expiry", "signal", "roll"}
  PROVE  LET r == ClosedRow(p, worth, sv, label, why)
         IN  /\ r \in Row /\ SameTerms(r, p)
             /\ r.near = p.near /\ r.rollPnl = p.rollPnl /\ r.pnl = NetPnl(p, worth)
             /\ r.closedAt = clock /\ r.result = label /\ r.notes = why /\ r.stuck = p.stuck
<1> DEFINE r == ClosedRow(p, worth, sv, label, why)
<1>1. NetPnl(p, worth) \in Int /\ clock \in Int
  BY NetPnlType DEF MarketType
<1>2. r \in Row
  BY <1>1 DEF ClosedRow, Row
<1>3. SameTerms(r, p)
  BY DEF ClosedRow, Row, SameTerms
<1> QED
  BY <1>2, <1>3 DEF ClosedRow, Row

LEMMA RolledIs ==
  ASSUME PricesAreNumbers, MarketType, NEW p \in Row, NEW c, Candidate(c)
  PROVE  LET r == RolledRow(p, c)
         IN  /\ r \in Row /\ SameTerms(r, p)
             /\ r.near = c.near /\ r.rollPnl = p.rollPnl + RollPnl(p, c) /\ r.pnl = p.pnl
             /\ r.closedAt = p.closedAt /\ r.result = "Rolled" /\ r.notes = p.notes
             /\ r.stuck = p.stuck
             /\ RollPnl(p, c) \in Int /\ RollPnl(p, c) <= 0
<1> DEFINE v == ValuedRow(p)
           r == [v EXCEPT !.near = c.near, !.result = "Rolled", !.rollPnl = @ + RollPnl(p, c)]
<1>1. /\ v \in Row /\ SameTerms(v, p) /\ v.near = p.near /\ v.rollPnl = p.rollPnl
      /\ v.pnl = p.pnl /\ v.closedAt = p.closedAt /\ v.notes = p.notes /\ v.stuck = p.stuck
  BY ValuedIs
<1>2. c.nearBid \in Nat /\ p.qty \in Nat /\ c.near \in Instrument
  BY RowNumbers DEF Candidate
<1>3. RollPnl(p, c) \in Int /\ RollPnl(p, c) <= 0
  BY <1>2 DEF RollPnl
<1> HIDE DEF v
<1>4. v.rollPnl + RollPnl(p, c) \in Int
  BY <1>1, <1>3, RowNumbers
<1>5. r \in Row
  BY <1>1, <1>2, <1>4 DEF Row
<1>6. SameTerms(r, p)
  BY <1>1 DEF Row, SameTerms
<1>7. r = RolledRow(p, c)
  BY DEF RolledRow, v
<1>8. /\ r.near = c.near /\ r.result = "Rolled" /\ r.rollPnl = v.rollPnl + RollPnl(p, c)
      /\ r.pnl = v.pnl /\ r.closedAt = v.closedAt /\ r.notes = v.notes /\ r.stuck = v.stuck
  BY <1>1 DEF Row
<1> HIDE DEF r
<1> QED
  BY <1>1, <1>3, <1>5, <1>6, <1>7, <1>8

LEMMA FoundIs ==
  ASSUME PricesAreNumbers, MarketType, NEW c \in Scan(chain, spots, Day, Asset)
  PROVE  Candidate(c) /\ c.nearDays = NearDaysLeft(c)
<1>1. GroupChain(chain, Asset) \in SUBSET Group
  BY DEF GroupChain, Group, MarketType, ChainOK, Instrument
<1>2. Day \in Nat
  BY DayIs
<1>3. c \in ScanGroups(chain, spots, Day, GroupChain(chain, Asset), FALSE)
  BY DEF Scan
<1>4. spots \in [Asset -> Nat] /\ ChainOK(chain)
  BY DEF MarketType
<1> DEFINE groups == GroupChain(chain, Asset)
<1> HIDE DEF groups
<1>5. groups \in SUBSET Group /\ c \in ScanGroups(chain, spots, Day, groups, FALSE)
  BY <1>1, <1>3 DEF groups
<1>6. Candidate(c)
  BY <1>2, <1>4, <1>5, ScannedIs
<1>7. DatedOn(c, Day)
  BY <1>2, <1>4, <1>5, ScannedIs
<1> QED
  BY <1>6, <1>7 DEF NearDaysLeft, DatedOn

LEMMA RollChoiceIs ==
  ASSUME PricesAreNumbers, MarketType, NEW p \in Row, NEW c \in RollChoices(p)
  PROVE  /\ Candidate(c)
         /\ SeriesOf(c.near) = SeriesOf(p.near) /\ c.far = p.far
         /\ p.far.expiry - c.near.expiry >= MinRollGap
<1> DEFINE g == SeriesOf(p.near)
<1>1. {g} \in SUBSET Group
  BY RowNumbers DEF Group, SeriesOf, Instrument
<1>2. Day \in Nat
  BY DayIs
<1>3. /\ c \in ScanForRoll(chain, spots, Day, p.near, p.far)
      /\ p.far.expiry - c.near.expiry >= MinRollGap
  BY DEF RollChoices
<1>4. c \in ScanGroups(chain, spots, Day, {g}, TRUE) /\ c.far = p.far
  BY <1>3 DEF ScanForRoll, SeriesOf
<1> HIDE DEF g
<1>5. Candidate(c) /\ SeriesOf(c.near) \in {g}
  BY <1>1, <1>2, <1>4, ScannedIs DEF MarketType
<1> QED
  BY <1>3, <1>4, <1>5 DEF g

LEMMA CostIs ==
  ASSUME NEW c, Candidate(c)
  PROVE  CostPerUnit(c) \in Nat /\ CostPerUnit(c) >= c.debit /\ c.debit \in Nat /\ c.debit > 0
<1>1. /\ c.near.asset \in Asset /\ c.spot \in Nat /\ c.nearBid \in Nat /\ c.farAsk \in Nat
      /\ c.debit \in Nat /\ c.debit > 0
  BY DEF Candidate, Instrument
<1> DEFINE fees == RoundTripFees(c.near.asset, c.spot, 1, c.nearBid, c.farAsk, TRUE)
<1>2. fees \in Nat
  BY <1>1, RoundTripIs
<1>3. CostPerUnit(c) = c.debit + fees
  BY DEF CostPerUnit
<1> HIDE DEF fees
<1> QED
  BY <1>1, <1>2, <1>3

LEMMA FloorIs ==
  ASSUME NEW asset \in Asset, NEW qty \in Int
  PROVE  FloorToStep(asset, qty) \in Int /\ FloorToStep(asset, qty) <= qty
<1> DEFINE s == Limits[asset].step
<1>1. s \in Nat /\ s > 0
  BY SizerAssumption DEF SizerAssumption
<1> HIDE DEF s
<1>2. qty \div s \in Int /\ (qty \div s) * s <= qty
  BY <1>1
<1> QED
  BY <1>1, <1>2 DEF FloorToStep, s

LEMMA CappedIs ==
  ASSUME NEW asset \in Asset, NEW qty \in Int, Capped(asset, qty) > 0
  PROVE  Capped(asset, qty) \in Int /\ Capped(asset, qty) <= qty
<1>1. /\ FloorToStep(asset, qty) \in Int /\ FloorToStep(asset, qty) <= qty
      /\ FloorToStep(asset, MaxQty) \in Int
  BY FloorIs, SizerNumbers
<1>2. Limits[asset].minAmount \in Nat
  BY SizerAssumption DEF SizerAssumption
<1> QED
  BY <1>1, <1>2 DEF Capped, Least

(* An approved quantity: the candidate is not blocked, and what it may cost  *)
(* is within what may be lost.                                               *)
LEMMA SizedIs ==
  ASSUME NEW c, Candidate(c), NEW val \in Int, NEW open, RiskInUse(open) \in Int,
         NEW since, NEW now, NEW qty, qty = SizeCandidate(c, val, open, since, now), qty > 0
  PROVE  /\ qty \in Nat
         /\ SeriesOf(c.near) \in DOMAIN since => ~ (now - since[SeriesOf(c.near)] < Cooldown)
         /\ \A p \in open : ~ Correlated(c, p)
         /\ MaxLoss(val, open) \in Int /\ MaxLoss(val, open) > 0
         /\ qty * CostPerUnit(c) <= MaxLoss(val, open)
<1>1. CostPerUnit(c) \in Nat /\ CostPerUnit(c) > 0 /\ c.near.asset \in Asset
  BY CostIs DEF Candidate, Instrument
<1>2. MaxLoss(val, open) \in Int
  BY SizerNumbers DEF MaxLoss, Least
<1> DEFINE most == MaxLoss(val, open)
           cost == CostPerUnit(c)
           n == most \div cost
<1>3. /\ SeriesOf(c.near) \in DOMAIN since => ~ (now - since[SeriesOf(c.near)] < Cooldown)
      /\ \A p \in open : ~ Correlated(c, p)
      /\ ~ (most <= 0)
      /\ qty = Capped(c.near.asset, n)
  BY DEF SizeCandidate
<1> HIDE DEF most, cost
<1>4. most \in Int /\ cost \in Nat /\ cost > 0
  BY <1>1, <1>2 DEF most, cost
<1>5. n \in Int /\ n * cost <= most
  BY <1>4
<1> HIDE DEF n
<1>6. qty \in Int /\ qty <= n
  BY <1>1, <1>3, <1>5, CappedIs
<1>7. qty * cost <= n * cost
  BY <1>4, <1>5, <1>6
<1>8. qty * cost \in Int /\ n * cost \in Int
  BY <1>4, <1>5, <1>6
<1>9. qty * cost <= most
  BY <1>4, <1>5, <1>7, <1>8
<1> QED
  BY <1>3, <1>4, <1>6, <1>9 DEF most, cost

LEMMA FillIs ==
  ASSUME NEW c, Candidate(c)
  PROVE  /\ Fill(c).near \in Int /\ Fill(c).far \in Int
         /\ mode = "paper" => Fill(c).far - Fill(c).near = c.debit
<1>1. c.nearBid \in Nat /\ c.farAsk \in Nat /\ c.debit = c.farAsk - c.nearBid
  BY DEF Candidate
<1>2. CASE mode = "paper"
  BY <1>1, <1>2 DEF Fill
<1>3. CASE mode # "paper"
  <2>1. c.nearBid * (1000 - Slippage) \in Int /\ c.farAsk * (1000 + Slippage) \in Int
    BY <1>1, ClockNumbers
  <2> DEFINE x == c.nearBid * (1000 - Slippage)
             y == c.farAsk * (1000 + Slippage)
  <2>2. Fill(c).near = x \div 1000 /\ Fill(c).far = y \div 1000
    BY <1>3 DEF Fill
  <2> HIDE DEF x, y
  <2> QED BY <1>3, <2>1, <2>2 DEF x, y
<1> QED
  BY <1>2, <1>3

LEMMA NewRow ==
  ASSUME NEW id \in Nat, NEW near \in Instrument, NEW far \in Instrument, NEW qty \in Nat \ {0},
         NEW debit \in Nat \ {0}, NEW prem \in Int, NEW days \in Nat, NEW fees \in Int
  PROVE  [id |-> id, near |-> near, far |-> far, qty |-> qty, debit |-> debit,
          nearPrem |-> prem, nearDays |-> days, openFees |-> fees,
          rollPnl |-> 0, lastSv |-> 0, pnl |-> 0, closedAt |-> -1,
          result |-> "Open", notes |-> "", stuck |-> FALSE] \in Row
<1>1. -1 \in Int /\ 0 \in Int
  OBVIOUS
<1>2. "Open" \in {"Open", "Rolled", "TP", "Stop", "RollFailed"} /\ "" \in {"", "expiry", "signal", "roll"}
  OBVIOUS
<1> QED
  BY <1>1, <1>2 DEF Row

JustEntered(r, c, qty) ==
  /\ r \in Row
  /\ r.id = Len(book) + 1 /\ r.near = c.near /\ r.far = c.far /\ r.qty = qty
  /\ r.debit = Fill(c).far - Fill(c).near /\ r.rollPnl = 0 /\ r.pnl = 0
  /\ r.nearDays = c.nearDays
  /\ r.closedAt = -1 /\ r.result = "Open" /\ r.notes = "" /\ ~ r.stuck

LEMMA BookedIs ==
  ASSUME NEW c, Candidate(c), Fillable(c), book \in Seq(Row), NEW qty \in Nat, qty > 0
  PROVE  JustEntered(Booked(c, qty), c, qty)
<1> DEFINE near == Fill(c).near
           far == Fill(c).far
           fees == EntryFees(c.near.asset, c.spot, qty, near, far, FALSE)
           debit == far - near
           n == Len(book) + 1
           r == [id |-> n, near |-> c.near, far |-> c.far, qty |-> qty,
                 debit |-> debit, nearPrem |-> near, nearDays |-> c.nearDays,
                 openFees |-> fees,
                 rollPnl |-> 0, lastSv |-> 0, pnl |-> 0, closedAt |-> -1,
                 result |-> "Open", notes |-> "", stuck |-> FALSE]
<1>1. near \in Int /\ far \in Int /\ far > near
  BY FillIs DEF Fillable
<1> HIDE DEF near, far
<1>2. /\ c.near \in Instrument /\ c.far \in Instrument /\ c.near.asset \in Asset
      /\ c.spot \in Nat /\ c.nearDays \in Nat
  BY DEF Candidate, Instrument
<1>3. fees \in Int
  <2>1. /\ LegFee(c.near.asset, c.spot, qty, near) \in Int
        /\ LegFee(c.near.asset, c.spot, qty, far) \in Int
    BY <1>1, <1>2, LegFeeIs
  <2> QED BY <2>1 DEF EntryFees
<1> HIDE DEF fees
<1>4. debit \in Nat \ {0} /\ qty \in Nat \ {0} /\ n \in Nat
  BY <1>1, LenProperties
<1>6. r = Booked(c, qty)
  BY DEF Booked, near, far, fees
<1>7. /\ r.id = n /\ r.near = c.near /\ r.far = c.far /\ r.qty = qty
      /\ r.debit = debit /\ r.rollPnl = 0 /\ r.pnl = 0 /\ r.nearDays = c.nearDays
      /\ r.closedAt = -1 /\ r.result = "Open" /\ r.notes = "" /\ ~ r.stuck
  OBVIOUS
<1> HIDE DEF debit, n
<1>5. r \in Row
  BY <1>1, <1>2, <1>3, <1>4, NewRow
<1> HIDE DEF r
<1> QED
  BY <1>5, <1>6, <1>7 DEF near, far, debit, n, JustEntered

-----------------------------------------------------------------------------

TypeInv ==
  /\ mode \in {"paper", "backtest"}
  /\ MarketType
  /\ book \in Seq(Row)
  /\ Len(book) <= MaxTrades
  /\ phase \in {"idle", "scan", "monitor"}
  /\ value \in Int /\ todayPnl \in Int
  /\ autos \in [DOMAIN autos -> Nat]
  /\ pending \in [Ids -> Nat] /\ fails \in [Ids -> Nat]

FoundInv == \A c \in found : Candidate(c)

(* The monitor has still to visit monitored positions only. *)
TodoInv == todo \subseteq Positions

Unclosed == {"Open", "Rolled"}

SoundRow(p) ==
  /\ SeriesOf(p.near) = SeriesOf(p.far)
  /\ p.near.expiry < p.far.expiry
  /\ p.result = "Rolled" => p.far.expiry - p.near.expiry >= MinRollGap
  /\ p.result \in Unclosed => p.notes = ""
  /\ p.stuck => p.result \in Unclosed

BookInv == \A i \in DOMAIN book : book[i].id = i /\ SoundRow(book[i])

ShapeInv == TypeInv /\ FoundInv /\ TodoInv /\ BookInv

LEMMA BookIs ==
  ASSUME book \in Seq(Row)
  PROVE  /\ Len(book) \in Nat /\ DOMAIN book = 1..Len(book)
         /\ \A i \in DOMAIN book : book[i] \in Row /\ i \in Nat
         /\ IsFiniteSet(DOMAIN book)
<1>1. Len(book) \in Nat /\ DOMAIN book = 1..Len(book)
  BY LenProperties
<1>2. \A i \in DOMAIN book : book[i] \in Row /\ i \in Nat
  BY <1>1, ElementOfSeq
<1>3. IsFiniteSet(1..Len(book))
  BY <1>1, FS_Interval
<1> QED
  BY <1>1, <1>2, <1>3

LEMMA WriteIs ==
  ASSUME book \in Seq(Row), NEW i \in DOMAIN book, NEW r \in Row, Write(i, r)
  PROVE  /\ book' \in Seq(Row) /\ Len(book') = Len(book) /\ DOMAIN book' = DOMAIN book
         /\ book'[i] = r /\ \A j \in DOMAIN book : j # i => book'[j] = book[j]
<1>1. book' = [book EXCEPT ![i] = r]
  BY DEF Write
<1>2. book \in [1..Len(book) -> Row] /\ Len(book) \in Nat
  BY BookIs, LenProperties
<1>3. book' \in [1..Len(book) -> Row] /\ DOMAIN book' = DOMAIN book
  BY <1>1, <1>2
<1>4. book' \in Seq(Row) /\ Len(book') = Len(book)
  BY <1>2, <1>3, SeqDef, LenProperties
<1> QED
  BY <1>1, <1>2, <1>3, <1>4

LEMMA AppendIs ==
  ASSUME book \in Seq(Row), NEW r \in Row, book' = Append(book, r)
  PROVE  /\ book' \in Seq(Row) /\ Len(book') = Len(book) + 1
         /\ DOMAIN book' = DOMAIN book \cup {Len(book) + 1} /\ Len(book) + 1 \notin DOMAIN book
         /\ book'[Len(book) + 1] = r /\ \A j \in DOMAIN book : book'[j] = book[j]
<1>1. book' \in Seq(Row) /\ Len(book') = Len(book) + 1 /\ Len(book) \in Nat
  BY AppendProperties, LenProperties
<1>2. DOMAIN book' = 1..(Len(book) + 1) /\ DOMAIN book = 1..Len(book)
  BY <1>1, LenProperties
<1>3. \A j \in 1..Len(book) : book'[j] = book[j]
  BY AppendProperties
<1>4. book'[Len(book) + 1] = r
  BY AppendProperties
<1> QED
  BY <1>1, <1>2, <1>3, <1>4

(* Sums over rows are numbers. *)
LEMMA RowSums ==
  ASSUME book \in Seq(Row)
  PROVE  \A S \in SUBSET DOMAIN book :
           IsFiniteSet(S) /\ SumFunctionOnSet(Pnls, S) \in Int /\ SumFunctionOnSet(RollPnls, S) \in Int
<1> SUFFICES ASSUME NEW S \in SUBSET DOMAIN book
             PROVE  IsFiniteSet(S) /\ SumFunctionOnSet(Pnls, S) \in Int /\ SumFunctionOnSet(RollPnls, S) \in Int
  OBVIOUS
<1>1. IsFiniteSet(S)
  BY BookIs, FS_Subset
<1>2. \A i \in S : Pnls[i] \in Int /\ RollPnls[i] \in Int
  BY BookIs, RowNumbers DEF Pnls, RollPnls
<1> QED
  BY <1>1, <1>2, SumInt

LEMMA RiskIs ==
  ASSUME book \in Seq(Row), NEW S \in SUBSET {book[i] : i \in DOMAIN book}
  PROVE  IsFiniteSet(S) /\ RiskInUse(S) \in Int
<1> DEFINE T == {book[i] : i \in DOMAIN book}
<1>1. IsFiniteSet(T)
  <2>1. book \in [DOMAIN book -> T]
    BY BookIs, LenProperties
  <2>2. book \in Surjection(DOMAIN book, T)
    BY <2>1 DEF Surjection
  <2> HIDE DEF T
  <2> QED BY <2>2, BookIs, FS_Surjection
<1>2. IsFiniteSet(S)
  <2> HIDE DEF T
  <2> QED BY <1>1, FS_Subset DEF T
<1> DEFINE f == [p \in S |-> p.debit * p.qty]
<1>3. \A p \in S : p \in Row
  BY BookIs
<1>4. \A p \in S : f[p] \in Int
  BY <1>3, RowNumbers
<1>5. DOMAIN f = S
  OBVIOUS
<1>6. RiskInUse(S) = SumFunctionOnSet(f, S)
  BY <1>5 DEF RiskInUse, SumFunction
<1> HIDE DEF f
<1> QED
  BY <1>2, <1>4, <1>6, SumInt

LEMMA CashIs == ASSUME book \in Seq(Row) PROVE AvailableCash \in Int
<1>1. RealisedToday \in Int
  <2>1. {i \in Closed : DayOf(book[i].closedAt) = Day} \in SUBSET DOMAIN book
    BY DEF Closed
  <2> QED BY <2>1, RowSums DEF RealisedToday
<1>2. UsedMargin \in Int
  <2>1. {book[i] : i \in {j \in DOMAIN book : book[j].result = "Open"}} \in SUBSET {book[i] : i \in DOMAIN book}
    OBVIOUS
  <2> QED BY <2>1, RiskIs DEF UsedMargin
<1> QED
  BY <1>1, <1>2, ClockNumbers DEF AvailableCash, Greatest

-----------------------------------------------------------------------------

Still ==
  /\ book' = book /\ autos' = autos /\ todayPnl' = todayPnl
  /\ clock' \in Nat /\ clock' >= clock
  /\ todo' \subseteq Positions
  /\ fails' = fails \/ fails' = [i \in Ids |-> IF i \in Positions THEN fails[i] ELSE 0]

Enters(c, qty) ==
  /\ c \in found /\ Candidate(c)
  /\ qty = SizeCandidate(c, value, Counted, autos, clock)
  /\ Acceptable(c, qty) /\ Fillable(c)
  /\ book' = Append(book, Booked(c, qty))
  /\ UNCHANGED <<mode, clock, chain, value, autos, todayPnl, todo, fails>>

Rewrites(i, r) ==
  /\ i \in todo
  /\ r \in Row /\ SameTerms(r, book[i])
  /\ Write(i, r)
  /\ todo' = todo \ {i}
  /\ UNCHANGED <<mode, clock, spots, chain>>

(* What a turn that keeps the position holds against it. *)
Counts(i, r) ==
  \/ ~ r.stuck /\ fails' = fails
  \/ ~ r.stuck /\ ~ OutOfRetries(i) /\ fails' = [fails EXCEPT ![i] = @ + 1]
  \/ r.stuck /\ OutOfRetries(i) /\ fails' = [fails EXCEPT ![i] = 0]

Marks(i, r) ==
  /\ Rewrites(i, r)
  /\ Counts(i, r)
  /\ r.near = book[i].near /\ r.rollPnl = book[i].rollPnl /\ r.pnl = book[i].pnl
  /\ r.closedAt = book[i].closedAt /\ r.result = book[i].result /\ r.notes = book[i].notes
  /\ UNCHANGED <<autos, todayPnl>>

Closes(i, r) ==
  /\ Rewrites(i, r)
  /\ r.near = book[i].near /\ r.rollPnl = book[i].rollPnl /\ r.stuck = book[i].stuck
  /\ r.result \in {"TP", "Stop", "RollFailed"} /\ r.closedAt = clock
  /\ r.result = "RollFailed" => NearDaysLeft(book[i]) < book[i].nearDays
  /\ \E worth \in {PositionValue(book[i]), CloseCredit(book[i])} :
       /\ r.pnl = NetPnl(book[i], worth)
       /\ r.notes # "expiry" => worth = PositionValue(book[i])
  /\ todayPnl' = todayPnl + r.pnl
  /\ fails' = [fails EXCEPT ![i] = 0]
  /\ autos' = IF r.notes = "signal" THEN Cool(book[i]) ELSE autos

Rolls(i, r) ==
  /\ Rewrites(i, r)
  /\ r.pnl = book[i].pnl /\ r.closedAt = book[i].closedAt /\ r.result = "Rolled"
  /\ r.notes = book[i].notes /\ r.stuck = book[i].stuck
  /\ NearDaysLeft(book[i]) < book[i].nearDays
  /\ \E c \in RollChoices(book[i]) :
       /\ r.near = c.near
       /\ RollPnl(book[i], c) \in Int /\ RollPnl(book[i], c) <= 0
       /\ r.rollPnl = book[i].rollPnl + RollPnl(book[i], c)
       /\ todayPnl' = todayPnl + RollPnl(book[i], c)
  /\ fails' = [fails EXCEPT ![i] = 0]
  /\ UNCHANGED autos

Effects ==
  \/ Still
  \/ \E c, qty : Enters(c, qty)
  \/ \E i, r : Marks(i, r) \/ Closes(i, r) \/ Rolls(i, r)

LEMMA TodoRow == ASSUME ShapeInv, NEW i \in todo PROVE book[i] \in Row /\ i \in Positions /\ ~ book[i].stuck
BY BookIs DEF ShapeInv, TypeInv, TodoInv, Positions, Live

LEMMA CreditIs == ASSUME NEW p \in Row PROVE CloseCredit(p) \in Int
<1>1. p.debit * p.qty \in Int /\ p.lastSv \in Int
  BY RowNumbers
<1> QED
  BY <1>1 DEF CloseCredit

LEMMA ValuedEffect ==
  ASSUME PricesAreNumbers, ShapeInv, NEW i \in todo, Write(i, ValuedRow(book[i])),
         UNCHANGED <<mode, clock, spots, chain, autos, todayPnl>>, todo' = todo \ {i},
         \/ fails' = fails
         \/ ~ OutOfRetries(i) /\ fails' = [fails EXCEPT ![i] = @ + 1]
  PROVE  Effects
<1> DEFINE r == ValuedRow(book[i])
<1>2. book[i] \in Row /\ ~ book[i].stuck /\ MarketType
  BY TodoRow DEF ShapeInv, TypeInv
<1>3. /\ r \in Row /\ SameTerms(r, book[i]) /\ r.near = book[i].near
      /\ r.rollPnl = book[i].rollPnl /\ r.pnl = book[i].pnl /\ r.closedAt = book[i].closedAt
      /\ r.result = book[i].result /\ r.notes = book[i].notes /\ r.stuck = book[i].stuck
  BY <1>2, ValuedIs
<1>4. Write(i, r)
  OBVIOUS
<1> HIDE DEF r
<1>1. Marks(i, r)
  BY <1>2, <1>3, <1>4 DEF Marks, Rewrites, Counts
<1> QED
  BY <1>1 DEF Effects

LEMMA CloseEffect ==
  ASSUME PricesAreNumbers, ShapeInv, NEW i \in todo,
         NEW worth \in {PositionValue(book[i]), CloseCredit(book[i])}, NEW sv \in Int,
         NEW label \in {"TP", "Stop", "RollFailed"}, NEW why \in {"expiry", "signal", "roll"},
         why # "expiry" => worth = PositionValue(book[i]),
         label = "RollFailed" => NearDaysLeft(book[i]) < book[i].nearDays,
         Close(i, worth, sv, label, why), UNCHANGED <<mode, clock, spots, chain>>, todo' = todo \ {i},
         autos' = IF why = "signal" THEN Cool(book[i]) ELSE autos
  PROVE  Effects
<1> DEFINE r == ClosedRow(book[i], worth, sv, label, why)
<1>1. book[i] \in Row /\ MarketType
  BY TodoRow DEF ShapeInv, TypeInv
<1>2. worth \in Int
  BY <1>1, ValueIs, CreditIs
<1>a. r \in Row /\ SameTerms(r, book[i])
  BY <1>1, <1>2, ClosedIs
<1>b. r.near = book[i].near /\ r.rollPnl = book[i].rollPnl /\ r.pnl = NetPnl(book[i], worth)
  BY <1>1, <1>2, ClosedIs
<1>c. r.closedAt = clock /\ r.result = label /\ r.notes = why /\ r.stuck = book[i].stuck
  BY <1>1, <1>2, ClosedIs
<1>4. Write(i, r) /\ todayPnl' = todayPnl + NetPnl(book[i], worth) /\ fails' = [fails EXCEPT ![i] = 0]
  BY DEF Close, DayPnl
<1> HIDE DEF r
<1>5. Closes(i, r)
  BY <1>a, <1>b, <1>c, <1>4 DEF Closes, Rewrites
<1> QED
  BY <1>5 DEF Effects

(* A step of the engine leaves the rows alone, enters one, or rewrites one in *)
(* one of three ways.                                                        *)
LEMMA StepEffects == ASSUME PricesAreNumbers, ShapeInv, [Next]_vars PROVE Effects
<1> USE DEF vars, market, counters, replay
<1>x. clock \in Nat /\ todo \subseteq Positions
  BY DEF ShapeInv, TypeInv, MarketType, TodoInv
<1>1. ASSUME NEW f \in Frames, MarketMoves(f) PROVE Still
  BY <1>1, <1>x DEF MarketMoves, Still
<1>2. ASSUME NEW f \in Frames, FeedFrame(f) PROVE Still
  <2>1. UNCHANGED <<book, autos, todayPnl, clock, todo, fails>>
    BY <1>2, Zenon DEF FeedFrame
  <2> QED BY <2>1, <1>x DEF Still
<1>3. ASSUME StartScan PROVE Still
  BY <1>3, <1>x DEF StartScan, Still
<1>4. ASSUME StartMonitor PROVE Still
  <2>1. UNCHANGED <<book, autos, todayPnl, clock>> /\ todo' \subseteq Positions
    BY <1>4 DEF StartMonitor
  <2>2. fails' = fails \/ (Positions = {} /\ fails' = [i \in Ids |-> 0])
    BY <1>4 DEF StartMonitor
  <2> QED BY <1>x, <2>1, <2>2 DEF Still
<1>5. ASSUME FinishReplay PROVE Still
  BY <1>5, <1>x DEF FinishReplay, Still
<1>6. ASSUME FinishMonitor PROVE Still
  BY <1>6, <1>x DEF FinishMonitor, Still
<1>7. ASSUME NEW c \in found, TryEntry(c) PROVE Effects
  <2>1. PICK qty \in {SizeCandidate(c, value, Counted, autos, clock)} :
          IF Acceptable(c, qty) /\ Fillable(c) THEN Enter(c, qty) ELSE Skip(c)
    BY <1>7 DEF TryEntry
  <2>2. UNCHANGED <<mode, clock, spots, chain, value, autos, todayPnl, todo, fails>>
    BY <1>7 DEF TryEntry
  <2>3. CASE Acceptable(c, qty) /\ Fillable(c)
    <3>1. book' = Append(book, Booked(c, qty))
      BY <2>1, <2>3 DEF Enter
    <3>2. Candidate(c)
      BY DEF ShapeInv, FoundInv
    <3>3. Enters(c, qty)
      BY <2>1, <2>2, <2>3, <3>1, <3>2 DEF Enters
    <3> QED BY <3>3 DEF Effects
  <2>4. CASE ~ (Acceptable(c, qty) /\ Fillable(c))
    <3>1. Still
      BY <2>1, <2>2, <2>4, <1>x DEF Skip, Still
    <3> QED BY <3>1 DEF Effects
  <2> QED BY <2>3, <2>4
<1>8. ASSUME NEW i \in Ids, PassOver(i) PROVE Still
  BY <1>8, <1>x DEF PassOver, Turn, Still
<1>9. ASSUME NEW i \in Ids, CloseExpired(i) PROVE Effects
  <2> DEFINE worth == CloseCredit(book[i])
  <2>1. i \in todo /\ todo' = todo \ {i} /\ UNCHANGED <<mode, clock, spots, chain>>
    BY <1>9 DEF CloseExpired, Looks, Turn
  <2>2. Close(i, worth, book[i].lastSv, BySign(book[i], worth), "expiry") /\ UNCHANGED autos
    BY <1>9 DEF CloseExpired
  <2>3. book[i].lastSv \in Int
    BY <2>1, TodoRow, RowNumbers
  <2>4. BySign(book[i], worth) \in {"TP", "Stop", "RollFailed"}
    BY DEF BySign
  <2>5. BySign(book[i], worth) # "RollFailed"
    BY DEF BySign
  <2> HIDE DEF worth
  <2> QED BY <2>1, <2>2, <2>3, <2>4, <2>5, CloseEffect DEF worth
<1>10. ASSUME NEW i \in Ids, AwaitConfirmation(i) PROVE Effects
  <2>1. /\ i \in todo /\ todo' = todo \ {i} /\ Write(i, ValuedRow(book[i]))
        /\ UNCHANGED <<mode, clock, spots, chain, autos, todayPnl, fails>>
    BY <1>10 DEF AwaitConfirmation, Looks, Turn
  <2> QED BY <2>1, ValuedEffect
<1>11. ASSUME NEW i \in Ids, CloseOnSignal(i) PROVE Effects
  <2> DEFINE sv == PositionValue(book[i])
             label == IF Verdict(book[i]) = "tp" THEN "TP" ELSE "Stop"
  <2>1. i \in todo /\ todo' = todo \ {i} /\ UNCHANGED <<mode, clock, spots, chain>>
    BY <1>11 DEF CloseOnSignal, Looks, Turn
  <2>2. Close(i, sv, sv, label, "signal") /\ autos' = Cool(book[i])
    BY <1>11 DEF CloseOnSignal
  <2>3. sv \in Int
    BY <2>1, TodoRow, ValueIs DEF ShapeInv, TypeInv
  <2>4. label \in {"TP", "Stop", "RollFailed"} /\ label # "RollFailed"
    OBVIOUS
  <2> HIDE DEF sv, label
  <2> QED BY <2>1, <2>2, <2>3, <2>4, CloseEffect DEF sv
<1>12. ASSUME NEW i \in Ids, GiveUp(i) PROVE Effects
  <2> DEFINE p == IF Expired(i) THEN book[i] ELSE ValuedRow(book[i])
             r == [p EXCEPT !.stuck = TRUE]
  <2>1. i \in todo /\ todo' = todo \ {i} /\ UNCHANGED <<mode, clock, spots, chain, autos, todayPnl>> /\ Write(i, r)
    BY <1>12 DEF GiveUp, Looks, Turn
  <2>7. OutOfRetries(i) /\ fails' = [fails EXCEPT ![i] = 0]
    BY <1>12 DEF GiveUp
  <2>2. book[i] \in Row /\ MarketType
    BY <2>1, TodoRow DEF ShapeInv, TypeInv
  <2>3. /\ p \in Row /\ SameTerms(p, book[i])
        /\ p.near = book[i].near /\ p.rollPnl = book[i].rollPnl /\ p.pnl = book[i].pnl
        /\ p.closedAt = book[i].closedAt /\ p.result = book[i].result /\ p.notes = book[i].notes
    <3>1. CASE Expired(i)
      BY <2>2, <3>1 DEF SameTerms
    <3>2. CASE ~Expired(i)
      BY <2>2, <3>2, ValuedIs
    <3> QED BY <3>1, <3>2
  <2> HIDE DEF p
  <2>4. /\ r \in Row /\ SameTerms(r, p)
        /\ r.near = p.near /\ r.rollPnl = p.rollPnl /\ r.pnl = p.pnl
        /\ r.closedAt = p.closedAt /\ r.result = p.result /\ r.notes = p.notes /\ r.stuck
    BY <2>3, StuckIs
  <2> HIDE DEF r
  <2>5. SameTerms(r, book[i])
    BY <2>3, <2>4 DEF SameTerms
  <2>6. Marks(i, r)
    BY <2>1, <2>3, <2>4, <2>5, <2>7 DEF Marks, Rewrites, Counts
  <2> QED BY <2>6 DEF Effects
<1>13. ASSUME NEW i \in Ids, TryRoll(i) PROVE Effects
  <2>1. i \in todo /\ todo' = todo \ {i} /\ UNCHANGED <<mode, clock, spots, chain, autos>>
    BY <1>13 DEF TryRoll, Looks, Turn
  <2>2. book[i] \in Row /\ MarketType
    BY <2>1, TodoRow DEF ShapeInv, TypeInv
  <2>3. \/ \E c \in RollTo(book[i], RollChoices(book[i])) : RollNear(i, c)
        \/ RollFails(i)
    BY <1>13 DEF TryRoll
  <2>4. CASE RollFails(i)
    <3>1. Write(i, ValuedRow(book[i])) /\ UNCHANGED todayPnl /\ fails' = [fails EXCEPT ![i] = @ + 1]
      BY <2>4 DEF RollFails
    <3>2. ~ OutOfRetries(i)
      BY <1>13 DEF TryRoll
    <3> QED BY <2>1, <3>1, <3>2, ValuedEffect
  <2>5. ASSUME NEW c \in RollTo(book[i], RollChoices(book[i])), RollNear(i, c) PROVE Effects
    <3> DEFINE r == RolledRow(book[i], c)
    <3>1. c \in RollChoices(book[i])
      BY DEF RollTo
    <3>2. Candidate(c)
      BY <2>2, <3>1, RollChoiceIs
    <3>3. /\ r \in Row /\ SameTerms(r, book[i])
          /\ r.near = c.near /\ r.rollPnl = book[i].rollPnl + RollPnl(book[i], c) /\ r.pnl = book[i].pnl
          /\ r.closedAt = book[i].closedAt /\ r.result = "Rolled" /\ r.notes = book[i].notes
          /\ r.stuck = book[i].stuck
          /\ RollPnl(book[i], c) \in Int /\ RollPnl(book[i], c) <= 0
      BY <2>2, <3>2, RolledIs
    <3>4. Write(i, r) /\ todayPnl' = todayPnl + RollPnl(book[i], c) /\ fails' = [fails EXCEPT ![i] = 0]
      BY <2>5 DEF RollNear
    <3>6. NearDaysLeft(book[i]) < book[i].nearDays
      BY <1>13 DEF TryRoll, RollDue
    <3> HIDE DEF r
    <3>5. Rolls(i, r)
      BY <2>1, <3>1, <3>3, <3>4, <3>6 DEF Rolls, Rewrites
    <3> QED BY <3>5 DEF Effects
  <2> QED BY <2>3, <2>4, <2>5
<1>14. ASSUME NEW i \in Ids, CloseUnrollable(i) PROVE Effects
  <2> DEFINE sv == PositionValue(book[i])
  <2>1. i \in todo /\ todo' = todo \ {i} /\ UNCHANGED <<mode, clock, spots, chain>>
    BY <1>14 DEF CloseUnrollable, Looks, Turn
  <2>2. Close(i, sv, sv, "RollFailed", "roll") /\ UNCHANGED autos
    BY <1>14 DEF CloseUnrollable
  <2>3. sv \in Int
    BY <2>1, TodoRow, ValueIs DEF ShapeInv, TypeInv
  <2>4. NearDaysLeft(book[i]) < book[i].nearDays
    BY <1>14 DEF CloseUnrollable, RollDue
  <2> HIDE DEF sv
  <2> QED BY <2>1, <2>2, <2>3, <2>4, CloseEffect DEF sv
<1>15. ASSUME NEW i \in Ids, Hold(i) PROVE Effects
  <2>1. /\ i \in todo /\ todo' = todo \ {i} /\ Write(i, ValuedRow(book[i]))
        /\ UNCHANGED <<mode, clock, spots, chain, autos, todayPnl, fails>>
    BY <1>15 DEF Hold, Looks, Turn
  <2> QED BY <2>1, ValuedEffect
<1>16. ASSUME UNCHANGED vars PROVE Still
  BY <1>16, <1>x DEF Still
<1>17. Still => Effects
  BY DEF Effects
<1> QED
  BY <1>1, <1>2, <1>3, <1>4, <1>5, <1>6, <1>7, <1>8, <1>9, <1>10, <1>11, <1>12, <1>13, <1>14,
     <1>15, <1>16, <1>17 DEF Next, Ticks, Monitors

LEMMA RewriteIs ==
  ASSUME ShapeInv, NEW i, NEW r, Rewrites(i, r)
  PROVE  /\ i \in Positions /\ i \in DOMAIN book /\ book[i] \in Row
         /\ book' \in Seq(Row) /\ Len(book') = Len(book) /\ DOMAIN book' = DOMAIN book
         /\ book'[i] = r /\ \A j \in DOMAIN book : j # i => book'[j] = book[j]
<1>1. i \in todo /\ r \in Row /\ Write(i, r) /\ book \in Seq(Row)
  BY DEF Rewrites, ShapeInv, TypeInv
<1>2. i \in Positions /\ book[i] \in Row
  BY <1>1, TodoRow
<1>3. i \in DOMAIN book
  BY <1>2 DEF Positions
<1> QED
  BY <1>1, <1>2, <1>3, WriteIs

LEMMA EntryIs ==
  ASSUME ShapeInv, NEW c, NEW qty, Enters(c, qty)
  PROVE  /\ qty \in Nat /\ qty > 0
         /\ Booked(c, qty) \in Row
         /\ book' \in Seq(Row) /\ Len(book') = Len(book) + 1 /\ Len(book') <= MaxTrades
         /\ DOMAIN book' = DOMAIN book \cup {Len(book) + 1} /\ Len(book) + 1 \notin DOMAIN book
         /\ book'[Len(book) + 1] = Booked(c, qty) /\ \A j \in DOMAIN book : book'[j] = book[j]
<1>1. Candidate(c) /\ Fillable(c) /\ book \in Seq(Row) /\ book' = Append(book, Booked(c, qty))
  BY DEF Enters, ShapeInv, TypeInv
<1>2. qty = SizeCandidate(c, value, Counted, autos, clock) /\ qty > 0
  BY DEF Enters, Acceptable
<1>3. RiskInUse(Counted) \in Int
  <2>1. Counted \in SUBSET {book[i] : i \in DOMAIN book}
    BY DEF Counted, OpenPositions, Positions
  <2> QED BY <1>1, <2>1, RiskIs
<1>4. value \in Int
  BY DEF ShapeInv, TypeInv
<1>5. qty \in Nat
  BY <1>1, <1>2, <1>3, <1>4, SizedIs
<1>6. Booked(c, qty) \in Row
  <2>1. JustEntered(Booked(c, qty), c, qty)
    BY <1>1, <1>2, <1>5, BookedIs
  <2> QED BY <2>1 DEF JustEntered
<1>7. Len(book) < MaxTrades /\ Len(book) \in Nat
  BY <1>1, LenProperties DEF Fillable
<1>8. /\ book' \in Seq(Row) /\ Len(book') = Len(book) + 1
      /\ DOMAIN book' = DOMAIN book \cup {Len(book) + 1} /\ Len(book) + 1 \notin DOMAIN book
      /\ book'[Len(book) + 1] = Booked(c, qty) /\ \A j \in DOMAIN book : book'[j] = book[j]
  BY <1>1, <1>6, AppendIs
<1> QED
  BY <1>2, <1>5, <1>6, <1>7, <1>8, ClockNumbers

LEMMA CoolIs ==
  ASSUME autos \in [DOMAIN autos -> Nat], clock \in Nat, NEW p
  PROVE  /\ Cool(p) \in [DOMAIN Cool(p) -> Nat]
         /\ DOMAIN Cool(p) = DOMAIN autos \cup {SeriesOf(p.near)}
         /\ Cool(p)[SeriesOf(p.near)] = clock
         /\ \A s \in DOMAIN autos : s # SeriesOf(p.near) => Cool(p)[s] = autos[s]
BY DEF Cool

(* The rows and the figures that go with them keep their types. *)
LEMMA BookTypeNext ==
  ASSUME PricesAreNumbers, ShapeInv, Effects
  PROVE  /\ book' \in Seq(Row) /\ Len(book') <= MaxTrades
         /\ todayPnl' \in Int /\ autos' \in [DOMAIN autos' -> Nat]
<1>1. /\ book \in Seq(Row) /\ Len(book) <= MaxTrades /\ todayPnl \in Int
      /\ autos \in [DOMAIN autos -> Nat] /\ clock \in Nat /\ MarketType
  BY DEF ShapeInv, TypeInv, MarketType
<1>2. CASE Still
  BY <1>1, <1>2 DEF Still
<1>3. ASSUME NEW c, NEW qty, Enters(c, qty)
      PROVE  /\ book' \in Seq(Row) /\ Len(book') <= MaxTrades
             /\ todayPnl' \in Int /\ autos' \in [DOMAIN autos' -> Nat]
  <2>1. UNCHANGED <<todayPnl, autos>>
    BY <1>3 DEF Enters
  <2> QED BY <1>1, <1>3, <2>1, EntryIs
<1>4. ASSUME NEW i, NEW r, Rewrites(i, r)
      PROVE  book' \in Seq(Row) /\ Len(book') <= MaxTrades
  BY <1>1, <1>4, RewriteIs
<1>5. ASSUME NEW i, NEW r, Marks(i, r)
      PROVE  todayPnl' \in Int /\ autos' \in [DOMAIN autos' -> Nat] /\ Rewrites(i, r)
  BY <1>1, <1>5 DEF Marks
<1>6. ASSUME NEW i, NEW r, Closes(i, r)
      PROVE  todayPnl' \in Int /\ autos' \in [DOMAIN autos' -> Nat] /\ Rewrites(i, r)
  <2>1. r \in Row /\ Rewrites(i, r) /\ todayPnl' = todayPnl + r.pnl
    BY <1>6 DEF Closes, Rewrites
  <2>2. todayPnl' \in Int
    BY <1>1, <2>1, RowNumbers
  <2>3. autos' = Cool(book[i]) \/ autos' = autos
    BY <1>6 DEF Closes
  <2>4. autos' \in [DOMAIN autos' -> Nat]
    BY <1>1, <2>3, CoolIs
  <2> QED BY <2>1, <2>2, <2>4
<1>7. ASSUME NEW i, NEW r, Rolls(i, r)
      PROVE  todayPnl' \in Int /\ autos' \in [DOMAIN autos' -> Nat] /\ Rewrites(i, r)
  BY <1>1, <1>7 DEF Rolls
<1> QED
  BY <1>2, <1>3, <1>4, <1>5, <1>6, <1>7 DEF Effects

(* Every row stays sound: a roll keeps to the series and to the far leg.     *)
LEMMA BookNext == ASSUME PricesAreNumbers, ShapeInv, Effects PROVE BookInv'
<1>1. /\ \A i \in DOMAIN book : book[i].id = i /\ SoundRow(book[i])
      /\ MarketType
  BY DEF ShapeInv, BookInv, TypeInv
<1>2. CASE Still
  BY <1>1, <1>2 DEF Still, BookInv
<1>3. ASSUME NEW c, NEW qty, Enters(c, qty) PROVE BookInv'
  <2> DEFINE n == Len(book) + 1
             r == Booked(c, qty)
  <2>1. /\ qty \in Nat /\ qty > 0 /\ DOMAIN book' = DOMAIN book \cup {n}
        /\ book'[n] = r /\ \A j \in DOMAIN book : book'[j] = book[j]
    BY <1>3, EntryIs
  <2>2. Candidate(c) /\ Fillable(c) /\ book \in Seq(Row)
    BY <1>3 DEF Enters, ShapeInv, TypeInv
  <2>3. r.id = n /\ r.near = c.near /\ r.far = c.far /\ r.result = "Open" /\ r.notes = "" /\ ~ r.stuck
    <3>1. r.id = n /\ r.near = c.near /\ r.far = c.far
      <4>1. JustEntered(Booked(c, qty), c, qty)
        BY <2>1, <2>2, BookedIs
      <4> QED BY <4>1 DEF JustEntered
    <3>2. r.result = "Open" /\ r.notes = "" /\ ~ r.stuck
      <4>1. JustEntered(Booked(c, qty), c, qty)
        BY <2>1, <2>2, BookedIs
      <4> QED BY <4>1 DEF JustEntered
    <3> QED BY <3>1, <3>2
  <2> HIDE DEF r
  <2>4. SoundRow(r)
    BY <2>2, <2>3 DEF SoundRow, Candidate
  <2> HIDE DEF n
  <2>5. \A i \in DOMAIN book' : book'[i].id = i /\ SoundRow(book'[i])
    BY <1>1, <2>1, <2>3, <2>4
  <2> QED BY <2>5 DEF BookInv
<1>4. ASSUME NEW i, NEW r, Rewrites(i, r), SoundRow(r) PROVE BookInv'
  <2>1. /\ DOMAIN book' = DOMAIN book /\ i \in DOMAIN book
        /\ book'[i] = r /\ \A j \in DOMAIN book : j # i => book'[j] = book[j]
    BY <1>4, RewriteIs
  <2>2. r.id = i
    BY <1>1, <1>4, <2>1 DEF Rewrites, SameTerms
  <2>3. \A j \in DOMAIN book' : book'[j].id = j /\ SoundRow(book'[j])
    BY <1>1, <1>4, <2>1, <2>2
  <2> QED BY <2>3 DEF BookInv
<1>5. ASSUME NEW i, NEW r, Marks(i, r) PROVE Rewrites(i, r) /\ SoundRow(r)
  <2>1. Rewrites(i, r) /\ r.near = book[i].near /\ r.result = book[i].result /\ r.notes = book[i].notes
    BY <1>5 DEF Marks
  <2>2. i \in Positions /\ SoundRow(book[i]) /\ r.far = book[i].far
    BY <1>1, <2>1, RewriteIs DEF Rewrites, SameTerms
  <2>3. r.result \in Unclosed
    BY <2>1, <2>2 DEF Positions, Live, Unclosed
  <2> QED BY <2>1, <2>2, <2>3 DEF SoundRow
<1>6. ASSUME NEW i, NEW r, Closes(i, r) PROVE Rewrites(i, r) /\ SoundRow(r)
  <2>1. /\ Rewrites(i, r) /\ r.near = book[i].near /\ r.result \in {"TP", "Stop", "RollFailed"}
        /\ r.stuck = book[i].stuck
    BY <1>6 DEF Closes
  <2>2. i \in Positions /\ SoundRow(book[i]) /\ r.far = book[i].far
    BY <1>1, <2>1, RewriteIs DEF Rewrites, SameTerms
  <2>3. ~ r.stuck /\ r.result \notin Unclosed /\ r.result # "Rolled"
    BY <2>1, <2>2 DEF Positions, Live, Unclosed
  <2> QED BY <2>1, <2>2, <2>3 DEF SoundRow
<1>7. ASSUME NEW i, NEW r, Rolls(i, r) PROVE Rewrites(i, r) /\ SoundRow(r)
  <2>1. Rewrites(i, r) /\ r.result = "Rolled" /\ r.notes = book[i].notes /\ r.stuck = book[i].stuck
    BY <1>7 DEF Rolls
  <2>2. i \in Positions /\ SoundRow(book[i]) /\ r.far = book[i].far /\ book[i] \in Row
    BY <1>1, <2>1, RewriteIs DEF Rewrites, SameTerms
  <2>3. PICK c \in RollChoices(book[i]) : r.near = c.near
    BY <1>7 DEF Rolls
  <2>4. /\ Candidate(c) /\ SeriesOf(c.near) = SeriesOf(book[i].near) /\ c.far = book[i].far
        /\ book[i].far.expiry - c.near.expiry >= MinRollGap
    BY <1>1, <2>2, RollChoiceIs
  <2>5. r.near.expiry < r.far.expiry
    BY <2>2, <2>3, <2>4 DEF Candidate
  <2>6. r.notes = "" /\ ~ r.stuck
    BY <2>1, <2>2 DEF SoundRow, Positions, Live, Unclosed
  <2> QED BY <2>1, <2>2, <2>3, <2>4, <2>5, <2>6 DEF SoundRow
<1> QED
  BY <1>2, <1>3, <1>4, <1>5, <1>6, <1>7 DEF Effects

LEMMA TodoNext == ASSUME ShapeInv, Effects PROVE TodoInv'
<1>1. todo \subseteq Positions
  BY DEF ShapeInv, TodoInv
<1>2. CASE Still
  BY <1>2 DEF Still, TodoInv, Positions, Live
<1>3. ASSUME NEW c, NEW qty, Enters(c, qty) PROVE TodoInv'
  <2>1. /\ DOMAIN book \subseteq DOMAIN book' /\ \A j \in DOMAIN book : book'[j] = book[j]
        /\ todo' = todo
    BY <1>3, EntryIs DEF Enters
  <2> QED BY <1>1, <2>1 DEF TodoInv, Positions, Live
<1>4. ASSUME NEW i, NEW r, Rewrites(i, r) PROVE TodoInv'
  <2>1. /\ DOMAIN book' = DOMAIN book /\ \A j \in DOMAIN book : j # i => book'[j] = book[j]
        /\ todo' = todo \ {i}
    BY <1>4, RewriteIs DEF Rewrites
  <2> QED BY <1>1, <2>1 DEF TodoInv, Positions, Live
<1> QED
  BY <1>2, <1>3, <1>4 DEF Effects, Marks, Closes, Rolls

LEMMA FrameIs == ASSUME NEW f \in Frames PROVE f.spots \in [Asset -> Nat] /\ ChainOK(f.quotes)
BY FramesAssumption DEF FramesAssumption, ChainOK

(* The market keeps its type, whatever frames come. *)
LEMMA MarketNext == ASSUME ShapeInv, [Next]_vars PROVE MarketType'
<1>1. MarketType
  BY DEF ShapeInv, TypeInv
<1>2. ASSUME NEW f \in Frames, MarketMoves(f) PROVE MarketType'
  <2>1. clock' \in Nat
    BY <1>1, <1>2 DEF MarketMoves, MarketType
  <2>2. spots' \in [Asset -> Nat]
    BY <1>1, <1>2, FrameIs DEF MarketMoves, MarketType
  <2>3. chain' = Restrict(f.quotes, Unexpired(f.quotes, clock'))
    BY <1>2 DEF MarketMoves
  <2> DEFINE U == Unexpired(f.quotes, clock')
  <2>4. U \subseteq DOMAIN f.quotes /\ chain' = [i \in U |-> f.quotes[i]]
    BY <2>3 DEF Unexpired, Restrict
  <2> HIDE DEF U
  <2>5. ChainOK(f.quotes)
    BY FrameIs
  <2>6. (ChainOK(chain))'
    BY <2>4, <2>5 DEF ChainOK
  <2> QED BY <2>1, <2>2, <2>6 DEF MarketType
<1>3. ASSUME NEW f \in Frames, FeedFrame(f) PROVE MarketType'
  <2>1. clock' = clock
    BY <1>3, Zenon DEF FeedFrame
  <2>2. spots' = [a \in Asset |-> IF f.spots[a] > 0 THEN f.spots[a] ELSE spots[a]]
    BY <1>3, Zenon DEF FeedFrame
  <2>3. spots' \in [Asset -> Nat]
    BY <1>1, <2>2, FrameIs DEF MarketType
  <2> DEFINE unsized(q) == [q EXCEPT !.bidSize = 0, !.askSize = 0]
  <2>4. \A q \in Quote : unsized(q) \in Quote
    BY DEF Quote
  <2>5. chain' = [i \in DOMAIN f.quotes \cup DOMAIN chain |->
                    IF i \in DOMAIN f.quotes THEN unsized(f.quotes[i]) ELSE chain[i]]
    BY <1>3, Zenon DEF FeedFrame
  <2> HIDE DEF unsized
  <2>6. (ChainOK(chain))'
    BY <1>1, <2>4, <2>5, FrameIs DEF MarketType, ChainOK
  <2> QED BY <1>1, <2>1, <2>3, <2>6 DEF MarketType
<1>4. UNCHANGED market => MarketType'
  BY <1>1 DEF market, MarketType, ChainOK
<1>5. ASSUME StartScan \/ StartMonitor \/ FinishReplay \/ FinishMonitor PROVE UNCHANGED market
  BY <1>5 DEF StartScan, StartMonitor, FinishReplay, FinishMonitor
<1>6. ASSUME NEW c, TryEntry(c) PROVE UNCHANGED market
  BY <1>6 DEF TryEntry
<1>7. ASSUME NEW i, Monitors(i) PROVE UNCHANGED market
  <2>1. Turn(i)
    BY <1>7 DEF Monitors, PassOver, CloseExpired, AwaitConfirmation, CloseOnSignal, GiveUp, TryRoll,
                CloseUnrollable, Hold, Looks
  <2> QED BY <2>1 DEF Turn
<1>8. UNCHANGED vars => UNCHANGED market
  BY DEF vars
<1> QED
  BY <1>2, <1>3, <1>4, <1>5, <1>6, <1>7, <1>8 DEF Next, Ticks

(* What a scan works through are candidates. *)
LEMMA FoundNext == ASSUME PricesAreNumbers, ShapeInv, [Next]_vars PROVE FoundInv'
<1>1. FoundInv /\ MarketType
  BY DEF ShapeInv, TypeInv
<1>2. UNCHANGED found => FoundInv'
  BY <1>1 DEF FoundInv
<1>3. ASSUME NEW f \in Frames, MarketMoves(f) \/ FeedFrame(f) PROVE UNCHANGED found
  <2>1. MarketMoves(f) => UNCHANGED found
    BY Zenon DEF MarketMoves
  <2>2. FeedFrame(f) => UNCHANGED found
    BY Zenon DEF FeedFrame
  <2> QED BY <1>3, <2>1, <2>2
<1>4. ASSUME StartScan PROVE FoundInv'
  <2>1. found' = {} \/ found' = Scan(chain, spots, Day, Asset)
    BY <1>4 DEF StartScan
  <2>2. \A c \in Scan(chain, spots, Day, Asset) : Candidate(c)
    BY <1>1, FoundIs
  <2> QED BY <2>1, <2>2 DEF FoundInv
<1>5. ASSUME StartMonitor \/ FinishReplay \/ FinishMonitor PROVE UNCHANGED found
  BY <1>5 DEF StartMonitor, FinishReplay, FinishMonitor
<1>6. ASSUME NEW c, TryEntry(c) PROVE FoundInv'
  <2>1. found' \subseteq found
    BY <1>6 DEF TryEntry, Enter, Skip
  <2> QED BY <1>1, <2>1 DEF FoundInv
<1>7. ASSUME NEW i, Monitors(i) PROVE UNCHANGED found
  <2>1. Turn(i)
    BY <1>7 DEF Monitors, PassOver, CloseExpired, AwaitConfirmation, CloseOnSignal, GiveUp, TryRoll,
                CloseUnrollable, Hold, Looks
  <2> QED BY <2>1 DEF Turn
<1>8. UNCHANGED vars => UNCHANGED found
  BY DEF vars
<1> QED
  BY <1>2, <1>3, <1>4, <1>5, <1>6, <1>7, <1>8 DEF Next, Ticks

CountersType == pending \in [Ids -> Nat] /\ fails \in [Ids -> Nat]

LEMMA CountersNext == ASSUME ShapeInv, [Next]_vars PROVE CountersType'
<1>1. CountersType
  BY DEF ShapeInv, TypeInv, CountersType
<1>2. UNCHANGED counters => CountersType'
  BY <1>1 DEF counters, CountersType
<1>3. ASSUME NEW f \in Frames, MarketMoves(f) \/ FeedFrame(f) PROVE UNCHANGED counters
  <2>1. MarketMoves(f) => UNCHANGED counters
    BY Zenon DEF MarketMoves
  <2>2. FeedFrame(f) => UNCHANGED counters
    BY Zenon DEF FeedFrame
  <2> QED BY <1>3, <2>1, <2>2
<1>4. ASSUME StartScan \/ FinishReplay PROVE UNCHANGED counters
  BY <1>4 DEF StartScan, FinishReplay
<1>5. ASSUME StartMonitor PROVE CountersType'
  <2>1. UNCHANGED counters \/ (fails' = [i \in Ids |-> 0] /\ pending' = [i \in Ids |-> 0])
    BY <1>5 DEF StartMonitor
  <2> QED BY <1>2, <2>1 DEF CountersType
<1>6. ASSUME FinishMonitor PROVE CountersType'
  <2>1. /\ fails' = [i \in Ids |-> IF i \in Positions THEN fails[i] ELSE 0]
        /\ pending' = [i \in Ids |-> IF i \in Positions THEN pending[i] ELSE 0]
    BY <1>6 DEF FinishMonitor
  <2> QED BY <1>1, <2>1 DEF CountersType
<1>7. ASSUME NEW c, TryEntry(c) PROVE UNCHANGED counters
  BY <1>7 DEF TryEntry
<1>8. ASSUME NEW i \in Ids, Monitors(i) PROVE CountersType'
  <2>1. /\ pending' \in {pending, [pending EXCEPT ![i] = @ + 1], [pending EXCEPT ![i] = 0]}
        /\ fails' \in {fails, [fails EXCEPT ![i] = @ + 1], [fails EXCEPT ![i] = 0]}
    BY <1>8 DEF Monitors, PassOver, CloseExpired, AwaitConfirmation, CloseOnSignal, GiveUp, TryRoll,
                CloseUnrollable, Hold, Close, RollNear, RollFails, counters
  <2> QED BY <1>1, <2>1 DEF CountersType
<1>9. UNCHANGED vars => UNCHANGED counters
  BY DEF vars
<1> QED
  BY <1>2, <1>3, <1>4, <1>5, <1>6, <1>7, <1>8, <1>9 DEF Next, Ticks

ControlType == mode \in {"paper", "backtest"} /\ phase \in {"idle", "scan", "monitor"} /\ value \in Int

LEMMA ControlNext == ASSUME ShapeInv, [Next]_vars PROVE ControlType'
<1>1. ControlType /\ book \in Seq(Row)
  BY DEF ShapeInv, TypeInv, ControlType
<1>2. UNCHANGED <<mode, phase, value>> => ControlType'
  BY <1>1 DEF ControlType
<1>3. ASSUME NEW f \in Frames, MarketMoves(f) \/ FeedFrame(f) PROVE UNCHANGED <<mode, phase, value>>
  <2>1. MarketMoves(f) => UNCHANGED <<mode, phase, value>>
    BY Zenon DEF MarketMoves
  <2>2. FeedFrame(f) => UNCHANGED <<mode, phase, value>>
    BY Zenon DEF FeedFrame
  <2> QED BY <1>3, <2>1, <2>2
<1>4. ASSUME StartScan PROVE ControlType'
  <2>1. /\ mode' = mode /\ phase' \in {"idle", "scan"}
        /\ value' \in {value, IF mode = "paper" THEN AvailableCash ELSE value}
    BY <1>4 DEF StartScan
  <2>2. AvailableCash \in Int
    BY <1>1, CashIs
  <2> QED BY <1>1, <2>1, <2>2 DEF ControlType
<1>5. ASSUME StartMonitor \/ FinishReplay \/ FinishMonitor PROVE ControlType'
  <2>1. UNCHANGED <<mode, value>> /\ phase' \in {phase, "idle", "monitor"}
    BY <1>5 DEF StartMonitor, FinishReplay, FinishMonitor
  <2> QED BY <1>1, <2>1 DEF ControlType
<1>7. ASSUME NEW c, TryEntry(c) PROVE ControlType'
  <2>1. UNCHANGED <<mode, value>> /\ phase' \in {phase, "idle"}
    BY <1>7 DEF TryEntry
  <2> QED BY <1>1, <2>1 DEF ControlType
<1>8. ASSUME NEW i \in Ids, Monitors(i) PROVE UNCHANGED <<mode, phase, value>>
  <2>1. Turn(i)
    BY <1>8 DEF Monitors, PassOver, CloseExpired, AwaitConfirmation, CloseOnSignal, GiveUp, TryRoll,
                CloseUnrollable, Hold, Looks
  <2> QED BY <2>1 DEF Turn
<1>9. UNCHANGED vars => UNCHANGED <<mode, phase, value>>
  BY DEF vars
<1> QED
  BY <1>2, <1>3, <1>4, <1>5, <1>7, <1>8, <1>9 DEF Next, Ticks

LEMMA ShapeInit == ASSUME Init PROVE ShapeInv
<1>1. mode \in {"paper", "backtest"} /\ value \in Int /\ todayPnl \in Int
  BY StrategyAssumption, ClockNumbers DEF Init, StrategyAssumption
<1>2. MarketType
  <2>1. clock \in Nat /\ spots \in [Asset -> Nat]
    BY ClockNumbers DEF Init
  <2>2. ChainOK(chain)
    BY DEF Init, ChainOK
  <2> QED BY <2>1, <2>2 DEF MarketType
<1>3. book \in Seq(Row) /\ Len(book) = 0 /\ DOMAIN book = {}
  BY DEF Init
<1>4. autos \in [DOMAIN autos -> Nat]
  BY DEF Init
<1>5. pending \in [Ids -> Nat] /\ fails \in [Ids -> Nat] /\ phase \in {"idle", "scan", "monitor"}
  BY DEF Init
<1>6. FoundInv /\ TodoInv /\ BookInv
  BY <1>3 DEF Init, FoundInv, TodoInv, BookInv
<1> QED
  BY <1>1, <1>2, <1>3, <1>4, <1>5, <1>6, ClockNumbers DEF ShapeInv, TypeInv

LEMMA ShapeNext == ASSUME PricesAreNumbers, ShapeInv, [Next]_vars PROVE ShapeInv'
<1>1. Effects
  BY StepEffects
<1>2. /\ book' \in Seq(Row) /\ Len(book') <= MaxTrades
      /\ todayPnl' \in Int /\ autos' \in [DOMAIN autos' -> Nat]
  BY <1>1, BookTypeNext
<1>3. BookInv' /\ TodoInv' /\ FoundInv' /\ MarketType' /\ CountersType' /\ ControlType'
  BY <1>1, BookNext, TodoNext, FoundNext, MarketNext, CountersNext, ControlNext
<1> QED
  BY <1>2, <1>3 DEF ShapeInv, TypeInv, CountersType, ControlType

(* Types and the soundness of every row, and that the monitor's list holds   *)
(* monitored positions (decision.py 605-1205): what the other proofs use.    *)
THEOREM ShapeHolds == ASSUME PricesAreNumbers PROVE Spec => []ShapeInv
<1>1. ShapeInv /\ [Next]_vars => ShapeInv'
  BY ShapeNext
<1> QED
  BY <1>1, ShapeInit, PTL DEF Spec

(* StaysACalendar (decision.py 1269-1391): through all its rolls a position is *)
(* one series, with the near leg before the far one.                           *)
THEOREM CalendarHolds == ASSUME PricesAreNumbers PROVE Spec => []StaysACalendar
<1>1. ShapeInv => StaysACalendar
  BY DEF ShapeInv, BookInv, SoundRow, StaysACalendar
<1> QED
  BY <1>1, ShapeHolds, PTL

-----------------------------------------------------------------------------

(* A rewritten row keeps its series, and only a monitored one is rewritten.  *)
LEMMA RewriteKeepsSeries ==
  ASSUME PricesAreNumbers, ShapeInv, NEW i, NEW r, Marks(i, r) \/ Closes(i, r) \/ Rolls(i, r)
  PROVE  /\ Rewrites(i, r) /\ Positions' \subseteq Positions
         /\ \A j \in DOMAIN book : SeriesOf(book'[j].near) = SeriesOf(book[j].near)
<1>1. Rewrites(i, r)
  BY DEF Marks, Closes, Rolls
<1>2. /\ i \in Positions /\ i \in DOMAIN book /\ book[i] \in Row
      /\ DOMAIN book' = DOMAIN book
      /\ book'[i] = r /\ \A j \in DOMAIN book : j # i => book'[j] = book[j]
  BY <1>1, RewriteIs
<1>3. SeriesOf(r.near) = SeriesOf(book[i].near)
  <2>1. CASE r.near = book[i].near
    BY <2>1
  <2>2. CASE Rolls(i, r)
    <3>1. PICK c \in RollChoices(book[i]) : r.near = c.near
      BY <2>2 DEF Rolls
    <3>2. MarketType
      BY DEF ShapeInv, TypeInv
    <3> QED BY <1>2, <3>1, <3>2, RollChoiceIs
  <2> QED BY <2>1, <2>2 DEF Marks, Closes
<1>4. Positions' \subseteq Positions
  BY <1>2 DEF Positions, Live
<1> QED
  BY <1>1, <1>2, <1>3, <1>4

LEMMA ApartNext ==
  ASSUME PricesAreNumbers, ShapeInv, NoCorrelatedPair, Effects
  PROVE  NoCorrelatedPair'
<1>1. book \in Seq(Row)
  BY DEF ShapeInv, TypeInv
<1>2. CASE Still
  BY <1>2 DEF Still, NoCorrelatedPair, Positions, Live
<1>3. ASSUME NEW c, NEW qty, Enters(c, qty) PROVE NoCorrelatedPair'
  <2> DEFINE n == Len(book) + 1
  <2>1. /\ qty \in Nat /\ qty > 0 /\ DOMAIN book' = DOMAIN book \cup {n}
        /\ book'[n] = Booked(c, qty) /\ \A j \in DOMAIN book : book'[j] = book[j]
    BY <1>3, EntryIs
  <2>2. Candidate(c) /\ Fillable(c) /\ qty = SizeCandidate(c, value, Counted, autos, clock) /\ value \in Int
    BY <1>3 DEF Enters, ShapeInv, TypeInv
  <2>3. book'[n].near = c.near
    <3>1. Booked(c, qty).near = c.near
      <4>1. JustEntered(Booked(c, qty), c, qty)
        BY <1>1, <2>1, <2>2, BookedIs
      <4> QED BY <4>1 DEF JustEntered
    <3> QED BY <2>1, <3>1
  <2>4. RiskInUse(Counted) \in Int
    BY <1>1, RiskIs DEF Counted, OpenPositions, Positions
  <2>5. \A p \in Counted : ~ Correlated(c, p)
    BY <2>1, <2>2, <2>4, SizedIs
  <2>6. \A j \in DOMAIN book : j < n
    BY <1>1, BookIs
  <2>7. n \in Nat
    BY <1>1, BookIs
  <2> SUFFICES ASSUME NEW i \in Positions', NEW j \in Positions', i < j,
                      book'[i].near.asset = book'[j].near.asset, book'[i].near.type = book'[j].near.type
               PROVE  100 * Distance(book'[i].near.strike, book'[j].near.strike)
                        > CorrelationPct * book'[i].near.strike
    BY DEF NoCorrelatedPair
  <2>8. i \in DOMAIN book
    <3>1. i \in DOMAIN book' /\ j \in DOMAIN book'
      BY DEF Positions
    <3>2. i = n => j \in DOMAIN book
      BY <2>7, <3>1, <2>1
    <3>3. i # n
      BY <2>6, <2>7, <3>2, <1>1, BookIs
    <3> QED BY <3>1, <3>3, <2>1
  <2>9. i \in Positions /\ book'[i] = book[i] /\ book[i] \in Row
    BY <2>8, <2>1, <1>1, BookIs DEF Positions, Live
  <2>10. CASE j \in DOMAIN book
    <3>1. j \in Positions /\ book'[j] = book[j]
      BY <2>10, <2>1 DEF Positions, Live
    <3> QED BY <2>9, <3>1 DEF NoCorrelatedPair
  <2>11. CASE j = n
    <3>1. book[i] \in Counted
      BY <2>9 DEF Counted, OpenPositions
    <3>2. /\ book[i].near.strike \in Nat /\ book[i].near.strike > 0 /\ c.near.strike \in Nat
      BY <2>2, <2>9, RowNumbers DEF Candidate, Instrument
    <3>3. ~ (100 * Distance(c.near.strike, book[i].near.strike) <= CorrelationPct * book[i].near.strike)
      BY <2>3, <2>5, <2>9, <2>11, <3>1, <3>2 DEF Correlated
    <3>4. /\ Distance(c.near.strike, book[i].near.strike) \in Nat
          /\ Distance(c.near.strike, book[i].near.strike) = Distance(book[i].near.strike, c.near.strike)
      BY <3>2, DistanceIs
    <3>5. CorrelationPct * book[i].near.strike \in Nat
      BY <3>2, SizerNumbers
    <3>6. 100 * Distance(book[i].near.strike, c.near.strike) > CorrelationPct * book[i].near.strike
      BY <3>3, <3>4, <3>5
    <3> QED BY <2>3, <2>9, <2>11, <3>6
  <2>12. j \in DOMAIN book \/ j = n
    BY <2>1 DEF Positions
  <2> QED BY <2>10, <2>11, <2>12
<1>4. ASSUME NEW i, NEW r, Marks(i, r) \/ Closes(i, r) \/ Rolls(i, r) PROVE NoCorrelatedPair'
  <2>1. /\ Positions' \subseteq Positions
        /\ \A j \in DOMAIN book : SeriesOf(book'[j].near) = SeriesOf(book[j].near)
    BY <1>4, RewriteKeepsSeries
  <2>2. \A j \in Positions' : /\ book'[j].near.asset = book[j].near.asset
                              /\ book'[j].near.type = book[j].near.type
                              /\ book'[j].near.strike = book[j].near.strike
    BY <2>1 DEF Positions, SeriesOf
  <2> QED BY <2>1, <2>2 DEF NoCorrelatedPair
<1> QED
  BY <1>2, <1>3, <1>4 DEF Effects

(* NoCorrelatedPair (sizer.py 124-142): no history of scans, rolls, closes and *)
(* market moves leaves two monitored positions on strikes that the sizer       *)
(* calls correlated.                                                           *)
THEOREM ApartHolds == ASSUME PricesAreNumbers PROVE Spec => []NoCorrelatedPair
<1>1. Init => NoCorrelatedPair
  BY DEF Init, NoCorrelatedPair, Positions
<1>2. ShapeInv /\ NoCorrelatedPair /\ [Next]_vars => NoCorrelatedPair'
  BY StepEffects, ApartNext
<1> QED
  BY <1>1, <1>2, ShapeHolds, PTL DEF Spec

-----------------------------------------------------------------------------

(* The two sums of the ledger. *)
ClosedPnl == SumFunctionOnSet(Pnls, Closed)
RolledPnl == SumFunctionOnSet(RollPnls, DOMAIN book)

(* The sum that decides on the halt has the rolls of the closed rows twice, once by    *)
(* themselves and once in their net P&L, and no roll has made anything.                *)
LedgerInv ==
  /\ todayPnl = ClosedPnl + RolledPnl
  /\ \A i \in DOMAIN book : book[i].rollPnl <= 0

(* Rows that stay closed with the P&L they have count for the same. *)
LEMMA ClosedSame ==
  ASSUME book \in Seq(Row), Closed' = Closed, \A i \in Closed : book'[i].pnl = book[i].pnl,
         DOMAIN book \subseteq DOMAIN book'
  PROVE  ClosedPnl' = ClosedPnl
<1>1. Closed \in SUBSET DOMAIN book
  BY DEF Closed
<1>2. IsFiniteSet(Closed)
  BY <1>1, RowSums
<1>3. \A i \in Closed : Pnls[i] = Pnls'[i]
  BY <1>1 DEF Pnls
<1>4. SumFunctionOnSet(Pnls, Closed) = SumFunctionOnSet(Pnls', Closed)
  BY <1>2, <1>3, SumSame
<1> QED
  BY <1>4 DEF ClosedPnl

LEMMA RolledSame ==
  ASSUME book \in Seq(Row), DOMAIN book' = DOMAIN book,
         \A i \in DOMAIN book : book'[i].rollPnl = book[i].rollPnl
  PROVE  RolledPnl' = RolledPnl
<1>1. IsFiniteSet(DOMAIN book)
  BY BookIs
<1>2. \A i \in DOMAIN book : RollPnls[i] = RollPnls'[i]
  BY DEF RollPnls
<1>3. SumFunctionOnSet(RollPnls, DOMAIN book) = SumFunctionOnSet(RollPnls', DOMAIN book)
  BY <1>1, <1>2, SumSame
<1> QED
  BY <1>3 DEF RolledPnl

(* A new row has no P&L and no rolls. *)
LEMMA EntryLedger ==
  ASSUME ShapeInv, NEW c, NEW qty, Enters(c, qty)
  PROVE  ClosedPnl' = ClosedPnl /\ RolledPnl' = RolledPnl
<1> DEFINE n == Len(book) + 1
           r == Booked(c, qty)
<1>1. /\ book' \in Seq(Row) /\ qty \in Nat /\ qty > 0
      /\ DOMAIN book' = DOMAIN book \cup {n} /\ n \notin DOMAIN book
      /\ book'[n] = r /\ \A j \in DOMAIN book : book'[j] = book[j]
  BY EntryIs
<1>2. book \in Seq(Row) /\ Candidate(c) /\ Fillable(c)
  BY DEF ShapeInv, TypeInv, Enters
<1>0. JustEntered(r, c, qty)
  BY <1>1, <1>2, BookedIs
<1>3. r.rollPnl = 0 /\ r.result = "Open"
  BY <1>0 DEF JustEntered
<1> HIDE DEF n, r
<1>4. Closed' = Closed
  BY <1>1, <1>3 DEF Closed
<1>5. ClosedPnl' = ClosedPnl
  BY <1>1, <1>2, <1>4, ClosedSame DEF Closed
<1> DEFINE f == RollPnls'
           S == DOMAIN book
<1>6. IsFiniteSet(S) /\ \A i \in S \cup {n} : f[i] \in Int
  <2>1. \A i \in DOMAIN book' : book'[i].rollPnl \in Int
    BY <1>1, ElementOfSeq, LenProperties, RowNumbers
  <2> QED BY <1>1, <1>2, <2>1, BookIs DEF RollPnls
<1>7. f[n] = 0 /\ \A i \in S : RollPnls[i] = f[i]
  BY <1>1, <1>3 DEF RollPnls
<1>8. RolledPnl' = SumFunctionOnSet(f, S \cup {n})
  BY <1>1 DEF RolledPnl
<1>9. RolledPnl = SumFunctionOnSet(RollPnls, S) /\ RolledPnl \in Int
  BY <1>2, RowSums DEF RolledPnl
<1>10. n \notin S
  BY <1>1
<1> HIDE DEF f, S
<1>11. SumFunctionOnSet(f, S \cup {n}) = f[n] + SumFunctionOnSet(f, S)
  BY <1>6, <1>10, SumAdd
<1>12. SumFunctionOnSet(RollPnls, S) = SumFunctionOnSet(f, S)
  BY <1>6, <1>7, SumSame
<1> QED
  BY <1>5, <1>7, <1>8, <1>9, <1>11, <1>12

(* A close adds the P&L of its row. *)
LEMMA CloseLedger ==
  ASSUME ShapeInv, NEW i, NEW r, Closes(i, r)
  PROVE  ClosedPnl' = ClosedPnl + r.pnl /\ RolledPnl' = RolledPnl
<1>1. Rewrites(i, r) /\ r.rollPnl = book[i].rollPnl /\ r.result \in {"TP", "Stop", "RollFailed"}
  BY DEF Closes
<1>2. /\ i \in Positions /\ i \in DOMAIN book /\ book' \in Seq(Row) /\ DOMAIN book' = DOMAIN book
      /\ book'[i] = r /\ \A j \in DOMAIN book : j # i => book'[j] = book[j]
  BY <1>1, RewriteIs
<1>3. book \in Seq(Row)
  BY DEF ShapeInv, TypeInv
<1>4. RolledPnl' = RolledPnl
  BY <1>1, <1>2, <1>3, RolledSame
<1>5. i \notin Closed /\ Closed' = Closed \cup {i}
  BY <1>1, <1>2 DEF Closed, Positions, Live
<1> DEFINE f == Pnls'
           S == Closed
<1>6. S \in SUBSET DOMAIN book /\ IsFiniteSet(S) /\ SumFunctionOnSet(Pnls, S) \in Int
  BY <1>3, RowSums DEF Closed
<1>7. \A j \in S \cup {i} : f[j] \in Int
  <2>1. \A j \in DOMAIN book' : book'[j].pnl \in Int
    BY <1>2, ElementOfSeq, LenProperties, RowNumbers
  <2> QED BY <1>2, <1>6, <2>1 DEF Pnls
<1>8. f[i] = r.pnl /\ \A j \in S : Pnls[j] = f[j]
  BY <1>2, <1>5, <1>6 DEF Pnls
<1>9. ClosedPnl' = SumFunctionOnSet(f, S \cup {i}) /\ ClosedPnl = SumFunctionOnSet(Pnls, S)
  BY <1>5 DEF ClosedPnl
<1>10. i \notin S
  BY <1>5
<1> HIDE DEF f, S
<1>11. SumFunctionOnSet(f, S \cup {i}) = f[i] + SumFunctionOnSet(f, S)
  BY <1>6, <1>7, <1>10, SumAdd
<1>12. SumFunctionOnSet(Pnls, S) = SumFunctionOnSet(f, S)
  BY <1>6, <1>8, SumSame
<1> QED
  BY <1>4, <1>6, <1>7, <1>8, <1>9, <1>11, <1>12

(* A roll adds what it books, to a row that is not closed. *)
LEMMA RollLedger ==
  ASSUME ShapeInv, NEW i, NEW r, Rolls(i, r)
  PROVE  ClosedPnl' = ClosedPnl /\ RolledPnl' = RolledPnl - book[i].rollPnl + r.rollPnl
<1>1. Rewrites(i, r) /\ r.pnl = book[i].pnl /\ r.result = "Rolled"
  BY DEF Rolls
<1>2. /\ i \in Positions /\ i \in DOMAIN book /\ book' \in Seq(Row) /\ DOMAIN book' = DOMAIN book
      /\ book'[i] = r /\ \A j \in DOMAIN book : j # i => book'[j] = book[j]
  BY <1>1, RewriteIs
<1>3. book \in Seq(Row)
  BY DEF ShapeInv, TypeInv
<1>4. Closed' = Closed
  BY <1>1, <1>2 DEF Closed, Positions, Live
<1>5. ClosedPnl' = ClosedPnl
  BY <1>1, <1>2, <1>3, <1>4, ClosedSame DEF Closed
<1> DEFINE f == RollPnls
           g == RollPnls'
           S == DOMAIN book
<1>6. IsFiniteSet(S) /\ i \in S
  BY <1>2, <1>3, BookIs
<1>7. \A j \in S : f[j] \in Int /\ g[j] \in Int
  <2>1. \A j \in DOMAIN book' : book'[j].rollPnl \in Int
    BY <1>2, ElementOfSeq, LenProperties, RowNumbers
  <2>2. \A j \in DOMAIN book : book[j].rollPnl \in Int
    BY <1>3, BookIs, RowNumbers
  <2> QED BY <1>2, <2>1, <2>2 DEF RollPnls
<1>8. f[i] = book[i].rollPnl /\ g[i] = r.rollPnl /\ \A j \in S \ {i} : f[j] = g[j]
  BY <1>2 DEF RollPnls
<1>9. RolledPnl' = SumFunctionOnSet(g, S) /\ RolledPnl = SumFunctionOnSet(f, S)
  BY <1>2 DEF RolledPnl
<1> HIDE DEF f, g, S
<1>10. SumFunctionOnSet(g, S) = SumFunctionOnSet(f, S) - f[i] + g[i]
  BY <1>6, <1>7, <1>8, SumChange
<1> QED
  BY <1>5, <1>8, <1>9, <1>10

LEMMA RollsNext ==
  ASSUME PricesAreNumbers, ShapeInv, LedgerInv, Effects
  PROVE  \A i \in DOMAIN book' : book'[i].rollPnl <= 0
<1>1. book \in Seq(Row) /\ \A i \in DOMAIN book : book[i].rollPnl <= 0
  BY DEF ShapeInv, TypeInv, LedgerInv
<1> SUFFICES ASSUME NEW j \in DOMAIN book' PROVE book'[j].rollPnl <= 0
  OBVIOUS
<1>2. CASE Still
  BY <1>1, <1>2 DEF Still
<1>3. ASSUME NEW c, NEW qty, Enters(c, qty) PROVE book'[j].rollPnl <= 0
  <2> DEFINE n == Len(book) + 1
             r == Booked(c, qty)
  <2>1. /\ qty \in Nat /\ qty > 0
        /\ DOMAIN book' = DOMAIN book \cup {n}
        /\ book'[n] = r /\ \A k \in DOMAIN book : book'[k] = book[k]
    BY <1>3, EntryIs
  <2>2. Candidate(c) /\ Fillable(c)
    BY <1>3 DEF Enters
  <2>3. r.rollPnl = 0
    <3>1. JustEntered(Booked(c, qty), c, qty)
      BY <1>1, <2>1, <2>2, BookedIs
    <3> QED BY <3>1 DEF JustEntered
  <2> HIDE DEF n, r
  <2>4. CASE j = n
    BY <2>1, <2>3, <2>4
  <2>5. CASE j # n
    BY <1>1, <2>1, <2>5
  <2> QED BY <2>4, <2>5
<1>4. ASSUME NEW i, NEW r, Rewrites(i, r), r.rollPnl <= 0 PROVE book'[j].rollPnl <= 0
  <2>1. /\ DOMAIN book' = DOMAIN book
        /\ book'[i] = r /\ \A k \in DOMAIN book : k # i => book'[k] = book[k]
    BY <1>4, RewriteIs
  <2> QED BY <1>1, <1>4, <2>1
<1>5. ASSUME NEW i, NEW r, Marks(i, r) \/ Closes(i, r) PROVE Rewrites(i, r) /\ r.rollPnl <= 0
  <2>1. Rewrites(i, r) /\ r.rollPnl = book[i].rollPnl
    BY <1>5 DEF Marks, Closes
  <2> QED BY <1>1, <2>1, RewriteIs
<1>6. ASSUME NEW i, NEW r, Rolls(i, r) PROVE Rewrites(i, r) /\ r.rollPnl <= 0
  <2>1. Rewrites(i, r)
    BY <1>6 DEF Rolls
  <2>2. PICK c \in RollChoices(book[i]) :
          /\ RollPnl(book[i], c) \in Int /\ RollPnl(book[i], c) <= 0
          /\ r.rollPnl = book[i].rollPnl + RollPnl(book[i], c)
    BY <1>6 DEF Rolls
  <2>3. book[i].rollPnl \in Int /\ book[i].rollPnl <= 0
    BY <1>1, <2>1, RewriteIs, RowNumbers
  <2> DEFINE d == RollPnl(book[i], c)
  <2> HIDE DEF d
  <2>4. d \in Int /\ d <= 0 /\ r.rollPnl = book[i].rollPnl + d
    BY <2>2 DEF d
  <2>5. r.rollPnl <= 0
    BY <2>3, <2>4
  <2> QED BY <2>1, <2>5
<1> QED
  BY <1>2, <1>3, <1>4, <1>5, <1>6 DEF Effects

LEMMA LedgerNext ==
  ASSUME PricesAreNumbers, ShapeInv, LedgerInv, Effects
  PROVE  LedgerInv'
<1>1. /\ book \in Seq(Row) /\ todayPnl \in Int
      /\ todayPnl = ClosedPnl + RolledPnl
  BY DEF ShapeInv, TypeInv, LedgerInv
<1>2. ClosedPnl \in Int /\ RolledPnl \in Int
  BY <1>1, RowSums DEF ClosedPnl, RolledPnl, Closed
<1> SUFFICES todayPnl' = ClosedPnl' + RolledPnl'
  BY RollsNext DEF LedgerInv
<1>3. CASE Still
  <2>1. book' = book /\ todayPnl' = todayPnl
    BY <1>3 DEF Still
  <2>2. ClosedPnl' = ClosedPnl
    BY <1>1, <2>1, ClosedSame DEF Closed
  <2>3. RolledPnl' = RolledPnl
    BY <1>1, <2>1, RolledSame
  <2> QED BY <1>1, <2>1, <2>2, <2>3
<1>4. ASSUME NEW c, NEW qty, Enters(c, qty) PROVE todayPnl' = ClosedPnl' + RolledPnl'
  <2>1. todayPnl' = todayPnl
    BY <1>4 DEF Enters
  <2> QED BY <1>1, <1>4, <2>1, EntryLedger
<1>5. ASSUME NEW i, NEW r, Marks(i, r) PROVE todayPnl' = ClosedPnl' + RolledPnl'
  <2>1. /\ Rewrites(i, r) /\ todayPnl' = todayPnl
        /\ r.rollPnl = book[i].rollPnl /\ r.pnl = book[i].pnl /\ r.result = book[i].result
    BY <1>5 DEF Marks
  <2>2. /\ DOMAIN book' = DOMAIN book /\ i \in DOMAIN book
        /\ book'[i] = r /\ \A j \in DOMAIN book : j # i => book'[j] = book[j]
    BY <2>1, RewriteIs
  <2>3. Closed' = Closed
    BY <2>1, <2>2 DEF Closed
  <2>4. ClosedPnl' = ClosedPnl
    BY <1>1, <2>1, <2>2, <2>3, ClosedSame DEF Closed
  <2>5. RolledPnl' = RolledPnl
    BY <1>1, <2>1, <2>2, RolledSame
  <2> QED BY <1>1, <2>1, <2>4, <2>5
<1>6. ASSUME NEW i, NEW r, Closes(i, r) PROVE todayPnl' = ClosedPnl' + RolledPnl'
  <2>1. todayPnl' = todayPnl + r.pnl /\ r.pnl \in Int
    BY <1>6, RowNumbers DEF Closes, Rewrites
  <2> QED BY <1>1, <1>2, <1>6, <2>1, CloseLedger
<1>7. ASSUME NEW i, NEW r, Rolls(i, r) PROVE todayPnl' = ClosedPnl' + RolledPnl'
  <2>1. Rewrites(i, r)
    BY <1>7 DEF Rolls
  <2>2. PICK c \in RollChoices(book[i]) :
          /\ RollPnl(book[i], c) \in Int
          /\ r.rollPnl = book[i].rollPnl + RollPnl(book[i], c)
          /\ todayPnl' = todayPnl + RollPnl(book[i], c)
    BY <1>7 DEF Rolls
  <2>3. book[i].rollPnl \in Int
    BY <2>1, RewriteIs, RowNumbers
  <2>4. ClosedPnl' = ClosedPnl /\ RolledPnl' = RolledPnl - book[i].rollPnl + r.rollPnl
    BY <1>7, RollLedger
  <2> DEFINE d == RollPnl(book[i], c)
  <2> HIDE DEF d
  <2>5. d \in Int /\ r.rollPnl = book[i].rollPnl + d /\ todayPnl' = todayPnl + d
    BY <2>2 DEF d
  <2> QED BY <1>1, <1>2, <2>3, <2>4, <2>5
<1> QED
  BY <1>3, <1>4, <1>5, <1>6, <1>7 DEF Effects

(* The value of an option that lives longer is not smaller. *)
TimeIsWorth ==
  \A iv, d, e, distance \in Nat : d <= e => TimeValue(iv, d, distance) <= TimeValue(iv, e, distance)

LEMMA WorthIs ==
  ASSUME PricesAreNumbers, TimeIsWorth, MarketType, NEW p \in Row, p.near.expiry < p.far.expiry
  PROVE  PositionValue(p) >= 0
<1>1. /\ p.near \in Instrument /\ p.far \in Instrument
      /\ spots[p.near.asset] \in Nat /\ p.near.strike \in Nat /\ p.qty \in Nat
      /\ p.near.expiry \in Nat /\ p.far.expiry \in Nat
  BY RowNumbers DEF MarketType
<1>2. CASE Quoted(p.near) /\ Quoted(p.far)
  <2> DEFINE gap == Greatest(0, Mid2(p.far) - Mid2(p.near))
  <2>1. Mid2(p.near) \in Int /\ Mid2(p.far) \in Int
    BY <1>2 DEF Quoted, Mid2, MarketType, ChainOK, Quote
  <2>2. gap \in Nat
    BY <2>1 DEF Greatest
  <2> HIDE DEF gap
  <2>3. gap * p.qty \in Nat
    BY <2>2, <1>1
  <2> DEFINE v == gap * p.qty
  <2>4. v \in Nat
    BY <2>3
  <2> HIDE DEF v
  <2>5. v \div 2 >= 0
    BY <2>4
  <2> QED BY <1>2, <2>5 DEF PositionValue, v, gap
<1>3. CASE ~ (Quoted(p.near) /\ Quoted(p.far))
  <2> DEFINE nd == Greatest(NearDaysLeft(p), 1)
             fd == Greatest(DaysToExpiry(p.far.expiry, Day), 1)
             iv == GetIv(p)
             away == Distance(spots[p.near.asset], p.near.strike)
             base == Intrinsic(p.near.type, spots[p.near.asset], p.near.strike)
  <2>1. nd \in Nat /\ fd \in Nat /\ nd <= fd
    BY <1>1, DayIs DEF NearDaysLeft, DaysToExpiry, Greatest
  <2>2. iv \in Nat /\ away \in Nat /\ base \in Nat
    <3>1. iv \in Nat
      BY IvIs
    <3>2. away \in Nat
      BY <1>1 DEF Distance, Greatest
    <3>3. base \in Nat
      BY <1>1, IntrinsicIs
    <3> QED BY <3>1, <3>2, <3>3
  <2> HIDE DEF nd, fd, iv, away, base
  <2>3. /\ TimeValue(iv, nd, away) \in Int /\ TimeValue(iv, fd, away) \in Int
        /\ TimeValue(iv, nd, away) <= TimeValue(iv, fd, away)
    BY <2>1, <2>2 DEF PricesAreNumbers, TimeIsWorth
  <2> DEFINE gain == (base + TimeValue(iv, fd, away)) - (base + TimeValue(iv, nd, away))
  <2>4. gain \in Nat
    BY <2>2, <2>3
  <2>5. PositionValue(p) = gain * p.qty
    BY <1>3 DEF PositionValue, ModelValue, SpreadValue, OptionValue, nd, fd, iv, away, base
  <2> HIDE DEF gain
  <2>6. gain * p.qty \in Nat
    BY <2>4, <1>1
  <2> QED BY <2>5, <2>6
<1> QED
  BY <1>2, <1>3

LEMMA LossNext ==
  ASSUME PricesAreNumbers, TimeIsWorth, ShapeInv, LossIsBounded, Effects
  PROVE  LossIsBounded'
<1> DEFINE Within(p) == p.result \notin Unclosed
                          => p.rollPnl - p.pnl <= p.debit * p.qty + p.openFees
<1>1. /\ book \in Seq(Row) /\ MarketType
      /\ \A i \in DOMAIN book : Within(book[i])
  BY DEF ShapeInv, TypeInv, LossIsBounded, Closed, Unclosed
<1> SUFFICES \A i \in DOMAIN book' : Within(book'[i])
  BY DEF LossIsBounded, Closed, Unclosed
<1> HIDE DEF Within
<1>2. CASE Still
  BY <1>1, <1>2 DEF Still
<1>3. ASSUME NEW c, NEW qty, Enters(c, qty) PROVE \A i \in DOMAIN book' : Within(book'[i])
  <2> DEFINE n == Len(book) + 1
             r == Booked(c, qty)
  <2>1. /\ qty \in Nat /\ qty > 0
        /\ DOMAIN book' = DOMAIN book \cup {n}
        /\ book'[n] = r /\ \A j \in DOMAIN book : book'[j] = book[j]
    BY <1>3, EntryIs
  <2>2. Candidate(c) /\ Fillable(c)
    BY <1>3 DEF Enters
  <2>3. r.result = "Open"
    <3>1. JustEntered(Booked(c, qty), c, qty)
      BY <1>1, <2>1, <2>2, BookedIs
    <3> QED BY <3>1 DEF JustEntered
  <2> HIDE DEF n, r
  <2>4. Within(r)
    BY <2>3 DEF Within, Unclosed
  <2> QED BY <1>1, <2>1, <2>4
<1>4. ASSUME NEW i, NEW r, Rewrites(i, r), Within(r) PROVE \A j \in DOMAIN book' : Within(book'[j])
  <2>1. /\ DOMAIN book' = DOMAIN book
        /\ book'[i] = r /\ \A j \in DOMAIN book : j # i => book'[j] = book[j]
    BY <1>4, RewriteIs
  <2> QED BY <1>1, <1>4, <2>1
<1>5. ASSUME NEW i, NEW r, Marks(i, r) \/ Rolls(i, r) PROVE Rewrites(i, r) /\ Within(r)
  <2>1. Rewrites(i, r) /\ (r.result = book[i].result \/ r.result = "Rolled")
    BY <1>5 DEF Marks, Rolls
  <2>2. i \in Positions
    BY <2>1, RewriteIs
  <2> QED BY <2>1, <2>2 DEF Within, Positions, Live, Unclosed
<1>6. ASSUME NEW i, NEW r, Closes(i, r) PROVE Rewrites(i, r) /\ Within(r)
  <2>1. Rewrites(i, r) /\ SameTerms(r, book[i]) /\ r.rollPnl = book[i].rollPnl
    BY <1>6 DEF Closes, Rewrites
  <2>2. book[i] \in Row /\ i \in DOMAIN book
    BY <2>1, RewriteIs
  <2>3. PICK worth \in {PositionValue(book[i]), CloseCredit(book[i])} : r.pnl = NetPnl(book[i], worth)
    BY <1>6 DEF Closes
  <2>4. book[i].near.expiry < book[i].far.expiry
    BY <2>2 DEF ShapeInv, BookInv, SoundRow
  <2> DEFINE cost == book[i].debit * book[i].qty
  <2>5. cost \in Nat /\ book[i].openFees \in Int /\ book[i].rollPnl \in Int
    <3>1. book[i].debit \in Nat /\ book[i].qty \in Nat
      BY <2>2, RowNumbers
    <3>2. cost \in Nat
      BY <3>1
    <3> QED BY <2>2, <3>2, RowNumbers
  <2>6. worth \in Int /\ worth >= 0
    <3>1. PositionValue(book[i]) \in Int /\ PositionValue(book[i]) >= 0
      BY <1>1, <2>2, <2>4, ValueIs, WorthIs
    <3>2. CloseCredit(book[i]) \in Int
      BY <2>2, CreditIs
    <3>3. CloseCredit(book[i]) >= 0
      BY <2>2, <2>5, RowNumbers DEF CloseCredit
    <3> QED BY <2>3, <3>1, <3>2, <3>3
  <2>7. r.pnl = worth - cost + book[i].rollPnl - book[i].openFees
    BY <1>1, <2>2, <2>3, <2>6, NetPnlIs
  <2>8. r.debit * r.qty = cost /\ r.openFees = book[i].openFees
    BY <2>1 DEF SameTerms
  <2> HIDE DEF cost
  <2>9. r.rollPnl - r.pnl <= r.debit * r.qty + r.openFees
    BY <2>1, <2>5, <2>6, <2>7, <2>8
  <2> QED BY <2>1, <2>9 DEF Within
<1> QED
  BY <1>2, <1>3, <1>4, <1>5, <1>6 DEF Effects

LEMMA SumUnion ==
  ASSUME NEW f, NEW A, NEW B, IsFiniteSet(A), IsFiniteSet(B), A \cap B = {},
         \A x \in A \cup B : f[x] \in Int
  PROVE  SumFunctionOnSet(f, A \cup B) = SumFunctionOnSet(f, A) + SumFunctionOnSet(f, B)
<1> DEFINE Sum(S) == SumFunctionOnSet(f, S)
           Adds(T) == Sum(A \cup T) = Sum(A) + Sum(T)
           Bad == {T \in SUBSET B : ~ Adds(T)}
<1> SUFFICES ASSUME Bad # {} PROVE FALSE
  OBVIOUS
<1>1. \A T \in Bad : IsFiniteSet(T)
  BY FS_Subset
<1>2. PICK T \in Bad : \A U \in Bad : Cardinality(T) <= Cardinality(U)
  <2> HIDE DEF Bad
  <2> QED BY <1>1, Smallest
<1>3. T \in SUBSET B /\ IsFiniteSet(T) /\ ~ Adds(T)
  BY <1>1, <1>2
<1>4. Sum(A) \in Int /\ Sum({}) = 0
  BY SumInt, SumEmpty
<1>5. PICK x \in T : TRUE
  <2>1. CASE T = {}
    <3>1. A \cup {} = A
      OBVIOUS
    <3> HIDE DEF Sum
    <3> QED BY <1>3, <1>4, <2>1, <3>1
  <2> QED BY <2>1
<1> DEFINE U == T \ {x}
<1>6. /\ IsFiniteSet(U) /\ x \notin U /\ U \cup {x} = T /\ U \in SUBSET B
      /\ Cardinality(U) = Cardinality(T) - 1 /\ Cardinality(T) \in Nat
  BY <1>3, <1>5, FS_RemoveElement, FS_CardinalityType
<1>7. Adds(U)
  <2>1. U \notin Bad
    <3> HIDE DEF Bad, U
    <3> QED BY <1>2, <1>6
  <2> HIDE DEF U, Adds
  <2> QED BY <1>6, <2>1
<1> HIDE DEF U
<1>8. Sum(T) = f[x] + Sum(U)
  <2>1. \A y \in U \cup {x} : f[y] \in Int
    BY <1>3, <1>6
  <2>2. SumFunctionOnSet(f, U \cup {x}) = f[x] + SumFunctionOnSet(f, U)
    BY <1>6, <2>1, SumAdd
  <2> QED BY <1>6, <2>2
<1>9. Sum(A \cup T) = f[x] + Sum(A \cup U)
  <2> DEFINE V == A \cup U
  <2>1. IsFiniteSet(V) /\ x \notin V /\ V \cup {x} = A \cup T
    BY <1>3, <1>5, <1>6, FS_Union
  <2>2. \A y \in V \cup {x} : f[y] \in Int
    BY <1>3, <2>1
  <2> HIDE DEF V
  <2>3. SumFunctionOnSet(f, V \cup {x}) = f[x] + SumFunctionOnSet(f, V)
    BY <2>1, <2>2, SumAdd
  <2> QED BY <2>1, <2>3 DEF V
<1>10. f[x] \in Int /\ Sum(U) \in Int
  <2>1. f[x] \in Int /\ \A y \in U : f[y] \in Int
    BY <1>3, <1>5, <1>6
  <2> QED BY <1>6, <2>1, SumInt
<1> HIDE DEF Sum
<1> QED BY <1>3, <1>4, <1>7, <1>8, <1>9, <1>10

(* Losses add up to a loss. *)
LEMMA SumNoProfit ==
  ASSUME NEW f, NEW S, IsFiniteSet(S), \A x \in S : f[x] \in Int /\ f[x] <= 0
  PROVE  SumFunctionOnSet(f, S) <= 0
<1> DEFINE Bad == {T \in SUBSET S : ~ (SumFunctionOnSet(f, T) <= 0)}
<1> SUFFICES ASSUME Bad # {} PROVE FALSE
  OBVIOUS
<1>1. \A T \in Bad : IsFiniteSet(T)
  BY FS_Subset
<1>2. PICK T \in Bad : \A U \in Bad : Cardinality(T) <= Cardinality(U)
  <2> HIDE DEF Bad
  <2> QED BY <1>1, Smallest
<1> DEFINE U == T \ {Pick(T)}
<1>3. T \in SUBSET S /\ ~ (SumFunctionOnSet(f, T) <= 0)
  BY <1>2
<1>4. SumFunctionOnSet(f, T) = IF T = {} THEN 0 ELSE f[Pick(T)] + SumFunctionOnSet(f, U)
  BY <1>1, <1>2, SumEquation
<1>5. T # {}
  BY <1>3, <1>4
<1>6. Pick(T) \in T
  BY <1>5, PickIn
<1>7. Cardinality(U) = Cardinality(T) - 1 /\ Cardinality(T) \in Nat /\ IsFiniteSet(U)
  BY <1>1, <1>6, FS_RemoveElement, FS_CardinalityType
<1>8. U \notin Bad
  <2> HIDE DEF Bad, U
  <2> QED BY <1>2, <1>7
<1>9. SumFunctionOnSet(f, U) <= 0 /\ f[Pick(T)] <= 0 /\ f[Pick(T)] \in Int
  BY <1>3, <1>6, <1>8
<1>10. SumFunctionOnSet(f, U) \in Int
  <2>1. \A x \in U : f[x] \in Int
    BY <1>3
  <2> QED BY <1>7, <2>1, SumInt
<1> HIDE DEF U
<1> QED BY <1>3, <1>4, <1>5, <1>9, <1>10

LEMMA LedgerPrudence == ASSUME ShapeInv, LedgerInv PROVE TotalNeverFlatters
<1> DEFINE S == DOMAIN book \ Closed
<1>1. book \in Seq(Row)
  BY DEF ShapeInv, TypeInv
<1>2. Closed \in SUBSET DOMAIN book /\ S \in SUBSET DOMAIN book /\ DOMAIN book = Closed \cup S /\ Closed \cap S = {}
  BY DEF Closed
<1>3. IsFiniteSet(Closed) /\ IsFiniteSet(S)
  BY <1>1, <1>2, BookIs, FS_Subset
<1>4. \A i \in DOMAIN book : RollPnls[i] \in Int /\ RollPnls[i] <= 0
  BY <1>1, BookIs, RowNumbers DEF LedgerInv, RollPnls
<1> HIDE DEF S
<1>5. RolledPnl = SumFunctionOnSet(RollPnls, Closed) + SumFunctionOnSet(RollPnls, S)
  <2>1. SumFunctionOnSet(RollPnls, Closed \cup S) = SumFunctionOnSet(RollPnls, Closed) + SumFunctionOnSet(RollPnls, S)
    BY <1>2, <1>3, <1>4, SumUnion
  <2> QED BY <1>2, <2>1 DEF RolledPnl
<1>6. SumFunctionOnSet(RollPnls, Closed) <= 0
  BY <1>2, <1>3, <1>4, SumNoProfit
<1>7. ClosedPnl \in Int /\ SumFunctionOnSet(RollPnls, Closed) \in Int /\ SumFunctionOnSet(RollPnls, S) \in Int
  BY <1>1, <1>2, RowSums DEF ClosedPnl
<1>8. NetRealised = ClosedPnl + SumFunctionOnSet(RollPnls, S)
  BY DEF NetRealised, ClosedPnl, S
<1>9. todayPnl = ClosedPnl + RolledPnl
  BY DEF LedgerInv
<1> QED
  BY <1>5, <1>6, <1>7, <1>8, <1>9 DEF TotalNeverFlatters

LEMMA LedgerStays == ASSUME PricesAreNumbers PROVE Spec => []LedgerInv
<1>1. Init => LedgerInv
  <2> SUFFICES ASSUME Init PROVE LedgerInv
    OBVIOUS
  <2>1. DOMAIN book = {} /\ Closed = {} /\ todayPnl = 0
    BY DEF Init, Closed
  <2>2. ClosedPnl = 0 /\ RolledPnl = 0
    BY <2>1, SumEmpty DEF ClosedPnl, RolledPnl
  <2> QED BY <2>1, <2>2 DEF LedgerInv
<1>2. ShapeInv /\ LedgerInv /\ [Next]_vars => LedgerInv'
  BY StepEffects, LedgerNext
<1> QED
  BY <1>1, <1>2, ShapeHolds, PTL DEF Spec

(* LedgerIsPrudent (decision.py 1205, 1367-1371, 1508-1511): the sum that decides on  *)
(* the halt never shows a smaller loss than the rows do, and a closed row books no    *)
(* loss beyond its debit, its opening fees and what was booked for its rolls, as long *)
(* as time is worth something to the pricing model.                                   *)
THEOREM LedgerHolds == ASSUME PricesAreNumbers, TimeIsWorth PROVE Spec => []LedgerIsPrudent
<1>1. Init => LossIsBounded
  BY DEF Init, LossIsBounded, Closed
<1>2. ShapeInv /\ LossIsBounded /\ [Next]_vars => LossIsBounded'
  BY StepEffects, LossNext
<1>3. ShapeInv /\ LedgerInv /\ LossIsBounded => LedgerIsPrudent
  BY LedgerPrudence DEF LedgerIsPrudent
<1> QED
  BY <1>1, <1>2, <1>3, ShapeHolds, LedgerStays, PTL DEF Spec

-----------------------------------------------------------------------------

(* Failures are held against monitored positions only, and up to the cap.    *)
FailInv ==
  /\ fails \in [Ids -> 0..RetryCap]
  /\ \A i \in Ids : i \notin Positions => fails[i] = 0

(* Where a row is in its life. *)
StateOf(p) == IF p.stuck THEN "stuck" ELSE IF p.result \in Unclosed THEN "open" ELSE "closed"

LEMMA StatusNow ==
  /\ Status = [i \in Ids |-> IF i \in DOMAIN book THEN StateOf(book[i]) ELSE "absent"]
  /\ Status' = [i \in Ids |-> IF i \in DOMAIN book' THEN StateOf(book'[i]) ELSE "absent"]
<1>1. \A i \in Ids : Status[i] = IF i \in DOMAIN book THEN StateOf(book[i]) ELSE "absent"
  BY DEF Status, StateOf, Live, Unclosed
<1>2. \A i \in Ids : Status'[i] = IF i \in DOMAIN book' THEN StateOf(book'[i]) ELSE "absent"
  BY DEF Status, StateOf, Live, Unclosed
<1>3. Status = [i \in Ids |-> Status[i]] /\ Status' = [i \in Ids |-> Status'[i]]
  BY DEF Status
<1> HIDE DEF StateOf
<1> QED
  BY <1>1, <1>2, <1>3

LEMMA FailedNow ==
  /\ Failed = [i \in Ids |-> IF Status[i] = "stuck" THEN RetryCap ELSE fails[i]]
  /\ Failed' = [i \in Ids |-> IF Status'[i] = "stuck" THEN RetryCap ELSE fails'[i]]
BY DEF Failed, Ids

LEMMA OpenIs ==
  ASSUME ShapeInv, NEW i \in Positions
  PROVE  i \in Ids /\ StateOf(book[i]) = "open" /\ Status[i] = "open" /\ Failed[i] = fails[i]
<1>1. i \in DOMAIN book /\ StateOf(book[i]) = "open"
  BY DEF Positions, Live, StateOf, Unclosed
<1>2. i \in Ids
  BY <1>1, BookIs, ClockNumbers DEF ShapeInv, TypeInv, Ids
<1>3. Status[i] = "open"
  BY <1>1, <1>2, StatusNow
<1> QED
  BY <1>1, <1>2, <1>3, FailedNow

(* The row of a position is rewritten, and the failures held against it with it. *)
LEMMA RowStep ==
  ASSUME ShapeInv, FailInv, NEW i, NEW r, Rewrites(i, r),
         fails' = [fails EXCEPT ![i] = fails'[i]], fails'[i] \in 0..RetryCap,
         StateOf(r) = "open" \/ fails'[i] = 0
  PROVE  /\ FailInv'
         /\ i \in Ids /\ Status[i] = "open" /\ Failed[i] = fails[i]
         /\ Status' = [Status EXCEPT ![i] = StateOf(r)]
         /\ Failed' = [Failed EXCEPT ![i] = Failed'[i]]
         /\ Failed'[i] = IF StateOf(r) = "stuck" THEN RetryCap ELSE fails'[i]
<1>1. /\ i \in Positions /\ i \in DOMAIN book /\ DOMAIN book' = DOMAIN book
      /\ book'[i] = r /\ \A j \in DOMAIN book : j # i => book'[j] = book[j]
  BY RewriteIs
<1>2. i \in Ids /\ Status[i] = "open" /\ Failed[i] = fails[i]
  BY <1>1, OpenIs
<1>3. Status' = [Status EXCEPT ![i] = StateOf(r)]
  <2>1. \A j \in Ids : Status'[j] = IF j = i THEN StateOf(r) ELSE Status[j]
    BY <1>1, <1>2, StatusNow
  <2>2. Status' = [j \in Ids |-> IF j = i THEN StateOf(r) ELSE Status[j]]
    BY <2>1, StatusNow
  <2>3. DOMAIN Status = Ids
    BY StatusNow
  <2> QED BY <2>2, <2>3
<1>4. fails \in [Ids -> 0..RetryCap]
  BY DEF FailInv
<1>5. \A j \in Ids : j # i => Status'[j] = Status[j] /\ fails'[j] = fails[j]
  BY <1>3, <1>4, StatusNow
<1>6. Failed' = [Failed EXCEPT ![i] = Failed'[i]]
  <2>1. \A j \in Ids : Failed'[j] = IF j = i THEN Failed'[i] ELSE Failed[j]
    BY <1>5, FailedNow
  <2>2. Failed' = [j \in Ids |-> IF j = i THEN Failed'[i] ELSE Failed[j]]
    BY <2>1, FailedNow
  <2>3. DOMAIN Failed = Ids
    BY FailedNow
  <2> QED BY <2>2, <2>3
<1>7. Failed'[i] = IF StateOf(r) = "stuck" THEN RetryCap ELSE fails'[i]
  <2>1. Status'[i] = StateOf(r)
    BY <1>2, <1>3, StatusNow
  <2> QED BY <1>2, <2>1, FailedNow
<1>8. FailInv'
  <2>1. fails' \in [Ids -> 0..RetryCap]
    BY <1>4
  <2>2. ASSUME NEW j \in Ids, j \notin Positions' PROVE fails'[j] = 0
    <3>1. CASE j = i
      <4>1. StateOf(r) # "open"
        BY <1>1, <2>2, <3>1 DEF StateOf, Positions, Live, Unclosed
      <4> QED BY <3>1, <4>1
    <3>2. CASE j # i
      <4>1. j \notin Positions
        BY <1>1, <2>2, <3>2 DEF Positions, Live
      <4> QED BY <1>5, <3>2, <4>1 DEF FailInv
    <3> QED BY <3>1, <3>2
  <2> QED BY <2>1, <2>2 DEF FailInv, Ids
<1> QED
  BY <1>2, <1>3, <1>6, <1>7, <1>8

LEMMA LifecycleStep ==
  ASSUME PricesAreNumbers, ShapeInv, FailInv, Effects
  PROVE  FailInv' /\ [Lifecycle!LifecycleNext]_(Lifecycle!lvars)
<1>1. /\ book \in Seq(Row) /\ fails \in [Ids -> 0..RetryCap]
      /\ \A i \in Ids : i \notin Positions => fails[i] = 0
      /\ RetryCap \in Nat /\ RetryCap > 0
  BY ClockNumbers DEF ShapeInv, TypeInv, FailInv
<1> DEFINE Goal == FailInv' /\ [Lifecycle!LifecycleNext]_(Lifecycle!lvars)
<1>2. CASE Still
  <2>1. book' = book
    BY <1>2 DEF Still
  <2>2. fails' = fails
    BY <1>1, <1>2 DEF Still
  <2>3. Positions' = Positions /\ Status' = Status /\ Failed' = Failed
    BY <2>1, <2>2 DEF Positions, Live, Status, Failed, Ids
  <2> QED BY <1>1, <2>2, <2>3 DEF FailInv, Ids, Lifecycle!lvars
<1>3. ASSUME NEW c, NEW qty, Enters(c, qty) PROVE Goal
  <2> DEFINE n == Len(book) + 1
             r == Booked(c, qty)
  <2>1. /\ qty \in Nat /\ qty > 0
        /\ Len(book') = Len(book) + 1 /\ Len(book') <= MaxTrades
        /\ DOMAIN book' = DOMAIN book \cup {n} /\ n \notin DOMAIN book
        /\ book'[n] = r /\ \A j \in DOMAIN book : book'[j] = book[j]
    BY <1>3, EntryIs
  <2>2. Candidate(c) /\ Fillable(c) /\ fails' = fails
    BY <1>3 DEF Enters
  <2>3. r.result = "Open" /\ ~ r.stuck
    <3>1. JustEntered(Booked(c, qty), c, qty)
      BY <1>1, <2>1, <2>2, BookedIs
    <3> QED BY <3>1 DEF JustEntered
  <2>4. n \in Ids
    BY <1>1, <2>1, BookIs, ClockNumbers DEF Ids
  <2> HIDE DEF n, r
  <2>5. StateOf(r) = "open"
    BY <2>3 DEF StateOf, Unclosed
  <2>6. \A j \in Ids : Status'[j] = IF j = n THEN "open" ELSE Status[j]
    BY <2>1, <2>4, <2>5, StatusNow
  <2>7. Status[n] = "absent" /\ DOMAIN Status = Ids
    BY <2>1, <2>4, StatusNow
  <2>8. Status' = [Status EXCEPT ![n] = "open"]
    <3>1. Status' = [j \in Ids |-> IF j = n THEN "open" ELSE Status[j]]
      BY <2>6, StatusNow
    <3> QED BY <2>7, <3>1
  <2>9. Failed' = Failed
    <3>1. \A j \in Ids : (Status'[j] = "stuck") <=> (Status[j] = "stuck")
      BY <2>6, <2>7
    <3> QED BY <2>2, <3>1, FailedNow
  <2>10. Lifecycle!Open(n)
    BY <2>7, <2>8, <2>9 DEF Lifecycle!Open, Lifecycle!Move
  <2>11. Positions \subseteq Positions'
    BY <2>1 DEF Positions, Live
  <2>12. FailInv'
    BY <1>1, <2>2, <2>11 DEF FailInv, Ids
  <2> QED BY <2>4, <2>10, <2>12 DEF Lifecycle!LifecycleNext
<1>4. ASSUME NEW i, NEW r, Marks(i, r) PROVE Goal
  <2>1. Rewrites(i, r) /\ r.result = book[i].result /\ Counts(i, r)
    BY <1>4 DEF Marks
  <2>2. i \in Positions
    BY <2>1, RewriteIs
  <2>3. i \in Ids /\ fails[i] \in 0..RetryCap /\ r.result \in Unclosed
    BY <1>1, <2>1, <2>2, OpenIs DEF Positions, Live, Unclosed
  <2>4. CASE ~ r.stuck /\ fails' = fails
    <3>1. fails' = [fails EXCEPT ![i] = fails'[i]] /\ fails'[i] \in 0..RetryCap
      BY <1>1, <2>3, <2>4
    <3>2. StateOf(r) = "open"
      BY <2>3, <2>4 DEF StateOf
    <3>3. /\ FailInv' /\ Status[i] = "open" /\ Failed[i] = fails[i]
          /\ Status' = [Status EXCEPT ![i] = StateOf(r)]
          /\ Failed' = [Failed EXCEPT ![i] = Failed'[i]] /\ Failed'[i] = fails'[i]
      BY <2>1, <3>1, <3>2, RowStep
    <3>4. Status' = Status
      BY <3>2, <3>3, StatusNow
    <3>5. Failed' = Failed
      BY <2>4, <3>3, FailedNow
    <3> QED BY <3>3, <3>4, <3>5 DEF Lifecycle!lvars
  <2>5. CASE ~ r.stuck /\ ~ OutOfRetries(i) /\ fails' = [fails EXCEPT ![i] = @ + 1]
    <3>1. StateOf(r) = "open"
      BY <2>3, <2>5 DEF StateOf
    <3>2. fails[i] < RetryCap /\ fails'[i] = fails[i] + 1
      BY <1>1, <2>3, <2>5 DEF OutOfRetries
    <3>3. fails' = [fails EXCEPT ![i] = fails'[i]] /\ fails'[i] \in 0..RetryCap
      BY <1>1, <2>3, <2>5, <3>2
    <3>4. /\ FailInv' /\ Status[i] = "open" /\ Failed[i] = fails[i]
          /\ Status' = [Status EXCEPT ![i] = StateOf(r)]
          /\ Failed' = [Failed EXCEPT ![i] = Failed'[i]] /\ Failed'[i] = fails'[i]
      BY <2>1, <3>1, <3>3, RowStep
    <3>5. Status' = Status
      BY <3>1, <3>4, StatusNow
    <3>6. Failed' = [Failed EXCEPT ![i] = Failed[i] + 1]
      BY <3>2, <3>4
    <3>7. Lifecycle!FailAttempt(i)
      BY <3>2, <3>4, <3>5, <3>6 DEF Lifecycle!FailAttempt
    <3> QED BY <2>3, <3>4, <3>7 DEF Lifecycle!LifecycleNext
  <2>6. CASE r.stuck /\ OutOfRetries(i) /\ fails' = [fails EXCEPT ![i] = 0]
    <3>1. StateOf(r) = "stuck"
      BY <2>6 DEF StateOf
    <3>2. fails[i] = RetryCap
      BY <1>1, <2>3, <2>6 DEF OutOfRetries
    <3>3. fails' = [fails EXCEPT ![i] = fails'[i]] /\ fails'[i] = 0 /\ fails'[i] \in 0..RetryCap
      BY <1>1, <2>3, <2>6
    <3>4. /\ FailInv' /\ Status[i] = "open" /\ Failed[i] = fails[i]
          /\ Status' = [Status EXCEPT ![i] = StateOf(r)]
          /\ Failed' = [Failed EXCEPT ![i] = Failed'[i]] /\ Failed'[i] = RetryCap
      BY <2>1, <3>1, <3>3, RowStep
    <3>5. Failed' = Failed
      BY <3>2, <3>4, FailedNow
    <3>6. Lifecycle!DeclareStuck(i)
      BY <3>1, <3>2, <3>4, <3>5 DEF Lifecycle!DeclareStuck, Lifecycle!Move
    <3> QED BY <2>3, <3>4, <3>6 DEF Lifecycle!LifecycleNext
  <2> QED BY <2>1, <2>4, <2>5, <2>6 DEF Counts
<1>5. ASSUME NEW i, NEW r, Closes(i, r) PROVE Goal
  <2>1. /\ Rewrites(i, r) /\ r.stuck = book[i].stuck /\ r.result \in {"TP", "Stop", "RollFailed"}
        /\ fails' = [fails EXCEPT ![i] = 0]
    BY <1>5 DEF Closes
  <2>2. i \in Positions /\ i \in Ids
    BY <2>1, RewriteIs, OpenIs
  <2>3. StateOf(r) = "closed"
    BY <2>1, <2>2 DEF Positions, Live, StateOf, Unclosed
  <2>4. fails' = [fails EXCEPT ![i] = fails'[i]] /\ fails'[i] = 0 /\ fails'[i] \in 0..RetryCap
    BY <1>1, <2>1, <2>2
  <2>5. /\ FailInv' /\ Status[i] = "open"
        /\ Status' = [Status EXCEPT ![i] = StateOf(r)]
        /\ Failed' = [Failed EXCEPT ![i] = Failed'[i]] /\ Failed'[i] = 0
    <3>1. /\ FailInv' /\ Status[i] = "open"
          /\ Status' = [Status EXCEPT ![i] = StateOf(r)]
          /\ Failed' = [Failed EXCEPT ![i] = Failed'[i]]
          /\ Failed'[i] = IF StateOf(r) = "stuck" THEN RetryCap ELSE fails'[i]
      <4>1. Rewrites(i, r)
        BY <2>1
      <4> QED BY <2>4, <4>1, RowStep
    <3> QED BY <2>3, <2>4, <3>1
  <2>6. Lifecycle!CloseOut(i)
    BY <2>3, <2>5 DEF Lifecycle!CloseOut, Lifecycle!Move
  <2> QED BY <2>2, <2>5, <2>6 DEF Lifecycle!LifecycleNext
<1>6. ASSUME NEW i, NEW r, Rolls(i, r) PROVE Goal
  <2>1. /\ Rewrites(i, r) /\ r.stuck = book[i].stuck /\ r.result = "Rolled"
        /\ fails' = [fails EXCEPT ![i] = 0]
    BY <1>6 DEF Rolls
  <2>2. i \in Positions /\ i \in Ids
    BY <2>1, RewriteIs, OpenIs
  <2>3. StateOf(r) = "open"
    BY <2>1, <2>2 DEF Positions, Live, StateOf, Unclosed
  <2>4. fails' = [fails EXCEPT ![i] = fails'[i]] /\ fails'[i] = 0 /\ fails'[i] \in 0..RetryCap
    BY <1>1, <2>1, <2>2
  <2>5. /\ FailInv' /\ Status[i] = "open"
        /\ Status' = [Status EXCEPT ![i] = StateOf(r)]
        /\ Failed' = [Failed EXCEPT ![i] = Failed'[i]] /\ Failed'[i] = 0
    <3>1. /\ FailInv' /\ Status[i] = "open"
          /\ Status' = [Status EXCEPT ![i] = StateOf(r)]
          /\ Failed' = [Failed EXCEPT ![i] = Failed'[i]]
          /\ Failed'[i] = IF StateOf(r) = "stuck" THEN RetryCap ELSE fails'[i]
      <4>1. Rewrites(i, r)
        BY <2>1
      <4> QED BY <2>4, <4>1, RowStep
    <3> QED BY <2>3, <2>4, <3>1
  <2>6. Status' = Status
    BY <2>3, <2>5, StatusNow
  <2>7. Lifecycle!Forgive(i)
    BY <2>5, <2>6 DEF Lifecycle!Forgive
  <2> QED BY <2>2, <2>5, <2>7 DEF Lifecycle!LifecycleNext
<1> HIDE DEF Goal
<1>7. Goal
  BY <1>2, <1>3, <1>4, <1>5, <1>6 DEF Effects, Goal
<1> QED
  BY <1>7 DEF Goal

(* ImplementsLifecycle: every row lives the life of TradeLifecycle: it opens once, *)
(* is given up as stuck only after RetryCap failures since its last roll, and      *)
(* stays closed (decision.py 925-1037).                                            *)
THEOREM StrategyImplementsLifecycle == ASSUME PricesAreNumbers PROVE Spec => ImplementsLifecycle
<1>1. Init => Lifecycle!LifecycleInit /\ FailInv
  <2> SUFFICES ASSUME Init PROVE Lifecycle!LifecycleInit /\ FailInv
    OBVIOUS
  <2>1. DOMAIN book = {} /\ fails = [i \in Ids |-> 0]
    BY DEF Init
  <2>2. Status = [i \in Ids |-> "absent"]
    BY <2>1, StatusNow
  <2>3. Failed = [i \in Ids |-> 0]
    BY <2>1, <2>2, FailedNow
  <2>4. FailInv
    BY <2>1, ClockNumbers DEF FailInv
  <2> QED BY <2>2, <2>3, <2>4 DEF Lifecycle!LifecycleInit
<1>2. ShapeInv /\ FailInv /\ [Next]_vars => FailInv' /\ [Lifecycle!LifecycleNext]_(Lifecycle!lvars)
  BY StepEffects, LifecycleStep
<1> QED
  BY <1>1, <1>2, ShapeHolds, PTL DEF Spec, ImplementsLifecycle, Lifecycle!LifecycleSpec

-----------------------------------------------------------------------------

(* What the series have cooled since: no close on a signal is forgotten.     *)
CoolInv ==
  /\ \A s \in DOMAIN autos : autos[s] <= clock
  /\ \A j \in DOMAIN book : book[j].notes = "signal" =>
        SeriesOf(book[j].near) \in DOMAIN autos /\ book[j].closedAt <= autos[SeriesOf(book[j].near)]

LEMMA CoolNext ==
  ASSUME PricesAreNumbers, ShapeInv, CoolInv, Effects
  PROVE  CoolInv'
<1>1. /\ book \in Seq(Row) /\ clock \in Nat /\ autos \in [DOMAIN autos -> Nat]
      /\ \A s \in DOMAIN autos : autos[s] \in Nat /\ autos[s] <= clock
      /\ \A j \in DOMAIN book : book[j] \in Row
      /\ \A j \in DOMAIN book : SoundRow(book[j])
  BY BookIs DEF ShapeInv, TypeInv, MarketType, BookInv, CoolInv
<1> DEFINE Held(p, a) == p.notes = "signal" => SeriesOf(p.near) \in DOMAIN a /\ p.closedAt <= a[SeriesOf(p.near)]
<1>2. \A j \in DOMAIN book : Held(book[j], autos)
  BY DEF CoolInv
<1>3. CASE Still
  <2>1. clock' \in Nat /\ clock' >= clock /\ autos' = autos /\ book' = book
    BY <1>3 DEF Still
  <2>2. \A s \in DOMAIN autos : autos[s] <= clock'
    BY <1>1, <2>1
  <2> QED BY <1>2, <2>1, <2>2 DEF CoolInv
<1>4. ASSUME NEW c, NEW qty, Enters(c, qty) PROVE CoolInv'
  <2> DEFINE n == Len(book) + 1
             r == Booked(c, qty)
  <2>1. /\ qty \in Nat /\ qty > 0 /\ DOMAIN book' = DOMAIN book \cup {n}
        /\ book'[n] = r /\ \A j \in DOMAIN book : book'[j] = book[j]
    BY <1>4, EntryIs
  <2>2. Candidate(c) /\ Fillable(c) /\ autos' = autos /\ clock' = clock
    BY <1>4 DEF Enters
  <2>3. r.notes = ""
    <3>1. JustEntered(Booked(c, qty), c, qty)
      BY <1>1, <2>1, <2>2, BookedIs
    <3> QED BY <3>1 DEF JustEntered
  <2> HIDE DEF n, r
  <2>4. Held(r, autos)
    BY <2>3
  <2> HIDE DEF Held
  <2>5. \A j \in DOMAIN book' : Held(book'[j], autos)
    BY <1>2, <2>1, <2>4
  <2> QED BY <1>1, <2>2, <2>5 DEF CoolInv, Held
<1>5. ASSUME NEW i, NEW r, Rewrites(i, r), autos' = autos, r.notes # "signal" PROVE CoolInv'
  <2>1. /\ DOMAIN book' = DOMAIN book
        /\ book'[i] = r /\ \A j \in DOMAIN book : j # i => book'[j] = book[j]
    BY <1>5, RewriteIs
  <2>2. clock' = clock
    BY <1>5 DEF Rewrites
  <2>3. Held(r, autos)
    BY <1>5
  <2> HIDE DEF Held
  <2>4. \A j \in DOMAIN book' : Held(book'[j], autos)
    BY <1>2, <2>1, <2>3
  <2> QED BY <1>1, <1>5, <2>2, <2>4 DEF CoolInv, Held
<1>6. ASSUME NEW i, NEW r, Marks(i, r) \/ Rolls(i, r) PROVE CoolInv'
  <2>1. Rewrites(i, r) /\ r.notes = book[i].notes /\ autos' = autos
    BY <1>6 DEF Marks, Rolls
  <2>2. i \in Positions /\ i \in DOMAIN book
    BY <2>1, RewriteIs
  <2>3. book[i].notes = ""
    BY <1>1, <2>2 DEF SoundRow, Positions, Live, Unclosed
  <2> QED BY <1>5, <2>1, <2>3
<1>7. ASSUME NEW i, NEW r, Closes(i, r) PROVE CoolInv'
  <2>1. Rewrites(i, r) /\ r.near = book[i].near /\ r.closedAt = clock /\ clock' = clock
    BY <1>7 DEF Closes, Rewrites
  <2>2. CASE r.notes # "signal"
    BY <1>5, <1>7, <2>1, <2>2 DEF Closes
  <2>3. CASE r.notes = "signal"
    <3> DEFINE a == Cool(book[i])
               s == SeriesOf(book[i].near)
    <3>1. autos' = a
      BY <1>7, <2>3 DEF Closes
    <3>2. /\ DOMAIN book' = DOMAIN book
          /\ book'[i] = r /\ \A j \in DOMAIN book : j # i => book'[j] = book[j]
      BY <2>1, RewriteIs
    <3>3. /\ DOMAIN a = DOMAIN autos \cup {s} /\ a[s] = clock
          /\ \A t \in DOMAIN autos : t # s => a[t] = autos[t]
      BY <1>1, CoolIs
    <3>4. SeriesOf(r.near) = s
      BY <2>1
    <3> HIDE DEF a, s
    <3>5. \A t \in DOMAIN a : a[t] <= clock
      BY <1>1, <3>3
    <3>6. Held(r, a)
      BY <1>1, <2>1, <3>3, <3>4
    <3>7. ASSUME NEW j \in DOMAIN book, j # i PROVE Held(book[j], a)
      <4> SUFFICES ASSUME book[j].notes = "signal"
                   PROVE  SeriesOf(book[j].near) \in DOMAIN a /\ book[j].closedAt <= a[SeriesOf(book[j].near)]
        OBVIOUS
      <4> DEFINE t == SeriesOf(book[j].near)
                 at == book[j].closedAt
      <4>1. t \in DOMAIN autos /\ at <= autos[t]
        BY <1>2
      <4>2. at \in Int
        BY <1>1 DEF Row
      <4> HIDE DEF t, at
      <4>3. t \in DOMAIN a /\ at <= a[t]
        BY <1>1, <3>3, <4>1, <4>2
      <4> QED BY <4>3 DEF t, at
    <3> HIDE DEF Held
    <3>8. \A j \in DOMAIN book' : Held(book'[j], a)
      BY <3>2, <3>6, <3>7
    <3> QED BY <2>1, <3>1, <3>5, <3>8 DEF CoolInv, Held
  <2> QED BY <2>2, <2>3
<1> QED
  BY <1>3, <1>4, <1>6, <1>7 DEF Effects

(* One more position adds its debits. *)
LEMMA RiskAdd ==
  ASSUME book \in Seq(Row), NEW S \in SUBSET {book[i] : i \in DOMAIN book},
         NEW r \in Row, r \notin S
  PROVE  RiskInUse(S \cup {r}) = r.debit * r.qty + RiskInUse(S)
<1> DEFINE T == S \cup {r}
           f == [p \in S |-> p.debit * p.qty]
           g == [p \in T |-> p.debit * p.qty]
<1>1. IsFiniteSet(S)
  BY RiskIs
<1>2. \A p \in T : p \in Row
  BY BookIs
<1>3. \A p \in S \cup {r} : g[p] \in Int
  BY <1>2, RowNumbers
<1>4. \A p \in S : f[p] = g[p]
  OBVIOUS
<1>5. DOMAIN f = S /\ DOMAIN g = T
  OBVIOUS
<1>6. RiskInUse(S) = SumFunctionOnSet(f, S)
  BY <1>5 DEF RiskInUse, SumFunction
<1>7. RiskInUse(T) = SumFunctionOnSet(g, T)
  BY <1>5 DEF RiskInUse, SumFunction
<1>8. g[r] = r.debit * r.qty
  OBVIOUS
<1> HIDE DEF f, g
<1>9. SumFunctionOnSet(g, S \cup {r}) = g[r] + SumFunctionOnSet(g, S)
  BY <1>1, <1>3, SumAdd
<1>10. SumFunctionOnSet(f, S) = SumFunctionOnSet(g, S)
  BY <1>1, <1>4, SumSame
<1> QED
  BY <1>6, <1>7, <1>8, <1>9, <1>10

LEMMA EntryWithinBudget ==
  ASSUME ShapeInv, NEW c, NEW qty, Enters(c, qty)
  PROVE  WithinBudget
<1> DEFINE n == Len(book) + 1
           r == Booked(c, qty)
<1> SUFFICES ASSUME mode = "paper" PROVE 100 * RiskInUse(OpenPositions') <= MaxTotalRiskPct * value
  BY DEF WithinBudget
<1>1. /\ qty \in Nat /\ qty > 0 /\ r \in Row /\ DOMAIN book' = DOMAIN book \cup {n} /\ n \notin DOMAIN book
      /\ book'[n] = r /\ \A j \in DOMAIN book : book'[j] = book[j]
  BY EntryIs
<1>2. /\ Candidate(c) /\ Fillable(c) /\ qty = SizeCandidate(c, value, OpenPositions, autos, clock)
      /\ book \in Seq(Row) /\ value \in Int
  BY DEF Enters, ShapeInv, TypeInv, Counted
<1>3. /\ r.id = n /\ r.qty = qty /\ r.debit = Fill(c).far - Fill(c).near
      /\ r.result = "Open" /\ ~ r.stuck
  <2>1. qty \in Nat /\ qty > 0 /\ Candidate(c) /\ Fillable(c) /\ book \in Seq(Row)
    BY <1>1, <1>2
  <2>2. JustEntered(Booked(c, qty), c, qty)
    BY <2>1, BookedIs
  <2> QED BY <2>2 DEF JustEntered
<1>4. r.debit = c.debit
  BY <1>2, <1>3, FillIs
<1> HIDE DEF r, n
<1>5. Positions' = Positions \cup {n}
  BY <1>1, <1>3 DEF Positions, Live
<1>6. OpenPositions' = OpenPositions \cup {r}
  <2>1. OpenPositions' = {book'[i] : i \in Positions'}
    BY DEF OpenPositions
  <2>2. \A i \in Positions : book'[i] = book[i]
    BY <1>1 DEF Positions
  <2> QED BY <1>1, <1>5, <2>1, <2>2 DEF OpenPositions
<1>7. r \notin OpenPositions
  <2>1. \A i \in Positions : book[i].id = i /\ i # n
    BY <1>1 DEF ShapeInv, BookInv, Positions
  <2> QED BY <1>3, <2>1 DEF OpenPositions
<1>8. OpenPositions \in SUBSET {book[i] : i \in DOMAIN book}
  BY DEF OpenPositions, Positions
<1>9. RiskInUse(OpenPositions) \in Int
  BY <1>2, <1>8, RiskIs
<1>10. RiskInUse(OpenPositions \cup {r}) = r.debit * r.qty + RiskInUse(OpenPositions)
  BY <1>1, <1>2, <1>7, <1>8, RiskAdd
<1>11. /\ MaxLoss(value, OpenPositions) \in Int
       /\ qty * CostPerUnit(c) <= MaxLoss(value, OpenPositions)
  BY <1>1, <1>2, <1>9, SizedIs
<1>12. CostPerUnit(c) \in Nat /\ CostPerUnit(c) >= c.debit /\ c.debit \in Nat
  BY <1>2, CostIs
<1> DEFINE used == RiskInUse(OpenPositions)
           own == (value * MaxLossPct) \div 100
           all == value * MaxTotalRiskPct
           cost == CostPerUnit(c)
<1>13. MaxLoss(value, OpenPositions) = Least(own, all \div 100 - used)
  BY DEF MaxLoss
<1>14. own \in Int
  BY <1>2, SizerNumbers
<1>15. all \in Int /\ all = MaxTotalRiskPct * value
  BY <1>2, SizerNumbers
<1>24. /\ used \in Int /\ all \div 100 \in Int
       /\ qty * cost <= Least(own, all \div 100 - used)
  BY <1>9, <1>11, <1>13, <1>15
<1> HIDE DEF used, own, all, cost
<1>16. qty * cost <= all \div 100 - used
  <2>1. cost \in Nat /\ qty * cost \in Int
    BY <1>1, <1>12 DEF cost
  <2> DEFINE x == qty * cost
             y == all \div 100
  <2>2. x \in Int /\ y \in Int /\ x <= Least(own, y - used)
    BY <1>24, <2>1
  <2> HIDE DEF x, y
  <2>3. x <= y - used
    BY <1>14, <1>24, <2>2 DEF Least
  <2> QED BY <2>3 DEF x, y
<1>17. qty * c.debit <= qty * cost
  <2>1. cost \in Nat /\ c.debit \in Nat /\ c.debit <= cost
    BY <1>12 DEF cost
  <2> DEFINE d == c.debit
  <2> HIDE DEF d
  <2>2. d \in Nat /\ d <= cost
    BY <2>1 DEF d
  <2>3. qty * d <= qty * cost
    BY <1>1, <2>1, <2>2
  <2> QED BY <2>3 DEF d
<1>18. qty * cost \in Int /\ qty * c.debit \in Int /\ used \in Int
  BY <1>1, <1>9, <1>12 DEF cost, used
<1>19. r.debit * r.qty = qty * c.debit
  BY <1>1, <1>3, <1>4, <1>12
<1>20. RiskInUse(OpenPositions') = qty * c.debit + used
  BY <1>6, <1>10, <1>19 DEF used
<1> DEFINE mine == qty * c.debit
<1>21. mine \in Int /\ mine <= all \div 100 - used
  BY <1>15, <1>16, <1>17, <1>18
<1> HIDE DEF mine
<1>22. mine + used <= all \div 100
  BY <1>15, <1>18, <1>21
<1>23. 100 * (mine + used) <= all
  BY <1>15, <1>18, <1>21, <1>22
<1> QED
  BY <1>15, <1>20, <1>23 DEF mine

LEMMA EntryCooled ==
  ASSUME ShapeInv, CoolInv, NEW c, NEW qty, Enters(c, qty)
  PROVE  CooledDown
<1> DEFINE s == SeriesOf(c.near)
<1>1. /\ qty \in Nat /\ qty > 0 /\ Len(book') = Len(book) + 1
      /\ book'[Len(book) + 1] = Booked(c, qty)
  BY EntryIs
<1>2. /\ Candidate(c) /\ Fillable(c) /\ qty = SizeCandidate(c, value, Counted, autos, clock)
      /\ book \in Seq(Row) /\ value \in Int /\ clock \in Nat /\ autos \in [DOMAIN autos -> Nat]
  BY DEF Enters, ShapeInv, TypeInv, MarketType
<1>3. Entry.near = c.near
  <2>1. Booked(c, qty).near = c.near
    <3>1. JustEntered(Booked(c, qty), c, qty)
      BY <1>1, <1>2, BookedIs
    <3> QED BY <3>1 DEF JustEntered
  <2> QED BY <1>1, <2>1 DEF Entry
<1>4. RiskInUse(Counted) \in Int
  BY <1>2, RiskIs DEF Counted, OpenPositions, Positions
<1>5. s \in DOMAIN autos => ~ (clock - autos[s] < Cooldown)
  BY <1>1, <1>2, <1>4, SizedIs
<1> SUFFICES ASSUME NEW j \in DOMAIN book, book[j].notes = "signal", SeriesOf(book[j].near) = s
             PROVE  clock - book[j].closedAt >= Cooldown
  BY <1>3 DEF CooledDown
<1>6. s \in DOMAIN autos /\ book[j].closedAt <= autos[s]
  BY DEF CoolInv
<1>7. book[j].closedAt \in Int
  BY <1>2, BookIs DEF Row
<1>8. autos[s] \in Nat
  BY <1>2, <1>6
<1> DEFINE t == autos[s]
           at == book[j].closedAt
<1>9. t \in Nat /\ at \in Int /\ at <= t /\ ~ (clock - t < Cooldown)
  BY <1>5, <1>6, <1>7, <1>8
<1> HIDE DEF t, at
<1>10. clock - at >= Cooldown
  BY <1>2, <1>9, SizerNumbers
<1> QED
  BY <1>10 DEF at

(* What the gates let through, for an entry. *)
LEMMA GateIs ==
  ASSUME NEW c, NEW qty \in Nat, ChainOK(chain), qty > 0,
         LiquidityGate(c, qty, chain, FALSE, TRUE)
  PROVE  /\ c.near \in DOMAIN chain => chain[c.near].bidSize >= qty
         /\ c.far \in DOMAIN chain => chain[c.far].askSize >= qty
<1>1. ASSUME NEW size \in Nat, Covers(size, qty, TRUE) PROVE size >= qty
  BY <1>1, SizerNumbers DEF Covers, Greatest
<1>2. \A i \in DOMAIN chain : chain[i].bidSize \in Nat /\ chain[i].askSize \in Nat
  BY DEF ChainOK, Quote
<1>3. /\ c.near \in DOMAIN chain => Covers(chain[c.near].bidSize, qty, TRUE)
      /\ c.far \in DOMAIN chain => Covers(chain[c.far].askSize, qty, TRUE)
  BY DEF LiquidityGate
<1> QED
  BY <1>1, <1>2, <1>3

LEMMA EntryGains ==
  ASSUME ShapeInv, NEW c, NEW qty, Enters(c, qty)
  PROVE  Gainful /\ Absorbed
<1>1. /\ qty \in Nat /\ qty > 0 /\ Len(book') = Len(book) + 1
      /\ book'[Len(book) + 1] = Booked(c, qty)
  BY EntryIs
<1>2. /\ Candidate(c) /\ Fillable(c) /\ book \in Seq(Row) /\ c \in found
      /\ c.ev >= MinEv /\ LiquidityGate(c, qty, chain, FALSE, mode \in Sized) /\ ChainOK(chain)
  BY DEF Enters, Acceptable, ShapeInv, TypeInv, MarketType
<1>3. Entry.near = c.near /\ Entry.far = c.far /\ Entry.qty = qty
  <2>1. Booked(c, qty).near = c.near /\ Booked(c, qty).far = c.far /\ Booked(c, qty).qty = qty
    <3>1. JustEntered(Booked(c, qty), c, qty)
      BY <1>1, <1>2, BookedIs
    <3> QED BY <3>1 DEF JustEntered
  <2> QED BY <1>1, <2>1 DEF Entry
<1>4. c.gains
  <2>1. MinEv \in Nat /\ MinEv > 0
    BY StrategyAssumption DEF StrategyAssumption
  <2> QED BY <1>2, <2>1 DEF Candidate
<1>5. Absorbed
  <2> SUFFICES ASSUME mode \in Sized
               PROVE  /\ Entry.near \in DOMAIN chain => chain[Entry.near].bidSize >= Entry.qty
                      /\ Entry.far \in DOMAIN chain => chain[Entry.far].askSize >= Entry.qty
    BY DEF Absorbed
  <2>1. LiquidityGate(c, qty, chain, FALSE, TRUE)
    BY <1>2
  <2> QED BY <1>1, <1>2, <1>3, <2>1, GateIs
<1> QED
  BY <1>2, <1>3, <1>4, <1>5 DEF Gainful

(* Only an entry lengthens the book. *)
LEMMA EntryAlone ==
  ASSUME PricesAreNumbers, ShapeInv, Effects, Entered
  PROVE  \E c, qty : Enters(c, qty)
<1>1. Len(book) \in Nat /\ Len(book') > Len(book)
  BY BookIs DEF Entered, ShapeInv, TypeInv
<1>2. ~ Still
  BY <1>1 DEF Still
<1>3. ASSUME NEW i, NEW r, Marks(i, r) \/ Closes(i, r) \/ Rolls(i, r) PROVE FALSE
  <2>1. Rewrites(i, r)
    BY <1>3 DEF Marks, Closes, Rolls
  <2> QED BY <1>1, <2>1, RewriteIs
<1> QED
  BY <1>2, <1>3 DEF Effects

(* EntryKeepsTheLimits (decision.py 605-651, sizer.py 97-158, scanner.py 261-286): *)
(* whatever a scan found, however the market moved since and whatever was entered  *)
(* before it in the same scan, the position that is entered keeps the budget and   *)
(* the cooldown, gains at some price, and fits the book as it stands.              *)
THEOREM EntriesKeepTheLimits == ASSUME PricesAreNumbers PROVE Spec => EntryKeepsTheLimits
<1>1. Init => CoolInv
  BY DEF Init, CoolInv
<1>2. ShapeInv /\ CoolInv /\ [Next]_vars => CoolInv'
  BY StepEffects, CoolNext
<1>3. ShapeInv /\ CoolInv /\ [Next]_vars => (Entered => WithinBudget /\ CooledDown /\ Gainful /\ Absorbed)
  BY StepEffects, EntryAlone, EntryWithinBudget, EntryCooled, EntryGains
<1> QED
  BY <1>1, <1>2, <1>3, ShapeHolds, PTL DEF Spec, EntryKeepsTheLimits

-----------------------------------------------------------------------------

(* In a replay the clock stands still, and so no position ever has fewer     *)
(* days left than it had at its entry, and none is rolled.                   *)
InReplay(p) ==
  /\ p.result \in {"Open", "TP", "Stop"}
  /\ p.rollPnl = 0
  /\ p.nearDays = NearDaysLeft(p)

ReplayInv ==
  mode = "backtest" =>
    /\ \A c \in found : c.nearDays = NearDaysLeft(c)
    /\ \A i \in DOMAIN book : InReplay(book[i])

LEMMA ReplayStep ==
  ASSUME ShapeInv, [Next]_vars
  PROVE  /\ mode' = mode /\ (mode = "backtest" => clock' = clock)
         /\ found' \subseteq found \cup Scan(chain, spots, Day, Asset)
<1> DEFINE Same == UNCHANGED <<mode, clock, found>>
<1>1. ASSUME NEW f \in Frames, MarketMoves(f) PROVE mode' = mode /\ mode # "backtest" /\ found' = found
  BY <1>1 DEF MarketMoves
<1>2. ASSUME NEW f \in Frames, FeedFrame(f) PROVE Same
  BY <1>2, Zenon DEF FeedFrame
<1>3. ASSUME StartScan
      PROVE  UNCHANGED <<mode, clock>> /\ found' \in {{}, Scan(chain, spots, Day, Asset)}
  BY <1>3 DEF StartScan, market
<1>4. ASSUME StartMonitor \/ FinishReplay \/ FinishMonitor PROVE Same
  BY <1>4 DEF StartMonitor, FinishReplay, FinishMonitor, market
<1>5. ASSUME NEW c, TryEntry(c) PROVE UNCHANGED <<mode, clock>> /\ found' \subseteq found
  BY <1>5 DEF TryEntry, Enter, Skip, market
<1>6. ASSUME NEW i, Monitors(i) PROVE Same
  <2>1. Turn(i)
    BY <1>6 DEF Monitors, PassOver, CloseExpired, AwaitConfirmation, CloseOnSignal, GiveUp, TryRoll,
                CloseUnrollable, Hold, Looks
  <2> QED BY <2>1 DEF Turn, market
<1>7. UNCHANGED vars => Same
  BY DEF vars, market
<1> QED
  BY <1>1, <1>2, <1>3, <1>4, <1>5, <1>6, <1>7 DEF Next, Ticks

LEMMA ReplayNext ==
  ASSUME PricesAreNumbers, ShapeInv, ReplayInv, [Next]_vars, Effects
  PROVE  ReplayInv'
<1> SUFFICES ASSUME mode' = "backtest"
             PROVE  /\ (\A c \in found : c.nearDays = NearDaysLeft(c))'
                    /\ (\A i \in DOMAIN book : InReplay(book[i]))'
  BY DEF ReplayInv
<1>1. /\ mode = "backtest" /\ clock' = clock
      /\ found' \subseteq found \cup Scan(chain, spots, Day, Asset)
  BY ReplayStep
<1>2. \A p : NearDaysLeft(p)' = NearDaysLeft(p')
  BY <1>1 DEF NearDaysLeft, Day
<1>3. /\ \A c \in found : c.nearDays = NearDaysLeft(c)
      /\ \A i \in DOMAIN book : InReplay(book[i])
  BY <1>1 DEF ReplayInv
<1>4. \A c \in Scan(chain, spots, Day, Asset) : c.nearDays = NearDaysLeft(c)
  BY FoundIs DEF ShapeInv, TypeInv
<1>5. \A c \in found' : c.nearDays = NearDaysLeft(c)
  BY <1>1, <1>3, <1>4
<1>6. (\A c \in found : c.nearDays = NearDaysLeft(c))'
  BY <1>1, <1>5 DEF NearDaysLeft, Day
<1>7. \A i \in DOMAIN book' : InReplay(book'[i])
  <2>1. CASE Still
    BY <1>3, <2>1 DEF Still
  <2>2. ASSUME NEW c, NEW qty, Enters(c, qty) PROVE \A i \in DOMAIN book' : InReplay(book'[i])
    <3> DEFINE n == Len(book) + 1
               r == Booked(c, qty)
    <3>1. /\ qty \in Nat /\ qty > 0 /\ DOMAIN book' = DOMAIN book \cup {n}
          /\ book'[n] = r /\ \A j \in DOMAIN book : book'[j] = book[j]
      BY <2>2, EntryIs
    <3>2. c \in found /\ Candidate(c) /\ Fillable(c) /\ book \in Seq(Row)
      BY <2>2 DEF Enters, ShapeInv, TypeInv
    <3>3. r.near = c.near /\ r.nearDays = c.nearDays
      <4>1. JustEntered(Booked(c, qty), c, qty)
        BY <3>1, <3>2, BookedIs
      <4> QED BY <4>1 DEF JustEntered
    <3>4. r.result = "Open" /\ r.rollPnl = 0
      <4>1. JustEntered(Booked(c, qty), c, qty)
        BY <3>1, <3>2, BookedIs
      <4> QED BY <4>1 DEF JustEntered
    <3>5. c.nearDays = NearDaysLeft(c)
      BY <1>3, <3>2
    <3> HIDE DEF n, r
    <3>6. InReplay(r)
      BY <3>3, <3>4, <3>5 DEF InReplay, NearDaysLeft
    <3> QED BY <1>3, <3>1, <3>6
  <2>3. ASSUME NEW i, NEW r, Rewrites(i, r), InReplay(r)
        PROVE  \A j \in DOMAIN book' : InReplay(book'[j])
    BY <1>3, <2>3, RewriteIs
  <2>4. ASSUME NEW i, NEW r, Marks(i, r) \/ Closes(i, r) \/ Rolls(i, r)
        PROVE  Rewrites(i, r) /\ InReplay(r)
    <3>1. Rewrites(i, r)
      BY <2>4 DEF Marks, Closes, Rolls
    <3>2. InReplay(book[i]) /\ book[i] \in Row
      BY <1>3, <3>1, RewriteIs
    <3>3. book[i].nearDays \in Nat /\ book[i].nearDays = NearDaysLeft(book[i])
      BY <3>2 DEF InReplay, Row
    <3>4. ~(NearDaysLeft(book[i]) < book[i].nearDays)
      BY <3>3
    <3>5. /\ r.near = book[i].near /\ r.rollPnl = book[i].rollPnl
          /\ r.result \in {book[i].result, "TP", "Stop"}
      BY <2>4, <3>4 DEF Marks, Closes, Rolls
    <3>6. r.nearDays = book[i].nearDays
      BY <3>1 DEF Rewrites, SameTerms
    <3> QED BY <3>1, <3>2, <3>5, <3>6 DEF InReplay, NearDaysLeft
  <2> QED BY <2>1, <2>2, <2>3, <2>4 DEF Effects
<1>8. (\A i \in DOMAIN book : InReplay(book[i]))'
  BY <1>1, <1>7 DEF InReplay, NearDaysLeft, Day
<1> QED
  BY <1>6, <1>8

(* A replay that is done has its result, and nothing happens any more.       *)
DoneInv ==
  /\ mode = "paper" => due = "tick"
  /\ due = "done" => phase = "idle" /\ mode = "backtest" /\ report = BuildResult

LEMMA DoneNext ==
  ASSUME ShapeInv, DoneInv, [Next]_vars
  PROVE  DoneInv'
<1> DEFINE Same == UNCHANGED <<mode, due, phase, book, report>>
<1>1. ASSUME Same PROVE DoneInv'
  BY <1>1 DEF DoneInv, BuildResult, Reported, Cumulated, Pnls
<1>2. ASSUME UNCHANGED <<mode, due>>, due # "done" PROVE DoneInv'
  BY <1>2 DEF DoneInv
<1>3. ASSUME NEW f \in Frames, MarketMoves(f) PROVE Same
  BY <1>3, Zenon DEF MarketMoves, replay
<1>4. ASSUME NEW f \in Frames, FeedFrame(f) PROVE DoneInv'
  BY <1>4 DEF FeedFrame, DoneInv
<1>5. ASSUME StartScan \/ StartMonitor PROVE DoneInv'
  <2>1. mode' = mode /\ due \in {"tick", "scan", "monitor"} /\ due' # "done"
    BY <1>5 DEF StartScan, StartMonitor
  <2>2. due = "tick" => due' = "tick"
    BY <1>5 DEF StartScan, StartMonitor
  <2> QED BY <2>1, <2>2 DEF DoneInv
<1>6. ASSUME FinishReplay PROVE DoneInv'
  <2>1. due = "frame" /\ due' = "done" /\ phase = "idle" /\ report' = BuildResult
        /\ UNCHANGED <<mode, phase, book>>
    BY <1>6 DEF FinishReplay
  <2>2. mode = "backtest"
    BY <2>1 DEF DoneInv, ShapeInv, TypeInv
  <2>3. BuildResult' = BuildResult
    BY <2>1 DEF BuildResult, Reported, Cumulated, Pnls
  <2> QED BY <2>1, <2>2, <2>3 DEF DoneInv
<1>7. ASSUME FinishMonitor PROVE DoneInv'
  <2>1. UNCHANGED <<mode, due>> /\ phase = "monitor"
    BY <1>7 DEF FinishMonitor, replay
  <2> QED BY <1>2, <2>1 DEF DoneInv
<1>8. ASSUME NEW c, TryEntry(c) PROVE DoneInv'
  <2>1. UNCHANGED <<mode, due>> /\ phase = "scan"
    BY <1>8 DEF TryEntry, replay
  <2> QED BY <1>2, <2>1 DEF DoneInv
<1>9. ASSUME NEW i, Monitors(i) PROVE DoneInv'
  <2>1. Turn(i)
    BY <1>9 DEF Monitors, PassOver, CloseExpired, AwaitConfirmation, CloseOnSignal, GiveUp, TryRoll,
                CloseUnrollable, Hold, Looks
  <2>2. UNCHANGED <<mode, due>> /\ phase = "monitor"
    BY <2>1 DEF Turn, replay
  <2> QED BY <1>2, <2>2 DEF DoneInv
<1>10. UNCHANGED vars => Same
  BY DEF vars, replay
<1> QED
  BY <1>1, <1>3, <1>4, <1>5, <1>6, <1>7, <1>8, <1>9, <1>10 DEF Next, Ticks

(* What is zero everywhere sums to zero. *)
LEMMA SumZero ==
  ASSUME NEW f, NEW S, IsFiniteSet(S), \A x \in S : f[x] = 0
  PROVE  SumFunctionOnSet(f, S) = 0
<1> DEFINE Bad == {T \in SUBSET S : SumFunctionOnSet(f, T) # 0}
<1> SUFFICES ASSUME Bad # {} PROVE FALSE
  OBVIOUS
<1>1. \A T \in Bad : IsFiniteSet(T)
  BY FS_Subset
<1>2. PICK T \in Bad : \A U \in Bad : Cardinality(T) <= Cardinality(U)
  <2> HIDE DEF Bad
  <2> QED BY <1>1, Smallest
<1> DEFINE U == T \ {Pick(T)}
<1>3. T \in SUBSET S /\ SumFunctionOnSet(f, T) # 0
  BY <1>2
<1>4. SumFunctionOnSet(f, T) = IF T = {} THEN 0 ELSE f[Pick(T)] + SumFunctionOnSet(f, U)
  BY <1>1, <1>2, SumEquation
<1>5. T # {}
  BY <1>3, <1>4
<1>6. Pick(T) \in T
  BY <1>5, PickIn
<1>7. Cardinality(U) = Cardinality(T) - 1 /\ Cardinality(T) \in Nat
  BY <1>1, <1>6, FS_RemoveElement, FS_CardinalityType
<1>8. U \notin Bad
  <2> HIDE DEF Bad, U
  <2> QED BY <1>2, <1>7
<1>9. SumFunctionOnSet(f, U) = 0 /\ f[Pick(T)] = 0
  BY <1>3, <1>6, <1>8
<1> HIDE DEF U
<1> QED BY <1>3, <1>4, <1>5, <1>9

LEMMA ReportCounts ==
  ASSUME ShapeInv, ReplayInv, DoneInv, LedgerInv
  PROVE  ReportCountsEveryClose
<1> SUFFICES ASSUME due = "done"
             PROVE  report.total = todayPnl /\ report.trades = Cardinality(Closed)
  BY DEF ReportCountsEveryClose
<1>1. report = BuildResult /\ \A i \in DOMAIN book : InReplay(book[i])
  BY DEF DoneInv, ReplayInv
<1>2. Reported = Closed
  BY <1>1 DEF Reported, Closed, InReplay
<1>3. report.trades = Cardinality(Closed) /\ report.total = SumFunctionOnSet(Pnls, Closed)
  BY <1>1, <1>2 DEF BuildResult
<1>4. book \in Seq(Row)
  BY DEF ShapeInv, TypeInv
<1>5. IsFiniteSet(DOMAIN book)
  BY <1>4, BookIs
<1>6. \A i \in DOMAIN book : RollPnls[i] = 0
  BY <1>1 DEF InReplay, RollPnls
<1>7. RolledPnl = 0
  BY <1>5, <1>6, SumZero DEF RolledPnl
<1>8. todayPnl = ClosedPnl + RolledPnl
  BY DEF LedgerInv
<1>9. ClosedPnl \in Int
  BY <1>4, RowSums DEF ClosedPnl, Closed
<1> QED
  BY <1>3, <1>7, <1>8, <1>9 DEF ClosedPnl

-----------------------------------------------------------------------------

(* The fold that MaxDrawdown computes, over the points of S.                 *)
IsRun(g, e, S) ==
  g = [s \in SUBSET S |->
        IF s = {} THEN [peak |-> e[1], mdd |-> 0]
        ELSE [peak |-> Greatest(g[s \ {Max(s)}].peak, e[Max(s)]),
              mdd |-> Greatest(g[s \ {Max(s)}].mdd,
                               Greatest(g[s \ {Max(s)}].peak, e[Max(s)]) - e[Max(s)])]]

Run(e, S) == (CHOOSE g : IsRun(g, e, S))[S]

LEMMA DrawdownIsRun == ASSUME NEW e PROVE MaxDrawdown(e) = Run(e, DOMAIN e).mdd
BY Zenon DEF MaxDrawdown, FoldLeft, MapThenFoldSet, IsRun, Run

LEMMA RunIsFold == ASSUME NEW g, NEW e, NEW S PROVE IsRun(g, e, S) <=> IsFold(g, "curve", e, S)
<1> DEFINE d(s) == IF s = {} THEN [peak |-> e[1], mdd |-> 0]
                   ELSE [peak |-> Greatest(g[s \ {Max(s)}].peak, e[Max(s)]),
                         mdd |-> Greatest(g[s \ {Max(s)}].mdd,
                                          Greatest(g[s \ {Max(s)}].peak, e[Max(s)]) - e[Max(s)])]
           f(s) == IF s = {} THEN Start("curve", e)
                   ELSE Combine("curve", g[s \ {Choice("curve", s)}], e[Choice("curve", s)])
<1>1. \A s \in SUBSET S : d(s) = f(s)
  BY DEF Start, Combine, Choice, Highest
<1>2. IsRun(g, e, S) <=> g = [s \in SUBSET S |-> d(s)]
  BY Zenon DEF IsRun
<1>3. IsFold(g, "curve", e, S) <=> g = [s \in SUBSET S |-> f(s)]
  BY Zenon DEF IsFold
<1> HIDE DEF d, f
<1>4. [s \in SUBSET S |-> d(s)] = [s \in SUBSET S |-> f(s)]
  BY <1>1
<1> QED BY <1>2, <1>3, <1>4, Zenon

LEMMA CurveChooses ==
  ASSUME NEW n \in Nat
  PROVE  IsFiniteSet(1..n) /\ Chooses("curve", 1..n) /\ (n > 0 => Choice("curve", 1..n) = n)
<1>1. IsFiniteSet(1..n)
  BY FS_Interval
<1>2. ASSUME NEW s \in SUBSET (1..n), s # {} PROVE Max(s) \in s /\ \A y \in s : Max(s) >= y
  <2> DEFINE S == 1..n
  <2>0. IsFiniteSet(S) /\ s \in SUBSET S /\ S \in SUBSET Int
    BY <1>1
  <2> HIDE DEF S
  <2>1. IsFiniteSet(s) /\ s \in SUBSET Int
    BY <2>0, FS_Subset
  <2> QED BY <1>2, <2>1, MaxIs
<1>3. Chooses("curve", 1..n)
  BY <1>2 DEF Chooses, Choice
<1>4. ASSUME n > 0 PROVE Max(1..n) = n
  <2>1. 1..n \in SUBSET (1..n) /\ 1..n # {} /\ n \in 1..n
    BY <1>4
  <2>2. Max(1..n) \in 1..n /\ Max(1..n) >= n
    BY <2>1, <1>2
  <2> QED BY <2>2
<1> QED
  BY <1>1, <1>3, <1>4 DEF Choice

(* The run up to a point, from the run up to the point before.               *)
LEMMA RunEquation ==
  ASSUME NEW e, NEW n \in Nat
  PROVE  Run(e, 1..n) = IF n = 0 THEN [peak |-> e[1], mdd |-> 0]
                        ELSE Combine("curve", Run(e, 1..(n - 1)), e[n])
<1> DEFINE on(U) == CHOOSE g : IsRun(g, e, U)
           S == 1..n
           T == S \ {Choice("curve", S)}
<1>1. IsFiniteSet(S) /\ Chooses("curve", S)
  BY CurveChooses
<1>2. ASSUME NEW U, IsFiniteSet(U), Chooses("curve", U) PROVE IsFold(on(U), "curve", e, U)
  <2>1. \E g : IsFold(g, "curve", e, U)
    BY <1>2, FoldExists
  <2>2. \E g : IsRun(g, e, U)
    BY <2>1, RunIsFold, Zenon
  <2>3. IsRun(on(U), e, U)
    BY <2>2, Zenon
  <2> HIDE DEF on
  <2> QED BY <2>3, RunIsFold
<1>3. IsFiniteSet(T) /\ Chooses("curve", T)
  <2> HIDE DEF S
  <2> QED BY <1>1, FS_RemoveElement DEF Chooses
<1>4. IsFold(on(S), "curve", e, S) /\ IsFold(on(T), "curve", e, T)
  <2> HIDE DEF on, S, T
  <2> QED BY <1>1, <1>2, <1>3
<1>5. on(S)[S] = IF S = {} THEN Start("curve", e)
                 ELSE Combine("curve", on(T)[T], e[Choice("curve", S)])
  <2> DEFINE h == on(T)
             g == on(S)
  <2>1. IsFold(g, "curve", e, S) /\ IsFold(h, "curve", e, S \ {Choice("curve", S)})
    BY <1>4
  <2> HIDE DEF on, S, T, g, h
  <2>2. g[S] = IF S = {} THEN Start("curve", e)
               ELSE Combine("curve", h[S \ {Choice("curve", S)}], e[Choice("curve", S)])
    BY <1>1, <2>1, FoldEquation
  <2> QED BY <2>2 DEF g, h, T
<1>6. Run(e, S) = on(S)[S] /\ Run(e, T) = on(T)[T]
  BY Zenon DEF Run
<1> HIDE DEF on
<1>7. CASE n = 0
  <2>1. S = {}
    BY <1>7
  <2> QED BY <1>5, <1>6, <1>7, <2>1 DEF Start
<1>8. CASE n # 0
  <2>1. Choice("curve", S) = n
    BY <1>8, CurveChooses
  <2>2. S # {} /\ T = 1..(n - 1)
    BY <1>8, <2>1
  <2> HIDE DEF S, T
  <2> QED BY <1>5, <1>6, <1>8, <2>1, <2>2 DEF S
<1> QED BY <1>7, <1>8

(* What holds of 1 and passes from a number to the next, of those up to n.   *)
LEMMA LeastNumber ==
  ASSUME NEW C \in SUBSET Nat, C # {}
  PROVE  \E n \in C : \A m \in C : n <= m
<1>1. PICK n \in C : \A m \in C : ~(<<m, n>> \in Less)
  BY WFMin, LessWF
<1>2. ASSUME NEW m \in C PROVE n <= m
  <2>1. <<m, n>> \notin Less
    BY <1>1
  <2> QED BY <2>1 DEF Less
<1> QED BY <1>2

(* The peak and the drawdown of the first n points of a curve.               *)
Tops(e, n, peak) ==
  /\ peak \in Int
  /\ \E j \in 1..n : peak = e[j]
  /\ \A j \in 1..n : e[j] <= peak

Drops(e, n, mdd) ==
  /\ mdd \in Int
  /\ \E j \in 1..n, k \in 1..n : j <= k /\ mdd = e[j] - e[k]
  /\ \A j \in 1..n, k \in 1..n : j <= k => e[j] - e[k] <= mdd

LEMMA RunStep ==
  ASSUME NEW e, NEW n \in Nat, n > 1, \A j \in 1..n : e[j] \in Int,
         NEW peak, NEW mdd, Tops(e, n - 1, peak), Drops(e, n - 1, mdd)
  PROVE  /\ Tops(e, n, Greatest(peak, e[n]))
         /\ Drops(e, n, Greatest(mdd, Greatest(peak, e[n]) - e[n]))
<1> DEFINE m == n - 1
           top == Greatest(peak, e[n])
           drop == Greatest(mdd, top - e[n])
<1>1. /\ m \in Nat /\ n \in 1..n /\ \A j \in 1..n : j \in 1..m \/ j = n
      /\ 1..m \subseteq 1..n /\ \A j \in 1..m : j < n
  OBVIOUS
<1>2. peak \in Int /\ mdd \in Int /\ e[n] \in Int
  BY <1>1 DEF Tops, Drops
<1> HIDE DEF m
<1>3. Tops(e, m, peak) /\ Drops(e, m, mdd)
  BY DEF m
<1>4. top \in {peak, e[n]} /\ top \in Int /\ top >= peak /\ top >= e[n]
  BY <1>2 DEF Greatest
<1>5. drop \in {mdd, top - e[n]} /\ drop \in Int /\ drop >= mdd /\ drop >= top - e[n]
  BY <1>2, <1>4 DEF Greatest
<1> HIDE DEF top, drop
<1>6. Tops(e, n, top)
  <2>1. \E j \in 1..n : top = e[j]
    BY <1>1, <1>3, <1>4 DEF Tops
  <2>2. ASSUME NEW j \in 1..n PROVE e[j] <= top
    <3>1. CASE j \in 1..m
      <4>1. e[j] <= peak
        BY <1>3, <3>1 DEF Tops
      <4> QED BY <1>2, <1>4, <4>1
    <3> QED BY <1>1, <1>4, <3>1
  <2> QED BY <1>4, <2>1, <2>2 DEF Tops
<1>7. Drops(e, n, drop)
  <2>1. \E j \in 1..n, k \in 1..n : j <= k /\ drop = e[j] - e[k]
    <3>1. CASE drop = mdd
      BY <1>1, <1>3, <3>1 DEF Drops
    <3>2. CASE drop = top - e[n]
      <4>1. PICK j \in 1..n : top = e[j]
        BY <1>6 DEF Tops
      <4>2. j <= n
        OBVIOUS
      <4> QED BY <1>1, <3>2, <4>1, <4>2
    <3> QED BY <1>5, <3>1, <3>2
  <2>2. ASSUME NEW j \in 1..n, NEW k \in 1..n, j <= k PROVE e[j] - e[k] <= drop
    <3>1. CASE k = n
      <4>1. e[j] <= top /\ e[j] \in Int
        BY <1>6 DEF Tops
      <4> QED BY <1>2, <1>4, <1>5, <3>1, <4>1
    <3>2. CASE k \in 1..m
      <4>1. j \in 1..m
        BY <1>1, <2>2, <3>2 DEF m
      <4>2. e[j] - e[k] <= mdd
        BY <1>3, <2>2, <3>2, <4>1 DEF Drops
      <4>3. e[j] \in Int /\ e[k] \in Int
        OBVIOUS
      <4> DEFINE x == e[j] - e[k]
      <4>4. x \in Int
        BY <4>3
      <4> HIDE DEF x
      <4>5. x <= drop
        BY <1>2, <1>5, <4>2, <4>4 DEF x
      <4> QED BY <4>5 DEF x
    <3> QED BY <1>1, <3>1, <3>2
  <2> QED BY <1>5, <2>1, <2>2 DEF Drops
<1> QED
  BY <1>6, <1>7 DEF top, drop

LEMMA RunIs ==
  ASSUME NEW e, NEW n \in Nat, n > 0, \A j \in 1..n : e[j] \in Int
  PROVE  Tops(e, n, Run(e, 1..n).peak) /\ Drops(e, n, Run(e, 1..n).mdd)
<1> DEFINE Right(k) == Tops(e, k, Run(e, 1..k).peak) /\ Drops(e, k, Run(e, 1..k).mdd)
           Bad == {k \in 1..n : ~ Right(k)}
<1> SUFFICES ASSUME Bad # {} PROVE FALSE
  <2>1. n \in 1..n
    OBVIOUS
  <2> QED BY <2>1
<1>1. PICK k \in Bad : \A m \in Bad : k <= m
  <2>1. Bad \in SUBSET Nat
    OBVIOUS
  <2> HIDE DEF Bad
  <2> QED BY <2>1, LeastNumber
<1>2. k \in 1..n /\ ~ Right(k) /\ k \in Nat
  BY <1>1
<1> DEFINE before == Run(e, 1..(k - 1))
<1>3. Run(e, 1..k) = Combine("curve", before, e[k])
  <2>1. k # 0
    BY <1>2
  <2> QED BY <1>2, <2>1, RunEquation
<1>4. /\ Run(e, 1..k).peak = Greatest(before.peak, e[k])
      /\ Run(e, 1..k).mdd = Greatest(before.mdd, Greatest(before.peak, e[k]) - e[k])
  BY <1>3 DEF Combine, Highest
<1>5. CASE k = 1
  <2>1. before = [peak |-> e[1], mdd |-> 0]
    <3>1. k - 1 = 0
      BY <1>5
    <3> QED BY <3>1, RunEquation
  <2>2. e[1] \in Int /\ 1..1 = {1}
    BY <1>2, <1>5
  <2>3. Run(e, 1..k).peak = e[1] /\ Run(e, 1..k).mdd = 0
    BY <1>4, <1>5, <2>1, <2>2 DEF Greatest
  <2> QED BY <1>2, <1>5, <2>2, <2>3 DEF Tops, Drops
<1>6. CASE k > 1
  <2>1. k - 1 \in 1..n /\ ~(k <= k - 1)
    BY <1>2, <1>6
  <2>2. k - 1 \notin Bad
    <3> HIDE DEF Bad
    <3> QED BY <1>1, <2>1
  <2>3. Right(k - 1)
    <3> HIDE DEF Right
    <3> QED BY <2>1, <2>2
  <2>4. \A j \in 1..k : e[j] \in Int
    BY <1>2
  <2> DEFINE p == before.peak
             d == before.mdd
  <2>5. Tops(e, k - 1, p) /\ Drops(e, k - 1, d)
    BY <2>3
  <2> HIDE DEF p, d
  <2>6. /\ Tops(e, k, Greatest(p, e[k]))
        /\ Drops(e, k, Greatest(d, Greatest(p, e[k]) - e[k]))
    BY <1>2, <1>6, <2>4, <2>5, RunStep
  <2> QED BY <1>2, <1>4, <2>6 DEF p, d
<1> QED BY <1>2, <1>5, <1>6

LEMMA DrawdownIs ==
  ASSUME NEW e, NEW n \in Nat, n > 0, DOMAIN e = 1..n, \A j \in 1..n : e[j] \in Int
  PROVE  MaxDrawdown(e) =
           Max({e[m[1]] - e[m[2]] : m \in {p \in (1..n) \X (1..n) : p[1] <= p[2]}})
<1> DEFINE D == {e[m[1]] - e[m[2]] : m \in {p \in (1..n) \X (1..n) : p[1] <= p[2]}}
           x == MaxDrawdown(e)
<1>1. Drops(e, n, x)
  BY RunIs, DrawdownIsRun
<1> HIDE DEF x
<1>2. x \in D
  <2>1. PICK j \in 1..n, k \in 1..n : j <= k /\ x = e[j] - e[k]
    BY <1>1 DEF Drops
  <2>2. <<j, k>> \in {p \in (1..n) \X (1..n) : p[1] <= p[2]}
    BY <2>1
  <2> QED BY <2>1, <2>2
<1>3. \A y \in D : x >= y /\ y \in Int
  <2> SUFFICES ASSUME NEW j \in 1..n, NEW k \in 1..n, j <= k
               PROVE  x >= e[j] - e[k] /\ e[j] - e[k] \in Int
    OBVIOUS
  <2>1. e[j] - e[k] <= x /\ x \in Int
    BY <1>1 DEF Drops
  <2>2. e[j] \in Int /\ e[k] \in Int
    OBVIOUS
  <2> DEFINE d == e[j] - e[k]
  <2>3. d \in Int
    BY <2>2
  <2> HIDE DEF d
  <2>4. x >= d
    BY <2>1, <2>3 DEF d
  <2> QED BY <2>3, <2>4 DEF d
<1> HIDE DEF D
<1>4. Max(D) \in D /\ \A y \in D : Max(D) >= y
  BY <1>2, <1>3, Zenon DEF Max
<1>5. Max(D) = x
  BY <1>2, <1>3, <1>4
<1> QED BY <1>5 DEF D, x

LEMMA ReportDrops == ASSUME ShapeInv, DoneInv PROVE DrawdownIsLargestDrop
<1> SUFFICES ASSUME due = "done", report.trades > 0
             PROVE  report.drawdown =
                      Max({report.equity[m[1]] - report.equity[m[2]] :
                             m \in {p \in (1..report.trades) \X (1..report.trades) : p[1] <= p[2]}})
  BY DEF DrawdownIsLargestDrop
<1> DEFINE e == Cumulated(Reported)
           n == Cardinality(Reported)
<1>1. book \in Seq(Row) /\ report = BuildResult
  BY DEF ShapeInv, TypeInv, DoneInv
<1>2. Reported \in SUBSET DOMAIN book
  BY DEF Reported
<1>3. IsFiniteSet(Reported)
  BY <1>1, <1>2, RowSums
<1>4. n \in Nat
  BY <1>3, FS_CardinalityType
<1>5. DOMAIN e = 1..n
  BY DEF Cumulated
<1>6. ASSUME NEW j \in 1..n PROVE e[j] \in Int
  <2> DEFINE S == {i \in Reported : Cardinality({k \in Reported : k <= i}) <= j}
  <2>1. e[j] = SumFunctionOnSet(Pnls, S)
    BY <1>6 DEF Cumulated
  <2>2. S \in SUBSET DOMAIN book
    BY <1>2
  <2> HIDE DEF S
  <2> QED BY <1>1, <2>1, <2>2, RowSums
<1>7. /\ report.trades = n /\ report.equity = e
      /\ report.drawdown = IF e = <<>> THEN 0 ELSE MaxDrawdown(e)
  BY <1>1 DEF BuildResult
<1>8. n > 0
  BY <1>7
<1> HIDE DEF e, n
<1>9. e # <<>>
  <2>1. 1 \in DOMAIN e
    BY <1>4, <1>5, <1>8
  <2> QED BY <2>1
<1>10. MaxDrawdown(e) = Max({e[m[1]] - e[m[2]] : m \in {p \in (1..n) \X (1..n) : p[1] <= p[2]}})
  BY <1>4, <1>5, <1>6, <1>8, DrawdownIs
<1> QED
  BY <1>7, <1>9, <1>10

(* ReportIsTrue (backtest/engine.py 253-311): the result of a replay counts    *)
(* every close that the statistics count, agrees with the engine's own total,  *)
(* and its drawdown is the largest drop of the equity curve.                   *)
THEOREM ReportHolds == ASSUME PricesAreNumbers PROVE Spec => []ReportIsTrue
<1>1. Init => ReplayInv /\ DoneInv
  BY DEF Init, ReplayInv, DoneInv
<1>2. ShapeInv /\ ReplayInv /\ DoneInv /\ [Next]_vars => (ReplayInv /\ DoneInv)'
  BY StepEffects, ReplayNext, DoneNext
<1>3. ShapeInv /\ ReplayInv /\ DoneInv /\ LedgerInv => ReportIsTrue
  BY ReportCounts, ReportDrops DEF ReportIsTrue
<1> QED
  BY <1>1, <1>2, <1>3, ShapeHolds, LedgerStays, PTL DEF Spec

-----------------------------------------------------------------------------
(* The figures of the commands.                                              *)

Named(c, S) == {c[x] : x \in S}

(* g is f, its arguments renamed one to one. *)
Renames(g, f, c, S) ==
  /\ \A x, y \in S : c[x] = c[y] => x = y
  /\ \A x \in S : f[c[x]] \in Int /\ g[x] = f[c[x]]

(* A sum does not depend on what its terms are named by. *)
LEMMA SumRenamed ==
  ASSUME NEW f, NEW g, NEW c, NEW S, IsFiniteSet(S), Renames(g, f, c, S)
  PROVE  SumFunctionOnSet(g, S) = SumFunctionOnSet(f, Named(c, S))
<1> DEFINE Im(T) == {c[x] : x \in T}
           Right(T) == IsFiniteSet(Im(T)) /\ SumFunctionOnSet(g, T) = SumFunctionOnSet(f, Im(T))
           Bad == {T \in SUBSET S : ~ Right(T)}
<1> SUFFICES ASSUME Bad # {} PROVE FALSE
  <2>1. S \notin Bad
    OBVIOUS
  <2> QED BY <2>1 DEF Named
<1>1. \A T \in Bad : IsFiniteSet(T)
  BY FS_Subset
<1>2. PICK T \in Bad : \A U \in Bad : Cardinality(T) <= Cardinality(U)
  <2> HIDE DEF Bad
  <2> QED BY <1>1, Smallest
<1>3. T \in SUBSET S /\ IsFiniteSet(T) /\ ~ Right(T)
  BY <1>1, <1>2
<1>4. PICK x \in T : TRUE
  <2>1. CASE T = {}
    <3>1. Im(T) = {}
      BY <2>1
    <3>2. SumFunctionOnSet(g, {}) = 0 /\ SumFunctionOnSet(f, {}) = 0 /\ IsFiniteSet({})
      BY SumEmpty, FS_EmptySet
    <3> HIDE DEF Im
    <3> QED BY <1>3, <2>1, <3>1, <3>2
  <2> QED BY <2>1
<1> DEFINE U == T \ {x}
<1>5. /\ IsFiniteSet(U) /\ x \notin U /\ U \cup {x} = T /\ U \in SUBSET S
      /\ Cardinality(U) = Cardinality(T) - 1 /\ Cardinality(T) \in Nat
  BY <1>3, <1>4, FS_RemoveElement, FS_CardinalityType
<1>6. Right(U)
  <2>1. U \notin Bad
    <3> HIDE DEF Bad, U
    <3> QED BY <1>2, <1>5
  <2> HIDE DEF U, Right
  <2> QED BY <1>5, <2>1
<1> HIDE DEF U
<1>7. Im(T) = Im(U) \cup {c[x]}
  BY <1>5
<1>8. c[x] \notin Im(U)
  BY <1>3, <1>4, <1>5 DEF Renames
<1>9. \A y \in Im(U) \cup {c[x]} : f[y] \in Int
  BY <1>3, <1>4, <1>5 DEF Renames
<1>10. SumFunctionOnSet(g, T) = g[x] + SumFunctionOnSet(g, U)
  <2>1. \A y \in U \cup {x} : g[y] \in Int
    BY <1>3, <1>5 DEF Renames
  <2>2. SumFunctionOnSet(g, U \cup {x}) = g[x] + SumFunctionOnSet(g, U)
    BY <1>5, <2>1, SumAdd
  <2> QED BY <1>5, <2>2
<1>11. g[x] = f[c[x]]
  BY <1>3, <1>4 DEF Renames
<1> HIDE DEF Im
<1>12. SumFunctionOnSet(f, Im(U) \cup {c[x]}) = f[c[x]] + SumFunctionOnSet(f, Im(U))
  BY <1>6, <1>8, <1>9, SumAdd
<1>13. IsFiniteSet(Im(T))
  BY <1>6, <1>7, FS_AddElement
<1> QED BY <1>3, <1>6, <1>7, <1>10, <1>11, <1>12, <1>13

(* Division keeps the order. *)
LEMMA DaysInOrder ==
  ASSUME NEW s \in Nat, NEW t \in Nat, s <= t
  PROVE  DayOf(s) \in Nat /\ DayOf(t) \in Nat /\ DayOf(s) <= DayOf(t)
<1>1. DayLength \in Nat /\ DayLength > 0
  BY ClockNumbers
<1> DEFINE a == s \div DayLength
           b == t \div DayLength
<1>2. /\ a \in Nat /\ DayLength * a <= s
      /\ b \in Nat /\ t < DayLength * (b + 1)
  BY <1>1
<1>3. a <= b
  <2> SUFFICES ASSUME b + 1 <= a PROVE FALSE
    BY <1>2
  <2>1. DayLength * (b + 1) <= DayLength * a
    <3> HIDE DEF a, b
    <3> QED BY <1>1, <1>2
  <2> QED BY <1>1, <1>2, <2>1
<1> QED BY <1>2, <1>3 DEF DayOf

(* The rows that have a closing date are the closed ones, and none is dated  *)
(* ahead of the clock.                                                       *)
DateInv ==
  \A i \in DOMAIN book :
    /\ book[i].closedAt <= clock
    /\ book[i].closedAt >= 0 <=> book[i].result \notin Unclosed

LEMMA DateNext ==
  ASSUME PricesAreNumbers, ShapeInv, DateInv, Effects
  PROVE  DateInv'
<1> DEFINE Right(p, t) == p.closedAt <= t /\ (p.closedAt >= 0 <=> p.result \notin Unclosed)
<1>1. /\ \A i \in DOMAIN book : Right(book[i], clock)
      /\ clock \in Nat /\ book \in Seq(Row)
      /\ \A i \in DOMAIN book : book[i] \in Row
  BY BookIs DEF DateInv, ShapeInv, TypeInv, MarketType
<1>2. CASE Still
  <2>1. book' = book /\ clock' \in Nat /\ clock' >= clock
    BY <1>2 DEF Still
  <2>2. \A i \in DOMAIN book : book[i].closedAt \in Int
    BY <1>1 DEF Row
  <2> QED BY <1>1, <2>1, <2>2 DEF DateInv
<1>3. ASSUME NEW c, NEW qty, Enters(c, qty) PROVE DateInv'
  <2> DEFINE n == Len(book) + 1
             r == Booked(c, qty)
  <2>1. /\ qty \in Nat /\ qty > 0 /\ DOMAIN book' = DOMAIN book \cup {n}
        /\ book'[n] = r /\ \A j \in DOMAIN book : book'[j] = book[j]
    BY <1>3, EntryIs
  <2>2. Candidate(c) /\ Fillable(c) /\ clock' = clock
    BY <1>3 DEF Enters
  <2>3. r.closedAt = -1 /\ r.result = "Open"
    <3>1. JustEntered(Booked(c, qty), c, qty)
      BY <1>1, <2>1, <2>2, BookedIs
    <3> QED BY <3>1 DEF JustEntered
  <2> HIDE DEF n, r
  <2>4. Right(r, clock)
    BY <1>1, <2>3 DEF Unclosed
  <2> HIDE DEF Right
  <2>5. \A j \in DOMAIN book' : Right(book'[j], clock)
    BY <1>1, <2>1, <2>4
  <2> QED BY <2>2, <2>5 DEF DateInv, Right
<1>4. ASSUME NEW i, NEW r, Marks(i, r) \/ Closes(i, r) \/ Rolls(i, r) PROVE DateInv'
  <2>1. Rewrites(i, r)
    BY <1>4 DEF Marks, Closes, Rolls
  <2>2. /\ i \in DOMAIN book /\ i \in Positions /\ DOMAIN book' = DOMAIN book
        /\ book'[i] = r /\ \A j \in DOMAIN book : j # i => book'[j] = book[j]
    BY <2>1, RewriteIs
  <2>3. clock' = clock
    BY <2>1 DEF Rewrites
  <2>4. book[i].result \in Unclosed
    BY <2>2 DEF Positions, Live, Unclosed
  <2>5. Right(r, clock)
    <3>1. CASE Closes(i, r)
      <4>1. r.closedAt = clock /\ r.result \in {"TP", "Stop", "RollFailed"}
        BY <3>1 DEF Closes
      <4> QED BY <1>1, <4>1 DEF Unclosed
    <3>2. CASE Marks(i, r) \/ Rolls(i, r)
      <4>1. r.closedAt = book[i].closedAt /\ r.result \in Unclosed
        BY <2>4, <3>2 DEF Marks, Rolls, Unclosed
      <4> QED BY <1>1, <2>2, <2>4, <4>1
    <3> QED BY <1>4, <3>1, <3>2
  <2> HIDE DEF Right
  <2>6. \A j \in DOMAIN book' : Right(book'[j], clock)
    BY <1>1, <2>2, <2>5
  <2> QED BY <2>3, <2>6 DEF DateInv, Right
<1> QED BY <1>2, <1>3, <1>4 DEF Effects

(* A row has a date of closing, no later than now, exactly if it is closed:    *)
(* a replay's clock and the process's never run back (state.py 440-447).       *)
THEOREM DatesHold == ASSUME PricesAreNumbers PROVE Spec => []DateInv
<1>1. Init => DateInv
  BY DEF Init, DateInv
<1>2. ShapeInv /\ DateInv /\ [Next]_vars => DateInv'
  BY StepEffects, DateNext
<1> QED BY <1>1, <1>2, ShapeHolds, PTL DEF Spec

-----------------------------------------------------------------------------
(* The closed rows in their order.                                           *)

LEMMA DatedIs ==
  ASSUME book \in Seq(Row)
  PROVE  /\ IsFiniteSet(Dated) /\ Cardinality(Dated) \in Nat
         /\ \A i \in Dated : i \in Nat /\ ClosingDay(i) \in Nat /\ book[i].closedAt \in Nat
<1>1. Dated \in SUBSET DOMAIN book
  BY DEF Dated
<1>2. IsFiniteSet(Dated) /\ Cardinality(Dated) \in Nat
  BY <1>1, BookIs, FS_Subset, FS_CardinalityType
<1>3. ASSUME NEW i \in Dated PROVE i \in Nat /\ ClosingDay(i) \in Nat /\ book[i].closedAt \in Nat
  <2>1. i \in Nat /\ book[i] \in Row
    BY <1>1, BookIs
  <2>2. book[i].closedAt \in Nat
    <3>1. book[i].closedAt \in Int
      BY <2>1 DEF Row
    <3>2. book[i].closedAt >= 0
      BY DEF Dated
    <3> QED BY <3>1, <3>2
  <2>3. DayOf(book[i].closedAt) \in Nat
    <3> DEFINE c == book[i].closedAt
    <3> HIDE DEF c
    <3>1. c \in Nat /\ c <= c
      BY <2>2 DEF c
    <3>2. DayOf(c) \in Nat
      BY <3>1, DaysInOrder
    <3> QED BY <3>2 DEF c
  <2> QED BY <2>1, <2>2, <2>3 DEF ClosingDay
<1> QED BY <1>2, <1>3

LEMMA PlaceIs ==
  ASSUME book \in Seq(Row)
  PROVE  /\ \A i \in Dated : Place(i) \in 1..Cardinality(Dated)
         /\ \A i, j \in Dated : Before(i, j) => Place(i) < Place(j)
         /\ \A i, j \in Dated : i = j \/ Before(i, j) \/ Before(j, i)
<1>1. /\ IsFiniteSet(Dated) /\ Cardinality(Dated) \in Nat
      /\ \A i \in Dated : i \in Nat /\ ClosingDay(i) \in Nat
  BY DatedIs
<1> DEFINE Down(i) == {j \in Dated : j = i \/ Before(j, i)}
<1>2. \A i \in Dated : /\ i \in Down(i) /\ IsFiniteSet(Down(i)) /\ Cardinality(Down(i)) \in Nat
                       /\ Place(i) = Cardinality(Down(i))
  <2> SUFFICES ASSUME NEW i \in Dated
               PROVE  /\ i \in Down(i) /\ IsFiniteSet(Down(i)) /\ Cardinality(Down(i)) \in Nat
                      /\ Place(i) = Cardinality(Down(i))
    OBVIOUS
  <2>1. Down(i) \in SUBSET Dated
    OBVIOUS
  <2>2. IsFiniteSet(Down(i)) /\ Cardinality(Down(i)) \in Nat
    <3> HIDE DEF Down
    <3> QED BY <1>1, <2>1, FS_Subset, FS_CardinalityType
  <2> QED BY <2>2 DEF Place
<1>3. ASSUME NEW i \in Dated PROVE Place(i) \in 1..Cardinality(Dated)
  <2> DEFINE D == Down(i)
  <2>1. D \in SUBSET Dated /\ D # {} /\ IsFiniteSet(D) /\ Cardinality(D) \in Nat
    BY <1>2
  <2>2. Place(i) = Cardinality(D)
    BY <1>2
  <2> HIDE DEF D
  <2>3. Cardinality(D) <= Cardinality(Dated) /\ Cardinality(D) # 0
    BY <1>1, <2>1, FS_Subset, FS_EmptySet
  <2> QED BY <1>1, <2>1, <2>2, <2>3
<1>4. ASSUME NEW i \in Dated, NEW j \in Dated, Before(i, j) PROVE Place(i) < Place(j)
  <2> DEFINE D == Down(i)
             E == Down(j)
  <2>1. /\ ClosingDay(i) \in Nat /\ ClosingDay(j) \in Nat /\ i \in Nat /\ j \in Nat
    BY <1>1
  <2>2. ~ Before(j, i) /\ j # i
    BY <1>4, <2>1 DEF Before
  <2>3. ASSUME NEW k \in Dated, Before(k, i) PROVE Before(k, j)
    <3>1. ClosingDay(k) \in Nat /\ k \in Nat
      BY <1>1
    <3> QED BY <1>4, <2>1, <2>3, <3>1 DEF Before
  <2>4. D \in SUBSET E /\ j \in E /\ j \notin D
    BY <1>4, <2>2, <2>3
  <2>5. /\ IsFiniteSet(E) /\ Cardinality(D) \in Nat /\ Cardinality(E) \in Nat
        /\ Place(i) = Cardinality(D) /\ Place(j) = Cardinality(E)
    BY <1>2
  <2> HIDE DEF D, E
  <2>6. Cardinality(D) <= Cardinality(E) /\ Cardinality(D) # Cardinality(E)
    BY <2>4, <2>5, FS_Subset
  <2> QED BY <2>5, <2>6
<1>5. \A i, j \in Dated : i = j \/ Before(i, j) \/ Before(j, i)
  BY <1>1 DEF Before
<1> QED BY <1>3, <1>4, <1>5

(* Every place is somebody's. *)
LEMMA PlacesTaken ==
  ASSUME book \in Seq(Row), NEW n \in 1..Cardinality(Dated)
  PROVE  \E i \in Dated : Place(i) = n
<1> DEFINE N == 1..Cardinality(Dated)
           f == [i \in Dated |-> Place(i)]
<1>1. IsFiniteSet(Dated) /\ Cardinality(Dated) \in Nat
  BY DatedIs
<1>2. IsFiniteSet(N) /\ Cardinality(N) = Cardinality(Dated)
  BY <1>1, FS_Interval
<1>3. \A i, j \in Dated : Place(i) = Place(j) => i = j
  <2> SUFFICES ASSUME NEW i \in Dated, NEW j \in Dated, Place(i) = Place(j), i # j PROVE FALSE
    OBVIOUS
  <2>1. Place(i) < Place(j) \/ Place(j) < Place(i)
    BY PlaceIs
  <2>2. Place(i) \in N /\ Place(j) \in N
    BY PlaceIs
  <2>3. Place(i) \in Int /\ Place(j) \in Int
    BY <2>2
  <2> QED BY <2>1, <2>3
<1>4. f \in Injection(Dated, N)
  BY <1>3, PlaceIs DEF Injection, IsInjective
<1>5. f \in Surjection(Dated, N)
  <2> HIDE DEF f, N
  <2> QED BY <1>1, <1>2, <1>4, FS_Injection
<1> QED BY <1>5 DEF Surjection

LEMMA TradesAre ==
  ASSUME book \in Seq(Row)
  PROVE  LET c == AllClosedTrades
             n == Cardinality(Dated)
         IN  /\ DOMAIN c = 1..n
             /\ \A k \in 1..n : c[k] \in Dated /\ Place(c[k]) = k
             /\ \A i \in Dated : \E k \in 1..n : c[k] = i
             /\ \A k, l \in 1..n : k < l => ClosingDay(c[k]) <= ClosingDay(c[l])
<1> DEFINE c == AllClosedTrades
           n == Cardinality(Dated)
<1>1. DOMAIN c = 1..n
  BY DEF AllClosedTrades
<1>2. ASSUME NEW k \in 1..n PROVE c[k] \in Dated /\ Place(c[k]) = k
  <2>1. c[k] = CHOOSE i \in Dated : Place(i) = k
    BY DEF AllClosedTrades
  <2>2. \E i \in Dated : Place(i) = k
    BY PlacesTaken
  <2> HIDE DEF c
  <2> QED BY <2>1, <2>2
<1>3. ASSUME NEW i \in Dated PROVE \E k \in 1..n : c[k] = i
  <2> DEFINE k == Place(i)
  <2>1. k \in 1..n
    BY PlaceIs
  <2> HIDE DEF c, n
  <2>2. c[k] \in Dated /\ Place(c[k]) = Place(i)
    BY <1>2, <2>1
  <2>3. Place(c[k]) \in Int /\ Place(i) \in Int
    BY <2>2, PlaceIs
  <2>4. ~(Place(c[k]) < Place(i)) /\ ~(Place(i) < Place(c[k]))
    BY <2>2, <2>3
  <2> HIDE DEF k
  <2>5. c[k] = i
    BY <2>2, <2>4, PlaceIs
  <2> QED BY <2>1, <2>5
<1>4. ASSUME NEW k \in 1..n, NEW l \in 1..n, k < l PROVE ClosingDay(c[k]) <= ClosingDay(c[l])
  <2> DEFINE i == c[k]
             j == c[l]
  <2>1. i \in Dated /\ j \in Dated /\ Place(i) = k /\ Place(j) = l
    BY <1>2
  <2> HIDE DEF i, j, n
  <2>2. k \in Int /\ l \in Int /\ ~(l < k) /\ k # l
    BY <1>4
  <2>3. ~ Before(j, i) /\ i # j
    BY <2>1, <2>2, PlaceIs
  <2>4. Before(i, j)
    BY <2>1, <2>3, PlaceIs
  <2>5. ClosingDay(i) \in Nat /\ ClosingDay(j) \in Nat
    BY <2>1, DatedIs
  <2>6. ClosingDay(i) <= ClosingDay(j)
    BY <2>4, <2>5 DEF Before
  <2> QED BY <2>6 DEF i, j
<1> QED BY <1>1, <1>2, <1>3, <1>4

(* The curve of /pnl: a point's total is that of the rows up to it.          *)
LEMMA CurveIs ==
  ASSUME book \in Seq(Row)
  PROVE  LET c == AllClosedTrades
             n == Cardinality(Dated)
         IN  /\ DOMAIN CumulativeSeries = 1..n
             /\ \A k \in 1..n :
                  /\ CumulativeSeries[k].day = ClosingDay(c[k])
                  /\ CumulativeSeries[k].total = SumFunctionOnSet(Pnls, {c[l] : l \in 1..k})
<1> DEFINE c == AllClosedTrades
           n == Cardinality(Dated)
           made == [k \in DOMAIN c |-> book[c[k]].pnl]
           curve == [k \in DOMAIN c |-> [day |-> ClosingDay(c[k]), total |-> SumFunctionOnSet(made, 1..k)]]
<1>1. CumulativeSeries = curve
  BY DEF CumulativeSeries
<1>2. DOMAIN c = 1..n /\ \A k \in 1..n : c[k] \in Dated /\ Place(c[k]) = k
  BY TradesAre
<1>3. n \in Nat
  BY DatedIs
<1>4. ASSUME NEW k \in 1..n
      PROVE  SumFunctionOnSet(made, 1..k) = SumFunctionOnSet(Pnls, {c[l] : l \in 1..k})
  <2> DEFINE S == 1..k
  <2>1. IsFiniteSet(S) /\ S \in SUBSET (1..n)
    BY <1>3, <1>4, FS_Interval
  <2>2. \A l \in S : Place(c[l]) = l /\ c[l] \in Dated
    BY <1>2, <2>1
  <2>3. \A l \in S : made[l] = Pnls[c[l]] /\ Pnls[c[l]] \in Int
    <3> SUFFICES ASSUME NEW l \in S PROVE made[l] = Pnls[c[l]] /\ Pnls[c[l]] \in Int
      OBVIOUS
    <3>1. c[l] \in DOMAIN book
      BY <2>2 DEF Dated
    <3>2. book[c[l]] \in Row
      BY <3>1, BookIs
    <3>3. made[l] = book[c[l]].pnl
      BY <1>2, <2>1
    <3>4. Pnls[c[l]] = book[c[l]].pnl
      BY <3>1 DEF Pnls
    <3> QED BY <3>2, <3>3, <3>4, RowNumbers
  <2> HIDE DEF S, c, made
  <2>4. \A l, m \in S : c[l] = c[m] => l = m
    BY <2>2
  <2> DEFINE f == Pnls
  <2>6. Renames(made, f, c, S)
    BY <2>3, <2>4 DEF Renames
  <2> HIDE DEF f
  <2>7. SumFunctionOnSet(made, S) = SumFunctionOnSet(f, Named(c, S))
    BY <2>1, <2>6, SumRenamed
  <2>5. SumFunctionOnSet(made, S) = SumFunctionOnSet(Pnls, {c[l] : l \in S})
    BY <2>7 DEF f, Named
  <2> QED BY <2>5 DEF S
<1> HIDE DEF made
<1>5. DOMAIN curve = 1..n
  BY <1>2
<1>6. \A k \in 1..n : /\ curve[k].day = ClosingDay(c[k])
                      /\ curve[k].total = SumFunctionOnSet(made, 1..k)
  BY <1>2
<1> HIDE DEF curve
<1> QED BY <1>1, <1>4, <1>5, <1>6

(* Its last point is the P&L of all closed rows. *)
RealisedInv == Realised = ClosedPnl

LEMMA DatedAreClosed == ASSUME DateInv PROVE Dated = Closed
BY DEF DateInv, Dated, Closed, Unclosed

LEMMA RealisedIs == ASSUME ShapeInv, DateInv PROVE RealisedInv
<1> DEFINE c == AllClosedTrades
           n == Cardinality(Dated)
           s == CumulativeSeries
<1>1. book \in Seq(Row) /\ Dated = Closed
  BY DatedAreClosed DEF ShapeInv, TypeInv
<1>2. n \in Nat /\ IsFiniteSet(Dated)
  BY <1>1, DatedIs
<1>3. /\ DOMAIN s = 1..n
      /\ \A k \in 1..n : s[k].total = SumFunctionOnSet(Pnls, {c[l] : l \in 1..k})
  BY <1>1, CurveIs
<1>4. {c[l] : l \in 1..n} = Dated
  <2>1. /\ \A k \in 1..n : c[k] \in Dated
        /\ \A i \in Dated : \E k \in 1..n : c[k] = i
    BY <1>1, TradesAre
  <2> HIDE DEF c, n
  <2> QED BY <2>1
<1>5. Realised = IF s = <<>> THEN 0 ELSE s[Len(s)].total
  BY DEF Realised, Last
<1>6. CASE n = 0
  <2>1. Dated = {}
    BY <1>2, <1>6, FS_EmptySet
  <2>2. s = <<>>
    <3>1. DOMAIN s = {}
      BY <1>3, <1>6
    <3>2. s = [k \in 1..n |-> s[k]]
      BY <1>3 DEF CumulativeSeries, AllClosedTrades
    <3> QED BY <1>6, <3>2
  <2>3. ClosedPnl = 0
    BY <1>1, <2>1, SumEmpty DEF ClosedPnl
  <2> QED BY <1>5, <2>2, <2>3 DEF RealisedInv
<1>7. CASE n > 0
  <2>1. s # <<>>
    <3>1. 1 \in DOMAIN s
      BY <1>2, <1>3, <1>7
    <3> QED BY <3>1
  <2>2. Len(s) = n
    <3> HIDE DEF s, n
    <3> QED BY <1>2, <1>3
  <2>3. s[n].total = SumFunctionOnSet(Pnls, Dated)
    BY <1>2, <1>3, <1>4, <1>7
  <2> QED BY <1>1, <1>5, <2>1, <2>2, <2>3 DEF RealisedInv, ClosedPnl
<1> QED BY <1>2, <1>6, <1>7

-----------------------------------------------------------------------------

\* The mid of a quoted option is a number.
LEMMA MidIs ==
  ASSUME MarketType, NEW k, Quoted(k)
  PROVE  Mid2(k) \in Int
<1>1. k \in DOMAIN chain
  BY DEF Quoted
<1>2. chain[k] \in Quote
  BY <1>1 DEF MarketType, ChainOK
<1>3. chain[k].bid \in Int /\ chain[k].ask \in Int
  BY <1>2 DEF Quote
<1> QED BY <1>3 DEF Mid2

LEMMA UnrealisedIs ==
  ASSUME MarketType, book \in Seq(Row), NEW i \in DOMAIN book
  PROVE  UnrealisedOf(i) \in Int /\ CostBasis(i) \in Int /\ PositionLine(i).pnl \in Int
<1> DEFINE p == book[i]
           w == Greatest(0, Mid2(p.far) - Mid2(p.near))
           v == (w * p.qty) \div 2
<1>1. p \in Row
  BY BookIs
<1>2. p.qty \in Nat /\ p.debit \in Nat /\ p.openFees \in Int /\ p.rollPnl \in Int /\ p.lastSv \in Int
  BY <1>1, RowNumbers
<1>3. CostBasis(i) \in Int
  <2>1. CostBasis(i) = p.debit * p.qty + p.openFees
    BY DEF CostBasis
  <2> HIDE DEF p
  <2> QED BY <1>2, <2>1
<1>4. ASSUME Quoted(p.near), Quoted(p.far) PROVE v \in Int
  <2>1. Mid2(p.near) \in Int /\ Mid2(p.far) \in Int
    BY <1>4, MidIs
  <2>2. w \in Int
    BY <2>1 DEF Greatest
  <2> HIDE DEF w, p
  <2>3. w * p.qty \in Int
    BY <1>2, <2>2
  <2> DEFINE m == w * p.qty
  <2> HIDE DEF m
  <2>4. m \div 2 \in Int
    BY <2>3 DEF m
  <2> QED BY <2>4 DEF m
<1>5. UnrealisedOf(i) =
        IF Quoted(p.near) /\ Quoted(p.far) THEN v - CostBasis(i) + p.rollPnl
        ELSE IF p.lastSv > 0 THEN p.lastSv - CostBasis(i) + p.rollPnl
        ELSE 0
  BY DEF UnrealisedOf
<1>6. PositionLine(i).pnl = UnrealisedOf(i)
  BY DEF UnrealisedOf, PositionLine, NoValueShown
<1> HIDE DEF v, p
<1>7. UnrealisedOf(i) \in Int
  BY <1>2, <1>3, <1>4, <1>5
<1> QED BY <1>3, <1>6, <1>7

LEMMA LinesAgree ==
  ASSUME MarketType, book \in Seq(Row), NEW i \in DOMAIN book
  PROVE  /\ PositionLine(i).pnl = UnrealisedOf(i)
         /\ PortfolioLine(i).shown => PortfolioLine(i) = PositionLine(i)
<1> DEFINE p == book[i]
           w == (Greatest(0, Mid2(p.far) - Mid2(p.near)) * p.qty) \div 2
           cost == p.debit * p.qty
<1>1. PositionLine(i).pnl = UnrealisedOf(i)
  BY DEF UnrealisedOf, PositionLine, NoValueShown
<1>2. ASSUME Quoted(p.near), Quoted(p.far) PROVE PortfolioLine(i) = PositionLine(i)
  <2>1. PortfolioLine(i) = [shown |-> TRUE, pnl |-> w - cost - p.openFees + p.rollPnl]
    BY <1>2 DEF PortfolioLine
  <2>2. PositionLine(i) = [shown |-> TRUE, pnl |-> w - (cost + p.openFees) + p.rollPnl]
    BY <1>2 DEF PositionLine, CostBasis
  <2>3. p.debit \in Nat /\ p.qty \in Nat /\ p.openFees \in Int /\ p.rollPnl \in Int
    BY BookIs, RowNumbers
  <2>4. w \in Int
    <3>1. Mid2(p.near) \in Int /\ Mid2(p.far) \in Int
      BY <1>2, MidIs
    <3> DEFINE g == Greatest(0, Mid2(p.far) - Mid2(p.near))
    <3>2. g \in Int
      BY <3>1 DEF Greatest
    <3> HIDE DEF g, p
    <3>3. (g * p.qty) \in Int
      BY <2>3, <3>2
    <3> DEFINE m == g * p.qty
    <3> HIDE DEF m
    <3>4. m \div 2 \in Int
      BY <3>3 DEF m
    <3> QED BY <3>4 DEF m, g
  <2>5. cost \in Int
    <3> HIDE DEF p
    <3> QED BY <2>3
  <2> HIDE DEF w, cost, p
  <2>6. w - cost - p.openFees + p.rollPnl = w - (cost + p.openFees) + p.rollPnl
    BY <2>3, <2>4, <2>5
  <2> QED BY <2>1, <2>2, <2>6
<1>3. PortfolioLine(i).shown => Quoted(p.near) /\ Quoted(p.far)
  BY DEF PortfolioLine, NoValueShown
<1> QED BY <1>1, <1>2, <1>3

LEMMA CommandsDo == ASSUME ShapeInv PROVE CommandsAgree
<1> DEFINE shown == [i \in DOMAIN book |-> PositionLine(i).pnl]
           stuck == {i \in DOMAIN book : book[i].stuck}
<1>1. book \in Seq(Row) /\ MarketType /\ IsFiniteSet(DOMAIN book)
  BY BookIs DEF ShapeInv, TypeInv
<1>2. \A i \in DOMAIN book : /\ shown[i] = Unrealised[i] /\ shown[i] \in Int
                             /\ PortfolioLine(i).shown => PortfolioLine(i) = PositionLine(i)
  BY <1>1, UnrealisedIs, LinesAgree DEF Unrealised
<1>3. OpenTrades \in SUBSET DOMAIN book /\ stuck \in SUBSET DOMAIN book
  BY DEF OpenTrades
<1>4. IsFiniteSet(OpenTrades) /\ IsFiniteSet(stuck)
  BY <1>1, <1>3, FS_Subset
<1>5. \A i \in DOMAIN book : book[i].stuck \in BOOLEAN /\ (book[i].stuck => book[i].result \in Unclosed)
  BY <1>1, BookIs DEF ShapeInv, BookInv, SoundRow, Row
<1>6. VisiblePositions = OpenTrades \cup stuck /\ OpenTrades \cap stuck = {}
  BY <1>5 DEF VisiblePositions, OpenTrades, Live, Unclosed
<1> HIDE DEF shown, stuck
<1>7. SumFunctionOnSet(shown, OpenTrades \cup stuck)
        = SumFunctionOnSet(shown, OpenTrades) + SumFunctionOnSet(shown, stuck)
  <2>1. \A i \in OpenTrades \cup stuck : shown[i] \in Int
    BY <1>2, <1>3
  <2> QED BY <1>4, <1>6, <2>1, SumUnion
<1>8. SumFunctionOnSet(shown, OpenTrades) = SumFunctionOnSet(Unrealised, OpenTrades)
  <2>1. \A i \in OpenTrades : shown[i] = Unrealised[i]
    BY <1>2, <1>3
  <2> QED BY <1>4, <2>1, SumSame
<1>9. SumFunctionOnSet(shown, VisiblePositions)
        = SumFunctionOnSet(Unrealised, OpenTrades) + SumFunctionOnSet(shown, stuck)
  BY <1>6, <1>7, <1>8
<1>10. \A i \in VisiblePositions : PortfolioLine(i).shown => PortfolioLine(i) = PositionLine(i)
  BY <1>2 DEF VisiblePositions
<1> QED BY <1>9, <1>10 DEF CommandsAgree, shown, stuck

LEMMA CurveDoes == ASSUME ShapeInv, DateInv PROVE CurveIsOfTheBook
<1> DEFINE c == AllClosedTrades
           n == Cardinality(Dated)
           s == CumulativeSeries
<1>1. book \in Seq(Row) /\ Dated = Closed
  BY DatedAreClosed DEF ShapeInv, TypeInv
<1>2. n \in Nat
  BY <1>1, DatedIs
<1>3. /\ DOMAIN c = 1..n
      /\ \A k \in 1..n : c[k] \in Dated /\ Place(c[k]) = k
      /\ \A i \in Dated : \E k \in 1..n : c[k] = i
      /\ \A k, l \in 1..n : k < l => ClosingDay(c[k]) <= ClosingDay(c[l])
  BY <1>1, TradesAre
<1>4. /\ DOMAIN s = 1..n
      /\ \A k \in 1..n : /\ s[k].day = ClosingDay(c[k])
                         /\ s[k].total = SumFunctionOnSet(Pnls, {c[l] : l \in 1..k})
  BY <1>1, CurveIs
<1>5. Len(s) = n
  <2> HIDE DEF s, n
  <2> QED BY <1>2, <1>4
<1>8. Len(s) = Cardinality(Closed)
  BY <1>1, <1>5
<1>9. Realised = SumFunctionOnSet(Pnls, Closed)
  BY RealisedIs DEF RealisedInv, ClosedPnl
<1>10. ASSUME NEW k \in DOMAIN s, k < Len(s), s[k].day < s[k + 1].day
       PROVE  s[k].total = SumFunctionOnSet(Pnls, {i \in Closed : ClosingDay(i) <= s[k].day})
  <2> DEFINE day == ClosingDay(c[k])
             S == {c[l] : l \in 1..k}
             T == {i \in Closed : ClosingDay(i) <= day}
  <2>1. k \in 1..n /\ k + 1 \in 1..n /\ k \in Nat
    BY <1>2, <1>4, <1>5, <1>10
  <2>2. day < ClosingDay(c[k + 1]) /\ s[k].day = day /\ s[k].total = SumFunctionOnSet(Pnls, S)
    BY <1>4, <1>10, <2>1
  <2>3. \A l \in 1..n : c[l] \in Closed /\ ClosingDay(c[l]) \in Nat
    BY <1>1, <1>3, DatedIs
  <2> HIDE DEF c, n
  <2>4. ASSUME NEW l \in 1..k PROVE c[l] \in T
    <3>1. l \in 1..n /\ (l < k \/ l = k)
      BY <1>2, <2>1
    <3>2. ClosingDay(c[l]) <= ClosingDay(c[k])
      BY <1>3, <2>1, <2>3, <3>1
    <3> QED BY <2>3, <3>1, <3>2
  <2>5. ASSUME NEW i \in T PROVE i \in S
    <3>1. PICK l \in 1..n : c[l] = i
      BY <1>1, <1>3
    <3>2. CASE l <= k
      <4>1. l \in 1..k
        BY <2>1, <3>2
      <4> QED BY <3>1, <4>1
    <3>3. CASE ~(l <= k)
      <4>1. k + 1 < l \/ k + 1 = l
        BY <1>2, <2>1, <3>3
      <4>2. ClosingDay(c[k + 1]) <= ClosingDay(c[l])
        BY <1>3, <2>1, <2>3, <4>1
      <4>3. ClosingDay(c[l]) <= day
        BY <3>1
      <4> QED BY <2>1, <2>2, <2>3, <4>2, <4>3
    <3> QED BY <3>2, <3>3
  <2>6. S = T
    BY <2>4, <2>5
  <2> QED BY <2>2, <2>6
<1> QED BY <1>8, <1>9, <1>10 DEF CurveIsOfTheBook

(* FiguresAgree (handlers.py 71-136, 244-292, 639-693, pnl_chart.py 26-81): the    *)
(* commands tell of one set of open rows, and the curve of /pnl of all closed ones. *)
THEOREM FiguresHold == ASSUME PricesAreNumbers PROVE Spec => []FiguresAgree
<1>1. ShapeInv /\ DateInv => FiguresAgree
  BY CommandsDo, CurveDoes DEF FiguresAgree
<1> QED BY <1>1, ShapeHolds, DatesHold, PTL

LEMMA CloseMovesFigures ==
  ASSUME PricesAreNumbers, ShapeInv, ShapeInv', Effects, RealisedInv, RealisedInv',
         NEW i \in OpenTrades, book'[i].notes \in {"signal", "roll"},
         Quoted(book[i].near), Quoted(book[i].far)
  PROVE  LET p == book[i]
         IN  PnlTotal' = PnlTotal - ExitFees(p.near.asset, spots[p.near.asset], p.qty, 0, 0)
<1>1. /\ book \in Seq(Row) /\ MarketType /\ i \in DOMAIN book /\ i \in Positions /\ book[i] \in Row
      /\ IsFiniteSet(DOMAIN book) /\ \A k \in DOMAIN book : book[k] \in Row
  BY BookIs DEF ShapeInv, TypeInv, OpenTrades, Positions
<1>2. book[i].notes = ""
  BY <1>1 DEF ShapeInv, BookInv, SoundRow, Positions, Live, Unclosed
<1>3. PICK r : Closes(i, r)
  <2>1. CASE Still
    BY <1>2, <2>1 DEF Still
  <2>2. ASSUME NEW c, NEW qty, Enters(c, qty) PROVE FALSE
    <3>1. book'[i] = book[i]
      BY <1>1, <2>2, EntryIs
    <3> QED BY <1>2, <3>1
  <2>3. ASSUME NEW j, NEW r, Marks(j, r) \/ Closes(j, r) \/ Rolls(j, r)
        PROVE  j = i /\ Closes(j, r)
    <3>1. Rewrites(j, r)
      BY <2>3 DEF Marks, Closes, Rolls
    <3>2. book'[j] = r /\ \A k \in DOMAIN book : k # j => book'[k] = book[k]
      BY <3>1, RewriteIs
    <3>3. j = i
      BY <1>1, <1>2, <3>2
    <3>4. r.notes # ""
      BY <3>2, <3>3
    <3>5. ~ Marks(j, r) /\ ~ Rolls(j, r)
      BY <1>2, <3>3, <3>4 DEF Marks, Rolls
    <3> QED BY <2>3, <3>3, <3>5
  <2> QED BY <2>1, <2>2, <2>3 DEF Effects
<1>4. /\ DOMAIN book' = DOMAIN book /\ book'[i] = r
      /\ \A k \in DOMAIN book : k # i => book'[k] = book[k]
      /\ UNCHANGED <<clock, spots, chain>>
  BY <1>3, RewriteIs DEF Closes, Rewrites
<1>5. r.pnl = NetPnl(book[i], PositionValue(book[i])) /\ r.result \in {"TP", "Stop", "RollFailed"}
  BY <1>3, <1>4 DEF Closes
<1> DEFINE p == book[i]
           fees == ExitFees(p.near.asset, spots[p.near.asset], p.qty, 0, 0)
<1>6. r.pnl = UnrealisedOf(i) - fees /\ fees \in Int
  <2> DEFINE worth == PositionValue(p)
             cost == p.debit * p.qty
  <2>1. worth = (Greatest(0, Mid2(p.far) - Mid2(p.near)) * p.qty) \div 2
    BY DEF PositionValue
  <2>2. UnrealisedOf(i) = worth - CostBasis(i) + p.rollPnl /\ CostBasis(i) = cost + p.openFees
    BY <2>1 DEF UnrealisedOf, CostBasis
  <2>3. r.pnl = worth - cost + p.rollPnl - p.openFees - fees
    BY <1>5 DEF NetPnl
  <2>4. worth \in Int
    BY <1>1, ValueIs
  <2>5. p.debit \in Nat /\ p.qty \in Nat /\ p.rollPnl \in Int /\ p.openFees \in Int
    BY <1>1, RowNumbers
  <2>6. fees \in Int
    BY <1>1, <2>5, NoExitFees, RowNumbers DEF MarketType
  <2>7. cost \in Int
    <3> HIDE DEF p
    <3> QED BY <2>5
  <2> HIDE DEF worth, cost, p, fees
  <2> QED BY <2>2, <2>3, <2>4, <2>5, <2>6, <2>7
<1>7. ClosedPnl' = ClosedPnl + r.pnl
  BY <1>3, CloseLedger
<1>8. i \notin OpenTrades' /\ OpenTrades' = OpenTrades \ {i}
  BY <1>4, <1>5 DEF OpenTrades, Live
<1> DEFINE f == Unrealised
           g == Unrealised'
           U == OpenTrades \ {i}
<1>9. \A k \in DOMAIN book : f[k] = UnrealisedOf(k) /\ UnrealisedOf(k) \in Int
  BY <1>1, UnrealisedIs DEF Unrealised
<1>10. \A k \in U : g[k] = f[k]
  <2> SUFFICES ASSUME NEW k \in U PROVE g[k] = f[k]
    OBVIOUS
  <2>1. k \in DOMAIN book /\ k \in DOMAIN book' /\ book'[k] = book[k]
    BY <1>4 DEF OpenTrades
  <2>2. UnrealisedOf(k)' = UnrealisedOf(k)
    BY <1>4, <2>1 DEF UnrealisedOf, Quoted, Mid2, CostBasis
  <2> QED BY <2>1, <2>2 DEF Unrealised
<1>11. IsFiniteSet(U) /\ U \cup {i} = OpenTrades /\ i \notin U /\ U \in SUBSET DOMAIN book
  BY <1>1, FS_Subset DEF OpenTrades
<1> HIDE DEF f, g, U
<1>12. SumFunctionOnSet(f, OpenTrades) = f[i] + SumFunctionOnSet(f, U)
  <2>1. \A k \in U \cup {i} : f[k] \in Int
    BY <1>1, <1>9, <1>11
  <2>2. SumFunctionOnSet(f, U \cup {i}) = f[i] + SumFunctionOnSet(f, U)
    BY <1>11, <2>1, SumAdd
  <2> QED BY <1>11, <2>2
<1>13. SumFunctionOnSet(g, U) = SumFunctionOnSet(f, U) /\ SumFunctionOnSet(f, U) \in Int
  <2>1. \A k \in U : f[k] \in Int
    BY <1>9, <1>11
  <2>2. SumFunctionOnSet(f, U) \in Int
    BY <1>11, <2>1, SumInt
  <2>3. SumFunctionOnSet(g, U) = SumFunctionOnSet(f, U)
    BY <1>10, <1>11, SumSame
  <2> QED BY <2>2, <2>3
<1>14. PnlTotal = ClosedPnl + SumFunctionOnSet(f, OpenTrades)
  BY DEF PnlTotal, RealisedInv, f
<1>15. PnlTotal' = ClosedPnl' + SumFunctionOnSet(g, U)
  BY <1>8 DEF PnlTotal, RealisedInv, g, U
<1>16. ClosedPnl \in Int /\ f[i] = UnrealisedOf(i) /\ UnrealisedOf(i) \in Int
  BY <1>1, <1>9, RowSums DEF ClosedPnl, Closed
<1> HIDE DEF fees
<1>17. PnlTotal' = PnlTotal - fees
  BY <1>6, <1>7, <1>12, <1>13, <1>14, <1>15, <1>16
<1> QED BY <1>17 DEF fees

(* ClosingCostsItsFees (decision.py 1152-1183, pnl_chart.py 51-81): closing at *)
(* quotes turns unrealised into realised P&L, but for the fees of the exit.    *)
THEOREM ClosesCostFees == ASSUME PricesAreNumbers PROVE Spec => ClosingCostsItsFees
<1>1. ShapeInv /\ DateInv => RealisedInv
  BY RealisedIs
<1> DEFINE Moves == \A i \in OpenTrades :
             LET p == book[i]
             IN  book'[i].notes \in {"signal", "roll"} /\ Quoted(p.near) /\ Quoted(p.far)
                   => PnlTotal' = PnlTotal - ExitFees(p.near.asset, spots[p.near.asset], p.qty, 0, 0)
<1>2. ShapeInv /\ ShapeInv' /\ RealisedInv /\ RealisedInv' /\ [Next]_vars => Moves
  BY StepEffects, CloseMovesFigures
<1>3. ClosingCostsItsFees <=> [][Moves]_vars
  BY DEF ClosingCostsItsFees
<1> HIDE DEF Moves
<1> QED BY <1>1, <1>2, <1>3, ShapeHolds, DatesHold, PTL DEF Spec

=============================================================================
