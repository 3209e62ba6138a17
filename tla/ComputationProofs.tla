-------------------------- MODULE ComputationProofs -------------------------
(***************************************************************************)
(* Proofs about what is computed for the pages of a company and the lists: *)
(* StatementTree, StatementFigures, Screening, Valuation, AxisScores and   *)
(* ChartStages, for filings, tables, lists and charts of any length and    *)
(* companies with any figures and claims. A sum or a sorted list is known  *)
(* by its definition only; what is said of it for every input is said by   *)
(* the least set or number for which it would fail, which the first        *)
(* section makes usable.                                                   *)
(***************************************************************************)
EXTENDS StatementTree, StatementFigures, Screening, Valuation, AxisScores, ChartStages,
        FiniteSetTheorems, SequenceTheorems, WellFoundedInduction, NaturalsInduction, TLAPS

-------------------------------------------------------------------------------
(***************************************************************************)
(* Numbers, finite sets and sums. Induction is stated with the set of what *)
(* is good: it has every number, or the whole of a finite set, when        *)
(* nothing can be the least that it lacks.                                 *)
(***************************************************************************)
Below == {pair \in Nat \X Nat : pair[1] < pair[2]}

LEMMA BelowIsWellFounded == IsWellFoundedOn(Below, Nat)
  BY NatLessThanWellFounded DEF OpToRel, Below

\* A set of numbers that is not empty has a least one.
LEMMA HasLeast ==
  ASSUME NEW S, S \subseteq Nat, S # {}
  PROVE  \E x \in S : \A y \in S : x <= y
<1>1. PICK x \in S : \A y \in S : ~(<<y, x>> \in Below)
  BY BelowIsWellFounded, WFMin, Zenon
<1>2. \A y \in S : x <= y
  <2> TAKE y \in S
  <2>1. ~(y < x)
    BY <1>1 DEF Below
  <2> QED BY <2>1
<1> QED BY <1>1, <1>2

LEMMA LeastIsMember ==
  ASSUME NEW S, S \subseteq Nat, S # {}
  PROVE  Min(S) \in S /\ \A y \in S : Min(S) <= y
  BY HasLeast DEF Min

\* What holds of 0 and goes on from each number to the next holds of all.
LEMMA CountsReach ==
  ASSUME NEW Good, 0 \in Good, \A n \in Nat : n \in Good => n + 1 \in Good
  PROVE  Nat \subseteq Good
<1> SUFFICES ASSUME Nat \ Good # {} PROVE FALSE
  OBVIOUS
<1>1. PICK n \in Nat \ Good : \A m \in Nat \ Good : n <= m
  BY HasLeast
<1>2. n # 0 /\ n - 1 \in Nat
  BY <1>1
<1>3. n - 1 \in Good
  BY <1>1, <1>2
<1> QED BY <1>1, <1>2, <1>3

\* What holds of the empty set and stays when an element is added holds of every
\* finite set.
LEMMA SetsGrow ==
  ASSUME NEW S, IsFiniteSet(S), NEW Good, {} \in Good,
         \A T \in SUBSET S : \A x \in S \ T : T \in Good => T \union {x} \in Good
  PROVE  S \in Good
<1> DEFINE Reached == {n \in Nat : \A T \in SUBSET S : Cardinality(T) = n => T \in Good}
<1>1. \A T \in SUBSET S : IsFiniteSet(T) /\ Cardinality(T) \in Nat
  BY FS_Subset, FS_CardinalityType
<1>2. 0 \in Reached
  BY <1>1, FS_EmptySet
<1>3. ASSUME NEW n \in Nat, n \in Reached PROVE n + 1 \in Reached
  <2> SUFFICES ASSUME NEW T \in SUBSET S, Cardinality(T) = n + 1 PROVE T \in Good
    OBVIOUS
  <2> HIDE DEF Reached
  <2>0. IsFiniteSet(T)
    BY <1>1
  <2>1. T # {}
    <3>1. Cardinality({}) = 0
      BY FS_EmptySet
    <3> QED BY <3>1
  <2>2. PICK x \in T : TRUE
    BY <2>1
  <2>3. Cardinality(T \ {x}) = n
    <3>1. Cardinality(T \ {x}) = Cardinality(T) - 1
      BY <2>0, FS_RemoveElement, Zenon
    <3> QED BY <3>1
  <2>4. T \ {x} \in Good /\ T = (T \ {x}) \union {x} /\ x \in S \ (T \ {x})
    BY <1>3, <2>3 DEF Reached
  <2> QED BY <2>4
<1> HIDE DEF Reached
<1>4. Nat \subseteq Reached
  BY <1>2, <1>3, CountsReach
<1> QED BY <1>1, <1>4 DEF Reached

-------------------------------------------------------------------------------
(* Sums.                                                                   *)
SumOver(f, S) == MapThenSumSet(LAMBDA x : f[x], S)

IsRunning(g, f, S) ==
  g = [s \in SUBSET S |-> IF s = {} THEN 0 ELSE f[CHOOSE x \in s : TRUE] + g[s \ {CHOOSE x \in s : TRUE}]]

LEMMA SumIsRunning ==
  ASSUME NEW f, NEW S
  PROVE  SumOver(f, S) = (CHOOSE g : IsRunning(g, f, S))[S]
  BY DEF SumOver, MapThenSumSet, MapThenFoldSet, IsRunning

LEMMA ChosenIsMember ==
  ASSUME NEW T, T # {}
  PROVE  (CHOOSE x \in T : TRUE) \in T
  OBVIOUS

\* Running totals exist: those of the sets of up to n elements extend to n + 1.
LEMMA RunningExists ==
  ASSUME NEW f, NEW S, IsFiniteSet(S), \A x \in S : f[x] \in Int
  PROVE  \E g \in [SUBSET S -> Int] : IsRunning(g, f, S)
<1> DEFINE Upto(n) == {T \in SUBSET S : Cardinality(T) <= n}
           One(T) == CHOOSE x \in T : TRUE
           Sums(g, n) == /\ g \in [Upto(n) -> Int]
                         /\ \A T \in Upto(n) : g[T] = IF T = {} THEN 0 ELSE f[One(T)] + g[T \ {One(T)}]
           Good == {n \in Nat : \E g : Sums(g, n)}
<1>1. \A T \in SUBSET S : IsFiniteSet(T) /\ Cardinality(T) \in Nat /\ (Cardinality(T) = 0 => T = {})
  BY FS_Subset, FS_CardinalityType, FS_EmptySet
<1>2. ASSUME NEW T \in SUBSET S, T # {}
      PROVE  One(T) \in T /\ T \ {One(T)} \in SUBSET S /\ Cardinality(T \ {One(T)}) = Cardinality(T) - 1
  <2>1. One(T) \in T
    BY <1>2
  <2> QED BY <1>1, <2>1, FS_RemoveElement
<1>3. 0 \in Good
  <2>1. Upto(0) = {{}}
    BY <1>1, FS_EmptySet
  <2>2. Sums([T \in {{}} |-> 0], 0)
    BY <2>1
  <2> QED BY <2>2
<1>4. ASSUME NEW n \in Nat, n \in Good PROVE n + 1 \in Good
  <2>1. PICK g : Sums(g, n)
    BY <1>4
  <2> DEFINE h == [T \in Upto(n + 1) |-> IF T = {} THEN 0 ELSE f[One(T)] + g[T \ {One(T)}]]
  <2>2. \A T \in Upto(n + 1) : T # {} => T \ {One(T)} \in Upto(n) /\ One(T) \in S
    BY <1>1, <1>2
  <2>3. \A T \in Upto(n) : T \in Upto(n + 1) /\ h[T] = g[T]
    BY <1>1, <2>1
  <2>4. h \in [Upto(n + 1) -> Int]
    <3>1. ASSUME NEW T \in Upto(n + 1), T # {} PROVE f[One(T)] + g[T \ {One(T)}] \in Int
      <4>1. T \ {One(T)} \in Upto(n) /\ One(T) \in S
        BY <2>2, <3>1
      <4>2. f[One(T)] \in Int /\ g[T \ {One(T)}] \in Int
        BY <2>1, <4>1
      <4> QED BY <4>2
    <3> HIDE DEF Upto, One
    <3> QED BY <3>1
  <2>5. \A T \in Upto(n + 1) : h[T] = IF T = {} THEN 0 ELSE f[One(T)] + h[T \ {One(T)}]
    <3> TAKE T \in Upto(n + 1)
    <3>1. h[T] = IF T = {} THEN 0 ELSE f[One(T)] + g[T \ {One(T)}]
      OBVIOUS
    <3>2. T # {} => h[T \ {One(T)}] = g[T \ {One(T)}]
      BY <2>2, <2>3
    <3> HIDE DEF h, One
    <3> QED BY <3>1, <3>2
  <2>6. Sums(h, n + 1)
    BY <2>4, <2>5
  <2>7. \E k : Sums(k, n + 1)
    BY <2>6
  <2> HIDE DEF Sums, h
  <2> QED BY <2>7
<1> HIDE DEF Good
<1>5. Cardinality(S) \in Good
  BY <1>1, <1>3, <1>4, CountsReach
<1>6. PICK g : Sums(g, Cardinality(S))
  BY <1>5 DEF Good
<1>7. Upto(Cardinality(S)) = SUBSET S
  <2>1. \A T \in SUBSET S : Cardinality(T) <= Cardinality(S)
    BY FS_Subset
  <2> QED BY <2>1
<1>8. IsRunning(g, f, S)
  BY <1>6, <1>7 DEF IsRunning
<1> QED BY <1>6, <1>7, <1>8

AnyOf(T) == CHOOSE y \in T : TRUE

LEMMA RunningTakesOne ==
  ASSUME NEW f, NEW S, NEW g, IsRunning(g, f, S)
  PROVE  \A T \in SUBSET S : T # {} => g[T] = f[AnyOf(T)] + g[T \ {AnyOf(T)}]
  BY DEF IsRunning, AnyOf

\* Running totals of two sets agree where both are.
LEMMA RunningAgree ==
  ASSUME NEW f, NEW S, NEW R, NEW g, NEW h, IsRunning(g, f, S), IsRunning(h, f, R),
         NEW T, T \subseteq S, T \subseteq R, IsFiniteSet(T)
  PROVE  g[T] = h[T]
<1> DEFINE Reached == {n \in Nat : \A U \in SUBSET T : Cardinality(U) = n => g[U] = h[U]}
<1>1. \A U \in SUBSET T : IsFiniteSet(U) /\ Cardinality(U) \in Nat
  BY FS_Subset, FS_CardinalityType
<1>2. g[{}] = 0 /\ h[{}] = 0
  BY DEF IsRunning
<1>3. 0 \in Reached
  BY <1>1, <1>2, FS_EmptySet
<1>4. \A U \in SUBSET S : U # {} => g[U] = f[AnyOf(U)] + g[U \ {AnyOf(U)}]
  BY RunningTakesOne
<1>5. \A U \in SUBSET R : U # {} => h[U] = f[AnyOf(U)] + h[U \ {AnyOf(U)}]
  BY RunningTakesOne
<1>6. ASSUME NEW n \in Nat, n \in Reached PROVE n + 1 \in Reached
  <2> SUFFICES ASSUME NEW U \in SUBSET T, Cardinality(U) = n + 1 PROVE g[U] = h[U]
    OBVIOUS
  <2>1. PICK x : x = AnyOf(U)
    OBVIOUS
  <2>2. U # {}
    <3>1. Cardinality({}) = 0
      BY FS_EmptySet
    <3> QED BY <3>1
  <2>3. x \in U
    BY <2>1, <2>2 DEF AnyOf
  <2>4. Cardinality(U \ {x}) = n
    <3>1. Cardinality(U \ {x}) = Cardinality(U) - 1
      BY <1>1, <2>3, FS_RemoveElement, Zenon
    <3> QED BY <3>1
  <2>5. g[U \ {x}] = h[U \ {x}]
    BY <1>6, <2>4
  <2>6. U \in SUBSET S /\ U \in SUBSET R
    OBVIOUS
  <2>7. g[U] = f[x] + g[U \ {x}]
    <3>1. g[U] = f[AnyOf(U)] + g[U \ {AnyOf(U)}]
      BY <1>4, <2>2, <2>6, Zenon
    <3> QED BY <2>1, <3>1
  <2>8. h[U] = f[x] + h[U \ {x}]
    <3>1. h[U] = f[AnyOf(U)] + h[U \ {AnyOf(U)}]
      BY <1>5, <2>2, <2>6, Zenon
    <3> QED BY <2>1, <3>1
  <2> QED BY <2>5, <2>7, <2>8
<1> HIDE DEF Reached
<1>7. Nat \subseteq Reached
  BY <1>3, <1>6, CountsReach
<1> QED BY <1>1, <1>7 DEF Reached

\* The three facts everything else follows from.
LEMMA SumOfNothing == ASSUME NEW f PROVE SumOver(f, {}) = 0
<1>1. IsFiniteSet({})
  BY FS_EmptySet
<1>2. \E g : IsRunning(g, f, {})
  BY <1>1, RunningExists
<1>3. IsRunning(CHOOSE g : IsRunning(g, f, {}), f, {})
  BY <1>2
<1>4. PICK g : g = CHOOSE h : IsRunning(h, f, {})
  OBVIOUS
<1>5. IsRunning(g, f, {})
  BY <1>3, <1>4
<1>6. g[{}] = 0
  BY <1>5 DEF IsRunning
<1> QED BY <1>4, <1>6, SumIsRunning

LEMMA SumIsInt ==
  ASSUME NEW f, NEW S, IsFiniteSet(S), \A x \in S : f[x] \in Int
  PROVE  SumOver(f, S) \in Int
<1>1. PICK h \in [SUBSET S -> Int] : IsRunning(h, f, S)
  BY RunningExists
<1>2. PICK g : g = CHOOSE k : IsRunning(k, f, S)
  OBVIOUS
<1>3. IsRunning(g, f, S)
  BY <1>1, <1>2
<1>4. g[S] = h[S]
  BY <1>1, <1>3, RunningAgree
<1> QED BY <1>1, <1>2, <1>4, SumIsRunning

\* A sum is that of the running totals of any set it lies in.
LEMMA SumRuns ==
  ASSUME NEW f, NEW S, IsFiniteSet(S), \A x \in S : f[x] \in Int, NEW g, IsRunning(g, f, S),
         NEW T \in SUBSET S
  PROVE  SumOver(f, T) = g[T]
<1>1. IsFiniteSet(T)
  BY FS_Subset
<1>2. PICK h \in [SUBSET T -> Int] : IsRunning(h, f, T)
  BY <1>1, RunningExists
<1>3. PICK k : k = CHOOSE c : IsRunning(c, f, T)
  OBVIOUS
<1>4. IsRunning(k, f, T)
  BY <1>2, <1>3
<1>5. g[T] = k[T]
  BY <1>1, <1>4, RunningAgree
<1> QED BY <1>3, <1>5, SumIsRunning

\* One element taken out of a sum, whichever it is.
LEMMA SumSplits ==
  ASSUME NEW f, NEW S, IsFiniteSet(S), \A x \in S : f[x] \in Int, NEW e \in S
  PROVE  SumOver(f, S) = f[e] + SumOver(f, S \ {e})
<1>1. PICK g \in [SUBSET S -> Int] : IsRunning(g, f, S)
  BY RunningExists
<1> DEFINE Reached == {n \in Nat : \A T \in SUBSET S : Cardinality(T) = n => \A x \in T : g[T] = f[x] + g[T \ {x}]}
<1>2. \A T \in SUBSET S : IsFiniteSet(T) /\ Cardinality(T) \in Nat
  BY FS_Subset, FS_CardinalityType
<1>3. 0 \in Reached
  BY <1>2, FS_EmptySet
<1>4. ASSUME NEW n \in Nat, n \in Reached PROVE n + 1 \in Reached
  <2> SUFFICES ASSUME NEW T \in SUBSET S, Cardinality(T) = n + 1, NEW x \in T PROVE g[T] = f[x] + g[T \ {x}]
    OBVIOUS
  <2>1. PICK c : c = CHOOSE y \in T : TRUE
    OBVIOUS
  <2>2. c \in T /\ g[T] = f[c] + g[T \ {c}]
    BY <1>1, <2>1 DEF IsRunning
  <2>3. ASSUME c # x PROVE g[T] = f[x] + g[T \ {x}]
    <3>1. \A y \in T : Cardinality(T \ {y}) = n
      <4> TAKE y \in T
      <4>1. Cardinality(T \ {y}) = Cardinality(T) - 1
        BY <1>2, FS_RemoveElement, Zenon
      <4> QED BY <4>1
    <3>2. x \in T \ {c} /\ c \in T \ {x} /\ T \ {c} \in SUBSET S /\ T \ {x} \in SUBSET S
      BY <2>2, <2>3
    <3>3. g[T \ {c}] = f[x] + g[(T \ {c}) \ {x}]
      BY <1>4, <2>2, <3>1, <3>2
    <3>4. g[T \ {x}] = f[c] + g[(T \ {x}) \ {c}]
      BY <1>4, <3>1, <3>2
    <3>5. (T \ {c}) \ {x} = (T \ {x}) \ {c} /\ (T \ {x}) \ {c} \in SUBSET S
      OBVIOUS
    <3>6. f[c] \in Int /\ f[x] \in Int /\ g[(T \ {x}) \ {c}] \in Int
      BY <1>1, <2>2, <3>5
    <3>7. PICK fc \in Int, fx \in Int, rest \in Int : fc = f[c] /\ fx = f[x] /\ rest = g[(T \ {x}) \ {c}]
      BY <3>6
    <3>8. g[T] = fc + (fx + rest) /\ g[T \ {x}] = fc + rest
      BY <2>2, <3>3, <3>4, <3>5, <3>7
    <3>9. g[T] = fx + (fc + rest)
      BY <3>8
    <3> QED BY <3>7, <3>8, <3>9
  <2> QED BY <2>2, <2>3
<1> HIDE DEF Reached
<1>5. Nat \subseteq Reached
  BY <1>3, <1>4, CountsReach
<1>6. g[S] = f[e] + g[S \ {e}]
  BY <1>2, <1>5 DEF Reached
<1>7. SumOver(f, S) = g[S] /\ SumOver(f, S \ {e}) = g[S \ {e}]
  <2>1. S \in SUBSET S /\ S \ {e} \in SUBSET S
    OBVIOUS
  <2> QED BY <1>1, <2>1, SumRuns
<1> QED BY <1>6, <1>7

\* Two functions that agree on a set have one sum over it.
LEMMA SumAgrees ==
  ASSUME NEW f, NEW h, NEW S, IsFiniteSet(S), \A x \in S : f[x] \in Int /\ h[x] = f[x]
  PROVE  SumOver(h, S) = SumOver(f, S)
<1> DEFINE Good == {T \in SUBSET S : SumOver(h, T) = SumOver(f, T)}
<1>1. {} \in Good
  BY SumOfNothing
<1>2. ASSUME NEW T \in SUBSET S, NEW x \in S \ T, T \in Good PROVE T \union {x} \in Good
  <2>1. PICK U : U = T \union {x}
    OBVIOUS
  <2>2. IsFiniteSet(U) /\ U \subseteq S /\ x \in U /\ U \ {x} = T
    BY <2>1, FS_Subset
  <2>3. SumOver(f, U) = f[x] + SumOver(f, U \ {x})
    BY <2>2, SumSplits
  <2>4. SumOver(h, U) = h[x] + SumOver(h, U \ {x})
    BY <2>2, SumSplits
  <2> QED BY <1>2, <2>1, <2>2, <2>3, <2>4
<1> HIDE DEF Good
<1>3. S \in Good
  BY <1>1, <1>2, SetsGrow
<1> QED BY <1>3 DEF Good

\* Elements that add nothing may be left out of a sum.
LEMMA SumLeavesOut ==
  ASSUME NEW f, NEW S, IsFiniteSet(S), \A x \in S : f[x] \in Int, NEW T \in SUBSET S, \A x \in S \ T : f[x] = 0
  PROVE  SumOver(f, S) = SumOver(f, T)
<1> DEFINE Good == {U \in SUBSET S : SumOver(f, U) = SumOver(f, U \cap T)}
<1>1. {} \in Good
  OBVIOUS
<1>2. ASSUME NEW U \in SUBSET S, NEW x \in S \ U, U \in Good PROVE U \union {x} \in Good
  <2>1. PICK V : V = U \union {x}
    OBVIOUS
  <2>2. IsFiniteSet(V) /\ V \subseteq S /\ x \in V /\ V \ {x} = U
    BY <2>1, FS_Subset
  <2>3. SumOver(f, V) = f[x] + SumOver(f, V \ {x})
    BY <2>2, SumSplits
  <2>4. IsFiniteSet(U \cap T) /\ SumOver(f, U \cap T) \in Int
    <3>1. U \cap T \subseteq S /\ IsFiniteSet(U \cap T)
      BY FS_Subset
    <3> QED BY <3>1, SumIsInt
  <2>5. CASE x \in T
    <3>1. PICK W : W = V \cap T
      OBVIOUS
    <3>2. IsFiniteSet(W) /\ W \subseteq S /\ x \in W /\ W \ {x} = U \cap T
      BY <2>1, <2>2, <2>5, <3>1, FS_Subset
    <3>3. SumOver(f, W) = f[x] + SumOver(f, W \ {x})
      BY <3>2, SumSplits
    <3> QED BY <1>2, <2>1, <2>2, <2>3, <3>1, <3>2, <3>3
  <2>6. CASE x \notin T
    <3>1. f[x] = 0 /\ V \cap T = U \cap T
      BY <2>1, <2>6
    <3>2. SumOver(f, V) = 0 + SumOver(f, U \cap T)
      BY <1>2, <2>2, <2>3, <3>1
    <3>3. SumOver(f, V) = SumOver(f, V \cap T)
      <4>1. PICK t \in Int : t = SumOver(f, U \cap T)
        BY <2>4
      <4>2. SumOver(f, V) = t
        BY <3>2, <4>1
      <4> QED BY <3>1, <4>1, <4>2
    <3> QED BY <2>1, <2>2, <3>3
  <2> QED BY <2>5, <2>6
<1> HIDE DEF Good
<1>3. S \in Good
  BY <1>1, <1>2, SetsGrow
<1>4. S \cap T = T
  OBVIOUS
<1> QED BY <1>3, <1>4 DEF Good

\* A sum of greater numbers is greater, and one of positive numbers positive.
LEMMA SumGrows ==
  ASSUME NEW f, NEW h, NEW S, IsFiniteSet(S), \A x \in S : f[x] \in Int /\ h[x] \in Int /\ f[x] <= h[x]
  PROVE  SumOver(f, S) <= SumOver(h, S)
<1> DEFINE Good == {T \in SUBSET S : SumOver(f, T) <= SumOver(h, T)}
<1>1. {} \in Good
  BY SumOfNothing
<1>2. ASSUME NEW T \in SUBSET S, NEW x \in S \ T, T \in Good PROVE T \union {x} \in Good
  <2>1. PICK V : V = T \union {x}
    OBVIOUS
  <2>2. IsFiniteSet(V) /\ V \subseteq S /\ x \in V /\ V \ {x} = T /\ IsFiniteSet(T)
    BY <2>1, FS_Subset
  <2>3. SumOver(f, V) = f[x] + SumOver(f, V \ {x})
    BY <2>2, SumSplits
  <2>4. SumOver(h, V) = h[x] + SumOver(h, V \ {x})
    BY <2>2, SumSplits
  <2>5. SumOver(f, T) \in Int /\ SumOver(h, T) \in Int
    BY <2>2, SumIsInt
  <2>6. SumOver(f, V) <= SumOver(h, V)
    BY <1>2, <2>2, <2>3, <2>4, <2>5
  <2> QED BY <2>1, <2>2, <2>6
<1> HIDE DEF Good
<1>3. S \in Good
  BY <1>1, <1>2, SetsGrow
<1> QED BY <1>3 DEF Good

LEMMA SumIsPositive ==
  ASSUME NEW f, NEW S, IsFiniteSet(S), S # {}, \A x \in S : f[x] \in Nat \ {0}
  PROVE  SumOver(f, S) \in Nat \ {0}
<1>1. PICK e \in S : TRUE
  OBVIOUS
<1>2. PICK T : T = S \ {e}
  OBVIOUS
<1>3. IsFiniteSet(T)
  BY <1>2, FS_Subset
<1>4. SumOver(f, S) = f[e] + SumOver(f, T)
  BY <1>2, SumSplits
<1>5. PICK z : z = [x \in T |-> 0]
  OBVIOUS
<1>6. SumOver(z, T) = SumOver(z, {})
  BY <1>3, <1>5, SumLeavesOut
<1>7. SumOver(z, T) <= SumOver(f, T)
  BY <1>2, <1>3, <1>5, SumGrows
<1>8. SumOver(f, T) \in Int
  BY <1>2, <1>3, SumIsInt
<1> QED BY <1>1, <1>4, <1>6, <1>7, <1>8, SumOfNothing

-------------------------------------------------------------------------------
(* Orders.  A finite set has a sequence of its members in any order that   *)
(* tells two of them apart.                                                *)
Orders(R, S) ==
  /\ \A x, y \in S : x # y => <<x, y>> \in R \/ <<y, x>> \in R
  /\ \A x, y, z \in S : <<x, y>> \in R /\ <<y, z>> \in R => <<x, z>> \in R
  /\ \A x \in S : <<x, x>> \notin R

Sorts(s, R, S) ==
  /\ s \in [1..Cardinality(S) -> S]
  /\ \A i, j \in DOMAIN s : i < j => <<s[i], s[j]>> \in R

\* What is put in its place keeps the order.
LEMMA SortInserts ==
  ASSUME NEW R, NEW T, NEW x, x \notin T, IsFiniteSet(T), Orders(R, T \union {x}), NEW s, Sorts(s, R, T)
  PROVE  \E r : Sorts(r, R, T \union {x})
<1>1. PICK n \in Nat : n = Cardinality(T) /\ Cardinality(T \union {x}) = n + 1
  <2>1. Cardinality(T) \in Nat
    BY FS_CardinalityType
  <2>2. Cardinality(T \union {x}) = IF x \in T THEN Cardinality(T) ELSE Cardinality(T) + 1
    BY FS_AddElement, Zenon
  <2>3. Cardinality(T \union {x}) = Cardinality(T) + 1
    BY <2>2
  <2>4. PICK n \in Nat : n = Cardinality(T)
    BY <2>1
  <2> QED BY <2>3, <2>4
<1>2. s \in [1..n -> T] /\ \A i, j \in 1..n : i < j => <<s[i], s[j]>> \in R
  BY <1>1 DEF Sorts
<1> DEFINE later == {i \in 1..(n + 1) : i = n + 1 \/ <<x, s[i]>> \in R}
<1>3. PICK k \in later : \A i \in later : k <= i
  <2>1. later \subseteq Nat
    OBVIOUS
  <2>2. n + 1 \in later
    OBVIOUS
  <2> HIDE DEF later
  <2> QED BY <2>1, <2>2, HasLeast
<1>4. k \in 1..(n + 1)
  OBVIOUS
<1>5. \A i \in 1..n : i < k => <<s[i], x>> \in R
  <2> TAKE i \in 1..n
  <2>1. s[i] \in T /\ s[i] # x
    BY <1>2
  <2>2. i < k => <<x, s[i]>> \notin R
    BY <1>3
  <2> QED BY <2>1, <2>2 DEF Orders
<1>6. \A i \in 1..n : i >= k => <<x, s[i]>> \in R
  <2> SUFFICES ASSUME NEW i \in 1..n, i >= k PROVE <<x, s[i]>> \in R
    OBVIOUS
  <2>1. <<x, s[k]>> \in R /\ k \in 1..n
    BY <1>3
  <2>2. CASE i = k
    BY <2>1, <2>2
  <2>3. CASE k < i
    <3>1. <<s[k], s[i]>> \in R /\ s[k] \in T /\ s[i] \in T
      BY <1>2, <2>1, <2>3
    <3> QED BY <2>1, <3>1 DEF Orders
  <2> QED BY <2>2, <2>3
<1> HIDE DEF later
<1> DEFINE r == [i \in 1..(n + 1) |-> IF i < k THEN s[i] ELSE IF i = k THEN x ELSE s[i - 1]]
<1>7. r \in [1..(n + 1) -> T \union {x}]
  BY <1>2, <1>4
<1>8. ASSUME NEW i \in 1..(n + 1), NEW j \in 1..(n + 1), i < j PROVE <<r[i], r[j]>> \in R
  <2>1. CASE j < k
    BY <1>2, <1>4, <1>8, <2>1
  <2>2. CASE j = k
    BY <1>4, <1>5, <1>8, <2>2
  <2>3. CASE k < j /\ i < k
    <3>1. r[i] = s[i] /\ r[j] = s[j - 1] /\ i \in 1..n /\ j - 1 \in 1..n /\ i < j - 1
      BY <1>4, <1>8, <2>3
    <3> QED BY <1>2, <3>1
  <2>4. CASE k < j /\ i = k
    <3>1. r[i] = x /\ r[j] = s[j - 1] /\ j - 1 \in 1..n /\ j - 1 >= k
      BY <1>4, <1>8, <2>4
    <3> QED BY <1>6, <3>1
  <2>5. CASE k < i
    <3>1. r[i] = s[i - 1] /\ r[j] = s[j - 1] /\ i - 1 \in 1..n /\ j - 1 \in 1..n /\ i - 1 < j - 1
      BY <1>4, <1>8, <2>5
    <3> QED BY <1>2, <3>1
  <2> QED BY <1>4, <1>8, <2>1, <2>2, <2>3, <2>4, <2>5
<1> HIDE DEF r
<1>9. DOMAIN r = 1..(n + 1)
  BY <1>7
<1>10. Sorts(r, R, T \union {x})
  BY <1>1, <1>7, <1>8, <1>9 DEF Sorts
<1> QED BY <1>10

LEMMA SortExists ==
  ASSUME NEW R, NEW S, IsFiniteSet(S), Orders(R, S)
  PROVE  \E s : Sorts(s, R, S)
<1> DEFINE Good == {T \in SUBSET S : \E s : Sorts(s, R, T)}
<1>1. {} \in Good
  <2>1. Cardinality({}) = 0 /\ 1..0 = {}
    BY FS_EmptySet
  <2>2. Sorts([i \in {} |-> i], R, {})
    BY <2>1 DEF Sorts
  <2> QED BY <2>2
<1>2. ASSUME NEW T \in SUBSET S, NEW x \in S \ T, T \in Good PROVE T \union {x} \in Good
  <2>1. PICK s : Sorts(s, R, T)
    BY <1>2
  <2>2. Orders(R, T \union {x}) /\ IsFiniteSet(T)
    BY FS_Subset DEF Orders
  <2>3. \E r : Sorts(r, R, T \union {x})
    BY <2>1, <2>2, SortInserts
  <2> QED BY <2>3
<1> HIDE DEF Good
<1>3. S \in Good
  BY <1>1, <1>2, SetsGrow
<1> QED BY <1>3 DEF Good

\* It has every member, and each one once.
LEMMA SortedIsWhole ==
  ASSUME NEW R, NEW S, IsFiniteSet(S), Orders(R, S), NEW s, Sorts(s, R, S)
  PROVE  /\ s \in Seq(S) /\ Len(s) = Cardinality(S) /\ {s[i] : i \in DOMAIN s} = S
         /\ \A i, j \in DOMAIN s : i # j => s[i] # s[j]
<1>1. PICK n \in Nat : n = Cardinality(S)
  BY FS_CardinalityType
<1>2. s \in [1..n -> S] /\ \A i, j \in 1..n : i < j => <<s[i], s[j]>> \in R
  BY <1>1 DEF Sorts
<1>3. \A i, j \in 1..n : i # j => s[i] # s[j]
  <2> SUFFICES ASSUME NEW i \in 1..n, NEW j \in 1..n, i < j PROVE s[i] # s[j]
    OBVIOUS
  <2> QED BY <1>2 DEF Orders
<1>4. s \in Injection(1..n, S)
  BY <1>2, <1>3 DEF Injection, IsInjective
<1>5. Cardinality(1..n) = n
  BY FS_Interval
<1>6. s \in Surjection(1..n, S)
  BY <1>1, <1>4, <1>5, FS_Injection
<1>7. {s[i] : i \in DOMAIN s} = S
  BY <1>2, <1>6 DEF Surjection
<1>8. s \in Seq(S) /\ Len(s) = n
  BY <1>2
<1> QED BY <1>1, <1>2, <1>3, <1>7, <1>8

-------------------------------------------------------------------------------
(***************************************************************************)
(* The tree of a statement. A merged row has a place of its own, the       *)
(* places of a group are its members, and the node of a group holds each   *)
(* of them once: as its amount or as one of its children.                  *)
(***************************************************************************)
\* What the page was put together from: rows of the filings, and the nodes the
\* merge of the two income statements gives.
TreeInv ==
  /\ income \in Seq(IncomeRows) /\ overall \in Seq(IncomeRows)
  /\ page = NoPage \/ page.nodes = IncomeNodes

LEMMA TreeStarts == TreeInit => TreeInv
<1> SUFFICES ASSUME TreeInit PROVE TreeInv
  OBVIOUS
<1>1. income \in UNION {[1..n -> IncomeRows] : n \in 0..MaxRows}
  BY DEF TreeInit, Lines
<1>2. PICK n \in 0..MaxRows : income \in [1..n -> IncomeRows]
  BY <1>1
<1>3. n \in Nat
  BY TreeAssumption
<1>4. income \in Seq(IncomeRows)
  BY <1>2, <1>3
<1>5. overall \in Seq(IncomeRows)
  <2>1. overall = << >> \/ overall = income
    BY DEF TreeInit
  <2>2. << >> \in Seq(IncomeRows)
    BY EmptySeq
  <2> QED BY <1>4, <2>1, <2>2
<1> QED BY <1>4, <1>5 DEF TreeInit, TreeInv

LEMMA SameNodes ==
  ASSUME income' = income, overall' = overall, before' = before
  PROVE  IncomeNodes' = IncomeNodes
<1>1. Both' = Both
  BY DEF Both
<1>2. Merged' = Merged
  BY <1>1 DEF Merged
<1>3. \A g : Members(g)' = Members(g)
  BY <1>1, <1>2 DEF Members
<1>4. \A l, a, c : Node(l, a, c)' = Node(l, a, c)
  BY <1>1 DEF Node, Previous
<1>5. \A g : GroupNode(g)' = GroupNode(g)
  <2> TAKE g
  <2>1. PICK M : M = Members(g)
    OBVIOUS
  <2>2. M = Members(g)'
    BY <1>3, <2>1
  <2>3. \A l, a, c : Node(l, a, c)' = Node(l, a, c)
    BY <1>4
  <2> QED BY <1>1, <2>1, <2>2, <2>3 DEF GroupNode
<1>6. {GroupNode(g) : g \in {h \in Groups : Members(h) # {}}}' = {GroupNode(g) : g \in {h \in Groups : Members(h) # {}}}
  BY <1>3, <1>5 DEF Groups
<1>7. {Node("row", i, {}) : i \in Members("none")}' = {Node("row", i, {}) : i \in Members("none")}
  BY <1>3, <1>4
<1> QED BY <1>6, <1>7 DEF IncomeNodes

LEMMA TreeStays == TreeInv /\ [TreeNext]_treeVars => TreeInv'
<1> SUFFICES ASSUME TreeInv, [TreeNext]_treeVars PROVE TreeInv'
  OBVIOUS
<1>1. CASE Assembles
  <2>1. income' = income /\ overall' = overall /\ before' = before /\ page'.nodes = IncomeNodes
    BY <1>1 DEF Assembles
  <2>2. IncomeNodes' = IncomeNodes
    BY <2>1, SameNodes
  <2> QED BY <2>1, <2>2 DEF TreeInv
<1>2. CASE UNCHANGED treeVars
  <2>1. income' = income /\ overall' = overall /\ before' = before /\ page' = page
    BY <1>2 DEF treeVars
  <2>2. IncomeNodes' = IncomeNodes
    BY <2>1, SameNodes
  <2> QED BY <2>1, <2>2 DEF TreeInv, NoPage
<1> QED BY <1>1, <1>2 DEF TreeNext

\* Every merged place has a row of its own.
LEMMA MergedApart ==
  ASSUME TreeInv
  PROVE  /\ IsFiniteSet(Merged) /\ Merged \subseteq Nat \ {0}
         /\ \A i \in Merged : Both[i] \in IncomeRows /\ Both[i] # NoAmount
         /\ \A i, j \in Merged : Both[i] = Both[j] => i = j
<1>1. Both \in Seq(IncomeRows) /\ DOMAIN Both = 1..Len(Both) /\ Len(Both) \in Nat
  BY DEF TreeInv, Both
<1>2. IsFiniteSet(DOMAIN Both)
  BY <1>1, FS_Interval
<1>3. Merged \subseteq DOMAIN Both
  BY DEF Merged
<1>4. IsFiniteSet(Merged)
  BY <1>2, <1>3, FS_Subset
<1>5. \A i, j \in Merged : i < j => Both[i].name # Both[j].name
  BY <1>1 DEF Merged
<1>6. \A i, j \in Merged : Both[i] = Both[j] => i = j
  BY <1>1, <1>3, <1>5
<1> QED BY <1>1, <1>3, <1>4, <1>6, TreeAssumption

LEMMA NodeFields ==
  ASSUME NEW l, NEW f, NEW c
  PROVE  Node(l, f, c).from = f /\ Node(l, f, c).children = c
  BY DEF Node

\* A group's amount is that of no place or of one of its own.
Leader(g) ==
  LET first == {k \in Members(g) : Both[k].leads} IN
  IF g \in TotalLike /\ first # {} THEN Min(first) ELSE 0

\* The node of a group has each place of the group once, as its amount or below
\* it, and no other place.
LEMMA GroupHolds ==
  ASSUME TreeInv, NEW g, Members(g) # {}
  PROVE  /\ GroupNode(g).from \in Members(g) \cup {0} /\ GroupNode(g).children \subseteq Members(g)
         /\ \A i \in Members(g) : GroupNode(g).from = i <=> i \notin GroupNode(g).children
<1> DEFINE members == Members(g)
<1>1. members \subseteq Merged /\ IsFiniteSet(members) /\ members \subseteq Nat \ {0}
  BY MergedApart, FS_Subset DEF Members
<1>2. CASE Cardinality(members) = 1
  <2>1. PICK i : members = {i}
    BY <1>1, <1>2, FS_Singleton
  <2>2. (CHOOSE k \in members : TRUE) = i
    BY <2>1
  <2>3. GroupNode(g) = Node("row", i, {})
    BY <1>2, <2>2 DEF GroupNode
  <2> QED BY <2>1, <2>3, NodeFields
<1>3. CASE Cardinality(members) # 1
  <2>1. PICK leader : leader = Leader(g)
    OBVIOUS
  <2>2. leader = 0 \/ leader \in members
    <3> DEFINE first == {k \in members : Both[k].leads}
    <3>1. first \subseteq Nat /\ first \subseteq members
      BY <1>1
    <3>2. first # {} => Min(first) \in first
      BY <3>1, LeastIsMember
    <3> QED BY <2>1, <3>1, <3>2 DEF Leader
  <2>3. GroupNode(g) = Node(g, leader, members \ {leader})
    BY <1>3, <2>1 DEF GroupNode, Leader
  <2> QED BY <1>1, <2>2, <2>3, NodeFields
<1> QED BY <1>2, <1>3

\* The nodes have places of the merge, or no amount, and each place once.
LEMMA RowPlaced ==
  ASSUME TreeInv, NEW i \in Merged
  PROVE  \E m \in IncomeNodes :
           /\ m.from = i <=> i \notin m.children
           /\ \A n \in IncomeNodes : n.from = i \/ i \in n.children => n = m
<1> DEFINE alone == {Node("row", j, {}) : j \in Members("none")}
           grouped == {GroupNode(g) : g \in {h \in Groups : Members(h) # {}}}
           g == Both[i].group
<1>0. /\ IncomeNodes = grouped \union alone /\ "none" \notin Groups
      /\ 0 \notin Merged /\ i \in Members(g) /\ \A h : i \in Members(h) <=> h = g
  BY MergedApart DEF IncomeNodes, Groups, Members
<1>1. \A n \in alone : \E j \in Members("none") : n = Node("row", j, {}) /\ n.from = j /\ n.children = {}
  BY NodeFields
<1>2. \A h \in Groups : Members(h) # {} /\ (GroupNode(h).from = i \/ i \in GroupNode(h).children) => h = g
  <2> SUFFICES ASSUME NEW h \in Groups, Members(h) # {}, GroupNode(h).from = i \/ i \in GroupNode(h).children
               PROVE  h = g
    OBVIOUS
  <2>1. i \in Members(h)
    BY <1>0, GroupHolds
  <2> QED BY <1>0, <2>1
<1>3. CASE g = "none"
  <2>1. Node("row", i, {}) \in alone /\ Node("row", i, {}).from = i /\ Node("row", i, {}).children = {}
    BY <1>0, <1>3, NodeFields
  <2>2. \A n \in alone : n.from = i \/ i \in n.children => n = Node("row", i, {})
    BY <1>1
  <2>3. \A n \in grouped : ~(n.from = i \/ i \in n.children)
    BY <1>0, <1>2, <1>3
  <2> QED BY <1>0, <2>1, <2>2, <2>3
<1>4. CASE g # "none"
  <2>1. g \in Groups /\ Members(g) # {}
    BY <1>0, <1>4, MergedApart DEF Groups
  <2>2. \A n \in alone : ~(n.from = i \/ i \in n.children)
    BY <1>0, <1>1, <1>4
  <2>3. GroupNode(g) \in grouped /\ \A n \in grouped : n.from = i \/ i \in n.children => n = GroupNode(g)
    BY <1>2, <2>1
  <2>4. GroupNode(g).from = i <=> i \notin GroupNode(g).children
    BY <1>0, <2>1, GroupHolds
  <2> QED BY <1>0, <2>2, <2>3, <2>4
<1> QED BY <1>3, <1>4

\* Nothing on the page is from elsewhere.
LEMMA NodesAreOfMerge ==
  ASSUME TreeInv, NEW n \in IncomeNodes
  PROVE  n.from \in Merged \cup {0} /\ n.children \subseteq Merged
<1>1. \A g : Members(g) \subseteq Merged
  BY DEF Members
<1>2. CASE \E j \in Members("none") : n = Node("row", j, {})
  BY <1>1, <1>2, NodeFields
<1>3. CASE \E g \in Groups : Members(g) # {} /\ n = GroupNode(g)
  BY <1>1, <1>3, GroupHolds
<1> QED BY <1>2, <1>3 DEF IncomeNodes

LEMMA PlacedOnce == TreeInv => EveryRowOnce
<1> SUFFICES ASSUME TreeInv, page # NoPage, NEW i \in Merged
             PROVE  Places(Both[i]) = 1
  BY DEF EveryRowOnce, MergedRows
<1>1. page.nodes = IncomeNodes
  BY DEF TreeInv
<1>2. PICK m \in IncomeNodes : /\ m.from = i <=> i \notin m.children
                               /\ \A n \in IncomeNodes : n.from = i \/ i \in n.children => n = m
  BY RowPlaced
<1>3. /\ i \in DOMAIN Both /\ 0 \notin Merged /\ \A k \in Merged : Both[k] = Both[i] <=> k = i
      /\ Merged \subseteq DOMAIN Both
  BY MergedApart DEF Merged
<1>4. \A n \in IncomeNodes : n.from # 0 /\ Both[n.from] = Both[i] <=> n.from = i
  BY <1>3, NodesAreOfMerge
<1>5. \A n \in IncomeNodes, k \in DOMAIN Both : k \in n.children /\ Both[k] = Both[i] <=> k = i /\ i \in n.children
  BY <1>3, NodesAreOfMerge
<1>6. Heading(Both[i]) = {n \in IncomeNodes : n.from = i}
  BY <1>1, <1>4 DEF Heading
<1>7. Entries(Both[i]) = {p \in IncomeNodes \X DOMAIN Both : p[2] = i /\ i \in p[1].children}
  BY <1>1, <1>5 DEF Entries
<1>8. Cardinality({m}) = 1 /\ Cardinality({<<m, i>>}) = 1 /\ Cardinality({}) = 0
  BY FS_Singleton, FS_EmptySet
<1>9. CASE m.from = i
  <2>1. Heading(Both[i]) = {m} /\ Entries(Both[i]) = {}
    BY <1>2, <1>6, <1>7, <1>9
  <2>2. Places(Both[i]) = 1 + 0
    BY <1>8, <2>1, Zenon DEF Places
  <2> QED BY <2>2
<1>10. CASE m.from # i
  <2>1. Heading(Both[i]) = {} /\ Entries(Both[i]) = {<<m, i>>}
    BY <1>2, <1>3, <1>6, <1>7, <1>10
  <2>2. Places(Both[i]) = 0 + 1
    BY <1>8, <2>1, Zenon DEF Places
  <2> QED BY <2>2
<1> QED BY <1>9, <1>10

\* Every row of the two income statements that is the first of its name is in
\* the tree in one place: as a line of its own, as the amount of its group or
\* below it; for statements of any length (company_financial_statements).
THEOREM RowsPlacedOnce == TreeSpec => []EveryRowOnce
  BY TreeStarts, TreeStays, PlacedOnce, PTL DEF TreeSpec

-------------------------------------------------------------------------------
(***************************************************************************)
(* The figures. A report states the year or the quarter; the quarter is    *)
(* found by taking the others away, and four quarters make the year again. *)
(* Whatever is parsed is what the report states, however it is laid out.   *)
(***************************************************************************)
LEMMA SumFromIsSum == \A f, a, b : SumFrom(f, a, b) = SumOver(f, a..b)
  BY DEF SumFrom, SumOver

LEMMA QuarterFacts ==
  ASSUME NEW t \in Nat \ {0}
  PROVE  /\ QuarterOf(t) \in 1..4
         /\ YearStart(t) \in Nat \ {0} /\ YearStart(t) <= t
         /\ QuarterOf(t) = 4 => t >= 4 /\ YearStart(t) = t - 3 /\ \A u \in (t - 3)..(t - 1) : QuarterOf(u) # 4
  BY DEF QuarterOf, YearStart

LEMMA TotalIsSum ==
  ASSUME NEW S
  PROVE  Total(S) = SumOver([i \in S |-> i.amount], S)
<1> DEFINE f == [i \in S |-> i.amount]
           One(T) == CHOOSE x \in T : TRUE
           G(g) == [s \in SUBSET S |-> IF s = {} THEN 0 ELSE One(s).amount + g[s \ {One(s)}]]
           H(g) == [s \in SUBSET S |-> IF s = {} THEN 0 ELSE f[One(s)] + g[s \ {One(s)}]]
<1>1. \A T \in SUBSET S : T # {} => One(T) \in S
  OBVIOUS
<1>2. \A g : G(g) = H(g)
  BY <1>1
<1>3. Total(S) = (CHOOSE g : g = G(g))[S]
  BY DEF Total, MapThenSumSet, MapThenFoldSet
<1>4. SumOver(f, S) = (CHOOSE g : g = H(g))[S]
  BY DEF SumOver, MapThenSumSet, MapThenFoldSet
<1> HIDE DEF G, H
<1>5. (CHOOSE g : g = G(g)) = (CHOOSE g : g = H(g))
  BY <1>2
<1> QED BY <1>3, <1>4, <1>5

\* A sum over the quarters from a to b.
LEMMA SumFromFacts ==
  ASSUME NEW f, NEW a \in Int, NEW b \in Int, a <= b, \A u \in a..b : f[u] \in Int
  PROVE  SumFrom(f, a, b) \in Int /\ SumFrom(f, a, b - 1) \in Int /\ SumFrom(f, a, b) = f[b] + SumFrom(f, a, b - 1)
<1>1. IsFiniteSet(a..b) /\ IsFiniteSet(a..(b - 1))
  BY FS_Interval
<1>2. (a..b) \ {b} = a..(b - 1) /\ b \in a..b
  OBVIOUS
<1>3. SumOver(f, a..b) = f[b] + SumOver(f, (a..b) \ {b})
  BY <1>1, <1>2, SumSplits
<1>4. SumOver(f, a..b) \in Int
  BY <1>1, SumIsInt
<1>5. SumOver(f, a..(b - 1)) \in Int
  BY <1>1, SumIsInt
<1> QED BY <1>2, <1>3, <1>4, <1>5, SumFromIsSum

LEMMA SumFromAgrees ==
  ASSUME NEW f, NEW h, NEW a \in Int, NEW b \in Int, \A u \in a..b : f[u] \in Int /\ h[u] = f[u]
  PROVE  SumFrom(h, a, b) = SumFrom(f, a, b)
<1>1. IsFiniteSet(a..b)
  BY FS_Interval
<1>2. SumOver(h, a..b) = SumOver(f, a..b)
  BY <1>1, SumAgrees
<1> QED BY <1>2, SumFromIsSum

-------------------------------------------------------------------------------
(* A report of single quarters: the year in the fourth, else the quarter.  *)
Yearly(f, t) == IF QuarterOf(t) = 4 THEN SumFrom(f, t - 3, t) ELSE f[t]

LEMMA StatedYearly ==
  ASSUME style = "quarters", NEW f, NEW t \in Term
  PROVE  Stated(f, t) = Yearly(f, t)
  BY FiguresAssumption, QuarterFacts DEF Stated, Yearly, Term

LEMMA YearlyIsInt ==
  ASSUME NEW f \in [Term -> Int], NEW t \in Term
  PROVE  Yearly(f, t) \in Int
<1>1. CASE QuarterOf(t) = 4
  <2>1. t \in Nat \ {0} /\ t >= 4
    BY <1>1, FiguresAssumption, QuarterFacts DEF Term
  <2>2. \A u \in (t - 3)..t : f[u] \in Int
    BY <2>1, FiguresAssumption DEF Term
  <2>3. SumFrom(f, t - 3, t) \in Int
    BY <2>1, <2>2, SumFromFacts
  <2> QED BY <1>1, <2>3 DEF Yearly
<1>2. CASE QuarterOf(t) # 4
  BY <1>2 DEF Yearly
<1> QED BY <1>1, <1>2

\* The figures that were parsed are what the reports state of s, or nothing.
StatesOf(f, s) == \A t \in Term : f[t] \in {NoFigure, Yearly(s, t)}

\* The year less its three quarters is the fourth.
LEMMA SingleIsTheQuarter ==
  ASSUME NEW s \in [Term -> Int], NEW f, StatesOf(f, s), NEW t \in Term
  PROVE  Single(f, t) \in {NoFigure, s[t]}
<1>1. NoFigure \notin Int /\ t \in Nat \ {0} /\ s[t] \in Int
  BY FiguresAssumption DEF Term
<1>2. CASE QuarterOf(t) # 4
  <2>1. Single(f, t) = f[t] /\ Yearly(s, t) = s[t]
    BY <1>2 DEF Single, Yearly
  <2> QED BY <2>1 DEF StatesOf
<1>3. CASE QuarterOf(t) = 4 /\ f[t] = NoFigure
  BY <1>3 DEF Single
<1>4. CASE QuarterOf(t) = 4 /\ f[t] # NoFigure /\ \E u \in YearStart(t)..(t - 1) : f[u] = NoFigure
  BY <1>4 DEF Single
<1>5. CASE QuarterOf(t) = 4 /\ f[t] # NoFigure /\ ~\E u \in YearStart(t)..(t - 1) : f[u] = NoFigure
  <2>1. t >= 4 /\ YearStart(t) = t - 3 /\ \A u \in (t - 3)..(t - 1) : QuarterOf(u) # 4 /\ f[u] # NoFigure
    BY <1>1, <1>5, QuarterFacts
  <2>2. \A u \in (t - 3)..t : u \in Term
    BY <1>1, <2>1, FiguresAssumption DEF Term
  <2>3. \A u \in (t - 3)..(t - 1) : s[u] \in Int /\ f[u] = s[u]
    BY <1>1, <2>1, <2>2 DEF StatesOf, Yearly
  <2>4. SumFrom(f, t - 3, t - 1) = SumFrom(s, t - 3, t - 1)
    BY <1>1, <2>3, SumFromAgrees
  <2>5. f[t] = SumFrom(s, t - 3, t)
    BY <1>5 DEF StatesOf, Yearly
  <2>6. SumFrom(s, t - 3, t) = s[t] + SumFrom(s, t - 3, t - 1) /\ SumFrom(s, t - 3, t - 1) \in Int
    BY <1>1, <2>2, SumFromFacts
  <2>7. Single(f, t) = f[t] - SumFrom(f, t - 3, t - 1)
    BY <1>5, <2>1 DEF Single
  <2>8. Single(f, t) = s[t]
    BY <1>1, <2>4, <2>5, <2>6, <2>7
  <2> QED BY <2>8
<1> QED BY <1>2, <1>3, <1>4, <1>5

\* Twelve months of single quarters are the four quarters'.
LEMMA TwelveMonthsAreQuarters ==
  ASSUME NEW s \in [Term -> Int], NEW f, \A t \in Term : f[t] \in {NoFigure, s[t]}, NEW t \in Term,
         TwelveMonths(f, t) # NoFigure
  PROVE  t >= 4 /\ TwelveMonths(f, t) = SumFrom(s, t - 3, t)
<1>1. t \in Nat
  BY FiguresAssumption DEF Term
<1>2. t >= 4 /\ \A u \in (t - 3)..t : f[u] # NoFigure
  BY <1>1 DEF TwelveMonths
<1>3. \A u \in (t - 3)..t : u \in Term
  BY <1>1, <1>2, FiguresAssumption DEF Term
<1>4. SumFrom(f, t - 3, t) = SumFrom(s, t - 3, t)
  BY <1>1, <1>2, <1>3, SumFromAgrees
<1>5. TwelveMonths(f, t) = SumFrom(f, t - 3, t)
  BY <1>1, <1>2 DEF TwelveMonths
<1> QED BY <1>2, <1>4, <1>5

-------------------------------------------------------------------------------
(* What a statement has for the whole is found, however it is laid out.    *)
LEMMA ItemFields ==
  ASSUME NEW ta, NEW g, NEW n, NEW a
  PROVE  LET i == Item(ta, g, n, a) IN i.table = ta /\ i.tag = g /\ i.name = n /\ i.amount = a
  BY DEF Item

LEMMA AmountOfOne == ASSUME NEW i PROVE AmountOf({i}) = i.amount
  BY DEF AmountOf

LEMMA TotalOfTwo ==
  ASSUME NEW i, NEW j, i # j, i.amount \in Int, j.amount \in Int
  PROVE  Total({i, j}) = i.amount + j.amount
<1> DEFINE S == {i, j}
           f == [k \in S |-> k.amount]
<1>1. f[i] = i.amount /\ f[j] = j.amount /\ \A k \in S : f[k] \in Int
  OBVIOUS
<1>2. IsFiniteSet(S) /\ IsFiniteSet({j}) /\ S \ {i} = {j} /\ {j} \ {j} = {}
  <2>1. IsFiniteSet({j}) /\ S = {j} \union {i}
    BY FS_Singleton
  <2>2. IsFiniteSet({j} \union {i})
    BY <2>1, FS_AddElement
  <2> QED BY <2>1, <2>2
<1> HIDE DEF f
<1>3. SumOver(f, S) = f[i] + SumOver(f, S \ {i})
  BY <1>1, <1>2, SumSplits
<1>4. SumOver(f, {j}) = f[j] + SumOver(f, {j} \ {j})
  BY <1>1, <1>2, SumSplits
<1>5. SumOver(f, {}) = 0
  BY SumOfNothing
<1>6. Total(S) = SumOver(f, S)
  BY TotalIsSum DEF f
<1>7. SumOver(f, {j}) = f[j]
  <2>1. SumOver(f, {j}) = f[j] + 0 /\ f[j] \in Int
    BY <1>1, <1>2, <1>4, <1>5
  <2> QED BY <2>1
<1>8. SumOver(f, S) = f[i] + f[j]
  BY <1>2, <1>3, <1>7
<1> QED BY <1>1, <1>6, <1>8

LEMMA RevenueIsStated ==
  ASSUME NEW t \in Term, layout \in Layouts, Stated(sold, t) \in Int, Parts(t) \in Int
  PROVE  FirstOf(RevenueByAccount(RevenueItems(t)), RevenueByName(RevenueItems(t))) \in {NoFigure, Stated(sold, t)}
<1> DEFINE items == RevenueItems(t)
           all == Stated(sold, t)
           fees == Parts(t)
<1>0. NoFigure \notin Int
  BY FiguresAssumption
<1>1. CASE layout \in {"tagged", "services"}
  <2>1. PICK i, j : items = {i, j} /\ i.table # "CF" /\ i.tag = "total" /\ i.amount = all /\ j.tag = "interest"
    <3>1. CASE layout = "tagged"
      <4>1. items = {Item("IS", "total", "sales", all), Item("CF", "interest", "other", 1)}
        BY <3>1 DEF RevenueItems
      <4> QED BY <4>1, ItemFields
    <3>2. CASE layout = "services"
      <4>1. items = {Item("CIS", "total", "sales", all), Item("CIS", "interest", "other", 1)}
        BY <3>2 DEF RevenueItems
      <4> QED BY <4>1, ItemFields
    <3> QED BY <1>1, <3>1, <3>2
  <2>2. With(items, {"fees"}) = {}
    BY <2>1 DEF With
  <2>3. With({k \in items : k.table # "CF"}, {"total"}) = {i}
    BY <2>1 DEF With
  <2>4. RevenueByAccount(items) = i.amount
    BY <2>2, <2>3, AmountOfOne DEF RevenueByAccount, IsBank
  <2> QED BY <1>0, <2>1, <2>4 DEF FirstOf
<1>2. CASE layout \in {"bank", "parts"}
  <2>1. PICK i, j : /\ i.table = "CIS" /\ i.tag = "fees" /\ i.amount = fees
                    /\ j.table = "CIS" /\ j.tag = "interest" /\ j.amount = all - fees
                    /\ items = {i, j} \/ \E k : items = {k, i, j} /\ k.tag = "total" /\ k.table = "CIS"
    <3>1. PICK i, j : i = Item("CIS", "fees", "other", fees) /\ j = Item("CIS", "interest", "other", all - fees)
      OBVIOUS
    <3>2. /\ i.table = "CIS" /\ i.tag = "fees" /\ i.amount = fees
          /\ j.table = "CIS" /\ j.tag = "interest" /\ j.amount = all - fees
      BY <3>1, ItemFields
    <3>3. CASE layout = "parts"
      <4>1. items = {i, j}
        BY <3>1, <3>3 DEF RevenueItems
      <4> QED BY <3>2, <4>1
    <3>4. CASE layout = "bank"
      <4>1. PICK k : k = Item("CIS", "total", "other", all)
        OBVIOUS
      <4>2. items = {k, i, j} /\ k.tag = "total" /\ k.table = "CIS"
        BY <3>1, <3>4, <4>1, ItemFields DEF RevenueItems
      <4> QED BY <3>2, <4>2
    <3> QED BY <1>2, <3>3, <3>4
  <2>2. With({k \in items : k.table # "CF"}, {"fees", "interest"}) = {i, j}
    BY <2>1 DEF With
  <2>3. IsBank(items)
    BY <2>1 DEF IsBank, With
  <2>4. i # j /\ Total({i, j}) = all
    <3>1. i # j /\ i.amount \in Int /\ j.amount \in Int
      BY <2>1
    <3>2. Total({i, j}) = i.amount + j.amount
      BY <3>1, TotalOfTwo
    <3> HIDE DEF items
    <3> QED BY <2>1, <3>1, <3>2
  <2>5. RevenueByAccount(items) = all
    BY <2>2, <2>3, <2>4 DEF RevenueByAccount
  <2> QED BY <1>0, <2>5 DEF FirstOf
<1>3. CASE layout \in {"named", "unmapped"}
  <2>1. PICK i : items = {i} /\ i.table = "IS" /\ i.amount = all /\ i.tag \in {"none", "total"}
    <3>1. PICK tag, name : items = {Item("IS", tag, name, all)} /\ tag \in {"none", "total"}
      BY <1>3 DEF RevenueItems
    <3> QED BY <3>1, ItemFields
  <2>2. With(items, {"fees"}) = {}
    BY <2>1 DEF With
  <2>3. With({k \in items : k.table # "CF"}, {"total"}) \in {{}, {i}}
    BY <2>1 DEF With
  <2>4. RevenueByAccount(items) \in {NoFigure, all}
    <3>1. RevenueByAccount(items) = AmountOf(With({k \in items : k.table # "CF"}, {"total"}))
      BY <2>2 DEF RevenueByAccount, IsBank
    <3>2. AmountOf({}) = NoFigure /\ AmountOf({i}) = all
      BY <2>1, AmountOfOne DEF AmountOf
    <3> QED BY <2>3, <3>1, <3>2
  <2>5. RevenueByName(items) \in {NoFigure, all}
    <3>1. {k \in Named(items, "sales") : k.table # "CF"} \in {{}, {i}}
      BY <2>1 DEF Named
    <3>2. AmountOf({}) = NoFigure /\ AmountOf({i}) = all
      BY <2>1, AmountOfOne DEF AmountOf
    <3> QED BY <3>1, <3>2 DEF RevenueByName
  <2> QED BY <2>4, <2>5 DEF FirstOf
<1> QED BY <1>1, <1>2, <1>3 DEF Layouts

LEMMA EarningsAreStated ==
  ASSUME NEW t \in Term, Stated(Earned, t) \in Int
  PROVE  FirstOf(EarningsByAccount(EarningsItems(t)), EarningsByName(EarningsItems(t))) = Stated(Earned, t)
<1> DEFINE items == EarningsItems(t)
           own == Stated(Earned, t)
<1>0. NoFigure \notin Int
  BY FiguresAssumption
<1>1. CASE minority
  <2>1. PICK i, j : items = {i, j} /\ i.tag = "owners" /\ i.amount = own /\ j.tag = "whole"
    <3>1. items = {Item("IS", "owners", "other", own), Item("IS", "whole", "earnings", own + Parts(t))}
      BY <1>1 DEF EarningsItems
    <3> QED BY <3>1, ItemFields
  <2>2. With(items, {"owners"}) = {i}
    BY <2>1 DEF With
  <2>3. AmountOf(With(items, {"owners"})) = own
    BY <2>1, <2>2, AmountOfOne
  <2> QED BY <1>0, <2>3 DEF EarningsByAccount, FirstOf
<1>2. CASE ~minority
  <2>1. PICK i : items = {i} /\ i.tag = "whole" /\ i.amount = own
    <3>1. items = {Item("IS", "whole", "earnings", own)}
      BY <1>2 DEF EarningsItems
    <3> QED BY <3>1, ItemFields
  <2>2. With(items, {"owners"}) = {} /\ With(items, {"whole"}) = {i}
    BY <2>1 DEF With
  <2>3. AmountOf({}) = NoFigure /\ AmountOf({i}) = own
    BY <2>1, AmountOfOne DEF AmountOf
  <2> QED BY <1>0, <2>2, <2>3 DEF EarningsByAccount, FirstOf
<1> QED BY <1>1, <1>2

-------------------------------------------------------------------------------
\* What the owners earned can be told from every request.
OwnersKnown == minority => \A u \in Term : shown[u] # "summary"

\* What the backfill has parsed is what the reports state.
RawIsStated ==
  style = "quarters" => /\ StatesOf(raw["revenue"], sold)
                        /\ OwnersKnown => StatesOf(raw["earnings"], Earned)

\* The ratios of the rows, one at a time.
PsrHolds(t) == figures[t].psr # NoFigure => t >= 4 /\ figures[t].psr = SumFrom(sold, t - 3, t)
PerHolds(t) == figures[t].per # NoFigure /\ OwnersKnown => t >= 4 /\ figures[t].per = SumFrom(Earned, t - 3, t)

RowFields == {"revenue", "earnings", "psr", "per"}

FiguresInv ==
  /\ sold \in [Term -> Nat] /\ layout \in Layouts
  /\ shown \in [Term -> {"full", "summary", "none"}]
  /\ \A f \in Fields : raw[f] = [t \in Term |-> raw[f][t]]
  /\ figures = [t \in Term |-> figures[t]]
  /\ \A t \in Term : figures[t] = [f \in RowFields |-> figures[t][f]]
  /\ RawIsStated
  /\ style = "quarters" => \A t \in Term : PsrHolds(t) /\ PerHolds(t)

LEMMA FiguresStart == FiguresInit => FiguresInv
<1> SUFFICES ASSUME FiguresInit PROVE FiguresInv
  OBVIOUS
<1>1. sold \in [Term -> Nat] /\ layout \in Layouts /\ shown \in [Term -> {"full", "summary", "none"}]
  BY FiguresAssumption DEF FiguresInit
<1>2. /\ \A f \in Fields : raw[f] = [t \in Term |-> raw[f][t]]
      /\ \A f \in Fields, t \in Term : raw[f][t] = NoFigure
  BY DEF FiguresInit, NoRaw
<1>3. figures = [t \in Term |-> figures[t]] /\ \A t \in Term : figures[t] = NoQuarter
  BY DEF FiguresInit
<1>4. NoQuarter = [f \in RowFields |-> NoQuarter[f]] /\ NoQuarter.psr = NoFigure /\ NoQuarter.per = NoFigure
  BY DEF NoQuarter, RowFields
<1>5. RawIsStated
  BY <1>2 DEF RawIsStated, StatesOf, Fields
<1>6. \A t \in Term : PsrHolds(t) /\ PerHolds(t)
  BY <1>3, <1>4 DEF PsrHolds, PerHolds
<1>7. \A t \in Term : figures[t] = [f \in RowFields |-> figures[t][f]]
  BY <1>3, <1>4
<1> QED BY <1>1, <1>2, <1>3, <1>5, <1>6, <1>7 DEF FiguresInv

LEMMA EarnedIsInt == ASSUME FiguresInv PROVE sold \in [Term -> Int] /\ Earned \in [Term -> Int]
  BY DEF FiguresInv, Earned

\* A parse finds what the report states.
LEMMA ParsedIsStated ==
  ASSUME FiguresInv, style = "quarters", NEW t \in Term
  PROVE  /\ Parsed(t)["revenue"] \in {NoFigure, Yearly(sold, t)}
         /\ OwnersKnown => Parsed(t)["earnings"] \in {NoFigure, Yearly(Earned, t)}
<1>1. /\ Stated(sold, t) = Yearly(sold, t) /\ Stated(sold, t) \in Int
      /\ Stated(Earned, t) = Yearly(Earned, t) /\ Stated(Earned, t) \in Int
  BY EarnedIsInt, StatedYearly, YearlyIsInt
<1>2. Parts(t) \in Int
  BY QuarterFacts, FiguresAssumption DEF Parts, Term
<1>3. CASE shown[t] = "full"
  <2>1. Parsed(t) = FullFigures(t)
    BY <1>3 DEF Parsed
  <2>2. Parsed(t)["revenue"] \in {NoFigure, Stated(sold, t)}
    BY <1>1, <1>2, <2>1, RevenueIsStated DEF FullFigures, FiguresInv
  <2>3. Parsed(t)["earnings"] = Stated(Earned, t)
    BY <1>1, <2>1, EarningsAreStated DEF FullFigures
  <2> QED BY <1>1, <2>2, <2>3
<1>4. CASE shown[t] = "summary"
  <2>1. Parsed(t) = SummaryFigures(t)
    BY <1>4 DEF Parsed
  <2>2. Parsed(t)["revenue"] = Stated(sold, t)
    BY <2>1 DEF SummaryFigures, SummaryRevenue
  <2>3. OwnersKnown => Parsed(t)["earnings"] = Stated(Earned, t)
    BY <1>1, <1>4, <2>1 DEF SummaryFigures, SummaryEarnings, OwnersKnown
  <2> QED BY <1>1, <2>2, <2>3
<1>5. CASE shown[t] = "none"
  <2>1. Parsed(t) = [f \in Fields |-> NoFigure]
    BY <1>5 DEF Parsed
  <2> QED BY <2>1 DEF Fields
<1> QED BY <1>3, <1>4, <1>5 DEF FiguresInv

\* The ratios a row gets, the figures parsed being the reports'.
LEMMA WrittenHolds ==
  ASSUME FiguresInv, style = "quarters", NEW t \in Term, NEW shares \in BOOLEAN, NEW row, row = Written(t, shares)
  PROVE  /\ row.psr # NoFigure => t >= 4 /\ row.psr = SumFrom(sold, t - 3, t)
         /\ row.per # NoFigure /\ OwnersKnown => t >= 4 /\ row.per = SumFrom(Earned, t - 3, t)
<1> DEFINE revenues == [u \in Term |-> Single(raw["revenue"], u)]
           kept == [u \in Term |-> IF revenues[u] # NoFigure /\ revenues[u] < 0 THEN NoFigure ELSE revenues[u]]
           earnings == [u \in Term |-> Single(raw["earnings"], u)]
           ratio(x) == IF shares THEN Positive(x) ELSE NoFigure
<1>1. sold \in [Term -> Int] /\ Earned \in [Term -> Int]
  BY EarnedIsInt
<1>2. \A u \in Term : kept[u] \in {NoFigure, sold[u]}
  BY <1>1, SingleIsTheQuarter DEF FiguresInv, RawIsStated
<1>3. OwnersKnown => \A u \in Term : earnings[u] \in {NoFigure, Earned[u]}
  BY <1>1, SingleIsTheQuarter DEF FiguresInv, RawIsStated
<1>4. \A x : ratio(x) \in {x, NoFigure}
  BY DEF Positive
<1>5. row.psr = FirstOf(ratio(TwelveMonths(kept, t)), figures[t].psr)
  BY DEF Written
<1>6. row.per = FirstOf(ratio(TwelveMonths(earnings, t)), figures[t].per)
  BY DEF Written
<1>7. PsrHolds(t) /\ PerHolds(t)
  BY DEF FiguresInv
<1> HIDE DEF ratio, kept, earnings, revenues
<1>8. row.psr \in {NoFigure, figures[t].psr} \/ (row.psr = TwelveMonths(kept, t) /\ row.psr # NoFigure)
  BY <1>4, <1>5 DEF FirstOf
<1>9. row.per \in {NoFigure, figures[t].per} \/ (row.per = TwelveMonths(earnings, t) /\ row.per # NoFigure)
  BY <1>4, <1>6 DEF FirstOf
<1>10. row.psr # NoFigure => t >= 4 /\ row.psr = SumFrom(sold, t - 3, t)
  <2>1. CASE row.psr = TwelveMonths(kept, t) /\ row.psr # NoFigure
    BY <1>1, <1>2, <2>1, TwelveMonthsAreQuarters
  <2> QED BY <1>7, <1>8, <2>1 DEF PsrHolds
<1>11. row.per # NoFigure /\ OwnersKnown => t >= 4 /\ row.per = SumFrom(Earned, t - 3, t)
  <2>1. CASE row.per = TwelveMonths(earnings, t) /\ row.per # NoFigure
    BY <1>1, <1>3, <2>1, TwelveMonthsAreQuarters
  <2> QED BY <1>7, <1>9, <2>1 DEF PerHolds
<1> QED BY <1>10, <1>11

\* A step that leaves what is given and the parse alone, and the ratios.
LEMMA RatiosStay ==
  ASSUME FiguresInv, UNCHANGED <<sold, style, layout, minority, shown>>,
         raw' = raw \/ raw' = NoRaw,
         figures' = [t \in Term |-> figures'[t]], \A t \in Term : figures'[t] = [f \in RowFields |-> figures'[t][f]],
         style = "quarters" => \A t \in Term : PsrHolds(t)' /\ PerHolds(t)'
  PROVE  FiguresInv'
<1>1. \A f \in Fields : raw'[f] = [t \in Term |-> raw'[f][t]]
  BY DEF FiguresInv, NoRaw
<1>2. Earned' = Earned /\ OwnersKnown' = OwnersKnown
  BY DEF Earned, OwnersKnown
<1>3. RawIsStated'
  <2>1. CASE raw' = raw
    BY <1>2, <2>1 DEF FiguresInv, RawIsStated, StatesOf
  <2>2. CASE raw' = NoRaw
    <3>1. \A f \in Fields, t \in Term : raw'[f][t] = NoFigure
      BY <2>2 DEF NoRaw
    <3> QED BY <3>1 DEF RawIsStated, StatesOf, Fields
  <2> QED BY <2>1, <2>2
<1> QED BY <1>1, <1>3 DEF FiguresInv

LEMMA FiguresStay == FiguresInv /\ [FiguresNext]_figureVars => FiguresInv'
<1> SUFFICES ASSUME FiguresInv, [FiguresNext]_figureVars PROVE FiguresInv'
  OBVIOUS
<1>0. /\ figures = [t \in Term |-> figures[t]] /\ \A t \in Term : figures[t] = [f \in RowFields |-> figures[t][f]]
      /\ style = "quarters" => \A t \in Term : PsrHolds(t) /\ PerHolds(t)
  BY DEF FiguresInv
<1>1. ASSUME UNCHANGED <<sold, style, layout, minority, shown, figures>>, raw' = raw \/ raw' = NoRaw PROVE FiguresInv'
  <2>1. \A t : PsrHolds(t)' = PsrHolds(t) /\ PerHolds(t)' = PerHolds(t)
    BY <1>1 DEF PsrHolds, PerHolds, OwnersKnown, Earned
  <2> QED BY <1>0, <1>1, <2>1, RatiosStay
<1>2. CASE BackfillStarts \/ BackfillBreaks \/ MappingGrows \/ UNCHANGED figureVars
  BY <1>1, <1>2 DEF BackfillStarts, BackfillBreaks, MappingGrows, figureVars
<1>3. CASE ParsesNext
  <2>1. /\ cursor \in Term /\ UNCHANGED <<sold, style, layout, minority, shown, figures>>
        /\ raw' = [f \in Fields |-> [raw[f] EXCEPT ![cursor] = Parsed(cursor)[f]]]
    BY <1>3 DEF ParsesNext
  <2>2. \A f \in Fields : raw'[f] = [t \in Term |-> raw'[f][t]]
    BY <2>1 DEF FiguresInv
  <2>3. \A f \in Fields, t \in Term : raw'[f][t] = IF t = cursor THEN Parsed(t)[f] ELSE raw[f][t]
    BY <2>1 DEF FiguresInv
  <2>4. Earned' = Earned /\ OwnersKnown' = OwnersKnown
    BY <2>1 DEF Earned, OwnersKnown
  <2>5. RawIsStated'
    <3> SUFFICES ASSUME style = "quarters"
                 PROVE  /\ \A t \in Term : raw'["revenue"][t] \in {NoFigure, Yearly(sold, t)}
                        /\ OwnersKnown => \A t \in Term : raw'["earnings"][t] \in {NoFigure, Yearly(Earned, t)}
      BY <2>1, <2>4 DEF RawIsStated, StatesOf
    <3>1. \A t \in Term : /\ raw["revenue"][t] \in {NoFigure, Yearly(sold, t)}
                          /\ OwnersKnown => raw["earnings"][t] \in {NoFigure, Yearly(Earned, t)}
      BY DEF FiguresInv, RawIsStated, StatesOf
    <3>2. "revenue" \in Fields /\ "earnings" \in Fields
      BY DEF Fields
    <3>3. \A t \in Term : raw'["revenue"][t] \in {NoFigure, Yearly(sold, t)}
      <4> TAKE t \in Term
      <4>1. Parsed(t)["revenue"] \in {NoFigure, Yearly(sold, t)}
        BY ParsedIsStated
      <4>2. raw'["revenue"][t] \in {Parsed(t)["revenue"], raw["revenue"][t]}
        BY <2>3, <3>2
      <4> QED BY <3>1, <4>1, <4>2
    <3>4. OwnersKnown => \A t \in Term : raw'["earnings"][t] \in {NoFigure, Yearly(Earned, t)}
      <4> SUFFICES ASSUME OwnersKnown, NEW t \in Term PROVE raw'["earnings"][t] \in {NoFigure, Yearly(Earned, t)}
        OBVIOUS
      <4>1. Parsed(t)["earnings"] \in {NoFigure, Yearly(Earned, t)}
        BY ParsedIsStated
      <4>2. raw'["earnings"][t] \in {Parsed(t)["earnings"], raw["earnings"][t]}
        BY <2>3, <3>2
      <4> QED BY <3>1, <4>1, <4>2
    <3> QED BY <3>3, <3>4
  <2>6. \A t : PsrHolds(t)' = PsrHolds(t) /\ PerHolds(t)' = PerHolds(t)
    BY <2>1 DEF PsrHolds, PerHolds, OwnersKnown, Earned
  <2> QED BY <1>0, <2>1, <2>2, <2>5, <2>6 DEF FiguresInv
<1>4. CASE BackfillStores
  <2>1. UNCHANGED <<sold, style, layout, minority, shown>> /\ raw' = NoRaw
    BY <1>4 DEF BackfillStores
  <2>2. PICK shares \in BOOLEAN : figures' = [t \in Term |-> IF raw["revenue"][t] = NoFigure THEN figures[t] ELSE Written(t, shares)]
    BY <1>4 DEF BackfillStores
  <2>3. figures' = [t \in Term |-> figures'[t]]
    BY <2>2
  <2>4. ASSUME NEW t \in Term PROVE Written(t, shares) = [f \in RowFields |-> Written(t, shares)[f]]
    BY DEF Written, RowFields
  <2>5. \A t \in Term : figures'[t] = figures[t] \/ figures'[t] = Written(t, shares)
    BY <2>2
  <2>6. \A t \in Term : figures'[t] = [f \in RowFields |-> figures'[t][f]]
    BY <1>0, <2>4, <2>5
  <2>7. ASSUME style = "quarters", NEW t \in Term PROVE PsrHolds(t)' /\ PerHolds(t)'
    <3>1. OwnersKnown' = OwnersKnown /\ Earned' = Earned /\ sold' = sold
      BY <2>1 DEF OwnersKnown, Earned
    <3>2. CASE figures'[t] = figures[t]
      BY <1>0, <2>7, <3>1, <3>2 DEF PsrHolds, PerHolds
    <3>3. CASE figures'[t] = Written(t, shares)
      BY <2>7, <3>1, <3>3, WrittenHolds DEF PsrHolds, PerHolds
    <3> QED BY <2>5, <3>2, <3>3
  <2> QED BY <2>1, <2>3, <2>6, <2>7, RatiosStay
<1>5. CASE PageSyncs
  <2>1. UNCHANGED <<sold, style, layout, minority, shown, raw>>
    BY <1>5 DEF PageSyncs
  <2>2. PICK row \in OnPage :
          figures' = [figures EXCEPT ![Quarters].revenue = row.revenue, ![Quarters].earnings = row.earnings]
    BY <1>5 DEF PageSyncs
  <2>3. figures' = [t \in Term |-> figures'[t]]
    BY <1>0, <2>2
  <2>4. \A t \in Term : figures'[t] = [f \in RowFields |-> figures'[t][f]]
    BY <1>0, <2>2 DEF RowFields
  <2>5. \A t \in Term : figures'[t].psr = figures[t].psr /\ figures'[t].per = figures[t].per
    BY <1>0, <2>2 DEF RowFields
  <2>6. OwnersKnown' = OwnersKnown /\ Earned' = Earned /\ sold' = sold
    BY <2>1 DEF OwnersKnown, Earned
  <2>7. \A t \in Term : PsrHolds(t)' = PsrHolds(t) /\ PerHolds(t)' = PerHolds(t)
    BY <2>5, <2>6 DEF PsrHolds, PerHolds
  <2> QED BY <1>0, <2>1, <2>3, <2>4, <2>7, RatiosStay
<1> QED BY <1>2, <1>3, <1>4, <1>5 DEF FiguresNext

LEMMA InvGivesTtm == FiguresInv => TtmIsFourQuarters
  BY DEF FiguresInv, TtmIsFourQuarters, PsrHolds, PerHolds, OwnersKnown

\* Where every report is of a single quarter, a row's price ratios are made of
\* its four last quarters, whatever the reports leave out, the backfills skip
\* and the order they come in (financials: _discrete_value, _ttm).
THEOREM RatiosDivideByTheYear == FiguresSpec => []TtmIsFourQuarters
  BY FiguresStart, FiguresStay, InvGivesTtm, PTL DEF FiguresSpec

-------------------------------------------------------------------------------
(***************************************************************************)
(* The lists. What makes the proof is a reader half way: what was seen so  *)
(* far is the beginning of the list as it is now, unless something stirred *)
(* it; the keys and the codes put any stocks in one order only.            *)
(***************************************************************************)
Questions ==
  [strategy : {"growth", "value", "trend", "topdown", "overall"},
   sort : {"score", "market_cap", "change", "momentum"},
   liqMin : Int, perMax : Figures, offset : Nat]

\* Whom a list of a snapshot holds and who is before whom in it.
HeldIn(snap, q, flow) == {s \in Stocks : StaysIn(q, snap[s], flow)}
Before(snap, q, flow) ==
  {pair \in Stocks \X Stocks :
     LET ka == SortKey(q, snap[pair[1]], flow)
         kb == SortKey(q, snap[pair[2]], flow) IN ka < kb \/ (ka = kb /\ pair[1] < pair[2])}
Sorted(S, R) == CHOOSE all \in SetToSeqs(S) : \A i, j \in DOMAIN all : i < j => <<all[i], all[j]>> \in R

\* The mean of the scores that are there is a number, or there is none.
LEMMA MiddleIsFigure ==
  ASSUME NEW scores \in Seq(Figures)
  PROVE  Middle(scores) \in Figures
<1> DEFINE S == {a \in DOMAIN scores : HasIt(scores[a])}
<1>1. IsFiniteSet(S)
  <2>1. IsFiniteSet(1..Len(scores)) /\ S \subseteq 1..Len(scores)
    BY FS_Interval
  <2> QED BY <2>1, FS_Subset
<1>2. \A a \in S : scores[a] \in Int
  BY DEF Figures, HasIt
<1>3. SumOver(scores, S) \in Int
  <2> HIDE DEF S
  <2> QED BY <1>1, <1>2, SumIsInt
<1>4. ASSUME S # {} PROVE Cardinality(S) \in Nat /\ Cardinality(S) > 0
  <2> HIDE DEF S
  <2>1. Cardinality(S) \in Nat /\ (Cardinality(S) = 0 <=> S = {})
    BY <1>1, FS_CardinalityType, FS_EmptySet
  <2> QED BY <1>4, <2>1
<1>5. Middle(scores) = IF S = {} THEN Missing ELSE (12 * SumOver(scores, S)) \div Cardinality(S)
  BY DEF Middle, SumOver
<1> HIDE DEF S
<1>6. CASE S = {}
  BY <1>5, <1>6 DEF Figures
<1>7. CASE S # {}
  <2>1. PICK n \in Nat : n = Cardinality(S) /\ n > 0
    BY <1>4, <1>7
  <2>2. PICK t \in Int : t = SumOver(scores, S)
    BY <1>3
  <2>3. (12 * t) \div n \in Int
    BY <2>1, <2>2
  <2> QED BY <1>5, <1>7, <2>1, <2>2, <2>3 DEF Figures
<1> QED BY <1>6, <1>7

LEMMA ScoreIsFigure ==
  ASSUME NEW r \in RowsThere, NEW flow \in Figures, NEW strategy
  PROVE  ScoreOf(strategy, r, flow) \in Figures
<1>1. TopDown(r, flow) \in Figures
  <2>1. <<IF r.sector THEN flow ELSE Missing, r.rs>> \in Seq(Figures)
    BY DEF RowsThere, Figures
  <2> QED BY <2>1, MiddleIsFigure DEF TopDown
<1>2. Overall(r, flow) \in Figures
  <2>1. (IF HasIt(TopDown(r, flow)) THEN TopDown(r, flow) \div 12 ELSE Missing) \in Figures
    BY <1>1 DEF HasIt, Figures
  <2>2. PICK top \in Figures : top = IF HasIt(TopDown(r, flow)) THEN TopDown(r, flow) \div 12 ELSE Missing
    BY <2>1
  <2>3. <<r.growth, r.value, r.trend, top>> \in Seq(Figures)
    BY <2>2 DEF RowsThere
  <2>4. Middle(<<r.growth, r.value, r.trend, top>>) \in Figures
    BY <2>3, MiddleIsFigure
  <2> QED BY <2>2, <2>4 DEF Overall
<1>3. r.growth \in Figures /\ r.value \in Figures /\ r.trend \in Figures
  BY DEF RowsThere
<1> QED BY <1>1, <1>2, <1>3 DEF ScoreOf

LEMMA KeyIsNumber ==
  ASSUME NEW q \in Questions, NEW r \in RowsThere, NEW flow \in Figures
  PROVE  SortKey(q, r, flow) \in Int
<1>1. \A x \in Figures : \A none \in Int : Falling(x, none) \in Int
  BY DEF Falling, HasIt, Figures
<1>2. r.cap \in Int /\ r.change \in Figures /\ r.turnover \in Figures /\ r.momentum \in Figures
  BY DEF RowsThere
<1>3. Falling(ScoreOf(q.strategy, r, flow), 1) \in Int
  BY <1>1, ScoreIsFigure
<1>4. CASE SortOf(q) = "market_cap"
  BY <1>2, <1>4 DEF SortKey
<1>5. CASE SortOf(q) \in {"change", "turnover", "momentum"}
  <2>1. r[SortOf(q)] \in Figures
    BY <1>2, <1>5
  <2>2. (IF InMemory(q.strategy) THEN 0 ELSE 1000) \in Int
    OBVIOUS
  <2>3. Falling(r[SortOf(q)], IF InMemory(q.strategy) THEN 0 ELSE 1000) \in Int
    BY <1>1, <2>1, <2>2
  <2> QED BY <1>5, <2>3 DEF SortKey
<1>6. CASE SortOf(q) \notin {"market_cap", "change", "turnover", "momentum"}
  BY <1>3, <1>6 DEF SortKey
<1> QED BY <1>4, <1>5, <1>6

\* The keys and the codes tell any two stocks apart.
LEMMA BeforeOrders ==
  ASSUME NEW snap \in [Stocks -> RowsThere], NEW q \in Questions, NEW flow \in Figures
  PROVE  Orders(Before(snap, q, flow), HeldIn(snap, q, flow))
<1> DEFINE key == [s \in Stocks |-> SortKey(q, snap[s], flow)]
<1>1. key \in [Stocks -> Int]
  BY KeyIsNumber
<1>2. \A a, b \in Stocks : <<a, b>> \in Before(snap, q, flow) <=> (key[a] < key[b] \/ (key[a] = key[b] /\ a < b))
  BY DEF Before
<1> HIDE DEF key
<1>3. \A a \in Stocks : a \in Int /\ key[a] \in Int
  BY <1>1, ScreenAssumption
<1>4. HeldIn(snap, q, flow) \subseteq Stocks
  BY DEF HeldIn
<1>5. \A a, b \in Stocks : a # b => <<a, b>> \in Before(snap, q, flow) \/ <<b, a>> \in Before(snap, q, flow)
  BY <1>2, <1>3
<1>6. \A a, b, c \in Stocks : <<a, b>> \in Before(snap, q, flow) /\ <<b, c>> \in Before(snap, q, flow)
                                 => <<a, c>> \in Before(snap, q, flow)
  BY <1>2, <1>3
<1>7. \A a \in Stocks : <<a, a>> \notin Before(snap, q, flow)
  BY <1>2, <1>3
<1> QED BY <1>4, <1>5, <1>6, <1>7 DEF Orders

\* What is ranked is in order and whole.
LEMMA RankedIsWhole ==
  ASSUME NEW S, NEW R, IsFiniteSet(S), Orders(R, S), NEW n, n = Cardinality(S), NEW L, L = Sorted(S, R)
  PROVE  /\ L \in [1..n -> S] /\ {L[i] : i \in 1..n} = S /\ n \in Nat
         /\ \A i, j \in 1..n : i < j => <<L[i], L[j]>> \in R
<1>1. n \in Nat
  BY FS_CardinalityType
<1>2. PICK s : Sorts(s, R, S)
  BY SortExists
<1>3. /\ s \in [1..n -> S] /\ DOMAIN s = 1..n
      /\ \A i, j \in DOMAIN s : i < j => <<s[i], s[j]>> \in R
      /\ \A i, j \in DOMAIN s : i # j => s[i] # s[j]
  BY <1>2, SortedIsWhole DEF Sorts
<1>4. s \in SetToSeqs(S)
  BY <1>3 DEF SetToSeqs
<1>5. L \in SetToSeqs(S) /\ \A i, j \in DOMAIN L : i < j => <<L[i], L[j]>> \in R
  BY <1>3, <1>4 DEF Sorted
<1>6. L \in [1..n -> S]
  BY <1>5 DEF SetToSeqs
<1>7. Sorts(L, R, S) /\ DOMAIN L = 1..n
  BY <1>5, <1>6 DEF Sorts
<1>8. {L[i] : i \in 1..n} = S
  BY <1>7, SortedIsWhole
<1> QED BY <1>1, <1>5, <1>6, <1>7, <1>8

\* The list of a question is its stocks, ranked.
LEMMA ListIsRanked ==
  ASSUME NEW snap, NEW q, NEW flow
  PROVE  (CHOOSE all \in SetToSeqs({s \in Stocks : StaysIn(q, snap[s], flow)}) :
            \A i, j \in DOMAIN all : i < j =>
               LET ka == SortKey(q, snap[all[i]], flow)
                   kb == SortKey(q, snap[all[j]], flow) IN ka < kb \/ (ka = kb /\ all[i] < all[j]))
         = Sorted(HeldIn(snap, q, flow), Before(snap, q, flow))
<1> DEFINE G(all) == all \in SetToSeqs({s \in Stocks : StaysIn(q, snap[s], flow)})
                     /\ \A i, j \in DOMAIN all : i < j =>
                           LET ka == SortKey(q, snap[all[i]], flow)
                               kb == SortKey(q, snap[all[j]], flow) IN ka < kb \/ (ka = kb /\ all[i] < all[j])
           H(all) == all \in SetToSeqs(HeldIn(snap, q, flow))
                     /\ \A i, j \in DOMAIN all : i < j => <<all[i], all[j]>> \in Before(snap, q, flow)
<1>1. \A all : G(all) <=> H(all)
  <2> SUFFICES ASSUME NEW all PROVE G(all) <=> H(all)
    OBVIOUS
  <2>1. SetToSeqs({s \in Stocks : StaysIn(q, snap[s], flow)}) = SetToSeqs(HeldIn(snap, q, flow))
    BY DEF HeldIn
  <2>2. all \in SetToSeqs(HeldIn(snap, q, flow)) => \A i \in DOMAIN all : all[i] \in Stocks
    BY DEF SetToSeqs, HeldIn
  <2>3. ASSUME \A i \in DOMAIN all : all[i] \in Stocks, NEW i \in DOMAIN all, NEW j \in DOMAIN all
        PROVE  <<all[i], all[j]>> \in Before(snap, q, flow) <=>
                 LET ka == SortKey(q, snap[all[i]], flow)
                     kb == SortKey(q, snap[all[j]], flow) IN ka < kb \/ (ka = kb /\ all[i] < all[j])
    BY <2>3 DEF Before
  <2> QED BY <2>1, <2>2, <2>3
<1>2. (CHOOSE all : G(all)) = (CHOOSE all : H(all))
  <2> HIDE DEF G, H
  <2> QED BY <1>1
<1> QED BY <1>2 DEF Sorted

SameButPage(q, p) ==
  q.strategy = p.strategy /\ q.sort = p.sort /\ q.liqMin = p.liqMin /\ q.perMax = p.perMax

\* The page asked for does not change the list, and of the flow only two
\* strategies know.
LEMMA SameList ==
  ASSUME NEW snap, NEW q \in Questions, NEW p, SameButPage(q, p), NEW f, NEW g, f = g \/ ~UsesFlow(q.strategy)
  PROVE  HeldIn(snap, q, f) = HeldIn(snap, p, g) /\ Before(snap, q, f) = Before(snap, p, g)
<1>1. \A r : ScoreOf(q.strategy, r, f) = ScoreOf(p.strategy, r, g)
  <2>1. q.strategy = p.strategy /\ q.strategy \in {"growth", "value", "trend", "topdown", "overall"}
    BY DEF SameButPage, Questions
  <2>2. CASE f = g
    BY <2>1, <2>2
  <2>3. CASE ~UsesFlow(q.strategy)
    <3>1. q.strategy \in {"growth", "value", "trend"}
      BY <2>1, <2>3 DEF UsesFlow
    <3> QED BY <2>1, <3>1 DEF ScoreOf
  <2> QED BY <2>2, <2>3
<1>2. \A r : StaysIn(q, r, f) = StaysIn(p, r, g)
  BY <1>1 DEF StaysIn, SameButPage
<1>3. SortOf(q) = SortOf(p) /\ InMemory(q.strategy) = InMemory(p.strategy)
  BY DEF SortOf, InMemory, SameButPage
<1>4. \A r : SortKey(q, r, f) = SortKey(p, r, g)
  BY <1>1, <1>3 DEF SortKey
<1>5. HeldIn(snap, q, f) = HeldIn(snap, p, g)
  BY <1>2 DEF HeldIn
<1>6. Before(snap, q, f) = Before(snap, p, g)
  BY <1>4 DEF Before
<1> QED BY <1>5, <1>6

IsStart(s, L, k, S) == s \in Seq(S) /\ Len(s) = k /\ \A i \in 1..k : s[i] = L[i]

ReadsAs(snap, flow, cached, r) ==
  LET q == r.query
      all == Sorted(HeldIn(snap, q, flow), Before(snap, q, flow))
      n == Cardinality(HeldIn(snap, q, flow)) IN
  ~r.stirred =>
    \/ q.offset = 0 /\ r.seen = << >> /\ r.more
    \/ /\ q.offset > 0
       /\ UsesFlow(q.strategy) => flow = cached
       /\ r.total = n
       /\ r.more <=> q.offset < n
       /\ IsStart(r.seen, all, IF q.offset < n THEN q.offset ELSE n, Stocks)

ReadSoFar == ReadsAs(snapshot, FlowOf("KR:3m"), flowCache["KR:3m"].flow, reader)

ScreenInv ==
  /\ snapshot \in [Stocks -> RowsThere]
  /\ market \in Figures
  /\ flowCache \in [FlowKeys -> [flow : Figures, age : Nat]]
  /\ reader \in [query : Questions, seen : Seq(Stocks), total : Nat, stirred : BOOLEAN, more : BOOLEAN]
  /\ ReadSoFar

LEMMA FlowIsFigure == ScreenInv => FlowOf("KR:3m") \in Figures
  BY DEF ScreenInv, FlowOf, FlowKeys

LEMMA HeldIsFinite == ASSUME NEW snap, NEW q, NEW flow PROVE IsFiniteSet(HeldIn(snap, q, flow))
  BY FS_Subset, ScreenAssumption DEF HeldIn

LEMMA ListingIsRanked ==
  ASSUME NEW q, NEW flow
  PROVE  Listing(q, flow) = Sorted(HeldIn(snapshot, q, flow), Before(snapshot, q, flow))
  BY ListIsRanked DEF Listing, Listed, Ahead

LEMMA HeldIsListed ==
  ASSUME NEW q, NEW flow
  PROVE  Listed(q, flow) = HeldIn(snapshot, q, flow)
  BY DEF Listed, HeldIn

LEMMA LesserOfTwo ==
  ASSUME NEW a \in Nat, NEW b \in Nat
  PROVE  Min({a, b}) = IF a <= b THEN a ELSE b
<1>1. Min({a, b}) \in {a, b} /\ \A y \in {a, b} : Min({a, b}) <= y
  <2>1. {a, b} \subseteq Nat /\ {a, b} # {}
    OBVIOUS
  <2> QED BY <2>1, LeastIsMember
<1> QED BY <1>1

Piece(L, k, e) == SubSeq(L, k + 1, e)
Whole(s, t) == s \o t
IsPiece(t, L, k, e, S) == t \in Seq(S) /\ Len(t) = e - k /\ \A i \in 1..(e - k) : t[i] = L[i + k]
LEMMA PartIsList ==
  ASSUME NEW S, NEW n \in Nat, NEW L \in [1..n -> S], NEW c \in Nat \ {0}, NEW e \in Nat, e <= n
  PROVE  SubSeq(L, c, e) \in Seq(S)
  BY SubSeqProperties

LEMMA PieceIs ==
  ASSUME NEW S, NEW n \in Nat, NEW L \in [1..n -> S], NEW k \in Nat, NEW e \in Nat, k <= e, e <= n
  PROVE  IsPiece(Piece(L, k, e), L, k, e, S)
  BY DEF Piece, IsPiece
IsJoin(u, s, t, S) ==
  /\ u \in Seq(S) /\ Len(u) = Len(s) + Len(t)
  /\ \A i \in 1..(Len(s) + Len(t)) : u[i] = IF i <= Len(s) THEN s[i] ELSE t[i - Len(s)]
LEMMA WholeIs ==
  ASSUME NEW S, NEW s \in Seq(S), NEW t \in Seq(S)
  PROVE  IsJoin(Whole(s, t), s, t, S)
  BY DEF Whole, IsJoin
LEMMA NextPartJoins ==
  ASSUME NEW S, NEW n \in Nat, NEW L \in [1..n -> S], NEW k \in Nat, NEW e \in Nat, k <= e, e <= n,
         NEW seen, IsStart(seen, L, k, S)
  PROVE  IsStart(Whole(seen, Piece(L, k, e)), L, e, S)
<1>1. IsPiece(Piece(L, k, e), L, k, e, S)
  BY PieceIs
<1>0. seen \in Seq(S) /\ Len(seen) = k /\ \A i \in 1..k : seen[i] = L[i]
  BY DEF IsStart
<1> DEFINE all == Whole(seen, Piece(L, k, e))
<1>2. PICK part : part = Piece(L, k, e)
  OBVIOUS
<1>6. part \in Seq(S) /\ Len(part) = e - k /\ \A i \in 1..(e - k) : part[i] = L[i + k]
  BY <1>1, <1>2 DEF IsPiece
<1>3. IsJoin(all, seen, part, S)
  BY <1>0, <1>2, <1>6, WholeIs
<1>9. k + (e - k) = e
  OBVIOUS
<1>4. Len(seen) + Len(part) = e
  BY <1>0, <1>6, <1>9
<1> HIDE DEF all
<1>5. /\ all \in Seq(S) /\ Len(all) = e
      /\ \A i \in 1..e : all[i] = IF i <= k THEN seen[i] ELSE part[i - k]
  BY <1>0, <1>3, <1>4 DEF IsJoin
<1>7. ASSUME NEW i \in 1..e PROVE all[i] = L[i]
  <2>2. CASE i <= k
    BY <1>0, <1>5, <2>2
  <2>3. CASE i > k
    <3>1. PICK j \in Int : j = i - k /\ j \in 1..(e - k) /\ j + k = i
      BY <2>3
    <3>2. part[j] = L[j + k]
      BY <1>6, <3>1
    <3>3. all[i] = part[j]
      BY <1>5, <2>3, <3>1
    <3> QED BY <3>1, <3>2, <3>3
  <2> QED BY <2>2, <2>3
<1>8. IsStart(all, L, e, S)
  BY <1>5, <1>7 DEF IsStart
<1> QED BY <1>8 DEF all

\* A page put after the pages before it.
LEMMA PageGoesOn ==
  ASSUME NEW S, NEW n \in Nat, NEW L \in [1..n -> S], NEW k \in Nat, NEW m \in Nat \ {0}, k <= n,
         NEW seen, IsStart(seen, L, k, S)
  PROVE  IsStart(seen \o SubSeq(L, k + 1, Min({Len(L), k + m})), L, IF k + m < n THEN k + m ELSE n, S)
<1>1. PICK b \in Nat : b = k + m
  OBVIOUS
<1>2. Min({n, b}) = IF n <= b THEN n ELSE b
  BY LesserOfTwo
<1>3. PICK e : e = Min({n, b})
  OBVIOUS
<1>4. e \in Nat /\ k <= e /\ e <= n /\ e = (IF k + m < n THEN k + m ELSE n)
  BY <1>1, <1>2, <1>3
<1>5. Len(L) = n
  OBVIOUS
<1>6. IsStart(Whole(seen, Piece(L, k, e)), L, e, S)
  BY <1>4, NextPartJoins
<1> QED BY <1>1, <1>3, <1>4, <1>5, <1>6 DEF Whole, Piece

LEMMA ScreenInvInit == ScreenInit => ScreenInv
<1> SUFFICES ASSUME ScreenInit PROVE ScreenInv
  OBVIOUS
<1> USE DEF ScreenInit
<1>1. snapshot \in [Stocks -> RowsThere] /\ market \in Figures
  BY ScreenAssumption
<1>2. flowCache \in [FlowKeys -> [flow : Figures, age : Nat]]
  BY DEF NoFlow, Cached, Figures
<1>3. PICK q \in Queries : reader = Reader(q, << >>, 0, FALSE, TRUE)
  OBVIOUS
<1>4. q \in Questions /\ q.offset = 0
  <2>1. CASE q \in Query
    BY <2>1 DEF Query, Questions, Figures
  <2>2. ASSUME NEW p \in Query, q = [p EXCEPT !.perMax = 10] PROVE q \in Questions /\ q.offset = 0
    BY <2>2 DEF Query, Questions, Figures
  <2> QED BY <2>1, <2>2 DEF Queries
<1>5. reader \in [query : Questions, seen : Seq(Stocks), total : Nat, stirred : BOOLEAN, more : BOOLEAN]
  BY <1>3, <1>4 DEF Reader
<1>6. ReadSoFar
  BY <1>3, <1>4 DEF ReadSoFar, ReadsAs, Reader
<1> QED BY <1>1, <1>2, <1>5, <1>6 DEF ScreenInv

\* Where a list is left as it was, the reader's place in it is.
LEMMA ReadsOn ==
  ASSUME NEW snap, NEW f, NEW g, NEW c, NEW d, NEW r, r.query \in Questions, ReadsAs(snap, f, c, r),
         r.query.offset > 0 /\ UsesFlow(r.query.strategy) /\ ~r.stirred => g = f /\ g = d
  PROVE  ReadsAs(snap, g, d, r)
<1>0. r.query.offset \in Nat
  BY DEF Questions
<1>1. CASE r.query.offset = 0 \/ r.stirred
  BY <1>1 DEF ReadsAs
<1>2. CASE r.query.offset > 0 /\ ~r.stirred
  <2>1. HeldIn(snap, r.query, f) = HeldIn(snap, r.query, g) /\ Before(snap, r.query, f) = Before(snap, r.query, g)
    BY <1>2, SameList DEF SameButPage
  <2> QED BY <1>2, <2>1 DEF ReadsAs
<1> QED BY <1>0, <1>1, <1>2

LEMMA TurnsPageKeeps == ASSUME ScreenInv, TurnsPage PROVE ScreenInv'
<1>1. PICK q, flow : q = reader.query /\ flow = FlowOf("KR:3m")
  OBVIOUS
<1>2. PICK S, L, n : /\ S = HeldIn(snapshot, q, flow) /\ L = Sorted(S, Before(snapshot, q, flow)) /\ n = Cardinality(S)
  OBVIOUS
<1>3. q \in Questions /\ flow \in Figures /\ q.offset \in Nat
  BY <1>1, FlowIsFigure DEF ScreenInv, Questions
<1>4. Orders(Before(snapshot, q, flow), S) /\ IsFiniteSet(S) /\ S \subseteq Stocks
  <2>1. snapshot \in [Stocks -> RowsThere]
    BY DEF ScreenInv
  <2>2. Orders(Before(snapshot, q, flow), HeldIn(snapshot, q, flow))
    BY <1>3, <2>1, BeforeOrders
  <2>3. IsFiniteSet(HeldIn(snapshot, q, flow))
    BY HeldIsFinite
  <2> QED BY <1>2, <2>2, <2>3 DEF HeldIn
<1>5. L \in [1..n -> S] /\ n \in Nat
  BY <1>2, <1>4, RankedIsWhole
<1>6. PICK part : part = SubSeq(L, q.offset + 1, Min({Len(L), q.offset + PageLimit}))
  OBVIOUS
<1>7. PICK p : p = [q EXCEPT !.offset = q.offset + PageLimit]
  OBVIOUS
<1>8. p \in Questions /\ p.offset = q.offset + PageLimit /\ p.offset > 0 /\ SameButPage(q, p)
  BY <1>3, <1>7, ScreenAssumption DEF Questions, SameButPage
<1>9. reader.more /\ reader' = Reader(p, reader.seen \o part, n, reader.stirred, p.offset < n)
  <2>1. Listing(q, flow) = L /\ Listed(q, flow) = S
    BY <1>2, ListingIsRanked, HeldIsListed
  <2>2. Page(q, flow) = part
    BY <1>6, <2>1 DEF Page
  <2> QED BY <1>1, <1>2, <1>7, <1>8, <2>1, <2>2 DEF TurnsPage
<1>10. /\ UsesFlow(p.strategy) => FlowOf("KR:3m")' = flow /\ flowCache["KR:3m"].flow' = flow
       /\ flowCache' \in [FlowKeys -> [flow : Figures, age : Nat]]
  <2>1. flowCache' = (IF UsesFlow(q.strategy) THEN Filled("KR:3m") ELSE flowCache) /\ market' = market
    BY <1>1 DEF TurnsPage
  <2>2. q.strategy = p.strategy
    BY <1>8 DEF SameButPage
  <2> QED BY <1>1, <2>1, <2>2 DEF Filled, FlowOf, Fresh, Cached, NoFlow, FlowKeys, ScreenInv
<1>11. ~reader.stirred => IsStart(reader.seen \o part, L, IF p.offset < n THEN p.offset ELSE n, Stocks)
  <2> SUFFICES ASSUME ~reader.stirred PROVE IsStart(reader.seen \o part, L, IF p.offset < n THEN p.offset ELSE n, Stocks)
    OBVIOUS
  <2>1. L \in [1..n -> Stocks]
    BY <1>4, <1>5
  <2>2. PICK k \in Nat, m \in Nat \ {0} : k = q.offset /\ m = PageLimit
    BY <1>3, ScreenAssumption
  <2>3. k <= n /\ IsStart(reader.seen, L, k, Stocks)
    <3>1. CASE q.offset = 0 /\ reader.seen = << >>
      BY <1>5, <2>2, <3>1 DEF IsStart
    <3>2. CASE q.offset < n /\ IsStart(reader.seen, L, q.offset, Stocks)
      BY <1>5, <2>2, <3>2
    <3> QED BY <1>1, <1>2, <1>3, <1>9, <3>1, <3>2 DEF ScreenInv, ReadSoFar, ReadsAs
  <2>4. IsStart(reader.seen \o SubSeq(L, k + 1, Min({Len(L), k + m})), L, IF k + m < n THEN k + m ELSE n, Stocks)
    BY <1>5, <2>1, <2>2, <2>3, PageGoesOn
  <2>5. part = SubSeq(L, k + 1, Min({Len(L), k + m})) /\ p.offset = k + m
    BY <1>6, <1>8, <2>2
  <2> QED BY <2>4, <2>5
<1>15. part \in Seq(Stocks)
  <2>1. PICK b \in Nat, c \in Nat \ {0} : b = q.offset + PageLimit /\ c = q.offset + 1
    BY <1>3, ScreenAssumption
  <2>2. Len(L) = n /\ L \in [1..n -> Stocks]
    BY <1>4, <1>5
  <2>3. Min({n, b}) = IF n <= b THEN n ELSE b
    BY <1>5, <2>1, LesserOfTwo
  <2>4. PICK e \in Nat : e = Min({n, b}) /\ e <= n
    BY <1>5, <2>1, <2>3
  <2>5. part = SubSeq(L, c, e)
    BY <1>6, <2>1, <2>2, <2>4
  <2> QED BY <1>5, <2>1, <2>2, <2>4, <2>5, PartIsList
<1>12. reader' \in [query : Questions, seen : Seq(Stocks), total : Nat, stirred : BOOLEAN, more : BOOLEAN]
  BY <1>5, <1>8, <1>9, <1>15 DEF Reader, ScreenInv
<1>13. ReadSoFar'
  <2>1. PICK g : g = FlowOf("KR:3m")'
    OBVIOUS
  <2>2. HeldIn(snapshot, p, g) = S /\ Before(snapshot, p, g) = Before(snapshot, q, flow)
    <3>1. flow = g \/ ~UsesFlow(q.strategy)
      BY <1>8, <1>10, <2>1 DEF SameButPage
    <3> QED BY <1>2, <1>3, <1>8, <3>1, SameList
  <2>3. snapshot' = snapshot
    BY DEF TurnsPage
  <2>4. ReadsAs(snapshot, g, flowCache["KR:3m"].flow', reader')
    BY <1>2, <1>8, <1>9, <1>10, <1>11, <2>1, <2>2 DEF ReadsAs, Reader
  <2> QED BY <2>1, <2>3, <2>4 DEF ReadSoFar
<1>14. snapshot' = snapshot /\ market' = market
  BY DEF TurnsPage
<1> QED BY <1>10, <1>12, <1>13, <1>14 DEF ScreenInv

LEMMA OthersKeepType ==
  ASSUME ScreenInv, snapshot' \in [Stocks -> RowsThere], market' \in Figures,
         flowCache' \in [FlowKeys -> [flow : Figures, age : Nat]], reader' = reader, ReadSoFar'
  PROVE  ScreenInv'
  BY DEF ScreenInv

LEMMA AsksKeeps == ASSUME ScreenInv, AsksPeers \/ AsksAnalysis PROVE ScreenInv'
<1>1. UNCHANGED <<snapshot, market, reader>>
  BY DEF AsksPeers, AsksAnalysis
<1>2. flowCache' = Filled("KR:3m") \/ flowCache' = Filled("KR:None")
  BY DEF AsksPeers, AsksAnalysis
<1>3. flowCache' \in [FlowKeys -> [flow : Figures, age : Nat]]
  BY <1>2 DEF ScreenInv, Filled, Cached, FlowKeys
<1>4. /\ FlowOf("KR:3m")' = FlowOf("KR:3m")
      /\ flowCache["KR:3m"].flow' = FlowOf("KR:3m") \/ flowCache["KR:3m"]' = flowCache["KR:3m"]
  BY <1>1, <1>2 DEF ScreenInv, FlowOf, Fresh, Filled, Cached, NoFlow, FlowKeys
<1>5. ReadSoFar'
  <2>1. PICK f, g, c, d : f = FlowOf("KR:3m") /\ g = FlowOf("KR:3m")' /\ c = flowCache["KR:3m"].flow /\ d = flowCache["KR:3m"].flow'
    OBVIOUS
  <2>2. ReadsAs(snapshot, f, c, reader) /\ reader.query \in Questions
    BY <2>1 DEF ScreenInv, ReadSoFar
  <2>3. reader.query.offset > 0 /\ UsesFlow(reader.query.strategy) /\ ~reader.stirred => f = c
    BY <2>2 DEF ReadsAs, Questions
  <2>4. ReadsAs(snapshot, g, d, reader)
    BY <1>4, <2>1, <2>2, <2>3, ReadsOn
  <2> QED BY <1>1, <2>1, <2>4 DEF ReadSoFar
<1> QED BY <1>1, <1>3, <1>5 DEF ScreenInv

LEMMA PeerExpiresKeeps == ASSUME ScreenInv, PeerExpires PROVE ScreenInv'
<1>1. UNCHANGED <<snapshot, market, flowCache, reader>>
  BY DEF PeerExpires
<1>2. FlowOf("KR:3m")' = FlowOf("KR:3m")
  BY <1>1 DEF FlowOf, Fresh
<1> QED BY <1>1, <1>2 DEF ScreenInv, ReadSoFar

LEMMA StirsKeepsType ==
  ASSUME ScreenInv, NEW moved \in BOOLEAN, Stirs(moved)
  PROVE  /\ reader' \in [query : Questions, seen : Seq(Stocks), total : Nat, stirred : BOOLEAN, more : BOOLEAN]
         /\ reader'.query = reader.query /\ reader'.seen = reader.seen /\ reader'.total = reader.total
         /\ reader'.more = reader.more /\ reader'.stirred = (reader.stirred \/ (moved /\ reader.query.offset > 0))
  BY DEF ScreenInv, Stirs

LEMMA WarmRoundKeeps == ASSUME ScreenInv, WarmRound PROVE ScreenInv'
<1>1. snapshot' = snapshot /\ market' \in Figures
  BY ScreenAssumption DEF WarmRound
<1>2. PICK older : older = [k \in FlowKeys |-> IF flowCache[k] = NoFlow THEN NoFlow ELSE Cached(flowCache[k].flow, Min({Ttl, flowCache[k].age + 1}))]
  OBVIOUS
<1>3. flowCache' = IF older["KR:3m"] # NoFlow /\ older["KR:3m"].age < Ttl THEN older ELSE [older EXCEPT !["KR:3m"] = Cached(market', 0)]
  BY <1>2 DEF WarmRound
<1>4. older \in [FlowKeys -> [flow : Figures, age : Nat]] /\ \A k \in FlowKeys : older[k].flow = flowCache[k].flow
  <2> SUFFICES ASSUME NEW k \in FlowKeys
               PROVE  older[k] \in [flow : Figures, age : Nat] /\ older[k].flow = flowCache[k].flow
    BY <1>2
  <2>1. flowCache[k] \in [flow : Figures, age : Nat]
    BY DEF ScreenInv
  <2>2. PICK b \in Nat : b = flowCache[k].age + 1
    BY <2>1
  <2>3. Min({2, b}) \in Nat
    BY LesserOfTwo
  <2>4. Min({Ttl, flowCache[k].age + 1}) \in Nat
    BY <2>2, <2>3 DEF Ttl
  <2>5. older[k] = IF flowCache[k] = NoFlow THEN NoFlow ELSE Cached(flowCache[k].flow, Min({Ttl, flowCache[k].age + 1}))
    BY <1>2
  <2>6. CASE flowCache[k] = NoFlow
    BY <2>1, <2>5, <2>6
  <2>7. CASE flowCache[k] # NoFlow
    BY <2>1, <2>4, <2>5, <2>7 DEF Cached
  <2> QED BY <2>6, <2>7
<1>5. flowCache' \in [FlowKeys -> [flow : Figures, age : Nat]]
  BY <1>1, <1>3, <1>4 DEF Cached
<1>6. FlowOf("KR:3m")' = flowCache["KR:3m"].flow'
  BY <1>3, <1>4 DEF FlowOf, Fresh, Cached, NoFlow, FlowKeys, Ttl
<1>7. PICK c, d, f, g : /\ c = flowCache["KR:3m"].flow /\ d = flowCache["KR:3m"].flow'
                        /\ f = FlowOf("KR:3m") /\ g = FlowOf("KR:3m")'
  OBVIOUS
<1>8. PICK moved \in BOOLEAN : moved <=> (d # c /\ UsesFlow(reader.query.strategy))
  OBVIOUS
<1>9. Stirs(d # c /\ UsesFlow(reader.query.strategy))
  BY <1>7 DEF WarmRound
<1>10. /\ reader' \in [query : Questions, seen : Seq(Stocks), total : Nat, stirred : BOOLEAN, more : BOOLEAN]
       /\ reader'.query = reader.query /\ reader'.seen = reader.seen /\ reader'.total = reader.total
       /\ reader'.more = reader.more /\ reader'.stirred = (reader.stirred \/ (moved /\ reader.query.offset > 0))
  BY <1>8, <1>9, StirsKeepsType
<1>11. ReadsAs(snapshot, f, c, reader) /\ reader.query \in Questions /\ reader.query.offset \in Nat
  BY <1>7 DEF ScreenInv, ReadSoFar, Questions
<1>12. ReadsAs(snapshot, g, d, reader')
  <2>1. CASE reader'.stirred
    BY <2>1 DEF ReadsAs
  <2>2. CASE ~reader'.stirred
    <3>1. ~reader.stirred /\ (reader.query.offset > 0 /\ UsesFlow(reader.query.strategy) => d = c)
      BY <1>8, <1>10, <2>2
    <3>2. reader.query.offset > 0 /\ UsesFlow(reader.query.strategy) => f = c
      BY <1>11, <3>1 DEF ReadsAs
    <3>3. ReadsAs(snapshot, g, d, reader)
      BY <1>6, <1>7, <1>11, <3>1, <3>2, ReadsOn
    <3> QED BY <1>10, <2>2, <3>1, <3>3 DEF ReadsAs
  <2> QED BY <1>10, <2>1, <2>2
<1> QED BY <1>1, <1>5, <1>7, <1>10, <1>12 DEF ScreenInv, ReadSoFar

LEMMA NightKeeps == ASSUME ScreenInv, Night PROVE ScreenInv'
<1>1. UNCHANGED <<market, flowCache>> /\ Stirs(TRUE)
  BY DEF Night
<1>2. snapshot' \in [Stocks -> RowsThere]
  BY ScreenAssumption DEF Night, ScreenInv
<1>3. /\ reader' \in [query : Questions, seen : Seq(Stocks), total : Nat, stirred : BOOLEAN, more : BOOLEAN]
      /\ reader'.query = reader.query /\ reader'.seen = reader.seen /\ reader'.total = reader.total
      /\ reader'.more = reader.more /\ reader'.stirred = (reader.stirred \/ reader.query.offset > 0)
  BY <1>1, StirsKeepsType
<1>4. reader.query.offset \in Nat /\ ReadsAs(snapshot, FlowOf("KR:3m"), flowCache["KR:3m"].flow, reader)
  BY DEF ScreenInv, ReadSoFar, Questions
<1>5. ReadsAs(snapshot', FlowOf("KR:3m")', flowCache["KR:3m"].flow', reader')
  BY <1>3, <1>4 DEF ReadsAs
<1> QED BY <1>1, <1>2, <1>3, <1>5 DEF ScreenInv, ReadSoFar

LEMMA ScreenInvNext == ASSUME ScreenInv, [ScreenNext]_screenVars PROVE ScreenInv'
<1>1. CASE UNCHANGED screenVars
  BY <1>1 DEF screenVars, ScreenInv, ReadSoFar, FlowOf, Fresh
<1> QED BY <1>1, TurnsPageKeeps, AsksKeeps, PeerExpiresKeeps, WarmRoundKeeps, NightKeeps DEF ScreenNext

LEMMA InvSaysList == ScreenInv => PagesMakeTheList
<1> SUFFICES ASSUME ScreenInv, ~reader.more, ~reader.stirred
             PROVE  LET q == [reader.query EXCEPT !.offset = 0]
                        flow == FlowOf("KR:3m") IN
                    /\ ToSet(reader.seen) = Listed(q, flow) /\ Len(reader.seen) = reader.total
                    /\ \A i, j \in DOMAIN reader.seen : i < j => Ahead(q, flow, reader.seen[i], reader.seen[j])
  BY DEF PagesMakeTheList
<1>1. PICK p, q, flow : p = reader.query /\ q = [reader.query EXCEPT !.offset = 0] /\ flow = FlowOf("KR:3m")
  OBVIOUS
<1>2. p \in Questions /\ q \in Questions /\ SameButPage(q, p) /\ flow \in Figures /\ p.offset \in Nat
  BY <1>1, FlowIsFigure DEF ScreenInv, Questions, SameButPage
<1>3. PICK S, R, L, n : S = HeldIn(snapshot, p, flow) /\ R = Before(snapshot, p, flow) /\ L = Sorted(S, R) /\ n = Cardinality(S)
  OBVIOUS
<1>4. S = HeldIn(snapshot, q, flow) /\ R = Before(snapshot, q, flow)
  BY <1>2, <1>3, SameList
<1>5. Orders(R, S) /\ IsFiniteSet(S) /\ S \subseteq Stocks
  <2>1. snapshot \in [Stocks -> RowsThere]
    BY DEF ScreenInv
  <2>2. Orders(Before(snapshot, p, flow), HeldIn(snapshot, p, flow))
    BY <1>2, <2>1, BeforeOrders
  <2>3. IsFiniteSet(HeldIn(snapshot, p, flow))
    BY HeldIsFinite
  <2> QED BY <1>3, <2>2, <2>3 DEF HeldIn
<1>6. /\ L \in [1..n -> S] /\ {L[i] : i \in 1..n} = S /\ n \in Nat
      /\ \A i, j \in 1..n : i < j => <<L[i], L[j]>> \in R
  BY <1>3, <1>5, RankedIsWhole
<1>7. reader.total = n /\ IsStart(reader.seen, L, n, Stocks)
  BY <1>1, <1>2, <1>3, <1>6 DEF ScreenInv, ReadSoFar, ReadsAs
<1>8. PICK seen \in Seq(Stocks) : seen = reader.seen /\ Len(seen) = n /\ \A i \in 1..n : seen[i] = L[i]
  BY <1>7 DEF IsStart
<1>9. DOMAIN seen = 1..n
  BY <1>6, <1>8
<1>10. ToSet(seen) = S
  BY <1>6, <1>8, <1>9 DEF ToSet
<1>11. S = Listed(q, flow)
  BY <1>4, HeldIsListed
<1>12. ASSUME NEW i \in 1..n, NEW j \in 1..n, i < j PROVE Ahead(q, flow, seen[i], seen[j])
  <2>1. <<seen[i], seen[j]>> \in Before(snapshot, q, flow)
    BY <1>4, <1>6, <1>8, <1>12
  <2> QED BY <2>1 DEF Before, Ahead
<1> QED BY <1>1, <1>7, <1>8, <1>9, <1>10, <1>11, <1>12

\* A reader who turned every page of a list, which nothing stirred meanwhile, has
\* seen each stock that belongs to it once, and in its order: for any universe,
\* any page size and any expiry of the caches (screener_service.screen).
THEOREM ListsAreWhole == ScreenSpec => []PagesMakeTheList
<1>1. ScreenInit => ScreenInv
  BY ScreenInvInit
<1>2. ScreenInv /\ [ScreenNext]_screenVars => ScreenInv'
  BY ScreenInvNext
<1>3. ScreenInv => PagesMakeTheList
  BY InvSaysList
<1> QED BY <1>1, <1>2, <1>3, PTL DEF ScreenSpec

-------------------------------------------------------------------------------
(***************************************************************************)
(* The valuation. Two companies that differ in refuted claims only have    *)
(* the same prices; two sets of results that differ in methods that do not *)
(* fit only have the same blend.                                           *)
(***************************************************************************)
-------------------------------------------------------------------------------
(* Figures that are the same but for the claims.                           *)
FieldNames ==
  {"eps", "consensus", "growth", "revenue", "income", "margin", "bps", "bookGrowth", "ebitda", "roe", "coe", "terminal",
   "riskFree", "shares", "debt", "debtCost", "fcff", "epsRise", "quarters", "ebitdaRise", "years", "ebitdaGrowth",
   "yearsGrowth", "dps", "cycle", "sector", "thesis", "lifted", "claims"}
SameFigures(a, b) == DOMAIN a = FieldNames /\ DOMAIN b = FieldNames /\ \A x \in FieldNames \ {"claims"} : a[x] = b[x]
Believed(f) == [f EXCEPT !.claims = {c \in @ : ~c.refuted}]

LEMMA BelievedSame == ASSUME NEW f \in CompaniesThere PROVE SameFigures(f, Believed(f))
  BY DEF CompaniesThere, SameFigures, Believed, FieldNames

LEMMA GainIsSame ==
  ASSUME NEW a, NEW b, SameFigures(a, b), NEW c
  PROVE  ProfitGrowth(c, a) = ProfitGrowth(c, b)
<1>1. a.revenue = b.revenue /\ a.margin = b.margin /\ a.income = b.income
  BY DEF SameFigures, FieldNames
<1>2. RevenueGrowth(c, a) = RevenueGrowth(c, b)
  BY <1>1 DEF RevenueGrowth
<1> QED BY <1>1, <1>2 DEF ProfitGrowth

LEMMA GainIsNumber ==
  ASSUME NEW f \in CompaniesThere, NEW c \in ClaimsThere
  PROVE  ProfitGrowth(c, f) \in Int
<1>1. PICK g : g = RevenueGrowth(c, f)
  OBVIOUS
<1>2. f.revenue \in Amounts /\ f.margin \in Amounts /\ f.income \in Amounts
  BY DEF CompaniesThere
<1>3. c.value \in Int /\ c.share \in Amounts
  BY DEF ClaimsThere
<1>4. Given(f.revenue) => f.revenue \in Int
  BY <1>2 DEF Given, Amounts
<1>5. g \in Amounts
  <2>1. ASSUME Given(f.revenue), f.revenue > 0 PROVE (10 * c.value) \div f.revenue \in Int
    <3>1. PICK d \in Int, v \in Int : d = f.revenue /\ v = c.value /\ d > 0
      BY <1>3, <1>4, <2>1
    <3>2. (10 * v) \div d \in Int
      BY <3>1
    <3> QED BY <3>1, <3>2
  <2>2. ASSUME Given(c.share) PROVE (c.value * c.share) \div 10 \in Int
    <3>1. PICK s \in Int, v \in Int : s = c.share /\ v = c.value
      BY <1>3, <2>2 DEF Given, Amounts
    <3>2. v * s \in Int
      BY <3>1
    <3> QED BY <3>1, <3>2
  <2> QED BY <1>1, <1>3, <2>1, <2>2 DEF RevenueGrowth, Amounts
<1>6. ASSUME Given(g), Given(f.margin), Given(f.revenue), Given(f.income), f.income > 0
      PROVE  (g * f.revenue * f.margin) \div (10 * f.income) \in Int
  <2>1. PICK h \in Int, r \in Int, m \in Int, i \in Int : h = g /\ r = f.revenue /\ m = f.margin /\ i = f.income /\ i > 0
    BY <1>2, <1>5, <1>6 DEF Given, Amounts
  <2>2. PICK n \in Int : n = h * r * m
    BY <2>1
  <2>3. PICK d \in Int : d = 10 * i /\ d > 0
    BY <2>1
  <2>4. n \div d \in Int
    BY <2>3
  <2> QED BY <2>1, <2>2, <2>3, <2>4
<1> QED BY <1>1, <1>5, <1>6 DEF ProfitGrowth, Given, Amounts

\* The gains of the claims, summed.
LEMMA UpliftIsSum ==
  ASSUME NEW f
  PROVE  Uplift(f) = SumOver([c \in f.claims |-> Upper(0, ProfitGrowth(c, f))], f.claims)
<1> DEFINE S == f.claims
           h == [c \in S |-> Upper(0, ProfitGrowth(c, f))]
           One(T) == CHOOSE x \in T : TRUE
           G(g) == [s \in SUBSET S |-> IF s = {} THEN 0 ELSE Upper(0, ProfitGrowth(One(s), f)) + g[s \ {One(s)}]]
           H(g) == [s \in SUBSET S |-> IF s = {} THEN 0 ELSE h[One(s)] + g[s \ {One(s)}]]
<1>1. \A T \in SUBSET S : T # {} => One(T) \in S
  OBVIOUS
<1>2. \A g : G(g) = H(g)
  BY <1>1
<1>3. Uplift(f) = (CHOOSE g : g = G(g))[S]
  BY DEF Uplift, MapThenSumSet, MapThenFoldSet
<1>4. SumOver(h, S) = (CHOOSE g : g = H(g))[S]
  BY DEF SumOver, MapThenSumSet, MapThenFoldSet
<1> HIDE DEF G, H
<1>5. (CHOOSE g : g = G(g)) = (CHOOSE g : g = H(g))
  BY <1>2
<1> QED BY <1>3, <1>4, <1>5

LEMMA UpliftOfBelieved ==
  ASSUME NEW f \in CompaniesThere, IsFiniteSet(f.claims)
  PROVE  Uplift(Believed(f)) = Uplift(f)
<1>1. PICK S, T, p : S = f.claims /\ T = {c \in S : ~c.refuted} /\ p = Believed(f)
  OBVIOUS
<1>9. T \in SUBSET S
  BY <1>1
<1>2. p.claims = T
  BY <1>1 DEF Believed, CompaniesThere
<1>3. PICK g, h : g = [c \in S |-> Upper(0, ProfitGrowth(c, f))] /\ h = [c \in T |-> Upper(0, ProfitGrowth(c, p))]
  OBVIOUS
<1>4. \A c \in S : g[c] \in Int
  <2> SUFFICES ASSUME NEW c \in S PROVE g[c] \in Int
    OBVIOUS
  <2>1. ProfitGrowth(c, f) \in Int
    BY <1>1, GainIsNumber DEF CompaniesThere
  <2> QED BY <1>3, <2>1 DEF Upper
<1>5. \A c \in S \ T : g[c] = 0
  <2> SUFFICES ASSUME NEW c \in S \ T PROVE g[c] = 0
    OBVIOUS
  <2>1. ProfitGrowth(c, f) = 0
    BY <1>1 DEF ProfitGrowth
  <2> QED BY <1>3, <2>1 DEF Upper
<1>6. SumOver(g, S) = SumOver(g, T)
  BY <1>1, <1>4, <1>5, <1>9, SumLeavesOut
<1>7. \A c \in T : h[c] = g[c]
  BY <1>1, <1>3, <1>9, GainIsSame, BelievedSame
<1>8. SumOver(h, T) = SumOver(g, T)
  <2>1. IsFiniteSet(T) /\ \A c \in T : g[c] \in Int /\ h[c] = g[c]
    BY <1>1, <1>4, <1>7, <1>9, FS_Subset
  <2> QED BY <2>1, SumAgrees
<1> QED BY <1>1, <1>2, <1>3, <1>6, <1>8, UpliftIsSum

-------------------------------------------------------------------------------
(* What is computed of the same figures is the same.                       *)
LEMMA FieldsAreSame ==
  ASSUME NEW a, NEW b, SameFigures(a, b)
  PROVE  /\ a.eps = b.eps /\ a.consensus = b.consensus /\ a.growth = b.growth /\ a.revenue = b.revenue /\ a.income = b.income
         /\ a.margin = b.margin /\ a.bps = b.bps /\ a.bookGrowth = b.bookGrowth /\ a.ebitda = b.ebitda /\ a.roe = b.roe
         /\ a.coe = b.coe /\ a.terminal = b.terminal /\ a.riskFree = b.riskFree /\ a.shares = b.shares /\ a.debt = b.debt
         /\ a.debtCost = b.debtCost /\ a.fcff = b.fcff /\ a.epsRise = b.epsRise /\ a.quarters = b.quarters
         /\ a.ebitdaRise = b.ebitdaRise /\ a.years = b.years /\ a.dps = b.dps /\ a.cycle = b.cycle /\ a.sector = b.sector
         /\ a.thesis = b.thesis /\ a.lifted = b.lifted /\ a.ebitdaGrowth = b.ebitdaGrowth /\ a.yearsGrowth = b.yearsGrowth
  BY DEF SameFigures, FieldNames

LEMMA OneFigureMore ==
  ASSUME NEW a, NEW b, SameFigures(a, b), NEW field \in FieldNames, NEW v
  PROVE  SameFigures([a EXCEPT ![field] = v], [b EXCEPT ![field] = v])
  BY DEF SameFigures

LEMMA RaisedSame ==
  ASSUME NEW a, NEW b, SameFigures(a, b), Uplift(a) = Uplift(b)
  PROVE  SameFigures(Raised(a), Raised(b))
<1>1. a.eps = b.eps /\ a.ebitda = b.ebitda
  BY FieldsAreSame
<1>2. PICK e, d, l : /\ e = (IF Given(a.eps) THEN Plus(a.eps, Uplift(a)) ELSE a.eps)
                     /\ d = (IF Given(a.ebitda) THEN Plus(a.ebitda, Uplift(a)) ELSE a.ebitda) /\ l = (Uplift(a) > 0)
  OBVIOUS
<1>3. /\ Raised(a) = [a EXCEPT !.eps = e, !.ebitda = d, !.lifted = l]
      /\ Raised(b) = [b EXCEPT !.eps = e, !.ebitda = d, !.lifted = l]
  BY <1>1, <1>2 DEF Raised
<1>4. DOMAIN Raised(a) = FieldNames /\ DOMAIN Raised(b) = FieldNames
  BY <1>3 DEF SameFigures
<1>5. ASSUME NEW x \in FieldNames \ {"claims"} PROVE Raised(a)[x] = Raised(b)[x]
  <2>1. a[x] = b[x] /\ x \in DOMAIN a /\ x \in DOMAIN b
    BY DEF SameFigures
  <2> QED BY <1>3, <2>1
<1> QED BY <1>4, <1>5 DEF SameFigures

LEMMA ForwardSame ==
  ASSUME NEW a, NEW b, SameFigures(a, b)
  PROVE  SameFigures(Forward(a), Forward(b))
<1>1. a.eps = b.eps /\ a.ebitda = b.ebitda /\ a.lifted = b.lifted /\ a.consensus = b.consensus /\ a.growth = b.growth
      /\ a.ebitdaGrowth = b.ebitdaGrowth
  BY FieldsAreSame
<1>2. CASE a.lifted
  BY <1>1, <1>2 DEF Forward
<1>3. CASE ~a.lifted /\ Given(a.consensus) /\ a.consensus > 0
  <2>1. Forward(a) = [a EXCEPT !.eps = a.consensus] /\ Forward(b) = [b EXCEPT !.eps = a.consensus]
    BY <1>1, <1>3 DEF Forward
  <2> QED BY <2>1 DEF SameFigures, FieldNames
<1>4. CASE ~a.lifted /\ ~(Given(a.consensus) /\ a.consensus > 0)
  <2>1. PICK e, d : /\ e = (IF Given(a.eps) /\ Given(a.growth) THEN Plus(a.eps, a.growth) ELSE a.eps)
                    /\ d = (IF Given(a.ebitda) /\ Given(a.ebitdaGrowth) THEN Plus(a.ebitda, a.ebitdaGrowth) ELSE a.ebitda)
    OBVIOUS
  <2>2. Forward(a) = [a EXCEPT !.eps = e, !.ebitda = d] /\ Forward(b) = [b EXCEPT !.eps = e, !.ebitda = d]
    BY <1>1, <1>4, <2>1 DEF Forward
  <2>3. DOMAIN Forward(a) = FieldNames /\ DOMAIN Forward(b) = FieldNames
    BY <2>2 DEF SameFigures
  <2>4. ASSUME NEW x \in FieldNames \ {"claims"} PROVE Forward(a)[x] = Forward(b)[x]
    <3>1. a[x] = b[x] /\ x \in DOMAIN a /\ x \in DOMAIN b
      BY DEF SameFigures
    <3> QED BY <2>2, <3>1
  <2> QED BY <2>3, <2>4 DEF SameFigures
<1> QED BY <1>2, <1>3, <1>4

LEMMA KindSame ==
  ASSUME NEW a, NEW b, SameFigures(a, b)
  PROVE  Kind(a) = Kind(b) /\ Fit(a) = Fit(b)
<1>1. a.sector = b.sector /\ a.thesis = b.thesis /\ a.dps = b.dps /\ a.eps = b.eps
  BY FieldsAreSame
<1>2. Kind(a) = Kind(b)
  BY <1>1 DEF Kind
<1>3. PICK k : k = Kind(a)
  OBVIOUS
<1> QED BY <1>1, <1>2, <1>3 DEF Fit

LEMMA NormalizedSame ==
  ASSUME NEW a, NEW b, SameFigures(a, b)
  PROVE  SameFigures(Normalized(a), Normalized(b))
<1>1. a.eps = b.eps /\ a.cycle = b.cycle /\ Kind(a) = Kind(b)
  BY FieldsAreSame, KindSame
<1>2. CASE Kind(a) = "cyclical" /\ Given(a.eps) /\ Given(a.cycle)
  <2>1. PICK e : e = (a.eps * a.cycle) \div 10
    OBVIOUS
  <2>2. Normalized(a) = [a EXCEPT !.eps = e] /\ Normalized(b) = [b EXCEPT !.eps = e]
    BY <1>1, <1>2, <2>1 DEF Normalized
  <2> QED BY <2>2 DEF SameFigures, FieldNames
<1>3. CASE ~(Kind(a) = "cyclical" /\ Given(a.eps) /\ Given(a.cycle))
  BY <1>1, <1>3 DEF Normalized
<1> QED BY <1>2, <1>3

LEMMA PriceSame ==
  ASSUME NEW a, NEW b, SameFigures(a, b), NEW m \in {"per", "pbr", "ev_ebitda", "dcf", "ddm", "ggm_dcf"}
  PROVE  Price(m, a) = Price(m, b)
<1>0. /\ a.eps = b.eps /\ a.growth = b.growth /\ a.bps = b.bps /\ a.bookGrowth = b.bookGrowth /\ a.ebitda = b.ebitda
      /\ a.roe = b.roe /\ a.coe = b.coe /\ a.terminal = b.terminal /\ a.riskFree = b.riskFree /\ a.shares = b.shares
      /\ a.debt = b.debt /\ a.debtCost = b.debtCost /\ a.fcff = b.fcff /\ a.epsRise = b.epsRise /\ a.quarters = b.quarters
      /\ a.ebitdaRise = b.ebitdaRise /\ a.years = b.years /\ a.dps = b.dps /\ a.yearsGrowth = b.yearsGrowth
  BY FieldsAreSame
<1>1. EpsGrowth(a) = EpsGrowth(b) /\ EbitdaGrowth(a) = EbitdaGrowth(b)
  BY <1>0 DEF EpsGrowth, EbitdaGrowth, LongGrowth
<1>2. Multiple(a, EpsGrowth(a)) = Multiple(b, EpsGrowth(b)) /\ Multiple(a, EbitdaGrowth(a)) = Multiple(b, EbitdaGrowth(b))
  BY <1>0, <1>1 DEF Multiple
<1>3. BookMultiple(a) = BookMultiple(b) /\ Wacc(a) = Wacc(b) /\ DividendGrowth(a) = DividendGrowth(b)
  <2>1. BookMultiple(a) = BookMultiple(b)
    BY <1>0, <1>2 DEF BookMultiple
  <2>2. Wacc(a) = Wacc(b)
    BY <1>0 DEF Wacc
  <2>3. DividendGrowth(a) = DividendGrowth(b)
    BY <1>0, <1>1 DEF DividendGrowth
  <2> QED BY <2>1, <2>2, <2>3
<1>4. \A w : PerShare(w, a) = PerShare(w, b)
  BY <1>0 DEF PerShare
<1>5. \A base, spread, g : FlowsOf(a, base, spread, g) = FlowsOf(b, base, spread, g)
  BY <1>4 DEF FlowsOf
<1>6. CASE m \in {"per", "pbr", "ddm"}
  BY <1>0, <1>1, <1>2, <1>3, <1>6 DEF Price, PerPrice, PbrPrice, DdmPrice
<1>7. CASE m = "ev_ebitda"
  BY <1>0, <1>2, <1>4, <1>7 DEF Price, EvEbitdaPrice
<1>8. CASE m = "dcf"
  <2>1. DcfPrice(a, Wacc(a)) = DcfPrice(b, Wacc(b))
    BY <1>0, <1>3, <1>5 DEF DcfPrice
  <2> QED BY <1>8, <2>1 DEF Price
<1>9. CASE m = "ggm_dcf"
  <2>1. GgmPrice(a, Wacc(a), EpsGrowth(a)) = GgmPrice(b, Wacc(b), EpsGrowth(b))
    BY <1>0, <1>1, <1>3, <1>5 DEF GgmPrice
  <2> QED BY <1>9, <2>1 DEF Price
<1> QED BY <1>6, <1>7, <1>8, <1>9

LEMMA MethodsAre == ToSet(Methods) = {"per", "pbr", "ev_ebitda", "dcf", "ddm", "ggm_dcf"}
<1>1. DOMAIN Methods = 1..6
  BY DEF Methods
<1>2. /\ Methods[1] = "per" /\ Methods[2] = "pbr" /\ Methods[3] = "ev_ebitda" /\ Methods[4] = "dcf" /\ Methods[5] = "ddm"
      /\ Methods[6] = "ggm_dcf"
  BY DEF Methods
<1>3. 1..6 = {1, 2, 3, 4, 5, 6}
  OBVIOUS
<1>4. ToSet(Methods) = {Methods[i] : i \in {1, 2, 3, 4, 5, 6}}
  BY <1>1, <1>3 DEF ToSet
<1> QED BY <1>2, <1>4

\* What was refuted changes neither a price nor how a method fits.
LEMMA RefutedChangesNothing ==
  ASSUME NEW f \in CompaniesThere, IsFiniteSet(f.claims)
  PROVE  /\ \A m \in ToSet(Methods) : Price(m, AnchorsOf(Believed(f))) = Price(m, AnchorsOf(f))
         /\ Fit(ForwardOf(Believed(f))) = Fit(ForwardOf(f))
<1>1. SameFigures(f, Believed(f)) /\ Uplift(f) = Uplift(Believed(f))
  BY BelievedSame, UpliftOfBelieved
<1>2. SameFigures(Raised(f), Raised(Believed(f)))
  BY <1>1, RaisedSame
<1>3. SameFigures(ForwardOf(f), ForwardOf(Believed(f)))
  BY <1>2, ForwardSame DEF ForwardOf
<1>4. SameFigures(AnchorsOf(f), AnchorsOf(Believed(f)))
  BY <1>3, NormalizedSame DEF AnchorsOf
<1>5. ToSet(Methods) = {"per", "pbr", "ev_ebitda", "dcf", "ddm", "ggm_dcf"}
  BY MethodsAre
<1> QED BY <1>3, <1>4, <1>5, KindSame, PriceSame

-------------------------------------------------------------------------------
(* The blend of results is that of their targets.                          *)
SameTargets(r, s, S) == \A m \in S : r[m].target = s[m].target

LEMMA MidIsSame ==
  ASSUME NEW r, NEW s, NEW S, SameTargets(r, s, S)
  PROVE  MidOf(r, S) = MidOf(s, S)
<1> DEFINE D == {r[m].target : m \in S}
           E == {s[m].target : m \in S}
           G(x) == /\ Cardinality({m \in S : r[m].target < x}) <= Cardinality(S) \div 2
                   /\ Cardinality({m \in S : r[m].target <= x}) > Cardinality(S) \div 2
           H(x) == /\ Cardinality({m \in S : s[m].target < x}) <= Cardinality(S) \div 2
                   /\ Cardinality({m \in S : s[m].target <= x}) > Cardinality(S) \div 2
<1>1. \A x : G(x) <=> H(x)
  <2> SUFFICES ASSUME NEW x PROVE G(x) <=> H(x)
    OBVIOUS
  <2>1. {m \in S : r[m].target < x} = {m \in S : s[m].target < x} /\ {m \in S : r[m].target <= x} = {m \in S : s[m].target <= x}
    BY DEF SameTargets
  <2> QED BY <2>1
<1>2. D = E
  BY DEF SameTargets
<1>3. (CHOOSE x \in D : G(x)) = (CHOOSE x \in E : H(x))
  <2> HIDE DEF D, E, G, H
  <2> QED BY <1>1, <1>2
<1> QED BY <1>3 DEF MidOf

\* The mean of a pool by confidence and fit.
Counts(P, fit) == MapThenSumSet(LAMBDA m : Confidence(m) * fit[m], P) > 0
Weighed(r, P, fit) ==
  LET fits == MapThenSumSet(LAMBDA m : Confidence(m) * fit[m], P) > 0
      weight(m) == Confidence(m) * (IF fits THEN fit[m] ELSE 10)
  IN MapThenSumSet(LAMBDA m : r[m].target * weight(m), P) \div MapThenSumSet(weight, P)

LEMMA BlendIsWeighed ==
  ASSUME NEW r, NEW fit, NEW growing, Found(r) # {}
  PROVE  Blend(r, fit, growing) = Weighed(r, Pool(r, fit, growing), fit)
  BY DEF Blend, Weighed

LEMMA WeighedIsSame ==
  ASSUME NEW r, NEW s, NEW P, SameTargets(r, s, P), NEW fit
  PROVE  Weighed(r, P, fit) = Weighed(s, P, fit)
<1> DEFINE One(T) == CHOOSE x \in T : TRUE
           W(x) == Confidence(x) * (IF Counts(P, fit) THEN fit[x] ELSE 10)
           G(g) == [T \in SUBSET P |-> IF T = {} THEN 0 ELSE r[One(T)].target * W(One(T)) + g[T \ {One(T)}]]
           H(g) == [T \in SUBSET P |-> IF T = {} THEN 0 ELSE s[One(T)].target * W(One(T)) + g[T \ {One(T)}]]
           K(g) == [T \in SUBSET P |-> IF T = {} THEN 0 ELSE W(One(T)) + g[T \ {One(T)}]]
<1>1. \A T \in SUBSET P : T # {} => r[One(T)].target = s[One(T)].target
  <2>1. \A T \in SUBSET P : T # {} => One(T) \in P
    OBVIOUS
  <2> HIDE DEF One
  <2> QED BY <2>1 DEF SameTargets
<1>2. \A g : G(g) = H(g)
  <2> HIDE DEF One, W
  <2> QED BY <1>1
<1>3. Weighed(r, P, fit) = (CHOOSE g : g = G(g))[P] \div (CHOOSE g : g = K(g))[P]
  BY Zenon DEF Weighed, Counts, MapThenSumSet, MapThenFoldSet
<1>4. Weighed(s, P, fit) = (CHOOSE g : g = H(g))[P] \div (CHOOSE g : g = K(g))[P]
  BY Zenon DEF Weighed, Counts, MapThenSumSet, MapThenFoldSet
<1> HIDE DEF G, H, K
<1>5. (CHOOSE g : g = G(g)) = (CHOOSE g : g = H(g))
  BY <1>2
<1> QED BY <1>3, <1>4, <1>5

\* Where the methods that fit have the same targets, the blend is the same,
\* whatever the others gave.
LEMMA BlendIsOfFitting ==
  ASSUME NEW r, NEW s, NEW fit, NEW growing, DOMAIN s = {m \in DOMAIN r : fit[m] > 0}, SameTargets(r, s, DOMAIN s),
         Found(s) # {}
  PROVE  Blend(r, fit, growing) = Blend(s, fit, growing)
<1>1. Found(s) = {m \in Found(r) : fit[m] > 0} /\ Found(s) \subseteq DOMAIN s
  BY DEF Found, SameTargets
<1>2. Fitting(r, fit) = Found(s) /\ Fitting(s, fit) = Found(s)
  BY <1>1 DEF Fitting, OrAll
<1>3. PICK S : S = Found(s) /\ S # {}
  OBVIOUS
<1>4. SameTargets(r, s, S)
  BY <1>1, <1>3 DEF SameTargets
<1>5. MidOf(r, S) = MidOf(s, S)
  BY <1>4, MidIsSame
<1>6. \A m \in S : Far(r, MidOf(r, S), m, growing) <=> Far(s, MidOf(s, S), m, growing)
  BY <1>4, <1>5 DEF Far, SameTargets
<1>7. Outliers(r, fit, growing) = Outliers(s, fit, growing)
  BY <1>2, <1>3, <1>6 DEF Outliers
<1>8. Pool(r, fit, growing) = Pool(s, fit, growing) /\ Pool(s, fit, growing) \subseteq S
  BY <1>2, <1>3, <1>7 DEF Pool, OrAll
<1>9. PICK P : P = Pool(s, fit, growing)
  OBVIOUS
<1>10. SameTargets(r, s, P)
  BY <1>4, <1>8, <1>9 DEF SameTargets
<1>11. Weighed(r, P, fit) = Weighed(s, P, fit)
  BY <1>10, WeighedIsSame
<1>12. Found(r) # {} /\ Found(s) # {}
  BY <1>1
<1> QED BY <1>8, <1>9, <1>11, <1>12, BlendIsWeighed

-------------------------------------------------------------------------------
AreTargetsOf(results, f) ==
  /\ DOMAIN results \subseteq ToSet(Methods)
  /\ \A m \in DOMAIN results : "target" \in DOMAIN results[m] /\ results[m].target = Price(m, AnchorsOf(f))

ValuationInv ==
  /\ company \in Companies
  /\ AreTargetsOf(computed, company)
  /\ valued.by \in {"conversation", "nothing_asked"} =>
       \E results : /\ AreTargetsOf(results, company)
                    /\ DOMAIN valued.results = DOMAIN results
                    /\ valued.target = Blend(results, MethodFit, Growing(company))

LEMMA ResultsAreTargets == ASSUME NEW f, NEW S \in SUBSET ToSet(Methods) PROVE AreTargetsOf([m \in S |-> ResultOf(m, f)], f)
  BY DEF AreTargetsOf, ResultOf

LEMMA RemarksKeepTargets ==
  ASSUME NEW f, NEW results, AreTargetsOf(results, f), NEW fit, NEW growing
  PROVE  AreTargetsOf(Remarked(results, fit, growing), f) /\ DOMAIN Remarked(results, fit, growing) = DOMAIN results
  BY DEF AreTargetsOf, Remarked

LEMMA ValuationInvInit == ValuationInit => ValuationInv
  BY DEF ValuationInit, ValuationInv, AreTargetsOf, NotValued

LEMMA InvSaysOut == ValuationInv => WhatIsOutChangesNothing
<1> SUFFICES ASSUME ValuationInv, valued.by \in {"conversation", "nothing_asked"}
             PROVE  LET believed == [company EXCEPT !.claims = {c \in @ : ~c.refuted}]
                        priced(S) == [m \in S |-> ResultOf(m, believed)]
                        fit == Fit(ForwardOf(believed))
                        counts == {m \in DOMAIN valued.results : fit[m] > 0}
                    IN \/ Found(priced(counts)) = {}
                       \/ valued.target = Blend(priced(counts), fit, Growing(company))
  BY DEF WhatIsOutChangesNothing
<1>1. PICK f, g : f = company /\ g = Believed(f)
  OBVIOUS
<1>2. f \in CompaniesThere /\ IsFiniteSet(f.claims)
  BY <1>1, ValuationAssumption DEF ValuationInv
<1>3. /\ \A m \in ToSet(Methods) : Price(m, AnchorsOf(g)) = Price(m, AnchorsOf(f))
      /\ Fit(ForwardOf(g)) = Fit(ForwardOf(f))
  BY <1>1, <1>2, RefutedChangesNothing
<1>4. PICK results : /\ AreTargetsOf(results, f) /\ DOMAIN valued.results = DOMAIN results
                     /\ valued.target = Blend(results, Fit(ForwardOf(f)), Growing(f))
  BY <1>1 DEF ValuationInv, MethodFit
<1>5. PICK fit, counts, s : /\ fit = Fit(ForwardOf(g)) /\ counts = {m \in DOMAIN valued.results : fit[m] > 0}
                            /\ s = [m \in counts |-> ResultOf(m, g)]
  OBVIOUS
<1>6. DOMAIN s = {m \in DOMAIN results : fit[m] > 0} /\ SameTargets(results, s, DOMAIN s)
  BY <1>3, <1>4, <1>5 DEF AreTargetsOf, SameTargets, ResultOf
<1>7. Found(s) = {} \/ Blend(results, fit, Growing(f)) = Blend(s, fit, Growing(f))
  BY <1>6, BlendIsOfFitting
<1> QED BY <1>1, <1>3, <1>4, <1>5, <1>7 DEF Believed

\* An answer blended from results that are computed.
IsAnswer(v, f) ==
  v.by \in {"conversation", "nothing_asked"} =>
    \E results : /\ AreTargetsOf(results, f) /\ DOMAIN v.results = DOMAIN results
                 /\ v.target = Blend(results, Fit(ForwardOf(f)), Growing(f))

LEMMA AnswersAre ==
  ASSUME NEW f, NEW results, AreTargetsOf(results, f), NEW by, NEW concluded
  PROVE  IsAnswer(Answer(by, Blend(results, Fit(ForwardOf(f)), Growing(f)), Fit(ForwardOf(f)),
                         Remarked(results, Fit(ForwardOf(f)), Growing(f)), concluded), f)
<1>1. PICK fit, target, remarked : /\ fit = Fit(ForwardOf(f)) /\ target = Blend(results, fit, Growing(f))
                                   /\ remarked = Remarked(results, fit, Growing(f))
  OBVIOUS
<1>2. DOMAIN remarked = DOMAIN results
  BY <1>1, RemarksKeepTargets
<1>3. PICK v : v = Answer(by, target, fit, remarked, concluded)
  OBVIOUS
<1>4. v.results = remarked /\ v.target = target
  BY <1>3 DEF Answer
<1> QED BY <1>1, <1>2, <1>3, <1>4 DEF IsAnswer

LEMMA ValuationInvNext == ASSUME ValuationInv, [ValuationNext]_valuationVars PROVE ValuationInv'
<1>1. PICK f : f = company
  OBVIOUS
<1>2. f \in Companies /\ AreTargetsOf(computed, f) /\ IsAnswer(valued, f)
  BY <1>1 DEF ValuationInv, IsAnswer, MethodFit
<1>3. SUFFICES company' = f /\ AreTargetsOf(computed', f) /\ IsAnswer(valued', f)
  BY <1>2 DEF ValuationInv, IsAnswer, MethodFit
<1>4. ASSUME NEW m \in ToSet(Methods), Compute(m) PROVE company' = f /\ AreTargetsOf(computed', f) /\ IsAnswer(valued', f)
  <2>1. computed' = [x \in DOMAIN computed \union {m} |-> IF x = m THEN ResultOf(m, f) ELSE computed[x]]
    BY <1>1, <1>4 DEF Compute
  <2>2. UNCHANGED <<company, valued>>
    BY <1>4 DEF Compute
  <2>3. AreTargetsOf(computed', f)
    BY <1>2, <2>1 DEF AreTargetsOf, ResultOf
  <2> QED BY <1>1, <1>2, <2>2, <2>3
<1>5. CASE LookAtBlend
  <2>1. computed' = Remarked(computed, MethodFit, Growing(company)) /\ UNCHANGED <<company, valued>>
    BY <1>5 DEF LookAtBlend
  <2>2. AreTargetsOf(computed', f)
    BY <1>2, <2>1, RemarksKeepTargets
  <2> QED BY <1>1, <1>2, <2>1, <2>2
<1>6. CASE AskAnchors
  BY <1>1, <1>2, <1>6 DEF AskAnchors
<1>7. ASSUME NEW concluded \in BOOLEAN, Conclude(concluded)
      PROVE  company' = f /\ AreTargetsOf(computed', f) /\ IsAnswer(valued', f)
  <2>1. UNCHANGED <<company, computed>>
    BY <1>7 DEF Conclude
  <2>2. CASE computed = << >>
    <3>1. PICK all : all = [m \in ToSet(Methods) |-> ResultOf(m, f)]
      OBVIOUS
    <3>2. valued' = Answer("nothing_asked", Blend(all, Fit(ForwardOf(f)), Growing(f)), Fit(ForwardOf(f)),
                           Remarked(all, Fit(ForwardOf(f)), Growing(f)), FALSE)
      BY <1>1, <1>7, <2>2, <3>1 DEF Conclude, OneShot, MethodFit
    <3>3. AreTargetsOf(all, f)
      BY <3>1, ResultsAreTargets
    <3> QED BY <1>1, <1>2, <2>1, <3>2, <3>3, AnswersAre
  <2>3. CASE computed # << >>
    <3>1. valued' = Answer("conversation", Blend(computed, Fit(ForwardOf(f)), Growing(f)), Fit(ForwardOf(f)),
                           Remarked(computed, Fit(ForwardOf(f)), Growing(f)), concluded)
      BY <1>1, <1>7, <2>3 DEF Conclude, MethodFit
    <3> QED BY <1>1, <1>2, <2>1, <3>1, AnswersAre
  <2> QED BY <2>2, <2>3
<1>8. CASE ToolLoopFails
  <2>1. valued'.by = "failed" /\ UNCHANGED <<company, computed>>
    BY <1>8 DEF ToolLoopFails, OneShot, Answer
  <2> QED BY <1>1, <1>2, <2>1 DEF IsAnswer
<1>9. CASE UNCHANGED valuationVars
  BY <1>1, <1>2, <1>9 DEF valuationVars
<1> QED BY <1>4, <1>5, <1>6, <1>7, <1>8, <1>9 DEF ValuationNext

\* A claim that was refuted and a method that does not fit change nothing of the
\* price of a company, whatever its figures (deepdive/valuation).
THEOREM OutChangesNothing == ValuationSpec => []WhatIsOutChangesNothing
<1>1. ValuationInit => ValuationInv
  BY ValuationInvInit
<1>2. ValuationInv /\ [ValuationNext]_valuationVars => ValuationInv'
  BY ValuationInvNext
<1>3. ValuationInv => WhatIsOutChangesNothing
  BY InvSaysOut
<1> QED BY <1>1, <1>2, <1>3, PTL DEF ValuationSpec

-------------------------------------------------------------------------------
(***************************************************************************)
(* The scores. A score is a weighted mean of the norms that are there,     *)
(* which a factor that is not there leaves; a norm rises with its figure,  *)
(* and a mean with each of its norms.                                      *)
(***************************************************************************)
\* A better figure: neither is there, or both are and the other is not lower.
Rises(a, b) == a \in Levels /\ b \in Levels /\ (a = b \/ (Known(a) /\ Known(b) /\ a <= b))

\* The same weights, and each norm as high or higher.
PartsRise(p, q, n) ==
  /\ DOMAIN p = 1..n /\ DOMAIN q = 1..n
  /\ \A i \in 1..n : p[i].weight \in Nat \ {0} /\ q[i].weight = p[i].weight /\ Rises(p[i].norm, q[i].norm)

KnownParts(p) == {i \in DOMAIN p : Known(p[i].norm)}
Moment(p) == SumOver([i \in KnownParts(p) |-> p[i].norm * p[i].weight], KnownParts(p))
Weight(p) == SumOver([i \in KnownParts(p) |-> p[i].weight], KnownParts(p))

LEMMA WeightedIs ==
  ASSUME NEW p
  PROVE  Weighted(p) = IF KnownParts(p) = {} THEN Unknown ELSE (100 * Moment(p)) \div Weight(p)
<1> DEFINE S == KnownParts(p)
           m == [i \in S |-> p[i].norm * p[i].weight]
           w == [i \in S |-> p[i].weight]
           One(T) == CHOOSE x \in T : TRUE
           Gm(g) == [s \in SUBSET S |-> IF s = {} THEN 0 ELSE (p[One(s)].norm * p[One(s)].weight) + g[s \ {One(s)}]]
           Hm(g) == [s \in SUBSET S |-> IF s = {} THEN 0 ELSE m[One(s)] + g[s \ {One(s)}]]
           Gw(g) == [s \in SUBSET S |-> IF s = {} THEN 0 ELSE p[One(s)].weight + g[s \ {One(s)}]]
           Hw(g) == [s \in SUBSET S |-> IF s = {} THEN 0 ELSE w[One(s)] + g[s \ {One(s)}]]
<1>1. \A T \in SUBSET S : T # {} => One(T) \in S
  OBVIOUS
<1>2. \A g : Gm(g) = Hm(g)
  BY <1>1
<1>3. \A g : Gw(g) = Hw(g)
  BY <1>1
<1>4. MapThenSumSet(LAMBDA i : p[i].norm * p[i].weight, S) = (CHOOSE g : g = Gm(g))[S]
  BY DEF MapThenSumSet, MapThenFoldSet
<1>5. MapThenSumSet(LAMBDA i : p[i].weight, S) = (CHOOSE g : g = Gw(g))[S]
  BY DEF MapThenSumSet, MapThenFoldSet
<1>6. SumOver(m, S) = (CHOOSE g : g = Hm(g))[S]
  BY DEF SumOver, MapThenSumSet, MapThenFoldSet
<1>7. SumOver(w, S) = (CHOOSE g : g = Hw(g))[S]
  BY DEF SumOver, MapThenSumSet, MapThenFoldSet
<1> HIDE DEF Gm, Hm, Gw, Hw
<1>8. (CHOOSE g : g = Gm(g)) = (CHOOSE g : g = Hm(g)) /\ (CHOOSE g : g = Gw(g)) = (CHOOSE g : g = Hw(g))
  BY <1>2, <1>3
<1>9. MapThenSumSet(LAMBDA i : p[i].norm * p[i].weight, S) = Moment(p) /\ MapThenSumSet(LAMBDA i : p[i].weight, S) = Weight(p)
  BY <1>4, <1>5, <1>6, <1>7, <1>8 DEF Moment, Weight
<1>10. S = {i \in DOMAIN p : Known(p[i].norm)}
  BY DEF KnownParts
<1> HIDE DEF S
<1> QED BY <1>9, <1>10 DEF Weighted, KnownParts

\* A mean by the same weights is not lower when no norm is.
LEMMA WeightedRises ==
  ASSUME NEW p, NEW q, NEW n \in Nat, PartsRise(p, q, n)
  PROVE  NotLower(Weighted(q), Weighted(p))
<1> DEFINE S == KnownParts(p)
           m == [i \in S |-> p[i].norm * p[i].weight]
           k == [i \in S |-> q[i].norm * q[i].weight]
           w == [i \in S |-> p[i].weight]
<1>1. KnownParts(q) = S
  BY DEF KnownParts, PartsRise, Rises
<1>2. \A i \in S : /\ p[i].weight \in Nat \ {0} /\ q[i].weight = p[i].weight
                   /\ p[i].norm \in Int /\ q[i].norm \in Int /\ p[i].norm <= q[i].norm
  BY DEF KnownParts, PartsRise, Rises, Known, Levels
<1>3. IsFiniteSet(S)
  <2>1. IsFiniteSet(1..n) /\ S \subseteq 1..n
    BY FS_Interval DEF KnownParts, PartsRise
  <2> QED BY <2>1, FS_Subset
<1>4. Moment(p) = SumOver(m, S) /\ Weight(p) = SumOver(w, S)
  BY DEF Moment, Weight
<1>5. Moment(q) = SumOver(k, S)
  BY <1>1 DEF Moment
<1>6. Weight(q) = SumOver(w, S)
  <2>1. [i \in S |-> q[i].weight] = w
    BY <1>2
  <2> QED BY <1>1, <2>1 DEF Weight
<1>7. CASE S = {}
  BY <1>7, WeightedIs DEF NotLower, Known
<1>8. CASE S # {}
  <2>1. \A i \in S : m[i] \in Int /\ k[i] \in Int /\ m[i] <= k[i] /\ w[i] \in Nat \ {0}
    <3> SUFFICES ASSUME NEW i \in S PROVE m[i] \in Int /\ k[i] \in Int /\ m[i] <= k[i] /\ w[i] \in Nat \ {0}
      OBVIOUS
    <3>1. PICK a, b, c : a = p[i].norm /\ b = q[i].norm /\ c = p[i].weight
      OBVIOUS
    <3>2. a \in Int /\ b \in Int /\ a <= b /\ c \in Nat \ {0} /\ m[i] = a * c /\ k[i] = b * c /\ w[i] = c
      BY <1>2, <3>1
    <3>3. a * c \in Int /\ b * c \in Int /\ a * c <= b * c
      BY <3>2
    <3> QED BY <3>2, <3>3
  <2> HIDE DEF m, k, w
  <2>2. SumOver(m, S) \in Int
    BY <1>3, <2>1, SumIsInt
  <2>3. SumOver(k, S) \in Int
    BY <1>3, <2>1, SumIsInt
  <2>4. SumOver(m, S) <= SumOver(k, S)
    BY <1>3, <2>1, SumGrows
  <2>5. SumOver(w, S) \in Nat \ {0}
    BY <1>3, <1>8, <2>1, SumIsPositive
  <2>6. Weighted(p) = (100 * Moment(p)) \div Weight(p) /\ Weighted(q) = (100 * Moment(q)) \div Weight(q)
    BY <1>1, <1>8, WeightedIs
  <2>7. PICK a, b, c : a = 100 * Moment(p) /\ b = 100 * Moment(q) /\ c = Weight(p)
    OBVIOUS
  <2>8. a \in Int /\ b \in Int /\ c \in Nat \ {0} /\ a <= b /\ Weighted(p) = a \div c /\ Weighted(q) = b \div c
    BY <1>4, <1>5, <1>6, <2>2, <2>3, <2>4, <2>5, <2>6, <2>7
  <2>9. a \div c \in Int /\ b \div c \in Int /\ a \div c <= b \div c
    BY <2>8
  <2> QED BY <2>8, <2>9, AxisAssumption DEF NotLower, Known
<1> QED BY <1>7, <1>8

-------------------------------------------------------------------------------
(* The norms.                                                              *)
Lowers(a, b) == a \in Levels /\ b \in Levels /\ (a = b \/ (Known(a) /\ Known(b) /\ 0 < b /\ b <= a))
StatusRises(a, b) == a \in StatusLevels /\ b \in StatusLevels /\ (a = b \/ (Known(a) /\ Known(b) /\ Rank(b) >= Rank(a)))

LEMMA SameRises == ASSUME NEW a \in Levels PROVE Rises(a, a)
  BY DEF Rises

LEMMA ClampRises ==
  ASSUME NEW a \in Int, NEW b \in Int, a <= b
  PROVE  Clamped(a) \in 0..10 /\ Clamped(b) \in 0..10 /\ Clamped(a) <= Clamped(b)
  BY DEF Clamped, AtMost

LEMMA DivRises ==
  ASSUME NEW a \in Int, NEW b \in Int, a <= b, NEW n \in Nat \ {0}
  PROVE  a \div n \in Int /\ b \div n \in Int /\ a \div n <= b \div n
  OBVIOUS

LEMMA ClampedPartRises ==
  ASSUME NEW a \in Int, NEW b \in Int, a <= b, NEW n \in Nat \ {0}
  PROVE  Rises(Clamped(a \div n), Clamped(b \div n))
<1>1. PICK x, y : x = a \div n /\ y = b \div n
  OBVIOUS
<1>2. x \in Int /\ y \in Int /\ x <= y
  BY <1>1, DivRises
<1> QED BY <1>1, <1>2, ClampRises, AxisAssumption DEF Rises, Levels, Known

LEMMA BandRises ==
  ASSUME NEW lo \in Int, NEW hi \in Int, lo < hi, NEW a, NEW b, Rises(a, b)
  PROVE  Rises(Band(a, lo, hi), Band(b, lo, hi))
<1>1. CASE Known(a) /\ Known(b)
  <2>1. a \in Int /\ b \in Int /\ a <= b
    BY <1>1 DEF Rises, Known, Levels
  <2>2. PICK x, y, n : x = 10 * (a - lo) /\ y = 10 * (b - lo) /\ n = hi - lo
    OBVIOUS
  <2>3. x \in Int /\ y \in Int /\ x <= y /\ n \in Nat \ {0}
    BY <2>1, <2>2
  <2>4. Band(a, lo, hi) = Clamped(x \div n) /\ Band(b, lo, hi) = Clamped(y \div n)
    BY <1>1, <2>2 DEF Band
  <2> QED BY <2>3, <2>4, ClampedPartRises
<1>2. CASE ~(Known(a) /\ Known(b))
  BY <1>2 DEF Rises, Band, Known, Levels
<1> QED BY <1>1, <1>2

LEMMA CheapRises ==
  ASSUME NEW best \in Int, NEW worst \in Int, best < worst, NEW a, NEW b, Lowers(a, b)
  PROVE  Rises(CheapBand(a, best, worst), CheapBand(b, best, worst))
<1>1. CASE Known(a) /\ a > 0
  <2>1. a \in Int /\ b \in Int /\ b <= a /\ b > 0 /\ Known(b)
    BY <1>1 DEF Lowers, Known, Levels
  <2>2. PICK x, y, n : x = 10 * (worst - a) /\ y = 10 * (worst - b) /\ n = worst - best
    OBVIOUS
  <2>3. x \in Int /\ y \in Int /\ x <= y /\ n \in Nat \ {0}
    BY <2>1, <2>2
  <2>4. CheapBand(a, best, worst) = Clamped(x \div n) /\ CheapBand(b, best, worst) = Clamped(y \div n)
    BY <1>1, <2>1, <2>2 DEF CheapBand
  <2> QED BY <2>3, <2>4, ClampedPartRises
<1>2. CASE ~(Known(a) /\ a > 0)
  <2>1. CheapBand(a, best, worst) = Unknown /\ CheapBand(b, best, worst) = Unknown
    <3>1. a = b \/ ~(a = b)
      OBVIOUS
    <3>2. CASE a = b
      BY <1>2, <3>2 DEF CheapBand
    <3>3. CASE a # b
      <4>1. a \in Int /\ b \in Int /\ 0 < b /\ b <= a /\ Known(a)
        BY <3>3 DEF Lowers, Known, Levels
      <4> QED BY <1>2, <4>1
    <3> QED BY <3>2, <3>3
  <2> QED BY <2>1 DEF Rises, Levels
<1> QED BY <1>1, <1>2

LEMMA MarginRises == ASSUME NEW a, NEW b, Rises(a, b) PROVE Rises(MarginNorm(a), MarginNorm(b))
<1>1. CASE Known(a) /\ Known(b)
  <2>1. a \in Int /\ b \in Int /\ a <= b
    BY <1>1 DEF Rises, Known, Levels
  <2>2. a \div 2 \in Int /\ b \div 2 \in Int /\ a \div 2 <= b \div 2
    BY <2>1
  <2>3. MarginNorm(a) = 5 + a \div 2 /\ MarginNorm(b) = 5 + b \div 2
    BY <1>1 DEF MarginNorm
  <2> QED BY <2>2, <2>3, AxisAssumption DEF Rises, Levels, Known
<1>2. CASE ~(Known(a) /\ Known(b))
  BY <1>2 DEF Rises, MarginNorm, Known, Levels
<1> QED BY <1>1, <1>2

LEMMA RankIs == Rank("losing") = 1 /\ Rank("lost") = 2 /\ Rank("stayed") = 3 /\ Rank("turned") = 4
<1>1. DOMAIN Ranked = 1..4
  BY DEF Ranked
<1>2. Ranked[1] = "losing" /\ Ranked[2] = "lost" /\ Ranked[3] = "stayed" /\ Ranked[4] = "turned"
  BY DEF Ranked
<1>3. \A i \in 1..4 : i = 1 \/ i = 2 \/ i = 3 \/ i = 4
  OBVIOUS
<1> HIDE DEF Ranked
<1>4. (CHOOSE i \in 1..4 : Ranked[i] = "losing") = 1
  BY <1>2, <1>3
<1>5. (CHOOSE i \in 1..4 : Ranked[i] = "lost") = 2
  BY <1>2, <1>3
<1>6. (CHOOSE i \in 1..4 : Ranked[i] = "stayed") = 3
  BY <1>2, <1>3
<1>7. (CHOOSE i \in 1..4 : Ranked[i] = "turned") = 4
  BY <1>2, <1>3
<1> QED BY <1>1, <1>4, <1>5, <1>6, <1>7 DEF Rank

LEMMA StatusIs ==
  /\ StatusNorm("turned") = 10 /\ StatusNorm("stayed") = 7 /\ StatusNorm("lost") = 3 /\ StatusNorm("losing") = 0
  /\ StatusNorm(Unknown) = Unknown
  BY AxisAssumption DEF StatusNorm

LEMMA StatusNormRises == ASSUME NEW a, NEW b, StatusRises(a, b) PROVE Rises(StatusNorm(a), StatusNorm(b))
<1>1. CASE a = b
  BY <1>1, StatusIs DEF StatusRises, StatusLevels, Rises, Levels
<1>2. CASE a # b
  <2>1. a \in {"turned", "stayed", "lost", "losing"} /\ b \in {"turned", "stayed", "lost", "losing"} /\ Rank(b) >= Rank(a)
    BY <1>2 DEF StatusRises, StatusLevels, Known
  <2> QED BY <1>2, <2>1, RankIs, StatusIs, AxisAssumption DEF Rises, Levels, Known
<1> QED BY <1>1, <1>2

LEMMA PartIs == ASSUME NEW a, NEW w PROVE Part(a, w).norm = a /\ Part(a, w).weight = w
  BY DEF Part

\* Parts that are given by their norms and weights.
LEMMA PartsAre ==
  ASSUME NEW n \in Nat, NEW p, NEW q, DOMAIN p = 1..n, DOMAIN q = 1..n, NEW a, NEW b, NEW w,
         \A i \in 1..n : p[i] = Part(a[i], w[i]) /\ q[i] = Part(b[i], w[i]) /\ w[i] \in Nat \ {0} /\ Rises(a[i], b[i])
  PROVE  NotLower(Weighted(q), Weighted(p))
<1>1. PartsRise(p, q, n)
  BY PartIs DEF PartsRise
<1> QED BY <1>1, WeightedRises

GrowthUp(g, h) ==
  /\ \A f \in {"revenue", "opMargin", "netMargin", "ebitdaMargin"} : Rises(g[f], h[f])
  /\ \A f \in Statuses : StatusRises(g[f], h[f])

LEMMA GrowthScoreRises ==
  ASSUME NEW g, NEW h, GrowthUp(g, h)
  PROVE  NotLower(GrowthScore(h), GrowthScore(g))
<1> DEFINE norms(k) == <<Band(k.revenue, -20, 60), StatusNorm(k.op), MarginNorm(k.opMargin), StatusNorm(k.net),
                         MarginNorm(k.netMargin), StatusNorm(k.ebitda), MarginNorm(k.ebitdaMargin)>>
           w == <<24, 16, 14, 13, 11, 12, 10>>
           p == GrowthFactors(g)
           q == GrowthFactors(h)
<1>1. /\ Rises(g.revenue, h.revenue) /\ Rises(g.opMargin, h.opMargin) /\ Rises(g.netMargin, h.netMargin)
      /\ Rises(g.ebitdaMargin, h.ebitdaMargin)
      /\ StatusRises(g.op, h.op) /\ StatusRises(g.net, h.net) /\ StatusRises(g.ebitda, h.ebitda)
  BY DEF GrowthUp, Statuses
<1>2. Rises(Band(g.revenue, -20, 60), Band(h.revenue, -20, 60))
  <2>1. -20 \in Int /\ 60 \in Int /\ -20 < 60
    OBVIOUS
  <2> QED BY <1>1, <2>1, BandRises
<1>3. /\ Rises(StatusNorm(g.op), StatusNorm(h.op)) /\ Rises(StatusNorm(g.net), StatusNorm(h.net))
      /\ Rises(StatusNorm(g.ebitda), StatusNorm(h.ebitda))
  BY <1>1, StatusNormRises
<1>4. /\ Rises(MarginNorm(g.opMargin), MarginNorm(h.opMargin)) /\ Rises(MarginNorm(g.netMargin), MarginNorm(h.netMargin))
      /\ Rises(MarginNorm(g.ebitdaMargin), MarginNorm(h.ebitdaMargin))
  BY <1>1, MarginRises
<1>5. \A i \in 1..7 : Rises(norms(g)[i], norms(h)[i])
  <2>1. \A i \in 1..7 : i = 1 \/ i = 2 \/ i = 3 \/ i = 4 \/ i = 5 \/ i = 6 \/ i = 7
    OBVIOUS
  <2> QED BY <1>2, <1>3, <1>4, <2>1
<1>6. \A i \in 1..7 : w[i] \in Nat \ {0}
  OBVIOUS
<1>7. DOMAIN p = 1..7 /\ DOMAIN q = 1..7
  BY DEF GrowthFactors
<1>8. \A i \in 1..7 : p[i] = Part(norms(g)[i], w[i]) /\ q[i] = Part(norms(h)[i], w[i])
  <2>1. \A i \in 1..7 : i = 1 \/ i = 2 \/ i = 3 \/ i = 4 \/ i = 5 \/ i = 6 \/ i = 7
    OBVIOUS
  <2> QED BY <2>1 DEF GrowthFactors
<1>9. GrowthScore(g) = Weighted(p) /\ GrowthScore(h) = Weighted(q)
  BY DEF GrowthScore, GrowthFactors
<1>10. PICK a, b, c : a = norms(g) /\ b = norms(h) /\ c = w
  OBVIOUS
<1>11. \A i \in 1..7 : p[i] = Part(a[i], c[i]) /\ q[i] = Part(b[i], c[i]) /\ c[i] \in Nat \ {0} /\ Rises(a[i], b[i])
  BY <1>5, <1>6, <1>8, <1>10
<1> HIDE DEF p, q, w, norms
<1>12. NotLower(Weighted(q), Weighted(p))
  BY <1>7, <1>11, PartsAre
<1> QED BY <1>9, <1>12

LEMMA PegRises ==
  ASSUME NEW a, NEW b, Lowers(a, b), NEW e \in Levels
  PROVE  Rises(PegNorm(a, e), PegNorm(b, e))
<1>1. CASE Known(a) /\ Known(e) /\ a > 0 /\ e > 0
  <2>1. a \in Int /\ b \in Int /\ b <= a /\ b > 0 /\ Known(b) /\ e \in Nat \ {0}
    BY <1>1 DEF Lowers, Known, Levels
  <2>2. PICK x, y : x = 10 * (2 * e - a) /\ y = 10 * (2 * e - b)
    OBVIOUS
  <2>3. x \in Int /\ y \in Int /\ x <= y
    BY <2>1, <2>2
  <2>4. PegNorm(a, e) = Clamped(x \div e) /\ PegNorm(b, e) = Clamped(y \div e)
    BY <1>1, <2>1, <2>2 DEF PegNorm
  <2> QED BY <2>1, <2>3, <2>4, ClampedPartRises
<1>2. CASE ~(Known(a) /\ Known(e) /\ a > 0 /\ e > 0)
  <2>1. CASE a = b
    BY <1>2, <2>1 DEF PegNorm, Rises, Levels
  <2>2. CASE a # b
    <3>1. a \in Int /\ b \in Int /\ 0 < b /\ b <= a /\ Known(a)
      BY <2>2 DEF Lowers, Known, Levels
    <3>2. ~(Known(e) /\ e > 0)
      BY <1>2, <3>1
    <3> QED BY <3>2 DEF PegNorm, Rises, Levels
  <2> QED BY <2>1, <2>2
<1> QED BY <1>1, <1>2

LEMMA SurrogateIs == ASSUME NEW g, g.netMargin \in Levels PROVE SurrogateNorm(g) \in Levels
<1>1. CASE Known(g.netMargin)
  <2>1. g.netMargin \in Int
    BY <1>1 DEF Known, Levels
  <2>2. MarginNorm(g.netMargin) \in Int
    BY <1>1, <2>1 DEF MarginNorm
  <2> QED BY <2>2 DEF SurrogateNorm, AtMost, Levels
<1>2. CASE ~Known(g.netMargin)
  BY <1>2 DEF SurrogateNorm, Levels
<1> QED BY <1>1, <1>2

LEMMA EitherRises ==
  ASSUME NEW a, NEW b, Rises(a, b), NEW u \in Levels
  PROVE  Rises(Either(a, u), Either(b, u))
  BY DEF Rises, Either, Known

ValueUp(r, s) == (\A f \in Cheaper : Lowers(r[f], s[f])) /\ Rises(r.roe, s.roe) /\ Rises(r.div, s.div)

LEMMA ValueScoreRises ==
  ASSUME NEW r, NEW s, NEW g, ValueUp(r, s), g.eps \in Levels, g.netMargin \in Levels
  PROVE  NotLower(ValueScore(s, g), ValueScore(r, g))
<1> DEFINE norms(k) == <<Norms(k, g).pbr, Norms(k, g).per, Norms(k, g).ev, Norms(k, g).peg, Band(k.roe, 0, 15), Band(k.div, 0, 5)>>
           w == <<30, 25, 15, 15, 10, 5>>
           p == ValueFactors(r, g)
           q == ValueFactors(s, g)
<1>1. Lowers(r.per, s.per) /\ Lowers(r.pbr, s.pbr) /\ Lowers(r.ev, s.ev) /\ Rises(r.roe, s.roe) /\ Rises(r.div, s.div)
  BY DEF ValueUp, Cheaper
<1>2. Rises(Norms(r, g).per, Norms(s, g).per) /\ Rises(Norms(r, g).pbr, Norms(s, g).pbr) /\ Rises(Norms(r, g).ev, Norms(s, g).ev)
  BY <1>1, CheapRises DEF Norms
<1>3. Rises(Norms(r, g).peg, Norms(s, g).peg)
  <2>1. Rises(PegNorm(r.per, g.eps), PegNorm(s.per, g.eps))
    BY <1>1, PegRises
  <2>2. SurrogateNorm(g) \in Levels
    BY SurrogateIs
  <2>3. Rises(Either(PegNorm(r.per, g.eps), SurrogateNorm(g)), Either(PegNorm(s.per, g.eps), SurrogateNorm(g)))
    BY <2>1, <2>2, EitherRises
  <2> QED BY <2>3 DEF Norms
<1>4. Rises(Band(r.roe, 0, 15), Band(s.roe, 0, 15)) /\ Rises(Band(r.div, 0, 5), Band(s.div, 0, 5))
  BY <1>1, BandRises
<1>5. \A i \in 1..6 : Rises(norms(r)[i], norms(s)[i])
  <2>1. \A i \in 1..6 : i = 1 \/ i = 2 \/ i = 3 \/ i = 4 \/ i = 5 \/ i = 6
    OBVIOUS
  <2> QED BY <1>2, <1>3, <1>4, <2>1
<1>6. \A i \in 1..6 : w[i] \in Nat \ {0}
  OBVIOUS
<1>7. DOMAIN p = 1..6 /\ DOMAIN q = 1..6
  BY DEF ValueScore, ValueFactors
<1>8. \A i \in 1..6 : p[i] = Part(norms(r)[i], w[i]) /\ q[i] = Part(norms(s)[i], w[i])
  <2>1. \A i \in 1..6 : i = 1 \/ i = 2 \/ i = 3 \/ i = 4 \/ i = 5 \/ i = 6
    OBVIOUS
  <2> QED BY <2>1 DEF ValueScore, ValueFactors
<1>9. ValueScore(r, g) = Weighted(p) /\ ValueScore(s, g) = Weighted(q)
  BY DEF ValueScore, ValueFactors
<1>10. PICK a, b, c : a = norms(r) /\ b = norms(s) /\ c = w
  OBVIOUS
<1>11. \A i \in 1..6 : p[i] = Part(a[i], c[i]) /\ q[i] = Part(b[i], c[i]) /\ c[i] \in Nat \ {0} /\ Rises(a[i], b[i])
  BY <1>5, <1>6, <1>8, <1>10
<1> HIDE DEF p, q, w, norms
<1>12. NotLower(Weighted(q), Weighted(p))
  BY <1>7, <1>11, PartsAre
<1> QED BY <1>9, <1>12

OrderOf(t) == IF ~Known(t.aligned) THEN Unknown ELSE IF t.aligned \/ t.above THEN 10 ELSE 0
\* The parts of the trend, the stage's included.
TrendParts(t) ==
  <<Part(Band(t.near, 70, 100), 35), Part(OrderOf(t), 30), Part(Band(t.volume, 50, 200), 15),
    Part(Band(t.quarter, -20, 40), 20), Part(StageNorm(t.stage), 15)>>

TrendUp(t, u) ==
  /\ \A f \in {"near", "volume", "quarter"} : Rises(t[f], u[f])
  /\ Rises(OrderOf(t), OrderOf(u)) /\ Rises(StageNorm(t.stage), StageNorm(u.stage))

LEMMA TrendScoreRises ==
  ASSUME NEW t, NEW u, TrendUp(t, u)
  PROVE  NotLower(TrendScore(u), TrendScore(t))
<1> DEFINE norms(k) == <<Band(k.near, 70, 100), OrderOf(k), Band(k.volume, 50, 200), Band(k.quarter, -20, 40), StageNorm(k.stage)>>
           w == <<35, 30, 15, 20, 15>>
           p == TrendParts(t)
           q == TrendParts(u)
<1>1. /\ Rises(t.near, u.near) /\ Rises(t.volume, u.volume) /\ Rises(t.quarter, u.quarter)
      /\ Rises(OrderOf(t), OrderOf(u)) /\ Rises(StageNorm(t.stage), StageNorm(u.stage))
  BY DEF TrendUp
<1>2. Rises(Band(t.near, 70, 100), Band(u.near, 70, 100))
  BY <1>1, BandRises
<1>3. Rises(Band(t.volume, 50, 200), Band(u.volume, 50, 200))
  BY <1>1, BandRises
<1>4. /\ Rises(Band(t.quarter, -20, 40), Band(u.quarter, -20, 40))
      /\ Rises(OrderOf(t), OrderOf(u)) /\ Rises(StageNorm(t.stage), StageNorm(u.stage))
  <2>1. -20 \in Int /\ 40 \in Int /\ -20 < 40
    OBVIOUS
  <2> QED BY <1>1, <2>1, BandRises
<1>5. \A i \in 1..5 : Rises(norms(t)[i], norms(u)[i])
  <2>1. \A i \in 1..5 : i = 1 \/ i = 2 \/ i = 3 \/ i = 4 \/ i = 5
    OBVIOUS
  <2> QED BY <1>2, <1>3, <1>4, <2>1
<1>6. \A i \in 1..5 : w[i] \in Nat \ {0}
  OBVIOUS
<1>7. DOMAIN p = 1..5 /\ DOMAIN q = 1..5
  BY DEF TrendScore, TrendParts, OrderOf
<1>8. \A i \in 1..5 : p[i] = Part(norms(t)[i], w[i]) /\ q[i] = Part(norms(u)[i], w[i])
  <2>1. \A i \in 1..5 : i = 1 \/ i = 2 \/ i = 3 \/ i = 4 \/ i = 5
    OBVIOUS
  <2> QED BY <2>1 DEF TrendScore, TrendParts, OrderOf
<1>9. TrendScore(t) = Weighted(p) /\ TrendScore(u) = Weighted(q)
  BY DEF TrendScore, TrendParts, OrderOf
<1>10. PICK a, b, c : a = norms(t) /\ b = norms(u) /\ c = w
  OBVIOUS
<1>11. \A i \in 1..5 : p[i] = Part(a[i], c[i]) /\ q[i] = Part(b[i], c[i]) /\ c[i] \in Nat \ {0} /\ Rises(a[i], b[i])
  BY <1>5, <1>6, <1>8, <1>10
<1> HIDE DEF p, q, w, norms
<1>12. NotLower(Weighted(q), Weighted(p))
  BY <1>7, <1>11, PartsAre
<1> QED BY <1>9, <1>12

FlowUp(f, h) == \A k \in {"us", "kr", "index", "rs"} : Rises(f[k], h[k])

LEMMA FlowScoreRises ==
  ASSUME NEW f, NEW h, FlowUp(f, h)
  PROVE  NotLower(FlowScore(h), FlowScore(f))
<1> DEFINE norms(k) == <<Band(k.us, 0, 100), Band(k.kr, 0, 100), Band(k.index, 0, 100), Band(k.rs, 0, 100)>>
           w == <<35, 30, 10, 25>>
           p == FlowFactors(f)
           q == FlowFactors(h)
<1>1. Rises(f.us, h.us) /\ Rises(f.kr, h.kr) /\ Rises(f.index, h.index) /\ Rises(f.rs, h.rs)
  BY DEF FlowUp
<1>2. Rises(Band(f.us, 0, 100), Band(h.us, 0, 100)) /\ Rises(Band(f.kr, 0, 100), Band(h.kr, 0, 100))
  BY <1>1, BandRises
<1>3. Rises(Band(f.index, 0, 100), Band(h.index, 0, 100))
  BY <1>1, BandRises
<1>4. Rises(Band(f.rs, 0, 100), Band(h.rs, 0, 100))
  BY <1>1, BandRises
<1>5. \A i \in 1..4 : Rises(norms(f)[i], norms(h)[i])
  <2>1. \A i \in 1..4 : i = 1 \/ i = 2 \/ i = 3 \/ i = 4
    OBVIOUS
  <2> QED BY <1>2, <1>3, <1>4, <2>1
<1>6. \A i \in 1..4 : w[i] \in Nat \ {0}
  OBVIOUS
<1>7. DOMAIN p = 1..4 /\ DOMAIN q = 1..4
  BY DEF FlowScore, FlowFactors
<1>8. \A i \in 1..4 : p[i] = Part(norms(f)[i], w[i]) /\ q[i] = Part(norms(h)[i], w[i])
  <2>1. \A i \in 1..4 : i = 1 \/ i = 2 \/ i = 3 \/ i = 4
    OBVIOUS
  <2> QED BY <2>1 DEF FlowScore, FlowFactors
<1>9. FlowScore(f) = Weighted(p) /\ FlowScore(h) = Weighted(q)
  BY DEF FlowScore, FlowFactors
<1>10. PICK a, b, c : a = norms(f) /\ b = norms(h) /\ c = w
  OBVIOUS
<1>11. \A i \in 1..4 : p[i] = Part(a[i], c[i]) /\ q[i] = Part(b[i], c[i]) /\ c[i] \in Nat \ {0} /\ Rises(a[i], b[i])
  BY <1>5, <1>6, <1>8, <1>10
<1> HIDE DEF p, q, w, norms
<1>12. NotLower(Weighted(q), Weighted(p))
  BY <1>7, <1>11, PartsAre
<1> QED BY <1>9, <1>12

-------------------------------------------------------------------------------
(* The reasons of the trend stand in another order, the stage left out when *)
(* it is not known: their mean is the same.                                *)
TermOf(p, i) == IF Known(p[i].norm) THEN p[i].norm * p[i].weight ELSE 0
WeightOf(p, i) == IF Known(p[i].norm) THEN p[i].weight ELSE 0
AreParts(p, n) == DOMAIN p = 1..n /\ \A i \in 1..n : p[i].norm \in Levels /\ p[i].weight \in Nat

LEMMA TermsAreInts ==
  ASSUME NEW n \in Nat, NEW p, AreParts(p, n), NEW i \in 1..n
  PROVE  TermOf(p, i) \in Int /\ WeightOf(p, i) \in Int
<1>1. PICK a, w : a = p[i].norm /\ w = p[i].weight
  OBVIOUS
<1>2. w \in Nat /\ (Known(a) => a \in Int)
  BY <1>1 DEF AreParts, Known, Levels
<1>3. Known(a) => a * w \in Int
  BY <1>2
<1> QED BY <1>1, <1>2, <1>3 DEF TermOf, WeightOf

LEMMA MeanOfTerms ==
  ASSUME NEW n \in Nat, NEW p, AreParts(p, n)
  PROVE  /\ Moment(p) = SumOver([i \in 1..n |-> TermOf(p, i)], 1..n)
         /\ Weight(p) = SumOver([i \in 1..n |-> WeightOf(p, i)], 1..n)
<1> DEFINE S == KnownParts(p)
           t == [i \in 1..n |-> TermOf(p, i)]
           v == [i \in 1..n |-> WeightOf(p, i)]
           m == [i \in S |-> p[i].norm * p[i].weight]
           w == [i \in S |-> p[i].weight]
<1>1. S \subseteq 1..n /\ IsFiniteSet(1..n)
  BY FS_Interval DEF KnownParts, AreParts
<1>2. IsFiniteSet(S)
  BY <1>1, FS_Subset
<1>3. \A i \in 1..n : t[i] \in Int /\ v[i] \in Int
  BY TermsAreInts
<1>4. \A i \in (1..n) \ S : t[i] = 0 /\ v[i] = 0
  BY DEF KnownParts, AreParts, TermOf, WeightOf
<1>5. \A i \in S : m[i] = t[i] /\ w[i] = v[i]
  BY <1>1 DEF KnownParts, TermOf, WeightOf
<1>6. Moment(p) = SumOver(m, S) /\ Weight(p) = SumOver(w, S)
  BY DEF Moment, Weight
<1> HIDE DEF S, t, v, m, w
<1>7. SumOver(t, 1..n) = SumOver(t, S)
  BY <1>1, <1>3, <1>4, SumLeavesOut
<1>8. SumOver(v, 1..n) = SumOver(v, S)
  BY <1>1, <1>3, <1>4, SumLeavesOut
<1>9. SumOver(m, S) = SumOver(t, S)
  <2>1. \A i \in S : t[i] \in Int /\ m[i] = t[i]
    BY <1>1, <1>3, <1>5
  <2> QED BY <1>2, <2>1, SumAgrees
<1>10. SumOver(w, S) = SumOver(v, S)
  <2>1. \A i \in S : v[i] \in Int /\ w[i] = v[i]
    BY <1>1, <1>3, <1>5
  <2> QED BY <1>2, <2>1, SumAgrees
<1> QED BY <1>6, <1>7, <1>8, <1>9, <1>10 DEF t, v

LEMMA LastOfSum ==
  ASSUME NEW f, NEW m \in Nat, NEW n \in Nat, n = m + 1, \A i \in 1..n : f[i] \in Int
  PROVE  SumOver(f, 1..n) = f[n] + SumOver(f, 1..m) /\ SumOver(f, 1..m) \in Int
<1>1. IsFiniteSet(1..n) /\ IsFiniteSet(1..m) /\ n \in 1..n /\ (1..n) \ {n} = 1..m
  BY FS_Interval
<1>2. SumOver(f, 1..n) = f[n] + SumOver(f, (1..n) \ {n})
  BY <1>1, SumSplits
<1>3. SumOver(f, 1..m) \in Int
  BY <1>1, SumIsInt
<1> QED BY <1>1, <1>2, <1>3

LEMMA SumOfFour ==
  ASSUME NEW f, \A i \in 1..4 : f[i] \in Int
  PROVE  SumOver(f, 1..4) = f[1] + f[2] + f[3] + f[4]
<1>1. f[1] \in Int /\ f[2] \in Int /\ f[3] \in Int /\ f[4] \in Int
  OBVIOUS
<1>2. SumOver(f, 1..4) = f[4] + SumOver(f, 1..3) /\ SumOver(f, 1..3) \in Int
  <2>1. 3 \in Nat /\ 4 \in Nat /\ 4 = 3 + 1
    OBVIOUS
  <2> QED BY <2>1, LastOfSum
<1>3. SumOver(f, 1..3) = f[3] + SumOver(f, 1..2) /\ SumOver(f, 1..2) \in Int
  <2>1. 2 \in Nat /\ 3 \in Nat /\ 3 = 2 + 1 /\ \A i \in 1..3 : f[i] \in Int
    OBVIOUS
  <2> QED BY <2>1, LastOfSum
<1>4. SumOver(f, 1..2) = f[2] + SumOver(f, 1..1) /\ SumOver(f, 1..1) \in Int
  <2>1. 1 \in Nat /\ 2 \in Nat /\ 2 = 1 + 1 /\ \A i \in 1..2 : f[i] \in Int
    OBVIOUS
  <2> QED BY <2>1, LastOfSum
<1>5. SumOver(f, 1..1) = f[1] + SumOver(f, 1..0)
  <2>1. 0 \in Nat /\ 1 \in Nat /\ 1 = 0 + 1 /\ \A i \in 1..1 : f[i] \in Int
    OBVIOUS
  <2> QED BY <2>1, LastOfSum
<1>6. 1..0 = {}
  OBVIOUS
<1>7. SumOver(f, 1..1) = f[1] + 0
  BY <1>5, <1>6, SumOfNothing
<1>8. PICK a, b, c : a = SumOver(f, 1..3) /\ b = SumOver(f, 1..2) /\ c = SumOver(f, 1..1)
  OBVIOUS
<1>9. SumOver(f, 1..4) = f[4] + a /\ a = f[3] + b /\ b = f[2] + c /\ c = f[1]
  BY <1>1, <1>2, <1>3, <1>4, <1>6, <1>7, <1>8
<1> QED BY <1>1, <1>9

LEMMA SumOfFive ==
  ASSUME NEW f, \A i \in 1..5 : f[i] \in Int
  PROVE  SumOver(f, 1..5) = f[1] + f[2] + f[3] + f[4] + f[5]
<1>1. f[1] \in Int /\ f[2] \in Int /\ f[3] \in Int /\ f[4] \in Int /\ f[5] \in Int
  OBVIOUS
<1>2. SumOver(f, 1..5) = f[5] + SumOver(f, 1..4)
  <2>1. 4 \in Nat /\ 5 \in Nat /\ 5 = 4 + 1
    OBVIOUS
  <2> QED BY <2>1, LastOfSum
<1>3. SumOver(f, 1..4) = f[1] + f[2] + f[3] + f[4]
  <2>1. \A i \in 1..4 : f[i] \in Int
    OBVIOUS
  <2> QED BY <2>1, SumOfFour
<1>4. PICK a : a = SumOver(f, 1..4)
  OBVIOUS
<1>5. SumOver(f, 1..5) = f[5] + a /\ a = f[1] + f[2] + f[3] + f[4]
  BY <1>2, <1>3, <1>4
<1> QED BY <1>1, <1>5

LEMMA SameMean ==
  ASSUME NEW p, NEW q, Moment(p) = Moment(q), Weight(p) = Weight(q), KnownParts(p) = {} <=> KnownParts(q) = {}
  PROVE  Weighted(p) = Weighted(q)
  BY WeightedIs

\* What is five terms, and what four or five of them in another order.
LEMMA FiveTerms ==
  ASSUME NEW p, AreParts(p, 5)
  PROVE  /\ Moment(p) = TermOf(p, 1) + TermOf(p, 2) + TermOf(p, 3) + TermOf(p, 4) + TermOf(p, 5)
         /\ Weight(p) = WeightOf(p, 1) + WeightOf(p, 2) + WeightOf(p, 3) + WeightOf(p, 4) + WeightOf(p, 5)
<1>1. PICK f, g : f = [i \in 1..5 |-> TermOf(p, i)] /\ g = [i \in 1..5 |-> WeightOf(p, i)]
  OBVIOUS
<1>2. \A i \in 1..5 : f[i] \in Int /\ g[i] \in Int /\ f[i] = TermOf(p, i) /\ g[i] = WeightOf(p, i)
  BY <1>1, TermsAreInts
<1>3. Moment(p) = SumOver(f, 1..5) /\ Weight(p) = SumOver(g, 1..5)
  BY <1>1, MeanOfTerms
<1>4. SumOver(f, 1..5) = f[1] + f[2] + f[3] + f[4] + f[5]
  BY <1>2, SumOfFive
<1>5. SumOver(g, 1..5) = g[1] + g[2] + g[3] + g[4] + g[5]
  BY <1>2, SumOfFive
<1> QED BY <1>2, <1>3, <1>4, <1>5

LEMMA FourTerms ==
  ASSUME NEW p, AreParts(p, 4)
  PROVE  /\ Moment(p) = TermOf(p, 1) + TermOf(p, 2) + TermOf(p, 3) + TermOf(p, 4)
         /\ Weight(p) = WeightOf(p, 1) + WeightOf(p, 2) + WeightOf(p, 3) + WeightOf(p, 4)
<1>1. PICK f, g : f = [i \in 1..4 |-> TermOf(p, i)] /\ g = [i \in 1..4 |-> WeightOf(p, i)]
  OBVIOUS
<1>2. \A i \in 1..4 : f[i] \in Int /\ g[i] \in Int /\ f[i] = TermOf(p, i) /\ g[i] = WeightOf(p, i)
  BY <1>1, TermsAreInts
<1>3. Moment(p) = SumOver(f, 1..4) /\ Weight(p) = SumOver(g, 1..4)
  BY <1>1, MeanOfTerms
<1>4. SumOver(f, 1..4) = f[1] + f[2] + f[3] + f[4]
  BY <1>2, SumOfFour
<1>5. SumOver(g, 1..4) = g[1] + g[2] + g[3] + g[4]
  BY <1>2, SumOfFour
<1> QED BY <1>2, <1>3, <1>4, <1>5

LEMMA OtherOrder ==
  ASSUME NEW p, NEW q, AreParts(p, 5),
         DOMAIN q = 1..5 \/ (DOMAIN q = 1..4 /\ ~Known(p[5].norm)),
         q[1] = p[1], q[2] = p[2], q[3] = p[4], q[4] = p[3], 5 \in DOMAIN q => q[5] = p[5]
  PROVE  Weighted(q) = Weighted(p)
<1>1. /\ TermOf(q, 1) = TermOf(p, 1) /\ TermOf(q, 2) = TermOf(p, 2) /\ TermOf(q, 3) = TermOf(p, 4) /\ TermOf(q, 4) = TermOf(p, 3)
      /\ WeightOf(q, 1) = WeightOf(p, 1) /\ WeightOf(q, 2) = WeightOf(p, 2)
      /\ WeightOf(q, 3) = WeightOf(p, 4) /\ WeightOf(q, 4) = WeightOf(p, 3)
  BY DEF TermOf, WeightOf
<1>2. \A i \in 1..5 : TermOf(p, i) \in Int /\ WeightOf(p, i) \in Int
  BY TermsAreInts
<1>3. /\ Moment(p) = TermOf(p, 1) + TermOf(p, 2) + TermOf(p, 3) + TermOf(p, 4) + TermOf(p, 5)
      /\ Weight(p) = WeightOf(p, 1) + WeightOf(p, 2) + WeightOf(p, 3) + WeightOf(p, 4) + WeightOf(p, 5)
  BY FiveTerms
<1>4. \A i \in 1..5 : i = 1 \/ i = 2 \/ i = 3 \/ i = 4 \/ i = 5
  OBVIOUS
<1>5. CASE DOMAIN q = 1..5
  <2>1. q[5] = p[5] /\ TermOf(q, 5) = TermOf(p, 5) /\ WeightOf(q, 5) = WeightOf(p, 5)
    BY <1>5 DEF TermOf, WeightOf
  <2>2. AreParts(q, 5)
    BY <1>4, <1>5, <2>1 DEF AreParts
  <2>3. /\ Moment(q) = TermOf(q, 1) + TermOf(q, 2) + TermOf(q, 3) + TermOf(q, 4) + TermOf(q, 5)
        /\ Weight(q) = WeightOf(q, 1) + WeightOf(q, 2) + WeightOf(q, 3) + WeightOf(q, 4) + WeightOf(q, 5)
    BY <2>2, FiveTerms
  <2>4. Moment(q) = Moment(p) /\ Weight(q) = Weight(p)
    BY <1>1, <1>2, <1>3, <2>1, <2>3
  <2>5. KnownParts(p) = {} <=> KnownParts(q) = {}
    BY <1>4, <1>5, <2>1 DEF KnownParts, AreParts
  <2> QED BY <2>4, <2>5, SameMean
<1>6. CASE DOMAIN q = 1..4 /\ ~Known(p[5].norm)
  <2>1. \A i \in 1..4 : i = 1 \/ i = 2 \/ i = 3 \/ i = 4
    OBVIOUS
  <2>2. AreParts(q, 4)
    BY <1>6, <2>1 DEF AreParts
  <2>3. /\ Moment(q) = TermOf(q, 1) + TermOf(q, 2) + TermOf(q, 3) + TermOf(q, 4)
        /\ Weight(q) = WeightOf(q, 1) + WeightOf(q, 2) + WeightOf(q, 3) + WeightOf(q, 4)
    BY <2>2, FourTerms
  <2>4. TermOf(p, 5) = 0 /\ WeightOf(p, 5) = 0
    BY <1>6 DEF TermOf, WeightOf
  <2>5. Moment(q) = Moment(p) /\ Weight(q) = Weight(p)
    BY <1>1, <1>2, <1>3, <2>3, <2>4
  <2>6. KnownParts(p) = {} <=> KnownParts(q) = {}
    BY <1>4, <1>6, <2>1 DEF KnownParts, AreParts
  <2> QED BY <2>5, <2>6, SameMean
<1> QED BY <1>5, <1>6

ReadingsThere ==
  [near : Levels, aligned : BOOLEAN \union {Unknown}, above : BOOLEAN, volume : Levels, quarter : Levels,
   stage : 1..4 \union {Unknown}]

LEMMA OrderIs == ASSUME NEW t \in ReadingsThere PROVE OrderOf(t) \in Levels
  BY DEF OrderOf, Levels, Known
LEMMA StageIs ==
  /\ StageNorm(1) = 5 /\ StageNorm(2) = 10 /\ StageNorm(3) = 3 /\ StageNorm(4) = 0 /\ StageNorm(Unknown) = Unknown
  /\ \A k \in 1..4 : k = 1 \/ k = 2 \/ k = 3 \/ k = 4
  BY AxisAssumption DEF StageNorm
LEMMA BandIs == ASSUME NEW lo \in Int, NEW hi \in Int, lo < hi, NEW a \in Levels PROVE Band(a, lo, hi) \in Levels
  BY SameRises, BandRises DEF Rises

LEMMA OneAfterFour ==
  ASSUME NEW S, NEW s \in Seq(S), Len(s) = 4, NEW x \in S
  PROVE  /\ DOMAIN (s \o <<x>>) = 1..5 /\ \A i \in 1..5 : (s \o <<x>>)[i] = IF i = 5 THEN x ELSE s[i] 
<1>1. PICK t : t = <<x>>
  OBVIOUS
<1>2. t \in Seq(S) /\ Len(t) = 1 /\ t[1] = x
  BY <1>1
<1>3. PICK q : q = s \o t
  OBVIOUS
<1>4. q \in Seq(S) /\ Len(q) = Len(s) + Len(t) /\ \A i \in 1..(Len(s) + Len(t)) : q[i] = IF i <= Len(s) THEN s[i] ELSE t[i - Len(s)]
  BY <1>2, <1>3, ConcatProperties
<1>5. Len(q) = 5
  BY <1>2, <1>4
<1>6. DOMAIN q = 1..5
  <2>1. DOMAIN q = 1..Len(q)
    BY <1>4, LenProperties
  <2> QED BY <1>5, <2>1
<1>7. \A i \in 1..5 : q[i] = IF i = 5 THEN x ELSE s[i] 
  BY <1>2, <1>4
<1> QED BY <1>1, <1>3, <1>6, <1>7

\* The reasons of the trend, one by one.
LEMMA TrendReasons ==
  ASSUME NEW t, t.aligned \in BOOLEAN \union {Unknown}, t.above \in BOOLEAN
  PROVE  /\ DOMAIN TrendFactors(t) = IF Known(t.stage) THEN 1..5 ELSE 1..4
         /\ TrendFactors(t)[1] = Part(Band(t.near, 70, 100), 35) /\ TrendFactors(t)[2] = Part(OrderOf(t), 30)
         /\ TrendFactors(t)[3] = Part(Band(t.quarter, -20, 40), 20) /\ TrendFactors(t)[4] = Part(Band(t.volume, 50, 200), 15)
         /\ Known(t.stage) => TrendFactors(t)[5] = Part(StageNorm(t.stage), 15)
<1> DEFINE q == TrendFactors(t)
<1>1. OrderOf(t) = IF ~Known(t.aligned) THEN Unknown ELSE IF t.aligned THEN 10 ELSE IF t.above THEN 10 ELSE 0
  BY DEF OrderOf
<1>2. PICK a, b, c, d, e : /\ a = Part(Band(t.near, 70, 100), 35) /\ b = Part(OrderOf(t), 30)
                           /\ c = Part(Band(t.quarter, -20, 40), 20) /\ d = Part(Band(t.volume, 50, 200), 15)
                           /\ e = Part(StageNorm(t.stage), 15)
  OBVIOUS
<1>3. PICK four : four = <<a, b, c, d>>
  OBVIOUS
<1>4. PICK five : five = {a, b, c, d, e}
  OBVIOUS
<1>5. four \in Seq(five) /\ Len(four) = 4 /\ e \in five /\ four[1] = a /\ four[2] = b /\ four[3] = c /\ four[4] = d
  BY <1>3, <1>4
<1>6. q = four \o (IF Known(t.stage) THEN <<e>> ELSE << >>)
  BY <1>1, <1>2, <1>3 DEF TrendFactors
<1> HIDE DEF q
<1>7. CASE Known(t.stage)
  <2>1. q = four \o <<e>>
    BY <1>6, <1>7
  <2>2. DOMAIN q = 1..5 /\ q[1] = four[1] /\ q[2] = four[2] /\ q[3] = four[3] /\ q[4] = four[4] /\ q[5] = e
    <3>1. DOMAIN (four \o <<e>>) = 1..5 /\ \A i \in 1..5 : (four \o <<e>>)[i] = IF i = 5 THEN e ELSE four[i]
      BY <1>5, OneAfterFour
    <3> QED BY <2>1, <3>1
  <2> QED BY <1>2, <1>5, <1>7, <2>2 DEF q
<1>8. CASE ~Known(t.stage)
  <2>1. q = four
    BY <1>5, <1>6, <1>8
  <2>2. DOMAIN q = 1..4
    BY <1>5, <2>1
  <2> QED BY <1>2, <1>5, <1>8, <2>1, <2>2 DEF q
<1> QED BY <1>7, <1>8

LEMMA TrendMean ==
  ASSUME NEW t \in ReadingsThere, NEW q, DOMAIN q = IF Known(t.stage) THEN 1..5 ELSE 1..4,
         q[1] = Part(Band(t.near, 70, 100), 35), q[2] = Part(OrderOf(t), 30),
         q[3] = Part(Band(t.quarter, -20, 40), 20), q[4] = Part(Band(t.volume, 50, 200), 15),
         Known(t.stage) => q[5] = Part(StageNorm(t.stage), 15)
  PROVE  TrendScore(t) = Weighted(q)
<1> DEFINE p == TrendParts(t)
<1>1. DOMAIN p = 1..5
  BY DEF TrendParts
<1>2. /\ p[1] = Part(Band(t.near, 70, 100), 35) /\ p[2] = Part(OrderOf(t), 30) /\ p[3] = Part(Band(t.volume, 50, 200), 15)
      /\ p[4] = Part(Band(t.quarter, -20, 40), 20) /\ p[5] = Part(StageNorm(t.stage), 15)
  BY DEF TrendParts
<1>3. /\ t.near \in Levels /\ t.volume \in Levels /\ t.quarter \in Levels /\ t.stage \in 1..4 \union {Unknown}
      /\ t.aligned \in BOOLEAN \union {Unknown} /\ t.above \in BOOLEAN
  BY DEF ReadingsThere
<1>4. OrderOf(t) \in Levels /\ StageNorm(t.stage) \in Levels
  BY <1>3, OrderIs, StageIs DEF Levels
<1>5. Band(t.near, 70, 100) \in Levels /\ Band(t.volume, 50, 200) \in Levels
  BY <1>3, BandIs
<1>6. Band(t.quarter, -20, 40) \in Levels
  <2>1. -20 \in Int /\ 40 \in Int /\ -20 < 40
    OBVIOUS
  <2> QED BY <1>3, <2>1, BandIs
<1>7. AreParts(p, 5)
  <2>1. \A i \in 1..5 : i = 1 \/ i = 2 \/ i = 3 \/ i = 4 \/ i = 5
    OBVIOUS
  <2>2. /\ p[1].norm \in Levels /\ p[2].norm \in Levels /\ p[3].norm \in Levels /\ p[4].norm \in Levels /\ p[5].norm \in Levels
        /\ p[1].weight = 35 /\ p[2].weight = 30 /\ p[3].weight = 15 /\ p[4].weight = 20 /\ p[5].weight = 15
    <3> HIDE DEF p
    <3> QED BY <1>2, <1>4, <1>5, <1>6, PartIs
  <2> HIDE DEF p
  <2> QED BY <1>1, <2>1, <2>2 DEF AreParts
<1>8. TrendScore(t) = Weighted(p)
  BY DEF TrendScore, TrendParts, OrderOf
<1>9. CASE Known(t.stage)
  <2>1. DOMAIN q = 1..5 /\ q[5] = p[5] /\ q[1] = p[1] /\ q[2] = p[2] /\ q[3] = p[4] /\ q[4] = p[3]
    BY <1>2, <1>9
  <2> HIDE DEF p
  <2>2. Weighted(q) = Weighted(p)
    BY <1>7, <2>1, OtherOrder
  <2> QED BY <1>8, <2>2 DEF p
<1>10. CASE ~Known(t.stage)
  <2>1. DOMAIN q = 1..4 /\ 5 \notin DOMAIN q /\ q[1] = p[1] /\ q[2] = p[2] /\ q[3] = p[4] /\ q[4] = p[3]
    BY <1>2, <1>10
  <2>2. ~Known(p[5].norm)
    <3>1. t.stage = Unknown /\ StageNorm(t.stage) = Unknown
      BY <1>10, StageIs DEF Known
    <3> HIDE DEF p
    <3>2. p[5].norm = StageNorm(t.stage)
      BY <1>2, PartIs
    <3> QED BY <3>1, <3>2 DEF Known
  <2> HIDE DEF p
  <2>3. Weighted(q) = Weighted(p)
    BY <1>7, <2>1, <2>2, OtherOrder
  <2> QED BY <1>8, <2>3 DEF p
<1> QED BY <1>9, <1>10

LEMMA RestoredMean ==
  ASSUME NEW t \in ReadingsThere
  PROVE  TrendScore(t) = Weighted(Restored(TrendFactors(AsShown(t)), t))
<1> DEFINE u == AsShown(t)
           F == TrendFactors(u)
           q == Restored(F, t)
<1>1. /\ u.aligned = t.aligned /\ u.above = t.above /\ u.quarter = t.quarter /\ u.stage = t.stage
      /\ u.near = (IF t.near = 0 THEN Unknown ELSE t.near) /\ u.volume = (IF t.volume = 0 THEN Unknown ELSE t.volume)
      /\ t.aligned \in BOOLEAN \union {Unknown} /\ t.above \in BOOLEAN
  BY DEF AsShown, ReadingsThere
<1>2. OrderOf(u) = OrderOf(t)
  BY <1>1, Zenon DEF OrderOf
<1> HIDE DEF u
<1>3. /\ DOMAIN F = IF Known(u.stage) THEN 1..5 ELSE 1..4
      /\ F[1] = Part(Band(u.near, 70, 100), 35) /\ F[2] = Part(OrderOf(u), 30)
      /\ F[3] = Part(Band(u.quarter, -20, 40), 20) /\ F[4] = Part(Band(u.volume, 50, 200), 15)
      /\ Known(u.stage) => F[5] = Part(StageNorm(u.stage), 15)
  <2>1. u.aligned \in BOOLEAN \union {Unknown} /\ u.above \in BOOLEAN
    BY <1>1
  <2> QED BY <2>1, TrendReasons
<1>4. F[1].weight = 35 /\ F[4].weight = 15
  BY <1>3, PartIs
<1> HIDE DEF F
<1>5. Band(0, 70, 100) = 0 /\ Band(0, 50, 200) = 0
  BY AxisAssumption DEF Band, Known, Clamped, AtMost
<1>6. DOMAIN q = DOMAIN F /\ {1, 2, 3, 4} \subseteq DOMAIN F /\ (Known(t.stage) => 5 \in DOMAIN F)
  BY <1>1, <1>3 DEF Restored
<1>7. q[1] = Part(Band(t.near, 70, 100), 35)
  <2>1. CASE t.near = 0
    BY <2>1, <1>4, <1>5, <1>6 DEF Restored
  <2>2. CASE t.near # 0
    BY <2>2, <1>1, <1>3, <1>6 DEF Restored
  <2> QED BY <2>1, <2>2
<1>8. q[4] = Part(Band(t.volume, 50, 200), 15)
  <2>1. CASE t.volume = 0
    BY <2>1, <1>4, <1>5, <1>6 DEF Restored
  <2>2. CASE t.volume # 0
    BY <2>2, <1>1, <1>3, <1>6 DEF Restored
  <2> QED BY <2>1, <2>2
<1>9. q[2] = F[2] /\ q[3] = F[3] /\ (Known(t.stage) => q[5] = F[5])
  BY <1>6 DEF Restored
<1> HIDE DEF q
<1>10. /\ DOMAIN q = IF Known(t.stage) THEN 1..5 ELSE 1..4
       /\ q[2] = Part(OrderOf(t), 30) /\ q[3] = Part(Band(t.quarter, -20, 40), 20)
       /\ Known(t.stage) => q[5] = Part(StageNorm(t.stage), 15)
  BY <1>1, <1>2, <1>3, <1>6, <1>9
<1>11. TrendScore(t) = Weighted(q)
  BY <1>7, <1>8, <1>10, TrendMean
<1> QED BY <1>11 DEF q, F, u

-------------------------------------------------------------------------------
(* The figures of the company, and that the reasons of what was answered    *)
(* make its scores.                                                         *)
GrowthsThere ==
  [revenue : Levels, op : StatusLevels, opMargin : Levels, net : StatusLevels, netMargin : Levels, ebitda : StatusLevels,
   ebitdaMargin : Levels, eps : Levels]
FlowsThere == [us : Levels, kr : Levels, index : Levels, rs : Levels]
AxisInv ==
  /\ growth \in GrowthsThere /\ readings \in ReadingsThere /\ flows \in FlowsThere
  /\ \A f \in Cheaper \union {"roe", "div"} : worth[f] \in Levels
  /\ FactorsMakeScore

LEMMA NothingIsThere == NoGrowth \in GrowthsThere /\ NoReadings \in ReadingsThere /\ NoFlows \in FlowsThere
  BY DEF NoGrowth, NoReadings, NoFlows, GrowthsThere, ReadingsThere, FlowsThere, Levels, StatusLevels

LEMMA GrowthsAreThere ==
  /\ Growths \subseteq GrowthsThere
  /\ \A e \in ValueLevels.eps, m \in {Unknown, 8} : TurnedProfit(e, m) \in GrowthsThere
  /\ \A k \in GrowthLevels.status : [NoGrowth EXCEPT !.op = k] \in GrowthsThere
<1>1. Growths \subseteq GrowthsThere
  <2>1. /\ GrowthLevels.revenue \subseteq Levels /\ GrowthLevels.margin \subseteq Levels
        /\ GrowthLevels.status \subseteq StatusLevels /\ GrowthLevels.few \subseteq StatusLevels
        /\ {Unknown, 0} \subseteq Levels /\ {Unknown} \subseteq Levels
    BY AxisAssumption DEF Levels
  <2> QED BY <2>1 DEF Growths, GrowthsThere
<1>2. ASSUME NEW e \in Levels, NEW m \in Levels PROVE TurnedProfit(e, m) \in GrowthsThere
  BY <1>2, NothingIsThere DEF GrowthsThere, StatusLevels, TurnedProfit
<1>3. ASSUME NEW k \in StatusLevels PROVE [NoGrowth EXCEPT !.op = k] \in GrowthsThere
  BY <1>3, NothingIsThere DEF GrowthsThere
<1>4. ValueLevels.eps \subseteq Levels /\ {Unknown, 8} \subseteq Levels /\ GrowthLevels.status \subseteq StatusLevels
  BY AxisAssumption DEF Levels
<1> QED BY <1>1, <1>2, <1>3, <1>4

LEMMA WorthsAreThere ==
  /\ \A w \in Worths, f \in Cheaper \union {"roe", "div"} : w[f] \in Levels
  /\ \A f \in Cheaper \union {"roe", "div"} : NoWorth[f] \in Levels
  /\ \A p \in ValueLevels.per, f \in Cheaper \union {"roe", "div"} : [NoWorth EXCEPT !.per = p][f] \in Levels
<1>1. ValueLevels.per \subseteq Levels /\ ValueLevels.pbr \subseteq Levels /\ ValueLevels.some \subseteq Levels
  BY AxisAssumption
<1>2. \A w \in Worths, f \in Cheaper \union {"roe", "div"} : w[f] \in Levels
  BY <1>1 DEF Worths, Cheaper
<1>3. \A f \in Cheaper \union {"roe", "div"} : NoWorth[f] = Unknown
  BY DEF NoWorth, Cheaper
<1>4. \A p, f : f \in Cheaper \union {"roe", "div"} => [NoWorth EXCEPT !.per = p][f] \in {p, Unknown}
  BY <1>3 DEF NoWorth, Cheaper
<1> QED BY <1>1, <1>2, <1>3, <1>4 DEF Levels

LEMMA OthersAreThere ==
  /\ Readings \subseteq ReadingsThere /\ Flows \subseteq FlowsThere
  /\ \A k \in TrendLevels.stage : [NoReadings EXCEPT !.stage = k] \in ReadingsThere
  /\ \A k \in FlowLevels : [NoFlows EXCEPT !.rs = k] \in FlowsThere
<1>1. /\ TrendLevels.near \subseteq Levels /\ TrendLevels.volume \subseteq Levels /\ TrendLevels.quarter \subseteq Levels
      /\ TrendLevels.stage \subseteq 1..4 \union {Unknown} /\ FlowLevels \subseteq Levels
      /\ {TRUE, FALSE, Unknown} \subseteq BOOLEAN \union {Unknown}
  BY AxisAssumption
<1>2. Readings \subseteq ReadingsThere
  BY <1>1, Zenon DEF Readings, ReadingsThere
<1>3. Flows \subseteq FlowsThere
  BY <1>1 DEF Flows, FlowsThere
<1>4. ASSUME NEW k \in 1..4 \union {Unknown} PROVE [NoReadings EXCEPT !.stage = k] \in ReadingsThere
  BY <1>4, NothingIsThere DEF ReadingsThere
<1>5. ASSUME NEW k \in Levels PROVE [NoFlows EXCEPT !.rs = k] \in FlowsThere
  BY <1>5, NothingIsThere DEF FlowsThere
<1> QED BY <1>1, <1>2, <1>3, <1>4, <1>5

LEMMA AxisInvInit == AxisInit => AxisInv
<1> SUFFICES ASSUME AxisInit PROVE AxisInv
  OBVIOUS
<1>1. FactorsMakeScore
  <2>1. assessed = NotYet
    BY DEF AxisInit
  <2> QED BY <2>1 DEF FactorsMakeScore, NotYet
<1>2. /\ growth \in Growths \union {NoGrowth} \union PricesOfGrowth \union RoughGrowths
      /\ worth \in Worths \union {NoWorth} \union RoughWorths
      /\ readings \in Readings \union {NoReadings} \union RoughReadings
      /\ flows \in Flows \union {NoFlows} \union RoughFlows
  BY DEF AxisInit
<1>3. PricesOfGrowth \union RoughGrowths \subseteq GrowthsThere
  <2>1. RoughGrowths \subseteq GrowthsThere
    BY GrowthsAreThere, Zenon DEF RoughGrowths
  <2>2. ASSUME NEW g \in PricesOfGrowth PROVE g \in GrowthsThere
    <3>1. PICK e \in ValueLevels.eps, m \in {Unknown, 8} : g = TurnedProfit(e, m)
      BY DEF PricesOfGrowth
    <3> QED BY <3>1, GrowthsAreThere, Zenon
  <2> QED BY <2>1, <2>2
<1>4. RoughReadings \subseteq ReadingsThere /\ RoughFlows \subseteq FlowsThere
  BY OthersAreThere, Zenon DEF RoughReadings, RoughFlows
<1>5. \A w \in RoughWorths, f \in Cheaper \union {"roe", "div"} : w[f] \in Levels
  <2>1. ASSUME NEW p \in ValueLevels.per, NEW f \in Cheaper \union {"roe", "div"} PROVE [NoWorth EXCEPT !.per = p][f] \in Levels
    BY WorthsAreThere
  <2> QED BY <2>1, Zenon DEF RoughWorths
<1>6. growth \in GrowthsThere
  BY <1>2, <1>3, NothingIsThere, GrowthsAreThere, Zenon
<1>7. readings \in ReadingsThere /\ flows \in FlowsThere
  BY <1>2, <1>4, NothingIsThere, OthersAreThere, Zenon
<1>8. \A f \in Cheaper \union {"roe", "div"} : worth[f] \in Levels
  BY <1>2, <1>5, WorthsAreThere, Zenon
<1> QED BY <1>1, <1>6, <1>7, <1>8 DEF AxisInv

\* The axes of an answer, one by one.
LEMMA JoinedAxes ==
  ASSUME NEW a, NEW b, NEW c, NEW d
  PROVE  /\ DOMAIN (<<a, b>> \o <<c, d>>) = 1..4
         /\ (<<a, b>> \o <<c, d>>)[1] = a /\ (<<a, b>> \o <<c, d>>)[2] = b
         /\ (<<a, b>> \o <<c, d>>)[3] = c /\ (<<a, b>> \o <<c, d>>)[4] = d
<1>1. PICK p, q, r : p = <<a, b>> /\ q = <<c, d>> /\ r = p \o q
  OBVIOUS
<1>2. p \in Seq({a, b, c, d}) /\ q \in Seq({a, b, c, d}) /\ Len(p) = 2 /\ Len(q) = 2 /\ p[1] = a /\ p[2] = b /\ q[1] = c /\ q[2] = d
  BY <1>1
<1>3. r \in Seq({a, b, c, d}) /\ Len(r) = Len(p) + Len(q)
      /\ \A i \in 1..(Len(p) + Len(q)) : r[i] = IF i <= Len(p) THEN p[i] ELSE q[i - Len(p)]
  BY <1>1, <1>2, ConcatProperties
<1>4. DOMAIN r = 1..Len(r)
  BY <1>3, LenProperties
<1>5. Len(r) = 4 /\ r[1] = a /\ r[2] = b /\ r[3] = c /\ r[4] = d
  BY <1>2, <1>3
<1> QED BY <1>1, <1>4, <1>5

LEMMA AxisInvNext == AxisInv /\ [AxisNext]_axisVars => AxisInv'
<1> SUFFICES ASSUME AxisInv, [AxisNext]_axisVars PROVE AxisInv'
  OBVIOUS
<1>1. UNCHANGED <<growth, worth, readings, flows>>
  BY DEF AxisNext, Assesses, axisVars
<1>2. FactorsMakeScore'
  <2>1. CASE UNCHANGED axisVars
    BY <2>1, Zenon DEF AxisInv, FactorsMakeScore, axisVars
  <2>2. ASSUME NEW quick \in BOOLEAN, Assesses(quick) PROVE FactorsMakeScore'
    <3>1. PICK g, v, t, f : /\ g = Axis(GrowthScore(growth), GrowthFactors(growth))
                            /\ v = Axis(ValueScore(PageRow(worth), growth), ValueFactors(PageRow(worth), growth))
                            /\ t = Axis(TrendScore(readings), TrendFactors(AsShown(readings)))
                            /\ f = Axis(FlowScore(flows), FlowFactors(flows))
      OBVIOUS
    <3>2. g.score = Weighted(g.factors) /\ v.score = Weighted(v.factors) /\ f.score = Weighted(f.factors)
      <4>1. GrowthScore(growth) = Weighted(GrowthFactors(growth))
        BY Zenon DEF GrowthScore, GrowthFactors
      <4>2. FlowScore(flows) = Weighted(FlowFactors(flows))
        BY Zenon DEF FlowScore, FlowFactors
      <4>3. ValueScore(PageRow(worth), growth) = Weighted(ValueFactors(PageRow(worth), growth))
        BY Zenon DEF ValueScore, ValueFactors
      <4> QED BY <3>1, <4>1, <4>2, <4>3 DEF Axis
    <3>3. t.score = Weighted(Restored(t.factors, readings))
      <4>1. TrendScore(readings) = Weighted(Restored(TrendFactors(AsShown(readings)), readings))
        BY RestoredMean DEF AxisInv
      <4> QED BY <3>1, <4>1 DEF Axis
    <3>4. assessed'.axes = <<g, v>> \/ assessed'.axes = <<g, v>> \o <<t, f>>
      BY <2>2, <3>1 DEF Assesses
    <3>5. ASSUME NEW a \in DOMAIN assessed'.axes
          PROVE  assessed'.axes[a].score = Weighted(IF a = 3 THEN Restored(assessed'.axes[a].factors, readings) ELSE assessed'.axes[a].factors)
      <4>1. CASE assessed'.axes = <<g, v>>
        <5>1. a = 1 \/ a = 2
          BY <4>1
        <5> QED BY <3>2, <4>1, <5>1
      <4>2. CASE assessed'.axes = <<g, v>> \o <<t, f>>
        <5>1. PICK all : all = <<g, v>> \o <<t, f>>
          OBVIOUS
        <5>2. DOMAIN all = 1..4 /\ all[1] = g /\ all[2] = v /\ all[3] = t /\ all[4] = f
          BY <5>1, JoinedAxes
        <5>3. assessed'.axes = all /\ (a = 1 \/ a = 2 \/ a = 3 \/ a = 4)
          BY <4>2, <5>1, <5>2
        <5> QED BY <3>2, <3>3, <5>2, <5>3
      <4> QED BY <3>4, <4>1, <4>2
    <3> QED BY <1>1, <3>5 DEF FactorsMakeScore
  <2> QED BY <2>1, <2>2 DEF AxisNext
<1> QED BY <1>1, <1>2 DEF AxisInv

LEMMA GrowthIsFair ==
  ASSUME AxisInv, NEW f \in DOMAIN growth \ {"eps"}, Known(growth[f]), NEW x \in GrowthBetter(f, growth[f])
  PROVE  NotLower(GrowthScore([growth EXCEPT ![f] = x]), GrowthScore(growth))
<1> DEFINE h == [growth EXCEPT ![f] = x]
<1>1. growth \in GrowthsThere
  BY DEF AxisInv
<1>2. f \in {"revenue", "op", "opMargin", "net", "netMargin", "ebitda", "ebitdaMargin"}
  BY <1>1 DEF GrowthsThere
<1>3. \A k \in {"revenue", "opMargin", "netMargin", "ebitdaMargin"} : growth[k] \in Levels
  BY <1>1 DEF GrowthsThere
<1>4. \A k \in Statuses : growth[k] \in StatusLevels
  BY <1>1 DEF GrowthsThere, Statuses
<1>5. \A k \in DOMAIN growth : h[k] = IF k = f THEN x ELSE growth[k]
  BY <1>1 DEF GrowthsThere
<1>6. DOMAIN growth = {"revenue", "op", "opMargin", "net", "netMargin", "ebitda", "ebitdaMargin", "eps"}
  BY <1>1 DEF GrowthsThere
<1>7. x \in GrowthMarks(f) /\ IF f \in Statuses THEN Rank(x) >= Rank(growth[f]) ELSE x >= growth[f]
  BY DEF GrowthBetter
<1>8. x # Unknown /\ (f \in Statuses => x \in StatusLevels) /\ (f \notin Statuses => x \in Levels)
  <2>1. CASE f \in Statuses
    <3>1. x \in GrowthLevels.status \ {Unknown}
      <4>1. GrowthMarks(f) = GrowthLevels.status \ {Unknown}
        BY <2>1 DEF GrowthMarks, Statuses
      <4> QED BY <1>7, <4>1
    <3>2. GrowthLevels.status \subseteq StatusLevels
      BY AxisAssumption
    <3> QED BY <2>1, <3>1, <3>2
  <2>2. CASE f \notin Statuses
    <3>1. x \in (GrowthLevels.revenue \union GrowthLevels.margin) \ {Unknown}
      <4>1. GrowthMarks(f) \in {GrowthLevels.revenue \ {Unknown}, GrowthLevels.margin \ {Unknown}}
        BY <2>2 DEF GrowthMarks
      <4> QED BY <1>7, <4>1
    <3> QED BY <2>2, <3>1, AxisAssumption
  <2> QED BY <2>1, <2>2
<1>9. f \in Statuses => StatusRises(growth[f], x)
  BY <1>4, <1>7, <1>8 DEF StatusRises, Known
<1>10. f \notin Statuses => Rises(growth[f], x)
  <2> SUFFICES ASSUME f \notin Statuses PROVE Rises(growth[f], x)
    OBVIOUS
  <2>1. f \in {"revenue", "opMargin", "netMargin", "ebitdaMargin"}
    BY <1>2 DEF Statuses
  <2>2. growth[f] \in Int /\ x \in Int /\ x >= growth[f]
    BY <2>1, <1>3, <1>7, <1>8 DEF Levels, Known
  <2> QED BY <2>2, <1>8 DEF Rises, Levels, Known
<1> HIDE DEF h
<1>11. ASSUME NEW k \in {"revenue", "opMargin", "netMargin", "ebitdaMargin"} PROVE Rises(growth[k], h[k])
  <2>1. k \notin Statuses /\ k \in DOMAIN growth
    BY <1>6 DEF Statuses
  <2>2. CASE k = f
    BY <2>1, <2>2, <1>5, <1>10
  <2>3. CASE k # f
    BY <2>1, <2>3, <1>3, <1>5, SameRises
  <2> QED BY <2>2, <2>3
<1>12. ASSUME NEW k \in Statuses PROVE StatusRises(growth[k], h[k])
  <2>1. k \in DOMAIN growth
    BY <1>6 DEF Statuses
  <2> QED BY <2>1, <1>4, <1>5, <1>9 DEF StatusRises
<1>13. NotLower(GrowthScore(h), GrowthScore(growth))
  BY <1>11, <1>12, GrowthScoreRises DEF GrowthUp
<1> QED BY <1>13 DEF h

LEMMA ValueIsFair ==
  ASSUME AxisInv, NEW f \in Cheaper \union {"roe", "div"}, Known(worth[f]), NEW x \in ValueBetter(f, worth[f])
  PROVE  NotLower(ValueScore([Row(worth) EXCEPT ![f] = x], growth), ValueScore(Row(worth), growth))
<1> DEFINE r == Row(worth)
           s == [Row(worth) EXCEPT ![f] = x]
<1>1. \A k \in Cheaper \union {"roe", "div"} : r[k] = worth[k] /\ s[k] = IF k = f THEN x ELSE worth[k]
  BY DEF Row, Cheaper
<1>2. \A k \in Cheaper \union {"roe", "div"} : worth[k] \in Levels
  BY DEF AxisInv
<1>3. x \in Levels /\ x # Unknown /\ IF f \in Cheaper THEN 0 < x /\ x <= worth[f] ELSE x >= worth[f]
  BY AxisAssumption DEF ValueBetter
<1>4. growth.eps \in Levels /\ growth.netMargin \in Levels
  BY DEF AxisInv, GrowthsThere
<1> HIDE DEF r, s
<1>5. worth[f] \in Int /\ x \in Int
  BY <1>2, <1>3 DEF Levels, Known
<1>6. ASSUME NEW k \in Cheaper PROVE Lowers(r[k], s[k])
  <2>1. CASE k = f
    BY <2>1, <1>1, <1>2, <1>3, <1>5 DEF Lowers, Known
  <2>2. CASE k # f
    BY <2>2, <1>1, <1>2 DEF Lowers
  <2> QED BY <2>1, <2>2
<1>7. ASSUME NEW k \in {"roe", "div"} PROVE Rises(r[k], s[k])
  <2>1. k \notin Cheaper
    BY DEF Cheaper
  <2>2. CASE k = f
    BY <2>1, <2>2, <1>1, <1>2, <1>3, <1>5 DEF Rises, Known
  <2>3. CASE k # f
    BY <2>3, <1>1, <1>2 DEF Rises
  <2> QED BY <2>2, <2>3
<1>8. ValueUp(r, s)
  BY <1>6, <1>7 DEF ValueUp
<1>9. NotLower(ValueScore(s, growth), ValueScore(r, growth))
  BY <1>4, <1>8, ValueScoreRises
<1> QED BY <1>9 DEF r, s

LEMMA TrendIsFair ==
  ASSUME AxisInv, NEW f \in DOMAIN readings \ {"above"}, Known(readings[f]), NEW x \in TrendBetter(f, readings[f])
  PROVE  NotLower(TrendScore([readings EXCEPT ![f] = x]), TrendScore(readings))
<1> DEFINE u == [readings EXCEPT ![f] = x]
<1>1. readings \in ReadingsThere
  BY DEF AxisInv
<1>2. DOMAIN readings = {"near", "aligned", "above", "volume", "quarter", "stage"}
  BY <1>1 DEF ReadingsThere
<1>3. \A k \in DOMAIN readings : u[k] = IF k = f THEN x ELSE readings[k]
  OBVIOUS
<1>4. /\ \A k \in {"near", "volume", "quarter"} : readings[k] \in Levels
      /\ readings.stage \in 1..4 \union {Unknown} /\ readings.above \in BOOLEAN /\ readings.aligned \in BOOLEAN \union {Unknown}
  BY <1>1 DEF ReadingsThere
<1>5. f = "aligned" => x = TRUE
  BY DEF TrendBetter
<1>6. f = "stage" => x = 2
  BY DEF TrendBetter
<1>7. f \in {"near", "volume", "quarter"} => Rises(readings[f], x)
  <2> SUFFICES ASSUME f \in {"near", "volume", "quarter"} PROVE Rises(readings[f], x)
    OBVIOUS
  <2>1. x \in TrendLevels[f] /\ x # Unknown /\ x >= readings[f]
    BY DEF TrendBetter
  <2>2. x \in Int /\ readings[f] \in Int
    BY <2>1, <1>4, AxisAssumption DEF Levels, Known
  <2> QED BY <2>1, <2>2 DEF Rises, Levels, Known
<1> HIDE DEF u
<1>8. ASSUME NEW k \in {"near", "volume", "quarter"} PROVE Rises(readings[k], u[k])
  BY <1>2, <1>3, <1>4, <1>7, SameRises
<1>9. u.aligned = (IF f = "aligned" THEN x ELSE readings.aligned) /\ u.above = readings.above
      /\ u.stage = (IF f = "stage" THEN x ELSE readings.stage)
  BY <1>2, <1>3
<1>10. Rises(OrderOf(readings), OrderOf(u))
  <2>1. OrderOf(readings) \in Levels
    BY <1>1, OrderIs
  <2>2. CASE f = "aligned"
    <3>1. u.aligned = TRUE /\ Known(readings.aligned)
      BY <2>2, <1>5, <1>9
    <3>2. OrderOf(u) = 10 /\ OrderOf(readings) \in {0, 10}
      BY <3>1, <1>4, AxisAssumption DEF OrderOf, Known
    <3> QED BY <3>2, AxisAssumption DEF Rises, Known, Levels
  <2>3. CASE f # "aligned"
    <3>1. OrderOf(u) = OrderOf(readings)
      BY <2>3, <1>9, Zenon DEF OrderOf
    <3> QED BY <2>1, <3>1, SameRises
  <2> QED BY <2>2, <2>3
<1>11. Rises(StageNorm(readings.stage), StageNorm(u.stage))
  <2>1. StageNorm(readings.stage) \in {0, 3, 5, 10, Unknown}
    BY <1>4, StageIs, Zenon
  <2>2. CASE f = "stage"
    <3>1. StageNorm(u.stage) = 10 /\ readings.stage \in 1..4
      BY <2>2, <1>4, <1>6, <1>9, StageIs DEF Known
    <3>2. StageNorm(readings.stage) \in {0, 3, 5, 10}
      BY <3>1, StageIs, Zenon
    <3> QED BY <3>1, <3>2, AxisAssumption DEF Rises, Known, Levels
  <2>3. CASE f # "stage"
    <3>1. u.stage = readings.stage
      BY <2>3, <1>9
    <3>2. StageNorm(readings.stage) \in Levels
      BY <2>1 DEF Levels
    <3> QED BY <3>1, <3>2, SameRises
  <2> QED BY <2>2, <2>3
<1>12. NotLower(TrendScore(u), TrendScore(readings))
  BY <1>8, <1>10, <1>11, TrendScoreRises DEF TrendUp
<1> QED BY <1>12 DEF u

LEMMA FlowIsFair ==
  ASSUME AxisInv, NEW f \in DOMAIN flows, Known(flows[f]), NEW x \in FlowLevels \ {Unknown}, x >= flows[f]
  PROVE  NotLower(FlowScore([flows EXCEPT ![f] = x]), FlowScore(flows))
<1> DEFINE h == [flows EXCEPT ![f] = x]
<1>1. flows \in FlowsThere
  BY DEF AxisInv
<1>2. DOMAIN flows = {"us", "kr", "index", "rs"} /\ \A k \in {"us", "kr", "index", "rs"} : flows[k] \in Levels
  BY <1>1 DEF FlowsThere
<1>3. \A k \in DOMAIN flows : h[k] = IF k = f THEN x ELSE flows[k]
  OBVIOUS
<1>4. x \in Int /\ flows[f] \in Int
  BY <1>2, AxisAssumption DEF Levels, Known
<1> HIDE DEF h
<1>5. Rises(flows[f], x)
  BY <1>4 DEF Rises, Levels, Known
<1>6. FlowUp(flows, h)
  BY <1>2, <1>3, <1>5, SameRises DEF FlowUp
<1>7. NotLower(FlowScore(h), FlowScore(flows))
  BY <1>6, FlowScoreRises
<1> QED BY <1>7 DEF h

LEMMA AxisInvIsFair == AxisInv => ScoresAreFair
<1> SUFFICES ASSUME AxisInv PROVE ScoresAreFair
  OBVIOUS
<1>1. BetterNeverScoresLower
  BY GrowthIsFair, ValueIsFair, TrendIsFair, FlowIsFair DEF BetterNeverScoresLower
<1> QED BY <1>1 DEF AxisInv, ScoresAreFair

\* Whatever the figures are and whichever axes are answered, a score is the
\* weighted mean of the reasons shown beside it, in which only the dash for a
\* reading of zero stands for a zero, and a better figure never lowers a score
\* (analysis_scoring, score_factors, technicals, judgment).
THEOREM ScoresStayFair == AxisSpec => []ScoresAreFair
<1>1. AxisSpec => []AxisInv
  BY AxisInvInit, AxisInvNext, PTL DEF AxisSpec
<1> QED BY <1>1, AxisInvIsFair, PTL

-------------------------------------------------------------------------------
(***************************************************************************)
(* The charts. The zigzag holds, bar by bar, the extreme of the swing that *)
(* goes on and every bar since the last one; the bands that were confirmed *)
(* lie one after the other, what they are cut into goes on without a gap,  *)
(* and joining keeps that.                                                 *)
(***************************************************************************)
\* A row of steps from first: each is made of the one before it.
IsRun(g, T, first, step, lo, n) ==
  g \in [lo..n -> T] /\ \A k \in lo..n : g[k] = IF k = lo THEN first ELSE step[<<g[k - 1], k>>]
StaysWithin(T, step, lo, n) == \A t \in T, k \in lo..n : k # lo => step[<<t, k>>] \in T

LEMMA StepsExist ==
  ASSUME NEW T, NEW first \in T, NEW step, NEW lo \in Int, NEW n \in Int, StaysWithin(T, step, lo, n)
  PROVE  \E g : IsRun(g, T, first, step, lo, n)
<1> DEFINE Runs(g, m) == IsRun(g, T, first, step, lo, m)
           Good == {d \in Nat : \A m \in Int : m = lo + d /\ m <= n => \E g : Runs(g, m)}
<1>1. 0 \in Good
  <2>1. PICK g : g = [k \in lo..lo |-> first]
    OBVIOUS
  <2>2. Runs(g, lo)
    BY <2>1 DEF IsRun
  <2>3. \A m \in Int : m = lo + 0 => m = lo
    OBVIOUS
  <2> HIDE DEF Runs
  <2> QED BY <2>2, <2>3
<1>2. ASSUME NEW d \in Nat, d \in Good PROVE d + 1 \in Good
  <2> SUFFICES ASSUME NEW e \in Int, e = lo + (d + 1), e <= n PROVE \E g : Runs(g, e)
    BY <1>2
  <2>1. PICK m \in Int : m = lo + d
    OBVIOUS
  <2>2. PICK g : Runs(g, m)
    BY <1>2, <2>1
  <2>3. PICK x : x = step[<<g[m], m + 1>>]
    OBVIOUS
  <2>4. x \in T
    BY <2>1, <2>2, <2>3 DEF IsRun, StaysWithin
  <2>5. PICK h : h = [k \in lo..(m + 1) |-> IF k = m + 1 THEN x ELSE g[k]]
    OBVIOUS
  <2>6. h \in [lo..(m + 1) -> T]
    BY <2>2, <2>4, <2>5 DEF IsRun
  <2>7. ASSUME NEW k \in lo..(m + 1) PROVE h[k] = IF k = lo THEN first ELSE step[<<h[k - 1], k>>]
    <3>1. CASE k = m + 1
      <4>1. k # lo /\ k - 1 \in lo..(m + 1) /\ k - 1 = m /\ h[k - 1] = g[m]
        BY <2>1, <2>5, <3>1
      <4> QED BY <2>3, <2>5, <3>1, <4>1
    <3>2. CASE k # m + 1
      <4>1. k \in lo..m /\ h[k] = g[k]
        BY <2>5, <3>2
      <4>2. k # lo => h[k - 1] = g[k - 1]
        BY <2>5, <4>1
      <4> QED BY <2>2, <4>1, <4>2 DEF IsRun
    <3> QED BY <3>1, <3>2
  <2>8. Runs(h, m + 1)
    BY <2>6, <2>7 DEF IsRun
  <2>9. e = m + 1
    BY <2>1
  <2> QED BY <2>8, <2>9
<1>3. Nat \subseteq Good
  <2> HIDE DEF Good
  <2> QED BY <1>1, <1>2, CountsReach
<1>4. CASE n < lo
  <2>1. lo..n = {}
    BY <1>4
  <2>2. PICK g : g = [k \in {} |-> first]
    OBVIOUS
  <2>3. g \in [{} -> T]
    BY <2>2
  <2> QED BY <2>1, <2>3 DEF IsRun
<1>5. CASE lo <= n
  <2>1. PICK d \in Nat : lo + d = n
    <3>1. n - lo \in Nat /\ lo + (n - lo) = n
      BY <1>5
    <3> QED BY <3>1
  <2>2. d \in Good
    BY <1>3
  <2>3. PICK g : Runs(g, n)
    BY <2>1, <2>2
  <2> QED BY <2>3
<1> QED BY <1>4, <1>5

-------------------------------------------------------------------------------
(* Prices.                                                                 *)
Prices == Nat \ {0}
LEMMA ProductsRise ==
  /\ \A x, y \in Nat, s \in Nat : x <= y => x * s <= y * s
  /\ \A x \in Nat, s, t \in Nat : s <= t => x * s <= x * t
  OBVIOUS

\* A price that lost, or gained, what counts.
Lost(x, y, t) == x * 100 <= y * t
Gained(x, y, u) == x * 100 >= y * u

ArePercents(t, u) == t \in 1..99 /\ u \in 101..199 /\ u + t = 200
ArePrices(x, y, z) == x \in Prices /\ y \in Prices /\ z \in Prices

\* t is less than 100, u more; what is said of them is said of 100 - Swing and 100 + Swing.
LEMMA PercentsAre ==
  ASSUME NEW t, NEW u, ArePercents(t, u), NEW x, NEW y, NEW z, ArePrices(x, y, z)
  PROVE  /\ ~Lost(x, x, t) /\ ~Gained(x, x, u)
         /\ Lost(x, y, t) => x < y
         /\ Gained(x, y, u) => x > y
<1> USE DEF ArePercents, ArePrices
<1>1. x * t <= x * 99 /\ y * t <= y * 99 /\ x * 101 <= x * u /\ y * 101 <= y * u
  BY ProductsRise DEF Prices
<1>2. x * t \in Int /\ y * t \in Int /\ x * u \in Int /\ y * u \in Int
  BY DEF Prices
<1> QED BY <1>1, <1>2 DEF Prices, Lost, Gained

LEMMA PercentsMove ==
  ASSUME NEW t, NEW u, ArePercents(t, u), NEW x, NEW y, NEW z, ArePrices(x, y, z)
  PROVE  /\ z <= y /\ ~Lost(x, y, t) => ~Lost(x, z, t)
         /\ z <= x /\ Lost(x, y, t) => Lost(z, y, t)
         /\ z >= x /\ Gained(x, y, u) => Gained(z, y, u)
         /\ z >= y /\ ~Gained(x, y, u) => ~Gained(x, z, u)
<1> USE DEF ArePercents, ArePrices
<1>1. z <= y => z * t <= y * t
  BY ProductsRise DEF Prices
<1>2. z >= y => y * u <= z * u
  BY ProductsRise DEF Prices
<1>3. y * t \in Int /\ z * t \in Int /\ y * u \in Int /\ z * u \in Int
  BY DEF Prices
<1> QED BY <1>1, <1>2, <1>3 DEF Prices, Lost, Gained

\* What did not climb from a low has not fallen on it, nor is it over what fell to it.
LEMMA PercentsCross ==
  ASSUME NEW t \in 1..99, NEW u \in 101..199, u + t = 200, NEW x \in Prices, NEW y \in Prices, NEW l \in Prices,
         ~Gained(x, l, u)
  PROVE  /\ y >= l => ~Lost(y, x, t)
         /\ Lost(l, y, t) => x < y
<1>1. PICK v \in Nat : v = u * t
  OBVIOUS
<1>2. v <= 10000
  <2>1. PICK s \in 1..99 : t = 100 - s /\ u = 100 + s
    <3>1. 100 - t \in 1..99 /\ t = 100 - (100 - t) /\ u = 100 + (100 - t)
      OBVIOUS
    <3> QED BY <3>1
  <2>2. (100 + s) * (100 - s) = 10000 - s * s
    OBVIOUS
  <2>3. s * s >= 0
    OBVIOUS
  <2>4. s * s \in Nat
    OBVIOUS
  <2> QED BY <1>1, <2>1, <2>2, <2>3, <2>4
<1>3. PICK lu \in Nat, lv \in Nat, xt \in Nat, yt \in Nat : lu = l * u /\ lv = l * v /\ xt = x * t /\ yt = y * t
  BY DEF Prices
<1>4. x * 100 < lu /\ lv <= l * 10000
  <2>1. l * v <= l * 10000
    BY <1>2, ProductsRise DEF Prices
  <2> QED BY <1>3, <2>1 DEF Prices, Gained
<1>5. xt * 100 < lv
  <2>1. (x * 100) * t < lu * t
    BY <1>4 DEF Prices
  <2>2. (x * 100) * t = xt * 100
    BY <1>3 DEF Prices
  <2>3. lu * t = l * (u * t)
    BY <1>3 DEF Prices
  <2> QED BY <1>1, <1>3, <2>1, <2>2, <2>3
<1>6. ASSUME y >= l PROVE ~Lost(y, x, t)
  BY <1>3, <1>4, <1>5, <1>6 DEF Prices, Lost
<1>7. ASSUME Lost(l, y, t) PROVE x < y
  <2>1. (x * 100) * 100 < lu * 100
    BY <1>3, <1>4 DEF Prices
  <2>2. (l * 100) * u <= yt * u
    BY <1>3, <1>7 DEF Prices, Lost
  <2>3. (l * 100) * u = lu * 100
    BY <1>3 DEF Prices
  <2>4. yt * u = y * v
    BY <1>1, <1>3 DEF Prices
  <2>5. y * v <= y * 10000
    BY <1>2, ProductsRise DEF Prices
  <2>6. y * v \in Int
    BY DEF Prices
  <2> QED BY <2>1, <2>2, <2>3, <2>4, <2>5, <2>6, <1>3 DEF Prices
<1> QED BY <1>6, <1>7

LEMMA PercentsHold ==
  ASSUME NEW t, NEW u, ArePercents(t, u), NEW x, NEW y, NEW z, ArePrices(x, y, z)
  PROVE  /\ ~Lost(x, x, t) /\ ~Gained(x, x, u)
         /\ Lost(x, y, t) => x < y
         /\ Gained(x, y, u) => x > y
         /\ z <= y /\ ~Lost(x, y, t) => ~Lost(x, z, t)
         /\ z <= x /\ Lost(x, y, t) => Lost(z, y, t)
         /\ z >= x /\ Gained(x, y, u) => Gained(z, y, u)
         /\ z >= y /\ ~Gained(x, y, u) => ~Gained(x, z, u)
         /\ ~Gained(x, y, u) => (z >= y => ~Lost(z, x, t)) /\ (Lost(y, z, t) => x < z)
<1>1. t \in 1..99 /\ u \in 101..199 /\ u + t = 200 /\ x \in Prices /\ y \in Prices /\ z \in Prices
  BY DEF ArePercents, ArePrices
<1>2. /\ ~Lost(x, x, t) /\ ~Gained(x, x, u)
      /\ Lost(x, y, t) => x < y
      /\ Gained(x, y, u) => x > y
  BY PercentsAre, Zenon
<1>3. /\ z <= y /\ ~Lost(x, y, t) => ~Lost(x, z, t)
      /\ z <= x /\ Lost(x, y, t) => Lost(z, y, t)
      /\ z >= x /\ Gained(x, y, u) => Gained(z, y, u)
      /\ z >= y /\ ~Gained(x, y, u) => ~Gained(x, z, u)
  BY PercentsMove, Zenon
<1>4. ~Gained(x, y, u) => (z >= y => ~Lost(z, x, t)) /\ (Lost(y, z, t) => x < z)
  BY <1>1, PercentsCross
<1> QED BY <1>2, <1>3, <1>4

LEMMA PricesMove ==
  ASSUME closes \in Seq(Prices), NEW i \in 1..Len(closes), NEW j \in 1..Len(closes), NEW k \in 1..Len(closes)
  PROVE  /\ ~Drops(i, i) /\ ~Climbs(i, i)
         /\ Drops(i, j) => closes[i] < closes[j]
         /\ Climbs(i, j) => closes[i] > closes[j]
         /\ closes[k] <= closes[j] /\ ~Drops(i, j) => ~Drops(i, k)
         /\ closes[k] <= closes[i] /\ Drops(i, j) => Drops(k, j)
         /\ closes[k] >= closes[i] /\ Climbs(i, j) => Climbs(k, j)
         /\ closes[k] >= closes[j] /\ ~Climbs(i, j) => ~Climbs(i, k)
         /\ ~Climbs(i, j) /\ closes[k] >= closes[j] => ~Drops(k, i)
         /\ ~Climbs(i, j) /\ Drops(j, k) => closes[i] < closes[k]
<1>1. PICK t \in 1..99, u \in 101..199 : t = 100 - Swing /\ u = 100 + Swing
  <2>1. 100 - Swing \in 1..99 /\ 100 + Swing \in 101..199
    BY FrameAssumption
  <2> QED BY <2>1
<1>2. u + t = 200
  BY <1>1, FrameAssumption
<1>3. PICK x \in Prices, y \in Prices, z \in Prices : x = closes[i] /\ y = closes[j] /\ z = closes[k]
  BY ElementOfSeq
<1>4. \A a, b : Drops(a, b) = Lost(closes[a], closes[b], t) /\ Climbs(a, b) = Gained(closes[a], closes[b], u)
  BY <1>1, Zenon DEF Drops, Climbs, Lost, Gained
<1>5. ArePercents(t, u) /\ ArePrices(x, y, z)
  BY <1>2 DEF ArePercents, ArePrices
<1>6. /\ ~Lost(x, x, t) /\ ~Gained(x, x, u)
      /\ Lost(x, y, t) => x < y
      /\ Gained(x, y, u) => x > y
      /\ z <= y /\ ~Lost(x, y, t) => ~Lost(x, z, t)
      /\ z <= x /\ Lost(x, y, t) => Lost(z, y, t)
      /\ z >= x /\ Gained(x, y, u) => Gained(z, y, u)
      /\ z >= y /\ ~Gained(x, y, u) => ~Gained(x, z, u)
      /\ ~Gained(x, y, u) => (z >= y => ~Lost(z, x, t)) /\ (Lost(y, z, t) => x < z)
  BY <1>5, PercentsHold, Zenon
<1> QED BY <1>3, <1>4, <1>6

-------------------------------------------------------------------------------
(* The swings.                                                             *)
Pivots == [kind : {"high", "low"}, at : Nat]
Zigs == [pivots : Seq(Pivots), way : {"none", "up", "down"}, hi : Nat, lo : Nat]

LEMMA TurnIsZig == ASSUME NEW z \in Zigs, NEW k \in Nat PROVE Turn(z, k) \in Zigs
<1>1. PICK hi \in Nat, lo \in Nat : /\ hi = (IF z.way = "down" THEN z.hi ELSE HigherBar(k, z.hi))
                                    /\ lo = (IF z.way = "up" THEN z.lo ELSE LowerBar(k, z.lo))
  BY DEF HigherBar, LowerBar, Zigs
<1>2. /\ [pivots |-> Append(z.pivots, Pivot("high", hi)), way |-> "down", hi |-> hi, lo |-> k] \in Zigs
      /\ [pivots |-> Append(z.pivots, Pivot("low", lo)), way |-> "up", hi |-> k, lo |-> lo] \in Zigs
  <2>1. Pivot("high", hi) \in Pivots /\ Pivot("low", lo) \in Pivots
    BY DEF Pivot, Pivots
  <2>2. z.pivots \in Seq(Pivots)
    BY DEF Zigs
  <2>3. Append(z.pivots, Pivot("high", hi)) \in Seq(Pivots) /\ Append(z.pivots, Pivot("low", lo)) \in Seq(Pivots)
    BY <2>1, <2>2, AppendProperties
  <2> QED BY <2>3 DEF Zigs
<1>3. [z EXCEPT !.hi = hi, !.lo = lo] \in Zigs
  BY DEF Zigs
<1>4. Turn(z, k) = CASE z.way # "down" /\ Drops(k, hi) ->
                          [pivots |-> Append(z.pivots, Pivot("high", hi)), way |-> "down", hi |-> hi, lo |-> k]
                     [] z.way # "up" /\ Climbs(k, lo) /\ ~(z.way = "none" /\ Drops(k, hi)) ->
                          [pivots |-> Append(z.pivots, Pivot("low", lo)), way |-> "up", hi |-> k, lo |-> lo]
                     [] OTHER -> [z EXCEPT !.hi = hi, !.lo = lo]
  BY <1>1, Zenon DEF Turn
<1> QED BY <1>2, <1>3, <1>4

LEMMA TurnsAre ==
  ASSUME closes \in Seq(Prices), closes # << >>
  PROVE  /\ Turns \in [1..Len(closes) -> Zigs] /\ Turns[1] = NoTurn
         /\ \A k \in 2..Len(closes) : Turns[k] = Turn(Turns[k - 1], k)
<1>1. PICK n \in Nat \ {0} : n = Len(closes)
  BY EmptySeq
<1>2. PICK step : step = [x \in Zigs \X (2..n) |-> Turn(x[1], x[2])]
  OBVIOUS
<1>3. \A z \in Zigs, k \in 2..n : step[<<z, k>>] = Turn(z, k)
  BY <1>2
<1>4. StaysWithin(Zigs, step, 1, n)
  <2>1. ASSUME NEW z \in Zigs, NEW k \in 1..n, k # 1 PROVE step[<<z, k>>] \in Zigs
    <3>1. k \in 2..n /\ k \in Nat
      BY <2>1
    <3> QED BY <1>3, <3>1, TurnIsZig
  <2> QED BY <2>1 DEF StaysWithin
<1>5. NoTurn \in Zigs
  <2>1. << >> \in Seq(Pivots)
    OBVIOUS
  <2> QED BY <2>1 DEF NoTurn, Zigs
<1>6. PICK g : IsRun(g, Zigs, NoTurn, step, 1, n)
  <2>1. 1 \in Int /\ n \in Int
    OBVIOUS
  <2> QED BY <2>1, <1>4, <1>5, StepsExist
<1>7. g = [k \in 1..n |-> IF k = 1 THEN NoTurn ELSE Turn(g[k - 1], k)]
  <2>1. ASSUME NEW k \in 1..n PROVE g[k] = IF k = 1 THEN NoTurn ELSE Turn(g[k - 1], k)
    <3>1. k # 1 => k \in 2..n /\ g[k - 1] \in Zigs
      BY <1>6 DEF IsRun
    <3> QED BY <1>3, <1>6, <3>1 DEF IsRun
  <2> QED BY <1>6, <2>1 DEF IsRun
<1>8. Turns = CHOOSE f : f = [k \in 1..n |-> IF k = 1 THEN NoTurn ELSE Turn(f[k - 1], k)]
  BY <1>1 DEF Turns
<1>9. Turns = [k \in 1..n |-> IF k = 1 THEN NoTurn ELSE Turn(Turns[k - 1], k)]
  BY <1>7, <1>8, Zenon
<1>10. \A k \in 1..n : Turns[k] \in Zigs
  <2> DEFINE Good == {d \in Nat : d + 1 <= n => Turns[d + 1] \in Zigs}
  <2>1. 0 \in Good
    BY <1>5, <1>9
  <2>2. ASSUME NEW d \in Nat, d \in Good PROVE d + 1 \in Good
    <3> SUFFICES ASSUME d + 2 <= n PROVE Turns[d + 2] \in Zigs
      OBVIOUS
    <3>1. PICK k \in 1..n : k = d + 2
      OBVIOUS
    <3>2. k # 1 /\ k - 1 = d + 1 /\ Turns[k] = Turn(Turns[k - 1], k)
      BY <1>9, <3>1
    <3>3. Turns[k - 1] \in Zigs
      BY <2>2, <3>1, <3>2
    <3> QED BY <3>1, <3>2, <3>3, TurnIsZig
  <2>3. Nat \subseteq Good
    <3> HIDE DEF Good
    <3> QED BY <2>1, <2>2, CountsReach
  <2>4. ASSUME NEW k \in 1..n PROVE Turns[k] \in Zigs
    <3>1. PICK d \in Nat : k = d + 1
      <4>1. k - 1 \in Nat /\ k = (k - 1) + 1
        OBVIOUS
      <4> QED BY <4>1
    <3>2. d \in Good
      BY <2>3
    <3> QED BY <3>1, <3>2
  <2> QED BY <2>4
<1>11. Turns \in [1..n -> Zigs]
  BY <1>9, <1>10
<1>12. Turns[1] = NoTurn
  <2>1. 1 \in 1..n
    OBVIOUS
  <2> QED BY <1>9, <2>1
<1>13. ASSUME NEW k \in 2..n PROVE Turns[k] = Turn(Turns[k - 1], k)
  <2>1. k \in 1..n /\ k # 1
    OBVIOUS
  <2> QED BY <1>9, <2>1
<1> QED BY <1>1, <1>11, <1>12, <1>13

IsSwing(p, q) ==
  /\ p.at < q.at
  /\ \/ p.kind = "high" /\ q.kind = "low" /\ Fall(p.at, q.at)
     \/ p.kind = "low" /\ q.kind = "high" /\ Rise(p.at, q.at)
Alternates(P) == \A i \in 1..(Len(P) - 1) : IsSwing(P[i], P[i + 1])

LEMMA SwingAdded ==
  ASSUME NEW P \in Seq(Pivots), Alternates(P), NEW v \in Pivots, P # << >> => IsSwing(P[Len(P)], v)
  PROVE  /\ Append(P, v) \in Seq(Pivots) /\ Append(P, v) # << >> /\ Append(P, v)[Len(Append(P, v))] = v
         /\ Alternates(Append(P, v))
<1>1. PICK Q : Q = Append(P, v)
  OBVIOUS
<1>2. /\ Q \in Seq(Pivots) /\ Len(Q) = Len(P) + 1 /\ Q[Len(P) + 1] = v /\ \A i \in 1..Len(P) : Q[i] = P[i]
  BY <1>1, AppendProperties
<1>3. Q # << >>
  BY <1>2, EmptySeq
<1>4. ASSUME NEW i \in 1..(Len(Q) - 1) PROVE IsSwing(Q[i], Q[i + 1])
  <2>1. Len(P) \in Nat /\ i \in 1..Len(P)
    BY <1>2
  <2>2. CASE i = Len(P)
    <3>1. P # << >>
      BY <2>1, EmptySeq
    <3> QED BY <1>2, <2>1, <2>2, <3>1
  <2>3. CASE i # Len(P)
    <3>1. i \in 1..(Len(P) - 1) /\ i + 1 \in 1..Len(P)
      BY <2>1, <2>3
    <3> QED BY <1>2, <2>1, <3>1 DEF Alternates
  <2> QED BY <2>2, <2>3
<1> QED BY <1>1, <1>2, <1>3, <1>4 DEF Alternates

\* What the search for swings knows at bar k.
Undecided(z, k) ==
  /\ z.pivots = << >>
  /\ \A j \in 1..k : closes[j] <= closes[z.hi] /\ closes[z.lo] <= closes[j] /\ \A i \in 1..j : ~Drops(j, i) /\ ~Climbs(j, i)
RisingTo(a, hi, k) ==
  /\ a \in 1..k /\ a < hi /\ Climbs(hi, a)
  /\ \A j \in a..k : closes[j] <= closes[hi] /\ \A i \in a..j : ~Drops(j, i)
FallingTo(a, lo, k) ==
  /\ a \in 1..k /\ a < lo /\ Drops(lo, a)
  /\ \A j \in a..k : closes[lo] <= closes[j] /\ closes[j] <= closes[a]
  /\ \A j \in lo..k : ~Climbs(j, lo)
ZigInv(z, k) ==
  /\ z.hi \in 1..k /\ z.lo \in 1..k /\ Alternates(z.pivots)
  /\ z.way = "none" => Undecided(z, k)
  /\ z.way = "up" => z.pivots # << >> /\ z.pivots[Len(z.pivots)].kind = "low" /\ RisingTo(z.pivots[Len(z.pivots)].at, z.hi, k)
  /\ z.way = "down" => z.pivots # << >> /\ z.pivots[Len(z.pivots)].kind = "high" /\ FallingTo(z.pivots[Len(z.pivots)].at, z.lo, k)

LEMMA RisingIsRise == ASSUME NEW k \in Nat, NEW hi \in 1..k, NEW a, RisingTo(a, hi, k) PROVE Rise(a, hi)
<1>1. a \in 1..k /\ Climbs(hi, a) /\ \A j \in a..k : closes[j] <= closes[hi] /\ \A i \in a..j : ~Drops(j, i)
  BY DEF RisingTo
<1>2. \A j \in a..hi : j \in a..k
  BY <1>1
<1> QED BY <1>1, <1>2, Zenon DEF Rise

LEMMA FallingIsFall == ASSUME NEW k \in Nat, NEW lo \in 1..k, NEW a, FallingTo(a, lo, k) PROVE Fall(a, lo)
<1>1. a \in 1..k /\ Drops(lo, a) /\ \A j \in a..k : closes[lo] <= closes[j] /\ closes[j] <= closes[a]
  BY DEF FallingTo
<1>2. \A j \in a..lo : j \in a..k
  BY <1>1
<1> QED BY <1>1, <1>2, Zenon DEF Fall

\* A fall of what counts from the highest bar: no bar in between was lower.
LEMMA FallBegins ==
  ASSUME closes \in Seq(Prices), NEW m \in Nat, NEW k \in 1..Len(closes), k = m + 1, NEW hi \in 1..m, Drops(k, hi),
         \A j \in hi..m : closes[j] <= closes[hi] /\ ~Drops(j, hi)
  PROVE  FallingTo(hi, k, k)
<1>1. ASSUME NEW j \in hi..k PROVE closes[k] <= closes[j] /\ closes[j] <= closes[hi]
  <2>1. j \in 1..Len(closes) /\ hi \in 1..Len(closes)
    OBVIOUS
  <2>2. closes[j] \in Prices /\ closes[k] \in Prices /\ closes[hi] \in Prices
    BY <2>1, ElementOfSeq
  <2>3. CASE j = k
    <3>1. closes[k] < closes[hi]
      BY <2>1, PricesMove
    <3> QED BY <2>2, <2>3, <3>1 DEF Prices
  <2>4. CASE j # k
    <3>1. j \in hi..m
      BY <2>4
    <3>2. closes[j] <= closes[k] => Drops(j, hi)
      BY <2>1, PricesMove
    <3> QED BY <2>2, <3>1, <3>2 DEF Prices
  <2> QED BY <2>3, <2>4
<1>2. ASSUME NEW j \in k..k PROVE ~Climbs(j, k)
  <2>1. j = k
    OBVIOUS
  <2> QED BY <2>1, PricesMove
<1>3. hi \in 1..k /\ hi < k
  OBVIOUS
<1> QED BY <1>1, <1>2, <1>3 DEF FallingTo

\* A rise of what counts from the lowest bar: no bar in between was higher.
LEMMA RiseBegins ==
  ASSUME closes \in Seq(Prices), NEW m \in Nat, NEW k \in 1..Len(closes), k = m + 1, NEW lo \in 1..m, Climbs(k, lo),
         \A j \in lo..m : ~Climbs(j, lo) /\ \A i \in lo..j : ~Drops(j, i)
  PROVE  RisingTo(lo, k, k)
<1>1. ASSUME NEW j \in lo..k PROVE closes[j] <= closes[k]
  <2>1. j \in 1..Len(closes) /\ lo \in 1..Len(closes)
    OBVIOUS
  <2>2. closes[j] \in Prices /\ closes[k] \in Prices
    BY <2>1, ElementOfSeq
  <2>3. CASE j = k
    BY <2>2, <2>3 DEF Prices
  <2>4. CASE j # k
    <3>1. j \in lo..m
      BY <2>4
    <3>2. closes[j] >= closes[k] => Climbs(j, lo)
      BY <2>1, PricesMove
    <3> QED BY <2>2, <3>1, <3>2 DEF Prices
  <2> QED BY <2>3, <2>4
<1>2. ASSUME NEW j \in lo..k, NEW i \in lo..j PROVE ~Drops(j, i)
  <2>1. CASE j = k
    <3>1. i \in 1..Len(closes) /\ i \in lo..k
      BY <2>1
    <3>2. closes[i] \in Prices /\ closes[k] \in Prices /\ closes[i] <= closes[k]
      BY <1>1, <3>1, ElementOfSeq
    <3>3. Drops(k, i) => closes[k] < closes[i]
      BY <3>1, PricesMove
    <3> QED BY <2>1, <3>2, <3>3 DEF Prices
  <2>2. CASE j # k
    <3>1. j \in lo..m
      BY <2>2
    <3> QED BY <3>1
  <2> QED BY <2>1, <2>2
<1>3. lo \in 1..k /\ lo < k
  OBVIOUS
<1> QED BY <1>1, <1>2, <1>3 DEF RisingTo

LEMMA HigherOrLower ==
  ASSUME closes \in Seq(Prices), NEW k \in 1..Len(closes), NEW h \in 1..Len(closes)
  PROVE  /\ (HigherBar(k, h) = k /\ closes[h] < closes[k]) \/ (HigherBar(k, h) = h /\ closes[k] <= closes[h])
         /\ (LowerBar(k, h) = k /\ closes[k] < closes[h]) \/ (LowerBar(k, h) = h /\ closes[h] <= closes[k])
<1>1. closes[k] \in Prices /\ closes[h] \in Prices
  BY ElementOfSeq
<1> QED BY <1>1 DEF HigherBar, LowerBar, Prices

LEMMA BeyondBoth ==
  ASSUME closes \in Seq(Prices), NEW k \in 1..Len(closes), NEW h \in 1..Len(closes)
  PROVE  /\ closes[k] <= closes[HigherBar(k, h)] /\ closes[h] <= closes[HigherBar(k, h)]
         /\ closes[LowerBar(k, h)] <= closes[k] /\ closes[LowerBar(k, h)] <= closes[h]
<1>1. PICK x \in Nat, y \in Nat : x = closes[k] /\ y = closes[h]
  BY ElementOfSeq DEF Prices
<1>2. CASE x > y
  <2>1. HigherBar(k, h) = k /\ LowerBar(k, h) = h /\ y <= x /\ x <= x /\ y <= y
    BY <1>1, <1>2 DEF HigherBar, LowerBar
  <2> QED BY <1>1, <2>1
<1>3. CASE x < y
  <2>1. HigherBar(k, h) = h /\ LowerBar(k, h) = k /\ x <= y /\ x <= x /\ y <= y
    BY <1>1, <1>3 DEF HigherBar, LowerBar
  <2> QED BY <1>1, <2>1
<1>4. CASE x = y
  <2>1. HigherBar(k, h) = h /\ LowerBar(k, h) = h /\ x <= y /\ y <= x /\ x <= x /\ y <= y
    BY <1>1, <1>4 DEF HigherBar, LowerBar
  <2> QED BY <1>1, <2>1
<1> QED BY <1>2, <1>3, <1>4

\* What is expected of a step from z to w at bar k.
Zigzags(z, hi, lo, k) ==
  CASE z.way # "down" /\ Drops(k, hi) -> [pivots |-> Append(z.pivots, Pivot("high", hi)), way |-> "down", hi |-> hi, lo |-> k]
    [] z.way # "up" /\ Climbs(k, lo) /\ ~(z.way = "none" /\ Drops(k, hi)) ->
         [pivots |-> Append(z.pivots, Pivot("low", lo)), way |-> "up", hi |-> k, lo |-> lo]
    [] OTHER -> [z EXCEPT !.hi = hi, !.lo = lo]

LEMMA TurnsDown ==
  ASSUME NEW z \in Zigs, NEW k \in Nat, NEW hi \in 1..k, Alternates(z.pivots), FallingTo(hi, k, k),
         z.pivots # << >> => z.pivots[Len(z.pivots)].kind = "low" /\ RisingTo(z.pivots[Len(z.pivots)].at, hi, k - 1)
  PROVE  ZigInv([pivots |-> Append(z.pivots, Pivot("high", hi)), way |-> "down", hi |-> hi, lo |-> k], k)
<1>1. PICK v : v = Pivot("high", hi)
  OBVIOUS
<1>2. v \in Pivots /\ v.kind = "high" /\ v.at = hi
  BY <1>1 DEF Pivot, Pivots
<1>3. z.pivots \in Seq(Pivots)
  BY DEF Zigs
<1>4. hi < k
  BY DEF FallingTo
<1>5. z.pivots # << >> => IsSwing(z.pivots[Len(z.pivots)], v)
  <2> SUFFICES ASSUME z.pivots # << >> PROVE IsSwing(z.pivots[Len(z.pivots)], v)
    OBVIOUS
  <2>1. PICK p : p = z.pivots[Len(z.pivots)]
    OBVIOUS
  <2>2. p.kind = "low" /\ RisingTo(p.at, hi, k - 1)
    BY <2>1
  <2>3. k - 1 \in Nat /\ hi \in 1..(k - 1)
    BY <1>4
  <2>4. Rise(p.at, hi)
    BY <2>2, <2>3, RisingIsRise
  <2>5. p.at < hi
    BY <2>2 DEF RisingTo
  <2> QED BY <1>2, <2>1, <2>2, <2>4, <2>5 DEF IsSwing
<1>6. PICK P : P = Append(z.pivots, v)
  OBVIOUS
<1>7. P # << >> /\ P[Len(P)] = v /\ Alternates(P)
  BY <1>2, <1>3, <1>5, <1>6, SwingAdded
<1>8. PICK w : w = [pivots |-> P, way |-> "down", hi |-> hi, lo |-> k]
  OBVIOUS
<1>9. w.pivots = P /\ w.way = "down" /\ w.hi = hi /\ w.lo = k /\ k \in 1..k
  BY <1>8
<1>10. ZigInv(w, k)
  BY <1>2, <1>7, <1>9 DEF ZigInv
<1> QED BY <1>1, <1>6, <1>8, <1>10

LEMMA TurnsUp ==
  ASSUME NEW z \in Zigs, NEW k \in Nat, NEW lo \in 1..k, Alternates(z.pivots), RisingTo(lo, k, k),
         z.pivots # << >> => z.pivots[Len(z.pivots)].kind = "high" /\ FallingTo(z.pivots[Len(z.pivots)].at, lo, k - 1)
  PROVE  ZigInv([pivots |-> Append(z.pivots, Pivot("low", lo)), way |-> "up", hi |-> k, lo |-> lo], k)
<1>1. PICK v : v = Pivot("low", lo)
  OBVIOUS
<1>2. v \in Pivots /\ v.kind = "low" /\ v.at = lo
  BY <1>1 DEF Pivot, Pivots
<1>3. z.pivots \in Seq(Pivots)
  BY DEF Zigs
<1>4. lo < k
  BY DEF RisingTo
<1>5. z.pivots # << >> => IsSwing(z.pivots[Len(z.pivots)], v)
  <2> SUFFICES ASSUME z.pivots # << >> PROVE IsSwing(z.pivots[Len(z.pivots)], v)
    OBVIOUS
  <2>1. PICK p : p = z.pivots[Len(z.pivots)]
    OBVIOUS
  <2>2. p.kind = "high" /\ FallingTo(p.at, lo, k - 1)
    BY <2>1
  <2>3. k - 1 \in Nat /\ lo \in 1..(k - 1)
    BY <1>4
  <2>4. Fall(p.at, lo)
    BY <2>2, <2>3, FallingIsFall
  <2>5. p.at < lo
    BY <2>2 DEF FallingTo
  <2> QED BY <1>2, <2>1, <2>2, <2>4, <2>5 DEF IsSwing
<1>6. PICK P : P = Append(z.pivots, v)
  OBVIOUS
<1>7. P # << >> /\ P[Len(P)] = v /\ Alternates(P)
  BY <1>2, <1>3, <1>5, <1>6, SwingAdded
<1>8. PICK w : w = [pivots |-> P, way |-> "up", hi |-> k, lo |-> lo]
  OBVIOUS
<1>9. w.pivots = P /\ w.way = "up" /\ w.hi = k /\ w.lo = lo /\ k \in 1..k
  BY <1>8
<1>10. ZigInv(w, k)
  BY <1>2, <1>7, <1>9 DEF ZigInv
<1> QED BY <1>1, <1>6, <1>8, <1>10

LEMMA PricesInOrder ==
  ASSUME NEW x \in Prices, NEW y \in Prices, NEW w \in Prices, x <= y, y <= w
  PROVE  x <= w
BY DEF Prices

\* Neither extreme was left by what counts: both go on to bar k.
LEMMA StaysUndecided ==
  ASSUME closes \in Seq(Prices), NEW m \in Nat \ {0}, NEW k \in 1..Len(closes), k = m + 1,
         NEW z \in Zigs, z.way = "none", ZigInv(z, m), NEW hi, hi = HigherBar(k, z.hi), NEW lo, lo = LowerBar(k, z.lo)
  PROVE  /\ hi \in 1..k /\ lo \in 1..k
         /\ \A j \in 1..k : closes[j] <= closes[hi] /\ closes[lo] <= closes[j]
         /\ ~Drops(k, hi) /\ ~Climbs(k, lo) => \A j \in 1..k : \A i \in 1..j : ~Drops(j, i) /\ ~Climbs(j, i)
         /\ Drops(k, hi) => hi = z.hi
         /\ Climbs(k, lo) => lo = z.lo
<1>1. z.hi \in 1..m /\ z.lo \in 1..m /\ Undecided(z, m)
  BY DEF ZigInv
<1>2. \A j \in 1..m : closes[j] <= closes[z.hi] /\ closes[z.lo] <= closes[j] /\ \A i \in 1..j : ~Drops(j, i) /\ ~Climbs(j, i)
  BY <1>1 DEF Undecided
<1>3. z.hi \in 1..Len(closes) /\ z.lo \in 1..Len(closes) /\ m \in 1..k
  BY <1>1
<1>4. /\ (hi = k /\ closes[z.hi] < closes[k]) \/ (hi = z.hi /\ closes[k] <= closes[z.hi])
      /\ (lo = k /\ closes[k] < closes[z.lo]) \/ (lo = z.lo /\ closes[z.lo] <= closes[k])
  BY <1>3, HigherOrLower
<1>5. hi \in 1..k /\ lo \in 1..k
  BY <1>1, <1>4
<1>6. \A j \in 1..k : closes[j] \in Prices
  BY ElementOfSeq
<1>10. closes[k] <= closes[hi] /\ closes[z.hi] <= closes[hi] /\ closes[lo] <= closes[k] /\ closes[lo] <= closes[z.lo]
  BY <1>3, BeyondBoth
<1>7. ASSUME NEW j \in 1..k PROVE closes[j] <= closes[hi] /\ closes[lo] <= closes[j]
  <2>1. closes[j] \in Prices /\ closes[hi] \in Prices /\ closes[lo] \in Prices /\ closes[z.hi] \in Prices /\ closes[z.lo] \in Prices
    BY <1>1, <1>3, <1>5, <1>6
  <2>2. CASE j = k
    BY <1>10, <2>2
  <2>3. CASE j # k
    <3>1. j \in 1..m
      BY <2>3
    <3>2. closes[j] <= closes[z.hi] /\ closes[z.lo] <= closes[j]
      BY <1>2, <3>1
    <3>3. closes[j] <= closes[hi]
      BY <1>10, <2>1, <3>2, PricesInOrder
    <3>4. closes[lo] <= closes[j]
      BY <1>10, <2>1, <3>2, PricesInOrder
    <3> QED BY <3>3, <3>4
  <2> QED BY <2>2, <2>3
<1>8. ASSUME ~Drops(k, hi), ~Climbs(k, lo), NEW j \in 1..k, NEW i \in 1..j PROVE ~Drops(j, i) /\ ~Climbs(j, i)
  <2>1. CASE j = k
    <3>1. i \in 1..k /\ i \in 1..Len(closes) /\ hi \in 1..Len(closes) /\ lo \in 1..Len(closes)
      BY <1>5
    <3>2. closes[i] <= closes[hi] /\ closes[lo] <= closes[i]
      BY <1>7, <3>1
    <3>3. closes[i] <= closes[hi] /\ ~Drops(k, hi) => ~Drops(k, i)
      BY <3>1, PricesMove
    <3>4. closes[i] >= closes[lo] /\ ~Climbs(k, lo) => ~Climbs(k, i)
      BY <3>1, PricesMove
    <3>5. closes[i] \in Prices /\ closes[lo] \in Prices
      BY <1>5, <1>6, <3>1
    <3> QED BY <1>8, <2>1, <3>2, <3>3, <3>4, <3>5 DEF Prices
  <2>2. CASE j # k
    <3>1. j \in 1..m
      BY <2>2
    <3> QED BY <1>2, <3>1
  <2> QED BY <2>1, <2>2
<1>9. ~Drops(k, k) /\ ~Climbs(k, k)
  BY PricesMove
<1> QED BY <1>4, <1>5, <1>7, <1>8, <1>9

LEMMA StepUndecided ==
  ASSUME closes \in Seq(Prices), NEW m \in Nat \ {0}, NEW k \in 1..Len(closes), k = m + 1,
         NEW z \in Zigs, z.way = "none", ZigInv(z, m)
  PROVE  ZigInv(Turn(z, k), k)
<1>1. PICK hi, lo : hi = HigherBar(k, z.hi) /\ lo = LowerBar(k, z.lo)
  OBVIOUS
<1>2. /\ hi \in 1..k /\ lo \in 1..k
      /\ \A j \in 1..k : closes[j] <= closes[hi] /\ closes[lo] <= closes[j]
      /\ ~Drops(k, hi) /\ ~Climbs(k, lo) => \A j \in 1..k : \A i \in 1..j : ~Drops(j, i) /\ ~Climbs(j, i)
      /\ Drops(k, hi) => hi = z.hi
      /\ Climbs(k, lo) => lo = z.lo
  BY <1>1, StaysUndecided
<1>3. z.hi \in 1..m /\ z.lo \in 1..m /\ Alternates(z.pivots) /\ Undecided(z, m)
  BY DEF ZigInv
<1>4. z.pivots = << >>
  BY <1>3 DEF Undecided
<1>5. \A j \in 1..m : closes[j] <= closes[z.hi] /\ closes[z.lo] <= closes[j] /\ \A i \in 1..j : ~Drops(j, i) /\ ~Climbs(j, i)
  BY <1>3 DEF Undecided
<1>6. Turn(z, k) = Zigzags(z, hi, lo, k)
  BY <1>1, Zenon DEF Turn, Zigzags
<1>7. CASE Drops(k, hi)
  <2>1. hi = z.hi /\ \A j \in hi..m : closes[j] <= closes[hi] /\ ~Drops(j, hi)
    BY <1>2, <1>3, <1>5, <1>7
  <2>2. FallingTo(hi, k, k)
    BY <1>3, <1>7, <2>1, FallBegins
  <2>3. Turn(z, k) = [pivots |-> Append(z.pivots, Pivot("high", hi)), way |-> "down", hi |-> hi, lo |-> k]
    BY <1>6, <1>7 DEF Zigzags
  <2>4. k \in Nat /\ hi \in 1..k /\ Alternates(z.pivots)
    BY <1>2, <1>3
  <2>5. ZigInv([pivots |-> Append(z.pivots, Pivot("high", hi)), way |-> "down", hi |-> hi, lo |-> k], k)
    BY <1>4, <2>2, <2>4, TurnsDown
  <2> QED BY <2>3, <2>5
<1>8. CASE ~Drops(k, hi) /\ Climbs(k, lo)
  <2>1. lo = z.lo /\ \A j \in lo..m : ~Climbs(j, lo) /\ \A i \in lo..j : ~Drops(j, i)
    BY <1>2, <1>3, <1>5, <1>8
  <2>2. RisingTo(lo, k, k)
    BY <1>3, <1>8, <2>1, RiseBegins
  <2>3. Turn(z, k) = [pivots |-> Append(z.pivots, Pivot("low", lo)), way |-> "up", hi |-> k, lo |-> lo]
    BY <1>6, <1>8 DEF Zigzags
  <2>4. k \in Nat /\ lo \in 1..k /\ Alternates(z.pivots)
    BY <1>2, <1>3
  <2>5. ZigInv([pivots |-> Append(z.pivots, Pivot("low", lo)), way |-> "up", hi |-> k, lo |-> lo], k)
    BY <1>4, <2>2, <2>4, TurnsUp
  <2> QED BY <2>3, <2>5
<1>9. CASE ~Drops(k, hi) /\ ~Climbs(k, lo)
  <2>1. PICK w : w = [z EXCEPT !.hi = hi, !.lo = lo]
    OBVIOUS
  <2>2. w.hi = hi /\ w.lo = lo /\ w.way = "none" /\ w.pivots = << >>
    BY <1>4, <2>1 DEF Zigs
  <2>3. Turn(z, k) = w
    BY <1>6, <1>9, <2>1 DEF Zigzags
  <2>4. Undecided(w, k)
    BY <1>2, <1>9, <2>2 DEF Undecided
  <2>5. ZigInv(w, k)
    BY <1>2, <1>3, <1>4, <2>2, <2>4 DEF ZigInv
  <2> QED BY <2>3, <2>5
<1> QED BY <1>7, <1>8, <1>9

LEMMA StepRising ==
  ASSUME closes \in Seq(Prices), NEW m \in Nat \ {0}, NEW k \in 1..Len(closes), k = m + 1,
         NEW z \in Zigs, z.way = "up", ZigInv(z, m)
  PROVE  ZigInv(Turn(z, k), k)
<1>1. PICK hi, a : hi = HigherBar(k, z.hi) /\ a = z.pivots[Len(z.pivots)].at
  OBVIOUS
<1>2. /\ z.hi \in 1..m /\ z.lo \in 1..m /\ Alternates(z.pivots) /\ z.pivots # << >>
      /\ z.pivots[Len(z.pivots)].kind = "low" /\ RisingTo(a, z.hi, m)
  BY <1>1 DEF ZigInv
<1>3. a \in 1..m /\ a < z.hi /\ Climbs(z.hi, a) /\ \A j \in a..m : closes[j] <= closes[z.hi] /\ \A i \in a..j : ~Drops(j, i)
  BY <1>2 DEF RisingTo
<1>4. z.hi \in 1..Len(closes) /\ a \in 1..Len(closes)
  BY <1>2, <1>3
<1>5. (hi = k /\ closes[z.hi] < closes[k]) \/ (hi = z.hi /\ closes[k] <= closes[z.hi])
  BY <1>1, <1>4, HigherOrLower
<1>6. Turn(z, k) = Zigzags(z, hi, z.lo, k)
  BY <1>1, Zenon DEF Turn, Zigzags
<1>7. CASE Drops(k, hi)
  <2>1. ~Drops(k, k)
    BY PricesMove
  <2>2. hi = z.hi
    BY <1>5, <1>7, <2>1
  <2>3. \A j \in hi..m : closes[j] <= closes[hi] /\ ~Drops(j, hi)
    <3>1. \A j \in hi..m : j \in a..m /\ hi \in a..j
      BY <1>2, <1>3, <2>2
    <3> QED BY <1>3, <2>2, <3>1
  <2>4. FallingTo(hi, k, k)
    BY <1>2, <1>7, <2>2, <2>3, FallBegins
  <2>5. Turn(z, k) = [pivots |-> Append(z.pivots, Pivot("high", hi)), way |-> "down", hi |-> hi, lo |-> k]
    BY <1>6, <1>7 DEF Zigzags
  <2>6. k - 1 = m /\ k \in Nat /\ hi \in 1..k
    BY <1>2, <2>2
  <2>7. RisingTo(z.pivots[Len(z.pivots)].at, hi, k - 1)
    BY <1>1, <1>2, <2>2, <2>6
  <2>8. ZigInv([pivots |-> Append(z.pivots, Pivot("high", hi)), way |-> "down", hi |-> hi, lo |-> k], k)
    BY <1>2, <2>4, <2>6, <2>7, TurnsDown
  <2> QED BY <2>5, <2>8
<1>8. CASE ~Drops(k, hi)
  <2>1. PICK w : w = [z EXCEPT !.hi = hi, !.lo = z.lo]
    OBVIOUS
  <2>2. w.hi = hi /\ w.lo = z.lo /\ w.way = "up" /\ w.pivots = z.pivots
    BY <2>1 DEF Zigs
  <2>3. Turn(z, k) = w
    BY <1>6, <1>8, <2>1 DEF Zigzags
  <2>4. hi \in 1..k /\ a \in 1..k /\ a < hi /\ hi \in 1..Len(closes)
    BY <1>2, <1>3, <1>5
  <2>5. closes[k] \in Prices /\ closes[hi] \in Prices /\ closes[z.hi] \in Prices
    BY <1>4, <2>4, ElementOfSeq
  <2>6. Climbs(hi, a)
    <3>1. closes[k] >= closes[z.hi] /\ Climbs(z.hi, a) => Climbs(k, a)
      BY <1>4, PricesMove
    <3> QED BY <1>3, <1>5, <2>5, <3>1 DEF Prices
  <2>7. ASSUME NEW j \in a..k PROVE closes[j] <= closes[hi]
    <3>1. closes[z.hi] <= closes[hi] /\ closes[k] <= closes[hi]
      BY <1>1, <1>4, BeyondBoth
    <3>2. closes[j] \in Prices
      BY <2>4, ElementOfSeq
    <3>3. CASE j = k
      BY <3>1, <3>3
    <3>4. CASE j # k
      <4>1. j \in a..m
        BY <3>4, <2>4
      <4>2. closes[j] <= closes[z.hi]
        BY <1>3, <4>1
      <4> QED BY <2>5, <3>1, <3>2, <4>2, PricesInOrder
    <3> QED BY <3>3, <3>4
  <2>8. ASSUME NEW j \in a..k, NEW i \in a..j PROVE ~Drops(j, i)
    <3>1. CASE j = k
      <4>1. i \in a..k /\ i \in 1..Len(closes)
        BY <2>4
      <4>2. closes[i] <= closes[hi] /\ ~Drops(k, hi) => ~Drops(k, i)
        BY <2>4, <4>1, PricesMove
      <4> QED BY <1>8, <2>7, <3>1, <4>1, <4>2
    <3>2. CASE j # k
      <4>1. j \in a..m
        BY <3>2, <2>4
      <4> QED BY <1>3, <4>1
    <3> QED BY <3>1, <3>2
  <2>9. RisingTo(a, hi, k)
    BY <2>4, <2>6, <2>7, <2>8 DEF RisingTo
  <2>10. z.lo \in 1..k
    BY <1>2
  <2>11. ZigInv(w, k)
    BY <1>1, <1>2, <2>2, <2>4, <2>9, <2>10 DEF ZigInv
  <2> QED BY <2>3, <2>11
<1> QED BY <1>7, <1>8

LEMMA StepFalling ==
  ASSUME closes \in Seq(Prices), NEW m \in Nat \ {0}, NEW k \in 1..Len(closes), k = m + 1,
         NEW z \in Zigs, z.way = "down", ZigInv(z, m)
  PROVE  ZigInv(Turn(z, k), k)
<1>1. PICK lo, a : lo = LowerBar(k, z.lo) /\ a = z.pivots[Len(z.pivots)].at
  OBVIOUS
<1>2. /\ z.hi \in 1..m /\ z.lo \in 1..m /\ Alternates(z.pivots) /\ z.pivots # << >>
      /\ z.pivots[Len(z.pivots)].kind = "high" /\ FallingTo(a, z.lo, m)
  BY <1>1 DEF ZigInv
<1>3. /\ a \in 1..m /\ a < z.lo /\ Drops(z.lo, a)
      /\ \A j \in a..m : closes[z.lo] <= closes[j] /\ closes[j] <= closes[a]
      /\ \A j \in z.lo..m : ~Climbs(j, z.lo)
  BY <1>2 DEF FallingTo
<1>4. z.lo \in 1..Len(closes) /\ a \in 1..Len(closes)
  BY <1>2, <1>3
<1>5. (lo = k /\ closes[k] < closes[z.lo]) \/ (lo = z.lo /\ closes[z.lo] <= closes[k])
  BY <1>1, <1>4, HigherOrLower
<1>6. Turn(z, k) = Zigzags(z, z.hi, lo, k)
  BY <1>1, Zenon DEF Turn, Zigzags
<1>7. closes[k] \in Prices /\ closes[a] \in Prices /\ closes[z.lo] \in Prices
  BY <1>4, ElementOfSeq
<1>8. CASE Climbs(k, lo)
  <2>1. ~Climbs(k, k)
    BY PricesMove
  <2>2. lo = z.lo
    BY <1>5, <1>8, <2>1
  <2>3. ASSUME NEW j \in lo..m PROVE ~Climbs(j, lo) /\ \A i \in lo..j : ~Drops(j, i)
    <3>1. ~Climbs(j, lo)
      BY <1>3, <2>2
    <3>2. ASSUME NEW i \in lo..j PROVE ~Drops(j, i)
      <4>1. i \in lo..m /\ j \in a..m /\ i \in 1..Len(closes) /\ j \in 1..Len(closes) /\ lo \in 1..Len(closes)
        BY <1>2, <1>3, <2>2
      <4>2. ~Climbs(i, lo) /\ closes[lo] <= closes[j]
        BY <1>3, <2>2, <4>1
      <4>3. ~Climbs(i, lo) /\ closes[j] >= closes[lo] => ~Drops(j, i)
        BY <4>1, PricesMove
      <4>4. closes[j] \in Prices /\ closes[lo] \in Prices
        BY <4>1, ElementOfSeq
      <4> QED BY <4>2, <4>3, <4>4 DEF Prices
    <3> QED BY <3>1, <3>2
  <2>4. RisingTo(lo, k, k)
    BY <1>2, <1>8, <2>2, <2>3, RiseBegins
  <2>5. Turn(z, k) = [pivots |-> Append(z.pivots, Pivot("low", lo)), way |-> "up", hi |-> k, lo |-> lo]
    BY <1>6, <1>8 DEF Zigzags
  <2>6. k - 1 = m /\ k \in Nat /\ lo \in 1..k
    BY <1>2, <2>2
  <2>7. FallingTo(z.pivots[Len(z.pivots)].at, lo, k - 1)
    BY <1>1, <1>2, <2>2, <2>6
  <2>8. ZigInv([pivots |-> Append(z.pivots, Pivot("low", lo)), way |-> "up", hi |-> k, lo |-> lo], k)
    BY <1>2, <2>4, <2>6, <2>7, TurnsUp
  <2> QED BY <2>5, <2>8
<1>9. CASE ~Climbs(k, lo)
  <2>1. PICK w : w = [z EXCEPT !.hi = z.hi, !.lo = lo]
    OBVIOUS
  <2>2. w.hi = z.hi /\ w.lo = lo /\ w.way = "down" /\ w.pivots = z.pivots
    BY <2>1 DEF Zigs
  <2>3. Turn(z, k) = w
    BY <1>6, <1>9, <2>1 DEF Zigzags
  <2>4. lo \in 1..k /\ a \in 1..k /\ a < lo /\ lo \in 1..Len(closes) /\ closes[lo] \in Prices
    BY <1>2, <1>3, <1>5, <1>7
  <2>5. closes[lo] <= closes[z.lo] /\ closes[lo] <= closes[k]
    BY <1>1, <1>4, BeyondBoth
  <2>6. Drops(lo, a)
    <3>1. closes[lo] <= closes[z.lo] /\ Drops(z.lo, a) => Drops(lo, a)
      BY <1>4, <2>4, PricesMove
    <3> QED BY <1>3, <2>5, <3>1
  <2>7. closes[k] < closes[a]
    BY <1>4, <1>9, <2>4, <2>6, PricesMove
  <2>8. ASSUME NEW j \in a..k PROVE closes[lo] <= closes[j] /\ closes[j] <= closes[a]
    <3>1. closes[j] \in Prices
      BY <2>4, ElementOfSeq
    <3>2. CASE j = k
      BY <1>7, <2>5, <2>7, <3>2 DEF Prices
    <3>3. CASE j # k
      <4>1. j \in a..m
        BY <3>3, <2>4
      <4>2. closes[z.lo] <= closes[j] /\ closes[j] <= closes[a]
        BY <1>3, <4>1
      <4>3. closes[lo] <= closes[j]
        BY <1>7, <2>4, <2>5, <3>1, <4>2, PricesInOrder
      <4> QED BY <4>2, <4>3
    <3> QED BY <3>2, <3>3
  <2>9. ASSUME NEW j \in lo..k PROVE ~Climbs(j, lo)
    <3>1. CASE j = k
      BY <1>9, <3>1
    <3>2. CASE j # k
      <4>1. lo = z.lo /\ j \in z.lo..m
        BY <1>5, <2>4, <3>2
      <4> QED BY <1>3, <4>1
    <3> QED BY <3>1, <3>2
  <2>10. FallingTo(a, lo, k)
    BY <2>4, <2>6, <2>8, <2>9 DEF FallingTo
  <2>11. z.hi \in 1..k
    BY <1>2
  <2>12. ZigInv(w, k)
    BY <1>1, <1>2, <2>2, <2>4, <2>10, <2>11 DEF ZigInv
  <2> QED BY <2>3, <2>12
<1> QED BY <1>8, <1>9

LEMMA SwingsHold ==
  ASSUME closes \in Seq(Prices)
  PROVE  SwingsAlternate
<1>1. PICK n \in Nat : n = Len(closes)
  OBVIOUS
<1>2. CASE n < 2
  <2>1. ZigZag = << >>
    BY <1>1, <1>2 DEF ZigZag
  <2> QED BY <2>1 DEF SwingsAlternate
<1>3. CASE n >= 2
  <2>1. closes # << >>
    BY <1>1, <1>3, EmptySeq
  <2>2. /\ Turns \in [1..n -> Zigs] /\ Turns[1] = NoTurn
        /\ \A k \in 2..n : Turns[k] = Turn(Turns[k - 1], k)
    BY <1>1, <2>1, TurnsAre
  <2>3. ZigInv(NoTurn, 1)
    <3>1. ~Drops(1, 1) /\ ~Climbs(1, 1) /\ closes[1] \in Prices
      <4>1. 1 \in 1..Len(closes)
        BY <1>1, <1>3
      <4> QED BY <4>1, PricesMove, ElementOfSeq
    <3>2. \A j \in 1..1 : j = 1
      OBVIOUS
    <3>3. \A j \in 1..1 : closes[j] <= closes[1] /\ closes[1] <= closes[j] /\ \A i \in 1..j : ~Drops(j, i) /\ ~Climbs(j, i)
      BY <3>1, <3>2 DEF Prices
    <3>4. Undecided(NoTurn, 1)
      BY <3>3 DEF Undecided, NoTurn
    <3> QED BY <3>4 DEF ZigInv, NoTurn, Alternates
  <2> DEFINE Good == {d \in Nat : \A k \in 1..n : k = d + 1 => ZigInv(Turns[k], k)}
  <2>4. 0 \in Good
    BY <2>2, <2>3
  <2>5. ASSUME NEW d \in Nat, d \in Good PROVE d + 1 \in Good
    <3> SUFFICES ASSUME NEW k \in 1..n, k = d + 2 PROVE ZigInv(Turns[k], k)
      OBVIOUS
    <3>1. PICK m \in Nat \ {0} : m = d + 1
      OBVIOUS
    <3>2. m \in 1..n /\ k = m + 1 /\ k - 1 = m /\ k \in 2..n
      BY <3>1
    <3>3. ZigInv(Turns[m], m)
      BY <2>5, <3>1, <3>2
    <3>4. Turns[k] = Turn(Turns[m], k) /\ Turns[m] \in Zigs
      BY <2>2, <3>2
    <3>5. PICK z \in Zigs : z = Turns[m]
      BY <3>4
    <3>6. z.way \in {"none", "up", "down"}
      BY DEF Zigs
    <3>7. k \in 1..Len(closes)
      BY <1>1
    <3> HIDE DEF Good
    <3>8. ZigInv(Turn(z, k), k)
      BY <3>2, <3>3, <3>5, <3>6, <3>7, StepUndecided, StepRising, StepFalling
    <3> QED BY <3>4, <3>5, <3>8
  <2>6. Nat \subseteq Good
    <3> HIDE DEF Good
    <3> QED BY <2>4, <2>5, CountsReach
  <2>7. PICK z \in Zigs : z = Turns[n]
    BY <1>3, <2>2
  <2>8. ZigInv(z, n)
    <3>1. n - 1 \in Nat /\ n \in 1..n /\ n = (n - 1) + 1
      BY <1>3
    <3> QED BY <2>6, <2>7, <3>1
  <2> HIDE DEF Good
  <2>9. z.pivots \in Seq(Pivots) /\ z.way \in {"none", "up", "down"} /\ z.hi \in 1..n /\ z.lo \in 1..n /\ Alternates(z.pivots)
    BY <2>8 DEF Zigs, ZigInv
  <2>10. ZigZag = CASE z.way = "up" -> Append(z.pivots, Pivot("high", z.hi))
                    [] z.way = "down" -> Append(z.pivots, Pivot("low", z.lo))
                    [] OTHER -> z.pivots
    <3>1. ~(Len(closes) < 2)
      BY <1>1, <1>3
    <3> QED BY <1>1, <2>7, <3>1, Zenon DEF ZigZag
  <2>11. Alternates(ZigZag)
    <3>1. CASE z.way = "none"
      BY <2>9, <2>10, <3>1
    <3>2. CASE z.way = "up"
      <4>1. PICK p, v : p = z.pivots[Len(z.pivots)] /\ v = Pivot("high", z.hi)
        OBVIOUS
      <4>2. v \in Pivots /\ v.kind = "high" /\ v.at = z.hi
        BY <2>9, <4>1 DEF Pivot, Pivots
      <4>3. p.kind = "low" /\ RisingTo(p.at, z.hi, n)
        BY <2>8, <3>2, <4>1 DEF ZigInv
      <4>4. Rise(p.at, z.hi) /\ p.at < z.hi
        BY <2>9, <4>3, RisingIsRise DEF RisingTo
      <4>5. IsSwing(p, v)
        BY <4>2, <4>3, <4>4 DEF IsSwing
      <4>6. Alternates(Append(z.pivots, v))
        BY <2>9, <4>1, <4>2, <4>5, SwingAdded
      <4>7. ZigZag = Append(z.pivots, v)
        BY <2>10, <3>2, <4>1
      <4> QED BY <4>6, <4>7
    <3>3. CASE z.way = "down"
      <4>1. PICK p, v : p = z.pivots[Len(z.pivots)] /\ v = Pivot("low", z.lo)
        OBVIOUS
      <4>2. v \in Pivots /\ v.kind = "low" /\ v.at = z.lo
        BY <2>9, <4>1 DEF Pivot, Pivots
      <4>3. p.kind = "high" /\ FallingTo(p.at, z.lo, n)
        BY <2>8, <3>3, <4>1 DEF ZigInv
      <4>4. Fall(p.at, z.lo) /\ p.at < z.lo
        BY <2>9, <4>3, FallingIsFall DEF FallingTo
      <4>5. IsSwing(p, v)
        BY <4>2, <4>3, <4>4 DEF IsSwing
      <4>6. Alternates(Append(z.pivots, v))
        BY <2>9, <4>1, <4>2, <4>5, SwingAdded
      <4>7. ZigZag = Append(z.pivots, v)
        BY <2>10, <3>3, <4>1
      <4> QED BY <4>6, <4>7
    <3> QED BY <2>9, <3>1, <3>2, <3>3
  <2> QED BY <2>11, Zenon DEF SwingsAlternate, Alternates, IsSwing
<1> QED BY <1>1, <1>2, <1>3

-------------------------------------------------------------------------------
(* Rows of bands.                                                          *)
Bands == [stage : 0..4, from : Nat, to : Nat]

\* What holds of lo and goes on from each number to the next holds up to n.
LEMMA IntervalReached ==
  ASSUME NEW lo \in Int, NEW n \in Int, NEW Good, lo \in Good, \A k, m \in lo..n : m = k + 1 /\ k \in Good => m \in Good
  PROVE  lo..n \subseteq Good
<1> DEFINE Reached == {d \in Nat : \A m \in lo..n : m = lo + d => m \in Good}
<1>1. 0 \in Reached
  OBVIOUS
<1>2. ASSUME NEW d \in Nat, d \in Reached PROVE d + 1 \in Reached
  <2> SUFFICES ASSUME NEW m \in lo..n, m = lo + (d + 1) PROVE m \in Good
    OBVIOUS
  <2>1. PICK k \in lo..n : k = lo + d
    <3>1. lo + d \in lo..n
      OBVIOUS
    <3> QED BY <3>1
  <2>2. k \in Good /\ m = k + 1
    BY <1>2, <2>1
  <2> QED BY <2>2
<1>3. Nat \subseteq Reached
  <2> HIDE DEF Reached
  <2> QED BY <1>1, <1>2, CountsReach
<1> SUFFICES ASSUME NEW m \in lo..n PROVE m \in Good
  OBVIOUS
<1>4. PICK d \in Nat : m = lo + d
  <2>1. m - lo \in Nat /\ m = lo + (m - lo)
    OBVIOUS
  <2> QED BY <2>1
<1> QED BY <1>3, <1>4

\* Bands that go on one after the other and leave out no bar from lo to hi; they
\* may lie over each other, and one may be empty, but none ends before the chart.
EndInChart(P) == \A i \in 1..Len(P) : Period <= P[i].to
Spans(P, lo, hi) ==
  /\ P \in Seq(Bands) /\ P # << >> /\ EndInChart(P)
  /\ \A i \in 1..Len(P) : lo <= P[i].from /\ P[i].from <= hi /\ lo <= P[i].to + 1 /\ P[i].to <= hi
  /\ \A k \in lo..hi : \E i \in 1..Len(P) : P[i].from <= k /\ k <= P[i].to
  /\ \A i, j \in 1..Len(P) : i <= j => P[i].from <= P[j].from /\ P[i].to <= P[j].to

LEMMA SpansAre ==
  ASSUME NEW lo, NEW hi, NEW S \in Seq(Bands), NEW n, n = Len(S), S # << >>, EndInChart(S),
         \A i \in 1..n : lo <= S[i].from /\ S[i].from <= hi /\ lo <= S[i].to + 1 /\ S[i].to <= hi,
         \A k \in lo..hi : \E i \in 1..n : S[i].from <= k /\ k <= S[i].to,
         \A i, j \in 1..n : i <= j => S[i].from <= S[j].from /\ S[i].to <= S[j].to
  PROVE  Spans(S, lo, hi)
BY DEF Spans

LEMMA SpansJoin ==
  ASSUME NEW lo \in Nat, NEW m \in Nat, NEW n \in Nat, NEW hi \in Nat, n = m + 1, lo <= m, n <= hi,
         NEW P, Spans(P, lo, m), NEW Q, Spans(Q, n, hi)
  PROVE  Spans(P \o Q, lo, hi)
<1>1. P \in Seq(Bands) /\ P # << >> /\ Q \in Seq(Bands) /\ Q # << >>
  BY DEF Spans
<1>2. PICK a \in Nat \ {0}, c \in Nat \ {0}, S \in Seq(Bands) : a = Len(P) /\ c = Len(Q) /\ S = P \o Q
  BY <1>1, EmptySeq, ConcatProperties
<1>3. /\ Len(S) = a + c
      /\ \A i \in 1..a : S[i] = P[i]
      /\ \A i \in 1..c, j \in 1..(a + c) : j = a + i => S[j] = Q[i]
  <2>1. Len(S) = a + c /\ \A i \in 1..(a + c) : S[i] = IF i <= a THEN P[i] ELSE Q[i - a]
    BY <1>1, <1>2, ConcatProperties
  <2>2. ASSUME NEW i \in 1..a PROVE S[i] = P[i]
    BY <2>1
  <2>3. ASSUME NEW i \in 1..c, NEW j \in 1..(a + c), j = a + i PROVE S[j] = Q[i]
    <3>1. ~(j <= a) /\ j - a = i
      BY <2>3
    <3> QED BY <2>1, <3>1
  <2> QED BY <2>1, <2>2, <2>3
<1>4. ASSUME NEW j \in 1..(a + c) PROVE j \in 1..a \/ \E i \in 1..c : j = a + i
  <2>1. CASE j <= a
    BY <2>1
  <2>2. CASE ~(j <= a)
    <3>1. j - a \in 1..c /\ j = a + (j - a)
      BY <2>2
    <3> QED BY <3>1
  <2> QED BY <2>1, <2>2
<1>5. \A i \in 1..a : /\ P[i] \in Bands
                      /\ lo <= P[i].from /\ P[i].from <= m /\ lo <= P[i].to + 1 /\ P[i].to <= m
  BY <1>1, <1>2, ElementOfSeq DEF Spans
<1>6. \A i \in 1..c : /\ Q[i] \in Bands
                      /\ n <= Q[i].from /\ Q[i].from <= hi /\ n <= Q[i].to + 1 /\ Q[i].to <= hi
  BY <1>1, <1>2, ElementOfSeq DEF Spans
<1>7. S # << >>
  BY <1>3, EmptySeq
<1>8. ASSUME NEW j \in 1..(a + c) PROVE lo <= S[j].from /\ S[j].from <= hi /\ lo <= S[j].to + 1 /\ S[j].to <= hi
  <2>1. CASE j \in 1..a
    <3>1. S[j] = P[j] /\ P[j].from \in Nat /\ P[j].to \in Nat
      BY <1>3, <1>5, <2>1 DEF Bands
    <3> QED BY <1>5, <2>1, <3>1
  <2>2. ASSUME NEW i \in 1..c, j = a + i PROVE lo <= S[j].from /\ S[j].from <= hi /\ lo <= S[j].to + 1 /\ S[j].to <= hi
    <3>1. S[j] = Q[i] /\ Q[i].from \in Nat /\ Q[i].to \in Nat
      BY <1>3, <1>6, <2>2 DEF Bands
    <3> QED BY <1>6, <2>2, <3>1
  <2> QED BY <1>4, <2>1, <2>2
<1>9. ASSUME NEW k \in lo..hi PROVE \E j \in 1..(a + c) : S[j].from <= k /\ k <= S[j].to
  <2>1. CASE k <= m
    <3>1. k \in lo..m
      BY <2>1
    <3>2. PICK i \in 1..a : P[i].from <= k /\ k <= P[i].to
      BY <1>2, <3>1 DEF Spans
    <3>3. i \in 1..(a + c) /\ S[i] = P[i]
      BY <1>3
    <3> QED BY <3>2, <3>3
  <2>2. CASE ~(k <= m)
    <3>1. k \in n..hi
      BY <2>2
    <3>2. PICK i \in 1..c : Q[i].from <= k /\ k <= Q[i].to
      BY <1>2, <3>1 DEF Spans
    <3>3. PICK j \in 1..(a + c) : j = a + i
      OBVIOUS
    <3>4. S[j] = Q[i]
      BY <1>3, <3>3
    <3> QED BY <3>2, <3>4
  <2> QED BY <2>1, <2>2
<1>10. ASSUME NEW j \in 1..(a + c), NEW l \in 1..(a + c), j <= l PROVE S[j].from <= S[l].from /\ S[j].to <= S[l].to
  <2>1. CASE j \in 1..a /\ l \in 1..a
    <3>1. S[j] = P[j] /\ S[l] = P[l]
      BY <1>3, <2>1
    <3> QED BY <1>2, <1>10, <2>1, <3>1 DEF Spans
  <2>2. ASSUME j \in 1..a, NEW i \in 1..c, l = a + i PROVE S[j].from <= S[l].from /\ S[j].to <= S[l].to
    <3>1. S[j] = P[j] /\ S[l] = Q[i]
      BY <1>3, <2>2
    <3>2. P[j].from <= m /\ P[j].to <= m /\ m + 1 <= Q[i].from /\ m + 1 <= Q[i].to + 1
      BY <1>5, <1>6, <2>2
    <3>3. P[j].from \in Nat /\ P[j].to \in Nat /\ Q[i].from \in Nat /\ Q[i].to \in Nat
      BY <1>5, <1>6, <2>2 DEF Bands
    <3>4. PICK v \in Nat, w \in Nat, x \in Nat, y \in Nat : v = P[j].from /\ w = P[j].to /\ x = Q[i].from /\ y = Q[i].to
      BY <3>3
    <3>5. v <= m /\ w <= m /\ m + 1 <= x /\ m + 1 <= y + 1
      BY <3>2, <3>4, Zenon
    <3>6. v <= x /\ w <= y
      BY <3>5
    <3> QED BY <3>1, <3>4, <3>6
  <2>3. ASSUME NEW h \in 1..c, j = a + h, NEW i \in 1..c, l = a + i PROVE S[j].from <= S[l].from /\ S[j].to <= S[l].to
    <3>1. S[j] = Q[h] /\ S[l] = Q[i]
      BY <1>3, <2>3
    <3>2. h <= i
      BY <1>10, <2>3
    <3>3. \A v, w \in 1..c : v <= w => Q[v].from <= Q[w].from /\ Q[v].to <= Q[w].to
      BY <1>2 DEF Spans
    <3> QED BY <3>1, <3>2, <3>3
  <2>4. ~(j \in 1..a) => ~(l \in 1..a)
    BY <1>10
  <2> QED BY <1>4, <2>1, <2>2, <2>3, <2>4
<1>11. EndInChart(S)
  <2>1. EndInChart(P) /\ EndInChart(Q)
    BY DEF Spans
  <2>2. (\A i \in 1..a : Period <= P[i].to) /\ \A i \in 1..c : Period <= Q[i].to
    BY <1>2, <2>1 DEF EndInChart
  <2>3. \A j \in 1..(a + c) : Period <= S[j].to
    BY <1>3, <1>4, <2>2
  <2> QED BY <1>3, <2>3 DEF EndInChart
<1>12. Spans(S, lo, hi)
  BY <1>3, <1>7, <1>8, <1>9, <1>10, <1>11, SpansAre
<1> QED BY <1>2, <1>12

\* Bands without a gap, none before it begins.
Tiles(P, lo, hi) ==
  /\ P \in Seq(Bands) /\ P # << >>
  /\ P[1].from = lo /\ P[Len(P)].to = hi
  /\ \A i \in 1..Len(P) : lo <= P[i].from /\ P[i].from <= P[i].to
  /\ \A i, j \in 1..Len(P) : j = i + 1 => P[j].from = P[i].to + 1

\* A row of rows, each of which spans its tile, spans what the tiles do.
LEMMA FlattenSpans ==
  ASSUME NEW lo \in Nat, NEW hi \in Nat, NEW P, Tiles(P, lo, hi), NEW F,
         Len(F) = Len(P), \A i \in 1..Len(P) : Spans(F[i], P[i].from, P[i].to)
  PROVE  Spans(FlattenSeq(F), lo, hi)
<1>1. PICK n \in Nat \ {0} : n = Len(P) /\ n = Len(F)
  BY EmptySeq DEF Tiles
<1>2. \A i \in 1..n : F[i] \in Seq(Bands) /\ P[i] \in Bands /\ P[i].from \in Nat /\ P[i].to \in Nat /\ lo <= P[i].from /\ P[i].from <= P[i].to
  <2> SUFFICES ASSUME NEW i \in 1..n
               PROVE  F[i] \in Seq(Bands) /\ P[i] \in Bands /\ P[i].from \in Nat /\ P[i].to \in Nat /\ lo <= P[i].from /\ P[i].from <= P[i].to
    OBVIOUS
  <2>1. Spans(F[i], P[i].from, P[i].to)
    BY <1>1
  <2>2. F[i] \in Seq(Bands)
    BY <2>1 DEF Spans
  <2>3. P \in Seq(Bands) /\ lo <= P[i].from /\ P[i].from <= P[i].to
    BY <1>1 DEF Tiles
  <2>4. P[i] \in Bands
    BY <1>1, <2>3, ElementOfSeq
  <2> QED BY <2>2, <2>3, <2>4 DEF Bands
<1>3. PICK step : step = [x \in Seq(Bands) \X (2..n) |-> x[1] \o F[x[2]]]
  OBVIOUS
<1>4. ASSUME NEW s \in Seq(Bands), NEW k \in 2..n PROVE step[<<s, k>>] = s \o F[k] /\ s \o F[k] \in Seq(Bands)
  <2>1. k \in 1..n
    OBVIOUS
  <2> QED BY <1>2, <1>3, <2>1, ConcatProperties
<1>5. StaysWithin(Seq(Bands), step, 1, n)
  <2>1. ASSUME NEW s \in Seq(Bands), NEW k \in 1..n, k # 1 PROVE step[<<s, k>>] \in Seq(Bands)
    <3>1. k \in 2..n
      BY <2>1
    <3> QED BY <1>4, <3>1
  <2> QED BY <2>1 DEF StaysWithin
<1>6. PICK first \in Seq(Bands) : first = F[1]
  BY <1>2
<1>7. PICK g : IsRun(g, Seq(Bands), first, step, 1, n)
  <2>1. 1 \in Int /\ n \in Int
    OBVIOUS
  <2> QED BY <1>5, <2>1, StepsExist
<1>8. g = [k \in 1..n |-> IF k = 1 THEN F[k] ELSE g[k - 1] \o F[k]]
  <2>1. ASSUME NEW k \in 1..n PROVE g[k] = IF k = 1 THEN F[k] ELSE g[k - 1] \o F[k]
    <3>1. k # 1 => k \in 2..n /\ g[k - 1] \in Seq(Bands)
      BY <1>7 DEF IsRun
    <3> QED BY <1>4, <1>6, <1>7, <3>1 DEF IsRun
  <2> QED BY <1>7, <2>1 DEF IsRun
<1>9. PICK f : f = CHOOSE h : h = [k \in 1..n |-> IF k = 1 THEN F[k] ELSE h[k - 1] \o F[k]]
  OBVIOUS
<1>10. f = [k \in 1..n |-> IF k = 1 THEN F[k] ELSE f[k - 1] \o F[k]]
  BY <1>8, <1>9, Zenon
<1>11. FlattenSeq(F) = f[n]
  BY <1>1, <1>9, Zenon DEF FlattenSeq
<1> DEFINE Good == {k \in 1..n : Spans(f[k], lo, P[k].to)}
<1>12. 1 \in Good
  BY <1>1, <1>10 DEF Tiles
<1>13. ASSUME NEW k \in 1..n, NEW l \in 1..n, l = k + 1, k \in Good PROVE l \in Good
  <2>1. f[l] = f[k] \o F[l]
    <3>1. l # 1 /\ l - 1 = k
      BY <1>13
    <3> QED BY <1>10, <3>1
  <2>2. P[l].from = P[k].to + 1
    BY <1>1, <1>13 DEF Tiles
  <2>3. PICK m \in Nat, q \in Nat, h \in Nat, x \in Nat : m = P[k].to /\ q = P[l].from /\ h = P[l].to /\ x = P[k].from
    BY <1>2
  <2>4. lo <= x /\ x <= m /\ q <= h
    BY <1>2, <2>3
  <2>7. q = m + 1 /\ lo <= m
    BY <2>2, <2>3, <2>4
  <2>5. Spans(f[k], lo, m) /\ Spans(F[l], q, h)
    BY <1>1, <1>13, <2>3
  <2>6. Spans(f[k] \o F[l], lo, h)
    BY <2>4, <2>5, <2>7, SpansJoin
  <2> QED BY <2>1, <2>3, <2>6
<1>14. 1..n \subseteq Good
  <2> HIDE DEF Good
  <2>1. \A k, l \in 1..n : l = k + 1 /\ k \in Good => l \in Good
    BY <1>13
  <2>2. 1 \in Int /\ n \in Int
    OBVIOUS
  <2> QED BY <1>12, <2>1, <2>2, IntervalReached
<1>15. n \in Good /\ P[n].to = hi
  BY <1>1, <1>14 DEF Tiles
<1> QED BY <1>11, <1>15

-------------------------------------------------------------------------------
(* Bands of one stage are joined.                                          *)
Painted(s, k) == \E i \in 1..Len(s) : s[i].from <= k /\ k <= s[i].to
Follows(s, b) == s # << >> => s[Len(s)].from <= b.from /\ s[Len(s)].to <= b.to

\* Bands of which one may end where another does.
Extend(K) == \A b, c \in K : [b EXCEPT !.to = c.to] \in K

LEMMA JoinedIsRow == ASSUME NEW K, Extend(K), NEW s \in Seq(K), NEW b \in K PROVE Joined(s, b) \in Seq(K)
<1>1. CASE s # << >> /\ Last(s).stage = b.stage
  <2>1. PICK n \in Nat \ {0} : n = Len(s)
    BY <1>1, EmptySeq
  <2>2. s[n] \in K /\ n \in 1..Len(s)
    BY <2>1, ElementOfSeq
  <2>3. PICK e \in K : e = [s[n] EXCEPT !.to = b.to]
    BY <2>2 DEF Extend
  <2>4. Joined(s, b) = [s EXCEPT ![n] = e]
    BY <1>1, <2>1, <2>3, Zenon DEF Joined
  <2> QED BY <2>2, <2>4, ExceptSeq
<1>2. CASE ~(s # << >> /\ Last(s).stage = b.stage)
  <2>1. Joined(s, b) = Append(s, b)
    BY <1>2 DEF Joined
  <2> QED BY <2>1, AppendProperties
<1> QED BY <1>1, <1>2

LEMMA JoinedPaints ==
  ASSUME NEW s \in Seq(Bands), NEW b \in Bands, Follows(s, b), NEW r, r = Joined(s, b)
  PROVE  /\ r # << >> /\ r[Len(r)].to = b.to /\ r[Len(r)].from <= b.from
         /\ \A k \in Nat : Painted(s, k) \/ (b.from <= k /\ k <= b.to) => Painted(r, k)
<1>1. CASE s # << >> /\ Last(s).stage = b.stage
  <2>1. PICK n \in Nat \ {0} : n = Len(s)
    BY <1>1, EmptySeq
  <2>2. s[n] \in Bands /\ n \in 1..Len(s) /\ s[n].from <= b.from /\ s[n].to <= b.to
    BY <1>1, <2>1, ElementOfSeq DEF Follows
  <2>3. PICK e \in Bands : e = [s[n] EXCEPT !.to = b.to] /\ e.to = b.to /\ e.from = s[n].from
    <3>1. PICK c \in Bands : c = s[n]
      BY <2>2
    <3>2. PICK e : e = [c EXCEPT !.to = b.to]
      OBVIOUS
    <3>3. e \in Bands /\ e.to = b.to /\ e.from = c.from
      BY <3>2 DEF Bands
    <3> QED BY <3>1, <3>2, <3>3
  <2>4. r = [s EXCEPT ![n] = e]
    BY <1>1, <2>1, <2>3, Zenon DEF Joined
  <2>5. r \in Seq(Bands) /\ Len(r) = n /\ \A j \in 1..n : r[j] = IF j = n THEN e ELSE s[j]
    BY <2>1, <2>2, <2>4, ExceptSeq
  <2>6. r[n] = e /\ n \in 1..n
    BY <2>1, <2>5
  <2>7. r # << >>
    BY <2>1, <2>5, EmptySeq
  <2>8. PICK x \in Nat, y \in Nat, v \in Nat, w \in Nat : x = s[n].from /\ y = s[n].to /\ v = b.from /\ w = b.to
    BY <2>2 DEF Bands
  <2>9. x <= v /\ y <= w
    BY <2>2, <2>8
  <2>10. ASSUME NEW k \in Nat, v <= k, k <= w PROVE Painted(r, k)
    <3>1. x <= k
      BY <2>8, <2>9, <2>10
    <3> QED BY <2>3, <2>5, <2>6, <2>8, <2>10, <3>1 DEF Painted
  <2>11. ASSUME NEW k \in Nat, Painted(s, k) PROVE Painted(r, k)
    <3>1. PICK i \in 1..n : s[i].from <= k /\ k <= s[i].to
      BY <2>1, <2>11 DEF Painted
    <3>2. CASE i = n
      <4>1. x <= k /\ k <= y
        BY <2>8, <3>1, <3>2
      <4>2. k <= w
        BY <2>9, <4>1
      <4> QED BY <2>3, <2>5, <2>6, <2>8, <4>1, <4>2 DEF Painted
    <3>3. CASE i # n
      BY <2>5, <3>1, <3>3 DEF Painted
    <3> QED BY <3>2, <3>3
  <2> QED BY <2>2, <2>3, <2>5, <2>6, <2>7, <2>8, <2>10, <2>11
<1>2. CASE ~(s # << >> /\ Last(s).stage = b.stage)
  <2>1. r = Append(s, b)
    BY <1>2 DEF Joined
  <2>2. PICK n \in Nat, m \in Nat \ {0} : n = Len(s) /\ m = n + 1
    OBVIOUS
  <2>3. Len(r) = m /\ r # << >> /\ r[m] = b /\ \A i \in 1..n : r[i] = s[i]
    BY <2>1, <2>2, AppendProperties
  <2>4. m \in 1..m /\ \A i \in 1..n : i \in 1..m
    BY <2>2
  <2>5. ASSUME NEW k \in Nat, b.from <= k, k <= b.to PROVE Painted(r, k)
    BY <2>3, <2>4, <2>5 DEF Painted
  <2>6. ASSUME NEW k \in Nat, Painted(s, k) PROVE Painted(r, k)
    BY <2>2, <2>3, <2>4, <2>6 DEF Painted
  <2>7. b.from <= b.from
    BY DEF Bands
  <2> QED BY <2>3, <2>5, <2>6, <2>7
<1> QED BY <1>1, <1>2

\* What the bands are like stays so: each step of the joining has a row of them.
IsMerging(f, P, n, K) ==
  /\ f = [i \in 0..n |-> IF i = 0 THEN << >> ELSE Joined(f[i - 1], P[i])]
  /\ \A i \in 0..n : f[i] \in Seq(K)
  /\ MergedBands(P) = f[n]

LEMMA MergedAre ==
  ASSUME NEW K, Extend(K), NEW n \in Nat \ {0}, NEW P, n = Len(P), \A i \in 1..n : P[i] \in K
  PROVE  \E f : IsMerging(f, P, n, K)
<1>1. PICK step : step = [x \in Seq(K) \X (1..n) |-> Joined(x[1], P[x[2]])]
  OBVIOUS
<1>2. ASSUME NEW s \in Seq(K), NEW k \in 1..n PROVE step[<<s, k>>] = Joined(s, P[k]) /\ Joined(s, P[k]) \in Seq(K)
  BY <1>1, JoinedIsRow
<1>3. StaysWithin(Seq(K), step, 0, n)
  <2>1. ASSUME NEW s \in Seq(K), NEW k \in 0..n, k # 0 PROVE step[<<s, k>>] \in Seq(K)
    <3>1. k \in 1..n
      BY <2>1
    <3> QED BY <1>2, <3>1
  <2> QED BY <2>1 DEF StaysWithin
<1>4. PICK none \in Seq(K) : none = << >>
  BY EmptySeq
<1>5. PICK g : IsRun(g, Seq(K), none, step, 0, n)
  <2>1. 0 \in Int /\ n \in Int
    OBVIOUS
  <2> QED BY <1>3, <2>1, StepsExist
<1>6. g = [i \in 0..n |-> IF i = 0 THEN << >> ELSE Joined(g[i - 1], P[i])]
  <2>1. ASSUME NEW k \in 0..n PROVE g[k] = IF k = 0 THEN << >> ELSE Joined(g[k - 1], P[k])
    <3>1. k # 0 => k \in 1..n /\ k - 1 \in 0..n
      OBVIOUS
    <3>2. g \in [0..n -> Seq(K)]
      BY <1>5 DEF IsRun
    <3>3. k # 0 => k \in 1..n /\ g[k - 1] \in Seq(K)
      BY <3>1, <3>2
    <3> QED BY <1>2, <1>4, <1>5, <3>3 DEF IsRun
  <2> QED BY <1>5, <2>1 DEF IsRun
<1>7. PICK f : f = CHOOSE h : h = [i \in 0..n |-> IF i = 0 THEN << >> ELSE Joined(h[i - 1], P[i])]
  OBVIOUS
<1>8. f = [i \in 0..n |-> IF i = 0 THEN << >> ELSE Joined(f[i - 1], P[i])]
  BY <1>6, <1>7, Zenon
<1>9. MergedBands(P) = f[n]
  BY <1>7, Zenon DEF MergedBands
<1> DEFINE Good == {i \in 0..n : f[i] \in Seq(K)}
<1>10. 0 \in Good
  BY <1>4, <1>8
<1>11. ASSUME NEW i \in 0..n, NEW l \in 0..n, l = i + 1, i \in Good PROVE l \in Good
  <2>1. l # 0 /\ l - 1 = i /\ l \in 1..n
    BY <1>11
  <2>2. f[l] = Joined(f[i], P[l]) /\ f[i] \in Seq(K)
    BY <1>8, <1>11, <2>1
  <2> QED BY <1>2, <2>1, <2>2
<1>12. 0..n \subseteq Good
  <2> HIDE DEF Good
  <2>1. \A i, l \in 0..n : l = i + 1 /\ i \in Good => l \in Good
    BY <1>11
  <2>2. 0 \in Int /\ n \in Int
    OBVIOUS
  <2> QED BY <1>10, <2>1, <2>2, IntervalReached
<1>13. \A i \in 0..n : f[i] \in Seq(K)
  BY <1>12
<1> QED BY <1>8, <1>9, <1>13, Zenon DEF IsMerging

LEMMA BandsExtend == Extend(Bands)
BY DEF Extend, Bands

\* Bands of the chart's bars stay so.
OfChart(hi) == {b \in Bands : b.from \in Period..hi /\ b.to \in Period..hi}

LEMMA MergedStay ==
  ASSUME NEW hi \in Nat, NEW P, Spans(P, Period, hi)
  PROVE  MergedBands(P) \in Seq(OfChart(hi))
<1>1. P \in Seq(Bands) /\ P # << >> /\ EndInChart(P)
  BY DEF Spans
<1>2. PICK n \in Nat \ {0} : n = Len(P)
  BY <1>1, EmptySeq
<1>3. ASSUME NEW i \in 1..n PROVE P[i] \in OfChart(hi)
  <2>1. PICK b \in Bands : b = P[i]
    BY <1>1, <1>2, ElementOfSeq
  <2>2. Period <= b.from /\ b.from <= hi /\ b.to <= hi
    BY <1>2, <2>1 DEF Spans
  <2>3. Period <= b.to
    BY <1>1, <1>2, <2>1 DEF EndInChart
  <2>4. b.from \in Nat /\ b.to \in Nat /\ Period \in Nat
    BY FrameAssumption DEF Bands
  <2>5. b.from \in Period..hi /\ b.to \in Period..hi
    BY <2>2, <2>3, <2>4
  <2> QED BY <2>1, <2>5 DEF OfChart
<1>4. Extend(OfChart(hi))
  BY DEF Extend, OfChart, Bands
<1>5. PICK K : K = OfChart(hi)
  OBVIOUS
<1>6. PICK f : IsMerging(f, P, n, K)
  BY <1>2, <1>3, <1>4, <1>5, MergedAre
<1>7. n \in 0..n
  OBVIOUS
<1> QED BY <1>5, <1>6, <1>7, Zenon DEF IsMerging

LEMMA MergedPaints ==
  ASSUME NEW lo \in Nat, NEW hi \in Nat, NEW P, Spans(P, lo, hi)
  PROVE  \A k \in lo..hi : Painted(MergedBands(P), k)
<1>1. P \in Seq(Bands) /\ P # << >>
  BY DEF Spans
<1>2. PICK n \in Nat \ {0} : n = Len(P)
  BY <1>1, EmptySeq
<1>3. \A i \in 1..n : P[i] \in Bands
  BY <1>1, <1>2, ElementOfSeq
<1>4. \A i, j \in 1..n : i <= j => P[i].from <= P[j].from /\ P[i].to <= P[j].to
  BY <1>2 DEF Spans
<1>5. PICK f : IsMerging(f, P, n, Bands)
  BY <1>2, <1>3, BandsExtend, MergedAre
<1>6. f = [i \in 0..n |-> IF i = 0 THEN << >> ELSE Joined(f[i - 1], P[i])]
  BY <1>5, Zenon DEF IsMerging
<1>7. MergedBands(P) = f[n]
  BY <1>5, Zenon DEF IsMerging
<1>8. \A i \in 0..n : f[i] \in Seq(Bands)
  BY <1>5, Zenon DEF IsMerging
<1> DEFINE Reaches(s, i) == /\ s # << >> /\ s[Len(s)].to = P[i].to /\ s[Len(s)].from <= P[i].from
                            /\ \A j \in 1..i : \A k \in Nat : P[j].from <= k /\ k <= P[j].to => Painted(s, k)
           Good == {i \in 1..n : f[i] \in Seq(Bands) /\ Reaches(f[i], i)}
<1>9. 1 \in Good
  <2>1. 1 \in 1..n /\ 1 \in 0..n /\ 0 \in 0..n /\ 1 # 0 /\ 1 - 1 = 0
    OBVIOUS
  <2>2. f[1] = Joined(<< >>, P[1])
    BY <1>6, <2>1
  <2>3. Follows(<< >>, P[1]) /\ << >> \in Seq(Bands) /\ P[1] \in Bands
    BY <1>3, <2>1 DEF Follows
  <2>4. f[1] \in Seq(Bands)
    BY <1>8, <2>1
  <2>5. /\ f[1] # << >> /\ f[1][Len(f[1])].to = P[1].to /\ f[1][Len(f[1])].from <= P[1].from
        /\ \A k \in Nat : P[1].from <= k /\ k <= P[1].to => Painted(f[1], k)
    <3>1. PICK t \in Seq(Bands), p \in Bands, r \in {f[1]} : t = << >> /\ p = P[1] /\ r = f[1]
      BY <2>3
    <3>2. Follows(t, p) /\ r = Joined(t, p)
      BY <2>2, <2>3, <3>1
    <3>3. /\ r # << >> /\ r[Len(r)].to = p.to /\ r[Len(r)].from <= p.from
          /\ \A k \in Nat : Painted(t, k) \/ (p.from <= k /\ k <= p.to) => Painted(r, k)
      BY <3>2, JoinedPaints
    <3> QED BY <3>1, <3>3
  <2>6. \A j \in 1..1 : j = 1
    OBVIOUS
  <2>7. Reaches(f[1], 1)
    BY <2>5, <2>6
  <2> HIDE DEF Reaches
  <2> QED BY <2>1, <2>4, <2>7
<1>10. ASSUME NEW i \in 1..n, NEW l \in 1..n, l = i + 1, i \in Good PROVE l \in Good
  <2>1. PICK s \in Seq(Bands) : s = f[i]
    BY <1>10
  <2>2. Reaches(s, i)
    BY <1>10, <2>1
  <2>3. f[l] = Joined(s, P[l]) /\ P[l] \in Bands /\ P[i] \in Bands
    <3>1. l \in 0..n /\ l # 0 /\ l - 1 = i
      BY <1>10
    <3>2. f[l] = Joined(f[l - 1], P[l])
      BY <1>6, <3>1
    <3> QED BY <1>3, <2>1, <3>1, <3>2
  <2>4. P[i].from <= P[l].from /\ P[i].to <= P[l].to
    BY <1>4, <1>10
  <2>5. Follows(s, P[l])
    <3>1. PICK m \in Nat \ {0} : m = Len(s)
      BY <2>2, EmptySeq
    <3>2. s[m] \in Bands /\ s[m].to = P[i].to /\ s[m].from <= P[i].from
      BY <2>2, <3>1, ElementOfSeq
    <3>3. PICK x \in Nat, v \in Nat, w \in Nat : x = s[m].from /\ v = P[i].from /\ w = P[l].from
      BY <2>3, <3>2 DEF Bands
    <3>4. x <= v /\ v <= w
      BY <2>4, <3>2, <3>3
    <3>5. x <= w
      BY <3>4
    <3>6. s[m].from <= P[l].from /\ s[m].to <= P[l].to
      BY <2>4, <3>2, <3>3, <3>5
    <3> QED BY <3>1, <3>6 DEF Follows
  <2>6. f[l] \in Seq(Bands)
    <3>1. l \in 0..n
      BY <1>10
    <3> QED BY <1>8, <3>1
  <2>7. /\ f[l] # << >> /\ f[l][Len(f[l])].to = P[l].to /\ f[l][Len(f[l])].from <= P[l].from
        /\ \A k \in Nat : Painted(s, k) \/ (P[l].from <= k /\ k <= P[l].to) => Painted(f[l], k)
    BY <2>3, <2>5, JoinedPaints
  <2>8. ASSUME NEW j \in 1..l, NEW k \in Nat, P[j].from <= k, k <= P[j].to PROVE Painted(f[l], k)
    <3>1. CASE j = l
      BY <2>7, <2>8, <3>1
    <3>2. CASE j # l
      <4>1. j \in 1..i
        BY <1>10, <3>2
      <4>2. Painted(s, k)
        BY <2>2, <2>8, <4>1
      <4> QED BY <2>7, <4>2
    <3> QED BY <3>1, <3>2
  <2>9. Reaches(f[l], l)
    BY <2>7, <2>8
  <2> HIDE DEF Reaches
  <2> QED BY <2>6, <2>9
<1>11. 1..n \subseteq Good
  <2> HIDE DEF Good
  <2>1. \A i, l \in 1..n : l = i + 1 /\ i \in Good => l \in Good
    BY <1>10
  <2>2. 1 \in Int /\ n \in Int
    OBVIOUS
  <2> QED BY <1>9, <2>1, <2>2, IntervalReached
<1>12. Reaches(f[n], n)
  <2>1. n \in Good
    BY <1>11
  <2> QED BY <2>1
<1> SUFFICES ASSUME NEW k \in lo..hi PROVE Painted(f[n], k)
  BY <1>7
<1>13. PICK i \in 1..n : P[i].from <= k /\ k <= P[i].to
  BY <1>2 DEF Spans
<1>14. k \in Nat
  OBVIOUS
<1> QED BY <1>12, <1>13, <1>14

-------------------------------------------------------------------------------
(* Bands that are cut.                                                     *)
OfBars(b) == b \in Bands /\ 1 <= b.from /\ b.from <= b.to /\ b.to <= Len(closes)

LEMMA FirstIsThere ==
  ASSUME NEW lo \in Nat, NEW hi \in Nat, NEW S, S \subseteq lo..hi, S # {}
  PROVE  \E k \in lo..hi : k \in S /\ \A j \in lo..(k - 1) : j \notin S
<1>1. S \subseteq Nat
  OBVIOUS
<1>2. PICK k \in S : \A j \in S : k <= j
  BY <1>1, HasLeast
<1>3. ASSUME NEW j \in lo..(k - 1) PROVE j \notin S
  BY <1>1, <1>2
<1> QED BY <1>2, <1>3

LEMMA ExtremesAre ==
  ASSUME closes \in Seq(Prices), NEW lo \in Nat, NEW hi \in Nat, 1 <= lo, lo <= hi, hi <= Len(closes)
  PROVE  /\ \E k \in lo..hi : \A j \in lo..hi : closes[k] >= closes[j]
         /\ \E k \in lo..hi : \A j \in lo..hi : closes[k] <= closes[j]
<1>1. PICK p : p = [k \in lo..hi |-> closes[k]]
  OBVIOUS
<1>2. ASSUME NEW k \in lo..hi PROVE p[k] \in Nat /\ p[k] = closes[k]
  <2>1. k \in 1..Len(closes)
    OBVIOUS
  <2> QED BY <1>1, <2>1, ElementOfSeq DEF Prices
<1> DEFINE Good == {n \in lo..hi : /\ \E k \in lo..n : \A j \in lo..n : p[k] >= p[j]
                                   /\ \E k \in lo..n : \A j \in lo..n : p[k] <= p[j]}
<1>3. lo \in Good
  <2>1. lo \in lo..lo /\ lo \in lo..hi /\ \A j \in lo..lo : j = lo
    OBVIOUS
  <2>2. p[lo] >= p[lo] /\ p[lo] <= p[lo]
    BY <1>2, <2>1
  <2> QED BY <2>1, <2>2
<1>4. ASSUME NEW n \in lo..hi, NEW m \in lo..hi, m = n + 1, n \in Good PROVE m \in Good
  <2>1. PICK t \in lo..n : \A j \in lo..n : p[t] >= p[j]
    BY <1>4
  <2>2. PICK l \in lo..n : \A j \in lo..n : p[l] <= p[j]
    BY <1>4
  <2>3. /\ \A j \in lo..m : j \in lo..hi /\ p[j] \in Nat /\ (j # m => j \in lo..n)
        /\ t \in lo..m /\ l \in lo..m /\ m \in lo..m
    <3>1. \A j \in lo..m : j \in lo..hi /\ (j # m => j \in lo..n)
      BY <1>4
    <3>2. t \in lo..m /\ l \in lo..m /\ m \in lo..m
      BY <1>4
    <3> QED BY <1>2, <3>1, <3>2
  <2>4. \E k \in lo..m : \A j \in lo..m : p[k] >= p[j]
    <3>1. CASE p[m] >= p[t]
      <4>1. ASSUME NEW j \in lo..m PROVE p[m] >= p[j]
        <5>1. PICK x \in Nat, y \in Nat, z \in Nat : x = p[m] /\ y = p[j] /\ z = p[t]
          BY <2>3
        <5>2. j # m => z >= y
          BY <2>1, <2>3, <5>1
        <5>3. x >= z
          BY <3>1, <5>1
        <5>4. j # m => x >= y
          BY <5>2, <5>3
        <5>5. j = m => x = y
          BY <5>1
        <5>6. x >= y
          BY <5>4, <5>5
        <5> QED BY <5>1, <5>6
      <4> QED BY <2>3, <4>1
    <3>2. CASE ~(p[m] >= p[t])
      <4>1. ASSUME NEW j \in lo..m PROVE p[t] >= p[j]
        <5>1. PICK x \in Nat, z \in Nat : x = p[m] /\ z = p[t]
          BY <2>3
        <5>2. z >= x
          BY <3>2, <5>1
        <5> QED BY <2>1, <2>3, <5>1, <5>2
      <4> QED BY <2>3, <4>1
    <3> QED BY <3>1, <3>2
  <2>5. \E k \in lo..m : \A j \in lo..m : p[k] <= p[j]
    <3>1. CASE p[m] <= p[l]
      <4>1. ASSUME NEW j \in lo..m PROVE p[m] <= p[j]
        <5>1. PICK x \in Nat, y \in Nat, z \in Nat : x = p[m] /\ y = p[j] /\ z = p[l]
          BY <2>3
        <5>2. j # m => z <= y
          BY <2>2, <2>3, <5>1
        <5>3. x <= z
          BY <3>1, <5>1
        <5>4. j # m => x <= y
          BY <5>2, <5>3
        <5>5. j = m => x = y
          BY <5>1
        <5>6. x <= y
          BY <5>4, <5>5
        <5> QED BY <5>1, <5>6
      <4> QED BY <2>3, <4>1
    <3>2. CASE ~(p[m] <= p[l])
      <4>1. ASSUME NEW j \in lo..m PROVE p[l] <= p[j]
        <5>1. PICK x \in Nat, z \in Nat : x = p[m] /\ z = p[l]
          BY <2>3
        <5>2. z <= x
          BY <3>2, <5>1
        <5> QED BY <2>2, <2>3, <5>1, <5>2
      <4> QED BY <2>3, <4>1
    <3> QED BY <3>1, <3>2
  <2> QED BY <2>4, <2>5
<1>5. lo..hi \subseteq Good
  <2> HIDE DEF Good
  <2>1. \A n, m \in lo..hi : m = n + 1 /\ n \in Good => m \in Good
    BY <1>4
  <2>2. lo \in Int /\ hi \in Int
    OBVIOUS
  <2> QED BY <1>3, <2>1, <2>2, IntervalReached
<1>6. hi \in Good
  BY <1>5
<1>7. PICK t \in lo..hi : \A j \in lo..hi : p[t] >= p[j]
  BY <1>6
<1>8. PICK l \in lo..hi : \A j \in lo..hi : p[l] <= p[j]
  BY <1>6
<1>9. \A j \in lo..hi : closes[t] >= closes[j]
  BY <1>2, <1>7
<1>10. \A j \in lo..hi : closes[l] <= closes[j]
  BY <1>2, <1>8
<1> QED BY <1>9, <1>10

LEMMA TurnIsInBand ==
  ASSUME closes \in Seq(Prices), NEW b, OfBars(b)
  PROVE  TopBar(b) \in b.from..b.to /\ LowBar(b) \in b.from..b.to
<1>1. PICK lo \in Nat, hi \in Nat : lo = b.from /\ hi = b.to
  BY DEF OfBars, Bands
<1>2. 1 <= lo /\ lo <= hi /\ hi <= Len(closes)
  BY <1>1 DEF OfBars
<1>3. /\ \E k \in lo..hi : \A j \in lo..hi : closes[k] >= closes[j]
      /\ \E k \in lo..hi : \A j \in lo..hi : closes[k] <= closes[j]
  BY <1>2, ExtremesAre
<1>4. PICK S, T : /\ S = {k \in lo..hi : \A j \in lo..hi : closes[k] >= closes[j]}
                  /\ T = {k \in lo..hi : \A j \in lo..hi : closes[k] <= closes[j]}
  OBVIOUS
<1>5. S \subseteq lo..hi /\ S # {} /\ T \subseteq lo..hi /\ T # {}
  BY <1>3, <1>4
<1>6. PICK k \in lo..hi : k \in S /\ \A j \in lo..(k - 1) : j \notin S
  BY <1>5, FirstIsThere
<1>7. PICK m \in lo..hi : m \in T /\ \A j \in lo..(m - 1) : j \notin T
  BY <1>5, FirstIsThere
<1>8. ASSUME NEW i \in lo..hi, NEW j \in lo..(i - 1) PROVE j \in lo..hi
  OBVIOUS
<1>9. (\A j \in lo..hi : closes[k] >= closes[j]) /\ \A j \in lo..(k - 1) : ~(\A i \in lo..hi : closes[j] >= closes[i])
  BY <1>4, <1>6, <1>8
<1>10. (\A j \in lo..hi : closes[m] <= closes[j]) /\ \A j \in lo..(m - 1) : ~(\A i \in lo..hi : closes[j] <= closes[i])
  BY <1>4, <1>7, <1>8
<1>11. TopBar(b) \in lo..hi
  BY <1>1, <1>9, Zenon DEF TopBar, FirstAt
<1>12. LowBar(b) \in lo..hi
  BY <1>1, <1>10, Zenon DEF LowBar, FirstAt
<1> QED BY <1>1, <1>11, <1>12

LEMMA OneTiles ==
  ASSUME NEW c \in Bands, c.from <= c.to
  PROVE  Tiles(<<c>>, c.from, c.to)
<1>1. PICK P : P = <<c>>
  OBVIOUS
<1>2. P \in Seq(Bands) /\ Len(P) = 1 /\ P[1] = c /\ P # << >>
  BY <1>1
<1>3. c.from <= c.from
  BY DEF Bands
<1>4. \A i \in 1..1 : i = 1
  OBVIOUS
<1>5. \A i, j \in 1..1 : j # i + 1
  OBVIOUS
<1> QED BY <1>1, <1>2, <1>3, <1>4, <1>5 DEF Tiles

LEMMA TwoTile ==
  ASSUME NEW c \in Bands, NEW d \in Bands, c.from <= c.to, d.from = c.to + 1, d.from <= d.to
  PROVE  Tiles(<<c, d>>, c.from, d.to)
<1>1. PICK P : P = <<c, d>>
  OBVIOUS
<1>2. P \in Seq(Bands) /\ Len(P) = 2 /\ P[1] = c /\ P[2] = d /\ P # << >>
  BY <1>1
<1>3. c.from <= c.from /\ c.from <= d.from
  <2>1. PICK x \in Nat, y \in Nat, z \in Nat : x = c.from /\ y = c.to /\ z = d.from
    BY DEF Bands
  <2>2. x <= y /\ z = y + 1
    BY <2>1
  <2>3. x <= x /\ x <= z
    BY <2>2
  <2> QED BY <2>1, <2>3
<1>4. \A i \in 1..2 : i = 1 \/ i = 2
  OBVIOUS
<1>5. \A i, j \in 1..2 : j = i + 1 => i = 1 /\ j = 2
  OBVIOUS
<1> QED BY <1>1, <1>2, <1>3, <1>4, <1>5 DEF Tiles

LEMMA CutTiles ==
  ASSUME NEW b, OfBars(b), NEW last \in Nat, b.from <= last, last < b.to, NEW x \in 0..4, NEW y \in 0..4
  PROVE  Tiles(CutAt(b, last, x, y), b.from, b.to)
<1>1. PICK lo \in Nat, hi \in Nat, m \in Nat : lo = b.from /\ hi = b.to /\ m = last + 1
  BY DEF OfBars, Bands
<1>2. PICK c \in Bands, d \in Bands : c = StageBand(x, lo, last) /\ d = StageBand(y, m, hi)
  BY DEF StageBand, Bands
<1>3. c.from = lo /\ c.to = last /\ d.from = m /\ d.to = hi
  BY <1>2 DEF StageBand
<1>4. lo <= last /\ m <= hi
  BY <1>1
<1>5. Tiles(<<c, d>>, lo, hi)
  <2>1. c.from <= c.to /\ d.from <= d.to /\ d.from = c.to + 1
    BY <1>1, <1>3, <1>4
  <2>2. Tiles(<<c, d>>, c.from, d.to)
    BY <2>1, TwoTile
  <2> QED BY <1>3, <2>2
<1>6. CutAt(b, last, x, y) = <<c, d>>
  BY <1>1, <1>2, Zenon DEF CutAt
<1> QED BY <1>1, <1>5, <1>6

LEMMA NamedTiles ==
  ASSUME NEW b, OfBars(b), NEW x \in 0..4
  PROVE  Tiles(<<b>>, b.from, b.to) /\ Tiles(<<[b EXCEPT !.stage = x]>>, b.from, b.to)
<1>1. b \in Bands /\ b.from <= b.to
  BY DEF OfBars
<1>2. PICK c : c = [b EXCEPT !.stage = x]
  OBVIOUS
<1>3. c \in Bands /\ c.from = b.from /\ c.to = b.to
  BY <1>1, <1>2 DEF Bands
<1>4. c.from <= c.to
  BY <1>1, <1>3
<1>5. Tiles(<<b>>, b.from, b.to)
  BY <1>1, OneTiles
<1>6. Tiles(<<c>>, c.from, c.to)
  BY <1>3, <1>4, OneTiles
<1> QED BY <1>2, <1>3, <1>5, <1>6

LEMMA DirectionTiles ==
  ASSUME closes \in Seq(Prices), NEW b, OfBars(b)
  PROVE  Tiles(DirectionCorrect(b), b.from, b.to)
<1>1. PICK lo \in Nat, hi \in Nat, x \in 0..4 : lo = b.from /\ hi = b.to /\ x = b.stage
  BY DEF OfBars, Bands
<1>2. Tiles(<<b>>, b.from, b.to)
  BY NamedTiles
<1>3. ASSUME NEW y \in 0..4 PROVE Tiles(<<[b EXCEPT !.stage = y]>>, b.from, b.to)
  BY NamedTiles
<1>4. Tiles(Risen(b), b.from, b.to)
  <2> DEFINE R == {k \in b.from..b.to : judged[k].pos = "above"}
             first == CHOOSE k \in b.from..b.to : k \in R /\ \A j \in b.from..(k - 1) : ~(j \in R)
  <2>3. Risen(b) = IF R # {} /\ first > b.from /\ first < b.to THEN CutAt(b, first - 1, 1, 2) ELSE <<[b EXCEPT !.stage = 2]>>
    BY Zenon DEF Risen, FirstAt
  <2>4. CASE R # {} /\ first > b.from /\ first < b.to
    <3>1. R \subseteq lo..hi /\ R # {}
      BY <1>1, <2>4
    <3>2. \E k \in lo..hi : k \in R /\ \A j \in lo..(k - 1) : j \notin R
      <4> HIDE DEF R
      <4> QED BY <3>1, FirstIsThere
    <3>4. first \in lo..hi
      <4> HIDE DEF R
      <4>1. (CHOOSE k \in lo..hi : k \in R /\ \A j \in lo..(k - 1) : ~(j \in R)) \in lo..hi
        BY <3>2, Zenon
      <4> QED BY <1>1, <4>1, Zenon
    <3> HIDE DEF R, first
    <3>5. PICK last \in Nat : last = first - 1 /\ b.from <= last /\ last < b.to
      <4>1. first - 1 \in Nat /\ lo <= first - 1 /\ first - 1 < hi
        BY <1>1, <2>4, <3>4
      <4> QED BY <1>1, <4>1
    <3>6. Tiles(CutAt(b, last, 1, 2), b.from, b.to)
      <4>1. 1 \in 0..4 /\ 2 \in 0..4
        OBVIOUS
      <4> QED BY <3>5, <4>1, CutTiles
    <3> QED BY <2>3, <2>4, <3>5, <3>6
  <2>5. CASE ~(R # {} /\ first > b.from /\ first < b.to)
    <3>1. 2 \in 0..4
      OBVIOUS
    <3>2. Risen(b) = <<[b EXCEPT !.stage = 2]>>
      <4> HIDE DEF R, first
      <4> QED BY <2>3, <2>5
    <3> QED BY <1>3, <3>1, <3>2
  <2> HIDE DEF R, first
  <2> QED BY <2>4, <2>5
<1>5. Tiles(Turned(b), b.from, b.to)
  <2>1. PICK turn : turn = IF b.stage = 4 THEN LowBar(b) ELSE TopBar(b)
    OBVIOUS
  <2>2. turn \in lo..hi
    BY <1>1, <2>1, TurnIsInBand
  <2>3. PICK y \in 0..4 : y = Milder(b.stage)
    BY DEF Milder
  <2>4. Turned(b) = CASE LengthOf(b) < ShortBand \/ turn = b.from -> <<[b EXCEPT !.stage = y]>>
                      [] LengthOf(b) >= ShortBand /\ turn = b.to -> <<b>>
                      [] OTHER -> CutAt(b, turn, b.stage, y)
    <3>1. [b EXCEPT !.stage = Milder(@)] = [b EXCEPT !.stage = y]
      BY <2>3, Zenon
    <3> QED BY <2>1, <2>3, <3>1, Zenon DEF Turned
  <2>5. CASE turn = lo \/ LengthOf(b) < ShortBand
    <3>1. CASE LengthOf(b) >= ShortBand /\ turn = hi
      <4>1. Tiles(<<[b EXCEPT !.stage = y]>>, b.from, b.to)
        BY <1>3
      <4> QED BY <1>1, <1>2, <2>4, <2>5, <3>1, <4>1
    <3>2. CASE ~(LengthOf(b) >= ShortBand /\ turn = hi)
      <4>1. Turned(b) = <<[b EXCEPT !.stage = y]>>
        BY <1>1, <2>4, <2>5, <3>2
      <4> QED BY <1>3, <4>1
    <3> QED BY <3>1, <3>2
  <2>6. CASE ~(turn = lo \/ LengthOf(b) < ShortBand) /\ LengthOf(b) >= ShortBand /\ turn = hi
    <3>1. Turned(b) = <<b>>
      BY <1>1, <2>4, <2>6
    <3> QED BY <1>2, <3>1
  <2>7. CASE ~(turn = lo \/ LengthOf(b) < ShortBand) /\ ~(LengthOf(b) >= ShortBand /\ turn = hi)
    <3>1. Turned(b) = CutAt(b, turn, b.stage, y)
      BY <1>1, <2>4, <2>7
    <3>2. turn # hi
      <4>1. LengthOf(b) \in Int /\ ShortBand \in Int
        BY <1>1, FrameAssumption DEF LengthOf
      <4> QED BY <2>7, <4>1
    <3> QED BY <1>1, <2>2, <2>3, <2>7, <3>1, <3>2, CutTiles
  <2> QED BY <2>5, <2>6, <2>7
<1> QED BY <1>2, <1>4, <1>5 DEF DirectionCorrect

LEMMA OneSpans ==
  ASSUME NEW b \in Bands, b.from <= b.to, Period <= b.from
  PROVE  Spans(<<b>>, b.from, b.to)
<1>1. PICK lo \in Nat, hi \in Nat, S \in {<<b>>} : lo = b.from /\ hi = b.to /\ S = <<b>>
  BY DEF Bands
<1>2. S \in Seq(Bands) /\ 1 = Len(S) /\ S[1] = b /\ S # << >>
  BY <1>1
<1>3. \A i \in 1..1 : i = 1
  OBVIOUS
<1>4. lo <= lo /\ lo <= hi /\ lo <= hi + 1 /\ hi <= hi
  BY <1>1
<1>5. \A i \in 1..1 : lo <= S[i].from /\ S[i].from <= hi /\ lo <= S[i].to + 1 /\ S[i].to <= hi
  BY <1>1, <1>2, <1>3, <1>4
<1>6. \A k \in lo..hi : \E i \in 1..1 : S[i].from <= k /\ k <= S[i].to
  BY <1>1, <1>2
<1>7. \A i, j \in 1..1 : i <= j => S[i].from <= S[j].from /\ S[i].to <= S[j].to
  BY <1>1, <1>2, <1>3, <1>4
<1>8. Period <= hi
  BY <1>1, FrameAssumption
<1>9. EndInChart(S)
  BY <1>1, <1>2, <1>3, <1>8 DEF EndInChart
<1>10. Spans(S, lo, hi)
  BY <1>2, <1>5, <1>6, <1>7, <1>9, SpansAre
<1> QED BY <1>1, <1>10

\* A tail that was cut off begins where its front ends or right after it.
LEMMA TailSpans ==
  ASSUME NEW b \in Bands, b.from <= b.to, Period <= b.from
  PROVE  Spans(TailCorrect(b), b.from, b.to)
<1>1. PICK lo \in Nat, hi \in Nat, x \in 0..4 : lo = b.from /\ hi = b.to /\ x = b.stage
  BY DEF Bands
<1>2. PICK side : side = IF b.stage = 4 THEN "below" ELSE "above"
  OBVIOUS
<1>3. PICK T : T = {k \in b.from..b.to : \A j \in k..b.to : judged[j].pos # side}
  OBVIOUS
<1>4. PICK run \in Nat : run = Cardinality(T) /\ run <= hi - lo + 1
  <2>1. T \subseteq lo..hi
    BY <1>1, <1>3
  <2>2. IsFiniteSet(lo..hi) /\ Cardinality(lo..hi) = hi - lo + 1
    <3>1. lo \in Int /\ hi \in Int /\ ~(lo > hi)
      BY <1>1
    <3>2. IsFiniteSet(lo..hi) /\ Cardinality(lo..hi) = (IF lo > hi THEN 0 ELSE hi - lo + 1)
      BY <3>1, FS_Interval, Zenon
    <3> QED BY <3>1, <3>2
  <2>3. Cardinality(T) <= Cardinality(lo..hi) /\ IsFiniteSet(T)
    <3>1. PICK U : U = lo..hi
      OBVIOUS
    <3>2. T \in SUBSET U /\ IsFiniteSet(U)
      BY <2>1, <2>2, <3>1
    <3>3. Cardinality(T) <= Cardinality(U) /\ IsFiniteSet(T)
      BY <3>2, FS_Subset, Zenon
    <3> QED BY <3>1, <3>3
  <2>4. Cardinality(T) \in Nat
    BY <2>3, FS_CardinalityType
  <2> QED BY <2>2, <2>3, <2>4
<1>5. PICK start : start = hi - run + 1
  OBVIOUS
<1>6. TailCorrect(b) =
        IF b.stage \in {2, 4} /\ LengthOf(b) >= 2 * TailMin /\ run >= TailMin /\ 4 * run >= LengthOf(b)
        THEN <<StageBand(b.stage, b.from, BarBefore(start)), StageBand(Milder(b.stage), start, b.to)>>
        ELSE <<b>>
  <2>1. Cardinality({k \in b.from..b.to : \A j \in k..b.to : judged[j].pos # (IF b.stage = 4 THEN "below" ELSE "above")}) = run
    BY <1>2, <1>3, <1>4, Zenon
  <2>2. b.to - run + 1 = start
    BY <1>1, <1>5
  <2> QED BY <2>1, <2>2, Zenon DEF TailCorrect
<1>7. CASE run >= TailMin /\ TailCorrect(b) = <<StageBand(b.stage, b.from, BarBefore(start)), StageBand(Milder(b.stage), start, b.to)>>
  <2>1. start \in lo..hi
    BY <1>4, <1>5, <1>7, FrameAssumption
  <2>2. PICK e \in Nat : e = BarBefore(start) /\ (e = start \/ e = start - 1) /\ start - 1 <= e /\ e <= start /\ Period <= e
    <3> Period \in Nat /\ Period <= start
      BY <1>1, <2>1, FrameAssumption
    <3>1. CASE start > Period
      <4>1. start - 1 \in Nat /\ Period <= start - 1
        BY <2>1, <3>1, FrameAssumption
      <4> QED BY <2>1, <3>1, <4>1 DEF BarBefore
    <3>2. CASE ~(start > Period)
      BY <2>1, <3>2 DEF BarBefore
    <3> QED BY <3>1, <3>2
  <2>3. PICK y \in 0..4 : y = Milder(b.stage)
    BY DEF Milder
  <2>4. PICK c \in Bands, d \in Bands : c = StageBand(x, lo, e) /\ d = StageBand(y, start, hi)
    <3>1. start \in Nat
      BY <2>1
    <3>2. StageBand(x, lo, e) \in Bands /\ StageBand(y, start, hi) \in Bands
      BY <3>1 DEF StageBand, Bands
    <3> QED BY <3>2
  <2>5. c.from = lo /\ c.to = e /\ d.from = start /\ d.to = hi
    BY <2>4 DEF StageBand
  <2>6. PICK S : S = <<c, d>>
    OBVIOUS
  <2>7. S \in Seq(Bands) /\ 2 = Len(S) /\ S[1] = c /\ S[2] = d /\ S # << >>
    BY <2>6
  <2>8. TailCorrect(b) = S
    BY <1>1, <1>7, <2>2, <2>3, <2>4, <2>6
  <2>9. \A i \in 1..2 : i = 1 \/ i = 2
    OBVIOUS
  <2>10. /\ lo <= lo /\ lo <= hi /\ lo <= e + 1 /\ e <= hi
         /\ lo <= start /\ start <= hi /\ lo <= hi + 1 /\ hi <= hi /\ start <= start /\ e <= e
    BY <1>1, <2>1, <2>2
  <2>11. \A i \in 1..2 : lo <= S[i].from /\ S[i].from <= hi /\ lo <= S[i].to + 1 /\ S[i].to <= hi
    BY <2>5, <2>7, <2>9, <2>10
  <2>12. ASSUME NEW k \in lo..hi PROVE \E i \in 1..2 : S[i].from <= k /\ k <= S[i].to
    <3>1. (lo <= k /\ k <= e) \/ (start <= k /\ k <= hi)
      BY <2>1, <2>2
    <3>2. 1 \in 1..2 /\ 2 \in 1..2
      OBVIOUS
    <3> QED BY <2>5, <2>7, <3>1, <3>2
  <2>13. ASSUME NEW i \in 1..2, NEW j \in 1..2, i <= j PROVE S[i].from <= S[j].from /\ S[i].to <= S[j].to
    <3>1. (i = 1 /\ j = 1) \/ (i = 1 /\ j = 2) \/ (i = 2 /\ j = 2)
      BY <2>13
    <3> QED BY <2>5, <2>7, <2>10, <3>1
  <2>14. EndInChart(S)
    <3>1. Period <= e /\ Period <= hi
      BY <1>1, <2>2, FrameAssumption
    <3> QED BY <2>5, <2>7, <2>9, <3>1 DEF EndInChart
  <2>15. Spans(S, lo, hi)
    BY <2>7, <2>11, <2>12, <2>13, <2>14, SpansAre
  <2> QED BY <1>1, <2>8, <2>15
<1>8. CASE TailCorrect(b) = <<b>>
  BY <1>8, OneSpans
<1> QED BY <1>6, <1>7, <1>8

LEMMA PiecesSpan ==
  ASSUME closes \in Seq(Prices), NEW b, OfBars(b), Period <= b.from
  PROVE  Spans(Pieces(b), b.from, b.to)
<1>1. PICK lo \in Nat, hi \in Nat : lo = b.from /\ hi = b.to
  BY DEF OfBars, Bands
<1>2. PICK cut : cut = DirectionCorrect(b)
  OBVIOUS
<1>3. Tiles(cut, lo, hi)
  BY <1>1, <1>2, DirectionTiles
<1>4. PICK n \in Nat : n = Len(cut)
  BY <1>3 DEF Tiles
<1>5. ASSUME NEW i \in 1..n PROVE cut[i] \in Bands /\ cut[i].from <= cut[i].to /\ Period <= cut[i].from
  <2>1. cut \in Seq(Bands)
    BY <1>3 DEF Tiles
  <2>2. cut[i].from <= cut[i].to /\ lo <= cut[i].from
    BY <1>3, <1>4 DEF Tiles
  <2>3. cut[i] \in Bands
    BY <1>4, <2>1, ElementOfSeq
  <2>4. PICK x \in Nat : x = cut[i].from
    BY <2>3 DEF Bands
  <2>5. Period <= x
    BY <1>1, <2>2, <2>4, FrameAssumption
  <2> QED BY <2>2, <2>3, <2>4, <2>5
<1>6. PICK F : F = [i \in 1..n |-> TailCorrect(cut[i])]
  OBVIOUS
<1>7. Len(F) = Len(cut)
  BY <1>4, <1>6
<1>8. \A i \in 1..Len(cut) : Spans(F[i], cut[i].from, cut[i].to)
  BY <1>4, <1>5, <1>6, TailSpans
<1>9. Spans(FlattenSeq(F), lo, hi)
  BY <1>3, <1>7, <1>8, FlattenSpans
<1>10. Pieces(b) = FlattenSeq(F)
  BY <1>2, <1>4, <1>6, Zenon DEF Pieces
<1> QED BY <1>1, <1>9, <1>10

-------------------------------------------------------------------------------
(* Stages that last.                                                       *)
Poses == {"above", "below", "near"}
Bars == [stage : 0..4, pos : Poses, dir : {"rising", "falling", "flat"}]
Debs == [bands : Seq(Bands), stage : 0..4, from : Nat, pos : Poses, cand : 0..4, since : Nat \ {0}]

TilesTo(P, lo, f) ==
  P \in Seq(Bands) /\ (P = << >> => f = lo) /\ (P # << >> => \E e \in Nat : f = e + 1 /\ Tiles(P, lo, e))

LEMMA TileAdded ==
  ASSUME NEW lo \in Nat, NEW P, NEW b \in Bands, TilesTo(P, lo, b.from), b.from <= b.to
  PROVE  Tiles(Append(P, b), lo, b.to)
<1>1. PICK f \in Nat, hi \in Nat, S \in {Append(P, b)} : f = b.from /\ hi = b.to /\ S = Append(P, b)
  BY DEF Bands
<1>2. P \in Seq(Bands)
  BY DEF TilesTo
<1>3. PICK n \in Nat, m \in Nat \ {0} : n = Len(P) /\ m = n + 1
  BY <1>2
<1>4. S \in Seq(Bands) /\ S # << >> /\ Len(S) = m /\ S[m] = b /\ \A i \in 1..n : S[i] = P[i]
  BY <1>1, <1>2, <1>3, AppendProperties
<1>5. CASE P = << >>
  <2>1. m = 1 /\ f = lo
    BY <1>1, <1>3, <1>5 DEF TilesTo
  <2>2. \A i \in 1..m : i = m
    BY <2>1
  <2>3. \A i, j \in 1..m : j # i + 1
    BY <2>1
  <2>4. lo <= f /\ f <= hi
    BY <1>1, <2>1
  <2>5. S[1].from = lo /\ S[m].to = hi /\ \A i \in 1..m : lo <= S[i].from /\ S[i].from <= S[i].to
    BY <1>1, <1>4, <2>1, <2>2, <2>4
  <2> QED BY <1>1, <1>4, <2>3, <2>5 DEF Tiles
<1>6. CASE P # << >>
  <2>1. PICK e \in Nat : f = e + 1 /\ Tiles(P, lo, e)
    BY <1>1, <1>6 DEF TilesTo
  <2>2. n \in 1..n /\ 1 \in 1..n
    BY <1>2, <1>3, <1>6, EmptySeq
  <2>3. /\ P[1].from = lo /\ P[n].to = e
        /\ \A i \in 1..n : lo <= P[i].from /\ P[i].from <= P[i].to
        /\ \A i, j \in 1..n : j = i + 1 => P[j].from = P[i].to + 1
    BY <1>3, <2>1 DEF Tiles
  <2>4. lo <= f /\ f <= hi
    <3>1. PICK x \in Nat : x = P[n].from
      <4>1. P[n] \in Bands
        BY <1>2, <1>3, <2>2, ElementOfSeq
      <4> QED BY <4>1 DEF Bands
    <3>2. lo <= x /\ x <= e
      BY <2>2, <2>3, <3>1
    <3> QED BY <1>1, <2>1, <3>2
  <2>5. ASSUME NEW i \in 1..m PROVE lo <= S[i].from /\ S[i].from <= S[i].to
    <3>1. CASE i = m
      BY <1>1, <1>4, <2>4, <3>1
    <3>2. CASE i # m
      <4>1. i \in 1..n
        BY <1>3, <3>2
      <4> QED BY <1>4, <2>3, <4>1
    <3> QED BY <3>1, <3>2
  <2>6. ASSUME NEW i \in 1..m, NEW j \in 1..m, j = i + 1 PROVE S[j].from = S[i].to + 1
    <3>1. i \in 1..n /\ (j = m => i = n) /\ (j # m => j \in 1..n)
      BY <1>3, <2>6
    <3>2. CASE j = m
      BY <1>1, <1>4, <2>1, <2>3, <3>1, <3>2
    <3>3. CASE j # m
      BY <1>4, <2>3, <2>6, <3>1, <3>3
    <3> QED BY <3>2, <3>3
  <2>7. S[1].from = lo /\ S[m].to = hi
    BY <1>1, <1>4, <2>2, <2>3
  <2>8. Tiles(S, lo, hi)
    BY <1>4, <2>5, <2>6, <2>7 DEF Tiles
  <2> QED BY <1>1, <2>8
<1> QED BY <1>5, <1>6

LEMMA DebounceIsDeb ==
  ASSUME judged \in Seq(Bars), NEW k \in Period..Len(judged), NEW s \in Debs
  PROVE  Debounce(s, k) \in Debs
<1>1. k \in Nat \ {0} /\ k \in 1..Len(judged)
  BY FrameAssumption
<1>2. PICK bar \in Bars : bar = judged[k]
  BY <1>1, ElementOfSeq
<1>3. PICK since \in Nat \ {0} : since = IF bar.stage = s.cand THEN s.since ELSE k
  BY <1>1 DEF Debs
<1>4. Debounce(s, k) = IF bar.stage # s.stage /\ k - since + 1 >= Needed(s, bar) THEN Confirmed(s, k, since, bar)
                       ELSE [s EXCEPT !.cand = bar.stage, !.since = since]
  BY <1>2, <1>3, Zenon DEF Debounce
<1>5. bar.stage \in 0..4 /\ bar.pos \in Poses
  BY DEF Bars
<1>6. [s EXCEPT !.cand = bar.stage, !.since = since] \in Debs
  BY <1>5 DEF Debs
<1>7. Confirmed(s, k, since, bar) \in Debs
  <2>1. since - 1 \in Nat /\ since \in Nat
    OBVIOUS
  <2>2. PICK b : b = StageBand(s.stage, s.from, since - 1)
    OBVIOUS
  <2>3. b \in Bands
    BY <2>1, <2>2 DEF StageBand, Bands, Debs
  <2>4. PICK r \in Seq(Bands) : r = Append(s.bands, b)
    <3>1. s.bands \in Seq(Bands)
      BY DEF Debs
    <3> QED BY <2>3, <3>1, AppendProperties
  <2>5. Confirmed(s, k, since, bar) =
          [bands |-> r, stage |-> bar.stage, from |-> since, pos |-> bar.pos, cand |-> bar.stage, since |-> since]
    BY <2>2, <2>4, Zenon DEF Confirmed
  <2> QED BY <1>5, <2>1, <2>5 DEF Debs
<1> QED BY <1>4, <1>6, <1>7

\* The bands so far end where the stage that counts began; another one that may
\* come to count began later.
Pending(s, k) ==
  /\ s \in Debs /\ TilesTo(s.bands, Period, s.from)
  /\ Period <= s.from /\ s.from <= s.since /\ s.since <= k
  /\ s.since > s.from \/ s.cand = s.stage

LEMMA DebounceKeeps ==
  ASSUME judged \in Seq(Bars), NEW m \in Nat, NEW k \in Period..Len(judged), k = m + 1, NEW s, Pending(s, m)
  PROVE  Pending(Debounce(s, k), k)
<1>1. k \in Nat \ {0} /\ k \in 1..Len(judged)
  BY FrameAssumption
<1>2. PICK bar \in Bars : bar = judged[k]
  BY <1>1, ElementOfSeq
<1>3. PICK from \in Nat, old \in Nat \ {0} : from = s.from /\ old = s.since
  BY DEF Pending, Debs
<1>4. Period <= from /\ from <= old /\ old <= m /\ (old > from \/ s.cand = s.stage) /\ s \in Debs
  BY <1>3 DEF Pending
<1>5. PICK since \in Nat \ {0} : since = IF bar.stage = s.cand THEN s.since ELSE k
  BY <1>1 DEF Pending, Debs
<1>6. from <= since /\ since <= k /\ (since > from \/ (bar.stage = s.cand /\ s.cand = s.stage))
  <2>1. CASE bar.stage = s.cand
    <3>1. since = old
      BY <1>3, <1>5, <2>1
    <3> QED BY <1>4, <2>1, <3>1
  <2>2. CASE bar.stage # s.cand
    <3>1. since = k
      BY <1>5, <2>2
    <3> QED BY <1>4, <3>1
  <2> QED BY <2>1, <2>2
<1>7. PICK r : r = Debounce(s, k)
  OBVIOUS
<1>8. r = IF bar.stage # s.stage /\ k - since + 1 >= Needed(s, bar) THEN Confirmed(s, k, since, bar)
          ELSE [s EXCEPT !.cand = bar.stage, !.since = since]
  BY <1>2, <1>5, <1>7, Zenon DEF Debounce
<1>9. r \in Debs
  BY <1>4, <1>7, DebounceIsDeb
<1>10. CASE bar.stage # s.stage /\ r = Confirmed(s, k, since, bar)
  <2>1. since > from
    BY <1>6, <1>10
  <2>2. since - 1 \in Nat
    OBVIOUS
  <2>3. PICK b : b = StageBand(s.stage, s.from, since - 1)
    OBVIOUS
  <2>4. b \in Bands /\ b.from = from /\ b.to = since - 1
    BY <1>3, <1>4, <2>2, <2>3 DEF StageBand, Bands, Debs
  <2>5. TilesTo(s.bands, Period, b.from)
    BY <1>3, <2>4 DEF Pending
  <2>6. b.from <= b.to
    BY <2>1, <2>4
  <2>7. PICK P : P = Append(s.bands, b)
    OBVIOUS
  <2>8. Period \in Nat
    BY FrameAssumption
  <2>9. PICK e \in Nat : e = since - 1 /\ since = e + 1
    BY <2>2
  <2>10. Tiles(P, Period, e)
    BY <2>4, <2>5, <2>6, <2>7, <2>8, <2>9, TileAdded
  <2>11. TilesTo(P, Period, since)
    BY <2>9, <2>10 DEF TilesTo, Tiles
  <2>12. r = [bands |-> P, stage |-> bar.stage, from |-> since, pos |-> bar.pos, cand |-> bar.stage, since |-> since]
    BY <1>10, <2>3, <2>7, Zenon DEF Confirmed
  <2>13. r.bands = P /\ r.from = since /\ r.since = since /\ r.cand = r.stage
    BY <2>12
  <2>14. Period <= since /\ since <= since /\ since <= k
    BY <1>4, <1>6, <2>8
  <2> QED BY <1>7, <1>9, <2>11, <2>13, <2>14 DEF Pending
<1>11. CASE r = [s EXCEPT !.cand = bar.stage, !.since = since]
  <2>1. r.bands = s.bands /\ r.from = from /\ r.since = since /\ r.cand = bar.stage /\ r.stage = s.stage
    BY <1>3, <1>4, <1>11 DEF Debs
  <2>2. TilesTo(r.bands, Period, r.from)
    BY <1>3, <2>1 DEF Pending
  <2> QED BY <1>4, <1>6, <1>7, <1>9, <2>1, <2>2 DEF Pending
<1> QED BY <1>8, <1>10, <1>11

LEMMA FirstIsPending ==
  ASSUME judged \in Seq(Bars), Period <= Len(judged)
  PROVE  FirstBand \in Debs /\ Pending(FirstBand, Period)
<1>1. Period \in Nat \ {0} /\ Period \in 1..Len(judged)
  BY FrameAssumption
<1>2. PICK one \in Bars : one = judged[Period]
  BY <1>1, ElementOfSeq
<1>3. << >> \in Seq(Bands)
  BY EmptySeq
<1>4. FirstBand = [bands |-> << >>, stage |-> one.stage, from |-> Period, pos |-> one.pos, cand |-> one.stage, since |-> Period]
  BY <1>2, Zenon DEF FirstBand
<1>5. one.stage \in 0..4 /\ one.pos \in Poses
  BY DEF Bars
<1>6. FirstBand \in Debs
  BY <1>1, <1>3, <1>4, <1>5 DEF Debs
<1>7. /\ FirstBand.bands = << >> /\ FirstBand.from = Period /\ FirstBand.since = Period
      /\ FirstBand.cand = FirstBand.stage
  BY <1>4
<1>8. TilesTo(FirstBand.bands, Period, FirstBand.from)
  BY <1>3, <1>7 DEF TilesTo
<1>9. Period <= Period
  BY <1>1
<1> QED BY <1>6, <1>7, <1>8, <1>9 DEF Pending

LEMMA DebouncedAre ==
  ASSUME judged \in Seq(Bars), Period <= Len(judged)
  PROVE  \A k \in Period..Len(judged) : Pending(Debounced[k], k)
<1>1. PICK n \in Nat \ {0}, lo \in Nat \ {0} : n = Len(judged) /\ lo = Period /\ lo <= n
  BY FrameAssumption
<1>2. PICK step : step = [x \in Debs \X (lo..n) |-> Debounce(x[1], x[2])]
  OBVIOUS
<1>3. ASSUME NEW s \in Debs, NEW k \in lo..n PROVE step[<<s, k>>] = Debounce(s, k) /\ Debounce(s, k) \in Debs
  BY <1>1, <1>2, DebounceIsDeb
<1>4. StaysWithin(Debs, step, lo, n)
  BY <1>3 DEF StaysWithin
<1>5. PICK first \in Debs : first = FirstBand
  BY FirstIsPending
<1>6. PICK g : IsRun(g, Debs, first, step, lo, n)
  <2>1. lo \in Int /\ n \in Int
    OBVIOUS
  <2> QED BY <1>4, <2>1, StepsExist
<1>7. g = [k \in lo..n |-> IF k = lo THEN FirstBand ELSE Debounce(g[k - 1], k)]
  <2>1. ASSUME NEW k \in lo..n PROVE g[k] = IF k = lo THEN FirstBand ELSE Debounce(g[k - 1], k)
    <3>1. k # lo => g[k - 1] \in Debs
      BY <1>6 DEF IsRun
    <3> QED BY <1>3, <1>5, <1>6, <3>1 DEF IsRun
  <2> QED BY <1>6, <2>1 DEF IsRun
<1>8. Debounced = CHOOSE f : f = [k \in lo..n |-> IF k = lo THEN FirstBand ELSE Debounce(f[k - 1], k)]
  BY <1>1, Zenon DEF Debounced
<1>9. Debounced = [k \in lo..n |-> IF k = lo THEN FirstBand ELSE Debounce(Debounced[k - 1], k)]
  BY <1>7, <1>8, Zenon
<1> DEFINE Good == {k \in lo..n : Pending(Debounced[k], k)}
<1>10. lo \in Good
  <2>1. lo \in lo..n
    BY <1>1
  <2>2. Debounced[lo] = FirstBand
    BY <1>9, <2>1
  <2>3. Pending(FirstBand, lo)
    BY <1>1, FirstIsPending
  <2> QED BY <2>1, <2>2, <2>3
<1>11. ASSUME NEW m \in lo..n, NEW k \in lo..n, k = m + 1, m \in Good PROVE k \in Good
  <2>1. m \in Nat /\ k # lo /\ k - 1 = m /\ k \in Period..Len(judged)
    BY <1>1, <1>11
  <2>2. Debounced[k] = Debounce(Debounced[m], k)
    BY <1>9, <2>1
  <2>3. Pending(Debounced[m], m)
    BY <1>11
  <2>4. Pending(Debounce(Debounced[m], k), k)
    BY <1>11, <2>1, <2>3, DebounceKeeps
  <2> QED BY <2>2, <2>4
<1>12. lo..n \subseteq Good
  <2> HIDE DEF Good
  <2>1. \A m, k \in lo..n : k = m + 1 /\ m \in Good => k \in Good
    BY <1>11
  <2>2. lo \in Int /\ n \in Int
    OBVIOUS
  <2> QED BY <1>10, <2>1, <2>2, IntervalReached
<1> QED BY <1>1, <1>12

LEMMA RawTiles ==
  ASSUME judged \in Seq(Bars), Period <= Len(judged)
  PROVE  Tiles(RawBands, Period, Len(judged))
<1>1. PICK n \in Nat \ {0}, lo \in Nat \ {0} : n = Len(judged) /\ lo = Period /\ lo <= n
  BY FrameAssumption
<1>2. PICK s : s = Debounced[n]
  OBVIOUS
<1>3. Pending(s, n)
  BY <1>1, <1>2, DebouncedAre
<1>4. PICK b : b = StageBand(s.stage, s.from, n)
  OBVIOUS
<1>5. b \in Bands /\ b.from = s.from /\ b.to = n
  BY <1>3, <1>4 DEF Pending, StageBand, Bands, Debs
<1>6. b.from <= b.to
  <2>1. PICK x \in Nat, y \in Nat : x = s.from /\ y = s.since
    BY <1>3 DEF Pending, Debs
  <2>2. x <= y /\ y <= n
    BY <1>3, <2>1 DEF Pending
  <2>3. x <= n
    BY <2>2
  <2> QED BY <1>5, <2>1, <2>3
<1>7. TilesTo(s.bands, lo, b.from)
  BY <1>1, <1>3, <1>5 DEF Pending
<1>8. Tiles(Append(s.bands, b), lo, b.to)
  BY <1>5, <1>6, <1>7, TileAdded
<1>9. RawBands = Append(s.bands, b)
  BY <1>1, <1>2, <1>4, Zenon DEF RawBands
<1> QED BY <1>1, <1>5, <1>8, <1>9

\* The last tile is the one that ends last.
LEMMA TilesEnd ==
  ASSUME NEW lo \in Nat, NEW hi \in Nat, NEW P, Tiles(P, lo, hi)
  PROVE  \A i \in 1..Len(P) : P[i] \in Bands /\ lo <= P[i].from /\ P[i].from <= P[i].to /\ P[i].to <= hi
<1>1. P \in Seq(Bands) /\ P # << >>
  BY DEF Tiles
<1>2. PICK n \in Nat \ {0} : n = Len(P)
  BY <1>1, EmptySeq
<1>3. \A i \in 1..n : P[i] \in Bands
  BY <1>1, <1>2, ElementOfSeq
<1>4. \A i \in 1..n : lo <= P[i].from /\ P[i].from <= P[i].to
  BY <1>2 DEF Tiles
<1>5. P[n].to = hi /\ \A i, j \in 1..n : j = i + 1 => P[j].from = P[i].to + 1
  BY <1>2 DEF Tiles
<1> DEFINE Good == {d \in Nat : \A i \in 1..n : i = n - d => P[i].to <= hi}
<1>6. 0 \in Good
  <2>1. hi <= hi
    OBVIOUS
  <2>2. \A i \in 1..n : i = n - 0 => i = n
    OBVIOUS
  <2> QED BY <1>5, <2>1, <2>2
<1>7. ASSUME NEW d \in Nat, d \in Good PROVE d + 1 \in Good
  <2> SUFFICES ASSUME NEW i \in 1..n, i = n - (d + 1) PROVE P[i].to <= hi
    OBVIOUS
  <2>1. PICK j \in 1..n : j = i + 1 /\ j = n - d
    <3>1. i + 1 \in 1..n /\ i + 1 = n - d
      OBVIOUS
    <3> QED BY <3>1
  <2>2. P[j].to <= hi
    BY <1>7, <2>1
  <2>3. PICK x \in Nat, y \in Nat, z \in Nat : x = P[i].to /\ y = P[j].from /\ z = P[j].to
    BY <1>3 DEF Bands
  <2>4. y = x + 1 /\ y <= z /\ z <= hi
    BY <1>4, <1>5, <2>1, <2>2, <2>3
  <2>5. x <= hi
    BY <2>4
  <2> QED BY <2>3, <2>5
<1>8. Nat \subseteq Good
  <2> HIDE DEF Good
  <2> QED BY <1>6, <1>7, CountsReach
<1>9. ASSUME NEW i \in 1..n PROVE P[i].to <= hi
  <2>1. PICK d \in Nat : i = n - d
    <3>1. n - i \in Nat /\ i = n - (n - i)
      OBVIOUS
    <3> QED BY <3>1
  <2>2. d \in Good
    BY <1>8
  <2> QED BY <2>1, <2>2
<1> QED BY <1>2, <1>3, <1>4, <1>9

LEMMA BarsPainted ==
  ASSUME closes \in Seq(Prices), judged \in Seq(Bars), Len(judged) = Len(closes)
  PROVE  BandsPaintTheChart
<1>1. PICK n \in Nat, lo \in Nat \ {0} : n = Len(judged) /\ n = Len(closes) /\ lo = Period
  BY FrameAssumption
<1>2. CASE Len(judged) < Period
  <2>1. Segments = << >>
    BY <1>2 DEF Segments
  <2>2. Len(Segments) = 0 /\ 1..0 = {} /\ lo..n = {}
    BY <1>1, <1>2, <2>1
  <2> QED BY <1>1, <2>2 DEF BandsPaintTheChart, EveryBarIn, NoneBeyond
<1> SUFFICES ASSUME ~(Len(judged) < Period) PROVE BandsPaintTheChart
  BY <1>2
<1>3. lo <= n
  BY <1>1
<1>4. PICK tiles : tiles = RawBands
  OBVIOUS
<1>5. Tiles(tiles, lo, n)
  BY <1>1, <1>3, <1>4, RawTiles
<1>6. PICK r \in Nat : r = Len(tiles)
  BY <1>5 DEF Tiles
<1>7. ASSUME NEW i \in 1..r PROVE OfBars(tiles[i]) /\ Period <= tiles[i].from
  <2>1. PICK b \in Bands : b = tiles[i] /\ lo <= b.from /\ b.from <= b.to /\ b.to <= n
    BY <1>5, <1>6, TilesEnd
  <2>2. PICK x \in Nat : x = b.from
    BY DEF Bands
  <2>3. 1 <= x
    BY <2>1, <2>2
  <2> QED BY <1>1, <2>1, <2>2, <2>3 DEF OfBars
<1>8. PICK F : F = [i \in 1..r |-> Pieces(tiles[i])]
  OBVIOUS
<1>9. Len(F) = Len(tiles)
  BY <1>6, <1>8
<1>10. \A i \in 1..Len(tiles) : Spans(F[i], tiles[i].from, tiles[i].to)
  BY <1>6, <1>7, <1>8, PiecesSpan
<1>11. PICK P : P = FlattenSeq(F)
  OBVIOUS
<1>12. Spans(P, lo, n)
  BY <1>5, <1>9, <1>10, <1>11, FlattenSpans
<1>13. PICK s : s = MergedBands(P)
  OBVIOUS
<1>14. \A k \in lo..n : Painted(s, k)
  BY <1>12, <1>13, MergedPaints
<1>15. Segments = s
  BY <1>4, <1>6, <1>8, <1>11, <1>13, Zenon DEF Segments
<1>16. \A i \in 1..Len(s) : s[i] \in OfChart(n)
  <2>1. s \in Seq(OfChart(n))
    BY <1>1, <1>12, <1>13, MergedStay
  <2> QED BY <2>1, ElementOfSeq
<1>17. NoneBeyond(s)
  BY <1>1, <1>16 DEF NoneBeyond, OfChart
<1>18. EveryBarIn(s)
  <2> SUFFICES ASSUME NEW k \in lo..n PROVE \E i \in 1..Len(s) : k \in s[i].from..s[i].to
    BY <1>1 DEF EveryBarIn
  <2>1. PICK i \in 1..Len(s) : s[i].from <= k /\ k <= s[i].to
    BY <1>14 DEF Painted
  <2>2. s[i] \in Bands
    BY <1>16, <2>1 DEF OfChart
  <2> QED BY <2>1, <2>2 DEF Bands
<1> QED BY <1>15, <1>18, <1>17 DEF BandsPaintTheChart

-------------------------------------------------------------------------------
(* Every bar was judged.                                                   *)
LEMMA DecideIsStage == ASSUME NEW c, NEW w PROVE Decide(c, w) \in 0..4
<1>1. \A up : TopOr(1, up) \in 0..4 /\ TopOr(4, up) \in 0..4
  BY DEF TopOr
<1>2. ASSUME NEW dir, NEW up PROVE BelowAverage(c, w, dir, up) \in 0..4
  <2>1. PICK deep, based, falls : /\ deep = Under(Period * c[Len(c)], Sma(c, Len(c)), 10)
                                  /\ based = Basing(w) /\ falls = Declining(w, dir)
    OBVIOUS
  <2>2. BelowAverage(c, w, dir, up) = CASE deep -> 4 [] ~deep /\ based -> 1 [] ~deep /\ ~based /\ falls -> 4
                                        [] OTHER -> TopOr(1, up)
    BY <2>1, Zenon DEF BelowAverage
  <2> QED BY <1>1, <2>2
<1>3. ASSUME NEW up PROVE InRange(w, up) \in 0..4
  BY <1>1 DEF InRange
<1> QED BY <1>2, <1>3 DEF Decide

LEMMA JudgeIsBar == ASSUME NEW c, NEW w, NEW prior \in Bars PROVE Judge(c, w, prior) \in Bars
<1>1. Unjudged \in Bars
  BY DEF Unjudged, Bar, Bars, Poses
<1>2. Position(c) \in Poses
  BY DEF Position, Poses
<1>3. Direction(c) \in {"rising", "falling", "flat"}
  BY DEF Direction
<1>4. prior.stage \in 0..4 /\ Classify(c, w) \in 0..4
  BY DecideIsStage DEF Bars, Classify
<1>5. PICK x : x = IF prior.stage \in {1, 3} /\ Position(c) = "near" /\ Direction(c) = "flat" THEN prior.stage ELSE Classify(c, w)
  OBVIOUS
<1>6. x \in 0..4
  BY <1>4, <1>5
<1>7. Bar(x, Position(c), Direction(c)) \in Bars
  BY <1>2, <1>3, <1>6 DEF Bar, Bars
<1>8. Judge(c, w, prior) = IF Len(c) < Period THEN Unjudged ELSE Bar(x, Position(c), Direction(c))
  BY <1>5, Zenon DEF Judge
<1> QED BY <1>1, <1>7, <1>8

ChartInv == closes \in Seq(Closes) /\ judged \in Seq(Bars) /\ Len(judged) = Len(closes)

LEMMA ChartBegins == ChartInit => ChartInv
BY DEF ChartInit, ChartInv

LEMMA DayKeeps ==
  ASSUME ChartInv, NEW c \in Closes, NEW w \in Shapes, Day(c, w)
  PROVE  ChartInv'
<1>1. PICK new : new = (closes = << >> \/ inBar = BarDays)
  OBVIOUS
<1>2. PICK past, known : past = (IF new THEN closes ELSE Front(closes)) /\ known = IF new THEN judged ELSE Front(judged)
  OBVIOUS
<1>3. PICK prior : prior = IF known = << >> THEN Unjudged ELSE Last(known)
  OBVIOUS
<1>4. closes' = Append(past, c) /\ judged' = Append(known, Judge(Append(past, c), w, prior))
  BY <1>1, <1>2, <1>3, Zenon DEF Day
<1>5. closes \in Seq(Closes) /\ judged \in Seq(Bars) /\ Len(judged) = Len(closes)
  BY DEF ChartInv
<1>6. past \in Seq(Closes) /\ known \in Seq(Bars) /\ Len(known) = Len(past)
  <2>1. CASE new
    BY <1>2, <1>5, <2>1
  <2>2. CASE ~new
    <3>1. closes # << >>
      BY <1>1, <2>2
    <3>2. PICK n \in Nat, m \in Nat : n = Len(closes) /\ m = n - 1 /\ n = m + 1
      <4>1. Len(closes) \in Nat \ {0}
        BY <1>5, <3>1, EmptySeq
      <4>2. Len(closes) - 1 \in Nat
        BY <4>1
      <4> QED BY <4>1, <4>2
    <3>3. past = SubSeq(closes, 1, m) /\ known = SubSeq(judged, 1, m)
      BY <1>2, <1>5, <2>2, <3>2 DEF Front
    <3>4. \A i \in 1..m : i \in 1..Len(closes) /\ i \in 1..Len(judged)
      BY <1>5, <3>2
    <3>5. \A i \in 1..m : closes[i] \in Closes /\ judged[i] \in Bars
      BY <1>5, <3>4, ElementOfSeq
    <3>6. 1 \in Int /\ m \in Int
      OBVIOUS
    <3>7. SubSeq(closes, 1, m) \in Seq(Closes) /\ Len(SubSeq(closes, 1, m)) = IF 1 <= m THEN m - 1 + 1 ELSE 0
      BY <3>5, <3>6, SubSeqProperties
    <3>8. SubSeq(judged, 1, m) \in Seq(Bars) /\ Len(SubSeq(judged, 1, m)) = IF 1 <= m THEN m - 1 + 1 ELSE 0
      BY <3>5, <3>6, SubSeqProperties
    <3> QED BY <3>3, <3>7, <3>8
  <2> QED BY <2>1, <2>2
<1>7. prior \in Bars
  <2>1. CASE known = << >>
    BY <1>3, <2>1 DEF Unjudged, Bar, Bars, Poses
  <2>2. CASE known # << >>
    <3>1. Len(known) \in Nat \ {0}
      BY <1>6, <2>2, EmptySeq
    <3>2. Len(known) \in 1..Len(known)
      BY <3>1
    <3>3. known[Len(known)] \in Bars
      BY <1>6, <3>2, ElementOfSeq
    <3> QED BY <1>3, <2>2, <3>3 DEF Last
  <2> QED BY <2>1, <2>2
<1>8. PICK bar \in Bars : bar = Judge(Append(past, c), w, prior)
  BY <1>7, JudgeIsBar
<1>9. closes' \in Seq(Closes) /\ Len(closes') = Len(past) + 1
  BY <1>4, <1>6, AppendProperties
<1>10. judged' \in Seq(Bars) /\ Len(judged') = Len(known) + 1
  BY <1>4, <1>6, <1>8, AppendProperties
<1> QED BY <1>6, <1>9, <1>10 DEF ChartInv

LEMMA ChartIsTyped == ChartSpec => []ChartInv
<1>1. ChartInv /\ [ChartNext]_chartVars => ChartInv'
  <2> SUFFICES ASSUME ChartInv, [ChartNext]_chartVars PROVE ChartInv'
    OBVIOUS
  <2>1. CASE ChartNext
    BY <2>1, DayKeeps DEF ChartNext
  <2>2. CASE UNCHANGED chartVars
    BY <2>2 DEF chartVars, ChartInv
  <2> QED BY <2>1, <2>2
<1> QED BY <1>1, ChartBegins, PTL DEF ChartSpec

LEMMA ChartHolds == ChartInv => ChartIsWhole
<1> SUFFICES ASSUME ChartInv PROVE ChartIsWhole
  OBVIOUS
<1>1. closes \in Seq(Closes) /\ judged \in Seq(Bars) /\ Len(judged) = Len(closes)
  BY DEF ChartInv
<1>2. closes \in Seq(Prices)
  <2>1. Closes \subseteq Prices
    BY FrameAssumption DEF Prices
  <2>2. closes \in [1..Len(closes) -> Closes] /\ Len(closes) \in Nat
    BY <1>1, LenProperties
  <2>3. closes \in [1..Len(closes) -> Prices]
    BY <2>1, <2>2
  <2> QED BY <2>2, <2>3
<1>3. BandsPaintTheChart
  BY <1>1, <1>2, BarsPainted
<1>4. SwingsAlternate
  BY <1>2, SwingsHold
<1> QED BY <1>3, <1>4 DEF ChartIsWhole

\* Every bar that was judged is in a band of its chart, no band begins or ends beyond
\* the bars that were judged, and each swing goes the
\* whole way to its next extreme: for any prices, any frame and any window the
\* stages are judged by (stage.segments, elliott.zigzag).
THEOREM ChartStaysWhole == ChartSpec => []ChartIsWhole
BY ChartIsTyped, ChartHolds, PTL
=============================================================================
