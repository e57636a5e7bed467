------------------------------- MODULE FoldProofs -------------------------------
(***************************************************************************)
(* Induction over finite sets and over the turns of a loop in a form the    *)
(* provers can use, and with it what a sum over a finite set is:            *)
(* SumFunctionOnSet of Functions.tla, by which the ledgers add up what they *)
(* hold and what they have spent, and the packet plans their lengths.       *)
(***************************************************************************)
EXTENDS Integers, FiniteSetsExt, Functions, FiniteSetTheorems, WellFoundedInduction, TLAPS

-----------------------------------------------------------------------------
(* Induction *)

\* A family of subsets of a finite set has a smallest member: what does not hold of
\* every subset fails for one all of whose parts satisfy it.
LEMMA SmallestSubset ==
  ASSUME NEW S, IsFiniteSet(S), NEW B, B \subseteq SUBSET S, B # {}
  PROVE  \E T \in B : /\ IsFiniteSet(T) /\ T \subseteq S
                      /\ \A U \in SUBSET T : U # T => U \notin B
<1>1. IsWellFoundedOn(StrictSubsetOrdering(S), SUBSET S)
  BY FS_StrictSubsetOrderingWellFounded, FS_FiniteSubsetsOfFinite
<1>2. PICK T \in B : \A U \in B : <<U, T>> \notin StrictSubsetOrdering(S)
  BY <1>1, WFMin
<1>3. IsFiniteSet(T)
  BY FS_Subset
<1> QED BY <1>2, <1>3 DEF StrictSubsetOrdering

\* A set of naturals that is not empty has a least one.
LEMMA SmallestNat ==
  ASSUME NEW B, B \subseteq Nat, B # {}
  PROVE  \E n \in B : \A m \in B : n <= m
<1>1. PICK k \in B : TRUE
  OBVIOUS
<1> DEFINE F == {0..n : n \in B \cap 0..k}
<1>2. /\ IsFiniteSet(0..k)
      /\ F \subseteq SUBSET (0..k) /\ F # {}
  <2>1. IsFiniteSet(0..k)
    BY FS_Interval
  <2>2. 0..k \in F
    <3>1. k \in B \cap 0..k
      OBVIOUS
    <3> QED BY <3>1
  <2>3. \A n \in 0..k : 0..n \subseteq 0..k
    OBVIOUS
  <2>4. F \subseteq SUBSET (0..k) /\ F # {}
    BY <2>2, <2>3
  <2> QED BY <2>1, <2>4
<1>3. PICK T \in F : \A U \in SUBSET T : U # T => U \notin F
  <2> HIDE DEF F
  <2> DEFINE S == 0..k
  <2>1. IsFiniteSet(S) /\ F \subseteq SUBSET S /\ F # {}
    BY <1>2
  <2> HIDE DEF S
  <2> QED BY <2>1, SmallestSubset
<1>4. PICK n \in B \cap 0..k : T = 0..n
  OBVIOUS
<1>5. ASSUME NEW m \in B, m < n PROVE FALSE
  <2>1. m \in B \cap 0..k /\ 0..m \in SUBSET T /\ 0..m # T
    <3>1. n \in 0..n /\ n \notin 0..m
      BY <1>5
    <3> QED BY <3>1, <1>4, <1>5
  <2>2. 0..m \in F
    BY <2>1
  <2> HIDE DEF F
  <2> QED BY <2>1, <2>2, <1>3
<1>6. \A m \in B : n <= m
  BY <1>5
<1> QED BY <1>6

\* A set of naturals below a bound has a greatest member, and Max is it.
LEMMA MaxIs ==
  ASSUME NEW n \in Nat, NEW S, S \subseteq 0..n, S # {}
  PROVE  Max(S) \in S /\ \A j \in S : j <= Max(S)
<1> DEFINE B == {n - j : j \in S}
<1>1. B \subseteq Nat /\ B # {}
  <2>1. \A j \in S : j \in 0..n
    OBVIOUS
  <2>2. \A j \in 0..n : n - j \in Nat
    OBVIOUS
  <2> QED BY <2>1, <2>2
<1>2. PICK m \in B : \A k \in B : m <= k
  <2> HIDE DEF B
  <2> QED BY <1>1, SmallestNat
<1>3. PICK x \in S : m = n - x
  OBVIOUS
<1>4. \A j \in S : x >= j
  <2> TAKE j \in S
  <2>1. m <= n - j
    BY <1>2
  <2>2. j \in 0..n /\ x \in 0..n
    OBVIOUS
  <2> QED BY <2>1, <2>2, <1>3
<1>5. Max(S) \in S /\ \A j \in S : Max(S) >= j
  BY <1>4 DEF Max
<1>6. \A j \in S : j \in Nat
  OBVIOUS
<1> QED BY <1>5, <1>6

\* What holds of the first turn, and of each turn after one it holds of, holds of all.
LEMMA LoopInduction ==
  ASSUME NEW k \in Nat, NEW S, 0 \in S, \A n \in 1..k : n - 1 \in S => n \in S
  PROVE  \A n \in 0..k : n \in S
<1> DEFINE B == {n \in 0..k : n \notin S}
<1> SUFFICES ASSUME B # {} PROVE FALSE
  OBVIOUS
<1>1. PICK n \in B : \A m \in B : n <= m
  <2>1. B \subseteq 0..k /\ 0..k \subseteq Nat
    OBVIOUS
  <2> HIDE DEF B
  <2> QED BY <2>1, SmallestNat
<1>2. n \in 1..k /\ n - 1 \in 0..k /\ n \notin S
  OBVIOUS
<1>3. n - 1 \in B
  BY <1>2
<1>4. n <= n - 1
  <2> HIDE DEF B
  <2> QED BY <1>1, <1>3
<1> QED BY <1>2, <1>4

-----------------------------------------------------------------------------
(* Loops *)

\* A table of values of V over 0..k, each made of the one before by a step F[n].
IsTable(t, k, V, v, F) ==
  /\ t \in [0..k -> V]
  /\ \A n \in 0..k : t[n] = IF n = 0 THEN v ELSE F[n][t[n - 1]]

Within(F, k, V) == \A n \in 1..k : \A x \in V : F[n][x] \in V

\* A loop with finitely many turns has such a table.
LEMMA TableExists ==
  ASSUME NEW k \in Nat, NEW V, NEW v \in V, NEW F, Within(F, k, V)
  PROVE  \E t : IsTable(t, k, V, v, F)
<1> DEFINE B == {m \in 0..k : ~\E t : IsTable(t, m, V, v, F)}
<1>1. B = {}
  <2> SUFFICES ASSUME B # {} PROVE FALSE
    OBVIOUS
  <2>1. PICK m \in B : \A l \in B : m <= l
    <3>1. B \subseteq 0..k /\ 0..k \subseteq Nat
      OBVIOUS
    <3> HIDE DEF B
    <3> QED BY <3>1, SmallestNat
  <2>2. m \in 0..k /\ ~\E t : IsTable(t, m, V, v, F)
    OBVIOUS
  <2>3. m # 0
    <3>1. IsTable([n \in 0..0 |-> v], 0, V, v, F)
      BY DEF IsTable
    <3> QED BY <2>2, <3>1
  <2>4. m - 1 \in 0..k /\ m - 1 \notin B
    <3>1. m - 1 \in B => m <= m - 1
      BY <2>1
    <3> HIDE DEF B
    <3> QED BY <2>2, <2>3, <3>1
  <2>5. PICK t : IsTable(t, m - 1, V, v, F)
    BY <2>4
  <2> HIDE DEF B
  <2> DEFINE u == [n \in 0..m |-> IF n = m THEN F[m][t[m - 1]] ELSE t[n]]
  <2>6. \A n \in 0..m : u[n] \in V
    <3>1. m - 1 \in 0..(m - 1) /\ m \in 1..k
      BY <2>2, <2>3
    <3>2. F[m][t[m - 1]] \in V
      BY <2>5, <3>1 DEF IsTable, Within
    <3>3. \A n \in 0..m : n # m => n \in 0..(m - 1)
      BY <2>2
    <3> QED BY <2>5, <3>2, <3>3 DEF IsTable
  <2>7. ASSUME NEW n \in 0..m PROVE u[n] = IF n = 0 THEN v ELSE F[n][u[n - 1]]
    <3>1. CASE n = m
      <4>1. u[n] = F[n][t[n - 1]] /\ u[n - 1] = t[n - 1]
        BY <2>2, <2>3, <3>1
      <4> HIDE DEF u
      <4> QED BY <2>3, <3>1, <4>1
    <3>2. CASE n # m
      <4>1. n \in 0..(m - 1) /\ u[n] = t[n] /\ (n # 0 => u[n - 1] = t[n - 1])
        BY <2>2, <3>2
      <4> HIDE DEF u
      <4> QED BY <2>5, <4>1 DEF IsTable
    <3> QED BY <3>1, <3>2
  <2>8. u \in [0..m -> V]
    BY <2>6
  <2> HIDE DEF u
  <2>9. IsTable(u, m, V, v, F)
    BY <2>7, <2>8 DEF IsTable
  <2> QED BY <2>2, <2>9
<1> QED BY <1>1

-----------------------------------------------------------------------------
(* The recursion behind a sum *)

FirstOf(s) == CHOOSE x \in s : TRUE

SumRule(f, g, s) == IF s = {} THEN 0 ELSE f[FirstOf(s)] + g[s \ {FirstOf(s)}]

\* A table of the sums over all subsets of S.
IsSums(g, f, S) == g = [s \in SUBSET S |-> SumRule(f, g, s)]

Sums(f, S) == CHOOSE g : IsSums(g, f, S)

\* The operator of the community modules, unfolded once.
LEMMA SumIsInTable ==
  ASSUME NEW f, NEW S
  PROVE  SumFunctionOnSet(f, S) = Sums(f, S)[S]
BY DEF SumFunctionOnSet, FoldFunctionOnSet, MapThenFoldSet, Sums, IsSums, SumRule, FirstOf

LEMMA FirstIsMember == \A s : s # {} => FirstOf(s) \in s
BY DEF FirstOf

\* Two tables agree where both have an entry.
LEMMA SumsAgree ==
  ASSUME NEW f, NEW S, NEW T, IsFiniteSet(S), NEW g, NEW h, IsSums(g, f, S), IsSums(h, f, T)
  PROVE  \A U \in SUBSET (S \cap T) : g[U] = h[U]
<1> DEFINE B == {U \in SUBSET (S \cap T) : g[U] # h[U]}
<1> SUFFICES ASSUME B # {} PROVE FALSE
  OBVIOUS
<1>1. PICK U \in B : \A V \in SUBSET U : V # U => V \notin B
  <2>1. B \subseteq SUBSET (S \cap T) /\ IsFiniteSet(S \cap T)
    BY FS_Intersection
  <2> HIDE DEF B
  <2> QED BY <2>1, SmallestSubset
<1>2. g[U] = SumRule(f, g, U) /\ h[U] = SumRule(f, h, U)
  BY DEF IsSums
<1>3. U # {} /\ FirstOf(U) \in U
  BY <1>2, FirstIsMember DEF SumRule
<1>4. g[U \ {FirstOf(U)}] = h[U \ {FirstOf(U)}]
  BY <1>1, <1>3
<1>5. g[U] = h[U]
  BY <1>2, <1>3, <1>4 DEF SumRule
<1> QED BY <1>5

\* The recursion has a solution.
LEMMA SumsExist ==
  ASSUME NEW f, NEW S, IsFiniteSet(S)
  PROVE  IsSums(Sums(f, S), f, S)
<1> DEFINE B == {U \in SUBSET S : ~\E g : IsSums(g, f, U)}
<1> SUFFICES ASSUME B # {} PROVE FALSE
  BY DEF Sums
<1>1. PICK T \in B : IsFiniteSet(T) /\ \A V \in SUBSET T : V # T => V \notin B
  <2>1. B \subseteq SUBSET S
    OBVIOUS
  <2> HIDE DEF B
  <2> QED BY <2>1, SmallestSubset
<1> DEFINE value(s) == IF s = {} THEN 0
                       ELSE f[FirstOf(s)] + Sums(f, s \ {FirstOf(s)})[s \ {FirstOf(s)}]
           G == [s \in SUBSET T |-> value(s)]
<1>2. \A V \in SUBSET T : V # T => IsSums(Sums(f, V), f, V)
  BY <1>1 DEF Sums
<1>3. \A V \in SUBSET T : V # T => Sums(f, V)[V] = G[V]
  <2> SUFFICES ASSUME NEW V \in SUBSET T, V # T PROVE Sums(f, V)[V] = G[V]
    OBVIOUS
  <2>1. Sums(f, V)[V] = SumRule(f, Sums(f, V), V)
    BY <1>2 DEF IsSums
  <2>2. CASE V = {}
    BY <2>1, <2>2 DEF SumRule
  <2>3. CASE V # {}
    <3> DEFINE W == V \ {FirstOf(V)}
    <3>1. FirstOf(V) \in V /\ W \in SUBSET T /\ W # T /\ W \subseteq V
      BY <2>3, FirstIsMember
    <3>2. IsSums(Sums(f, W), f, W) /\ IsSums(Sums(f, V), f, V)
      BY <1>2, <3>1
    <3>3. IsFiniteSet(V)
      BY <1>1, FS_Subset
    <3>4. Sums(f, V)[W] = Sums(f, W)[W]
      <4> HIDE DEF W
      <4> QED BY <3>1, <3>2, <3>3, SumsAgree
    <3>5. Sums(f, V)[V] = f[FirstOf(V)] + Sums(f, V)[W]
      BY <2>1, <2>3 DEF SumRule
    <3>6. G[V] = f[FirstOf(V)] + Sums(f, W)[W]
      BY <2>3
    <3> QED BY <3>4, <3>5, <3>6
  <2> QED BY <2>2, <2>3
<1>4. \A s \in SUBSET T : value(s) = SumRule(f, G, s)
  <2> SUFFICES ASSUME NEW s \in SUBSET T, s # {}
               PROVE  Sums(f, s \ {FirstOf(s)})[s \ {FirstOf(s)}] = G[s \ {FirstOf(s)}]
    BY DEF SumRule
  <2> DEFINE W == s \ {FirstOf(s)}
  <2>1. W \in SUBSET T /\ W # T
    BY FirstIsMember
  <2> HIDE DEF G, W
  <2>2. Sums(f, W)[W] = G[W]
    BY <1>3, <2>1
  <2> QED BY <2>2 DEF W
<1>5. IsSums(G, f, T)
  <2>1. G = [s \in SUBSET T |-> SumRule(f, G, s)]
    BY <1>4
  <2> QED BY <2>1 DEF IsSums
<1> QED BY <1>5

-----------------------------------------------------------------------------
(* Sums *)

\* A sum takes its elements one after the other.
LEMMA SumStep ==
  ASSUME NEW f, NEW S, IsFiniteSet(S)
  PROVE  /\ SumFunctionOnSet(f, {}) = 0
         /\ S # {} => /\ FirstOf(S) \in S
                      /\ SumFunctionOnSet(f, S) =
                           f[FirstOf(S)] + SumFunctionOnSet(f, S \ {FirstOf(S)})
<1>1. Sums(f, {})[{}] = 0
  <2>1. IsSums(Sums(f, {}), f, {})
    BY SumsExist, FS_EmptySet
  <2> QED BY <2>1 DEF IsSums, SumRule
<1>2. ASSUME S # {}
      PROVE  SumFunctionOnSet(f, S) = f[FirstOf(S)] + SumFunctionOnSet(f, S \ {FirstOf(S)})
  <2> DEFINE T == S \ {FirstOf(S)}
  <2>1. IsFiniteSet(T)
    BY FS_RemoveElement
  <2>2. T \in SUBSET (S \cap T) /\ T \in SUBSET S
    OBVIOUS
  <2> HIDE DEF T
  <2>3. Sums(f, S)[T] = Sums(f, T)[T]
    BY <2>1, <2>2, SumsAgree, SumsExist
  <2>4. Sums(f, S) = [s \in SUBSET S |-> SumRule(f, Sums(f, S), s)]
    <3>1. IsSums(Sums(f, S), f, S)
      BY SumsExist
    <3> QED BY <3>1 DEF IsSums
  <2>5. S \in SUBSET S
    OBVIOUS
  <2>6. Sums(f, S)[S] = SumRule(f, Sums(f, S), S)
    BY <2>4, <2>5
  <2> QED BY <1>2, <2>3, <2>6, SumIsInTable DEF SumRule, T
<1> QED BY <1>1, <1>2, SumIsInTable, FirstIsMember

\* It is a number, and not negative if no element is.
LEMMA SumType ==
  ASSUME NEW f, NEW S, IsFiniteSet(S), \A x \in S : f[x] \in Int
  PROVE  /\ SumFunctionOnSet(f, S) \in Int
         /\ (\A x \in S : f[x] >= 0) => SumFunctionOnSet(f, S) >= 0
<1> DEFINE Right(U) == /\ SumFunctionOnSet(f, U) \in Int
                       /\ (\A x \in S : f[x] >= 0) => SumFunctionOnSet(f, U) >= 0
           B == {U \in SUBSET S : ~Right(U)}
<1> SUFFICES ASSUME B # {} PROVE FALSE
  OBVIOUS
<1>1. PICK U \in B : /\ IsFiniteSet(U) /\ U \subseteq S
                     /\ \A V \in SUBSET U : V # U => V \notin B
  <2>1. B \subseteq SUBSET S
    OBVIOUS
  <2> HIDE DEF B
  <2> QED BY <2>1, SmallestSubset
<1>2. U # {}
  <2>1. SumFunctionOnSet(f, {}) = 0
    BY SumStep
  <2>2. Right({})
    BY <2>1
  <2> QED BY <2>2
<1>3. FirstOf(U) \in U /\ SumFunctionOnSet(f, U) = f[FirstOf(U)] + SumFunctionOnSet(f, U \ {FirstOf(U)})
  BY <1>1, <1>2, SumStep
<1>4. Right(U \ {FirstOf(U)})
  BY <1>1, <1>3
<1>5. Right(U)
  BY <1>1, <1>3, <1>4
<1> QED BY <1>5

\* Any element may be taken first.
LEMMA SumPick ==
  ASSUME NEW f, NEW S, IsFiniteSet(S), \A x \in S : f[x] \in Int, NEW y \in S
  PROVE  SumFunctionOnSet(f, S) = f[y] + SumFunctionOnSet(f, S \ {y})
<1> DEFINE Sum(U) == SumFunctionOnSet(f, U)
           B == {U \in SUBSET S : \E x \in U : Sum(U) # f[x] + Sum(U \ {x})}
<1> SUFFICES ASSUME B # {} PROVE FALSE
  OBVIOUS
<1>1. PICK U \in B : /\ IsFiniteSet(U) /\ U \subseteq S
                     /\ \A V \in SUBSET U : V # U => V \notin B
  <2>1. B \subseteq SUBSET S
    OBVIOUS
  <2> HIDE DEF B
  <2> QED BY <2>1, SmallestSubset
<1>2. PICK x \in U : Sum(U) # f[x] + Sum(U \ {x})
  OBVIOUS
<1> DEFINE c == FirstOf(U)
           rest == U \ {c, x}
<1>3. IsFiniteSet(rest)
  BY <1>1, FS_Subset
<1>4. c \in U /\ Sum(U) = f[c] + Sum(U \ {c})
  BY <1>1, SumStep
<1>5. x # c
  BY <1>2, <1>4
<1>6. (U \ {c}) \ {x} = rest /\ (U \ {x}) \ {c} = rest
  OBVIOUS
<1> HIDE DEF c
<1>7. Sum(U \ {c}) = f[x] + Sum(rest)
  <2>1. U \ {c} \notin B
    BY <1>1, <1>4
  <2> QED BY <1>1, <1>5, <1>6, <2>1
<1>8. Sum(U \ {x}) = f[c] + Sum(rest)
  <2>1. U \ {x} \notin B
    BY <1>1
  <2> QED BY <1>1, <1>4, <1>5, <1>6, <2>1
<1>9. Sum(rest) \in Int /\ f[x] \in Int /\ f[c] \in Int
  BY <1>1, <1>3, <1>4, SumType
<1> QED BY <1>2, <1>4, <1>7, <1>8, <1>9

\* Sums add up element by element.
LEMMA SumAdd ==
  ASSUME NEW f, NEW g, NEW h, NEW S, IsFiniteSet(S),
         \A x \in S : f[x] \in Int /\ g[x] \in Int /\ h[x] = f[x] + g[x]
  PROVE  SumFunctionOnSet(h, S) = SumFunctionOnSet(f, S) + SumFunctionOnSet(g, S)
<1> DEFINE Right(U) == SumFunctionOnSet(h, U) = SumFunctionOnSet(f, U) + SumFunctionOnSet(g, U)
           B == {U \in SUBSET S : ~Right(U)}
<1> SUFFICES ASSUME B # {} PROVE FALSE
  OBVIOUS
<1>1. PICK U \in B : /\ IsFiniteSet(U) /\ U \subseteq S
                     /\ \A V \in SUBSET U : V # U => V \notin B
  <2>1. B \subseteq SUBSET S
    OBVIOUS
  <2> HIDE DEF B
  <2> QED BY <2>1, SmallestSubset
<1>2. U # {}
  <2>1. /\ SumFunctionOnSet(f, {}) = 0 /\ SumFunctionOnSet(g, {}) = 0
        /\ SumFunctionOnSet(h, {}) = 0
    BY SumStep
  <2>2. Right({})
    BY <2>1
  <2> QED BY <2>2
<1> DEFINE c == FirstOf(U)
           rest == U \ {c}
<1>3. /\ c \in U
      /\ SumFunctionOnSet(f, U) = f[c] + SumFunctionOnSet(f, rest)
      /\ SumFunctionOnSet(g, U) = g[c] + SumFunctionOnSet(g, rest)
      /\ SumFunctionOnSet(h, U) = h[c] + SumFunctionOnSet(h, rest)
  BY <1>1, <1>2, SumStep
<1>4. Right(rest)
  BY <1>1, <1>3
<1>5. /\ SumFunctionOnSet(f, rest) \in Int /\ SumFunctionOnSet(g, rest) \in Int
      /\ f[c] \in Int /\ g[c] \in Int /\ h[c] = f[c] + g[c]
  <2>1. IsFiniteSet(rest) /\ \A x \in rest : f[x] \in Int /\ g[x] \in Int
    BY <1>1, FS_Subset
  <2> QED BY <1>1, <1>3, <2>1, SumType
<1>6. Right(U)
  <2> HIDE DEF c, rest
  <2> QED BY <1>3, <1>4, <1>5
<1> QED BY <1>6

\* A sum of equal elements.
LEMMA SumConstant ==
  ASSUME NEW f, NEW S, IsFiniteSet(S), NEW n \in Int, \A x \in S : f[x] = n
  PROVE  SumFunctionOnSet(f, S) = Cardinality(S) * n
<1> DEFINE Right(U) == SumFunctionOnSet(f, U) = Cardinality(U) * n
           B == {U \in SUBSET S : ~Right(U)}
<1> SUFFICES ASSUME B # {} PROVE FALSE
  OBVIOUS
<1>1. PICK U \in B : /\ IsFiniteSet(U) /\ U \subseteq S
                     /\ \A V \in SUBSET U : V # U => V \notin B
  <2>1. B \subseteq SUBSET S
    OBVIOUS
  <2> HIDE DEF B
  <2> QED BY <2>1, SmallestSubset
<1>2. U # {}
  <2>a. SumFunctionOnSet(f, {}) = 0
    BY SumStep
  <2>1. SumFunctionOnSet(f, {}) = 0 /\ Cardinality({}) = 0 /\ 0 * n = 0
    BY <2>a, FS_EmptySet
  <2>2. Right({})
    BY <2>1
  <2> QED BY <2>2
<1> DEFINE c == FirstOf(U)
           rest == U \ {c}
<1>3. c \in U /\ SumFunctionOnSet(f, U) = f[c] + SumFunctionOnSet(f, rest)
  BY <1>1, <1>2, SumStep
<1>4. Right(rest)
  BY <1>1, <1>3
<1>5. Cardinality(U) \in Nat /\ Cardinality(rest) = Cardinality(U) - 1
  BY <1>1, <1>3, FS_CardinalityType, FS_RemoveElement
<1>6. \A k \in Nat : n + (k - 1) * n = k * n
  OBVIOUS
<1>7. Right(U)
  <2> HIDE DEF c, rest
  <2> QED BY <1>1, <1>3, <1>4, <1>5, <1>6
<1> QED BY <1>7

\* Elements that are zero do not count.
LEMMA SumSupport ==
  ASSUME NEW f, NEW g, NEW S, IsFiniteSet(S), NEW D \in SUBSET S,
         \A x \in D : f[x] \in Int /\ f[x] = g[x], \A x \in S \ D : f[x] = 0
  PROVE  SumFunctionOnSet(f, S) = SumFunctionOnSet(g, D)
<1> DEFINE Right(U) == SumFunctionOnSet(f, U) = SumFunctionOnSet(g, U \cap D)
           B == {U \in SUBSET S : ~Right(U)}
<1> SUFFICES ASSUME B # {} PROVE FALSE
  <2>1. S \notin B /\ S \cap D = D
    OBVIOUS
  <2> QED BY <2>1
<1>1. PICK U \in B : /\ IsFiniteSet(U) /\ U \subseteq S
                     /\ \A V \in SUBSET U : V # U => V \notin B
  <2>1. B \subseteq SUBSET S
    OBVIOUS
  <2> HIDE DEF B
  <2> QED BY <2>1, SmallestSubset
<1>2. U # {}
  <2>1. SumFunctionOnSet(f, {}) = 0 /\ SumFunctionOnSet(g, {}) = 0 /\ {} \cap D = {}
    BY SumStep
  <2>2. Right({})
    BY <2>1
  <2> QED BY <2>2
<1> DEFINE c == FirstOf(U)
           rest == U \ {c}
<1>3. c \in U /\ SumFunctionOnSet(f, U) = f[c] + SumFunctionOnSet(f, rest)
  BY <1>1, <1>2, SumStep
<1>4. Right(rest)
  BY <1>1, <1>3
<1>5. /\ IsFiniteSet(U \cap D) /\ IsFiniteSet(rest \cap D) /\ IsFiniteSet(rest)
      /\ \A x \in S : f[x] \in Int
      /\ \A x \in U \cap D : g[x] \in Int
  BY <1>1, FS_Intersection, FS_Subset
<1>6. SumFunctionOnSet(f, rest) \in Int
  BY <1>1, <1>5, SumType
<1>7. Right(U)
  <2>1. CASE c \in D
    <3>1. (U \cap D) \ {c} = rest \cap D
      OBVIOUS
    <3>2. SumFunctionOnSet(g, U \cap D) = g[c] + SumFunctionOnSet(g, rest \cap D)
      <4> HIDE DEF c
      <4> QED BY <1>3, <1>5, <2>1, <3>1, SumPick
    <3> HIDE DEF c, rest
    <3> QED BY <1>3, <1>4, <2>1, <3>2
  <2>2. CASE c \notin D
    <3>1. U \cap D = rest \cap D /\ f[c] = 0
      BY <1>1, <1>3, <2>2
    <3>2. SumFunctionOnSet(f, U) = 0 + SumFunctionOnSet(f, rest)
      BY <1>3, <3>1
    <3>3. SumFunctionOnSet(f, U) = SumFunctionOnSet(f, rest)
      <4> HIDE DEF rest
      <4> QED BY <1>6, <3>2
    <3> QED BY <1>4, <3>1, <3>3
  <2> QED BY <2>1, <2>2
<1> QED BY <1>7

\* A sum depends on the values over its set alone.
LEMMA SumSame ==
  ASSUME NEW f, NEW g, NEW S, IsFiniteSet(S), \A x \in S : f[x] \in Int /\ f[x] = g[x]
  PROVE  SumFunctionOnSet(f, S) = SumFunctionOnSet(g, S)
BY SumSupport

\* One value changes.
LEMMA SumChange ==
  ASSUME NEW f, NEW g, NEW S, IsFiniteSet(S), NEW y \in S,
         \A x \in S : f[x] \in Int /\ g[x] \in Int,
         \A x \in S \ {y} : f[x] = g[x]
  PROVE  SumFunctionOnSet(g, S) = SumFunctionOnSet(f, S) - f[y] + g[y]
<1>1. IsFiniteSet(S \ {y})
  BY FS_RemoveElement
<1>2. /\ SumFunctionOnSet(f, S) = f[y] + SumFunctionOnSet(f, S \ {y})
      /\ SumFunctionOnSet(g, S) = g[y] + SumFunctionOnSet(g, S \ {y})
  BY SumPick
<1>3. /\ SumFunctionOnSet(f, S \ {y}) = SumFunctionOnSet(g, S \ {y})
      /\ SumFunctionOnSet(f, S \ {y}) \in Int
  BY <1>1, SumSame, SumType
<1> QED BY <1>2, <1>3

\* One more element adds its value.
LEMMA SumExtend ==
  ASSUME NEW f, NEW S, IsFiniteSet(S), NEW y, y \notin S, \A x \in S \cup {y} : f[x] \in Int
  PROVE  SumFunctionOnSet(f, S \cup {y}) = f[y] + SumFunctionOnSet(f, S)
<1>1. IsFiniteSet(S \cup {y}) /\ (S \cup {y}) \ {y} = S
  BY FS_AddElement
<1> QED BY <1>1, SumPick

\* A part sums up to no more than the whole if no element is negative.
LEMMA SumMonotone ==
  ASSUME NEW f, NEW S, IsFiniteSet(S), NEW T \in SUBSET S, \A x \in S : f[x] \in Nat
  PROVE  SumFunctionOnSet(f, T) <= SumFunctionOnSet(f, S)
<1> DEFINE g == [x \in S |-> IF x \in T THEN f[x] ELSE 0]
           h == [x \in S |-> IF x \in T THEN 0 ELSE f[x]]
<1>1. SumFunctionOnSet(g, S) = SumFunctionOnSet(f, T)
  <2>1. \A x \in T : g[x] \in Int /\ g[x] = f[x]
    OBVIOUS
  <2>2. \A x \in S \ T : g[x] = 0
    OBVIOUS
  <2> HIDE DEF g
  <2> QED BY <2>1, <2>2, SumSupport
<1>2. SumFunctionOnSet(f, S) = SumFunctionOnSet(g, S) + SumFunctionOnSet(h, S)
  <2>1. \A x \in S : g[x] \in Int /\ h[x] \in Int /\ f[x] = g[x] + h[x]
    OBVIOUS
  <2> HIDE DEF g, h
  <2> QED BY <2>1, SumAdd
<1>3. /\ SumFunctionOnSet(g, S) \in Int /\ SumFunctionOnSet(h, S) \in Int
      /\ SumFunctionOnSet(h, S) >= 0
  <2>1. \A x \in S : g[x] \in Int /\ h[x] \in Int /\ h[x] >= 0
    OBVIOUS
  <2> HIDE DEF g, h
  <2> QED BY <2>1, SumType
<1> HIDE DEF g, h
<1> QED BY <1>1, <1>2, <1>3

=============================================================================
