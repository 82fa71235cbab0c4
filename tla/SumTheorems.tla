----------------------------- MODULE SumTheorems -----------------------------
(***************************************************************************)
(* Sums over finite sets, which the models write with the folds of the     *)
(* community modules: the order in which the fold chooses the elements     *)
(* makes no difference.                                                    *)
(***************************************************************************)
EXTENDS Functions, FiniteSetTheorems, TLAPS

\* Induction: a set of naturals that is not empty has a least element.
THEOREM LeastNat == ASSUME NEW T \in SUBSET Nat, T # {}
                    PROVE  \E m \in T : \A s \in T : m <= s
<1> DEFINE Less == {ss \in Nat \X Nat : ss[1] < ss[2]}
<1>1. IsWellFoundedOn(Less, Nat)
  BY NatLessThanWellFounded, Zenon DEF OpToRel
<1>2. PICK m \in T : \A s \in T : ~(<<s, m>> \in Less)
  <2> HIDE DEF Less
  <2> QED BY <1>1, WFMin
<1>3. ASSUME NEW s \in T PROVE m <= s
  <2>1. <<s, m>> \in Nat \X Nat /\ <<s, m>>[1] = s /\ <<s, m>>[2] = m
    OBVIOUS
  <2>2. s < m => <<s, m>> \in Less
    BY <2>1, Zenon
  <2> QED BY <1>2, <2>2
<1> QED BY <1>3

\* A property of subsets that fails has a smallest subset on which it fails.
LEMMA Smallest ==
  ASSUME NEW S, IsFiniteSet(S), NEW Fails \in SUBSET (SUBSET S), Fails # {}
  PROVE  \E u \in Fails : \A v \in Fails : Cardinality(u) <= Cardinality(v)
<1> DEFINE sizes == {Cardinality(u) : u \in Fails}
<1>1. \A u \in Fails : Cardinality(u) \in Nat
  BY FS_Subset, FS_CardinalityType
<1>2. PICK m \in sizes : \A s \in sizes : m <= s
  <2>1. sizes \in SUBSET Nat /\ sizes # {}
    BY <1>1
  <2> HIDE DEF sizes
  <2> QED BY <2>1, LeastNat
<1> QED BY <1>2

-----------------------------------------------------------------------------
\* The element of s that a fold takes, and the recursion it takes it by.
Pick(s) == CHOOSE x \in s : TRUE

IsSum(G, f, S) ==
  G = [s \in SUBSET S |-> IF s = {} THEN 0 ELSE f[Pick(s)] + G[s \ {Pick(s)}]]

LEMMA PickIsIn == ASSUME NEW s, s # {} PROVE Pick(s) \in s
  BY Zenon DEF Pick

LEMMA SumIsFold ==
  ASSUME NEW f, NEW S
  PROVE  SumFunctionOnSet(f, S) = (CHOOSE G : IsSum(G, f, S))[S]
  BY DEF SumFunctionOnSet, FoldFunctionOnSet, MapThenFoldSet, IsSum, Pick

\* The recursion as it is applied to one set.
StepOf(G, f, s) == IF s = {} THEN 0 ELSE f[Pick(s)] + G[s \ {Pick(s)}]

SumUpTo(G, f, S, n) == \A s \in SUBSET S : Cardinality(s) <= n => G[s] = StepOf(G, f, s)

\* Without the element picked a set is smaller.
LEMMA WithoutPick ==
  ASSUME NEW S, IsFiniteSet(S), NEW s \in SUBSET S
  PROVE  /\ IsFiniteSet(s) /\ Cardinality(s) \in Nat
         /\ s # {} => /\ Pick(s) \in s /\ s \ {Pick(s)} \in SUBSET S
                      /\ Cardinality(s \ {Pick(s)}) = Cardinality(s) - 1
                      /\ Cardinality(s) > 0
<1>1. IsFiniteSet(s) /\ Cardinality(s) \in Nat
  BY FS_Subset, FS_CardinalityType
<1>2. ASSUME s # {} PROVE Cardinality(s \ {Pick(s)}) = Cardinality(s) - 1 /\ Cardinality(s) > 0
  <2>1. Pick(s) \in s
    BY <1>2, PickIsIn
  <2>2. Cardinality(s \ {Pick(s)}) = Cardinality(s) - 1
    BY <1>1, <2>1, FS_RemoveElement
  <2>3. Cardinality(s) # 0
    BY <1>1, <1>2, FS_EmptySet
  <2> QED BY <1>1, <2>2, <2>3
<1> QED BY <1>1, <1>2, PickIsIn

\* The recursion has a solution: one for the sets of n elements extends one for
\* the smaller sets.
LEMMA SumExists ==
  ASSUME NEW S, IsFiniteSet(S), NEW f
  PROVE  \E G : IsSum(G, f, S)
<1> DEFINE Ex(n) == \E G : SumUpTo(G, f, S, n)
           Bad == {n \in Nat : ~Ex(n)}
<1>1. Ex(0)
  <2>1. SumUpTo([s \in SUBSET S |-> 0], f, S, 0)
    <3> SUFFICES ASSUME NEW s \in SUBSET S, Cardinality(s) <= 0
                 PROVE  0 = StepOf([t \in SUBSET S |-> 0], f, s)
      BY DEF SumUpTo
    <3>1. Cardinality(s) \in Nat /\ (s # {} => Cardinality(s) > 0)
      BY WithoutPick
    <3>2. s = {}
      BY <3>1
    <3> QED BY <3>2 DEF StepOf
  <2> QED BY <2>1
<1>2. ASSUME NEW n \in Nat, Ex(n) PROVE Ex(n + 1)
  <2>1. PICK G : SumUpTo(G, f, S, n)
    BY <1>2
  <2> DEFINE H == [s \in SUBSET S |-> IF Cardinality(s) <= n THEN G[s] ELSE StepOf(G, f, s)]
  <2>2. ASSUME NEW s \in SUBSET S, Cardinality(s) <= n + 1 PROVE H[s] = StepOf(H, f, s)
    <3>1. s # {} => /\ s \ {Pick(s)} \in SUBSET S
                    /\ Cardinality(s \ {Pick(s)}) <= n
      BY <2>2, WithoutPick
    <3>2. s # {} => H[s \ {Pick(s)}] = G[s \ {Pick(s)}]
      BY <3>1
    <3>3. StepOf(H, f, s) = StepOf(G, f, s)
      BY <3>2 DEF StepOf
    <3>4. H[s] = IF Cardinality(s) <= n THEN G[s] ELSE StepOf(G, f, s)
      OBVIOUS
    <3>5. Cardinality(s) <= n => G[s] = StepOf(G, f, s)
      BY <2>1 DEF SumUpTo
    <3> HIDE DEF H
    <3> QED BY <3>3, <3>4, <3>5
  <2> HIDE DEF H
  <2>3. SumUpTo(H, f, S, n + 1)
    BY <2>2 DEF SumUpTo
  <2> QED BY <2>3
<1> HIDE DEF Ex
<1>3. Bad = {}
  <2> SUFFICES ASSUME Bad # {} PROVE FALSE
    OBVIOUS
  <2>1. PICK m \in Bad : \A n \in Bad : m <= n
    <3>1. Bad \in SUBSET Nat
      OBVIOUS
    <3> HIDE DEF Bad
    <3> QED BY <3>1, LeastNat
  <2>2. m \in Nat /\ m # 0 /\ ~Ex(m)
    BY <1>1
  <2>3. m - 1 \in Nat /\ ~(m <= m - 1)
    BY <2>2
  <2>4. Ex(m - 1)
    BY <2>1, <2>3
  <2>5. Ex((m - 1) + 1)
    BY <1>2, <2>3, <2>4
  <2> QED BY <2>2, <2>5
<1>4. PICK G : SumUpTo(G, f, S, Cardinality(S))
  <2>1. Ex(Cardinality(S))
    BY <1>3, FS_CardinalityType
  <2> QED BY <2>1 DEF Ex
<1> DEFINE H == [s \in SUBSET S |-> G[s]]
<1>5. ASSUME NEW s \in SUBSET S PROVE H[s] = StepOf(H, f, s)
  <2>1. Cardinality(s) <= Cardinality(S)
    BY FS_Subset
  <2>2. G[s] = StepOf(G, f, s)
    BY <1>4, <2>1 DEF SumUpTo
  <2>3. s # {} => H[s \ {Pick(s)}] = G[s \ {Pick(s)}]
    OBVIOUS
  <2>4. StepOf(H, f, s) = StepOf(G, f, s)
    BY <2>3 DEF StepOf
  <2> QED BY <2>2, <2>4
<1>6. IsSum(H, f, S)
  <2>1. H = [s \in SUBSET S |-> H[s]]
    OBVIOUS
  <2> HIDE DEF H
  <2>2. [s \in SUBSET S |-> H[s]] = [s \in SUBSET S |-> StepOf(H, f, s)]
    BY <1>5
  <2> QED BY <2>1, <2>2, Zenon DEF IsSum, StepOf
<1> QED BY <1>6

\* A solution has the value of the recursion on every subset.
LEMMA SumStep ==
  ASSUME NEW S, NEW f, NEW G, IsSum(G, f, S), NEW s \in SUBSET S
  PROVE  G[s] = IF s = {} THEN 0 ELSE f[Pick(s)] + G[s \ {Pick(s)}]
  BY DEF IsSum

\* Where two functions agree, so do their sums.
LEMMA SumsAgree ==
  ASSUME NEW S, NEW T, NEW f, NEW g, NEW G, NEW H, IsSum(G, f, S), IsSum(H, g, T),
         NEW u \in SUBSET (S \cap T), IsFiniteSet(u), \A x \in u : f[x] = g[x]
  PROVE  G[u] = H[u]
<1> DEFINE Fails == {v \in SUBSET u : G[v] # H[v]}
<1> SUFFICES ASSUME Fails # {} PROVE FALSE
  OBVIOUS
<1>1. PICK v \in Fails : \A w \in Fails : Cardinality(v) <= Cardinality(w)
  <2>1. Fails \in SUBSET (SUBSET u)
    OBVIOUS
  <2> HIDE DEF Fails
  <2> QED BY <2>1, Smallest
<1>2. v \in SUBSET u /\ v \in SUBSET S /\ v \in SUBSET T /\ G[v] # H[v]
  OBVIOUS
<1>3. v # {}
  BY <1>2, SumStep
<1> DEFINE w == v \ {Pick(v)}
<1>4. Pick(v) \in v /\ w \in SUBSET u /\ Cardinality(w) = Cardinality(v) - 1
      /\ Cardinality(v) \in Nat
  BY <1>2, <1>3, WithoutPick
<1>5. G[w] = H[w]
  BY <1>1, <1>4
<1>6. G[v] = f[Pick(v)] + G[w] /\ H[v] = g[Pick(v)] + H[w]
  BY <1>2, <1>3, SumStep
<1> QED BY <1>2, <1>4, <1>5, <1>6

-----------------------------------------------------------------------------
(* The sum over a set. *)

\* The sum of f over S has the value of any solution on any set that contains S.
LEMMA SumIs ==
  ASSUME NEW S, IsFiniteSet(S), NEW f,
         NEW T, NEW g, NEW G, IsSum(G, g, T), S \subseteq T, \A x \in S : f[x] = g[x]
  PROVE  SumFunctionOnSet(f, S) = G[S]
<1> DEFINE H == CHOOSE H : IsSum(H, f, S)
<1>1. IsSum(H, f, S)
  <2>1. \E I : IsSum(I, f, S)
    BY SumExists
  <2> QED BY <2>1, Zenon
<1>2. SumFunctionOnSet(f, S) = H[S]
  BY SumIsFold
<1> HIDE DEF H
<1> QED BY <1>1, <1>2, SumsAgree

\* The sum of nothing is zero.
THEOREM SumEmpty == ASSUME NEW f PROVE SumFunctionOnSet(f, {}) = 0
<1>1. PICK G : IsSum(G, f, {})
  BY SumExists, FS_EmptySet
<1>2. G[{}] = 0
  BY <1>1, SumStep
<1> QED BY <1>1, <1>2, SumIs, FS_EmptySet

\* Equal values give equal sums.
THEOREM SumSame ==
  ASSUME NEW S, IsFiniteSet(S), NEW f, NEW g, \A x \in S : f[x] = g[x]
  PROVE  SumFunctionOnSet(f, S) = SumFunctionOnSet(g, S)
<1>1. PICK G : IsSum(G, g, S)
  BY SumExists
<1>2. SumFunctionOnSet(f, S) = G[S] /\ SumFunctionOnSet(g, S) = G[S]
  BY <1>1, SumIs
<1> QED BY <1>2

LEMMA NatSums ==
  ASSUME NEW S, IsFiniteSet(S), NEW f, \A x \in S : f[x] \in Nat,
         NEW G, IsSum(G, f, S), NEW u \in SUBSET S
  PROVE  G[u] \in Nat
<1> DEFINE Fails == {v \in SUBSET S : G[v] \notin Nat}
<1> SUFFICES ASSUME Fails # {} PROVE FALSE
  OBVIOUS
<1>1. PICK v \in Fails : \A w \in Fails : Cardinality(v) <= Cardinality(w)
  <2>1. Fails \in SUBSET (SUBSET S)
    OBVIOUS
  <2> HIDE DEF Fails
  <2> QED BY <2>1, Smallest
<1>2. v \in SUBSET S /\ G[v] \notin Nat
  OBVIOUS
<1>3. v # {}
  <2>1. v = {} => G[v] = 0
    BY <1>2, SumStep
  <2> QED BY <1>2, <2>1
<1> DEFINE w == v \ {Pick(v)}
<1>4. Pick(v) \in v /\ w \in SUBSET S /\ Cardinality(w) = Cardinality(v) - 1
      /\ Cardinality(v) \in Nat
  BY <1>2, <1>3, WithoutPick
<1>5. G[w] \in Nat
  BY <1>1, <1>4
<1>6. G[v] = f[Pick(v)] + G[w]
  BY <1>2, <1>3, SumStep
<1> QED BY <1>2, <1>4, <1>5, <1>6

\* Whatever element is picked, the sum is that of the others and its own value.
LEMMA AnyOrder ==
  ASSUME NEW S, IsFiniteSet(S), NEW f, \A x \in S : f[x] \in Nat,
         NEW G, IsSum(G, f, S), NEW u \in SUBSET S, NEW x \in S \ u
  PROVE  G[u \cup {x}] = f[x] + G[u]
<1> DEFINE Fails == {v \in SUBSET S : \E y \in S \ v : G[v \cup {y}] # f[y] + G[v]}
<1> SUFFICES ASSUME Fails # {} PROVE FALSE
  OBVIOUS
<1>1. PICK v \in Fails : \A w \in Fails : Cardinality(v) <= Cardinality(w)
  <2>1. Fails \in SUBSET (SUBSET S)
    OBVIOUS
  <2> HIDE DEF Fails
  <2> QED BY <2>1, Smallest
<1>2. PICK y \in S \ v : G[v \cup {y}] # f[y] + G[v]
  OBVIOUS
<1>3. v \in SUBSET S
  OBVIOUS
<1> DEFINE all == v \cup {y}
           p == Pick(all)
<1>4. G[all] = f[p] + G[all \ {p}] /\ p \in all
  <2>1. all \in SUBSET S /\ all # {}
    BY <1>3
  <2> HIDE DEF all, p, Fails
  <2>2. G[all] = f[Pick(all)] + G[all \ {Pick(all)}]
    BY <2>1, SumStep
  <2> QED BY <2>1, <2>2, PickIsIn DEF p
<1>5. p # y
  <2>1. all \ {y} = v
    BY <1>2
  <2> QED BY <1>2, <1>4, <2>1
<1> DEFINE w == v \ {p}
<1>6. p \in v /\ w \in SUBSET S /\ p \notin w /\ y \in S \ w
      /\ v = w \cup {p} /\ all \ {p} = w \cup {y}
  BY <1>2, <1>3, <1>4, <1>5
<1>7. w \notin Fails
  <2>1. IsFiniteSet(v) /\ Cardinality(v) \in Nat
    BY <1>3, FS_Subset, FS_CardinalityType
  <2> HIDE DEF Fails, p
  <2>2. Cardinality(w) = Cardinality(v) - 1
    BY <1>6, <2>1, FS_RemoveElement
  <2>3. ~(Cardinality(v) <= Cardinality(w))
    BY <2>1, <2>2
  <2> QED BY <1>1, <2>3
<1> HIDE DEF p
<1>8. \A z \in S \ w : G[w \cup {z}] = f[z] + G[w]
  BY <1>6, <1>7
<1>9. G[v] = f[p] + G[w] /\ G[all \ {p}] = f[y] + G[w]
  <2>1. p \in S \ w
    BY <1>3, <1>6
  <2> QED BY <1>6, <1>8, <2>1
<1>10. G[w] \in Nat /\ f[p] \in Nat /\ f[y] \in Nat
  BY <1>3, <1>6, NatSums
<1> QED BY <1>2, <1>4, <1>9, <1>10

\* A sum of naturals is a natural.
THEOREM SumType ==
  ASSUME NEW S, IsFiniteSet(S), NEW f, \A x \in S : f[x] \in Nat
  PROVE  SumFunctionOnSet(f, S) \in Nat
<1>1. PICK G : IsSum(G, f, S)
  BY SumExists
<1>2. SumFunctionOnSet(f, S) = G[S]
  BY <1>1, SumIs
<1> QED BY <1>1, <1>2, NatSums

\* One more element adds its value.
THEOREM SumAdds ==
  ASSUME NEW S, IsFiniteSet(S), NEW x, x \notin S, NEW f, \A y \in S \cup {x} : f[y] \in Nat
  PROVE  SumFunctionOnSet(f, S \cup {x}) = f[x] + SumFunctionOnSet(f, S)
<1> DEFINE T == S \cup {x}
<1>1. IsFiniteSet(T)
  BY FS_AddElement
<1>2. PICK G : IsSum(G, f, T)
  BY <1>1, SumExists
<1>3. G[T] = f[x] + G[S]
  <2>1. S \in SUBSET T /\ x \in T \ S /\ \A y \in T : f[y] \in Nat
    OBVIOUS
  <2> QED BY <1>1, <1>2, <2>1, AnyOrder
<1>4. SumFunctionOnSet(f, T) = G[T]
  <2> HIDE DEF T
  <2> QED BY <1>1, <1>2, SumIs
<1>5. SumFunctionOnSet(f, S) = G[S]
  BY <1>2, SumIs
<1> QED BY <1>3, <1>4, <1>5

\* A part adds up to no more than the whole.
THEOREM SumGrows ==
  ASSUME NEW T, IsFiniteSet(T), NEW S \in SUBSET T, NEW f, \A y \in T : f[y] \in Nat
  PROVE  SumFunctionOnSet(f, S) <= SumFunctionOnSet(f, T)
<1> DEFINE Sum(v) == SumFunctionOnSet(f, v)
           Fails == {v \in SUBSET T : S \subseteq v /\ ~(Sum(S) <= Sum(v))}
<1> SUFFICES ASSUME Fails # {} PROVE FALSE
  OBVIOUS
<1>1. PICK v \in Fails : \A w \in Fails : Cardinality(v) <= Cardinality(w)
  <2>1. Fails \in SUBSET (SUBSET T)
    OBVIOUS
  <2> HIDE DEF Fails
  <2> QED BY <2>1, Smallest
<1>2. v \in SUBSET T /\ S \subseteq v /\ ~(Sum(S) <= Sum(v))
  OBVIOUS
<1>3. \A w \in SUBSET T : Sum(w) \in Nat /\ IsFiniteSet(w)
  <2> SUFFICES ASSUME NEW w \in SUBSET T PROVE Sum(w) \in Nat /\ IsFiniteSet(w)
    OBVIOUS
  <2>1. IsFiniteSet(w)
    BY FS_Subset
  <2> QED BY <2>1, SumType
<1>4. v # S
  BY <1>2, <1>3
<1>5. PICK x \in v : x \notin S
  BY <1>2, <1>4
<1> DEFINE w == v \ {x}
<1>6. w \in SUBSET T /\ S \subseteq w /\ v = w \cup {x} /\ x \notin w
  BY <1>2, <1>5
<1>7. w \notin Fails
  <2>1. IsFiniteSet(v) /\ Cardinality(v) \in Nat /\ Cardinality(w) = Cardinality(v) - 1
    BY <1>2, <1>3, FS_RemoveElement, FS_CardinalityType
  <2> QED BY <1>1, <2>1
<1> HIDE DEF Sum
<1>8. Sum(S) <= Sum(w)
  BY <1>6, <1>7
<1>9. Sum(v) = f[x] + Sum(w)
  <2>1. IsFiniteSet(w)
    BY <1>3, <1>6
  <2>2. \A y \in w \cup {x} : f[y] \in Nat
    BY <1>2, <1>6
  <2> HIDE DEF w
  <2> QED BY <1>6, <2>1, <2>2, SumAdds DEF Sum
<1>10. Sum(w) \in Nat /\ Sum(S) \in Nat /\ f[x] \in Nat
  BY <1>2, <1>3, <1>6
<1> HIDE DEF w
<1> QED BY <1>2, <1>8, <1>9, <1>10

\* A total that starts at zero and adds one day's value a day is the sum of the days.
THEOREM SumOfDays ==
  ASSUME NEW q \in [Nat -> Nat], NEW total \in [Nat -> Nat],
         total[0] = 0, \A n \in Nat : total[n + 1] = total[n] + q[n],
         NEW h \in Nat
  PROVE  SumFunction([age \in 0 .. h - 1 |-> q[age]]) = total[h]
<1> DEFINE Sum(n) == SumFunctionOnSet(q, 0 .. n - 1)
           Fails == {n \in Nat : Sum(n) # total[n]}
<1>1. \A n \in Nat : IsFiniteSet(0 .. n - 1) /\ Sum(n) \in Nat
  <2> SUFFICES ASSUME NEW n \in Nat PROVE IsFiniteSet(0 .. n - 1) /\ Sum(n) \in Nat
    OBVIOUS
  <2>1. IsFiniteSet(0 .. n - 1)
    BY FS_Interval
  <2>2. \A x \in 0 .. n - 1 : q[x] \in Nat
    OBVIOUS
  <2> QED BY <2>1, <2>2, SumType
<1>2. Sum(0) = 0
  <2>1. 0 .. 0 - 1 = {}
    OBVIOUS
  <2> QED BY <2>1, SumEmpty
<1>3. ASSUME NEW n \in Nat PROVE Sum(n + 1) = Sum(n) + q[n]
  <2> DEFINE days == 0 .. n - 1
  <2>1. 0 .. (n + 1) - 1 = days \cup {n} /\ n \notin days
    <3>1. \A x : x \in 0 .. (n + 1) - 1 <=> x \in Nat /\ x <= n
      OBVIOUS
    <3>2. \A x : x \in days <=> x \in Nat /\ x <= n - 1
      OBVIOUS
    <3> HIDE DEF days
    <3>3. n \notin days
      BY <3>2
    <3>4. \A x \in Nat : x <= n <=> x <= n - 1 \/ x = n
      OBVIOUS
    <3> QED BY <3>1, <3>2, <3>3, <3>4
  <2>2. IsFiniteSet(days) /\ \A y \in days \cup {n} : q[y] \in Nat
    <3>1. IsFiniteSet(days) /\ days \subseteq Nat
      BY <1>1
    <3> HIDE DEF days
    <3> QED BY <3>1
  <2>3. SumFunctionOnSet(q, days \cup {n}) = q[n] + SumFunctionOnSet(q, days)
    <3> HIDE DEF days
    <3> QED BY <2>1, <2>2, SumAdds
  <2>4. Sum(n + 1) = SumFunctionOnSet(q, 0 .. (n + 1) - 1) /\ Sum(n) = SumFunctionOnSet(q, days)
    OBVIOUS
  <2>5. q[n] \in Nat /\ Sum(n) \in Nat
    BY <1>1
  <2> HIDE DEF Sum, days
  <2>6. Sum(n + 1) = q[n] + SumFunctionOnSet(q, days)
    BY <2>1, <2>3, <2>4
  <2>7. Sum(n + 1) = q[n] + Sum(n)
    BY <2>4, <2>6
  <2> QED BY <2>5, <2>7
<1> HIDE DEF Sum
<1>4. Fails = {}
  <2> SUFFICES ASSUME Fails # {} PROVE FALSE
    OBVIOUS
  <2>1. PICK m \in Fails : \A n \in Fails : m <= n
    <3>1. Fails \in SUBSET Nat
      OBVIOUS
    <3> HIDE DEF Fails
    <3> QED BY <3>1, LeastNat
  <2>2. m \in Nat /\ Sum(m) # total[m] /\ m # 0
    BY <1>2
  <2>3. m - 1 \in Nat /\ ~(m <= m - 1) /\ (m - 1) + 1 = m
    BY <2>2
  <2>4. Sum(m - 1) = total[m - 1]
    BY <2>1, <2>3
  <2>5. Sum((m - 1) + 1) = Sum(m - 1) + q[m - 1] /\ total[(m - 1) + 1] = total[m - 1] + q[m - 1]
    BY <1>3, <2>3
  <2> QED BY <2>2, <2>3, <2>4, <2>5
<1> DEFINE daily == [age \in 0 .. h - 1 |-> q[age]]
<1>5. SumFunctionOnSet(daily, 0 .. h - 1) = Sum(h)
  <2>1. \A x \in 0 .. h - 1 : daily[x] = q[x]
    OBVIOUS
  <2> HIDE DEF daily
  <2> QED BY <1>1, <2>1, SumSame DEF Sum
<1>6. SumFunction(daily) = SumFunctionOnSet(daily, DOMAIN daily) /\ DOMAIN daily = 0 .. h - 1
  BY DEF SumFunction
<1>7. SumFunction(daily) = total[h]
  <2> HIDE DEF daily
  <2> QED BY <1>4, <1>5, <1>6
<1> QED BY <1>7
=============================================================================
