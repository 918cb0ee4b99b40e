--------------------------- MODULE InductionFacts ---------------------------
(***************************************************************************)
(* Induction in a form that names sets where the library names predicates: *)
(* over the natural numbers and over the subsets of a finite set.  And     *)
(* what follows for the recursive definitions of the specifications: that  *)
(* a function that goes on step by step exists, and what the sum over a    *)
(* finite set is.                                                          *)
(***************************************************************************)
EXTENDS FiniteSetsExt, FiniteSetTheorems, TLAPS

LEMMA SmallestMember ==
    ASSUME NEW T \in SUBSET Nat, T # {}
    PROVE  \E n \in T : \A m \in T : n <= m
<1> DEFINE F == {0 .. n : n \in T}
<1>1. F \subseteq FiniteSubsetsOf(Nat) /\ F # {}
  <2>1. \A n \in T : IsFiniteSet(0 .. n)
    BY FS_Interval
  <2>2. \A n \in T : 0 .. n \in SUBSET Nat
    OBVIOUS
  <2> QED BY <2>1, <2>2, Zenon DEF FiniteSubsetsOf
<1>2. PICK U \in F : \A V \in F : ~ (<<V, U>> \in StrictSubsetOrdering(Nat))
  <2> HIDE DEF F
  <2> QED BY <1>1, WFMin, FS_StrictSubsetOrderingWellFounded, Zenon
<1>3. PICK n \in T : U = 0 .. n
  BY <1>2
<1>4. ASSUME NEW m \in T, ~ n <= m PROVE FALSE
  <2>1. 0 .. m \subseteq 0 .. n /\ n \in 0 .. n /\ n \notin 0 .. m
    BY <1>4
  <2>2. 0 .. m \in F /\ 0 .. m \in SUBSET Nat /\ U \in SUBSET Nat
    BY <1>3
  <2>3. <<0 .. m, U>> \in StrictSubsetOrdering(Nat)
    BY <1>3, <2>1, <2>2, Zenon DEF StrictSubsetOrdering
  <2> QED BY <1>2, <2>2, <2>3
<1> QED BY <1>4

\* A set of numbers that holds 0, and n + 1 with n, holds all of them.
LEMMA NatSetInduction ==
    ASSUME NEW P \in SUBSET Nat, 0 \in P, \A n \in P : n + 1 \in P
    PROVE  P = Nat
<1> SUFFICES ASSUME Nat \ P # {} PROVE FALSE
  OBVIOUS
<1>1. PICK n \in Nat \ P : \A m \in Nat \ P : n <= m
  BY SmallestMember
<1>2. n - 1 \in Nat /\ ~ n <= n - 1
  BY <1>1
<1> QED BY <1>1, <1>2

\* The same up to a last number.
LEMMA IntervalInduction ==
    ASSUME NEW N \in Nat, NEW P, 0 \in P,
           \A n \in 0 .. N : n \in P /\ n < N => n + 1 \in P
    PROVE  0 .. N \subseteq P
<1> DEFINE Q == {n \in Nat : n <= N => n \in P}
<1>1. Q = Nat
  <2>1. Q \in SUBSET Nat /\ 0 \in Q
    OBVIOUS
  <2>2. ASSUME NEW n \in Q PROVE n + 1 \in Q
    OBVIOUS
  <2> HIDE DEF Q
  <2> QED BY <2>1, <2>2, NatSetInduction
<1> QED BY <1>1

\* A family of sets that holds the empty one, and a set with any one element
\* more, holds every finite set.
LEMMA FiniteSetInduction ==
    ASSUME NEW S, IsFiniteSet(S), NEW P, {} \in P,
           \A T \in SUBSET S : T \in P => \A x \in S \ T : T \cup {x} \in P
    PROVE  S \in P
<1> DEFINE Out == {T \in SUBSET S : T \notin P}
<1> SUFFICES ASSUME Out # {} PROVE FALSE
  OBVIOUS
<1>1. PICK T \in Out : \A U \in Out : ~ (<<U, T>> \in StrictSubsetOrdering(S))
  BY WFMin, FS_StrictSubsetOrderingWellFounded, FS_FiniteSubsetsOfFinite, Zenon
<1>2. PICK x \in T : TRUE
  OBVIOUS
<1>3. T \ {x} \notin Out
  BY <1>1, <1>2 DEF StrictSubsetOrdering
<1>4. (T \ {x}) \cup {x} = T
  BY <1>2
<1> QED BY <1>2, <1>3, <1>4
-----------------------------------------------------------------------------

\* g goes from b by steps of st, up to n.
Goes(g, b, st, S, n) ==
    /\ g \in [0 .. n -> S]
    /\ g[0] = b
    /\ \A i \in 1 .. n : g[i] = st[g[i - 1]]

LEMMA GoesOneWay ==
    ASSUME NEW S, NEW b, NEW st, NEW n \in Nat, NEW g, Goes(g, b, st, S, n),
           NEW m \in Nat, NEW h, Goes(h, b, st, S, m), n <= m
    PROVE  g[n] = h[n]
<1> DEFINE P == {i \in 0 .. n : g[i] = h[i]}
<1>1. 0 \in P
  BY DEF Goes
<1>2. ASSUME NEW i \in 0 .. n, i \in P, i < n PROVE i + 1 \in P
  <2>1. i + 1 \in 1 .. n /\ i + 1 \in 1 .. m /\ (i + 1) - 1 = i
    BY <1>2
  <2>2. g[i + 1] = st[g[i]] /\ h[i + 1] = st[h[i]]
    BY <2>1 DEF Goes
  <2> QED BY <1>2, <2>1, <2>2
<1>3. 0 .. n \subseteq P
  <2> HIDE DEF P
  <2> QED BY <1>1, <1>2, IntervalInduction
<1> QED BY <1>3

LEMMA GoesAllTheWay ==
    ASSUME NEW S, NEW b \in S, NEW st \in [S -> S]
    PROVE  \A n \in Nat : \E g : Goes(g, b, st, S, n)
<1> DEFINE P == {n \in Nat : \E g : Goes(g, b, st, S, n)}
<1>1. 0 \in P
  <2>1. Goes([i \in 0 .. 0 |-> b], b, st, S, 0)
    BY DEF Goes
  <2> QED BY <2>1
<1>2. ASSUME NEW n \in P PROVE n + 1 \in P
  <2>1. PICK g : Goes(g, b, st, S, n)
    OBVIOUS
  <2> DEFINE h == [i \in 0 .. n + 1 |-> IF i = n + 1 THEN st[g[n]] ELSE g[i]]
  <2>2. n \in Nat /\ g[n] \in S
    BY <2>1 DEF Goes
  <2>3. h \in [0 .. n + 1 -> S] /\ h[0] = b
    BY <2>1, <2>2 DEF Goes
  <2>4. ASSUME NEW i \in 1 .. n + 1 PROVE h[i] = st[h[i - 1]]
    <3>1. CASE i = n + 1
      BY <2>2, <3>1
    <3>2. CASE i # n + 1
      <4>1. i \in 1 .. n /\ i - 1 \in 0 .. n + 1 /\ i - 1 # n + 1
        BY <2>2, <3>2
      <4>2. g[i] = st[g[i - 1]]
        BY <2>1, <4>1 DEF Goes
      <4> QED BY <4>1, <4>2, <3>2
    <3> QED BY <3>1, <3>2
  <2> HIDE DEF h
  <2>5. Goes(h, b, st, S, n + 1)
    BY <2>3, <2>4 DEF Goes
  <2> QED BY <2>2, <2>5
<1>3. P = Nat
  <2> HIDE DEF P
  <2>1. P \in SUBSET Nat
    BY DEF P
  <2> QED BY <1>1, <1>2, <2>1, NatSetInduction
<1> QED BY <1>3

\* There is a function that starts at b and goes on by st.
LEMMA NatRecursion ==
    ASSUME NEW S, NEW b \in S, NEW st \in [S -> S]
    PROVE  \E f \in [Nat -> S] : f[0] = b /\ \A n \in Nat : n # 0 => f[n] = st[f[n - 1]]
<1> DEFINE way(n) == CHOOSE g : Goes(g, b, st, S, n)
           f == [n \in Nat |-> way(n)[n]]
<1>1. ASSUME NEW n \in Nat PROVE Goes(way(n), b, st, S, n)
  BY GoesAllTheWay
<1>2. f \in [Nat -> S]
  <2> HIDE DEF way
  <2>1. \A n \in Nat : way(n)[n] \in S
    BY <1>1 DEF Goes
  <2> QED BY <2>1
<1>3. f[0] = b
  <2> HIDE DEF way
  <2> QED BY <1>1 DEF Goes
<1>4. ASSUME NEW n \in Nat, n # 0 PROVE f[n] = st[f[n - 1]]
  <2> HIDE DEF way
  <2>1. n - 1 \in Nat /\ n - 1 <= n /\ n \in 1 .. n
    BY <1>4
  <2>2. way(n)[n] = st[way(n)[n - 1]]
    BY <1>1, <2>1 DEF Goes
  <2>3. way(n - 1)[n - 1] = way(n)[n - 1]
    BY <1>1, <2>1, GoesOneWay
  <2> QED BY <2>1, <2>2, <2>3
<1> HIDE DEF f
<1> QED BY <1>2, <1>3, <1>4
-----------------------------------------------------------------------------

\* The sum of f over S, as the specifications write it.
Total(f, S) == MapThenSumSet(LAMBDA t : f[t], S)

\* g gives every subset of S what f adds up to on it, whichever element is
\* counted first.
Adds(g, f, S) ==
    /\ g \in [SUBSET S -> Int]
    /\ g[{}] = 0
    /\ \A s \in SUBSET S : \A x \in s : g[s] = f[x] + g[s \ {x}]

LEMMA AddsOneMore ==
    ASSUME NEW S, NEW x, x \notin S, NEW f, f[x] \in Int, \A t \in S : f[t] \in Int,
           NEW h, Adds(h, f, S)
    PROVE  \E g : Adds(g, f, S \cup {x})
<1> DEFINE g == [s \in SUBSET (S \cup {x}) |-> IF x \in s THEN f[x] + h[s \ {x}] ELSE h[s]]
<1>1. ASSUME NEW s \in SUBSET (S \cup {x}), x \in s
      PROVE  /\ s \ {x} \in SUBSET S /\ h[s \ {x}] \in Int
             /\ g[s] = f[x] + h[s \ {x}]
  BY <1>1 DEF Adds
<1>2. ASSUME NEW s \in SUBSET (S \cup {x}), x \notin s
      PROVE  s \in SUBSET S /\ h[s] \in Int /\ g[s] = h[s]
  BY <1>2 DEF Adds
<1>3. g \in [SUBSET (S \cup {x}) -> Int]
  <2>1. ASSUME NEW s \in SUBSET (S \cup {x})
        PROVE  (IF x \in s THEN f[x] + h[s \ {x}] ELSE h[s]) \in Int
    <3>1. CASE x \in s
      <4>1. h[s \ {x}] \in Int
        BY <1>1, <3>1
      <4> HIDE DEF g
      <4> QED BY <3>1, <4>1
    <3>2. CASE x \notin s
      BY <1>2, <3>2
    <3> QED BY <3>1, <3>2
  <2> QED BY <2>1
<1>4. g[{}] = 0
  BY <1>2 DEF Adds
<1> HIDE DEF g
<1>5. ASSUME NEW s \in SUBSET (S \cup {x}), NEW y \in s
      PROVE  g[s] = f[y] + g[s \ {y}]
  <2>1. CASE y = x
    <3>1. g[s \ {x}] = h[s \ {x}]
      BY <1>2
    <3> QED BY <1>1, <2>1, <3>1
  <2>2. CASE y # x /\ x \notin s
    BY <1>2, <2>2 DEF Adds
  <2>3. CASE y # x /\ x \in s
    <3> DEFINE r == s \ {x}
    <3>1. g[s] = f[x] + h[r]
      BY <1>1, <2>3
    <3>2. r \in SUBSET S /\ y \in r /\ y \in S
      BY <2>3
    <3>3. h[r] = f[y] + h[r \ {y}] /\ h[r \ {y}] \in Int
      BY <3>2 DEF Adds
    <3>4. g[s \ {y}] = f[x] + h[(s \ {y}) \ {x}]
      BY <1>1, <2>3
    <3>5. (s \ {y}) \ {x} = r \ {y}
      OBVIOUS
    <3> HIDE DEF r
    <3>6. g[s \ {y}] = f[x] + h[r \ {y}]
      BY <3>4, <3>5
    <3>7. f[y] \in Int
      BY <3>2
    <3> QED BY <3>1, <3>3, <3>6, <3>7
  <2> QED BY <2>1, <2>2, <2>3
<1> QED BY <1>3, <1>4, <1>5 DEF Adds

LEMMA SomethingAdds ==
    ASSUME NEW S, IsFiniteSet(S), NEW f, \A t \in S : f[t] \in Int
    PROVE  \E g : Adds(g, f, S)
<1> DEFINE P == {T \in SUBSET S : \E g : Adds(g, f, T)}
<1>1. {} \in P
  <2>1. Adds([s \in {{}} |-> 0], f, {})
    BY DEF Adds
  <2> QED BY <2>1
<1>2. ASSUME NEW T \in P, NEW x \in S \ T PROVE T \cup {x} \in P
  BY <1>2, AddsOneMore
<1>3. S \in P
  <2> HIDE DEF P
  <2> QED BY <1>1, <1>2, FiniteSetInduction
<1> QED BY <1>3

\* Whatever adds f up on S gives the sum of f over S: the order in which the
\* fold takes the elements makes no difference.
LEMMA TotalIs ==
    ASSUME NEW S, IsFiniteSet(S), NEW f, NEW g, Adds(g, f, S)
    PROVE  Total(f, S) = g[S]
<1> DEFINE Step(i) == [s \in SUBSET S |->
                        IF s = {} THEN 0
                        ELSE f[CHOOSE x \in s : TRUE] + i[s \ {CHOOSE x \in s : TRUE}]]
           iter == CHOOSE i : i = Step(i)
<1>1. Total(f, S) = iter[S]
  BY Zenon DEF Total, MapThenSumSet, MapThenFoldSet
<1>2. g = Step(g)
  BY DEF Adds
<1>3. iter = Step(iter)
  <2> HIDE DEF Step
  <2> QED BY <1>2
<1>4. ASSUME NEW s \in SUBSET S, s # {},
             LET x == CHOOSE x \in s : TRUE IN iter[s \ {x}] = g[s \ {x}]
      PROVE  iter[s] = g[s]
  <2>1. g[s] = f[CHOOSE x \in s : TRUE] + g[s \ {CHOOSE x \in s : TRUE}]
    BY <1>2, <1>4
  <2>2. iter[s] = f[CHOOSE x \in s : TRUE] + iter[s \ {CHOOSE x \in s : TRUE}]
    <3> HIDE DEF iter
    <3> QED BY <1>3, <1>4
  <2> HIDE DEF iter
  <2> QED BY <1>4, <2>1, <2>2
<1>5. iter[{}] = g[{}]
  BY <1>2, <1>3
<1> HIDE DEF iter
<1> DEFINE Off == {s \in SUBSET S : iter[s] # g[s]}
<1> SUFFICES ASSUME Off # {} PROVE FALSE
  BY <1>1
<1>6. PICK s \in Off : \A u \in Off : ~ (<<u, s>> \in StrictSubsetOrdering(S))
  <2>1. Off \subseteq FiniteSubsetsOf(S)
    BY FS_FiniteSubsetsOfFinite
  <2> HIDE DEF Off, Step
  <2> QED BY <2>1, WFMin, FS_StrictSubsetOrderingWellFounded, Zenon
<1>7. s # {}
  BY <1>5
<1> DEFINE x == CHOOSE x \in s : TRUE
<1>8. x \in s
  BY <1>7
<1>9. s \ {x} \notin Off
  <2> HIDE DEF x, Step
  <2>1. s \ {x} \in SUBSET S /\ s \in SUBSET S /\ s \ {x} \subseteq s /\ s \ {x} # s
    BY <1>8
  <2>2. <<s \ {x}, s>> \in StrictSubsetOrdering(S)
    BY <2>1, Zenon DEF StrictSubsetOrdering
  <2> HIDE DEF Off
  <2> QED BY <1>6, <2>2
<1> QED BY <1>4, <1>7, <1>9

LEMMA TotalEmpty ==
    ASSUME NEW f
    PROVE  Total(f, {}) = 0
<1>1. PICK g : Adds(g, f, {})
  BY SomethingAdds, FS_EmptySet
<1>2. Total(f, {}) = g[{}]
  BY <1>1, TotalIs, FS_EmptySet
<1> QED BY <1>1, <1>2 DEF Adds

LEMMA TotalType ==
    ASSUME NEW S, IsFiniteSet(S), NEW f, \A t \in S : f[t] \in Int
    PROVE  Total(f, S) \in Int
<1>1. PICK g : Adds(g, f, S)
  BY SomethingAdds
<1>2. Total(f, S) = g[S]
  BY <1>1, TotalIs
<1> QED BY <1>1, <1>2 DEF Adds

\* One element more adds its value.
LEMMA TotalOneMore ==
    ASSUME NEW S, IsFiniteSet(S), NEW f, \A t \in S : f[t] \in Int,
           NEW x, x \notin S, f[x] \in Int
    PROVE  Total(f, S \cup {x}) = Total(f, S) + f[x]
<1>1. IsFiniteSet(S \cup {x})
  BY FS_AddElement
<1>2. PICK g : Adds(g, f, S \cup {x})
  BY <1>1, SomethingAdds
<1> DEFINE h == [s \in SUBSET S |-> g[s]]
<1>3. Adds(h, f, S)
  BY <1>2 DEF Adds
<1>4. Total(f, S) = g[S] /\ g[S] \in Int
  <2>1. Total(f, S) = h[S]
    BY <1>3, TotalIs
  <2> QED BY <1>2, <2>1 DEF Adds
<1>5. Total(f, S \cup {x}) = g[S \cup {x}]
  BY <1>1, <1>2, TotalIs
<1>6. g[S \cup {x}] = f[x] + g[S]
  <2>1. (S \cup {x}) \ {x} = S
    OBVIOUS
  <2>2. g[S \cup {x}] = f[x] + g[(S \cup {x}) \ {x}]
    BY <1>2 DEF Adds
  <2> QED BY <2>1, <2>2
<1> QED BY <1>4, <1>5, <1>6

\* A larger set of naturals adds up to no less, and none to less than 0.
LEMMA TotalGrows ==
    ASSUME NEW T, IsFiniteSet(T), NEW f, \A t \in T : f[t] \in Nat, NEW S \in SUBSET T
    PROVE  Total(f, S) \in Nat /\ Total(f, S) <= Total(f, T)
<1>1. ASSUME NEW A \in SUBSET T PROVE IsFiniteSet(A) /\ Total(f, A) \in Int
  <2>1. IsFiniteSet(A)
    BY FS_Subset
  <2>2. \A t \in A : f[t] \in Int
    OBVIOUS
  <2> QED BY <2>1, <2>2, TotalType
<1>2. ASSUME NEW A \in SUBSET T, NEW B \in SUBSET T
      PROVE  Total(f, A) \in Int /\ Total(f, A) <= Total(f, A \cup B)
  <2>1. IsFiniteSet(A) /\ IsFiniteSet(B) /\ Total(f, A) \in Int
    BY <1>1
  <2> DEFINE P == {U \in SUBSET T : Total(f, A) <= Total(f, A \cup U)}
  <2>2. {} \in P
    <3>1. A \cup {} = A
      OBVIOUS
    <3> QED BY <2>1, <3>1
  <2>3. ASSUME NEW U \in P, NEW x \in B \ U PROVE U \cup {x} \in P
    <3> DEFINE V == A \cup U
    <3>1. A \cup (U \cup {x}) = V \cup {x} /\ f[x] \in Nat /\ V \in SUBSET T
      OBVIOUS
    <3>2. IsFiniteSet(V) /\ Total(f, V) \in Int
      BY <1>1, <3>1
    <3>3. Total(f, A) <= Total(f, V)
      OBVIOUS
    <3> HIDE DEF V
    <3>4. Total(f, V \cup {x}) >= Total(f, V) /\ Total(f, V \cup {x}) \in Int
      <4>1. CASE x \in V
        <5>1. V \cup {x} = V
          BY <4>1
        <5> QED BY <3>2, <5>1
      <4>2. CASE x \notin V
        <5>1. Total(f, V \cup {x}) = Total(f, V) + f[x]
          BY <3>1, <3>2, <4>2, TotalOneMore
        <5> QED BY <3>1, <3>2, <5>1
      <4> QED BY <4>1, <4>2
    <3>5. Total(f, A) <= Total(f, V \cup {x})
      BY <2>1, <3>2, <3>3, <3>4
    <3> QED BY <3>1, <3>5
  <2>4. B \in P
    <3> HIDE DEF P
    <3> QED BY <2>1, <2>2, <2>3, FiniteSetInduction
  <2> QED BY <2>1, <2>4
<1>3. Total(f, {}) <= Total(f, {} \cup S) /\ Total(f, S) <= Total(f, S \cup T)
  BY <1>2
<1>4. {} \cup S = S /\ S \cup T = T
  OBVIOUS
<1> QED BY <1>2, <1>3, <1>4, TotalEmpty
=============================================================================
