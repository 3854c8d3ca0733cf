--------------------- MODULE PaperPortfolioLedger_proofs ---------------------
(***************************************************************************)
(* Proofs about PaperPortfolioLedger, for any history of events. The       *)
(* inductions are by a least counterexample: a non-empty set of numbers    *)
(* has a least element.                                                    *)
(***************************************************************************)
EXTENDS PaperPortfolioLedger, FiniteSetTheorems, WellFoundedInduction, TLAPS

\* A set of numbers that is not empty has a least element.
LEMMA Least ==
    ASSUME NEW T \in SUBSET Nat, T # {}
    PROVE  \E m \in T : \A k \in T : m <= k
<1>1. \E x \in T : \A y \in T : ~ (<<y, x>> \in OpToRel(<, Nat))
  BY NatLessThanWellFounded, WFMin
<1>2. PICK x \in T : \A y \in T : ~ (<<y, x>> \in {p \in Nat \X Nat : p[1] < p[2]})
  BY <1>1, Zenon DEF OpToRel
<1>3. \A y \in T : x \in Nat /\ y \in Nat /\ ~ (y < x)
  BY <1>2
<1>4. QED
  BY <1>3

(***************************************************************************)
(* Sums                                                                    *)
(***************************************************************************)

Some(s) == CHOOSE x \in s : TRUE

\* h[s] is the sum of g over s, for the subsets s of D, computed as
\* SumFunction does it: one element after the other.
Sums(h, g, D) ==
    h = [s \in SUBSET D |-> IF s = {} THEN 0 ELSE g[Some(s)] + h[s \ {Some(s)}]]

\* What is left when an element is taken out of a finite set is smaller.
LEMMA Smaller ==
    ASSUME NEW s, IsFiniteSet(s), NEW x \in s
    PROVE  /\ IsFiniteSet(s \ {x})
           /\ Cardinality(s) \in Nat /\ Cardinality(s \ {x}) \in Nat
           /\ Cardinality(s \ {x}) < Cardinality(s)
<1>1. Cardinality(s) \in Nat
  BY FS_CardinalityType
<1>2. IsFiniteSet(s \ {x}) /\ Cardinality(s \ {x}) = Cardinality(s) - 1
  BY FS_RemoveElement
<1>3. Cardinality(s \ {x}) \in Nat
  BY <1>2, FS_CardinalityType
<1>4. QED
  BY <1>1, <1>2, <1>3

\* The sum over a set is that of one element and that of the rest.
LEMMA SumsStep ==
    ASSUME NEW h, NEW g, NEW D, Sums(h, g, D), NEW s \in SUBSET D, s # {}
    PROVE  /\ Some(s) \in s
           /\ h[s] = g[Some(s)] + h[s \ {Some(s)}]
<1>1. Some(s) \in s
  BY DEF Some
<1>2. QED
  BY <1>1 DEF Sums

\* The sum over nothing is zero.
LEMMA SumsEmpty ==
    ASSUME NEW h, NEW g, NEW D, Sums(h, g, D)
    PROVE  h[{}] = 0
<1>1. {} \in SUBSET D
  OBVIOUS
<1>2. QED
  BY <1>1 DEF Sums

\* Two such functions agree where what they sum does.
LEMMA SumsAgree ==
    ASSUME NEW h, NEW g, NEW D, Sums(h, g, D),
           NEW k, NEW f, NEW E, Sums(k, f, E),
           NEW S, IsFiniteSet(S), S \subseteq D, S \subseteq E,
           \A x \in S : g[x] = f[x]
    PROVE  h[S] = k[S]
<1> SUFFICES ASSUME h[S] # k[S] PROVE FALSE
  OBVIOUS
<1> DEFINE Bad == {s \in SUBSET S : h[s] # k[s]}
           Sizes == {n \in Nat : \E s \in Bad : Cardinality(s) = n}
<1>1. \A s \in SUBSET S : IsFiniteSet(s) /\ Cardinality(s) \in Nat
  BY FS_Subset, FS_CardinalityType
<1>2. PICK n \in Sizes : \A m \in Sizes : n <= m
  <2>1. Sizes # {}
    BY <1>1
  <2>2. QED
    BY <2>1, Least
<1>3. PICK s \in Bad : Cardinality(s) = n
  OBVIOUS
<1>4. CASE s = {}
  BY <1>3, <1>4 DEF Sums
<1>5. CASE s # {}
  <2> DEFINE x == Some(s)
  <2>0. s \in SUBSET D /\ s \in SUBSET E
    OBVIOUS
  <2>1. x \in s /\ h[s] = g[x] + h[s \ {x}] /\ k[s] = f[x] + k[s \ {x}]
    BY <1>5, <2>0, SumsStep
  <2>2. s \ {x} \in SUBSET S /\ Cardinality(s \ {x}) \in Nat
        /\ Cardinality(s \ {x}) < Cardinality(s)
    BY <1>1, <2>1, Smaller
  <2>3. s \ {x} \notin Bad
    BY <1>2, <1>3, <2>2
  <2>4. h[s \ {x}] = k[s \ {x}] /\ g[x] = f[x]
    BY <2>1, <2>2, <2>3
  <2>5. QED
    BY <2>1, <2>4
<1>6. QED
  BY <1>4, <1>5

\* There is one for every function and every finite set.
LEMMA SumsExist ==
    ASSUME NEW g, NEW D, IsFiniteSet(D)
    PROVE  \E h : Sums(h, g, D)
<1> DEFINE Small(n) == {s \in SUBSET D : Cardinality(s) <= n}
           Upto(h, n) == h = [s \in Small(n) |->
                                IF s = {} THEN 0 ELSE g[Some(s)] + h[s \ {Some(s)}]]
           Bad == {n \in Nat : ~ \E h : Upto(h, n)}
<1>1. \A s \in SUBSET D : /\ IsFiniteSet(s) /\ Cardinality(s) \in Nat
                          /\ Cardinality(s) <= Cardinality(D)
                          /\ Cardinality(s) = 0 <=> s = {}
  BY FS_Subset, FS_CardinalityType, FS_EmptySet
<1>2. Bad = {}
  <2> SUFFICES ASSUME Bad # {} PROVE FALSE
    OBVIOUS
  <2>1. PICK n \in Bad : \A m \in Bad : n <= m
    BY Least
  <2>2. CASE n = 0
    <3> DEFINE h == [s \in Small(0) |-> 0]
    <3>1. \A s \in Small(0) : s = {}
      BY <1>1
    <3>2. Upto(h, 0)
      BY <3>1
    <3>3. QED
      BY <2>1, <2>2, <3>2
  <2>3. CASE n # 0
    <3>1. n - 1 \in Nat /\ n - 1 \notin Bad
      <4>1. n \in Nat
        OBVIOUS
      <4>2. n - 1 \in Nat /\ ~ (n <= n - 1)
        BY <2>3, <4>1
      <4> HIDE DEF Bad
      <4>3. QED
        BY <2>1, <4>2
    <3>2. PICK k : Upto(k, n - 1)
      BY <3>1
    <3> DEFINE h == [s \in Small(n) |->
                        IF s = {} THEN 0 ELSE g[Some(s)] + k[s \ {Some(s)}]]
    <3>3. \A s \in Small(n) : s # {} =>
             Some(s) \in s /\ s \ {Some(s)} \in Small(n - 1) /\ s \ {Some(s)} \in Small(n)
      <4> SUFFICES ASSUME NEW s \in Small(n), s # {}
                   PROVE  /\ Some(s) \in s /\ s \ {Some(s)} \in Small(n - 1)
                          /\ s \ {Some(s)} \in Small(n)
        OBVIOUS
      <4>1. Some(s) \in s
        BY DEF Some
      <4>2. s \in SUBSET D /\ s \ {Some(s)} \in SUBSET D /\ Cardinality(s) <= n
        OBVIOUS
      <4>3. Cardinality(s \ {Some(s)}) <= n - 1
        BY <1>1, <3>1, <4>1, <4>2, Smaller
      <4>4. QED
        BY <1>1, <3>1, <4>1, <4>2, <4>3
    <3>4. \A s \in Small(n - 1) : h[s] = k[s]
      <4>1. \A s \in Small(n - 1) : s \in Small(n)
        BY <1>1, <3>1
      <4>2. QED
        BY <3>2, <4>1
    <3>5. Upto(h, n)
      BY <3>3, <3>4
    <3>6. QED
      BY <2>1, <3>5
  <2>4. QED
    BY <2>2, <2>3
<1>3. PICK h : Upto(h, Cardinality(D))
  BY <1>2, FS_CardinalityType
<1>4. Small(Cardinality(D)) = SUBSET D
  BY <1>1
<1>5. QED
  BY <1>3, <1>4 DEF Sums

\* So SumFunction is what one of them gives for the whole domain.
LEMMA SumFunctionIs ==
    ASSUME NEW g, IsFiniteSet(DOMAIN g)
    PROVE  \E h : Sums(h, g, DOMAIN g) /\ SumFunction(g) = h[DOMAIN g]
<1> DEFINE P(h) == h = [s \in SUBSET DOMAIN g |->
                          IF s = {} THEN 0
                          ELSE g[CHOOSE x \in s : TRUE] + h[s \ {CHOOSE x \in s : TRUE}]]
           H == CHOOSE h : P(h)
<1>1. \A h : P(h) <=> Sums(h, g, DOMAIN g)
  BY DEF Sums, Some
<1>2. P(H)
  <2>1. PICK h : Sums(h, g, DOMAIN g)
    BY SumsExist
  <2> HIDE DEF P
  <2>3. P(h)
    BY <1>1, <2>1
  <2>4. QED
    BY <2>3
<1>3. SumFunction(g) = H[DOMAIN g]
  BY DEF SumFunction, SumFunctionOnSet, FoldFunctionOnSet, MapThenFoldSet
<1> HIDE DEF H, P
<1>4. QED
  BY <1>1, <1>2, <1>3

\* Sums of integers are integers.
LEMMA SumsInt ==
    ASSUME NEW h, NEW g, NEW D, Sums(h, g, D), IsFiniteSet(D), \A x \in D : g[x] \in Int,
           NEW S \in SUBSET D
    PROVE  h[S] \in Int
<1> SUFFICES ASSUME h[S] \notin Int PROVE FALSE
  OBVIOUS
<1> DEFINE Bad == {s \in SUBSET D : h[s] \notin Int}
           Sizes == {n \in Nat : \E s \in Bad : Cardinality(s) = n}
<1>1. \A s \in SUBSET D : IsFiniteSet(s) /\ Cardinality(s) \in Nat
  BY FS_Subset, FS_CardinalityType
<1>2. PICK n \in Sizes : \A m \in Sizes : n <= m
  <2>1. Sizes # {}
    BY <1>1
  <2>2. QED
    BY <2>1, Least
<1>3. PICK s \in Bad : Cardinality(s) = n
  OBVIOUS
<1>4. CASE s = {}
  BY <1>3, <1>4, SumsEmpty
<1>5. CASE s # {}
  <2> DEFINE x == Some(s)
  <2>0. s \in SUBSET D
    OBVIOUS
  <2>1. x \in s /\ h[s] = g[x] + h[s \ {x}]
    BY <1>5, <2>0, SumsStep
  <2>2. s \ {x} \in SUBSET D /\ Cardinality(s \ {x}) \in Nat
        /\ Cardinality(s \ {x}) < Cardinality(s)
    BY <1>1, <2>1, Smaller
  <2>3. s \ {x} \notin Bad
    BY <1>2, <1>3, <2>2
  <2>4. h[s \ {x}] \in Int /\ g[x] \in Int
    BY <2>1, <2>2, <2>3
  <2>5. QED
    BY <2>1, <2>4
<1>6. QED
  BY <1>4, <1>5

\* The order in which the elements are summed does not matter: any element
\* may come first.
LEMMA SumsTake ==
    ASSUME NEW h, NEW g, NEW D, Sums(h, g, D), IsFiniteSet(D), \A x \in D : g[x] \in Int,
           NEW S \in SUBSET D, NEW t \in S
    PROVE  h[S] = g[t] + h[S \ {t}]
<1>0. ASSUME NEW v \in SUBSET D, v # {}
      PROVE  \E x \in v : h[v] = g[x] + h[v \ {x}]
  BY <1>0, SumsStep
<1> SUFFICES ASSUME h[S] # g[t] + h[S \ {t}] PROVE FALSE
  OBVIOUS
<1> DEFINE Bad == {s \in SUBSET D : \E u \in s : h[s] # g[u] + h[s \ {u}]}
           Sizes == {n \in Nat : \E s \in Bad : Cardinality(s) = n}
<1>1. \A s \in SUBSET D : IsFiniteSet(s) /\ Cardinality(s) \in Nat
  BY FS_Subset, FS_CardinalityType
<1>2. PICK n \in Sizes : \A m \in Sizes : n <= m
  <2>1. Sizes # {}
    BY <1>1
  <2>2. QED
    BY <2>1, Least
<1>3. PICK s \in Bad : Cardinality(s) = n
  OBVIOUS
<1>4. PICK u \in s : h[s] # g[u] + h[s \ {u}]
  OBVIOUS
<1>5. s \in SUBSET D /\ s # {} /\ u \in s
  BY <1>4
<1>9. ASSUME NEW v \in SUBSET D, Cardinality(v) < Cardinality(s), NEW y \in v
      PROVE  h[v] = g[y] + h[v \ {y}]
  <2>1. Cardinality(v) \in Nat /\ Cardinality(s) \in Nat
    BY <1>1, <1>5
  <2>2. Cardinality(v) \notin Sizes
    BY <1>2, <1>3, <1>9, <2>1
  <2>3. v \notin Bad
    BY <2>1, <2>2
  <2>4. QED
    BY <2>3
<1> HIDE DEF Bad, Sizes
<1>6. PICK x \in s : h[s] = g[x] + h[s \ {x}]
  BY <1>0, <1>5
<1> DEFINE r == s \ {x, u}
<1>7. x # u
  BY <1>4, <1>6
<1>8. \A y \in s : s \ {y} \in SUBSET D /\ Cardinality(s \ {y}) < Cardinality(s)
  BY <1>1, <1>5, Smaller
<1>10. (s \ {x}) \ {u} = r /\ (s \ {u}) \ {x} = r /\ r \in SUBSET D
  BY <1>5
<1>11. h[s \ {x}] = g[u] + h[r]
  <2>1. u \in s \ {x} /\ s \ {x} \in SUBSET D /\ Cardinality(s \ {x}) < Cardinality(s)
    BY <1>5, <1>6, <1>7, <1>8
  <2>2. QED
    BY <1>9, <1>10, <2>1
<1>12. h[s \ {u}] = g[x] + h[r]
  <2>1. x \in s \ {u} /\ s \ {u} \in SUBSET D /\ Cardinality(s \ {u}) < Cardinality(s)
    BY <1>5, <1>6, <1>7, <1>8
  <2>2. QED
    BY <1>9, <1>10, <2>1
<1>13. g[x] \in Int /\ g[u] \in Int /\ h[r] \in Int
  BY <1>4, <1>5, <1>6, <1>10, SumsInt
<1>14. QED
  BY <1>4, <1>6, <1>11, <1>12, <1>13

\* The three facts about SumFunction that the accounting needs.
LEMMA SumOfNothing ==
    ASSUME NEW g, DOMAIN g = {}
    PROVE  SumFunction(g) = 0
<1>1. PICK h : Sums(h, g, DOMAIN g) /\ SumFunction(g) = h[DOMAIN g]
  BY SumFunctionIs, FS_EmptySet
<1>2. QED
  BY <1>1 DEF Sums

\* A finite sum of integers is one.
LEMMA SumIsInt ==
    ASSUME NEW g, IsFiniteSet(DOMAIN g), \A x \in DOMAIN g : g[x] \in Int
    PROVE  SumFunction(g) \in Int
<1>1. PICK h : Sums(h, g, DOMAIN g) /\ SumFunction(g) = h[DOMAIN g]
  BY SumFunctionIs
<1>2. QED
  BY <1>1, SumsInt

\* One more argument adds its value to the sum.
LEMMA SumAdds ==
    ASSUME NEW g, NEW f, NEW t, IsFiniteSet(DOMAIN g), \A x \in DOMAIN g : g[x] \in Int,
           t \notin DOMAIN g, DOMAIN f = DOMAIN g \cup {t}, f[t] \in Int,
           \A x \in DOMAIN g : f[x] = g[x]
    PROVE  SumFunction(f) = SumFunction(g) + f[t]
<1>1. PICK h : Sums(h, g, DOMAIN g) /\ SumFunction(g) = h[DOMAIN g]
  BY SumFunctionIs
<1>2. IsFiniteSet(DOMAIN f)
  BY FS_AddElement
<1>3. PICK k : Sums(k, f, DOMAIN f) /\ SumFunction(f) = k[DOMAIN f]
  BY <1>2, SumFunctionIs
<1>4. \A x \in DOMAIN f : f[x] \in Int
  OBVIOUS
<1>5. k[DOMAIN f] = f[t] + k[DOMAIN f \ {t}]
  BY <1>2, <1>3, <1>4, SumsTake
<1>6. DOMAIN f \ {t} = DOMAIN g
  OBVIOUS
<1>7. h[DOMAIN g] = k[DOMAIN g]
  BY <1>1, <1>3, SumsAgree
<1>8. h[DOMAIN g] \in Int
  BY <1>1, SumsInt
<1>9. QED
  BY <1>1, <1>3, <1>5, <1>6, <1>7, <1>8

(***************************************************************************)
(* The replay                                                              *)
(***************************************************************************)

\* r[k] is the state after the first k events.
Replays(r, events) ==
    r = [k \in 0..Len(events) |->
            IF k = 0 THEN EmptyState ELSE Apply(r[k - 1], events[k])]

\* The recursive definition of project has a solution for every history.
LEMMA ReplaysExist ==
    ASSUME NEW events, Len(events) \in Nat
    PROVE  \E r : Replays(r, events)
<1> DEFINE Upto(r, n) == r = [k \in 0..n |->
                                IF k = 0 THEN EmptyState ELSE Apply(r[k - 1], events[k])]
           Bad == {n \in Nat : ~ \E r : Upto(r, n)}
<1>1. Bad = {}
  <2> SUFFICES ASSUME Bad # {} PROVE FALSE
    OBVIOUS
  <2>1. PICK n \in Bad : \A m \in Bad : n <= m
    BY Least
  <2>2. n \in Nat /\ ~ \E r : Upto(r, n)
    OBVIOUS
  <2>3. CASE n = 0
    <3>1. Upto([k \in 0..0 |-> EmptyState], 0)
      OBVIOUS
    <3>2. QED
      BY <2>2, <2>3, <3>1
  <2>4. CASE n # 0
    <3>1. n - 1 \in Nat /\ ~ (n <= n - 1)
      BY <2>2, <2>4
    <3>2. n - 1 \notin Bad
      BY <2>1, <3>1
    <3>3. PICK q : Upto(q, n - 1)
      BY <3>1, <3>2
    <3> DEFINE r == [k \in 0..n |-> IF k = 0 THEN EmptyState ELSE Apply(q[k - 1], events[k])]
    <3>4. \A k \in 0..n : k # 0 => k - 1 \in 0..(n - 1) /\ k - 1 \in 0..n
      BY <2>2
    <3>5. \A k \in 0..(n - 1) : r[k] = q[k]
      <4>1. \A k \in 0..(n - 1) : k \in 0..n
        BY <2>2
      <4>2. QED
        BY <3>3, <4>1
    <3>6. Upto(r, n)
      BY <3>4, <3>5
    <3>7. QED
      BY <2>2, <3>6
  <2>5. QED
    BY <2>3, <2>4
<1>2. Len(events) \notin Bad
  BY <1>1
<1>3. PICK r : Upto(r, Len(events))
  BY <1>2
<1>4. QED
  BY <1>3 DEF Replays

\* It begins with the empty state and applies one event after the other.
LEMMA ReplaysStep ==
    ASSUME NEW r, NEW events, Len(events) \in Nat, Replays(r, events)
    PROVE  /\ r[0] = EmptyState
           /\ \A k \in 1..Len(events) : r[k] = Apply(r[k - 1], events[k])
<1>1. 0 \in 0..Len(events)
  OBVIOUS
<1>2. \A k \in 1..Len(events) : k \in 0..Len(events) /\ k # 0
  OBVIOUS
<1>3. QED
  BY <1>1, <1>2 DEF Replays

\* Two histories with the same beginning have the same replay of it.
LEMMA ReplaysAgree ==
    ASSUME NEW events, Len(events) \in Nat, NEW r, Replays(r, events),
           NEW others, Len(others) \in Nat, NEW q, Replays(q, others),
           NEW n \in Nat, n <= Len(events), n <= Len(others),
           \A k \in 1..n : events[k] = others[k]
    PROVE  r[n] = q[n]
<1>1. /\ r[0] = EmptyState /\ q[0] = EmptyState
      /\ \A k \in 1..Len(events) : r[k] = Apply(r[k - 1], events[k])
      /\ \A k \in 1..Len(others) : q[k] = Apply(q[k - 1], others[k])
  BY ReplaysStep
<1> SUFFICES ASSUME r[n] # q[n] PROVE FALSE
  OBVIOUS
<1> DEFINE Bad == {k \in 0..n : r[k] # q[k]}
<1>2. PICK m \in Bad : \A k \in Bad : m <= k
  <2>1. n \in Bad /\ Bad \in SUBSET Nat
    OBVIOUS
  <2>2. QED
    BY <2>1, Least
<1>3. m \in 0..n /\ r[m] # q[m]
  OBVIOUS
<1>4. m # 0
  BY <1>1, <1>3
<1>5. m - 1 \in 0..n /\ ~ (m <= m - 1) /\ m \in 1..n
  BY <1>3, <1>4
<1>6. r[m - 1] = q[m - 1]
  BY <1>2, <1>5
<1>7. m \in 1..Len(events) /\ m \in 1..Len(others)
  BY <1>5
<1>8. QED
  BY <1>1, <1>3, <1>5, <1>6, <1>7

\* project is the last state of the replay.
LEMMA ProjectIs ==
    ASSUME NEW events, Len(events) \in Nat, NEW r, Replays(r, events)
    PROVE  Project(events) = r[Len(events)]
<1> DEFINE P(a) == a = [k \in 0..Len(events) |->
                         IF k = 0 THEN EmptyState ELSE Apply(a[k - 1], events[k])]
           A == CHOOSE a : P(a)
<1>1. \A a : P(a) <=> Replays(a, events)
  BY DEF Replays
<1>2. Project(events) = A[Len(events)]
  BY DEF Project
<1> HIDE DEF P
<1>3. P(A)
  BY <1>1
<1> HIDE DEF A
<1>4. Replays(A, events)
  BY <1>1, <1>3
<1>5. A[Len(events)] = r[Len(events)]
  BY <1>4, ReplaysAgree
<1>6. QED
  BY <1>2, <1>5

\* The replay of a history from nothing is the replay of its beginning,
\* continued: what PPLAuthorityRuntime checks by projecting the events it has
\* and the new one is one more _apply.
THEOREM ReplayIncremental ==
    ASSUME NEW S, NEW events \in Seq(S), NEW e \in S
    PROVE  /\ Project(<<>>) = EmptyState
           /\ Project(Append(events, e)) = Apply(Project(events), e)
<1>1. Project(<<>>) = EmptyState
  <2>1. Len(<<>>) = 0
    OBVIOUS
  <2>2. PICK r : Replays(r, <<>>)
    BY <2>1, ReplaysExist
  <2>3. QED
    BY <2>1, <2>2, ProjectIs, ReplaysStep
<1> DEFINE n == Len(events)
           longer == Append(events, e)
<1>2. /\ n \in Nat /\ Len(longer) = n + 1 /\ longer[n + 1] = e
      /\ \A k \in 1..n : longer[k] = events[k]
  OBVIOUS
<1> HIDE DEF longer
<1>3. PICK r : Replays(r, events)
  BY <1>2, ReplaysExist
<1>4. PICK q : Replays(q, longer)
  BY <1>2, ReplaysExist
<1>5. q[n] = r[n]
  BY <1>2, <1>3, <1>4, ReplaysAgree
<1>6. n + 1 \in 1..Len(longer) /\ (n + 1) - 1 = n
  BY <1>2
<1>7. q[n + 1] = Apply(q[n], e)
  BY <1>2, <1>4, <1>6, ReplaysStep
<1>8. Project(events) = r[n] /\ Project(longer) = q[n + 1]
  BY <1>2, <1>3, <1>4, ProjectIs
<1>9. QED
  BY <1>1, <1>5, <1>7, <1>8 DEF longer

(***************************************************************************)
(* The accounts                                                            *)
(***************************************************************************)

\* What is known of a position, and of the positions of a state.
IsPosition(p) == p.principal \in Int /\ p.price \in Int /\ p.price > 0 /\ p.fee \in Int
ArePositions(f) == IsFiniteSet(DOMAIN f) /\ \A t \in DOMAIN f : IsPosition(f[t])

EventTypes == {"EPOCH_CREATED", "POSITION_OPENED", "POSITION_CLOSED", "POSITION_UNRESOLVED"}

\* What is known of an event: its amounts are numbers.
IsEvent(e) ==
    /\ e.type \in EventTypes
    /\ e.type = "EPOCH_CREATED" => e.capital \in Int
    /\ e.type = "POSITION_OPENED" => e.principal \in Int /\ e.price \in Int /\ e.fee \in Int
    /\ e.type = "POSITION_CLOSED" => e.price \in Int /\ e.fee \in Int

Fields(s) ==
    /\ s = [ok |-> s.ok, epoch |-> s.epoch, capital |-> s.capital, cash |-> s.cash,
            reserved |-> s.reserved, unresolved |-> s.unresolved, realized |-> s.realized,
            fees |-> s.fees, open |-> s.open, lost |-> s.lost, closed |-> s.closed,
            seq |-> s.seq, seen |-> s.seen]
    /\ s.capital \in Int /\ s.cash \in Int /\ s.reserved \in Int /\ s.unresolved \in Int
    /\ s.realized \in Int /\ s.fees \in Int /\ s.seq \in Nat
Flags(s) == s.ok \in BOOLEAN /\ s.epoch \in BOOLEAN

\* The principal, and the entry fees, of some positions; the balance in these
\* terms.
Principals(f) == Total(f, PrincipalOf)
EntryFees(f) == Total(f, FeeOf)
Balanced(s) ==
    /\ s.cash >= 0
    /\ s.reserved = Principals(s.open)
    /\ s.unresolved = Principals(s.lost)
    /\ s.cash + s.reserved + s.unresolved =
            s.capital + s.realized - EntryFees(s.open) - EntryFees(s.lost)

\* The balance as the proofs keep it is the one that is promised.
LEMMA BalancedIs == ASSUME NEW s, Balanced(s) PROVE AccountsBalance(s)
BY DEF Balanced, AccountsBalance, Principals, EntryFees

\* The invariant of the replay. Before the epoch there is no money, and no
\* trade is both open and unresolved, so none can be counted twice.
SoundState(s) ==
    /\ Fields(s) /\ Flags(s)
    /\ ArePositions(s.open) /\ ArePositions(s.lost)
    /\ DOMAIN s.open \cap DOMAIN s.lost = {}
    /\ ~s.epoch => s.cash = 0 /\ s.capital = 0
    /\ Balanced(s)

\* The quotient of integers is an integer.
LEMMA DivInt == ASSUME NEW a \in Int, NEW b \in Int, b > 0 PROVE a \div b \in Int
OBVIOUS

\* So is the gross profit of a position.
LEMMA GrossPnlInt ==
    ASSUME NEW p, IsPosition(p), NEW x \in Int
    PROVE  GrossPnl(p, x) \in Int
<1>1. p.principal * (x - p.price) \in Int /\ p.principal * (p.price - x) \in Int
  BY DEF IsPosition
<1>2. (p.principal * (x - p.price)) \div p.price \in Int
  BY <1>1, DivInt DEF IsPosition
<1>3. (p.principal * (p.price - x)) \div p.price \in Int
  BY <1>1, DivInt DEF IsPosition
<1>4. QED
  BY <1>2, <1>3 DEF GrossPnl

\* So are the principal and the entry fees of a set of positions.
LEMMA TotalsInt ==
    ASSUME NEW f, ArePositions(f)
    PROVE  Principals(f) \in Int /\ EntryFees(f) \in Int
<1> DEFINE g == [t \in DOMAIN f |-> f[t].principal]
           h == [t \in DOMAIN f |-> f[t].fee]
<1>1. SumFunction(g) \in Int /\ SumFunction(h) \in Int
  BY SumIsInt DEF ArePositions, IsPosition
<1>2. QED
  BY <1>1 DEF Principals, EntryFees, Total, PrincipalOf, FeeOf

\* No positions have no principal and no fees.
LEMMA TotalsOfNone ==
    ASSUME NEW f, DOMAIN f = {}
    PROVE  Principals(f) = 0 /\ EntryFees(f) = 0
<1> DEFINE g == [t \in DOMAIN f |-> f[t].principal]
           h == [t \in DOMAIN f |-> f[t].fee]
<1>1. SumFunction(g) = 0 /\ SumFunction(h) = 0
  BY SumOfNothing
<1>2. QED
  BY <1>1 DEF Principals, EntryFees, Total, PrincipalOf, FeeOf

\* A position more.
LEMMA TotalsWith ==
    ASSUME NEW f, ArePositions(f), NEW t, t \notin DOMAIN f, NEW p, IsPosition(p)
    PROVE  /\ ArePositions(With(f, t, p))
           /\ DOMAIN With(f, t, p) = DOMAIN f \cup {t}
           /\ Principals(With(f, t, p)) = Principals(f) + PrincipalOf(p)
           /\ EntryFees(With(f, t, p)) = EntryFees(f) + FeeOf(p)
<1> DEFINE w == With(f, t, p)
<1>1. /\ DOMAIN w = DOMAIN f \cup {t} /\ w[t] = p
      /\ \A u \in DOMAIN f : w[u] = f[u]
  BY DEF With
<1>2. ArePositions(w)
  BY <1>1, FS_AddElement DEF ArePositions
<1> HIDE DEF w
<1> DEFINE pf == [u \in DOMAIN f |-> f[u].principal]
           pw == [u \in DOMAIN w |-> w[u].principal]
           ff == [u \in DOMAIN f |-> f[u].fee]
           fw == [u \in DOMAIN w |-> w[u].fee]
<1>3. SumFunction(pw) = SumFunction(pf) + pw[t]
  <2>1. DOMAIN pw = DOMAIN pf \cup {t} /\ t \notin DOMAIN pf /\ IsFiniteSet(DOMAIN pf)
    BY <1>1 DEF ArePositions
  <2>2. \A u \in DOMAIN pf : pf[u] \in Int /\ pw[u] = pf[u]
    BY <1>1 DEF ArePositions, IsPosition
  <2>3. pw[t] \in Int
    BY <1>1 DEF IsPosition
  <2> HIDE DEF pw, pf
  <2>4. QED
    BY <2>1, <2>2, <2>3, SumAdds
<1>4. SumFunction(fw) = SumFunction(ff) + fw[t]
  <2>1. DOMAIN fw = DOMAIN ff \cup {t} /\ t \notin DOMAIN ff /\ IsFiniteSet(DOMAIN ff)
    BY <1>1 DEF ArePositions
  <2>2. \A u \in DOMAIN ff : ff[u] \in Int /\ fw[u] = ff[u]
    BY <1>1 DEF ArePositions, IsPosition
  <2>3. fw[t] \in Int
    BY <1>1 DEF IsPosition
  <2> HIDE DEF fw, ff
  <2>4. QED
    BY <2>1, <2>2, <2>3, SumAdds
<1>5. pw[t] = PrincipalOf(p) /\ fw[t] = FeeOf(p)
  BY <1>1 DEF PrincipalOf, FeeOf
<1>6. /\ Principals(w) = SumFunction(pw) /\ Principals(f) = SumFunction(pf)
      /\ EntryFees(w) = SumFunction(fw) /\ EntryFees(f) = SumFunction(ff)
  BY DEF Principals, EntryFees, Total, PrincipalOf, FeeOf
<1> HIDE DEF pw, pf, fw, ff
<1>7. QED
  BY <1>1, <1>2, <1>3, <1>4, <1>5, <1>6 DEF w

\* A position less.
LEMMA TotalsWithout ==
    ASSUME NEW f, ArePositions(f), NEW t \in DOMAIN f
    PROVE  /\ ArePositions(Without(f, t))
           /\ DOMAIN Without(f, t) = DOMAIN f \ {t}
           /\ Principals(Without(f, t)) = Principals(f) - f[t].principal
           /\ EntryFees(Without(f, t)) = EntryFees(f) - f[t].fee
<1> DEFINE w == Without(f, t)
<1>1. DOMAIN w = DOMAIN f \ {t} /\ \A u \in DOMAIN w : w[u] = f[u]
  BY DEF Without, Restrict
<1>2. ArePositions(w)
  BY <1>1, FS_RemoveElement DEF ArePositions
<1> HIDE DEF w
<1> DEFINE pf == [u \in DOMAIN f |-> f[u].principal]
           pw == [u \in DOMAIN w |-> w[u].principal]
           ff == [u \in DOMAIN f |-> f[u].fee]
           fw == [u \in DOMAIN w |-> w[u].fee]
<1>3. SumFunction(pf) = SumFunction(pw) + pf[t]
  <2>1. DOMAIN pf = DOMAIN pw \cup {t} /\ t \notin DOMAIN pw /\ IsFiniteSet(DOMAIN pw)
    BY <1>1, <1>2 DEF ArePositions
  <2>2. \A u \in DOMAIN pw : pw[u] \in Int /\ pf[u] = pw[u]
    BY <1>1, <1>2 DEF ArePositions, IsPosition
  <2>3. pf[t] \in Int
    BY <1>1 DEF ArePositions, IsPosition
  <2> HIDE DEF pw, pf
  <2>4. QED
    BY <2>1, <2>2, <2>3, SumAdds
<1>4. SumFunction(ff) = SumFunction(fw) + ff[t]
  <2>1. DOMAIN ff = DOMAIN fw \cup {t} /\ t \notin DOMAIN fw /\ IsFiniteSet(DOMAIN fw)
    BY <1>1, <1>2 DEF ArePositions
  <2>2. \A u \in DOMAIN fw : fw[u] \in Int /\ ff[u] = fw[u]
    BY <1>1, <1>2 DEF ArePositions, IsPosition
  <2>3. ff[t] \in Int
    BY <1>1 DEF ArePositions, IsPosition
  <2> HIDE DEF fw, ff
  <2>4. QED
    BY <2>1, <2>2, <2>3, SumAdds
<1>5. pf[t] = f[t].principal /\ ff[t] = f[t].fee
  OBVIOUS
<1>6. /\ Principals(w) = SumFunction(pw) /\ Principals(f) = SumFunction(pf)
      /\ EntryFees(w) = SumFunction(fw) /\ EntryFees(f) = SumFunction(ff)
  BY DEF Principals, EntryFees, Total, PrincipalOf, FeeOf
<1> HIDE DEF pw, pf, fw, ff
<1>7. /\ Principals(w) \in Int /\ EntryFees(w) \in Int
      /\ f[t].principal \in Int /\ f[t].fee \in Int
  BY <1>2, TotalsInt DEF ArePositions, IsPosition
<1>8. QED
  BY <1>1, <1>2, <1>3, <1>4, <1>5, <1>6, <1>7 DEF w

\* The state before the first event is sound.
LEMMA EmptyStateSound == SoundState(EmptyState)
<1>1. DOMAIN NoTrades = {}
  BY DEF NoTrades
<1>2. ArePositions(NoTrades)
  BY <1>1, FS_EmptySet DEF ArePositions
<1>3. /\ Fields(EmptyState) /\ Flags(EmptyState)
      /\ EmptyState.open = NoTrades /\ EmptyState.lost = NoTrades
      /\ EmptyState.cash = 0 /\ EmptyState.capital = 0 /\ EmptyState.realized = 0
      /\ EmptyState.reserved = 0 /\ EmptyState.unresolved = 0
  BY DEF EmptyState, Fields, Flags
<1> HIDE DEF EmptyState
<1>4. Principals(NoTrades) = 0 /\ EntryFees(NoTrades) = 0
  BY <1>1, TotalsOfNone
<1>5. Balanced(EmptyState)
  BY <1>3, <1>4 DEF Balanced
<1>6. QED
  BY <1>1, <1>2, <1>3, <1>5 DEF SoundState

\* _apply, field by field: what every event changes, and what each kind does.
Shape(s) ==
    s = [ok |-> s.ok, epoch |-> s.epoch, capital |-> s.capital, cash |-> s.cash,
         reserved |-> s.reserved, unresolved |-> s.unresolved, realized |-> s.realized,
         fees |-> s.fees, open |-> s.open, lost |-> s.lost, closed |-> s.closed,
         seq |-> s.seq, seen |-> s.seen]
Common(n, s, e) ==
    /\ Shape(n)
    /\ n.ok = s.ok /\ n.seq = e.seq /\ n.seen = s.seen \cup {EventId(e)}

\* What EPOCH_CREATED does to each account.
LEMMA CreatedFields ==
    ASSUME NEW s, Shape(s), NEW e, e.type = "EPOCH_CREATED", NEW n, n = Applied(s, e)
    PROVE  /\ Common(n, s, e)
           /\ n.epoch = TRUE /\ n.capital = e.capital /\ n.cash = e.capital
           /\ n.reserved = s.reserved /\ n.unresolved = s.unresolved
           /\ n.realized = s.realized /\ n.fees = s.fees
           /\ n.open = s.open /\ n.lost = s.lost /\ n.closed = s.closed
<1>1. n = [s EXCEPT !.epoch = TRUE, !.capital = e.capital, !.cash = e.capital,
                    !.seq = e.seq, !.seen = s.seen \cup {EventId(e)}]
  BY DEF Applied, ApplyEpochCreated, Shape
<1>2. QED
  BY <1>1 DEF Shape, Common

\* What POSITION_OPENED does to each account.
LEMMA OpenedFields ==
    ASSUME NEW s, Shape(s), NEW e, e.type = "POSITION_OPENED", NEW n, n = Applied(s, e)
    PROVE  /\ Common(n, s, e)
           /\ n.epoch = s.epoch /\ n.capital = s.capital /\ n.cash = CashAfterOpen(s, e)
           /\ n.reserved = s.reserved + e.principal /\ n.unresolved = s.unresolved
           /\ n.realized = s.realized /\ n.fees = s.fees + e.fee
           /\ n.open = With(s.open, e.trade, [symbol |-> e.symbol, side |-> e.side,
                                              principal |-> e.principal, price |-> e.price,
                                              fee |-> e.fee])
           /\ n.lost = s.lost /\ n.closed = s.closed
<1> DEFINE p == [symbol |-> e.symbol, side |-> e.side, principal |-> e.principal,
                 price |-> e.price, fee |-> e.fee]
           o == With(s.open, e.trade, p)
           c == CashAfterOpen(s, e)
<1>1. n = [s EXCEPT !.cash = c, !.reserved = s.reserved + e.principal,
                    !.fees = s.fees + e.fee, !.open = o,
                    !.seq = e.seq, !.seen = s.seen \cup {EventId(e)}]
  BY DEF Applied, ApplyPositionOpened, Shape
<1> HIDE DEF o, c
<1>2. /\ Common(n, s, e)
      /\ n.epoch = s.epoch /\ n.capital = s.capital /\ n.cash = c
      /\ n.reserved = s.reserved + e.principal /\ n.unresolved = s.unresolved
      /\ n.realized = s.realized /\ n.fees = s.fees + e.fee
      /\ n.open = o /\ n.lost = s.lost /\ n.closed = s.closed
  BY <1>1 DEF Shape, Common
<1>3. QED
  BY <1>2 DEF o, c

\* What POSITION_CLOSED does to each account.
LEMMA ClosedFields ==
    ASSUME NEW s, Shape(s), NEW e, e.type = "POSITION_CLOSED", NEW n, n = Applied(s, e)
    PROVE  LET pos == s.open[e.trade] IN
           /\ Common(n, s, e)
           /\ n.epoch = s.epoch /\ n.capital = s.capital /\ n.cash = CashAfterClose(s, e)
           /\ n.reserved = s.reserved - pos.principal /\ n.unresolved = s.unresolved
           /\ n.realized = s.realized + GrossPnl(pos, e.price) - pos.fee - e.fee
           /\ n.fees = s.fees + e.fee
           /\ n.open = Without(s.open, e.trade)
           /\ n.lost = s.lost /\ n.closed = s.closed \cup {e.trade}
<1> DEFINE pos == s.open[e.trade]
           o == Without(s.open, e.trade)
           c == CashAfterClose(s, e)
           g == GrossPnl(pos, e.price)
<1>1. n = [s EXCEPT !.cash = c, !.reserved = s.reserved - pos.principal,
                    !.fees = s.fees + e.fee, !.realized = s.realized + g - pos.fee - e.fee,
                    !.open = o, !.closed = s.closed \cup {e.trade},
                    !.seq = e.seq, !.seen = s.seen \cup {EventId(e)}]
  BY DEF Applied, ApplyPositionClosed, Shape
<1> HIDE DEF o, c, g, pos
<1>2. /\ Common(n, s, e)
      /\ n.epoch = s.epoch /\ n.capital = s.capital /\ n.cash = c
      /\ n.reserved = s.reserved - pos.principal /\ n.unresolved = s.unresolved
      /\ n.realized = s.realized + g - pos.fee - e.fee
      /\ n.fees = s.fees + e.fee
      /\ n.open = o /\ n.lost = s.lost /\ n.closed = s.closed \cup {e.trade}
  BY <1>1 DEF Shape, Common
<1>3. QED
  BY <1>2 DEF o, c, g, pos

\* What POSITION_UNRESOLVED does to each account.
LEMMA UnresolvedFields ==
    ASSUME NEW s, Shape(s), NEW e, e.type = "POSITION_UNRESOLVED", NEW n, n = Applied(s, e)
    PROVE  LET pos == s.open[e.trade] IN
           /\ Common(n, s, e)
           /\ n.epoch = s.epoch /\ n.capital = s.capital /\ n.cash = s.cash
           /\ n.reserved = s.reserved - pos.principal
           /\ n.unresolved = s.unresolved + pos.principal
           /\ n.realized = s.realized /\ n.fees = s.fees
           /\ n.open = Without(s.open, e.trade) /\ n.lost = With(s.lost, e.trade, pos)
           /\ n.closed = s.closed
<1> DEFINE pos == s.open[e.trade]
           o == Without(s.open, e.trade)
           l == With(s.lost, e.trade, pos)
<1>1. n = [s EXCEPT !.reserved = s.reserved - pos.principal,
                    !.unresolved = s.unresolved + pos.principal,
                    !.open = o, !.lost = l,
                    !.seq = e.seq, !.seen = s.seen \cup {EventId(e)}]
  BY DEF Applied, ApplyPositionUnresolved, Shape
<1> HIDE DEF o, l, pos
<1>2. /\ Common(n, s, e)
      /\ n.epoch = s.epoch /\ n.capital = s.capital /\ n.cash = s.cash
      /\ n.reserved = s.reserved - pos.principal
      /\ n.unresolved = s.unresolved + pos.principal
      /\ n.realized = s.realized /\ n.fees = s.fees
      /\ n.open = o /\ n.lost = l /\ n.closed = s.closed
  BY <1>1 DEF Shape, Common
<1>3. QED
  BY <1>2 DEF o, l, pos

\* An event that _apply accepts keeps the accounts balanced.
LEMMA CreatedSound ==
    ASSUME NEW s, SoundState(s), NEW e, IsEvent(e), Accepts(s, e), e.type = "EPOCH_CREATED"
    PROVE  SoundState(Applied(s, e))
<1> DEFINE n == Applied(s, e)
<1>0. Shape(s) /\ Fields(s) /\ Flags(s)
  BY DEF SoundState, Fields, Shape
<1>1. /\ Common(n, s, e)
      /\ n.epoch = TRUE /\ n.capital = e.capital /\ n.cash = e.capital
      /\ n.reserved = s.reserved /\ n.unresolved = s.unresolved
      /\ n.realized = s.realized /\ n.fees = s.fees
      /\ n.open = s.open /\ n.lost = s.lost /\ n.closed = s.closed
  BY <1>0, CreatedFields
<1>2. e.capital \in Int /\ e.capital > 0 /\ e.seq = s.seq + 1 /\ ~s.epoch
  BY DEF IsEvent, Accepts, InOrder
<1> HIDE DEF n
<1>3. Fields(n)
  BY <1>0, <1>1, <1>2 DEF Fields, Shape, Common
<1>4. Flags(n)
  BY <1>0, <1>1 DEF Flags, Common
<1>5. /\ Principals(s.open) \in Int /\ Principals(s.lost) \in Int
      /\ EntryFees(s.open) \in Int /\ EntryFees(s.lost) \in Int
  BY TotalsInt DEF SoundState
<1>6. Balanced(n)
  BY <1>0, <1>1, <1>2, <1>5 DEF SoundState, Balanced, Fields
<1>7. QED
  BY <1>1, <1>3, <1>4, <1>6 DEF SoundState, n

\* Principal and fee move from cash to reserved, and the state stays sound.
LEMMA OpenedSound ==
    ASSUME NEW s, SoundState(s), NEW e, IsEvent(e), Accepts(s, e), e.type = "POSITION_OPENED"
    PROVE  SoundState(Applied(s, e))
<1> DEFINE n == Applied(s, e)
           p == [symbol |-> e.symbol, side |-> e.side, principal |-> e.principal,
                 price |-> e.price, fee |-> e.fee]
<1>0. Shape(s) /\ Fields(s) /\ Flags(s)
  BY DEF SoundState, Fields, Shape
<1>1. /\ Common(n, s, e)
      /\ n.epoch = s.epoch /\ n.capital = s.capital /\ n.cash = CashAfterOpen(s, e)
      /\ n.reserved = s.reserved + e.principal /\ n.unresolved = s.unresolved
      /\ n.realized = s.realized /\ n.fees = s.fees + e.fee
      /\ n.open = With(s.open, e.trade, p) /\ n.lost = s.lost /\ n.closed = s.closed
  BY <1>0, OpenedFields
<1>2. /\ e.principal \in Int /\ e.price \in Int /\ e.fee \in Int /\ e.price > 0
      /\ e.seq = s.seq + 1 /\ s.epoch
      /\ e.trade \notin DOMAIN s.open \cup DOMAIN s.lost
      /\ CashAfterOpen(s, e) >= 0
  BY DEF IsEvent, Accepts, InOrder
<1>p. IsPosition(p)
  BY <1>2 DEF IsPosition
<1>q. PrincipalOf(p) = e.principal /\ FeeOf(p) = e.fee
  BY DEF PrincipalOf, FeeOf
<1> HIDE DEF n, p
<1>3. /\ ArePositions(n.open) /\ DOMAIN n.open = DOMAIN s.open \cup {e.trade}
      /\ Principals(n.open) = Principals(s.open) + e.principal
      /\ EntryFees(n.open) = EntryFees(s.open) + e.fee
  <2>1. ArePositions(s.open) /\ e.trade \notin DOMAIN s.open
    BY <1>2 DEF SoundState
  <2> DEFINE w == With(s.open, e.trade, p)
  <2>2. /\ ArePositions(w) /\ DOMAIN w = DOMAIN s.open \cup {e.trade}
        /\ Principals(w) = Principals(s.open) + PrincipalOf(p)
        /\ EntryFees(w) = EntryFees(s.open) + FeeOf(p)
    BY <2>1, <1>p, TotalsWith
  <2>3. n.open = w
    BY <1>1
  <2> HIDE DEF w
  <2>4. QED
    BY <2>2, <2>3, <1>q
<1>4. Fields(n)
  BY <1>0, <1>1, <1>2 DEF Fields, Shape, Common, CashAfterOpen
<1>5. Flags(n)
  BY <1>0, <1>1 DEF Flags, Common
<1>6. /\ Principals(s.open) \in Int /\ Principals(s.lost) \in Int
      /\ EntryFees(s.open) \in Int /\ EntryFees(s.lost) \in Int
  BY TotalsInt DEF SoundState
<1>7. Balanced(n)
  <2>1. n.cash >= 0 /\ n.cash = s.cash - e.principal - e.fee
    BY <1>1, <1>2 DEF CashAfterOpen
  <2>2. Balanced(s)
    BY DEF SoundState
  <2>3. QED
    BY <1>0, <1>1, <1>2, <1>3, <1>6, <2>1, <2>2 DEF Balanced, Fields
<1>8. DOMAIN n.open \cap DOMAIN n.lost = {}
  BY <1>1, <1>2, <1>3 DEF SoundState
<1>9. ~n.epoch => n.cash = 0 /\ n.capital = 0
  BY <1>1, <1>2
<1>10. ArePositions(n.lost)
  BY <1>1 DEF SoundState
<1>11. QED
  BY <1>3, <1>4, <1>5, <1>7, <1>8, <1>9, <1>10 DEF SoundState, n

\* The principal, the profit and the fee move to cash, and the state stays sound.
LEMMA ClosedSound ==
    ASSUME NEW s, SoundState(s), NEW e, IsEvent(e), Accepts(s, e), e.type = "POSITION_CLOSED"
    PROVE  SoundState(Applied(s, e))
<1> DEFINE n == Applied(s, e)
           pos == s.open[e.trade]
           g == GrossPnl(pos, e.price)
<1>0. Shape(s) /\ Fields(s) /\ Flags(s)
  BY DEF SoundState, Fields, Shape
<1>1. /\ Common(n, s, e)
      /\ n.epoch = s.epoch /\ n.capital = s.capital /\ n.cash = CashAfterClose(s, e)
      /\ n.reserved = s.reserved - pos.principal /\ n.unresolved = s.unresolved
      /\ n.realized = s.realized + g - pos.fee - e.fee
      /\ n.fees = s.fees + e.fee
      /\ n.open = Without(s.open, e.trade)
      /\ n.lost = s.lost /\ n.closed = s.closed \cup {e.trade}
  BY <1>0, ClosedFields
<1>2. /\ e.price \in Int /\ e.fee \in Int /\ e.seq = s.seq + 1 /\ s.epoch
      /\ e.trade \in DOMAIN s.open /\ CashAfterClose(s, e) >= 0
  BY DEF IsEvent, Accepts, InOrder
<1>p. IsPosition(pos) /\ g \in Int
  BY <1>2, GrossPnlInt DEF SoundState, ArePositions
<1>c. CashAfterClose(s, e) = s.cash + pos.principal + g - e.fee
  BY DEF CashAfterClose
<1> HIDE DEF n, pos, g
<1>3. /\ ArePositions(n.open) /\ DOMAIN n.open = DOMAIN s.open \ {e.trade}
      /\ Principals(n.open) = Principals(s.open) - pos.principal
      /\ EntryFees(n.open) = EntryFees(s.open) - pos.fee
  <2>1. ArePositions(s.open) /\ e.trade \in DOMAIN s.open
    BY <1>2 DEF SoundState
  <2> DEFINE w == Without(s.open, e.trade)
  <2>2. /\ ArePositions(w) /\ DOMAIN w = DOMAIN s.open \ {e.trade}
        /\ Principals(w) = Principals(s.open) - s.open[e.trade].principal
        /\ EntryFees(w) = EntryFees(s.open) - s.open[e.trade].fee
    BY <2>1, TotalsWithout
  <2>3. n.open = w
    BY <1>1
  <2> HIDE DEF w
  <2>4. QED
    BY <2>2, <2>3 DEF pos
<1>4. Fields(n)
  BY <1>0, <1>1, <1>2, <1>p, <1>c DEF Fields, Shape, Common, IsPosition
<1>5. Flags(n)
  BY <1>0, <1>1 DEF Flags, Common
<1>6. /\ Principals(s.open) \in Int /\ Principals(s.lost) \in Int
      /\ EntryFees(s.open) \in Int /\ EntryFees(s.lost) \in Int
  BY TotalsInt DEF SoundState
<1>7. Balanced(n)
  <2>1. n.cash >= 0 /\ n.cash = s.cash + pos.principal + g - e.fee
    BY <1>1, <1>2, <1>c
  <2>2. Balanced(s)
    BY DEF SoundState
  <2>3. QED
    BY <1>0, <1>1, <1>2, <1>p, <1>3, <1>6, <2>1, <2>2 DEF Balanced, Fields, IsPosition
<1>8. DOMAIN n.open \cap DOMAIN n.lost = {}
  BY <1>1, <1>2, <1>3 DEF SoundState
<1>9. ~n.epoch => n.cash = 0 /\ n.capital = 0
  BY <1>1, <1>2
<1>10. ArePositions(n.lost)
  BY <1>1 DEF SoundState
<1>11. QED
  BY <1>3, <1>4, <1>5, <1>7, <1>8, <1>9, <1>10 DEF SoundState, n

\* The principal moves from reserved to unresolved, and the state stays sound.
LEMMA UnresolvedSound ==
    ASSUME NEW s, SoundState(s), NEW e, IsEvent(e), Accepts(s, e),
           e.type = "POSITION_UNRESOLVED"
    PROVE  SoundState(Applied(s, e))
<1> DEFINE n == Applied(s, e)
           pos == s.open[e.trade]
<1>0. Shape(s) /\ Fields(s) /\ Flags(s)
  BY DEF SoundState, Fields, Shape
<1>1. /\ Common(n, s, e)
      /\ n.epoch = s.epoch /\ n.capital = s.capital /\ n.cash = s.cash
      /\ n.reserved = s.reserved - pos.principal
      /\ n.unresolved = s.unresolved + pos.principal
      /\ n.realized = s.realized /\ n.fees = s.fees
      /\ n.open = Without(s.open, e.trade) /\ n.lost = With(s.lost, e.trade, pos)
      /\ n.closed = s.closed
  BY <1>0, UnresolvedFields
<1>2. e.seq = s.seq + 1 /\ s.epoch /\ e.trade \in DOMAIN s.open
  BY DEF IsEvent, Accepts, InOrder
<1>p. IsPosition(pos) /\ e.trade \notin DOMAIN s.lost
  BY <1>2 DEF SoundState, ArePositions
<1> HIDE DEF n, pos
<1>3. /\ ArePositions(n.open) /\ DOMAIN n.open = DOMAIN s.open \ {e.trade}
      /\ Principals(n.open) = Principals(s.open) - pos.principal
      /\ EntryFees(n.open) = EntryFees(s.open) - pos.fee
  <2>1. ArePositions(s.open) /\ e.trade \in DOMAIN s.open
    BY <1>2 DEF SoundState
  <2> DEFINE w == Without(s.open, e.trade)
  <2>2. /\ ArePositions(w) /\ DOMAIN w = DOMAIN s.open \ {e.trade}
        /\ Principals(w) = Principals(s.open) - s.open[e.trade].principal
        /\ EntryFees(w) = EntryFees(s.open) - s.open[e.trade].fee
    BY <2>1, TotalsWithout
  <2>3. n.open = w
    BY <1>1
  <2> HIDE DEF w
  <2>4. QED
    BY <2>2, <2>3 DEF pos
<1>4. /\ ArePositions(n.lost) /\ DOMAIN n.lost = DOMAIN s.lost \cup {e.trade}
      /\ Principals(n.lost) = Principals(s.lost) + pos.principal
      /\ EntryFees(n.lost) = EntryFees(s.lost) + pos.fee
  <2>1. ArePositions(s.lost) /\ e.trade \notin DOMAIN s.lost
    BY <1>p DEF SoundState
  <2> DEFINE w == With(s.lost, e.trade, pos)
  <2>2. /\ ArePositions(w) /\ DOMAIN w = DOMAIN s.lost \cup {e.trade}
        /\ Principals(w) = Principals(s.lost) + PrincipalOf(pos)
        /\ EntryFees(w) = EntryFees(s.lost) + FeeOf(pos)
    BY <2>1, <1>p, TotalsWith
  <2>3. n.lost = w
    BY <1>1
  <2> HIDE DEF w
  <2>4. QED
    BY <2>2, <2>3 DEF PrincipalOf, FeeOf
<1>5. Fields(n) 
  BY <1>0, <1>1, <1>2, <1>p DEF Fields, Shape, Common, IsPosition
<1>6. Flags(n)
  BY <1>0, <1>1 DEF Flags, Common
<1>7. /\ Principals(s.open) \in Int /\ Principals(s.lost) \in Int
      /\ EntryFees(s.open) \in Int /\ EntryFees(s.lost) \in Int
  BY TotalsInt DEF SoundState
<1>8. Balanced(n)
  <2>1. Balanced(s)
    BY DEF SoundState
  <2>2. QED
    BY <1>0, <1>1, <1>p, <1>3, <1>4, <1>7, <2>1 DEF Balanced, Fields, IsPosition
<1>9. DOMAIN n.open \cap DOMAIN n.lost = {}
  BY <1>2, <1>3, <1>4 DEF SoundState
<1>10. ~n.epoch => n.cash = 0 /\ n.capital = 0
  BY <1>1, <1>2
<1>11. QED
  BY <1>3, <1>4, <1>5, <1>6, <1>8, <1>9, <1>10 DEF SoundState, n

\* A refused history keeps its accounts.
LEMMA SetFlagShape ==
    ASSUME NEW s, Shape(s), NEW n, n = [s EXCEPT !.ok = FALSE]
    PROVE  Shape(n)
BY DEF Shape

\* An event that is refused leaves the accounts as they are.
LEMMA RefusedSound ==
    ASSUME NEW s, SoundState(s)
    PROVE  SoundState([s EXCEPT !.ok = FALSE])
<1> DEFINE n == [s EXCEPT !.ok = FALSE]
<1>1. /\ n.ok = FALSE /\ n.epoch = s.epoch /\ n.capital = s.capital /\ n.cash = s.cash
      /\ n.reserved = s.reserved /\ n.unresolved = s.unresolved /\ n.realized = s.realized
      /\ n.fees = s.fees /\ n.open = s.open /\ n.lost = s.lost /\ n.closed = s.closed
      /\ n.seq = s.seq /\ n.seen = s.seen
  BY DEF SoundState, Fields
<1>0. Fields(s) /\ Shape(s)
  BY DEF SoundState, Fields, Shape
<1>a. Shape(n)
  BY <1>0, SetFlagShape
<1> HIDE DEF n
<1>2. Fields(n)
  BY <1>0, <1>1, <1>a DEF Fields, Shape
<1>3. Flags(n) /\ Balanced(n)
  BY <1>1 DEF SoundState, Flags, Balanced
<1>4. QED
  BY <1>1, <1>2, <1>3 DEF SoundState, n

\* Every event, accepted or refused, leads from a sound state to a sound one.
LEMMA ApplySound ==
    ASSUME NEW s, SoundState(s), NEW e, IsEvent(e)
    PROVE  SoundState(Apply(s, e))
<1>1. CASE s.ok /\ Accepts(s, e)
  BY <1>1, CreatedSound, OpenedSound, ClosedSound, UnresolvedSound
     DEF Apply, IsEvent, EventTypes
<1>2. CASE ~(s.ok /\ Accepts(s, e))
  BY <1>2, RefusedSound DEF Apply
<1>3. QED
  BY <1>1, <1>2

\* The accounting of paper_portfolio_ledger.py is right for every history:
\* whatever events are replayed, in whatever order, and up to an event that
\* project refuses, cash is not negative, what is reserved and what is
\* unresolved is the principal of the positions that are, and no money is
\* made or lost.
THEOREM ReplayBalances ==
    ASSUME NEW S, \A e \in S : IsEvent(e), NEW events \in Seq(S)
    PROVE  AccountsBalance(Project(events))
<1>1. Len(events) \in Nat /\ \A k \in 1..Len(events) : IsEvent(events[k])
  OBVIOUS
<1>2. PICK r : Replays(r, events)
  BY <1>1, ReplaysExist
<1>3. r[0] = EmptyState /\ \A k \in 1..Len(events) : r[k] = Apply(r[k - 1], events[k])
  BY <1>1, <1>2, ReplaysStep
<1> DEFINE Bad == {k \in 0..Len(events) : ~SoundState(r[k])}
<1>4. Bad = {}
  <2> SUFFICES ASSUME Bad # {} PROVE FALSE
    OBVIOUS
  <2>1. Bad \in SUBSET Nat
    BY <1>1
  <2>2. PICK m \in Bad : \A k \in Bad : m <= k
    BY <2>1, Least
  <2>3. m \in 0..Len(events) /\ ~SoundState(r[m])
    OBVIOUS
  <2>4. m # 0
    BY <1>3, <2>3, EmptyStateSound
  <2>5. m - 1 \in 0..Len(events) /\ ~ (m <= m - 1) /\ m \in 1..Len(events)
    BY <1>1, <2>3, <2>4
  <2>6. SoundState(r[m - 1])
    BY <2>2, <2>5
  <2>7. SoundState(r[m])
    BY <1>1, <1>3, <2>5, <2>6, ApplySound
  <2>8. QED
    BY <2>3, <2>7
<1>5. SoundState(r[Len(events)])
  BY <1>1, <1>4
<1>6. QED
  BY <1>1, <1>2, <1>5, ProjectIs, BalancedIs DEF SoundState
=============================================================================
