---------------------------- MODULE SharedLemmas ----------------------------
(***************************************************************************)
(* Facts about numbers, finite sets and functions given by recursion that  *)
(* the proofs of the components share.  The induction theorems of the      *)
(* library take a predicate; here the predicate is the set of the numbers  *)
(* that satisfy it, and the proof looks at the least one outside.          *)
(***************************************************************************)
EXTENDS Integers, Sequences, FiniteSets, CrawlDepths, FiniteSetTheorems, TLAPS

\* A nonempty set of natural numbers has a least member.
LEMMA LeastNat ==
    ASSUME NEW T, T \subseteq Nat, T # {}
    PROVE  \E x \in T : \A y \in T : x <= y
  <1>1. PICK x \in T : \A y \in T : <<y, x>> \notin OpToRel(<, Nat)
    BY NatLessThanWellFounded, WFMin
  <1>2. \A y \in T : y < x => <<y, x>> \in OpToRel(<, Nat)
    BY DEF OpToRel
  <1>3. \A y \in T : ~(y < x)
    BY <1>1, <1>2
  <1>4. \A y \in T : x <= y
    BY <1>3
  <1> QED
    BY <1>4

\* Induction over the natural numbers.
LEMMA NatInd ==
    ASSUME NEW S, 0 \in S, \A n \in Nat : n \in S => n + 1 \in S
    PROVE  Nat \subseteq S
  <1> DEFINE T == Nat \ S
  <1> SUFFICES ASSUME T # {} PROVE FALSE
    OBVIOUS
  <1>1. T \subseteq Nat
    OBVIOUS
  <1>2. PICK x \in T : \A y \in T : x <= y
    <2> HIDE DEF T
    <2> QED
      BY <1>1, LeastNat
  <1>3. x # 0
    OBVIOUS
  <1>4. x - 1 \in Nat /\ x - 1 \in S
    BY <1>2, <1>3
  <1> QED
    BY <1>2, <1>4

\* f starts at A and goes on by G, up to N.
Iteration(f, A, G, N) == f[0] = A /\ \A i \in 1..N : f[i] = G[f[i - 1]]

\* There is such a function.
LEMMA IterationExists ==
    ASSUME NEW V, NEW A \in V, NEW G \in [V -> V], NEW N \in Nat
    PROVE  \E f \in [0..N -> V] : Iteration(f, A, G, N)
  <1> USE DEF Iteration
  <1> DEFINE Upto(n) == \E f \in [0..n -> V] : f[0] = A /\ \A i \in 1..n : f[i] = G[f[i - 1]]
             S == {n \in Nat : Upto(n)}
  <1>1. Upto(0)
    <2> DEFINE f == [i \in 0..0 |-> A]
    <2>1. f \in [0..0 -> V] /\ f[0] = A /\ \A i \in 1..0 : f[i] = G[f[i - 1]]
      OBVIOUS
    <2> QED
      BY <2>1
  <1>2. ASSUME NEW n \in Nat, Upto(n) PROVE Upto(n + 1)
    <2>1. PICK f \in [0..n -> V] : f[0] = A /\ \A i \in 1..n : f[i] = G[f[i - 1]]
      BY <1>2
    <2> DEFINE g == [i \in 0..(n + 1) |-> IF i = n + 1 THEN G[f[n]] ELSE f[i]]
    <2>2. g \in [0..(n + 1) -> V] /\ g[0] = A
      BY <2>1
    <2>3. ASSUME NEW i \in 1..(n + 1) PROVE g[i] = G[g[i - 1]]
      BY <2>1
    <2> HIDE DEF g
    <2> QED
      BY <2>2, <2>3
  <1>3. 0 \in S /\ \A n \in Nat : n \in S => n + 1 \in S
    BY <1>1, <1>2, SMTT(30)
  <1>4. Nat \subseteq S
    <2> HIDE DEF S
    <2> QED
      BY <1>3, NatInd
  <1> QED
    BY <1>4

\* The same for a step that depends on the place.
Recursion(f, A, G, N) == f[0] = A /\ \A i \in 1..N : f[i] = G[i][f[i - 1]]

\* There is such a function.
LEMMA RecursionExists ==
    ASSUME NEW V, NEW A \in V, NEW N \in Nat, NEW G \in [1..N -> [V -> V]]
    PROVE  \E f \in [0..N -> V] : Recursion(f, A, G, N)
  <1> DEFINE Upto(n) == \E f \in [0..n -> V] :
                           f[0] = A /\ \A i \in 1..n : f[i] = G[i][f[i - 1]]
             S == {n \in Nat : n <= N => Upto(n)}
  <1>1. Upto(0)
    <2> DEFINE f == [i \in 0..0 |-> A]
    <2>1. f \in [0..0 -> V] /\ f[0] = A /\ \A i \in 1..0 : f[i] = G[i][f[i - 1]]
      OBVIOUS
    <2> QED
      BY <2>1
  <1>2. ASSUME NEW n \in Nat, n + 1 <= N, Upto(n) PROVE Upto(n + 1)
    <2>1. PICK f \in [0..n -> V] : f[0] = A /\ \A i \in 1..n : f[i] = G[i][f[i - 1]]
      BY <1>2
    <2> DEFINE e == G[n + 1][f[n]]
               g == [i \in 0..(n + 1) |-> IF i = n + 1 THEN e ELSE f[i]]
    <2>2. e \in V
      <3>1. n + 1 \in 1..N /\ f[n] \in V
        BY <1>2, <2>1
      <3> QED
        BY <3>1
    <2>3. \A i \in 1..n : f[i] = G[i][f[i - 1]]
      BY <2>1
    <2>4. ASSUME NEW i \in 1..(n + 1) PROVE g[i] = G[i][g[i - 1]]
      <3>1. CASE i = n + 1
        <4>1. g[i] = e /\ g[i - 1] = f[n]
          BY <3>1
        <4> HIDE DEF g
        <4> QED
          BY <3>1, <4>1 DEF e
      <3>2. CASE i # n + 1
        <4>1. i \in 1..n /\ g[i] = f[i] /\ g[i - 1] = f[i - 1]
          BY <3>2
        <4> HIDE DEF g
        <4> QED
          BY <2>3, <4>1
      <3> QED
        BY <3>1, <3>2
    <2> HIDE DEF e
    <2>5. g \in [0..(n + 1) -> V] /\ g[0] = A
      BY <2>1, <2>2
    <2> HIDE DEF g
    <2> QED
      BY <2>4, <2>5
  <1> HIDE DEF Upto
  <1>3. 0 \in S /\ \A n \in Nat : n \in S => n + 1 \in S
    BY <1>1, <1>2
  <1>4. Nat \subseteq S
    <2> HIDE DEF S
    <2> QED
      BY <1>3, NatInd
  <1>5. Upto(N)
    BY <1>4
  <1> QED
    BY <1>5 DEF Upto, Recursion

\* And it has its values where they belong.
LEMMA RecursionTypes ==
    ASSUME NEW V, NEW A \in V, NEW N \in Nat, NEW G \in [1..N -> [V -> V]],
           NEW f, f[0] = A, \A i \in 1..N : f[i - 1] \in V => f[i] = G[i][f[i - 1]]
    PROVE  \A i \in 0..N : f[i] \in V
  <1> DEFINE S == {n \in Nat : n <= N => f[n] \in V}
  <1>1. 0 \in S
    OBVIOUS
  <1>2. ASSUME NEW n \in S PROVE n + 1 \in S
    <2> SUFFICES ASSUME n + 1 <= N PROVE f[n + 1] \in V
      OBVIOUS
    <2>1. n + 1 \in 1..N /\ (n + 1) - 1 = n /\ f[n] \in V
      BY <1>2
    <2> QED
      BY <2>1
  <1>3. Nat \subseteq S
    <2>1. \A n \in Nat : n \in S => n + 1 \in S
      BY <1>2
    <2> HIDE DEF S
    <2> QED
      BY <1>1, <2>1, NatInd
  <1> QED
    BY <1>3

\* The same for a function that looks ahead: its value at i depends on those behind i.
LookAhead(f, G, N) == \A i \in 0..N : f[i] = G[i][[j \in (i + 1)..N |-> f[j]]]

LEMMA LookAheadExists ==
    ASSUME NEW V, NEW N \in Nat, NEW G,
           \A i \in 0..N : \A h \in [(i + 1)..N -> V] : G[i][h] \in V
    PROVE  \E f \in [0..N -> V] : LookAhead(f, G, N)
  <1> DEFINE Tail1(f, i) == [j \in (i + 1)..N |-> f[j]]
             From(m) == \E f \in [m..N -> V] : \A i \in m..N : f[i] = G[i][Tail1(f, i)]
             S == {n \in Nat : n <= N + 1 => From(N + 1 - n)}
  <1>1. From(N + 1)
    <2> DEFINE f == [i \in (N + 1)..N |-> CHOOSE x \in V : TRUE]
    <2>1. f \in [(N + 1)..N -> V] /\ \A i \in (N + 1)..N : f[i] = G[i][Tail1(f, i)]
      OBVIOUS
    <2> QED
      BY <2>1
  <1>2. ASSUME NEW m \in 0..N, From(m + 1) PROVE From(m)
    <2>1. PICK f \in [(m + 1)..N -> V] : \A i \in (m + 1)..N : f[i] = G[i][Tail1(f, i)]
      BY <1>2
    <2> DEFINE e == G[m][Tail1(f, m)]
               g == [i \in m..N |-> IF i = m THEN e ELSE f[i]]
    <2>2. e \in V
      <3>1. Tail1(f, m) \in [(m + 1)..N -> V]
        OBVIOUS
      <3> HIDE DEF Tail1
      <3> QED
        BY <3>1
    <2>3. ASSUME NEW i \in m..N PROVE Tail1(g, i) = Tail1(f, i)
      <3>1. \A j \in (i + 1)..N : g[j] = f[j]
        BY <2>3
      <3> HIDE DEF g
      <3> QED
        BY <3>1
    <2>4. ASSUME NEW i \in m..N PROVE g[i] = G[i][Tail1(g, i)]
      <3>1. CASE i = m
        <4>1. g[i] = e
          BY <3>1
        <4> HIDE DEF g, Tail1
        <4> QED
          BY <2>3, <3>1, <4>1
      <3>2. CASE i # m
        <4>1. i \in (m + 1)..N /\ g[i] = f[i]
          BY <3>2
        <4> HIDE DEF g, Tail1
        <4> QED
          BY <2>1, <2>3, <4>1
      <3> QED
        BY <3>1, <3>2
    <2>5. g \in [m..N -> V]
      <3> HIDE DEF e
      <3> QED
        BY <2>2
    <2> HIDE DEF g, Tail1
    <2> QED
      BY <2>4, <2>5
  <1> HIDE DEF From
  <1>3. 0 \in S
    BY <1>1
  <1>4. ASSUME NEW n \in Nat, n \in S PROVE n + 1 \in S
    <2> SUFFICES ASSUME n + 1 <= N + 1 PROVE From(N + 1 - (n + 1))
      OBVIOUS
    <2>1. N - n \in 0..N /\ N + 1 - (n + 1) = N - n /\ N + 1 - n = (N - n) + 1 /\ From(N + 1 - n)
      BY <1>4
    <2> QED
      BY <1>2, <2>1
  <1>5. Nat \subseteq S
    <2> HIDE DEF S
    <2> QED
      BY <1>3, <1>4, NatInd
  <1>6. From(0)
    <2>1. N + 1 \in S /\ N + 1 - (N + 1) = 0
      BY <1>5
    <2> QED
      BY <2>1
  <1> QED
    BY <1>6 DEF From, LookAhead

\* The members of a finite set, seen through f, are finitely many.
LEMMA FiniteImage ==
    ASSUME NEW S, IsFiniteSet(S), NEW f, DOMAIN f = S
    PROVE  LET T == {f[x] : x \in S}
           IN  IsFiniteSet(T) /\ Cardinality(T) <= Cardinality(S)
  <1> DEFINE T == {f[x] : x \in S}
             g == [x \in S |-> f[x]]
  <1>1. g \in [S -> T] /\ \A y \in T : \E x \in S : g[x] = y
    OBVIOUS
  <1>2. g \in Surjection(S, T)
    BY <1>1 DEF Surjection
  <1> HIDE DEF T, g
  <1>3. IsFiniteSet(T) /\ Cardinality(T) <= Cardinality(S)
    BY <1>2, FS_Surjection
  <1> QED
    BY <1>3 DEF T

\* The elements of a sequence are at most as many as its places.
LEMMA ElementsOfSeq ==
    ASSUME NEW R, NEW s \in Seq(R)
    PROVE  LET T == {s[i] : i \in DOMAIN s}
           IN  IsFiniteSet(T) /\ Cardinality(T) \in Nat /\ Cardinality(T) <= Len(s)
  <1> DEFINE T == {s[i] : i \in DOMAIN s}
  <1>1. IsFiniteSet(1..Len(s)) /\ Cardinality(1..Len(s)) = Len(s)
    <2>1. Len(s) \in Nat /\ 1 \in Int /\ Len(s) \in Int
      OBVIOUS
    <2> HIDE DEF T
    <2> QED
      BY <2>1, FS_Interval, SMTT(30)
  <1>2. IsFiniteSet(T) /\ Cardinality(T) <= Len(s)
    BY <1>1, FiniteImage
  <1> QED
    BY <1>2, FS_CardinalityType

\* A union has at most as many members as its parts have together.
LEMMA UnionBound ==
    ASSUME NEW S, IsFiniteSet(S), NEW T, IsFiniteSet(T)
    PROVE  /\ IsFiniteSet(S \cup T)
           /\ Cardinality(S \cup T) \in Nat
           /\ Cardinality(S \cup T) <= Cardinality(S) + Cardinality(T)
  <1>1. /\ IsFiniteSet(S \cup T)
        /\ Cardinality(S \cup T) = Cardinality(S) + Cardinality(T) - Cardinality(S \cap T)
    BY FS_Union
  <1>2. IsFiniteSet(S \cap T)
    BY FS_Subset
  <1> QED
    BY <1>1, <1>2, FS_CardinalityType

\* Finitely many natural numbers have a greatest one.
LEMMA GreatestNat ==
    ASSUME NEW R, IsFiniteSet(R), R \subseteq Nat, R # {}
    PROVE  \E m \in R : \A n \in R : n <= m
  <1> DEFINE HasMax(T) == \E m \in T : \A n \in T : n <= m
             S == {k \in Nat : \A T \in SUBSET R : T # {} /\ Cardinality(T) = k => HasMax(T)}
  <1>1. 0 \in S
    BY FS_Subset, FS_EmptySet
  <1>2. ASSUME NEW k \in S, NEW T \in SUBSET R, T # {}, Cardinality(T) = k + 1
        PROVE  HasMax(T)
    <2>1. PICK x \in T : TRUE
      BY <1>2
    <2>2. Cardinality(T \ {x}) = k
      <3>1. IsFiniteSet(T)
        BY FS_Subset
      <3>2. Cardinality(T \ {x}) = Cardinality(T) - 1
        BY <2>1, <3>1, FS_RemoveElement
      <3> QED
        BY <1>2, <3>2
    <2>3. CASE T \ {x} = {}
      BY <2>3
    <2>4. CASE T \ {x} # {}
      <3>1. HasMax(T \ {x})
        BY <2>2, <2>4
      <3>2. PICK m \in T \ {x} : \A n \in T \ {x} : n <= m
        BY <3>1
      <3>3. CASE x <= m
        BY <3>2, <3>3
      <3>4. CASE ~(x <= m)
        BY <3>2, <3>4
      <3> QED
        BY <3>3, <3>4
    <2> QED
      BY <2>3, <2>4
  <1>3. \A k \in Nat : k \in S => k + 1 \in S
    BY <1>2
  <1>4. Nat \subseteq S
    <2> HIDE DEF S
    <2> QED
      BY <1>1, <1>3, NatInd
  <1>5. Cardinality(R) \in S
    BY <1>4, FS_CardinalityType
  <1> QED
    BY <1>5

-----------------------------------------------------------------------------
(***************************************************************************)
(* The depths of a crawl.                                                  *)
(***************************************************************************)

LEMMA SetOfSeq ==
    ASSUME NEW R, NEW s \in Seq(R)
    PROVE  /\ SetOf(s) \in SUBSET R
           /\ IsFiniteSet(SetOf(s)) /\ Cardinality(SetOf(s)) \in Nat
           /\ Cardinality(SetOf(s)) <= Len(s)
  <1>1. SetOf(s) \in SUBSET R
    BY DEF SetOf
  <1> QED
    BY <1>1, ElementsOfSeq DEF SetOf

\* What is taken from the front of a sequence, and what is left.
LEMMA HeadAndTail ==
    ASSUME NEW R, NEW s \in Seq(R), s # <<>>
    PROVE  SetOf(s) = {Head(s)} \cup SetOf(Tail(s)) /\ Head(s) \in SetOf(s)
  <1>1. Head(s) = s[1] /\ Tail(s) \in Seq(R) /\ Len(Tail(s)) = Len(s) - 1 /\ Len(s) \in Nat \ {0}
    BY DEF SetOf
  <1>2. \A i \in 1..Len(Tail(s)) : Tail(s)[i] = s[i + 1]
    OBVIOUS
  <1>3. DOMAIN s = 1..Len(s) /\ DOMAIN Tail(s) = 1..Len(Tail(s))
    BY <1>1
  <1>4. ASSUME NEW i \in DOMAIN s PROVE s[i] \in {Head(s)} \cup SetOf(Tail(s))
    <2>1. CASE i = 1
      BY <1>1, <2>1
    <2>2. CASE i # 1
      <3>1. i - 1 \in 1..Len(Tail(s)) /\ (i - 1) + 1 = i
        BY <1>1, <1>3, <2>2
      <3>2. Tail(s)[i - 1] = s[i]
        BY <1>2, <3>1
      <3> QED
        BY <1>3, <3>1, <3>2 DEF SetOf
    <2> QED
      BY <2>1, <2>2
  <1>5. ASSUME NEW i \in DOMAIN Tail(s) PROVE Tail(s)[i] \in SetOf(s)
    <2>1. i + 1 \in DOMAIN s /\ Tail(s)[i] = s[i + 1]
      BY <1>1, <1>2, <1>3
    <2> QED
      BY <2>1 DEF SetOf
  <1>6. Head(s) \in SetOf(s)
    BY <1>1, <1>3 DEF SetOf
  <1> QED
    BY <1>4, <1>5, <1>6 DEF SetOf

\* The recursion of Reach is well defined.
LEMMA ReachDef ==
    ASSUME NEW R, NEW seeds \in Seq(R), NEW links \in [R -> Seq(R)],
           NEW depth \in Nat, NEW pages
    PROVE  LET near == Reach(seeds, links, depth, pages)
           IN  /\ near \in [0..depth -> SUBSET R]
               /\ near[0] = SetOf(seeds)
               /\ \A n \in 1..depth : near[n] = LinksFrom(links, near[n - 1] \cap pages)
  <1> DEFINE V == SUBSET R
             A == SetOf(seeds)
             G == [urls \in V |-> LinksFrom(links, urls \cap pages)]
             Body(f) == [n \in 0..depth |->
                            IF n = 0 THEN SetOf(seeds) ELSE LinksFrom(links, f[n - 1] \cap pages)]
             near == Reach(seeds, links, depth, pages)
  <1>1. A \in V /\ \A u \in R : SetOf(links[u]) \in V
    BY SetOfSeq
  <1>2. G \in [V -> V]
    BY <1>1 DEF LinksFrom
  <1>3. PICK f \in [0..depth -> V] : Iteration(f, A, G, depth)
    <2> HIDE DEF G, V, A
    <2> QED
      BY <1>1, <1>2, IterationExists
  <1>4. \A n \in 1..depth : n \in 0..depth /\ n - 1 \in 0..depth
    OBVIOUS
  <1>5. f[0] = A /\ \A n \in 1..depth : f[n] = LinksFrom(links, f[n - 1] \cap pages)
    BY <1>3, <1>4 DEF Iteration
  <1> HIDE DEF G, V, A
  <1>6. f = Body(f)
    <2>1. \A n \in 0..depth : f[n] = Body(f)[n]
      BY <1>5 DEF A
    <2> QED
      BY <2>1
  <1>7. near = CHOOSE g : g = Body(g)
    BY DEF Reach
  <1>8. near = Body(near)
    BY <1>6, <1>7
  <1> HIDE DEF near
  <1>9. /\ near[0] = SetOf(seeds)
        /\ \A n \in 1..depth : near[n] = LinksFrom(links, near[n - 1] \cap pages)
    <2>1. \A n \in 0..depth : near[n] = Body(near)[n]
      BY <1>8
    <2>2. \A n \in 1..depth : n \in 0..depth /\ n # 0
      OBVIOUS
    <2>3. 0 \in 0..depth
      OBVIOUS
    <2> QED
      BY <2>1, <2>2, <2>3
  <1> DEFINE Same == {n \in Nat : n \in 0..depth => near[n] = f[n]}
  <1>10. 0 \in Same
    BY <1>5, <1>9 DEF A
  <1>11. ASSUME NEW n \in Nat, n \in Same, n + 1 \in 0..depth PROVE near[n + 1] = f[n + 1]
    <2>1. n + 1 \in 1..depth /\ (n + 1) - 1 = n /\ near[n] = f[n]
      BY <1>11
    <2> QED
      BY <1>5, <1>9, <2>1
  <1>12. Nat \subseteq Same
    <2>1. \A n \in Nat : n \in Same => n + 1 \in Same
      BY <1>11
    <2> HIDE DEF Same
    <2> QED
      BY <1>10, <2>1, NatInd
  <1>13. near = f
    <2>1. \A n \in 0..depth : near[n] = f[n]
      BY <1>12
    <2> QED
      BY <1>6, <1>8, <2>1
  <1> QED
    BY <1>9, <1>13 DEF V, near

\* The more pages come back, the farther their links lead.
LEMMA ReachGrows ==
    ASSUME NEW R, NEW seeds \in Seq(R), NEW links \in [R -> Seq(R)],
           NEW depth \in Nat, NEW pages, NEW more, pages \subseteq more,
           NEW n \in 0..depth
    PROVE  Reach(seeds, links, depth, pages)[n] \subseteq Reach(seeds, links, depth, more)[n]
  <1> DEFINE old == Reach(seeds, links, depth, pages)
             new == Reach(seeds, links, depth, more)
             Grows == {k \in Nat : k \in 0..depth => old[k] \subseteq new[k]}
  <1>1. /\ old[0] = SetOf(seeds) /\ new[0] = SetOf(seeds)
        /\ \A k \in 1..depth : /\ old[k] = LinksFrom(links, old[k - 1] \cap pages)
                               /\ new[k] = LinksFrom(links, new[k - 1] \cap more)
    BY ReachDef
  <1> HIDE DEF old, new
  <1>2. 0 \in Grows
    BY <1>1
  <1>3. ASSUME NEW k \in Nat, k \in Grows, k + 1 \in 0..depth
        PROVE  old[k + 1] \subseteq new[k + 1]
    <2>1. k + 1 \in 1..depth /\ (k + 1) - 1 = k /\ old[k] \subseteq new[k]
      BY <1>3
    <2>2. /\ old[k + 1] = LinksFrom(links, old[k] \cap pages)
          /\ new[k + 1] = LinksFrom(links, new[k] \cap more)
      BY <1>1, <2>1
    <2> QED
      BY <2>1, <2>2 DEF LinksFrom
  <1>4. Nat \subseteq Grows
    <2>1. ASSUME NEW k \in Nat, k \in Grows PROVE k + 1 \in Grows
      <3>1. k + 1 \in 0..depth => old[k + 1] \subseteq new[k + 1]
        BY <1>3, <2>1
      <3> QED
        BY <3>1
    <2> HIDE DEF Grows
    <2> QED
      BY <1>2, <2>1, NatInd
  <1> QED
    BY <1>4 DEF old, new
=============================================================================
