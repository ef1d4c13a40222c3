---------------------------- MODULE FetchProofs ----------------------------
(***************************************************************************)
(* What the fetcher, the functions on texts and the rate limiter           *)
(* guarantee.                                                              *)
(***************************************************************************)
EXTENDS RateLimiter, LinkFetcher, TextFunctions, SharedLemmas, SequenceTheorems,
        FiniteSetTheorems

(***************************************************************************)
(* Sequences.                                                              *)
(***************************************************************************)

LEMMA AppendSeq ==
    ASSUME NEW R, NEW s \in Seq(R), NEW e \in R
    PROVE  /\ Append(s, e) \in Seq(R) /\ Len(Append(s, e)) = Len(s) + 1
           /\ \A i \in 1..Len(s) : Append(s, e)[i] = s[i]
           /\ Append(s, e)[Len(s) + 1] = e
  BY AppendProperties

LEMMA PrefixSeq ==
    ASSUME NEW R, NEW s \in Seq(R), NEW n \in Nat, n <= Len(s)
    PROVE  /\ SubSeq(s, 1, n) \in Seq(R) /\ Len(SubSeq(s, 1, n)) = n
           /\ \A i \in 1..n : SubSeq(s, 1, n)[i] = s[i]
  OBVIOUS

LEMMA PieceSeq ==
    ASSUME NEW R, NEW s \in Seq(R), NEW m \in Nat \ {0}, NEW n \in Nat, m <= n + 1, n <= Len(s)
    PROVE  /\ SubSeq(s, m, n) \in Seq(R) /\ Len(SubSeq(s, m, n)) = n - m + 1
           /\ \A i \in 1..(n - m + 1) : SubSeq(s, m, n)[i] = s[m + i - 1]
  OBVIOUS

LEMMA FrontSeq ==
    ASSUME NEW R, NEW s \in Seq(R), s # <<>>
    PROVE  /\ Len(s) \in Nat \ {0}
           /\ Front(s) \in Seq(R) /\ Len(Front(s)) = Len(s) - 1
           /\ \A i \in 1..(Len(s) - 1) : Front(s)[i] = s[i]
  <1>1. Len(s) \in Nat \ {0}
    BY EmptySeq
  <1>2. Len(s) - 1 \in Nat /\ Len(s) - 1 <= Len(s)
    BY <1>1
  <1>3. /\ SubSeq(s, 1, Len(s) - 1) \in Seq(R) /\ Len(SubSeq(s, 1, Len(s) - 1)) = Len(s) - 1
        /\ \A i \in 1..(Len(s) - 1) : SubSeq(s, 1, Len(s) - 1)[i] = s[i]
    BY <1>2, PrefixSeq
  <1> QED
    BY <1>1, <1>3 DEF Front

LEMMA ConcatBegins ==
    ASSUME NEW R, NEW s \in Seq(R), NEW t \in Seq(R)
    PROVE  /\ s \o t \in Seq(R) /\ Len(s \o t) = Len(s) + Len(t)
           /\ \A i \in 1..Len(s) : (s \o t)[i] = s[i]
           /\ \A i \in 1..Len(t) : (s \o t)[Len(s) + i] = t[i]
  <1>1. Len(s) \in Nat /\ Len(t) \in Nat
    BY LenProperties
  <1>2. /\ s \o t \in Seq(R) /\ Len(s \o t) = Len(s) + Len(t)
        /\ \A i \in 1..(Len(s) + Len(t)) :
              (s \o t)[i] = IF i <= Len(s) THEN s[i] ELSE t[i - Len(s)]
    BY ConcatProperties
  <1>3. \A i \in 1..Len(s) : i \in 1..(Len(s) + Len(t)) /\ i <= Len(s)
    BY <1>1
  <1>4. \A i \in 1..Len(t) : /\ Len(s) + i \in 1..(Len(s) + Len(t)) /\ ~(Len(s) + i <= Len(s))
                             /\ (Len(s) + i) - Len(s) = i
    BY <1>1
  <1> QED
    BY <1>2, <1>3, <1>4

(***************************************************************************)
(* URLs are sequences of strings.                                          *)
(***************************************************************************)

Path == Seq(Segments)

LEMMA BlankIsOther == Blank \notin {"http:", "https:", "..", "."}
  BY Zenon DEF Blank

LEMMA PathLen ==
    ASSUME NEW p \in Path
    PROVE  /\ Len(p) \in Nat /\ DOMAIN p = 1..Len(p)
           /\ \A i \in 1..Len(p) : p[i] \in Segments
           /\ p = <<>> <=> Len(p) = 0
           /\ p # <<>> <=> Len(p) > 0
  <1>1. p \in Seq(Segments)
    BY DEF Path
  <1>2. Len(p) \in Nat /\ DOMAIN p = 1..Len(p) /\ \A i \in 1..Len(p) : p[i] \in Segments
    BY <1>1, LenProperties, ElementOfSeq
  <1>3. p = <<>> <=> Len(p) = 0
    BY <1>1, EmptySeq
  <1> QED
    BY <1>2, <1>3

LEMMA PathAppend ==
    ASSUME NEW p \in Path, NEW s \in Segments
    PROVE  /\ Append(p, s) \in Path /\ Len(Append(p, s)) = Len(p) + 1
           /\ \A i \in 1..Len(p) : Append(p, s)[i] = p[i]
           /\ Append(p, s)[Len(p) + 1] = s
  BY AppendSeq DEF Path

LEMMA PathFront ==
    ASSUME NEW p \in Path, Len(p) > 0
    PROVE  /\ Front(p) \in Path /\ Len(Front(p)) = Len(p) - 1
           /\ \A i \in 1..(Len(p) - 1) : Front(p)[i] = p[i]
  BY FrontSeq, PathLen DEF Path

LEMMA PathTail ==
    ASSUME NEW p \in Path, Len(p) > 0
    PROVE  /\ Tail(p) \in Path /\ Len(Tail(p)) = Len(p) - 1
           /\ \A i \in 1..(Len(p) - 1) : Tail(p)[i] = p[i + 1]
  BY HeadTailProperties, PathLen DEF Path

LEMMA PathPrefix ==
    ASSUME NEW p \in Path, NEW n \in Nat, n <= Len(p)
    PROVE  /\ SubSeq(p, 1, n) \in Path /\ Len(SubSeq(p, 1, n)) = n
           /\ \A i \in 1..n : SubSeq(p, 1, n)[i] = p[i]
  BY PrefixSeq DEF Path

LEMMA PathPiece ==
    ASSUME NEW p \in Path, NEW m \in Nat \ {0}, m <= Len(p) + 1
    PROVE  SubSeq(p, m, Len(p)) \in Path /\ Len(SubSeq(p, m, Len(p))) = (Len(p) - m) + 1
  <1>1. Len(p) \in Nat /\ p \in Seq(Segments)
    BY PathLen DEF Path
  <1>2. \A i \in m..Len(p) : p[i] \in Segments
    BY <1>1
  <1> QED
    BY <1>1, <1>2, SubSeqProperties DEF Path

LEMMA PathConcat ==
    ASSUME NEW p \in Path, NEW q \in Path
    PROVE  /\ p \o q \in Path /\ Len(p \o q) = Len(p) + Len(q)
           /\ \A i \in 1..Len(p) : (p \o q)[i] = p[i]
           /\ \A i \in 1..Len(q) : (p \o q)[Len(p) + i] = q[i]
  BY ConcatBegins DEF Path

LEMMA PathEqual ==
    ASSUME NEW p \in Path, NEW q \in Path, Len(p) = Len(q), \A i \in 1..Len(p) : p[i] = q[i]
    PROVE  p = q
  BY SeqEqual DEF Path

LEMMA PathEmpty == <<>> \in Path /\ Len(<<>>) = 0
  BY EmptySeq DEF Path

\* One segment alone, and three.
LEMMA PathTuples ==
    ASSUME NEW a \in Segments, NEW b \in Segments, NEW c \in Segments
    PROVE  /\ <<a>> \in Path /\ Len(<<a>>) = 1 /\ <<a>>[1] = a
           /\ <<a, b, c>> \in Path /\ Len(<<a, b, c>>) = 3
           /\ <<a, b, c>>[1] = a /\ <<a, b, c>>[2] = b /\ <<a, b, c>>[3] = c
  BY DEF Path

\* Induction up to a bound.
LEMMA UpTo ==
    ASSUME NEW N \in Nat, NEW S, 0 \in S, \A n \in 0..(N - 1) : n \in S => n + 1 \in S
    PROVE  \A n \in 0..N : n \in S
  <1> DEFINE T == {n \in Nat : n <= N => n \in S}
  <1>1. 0 \in T
    OBVIOUS
  <1>2. \A n \in Nat : n \in T => n + 1 \in T
    <2> SUFFICES ASSUME NEW n \in Nat, n \in T, n + 1 <= N PROVE n + 1 \in S
      OBVIOUS
    <2>1. n \in 0..(N - 1) /\ n \in S
      OBVIOUS
    <2> QED
      BY <2>1
  <1>3. Nat \subseteq T
    <2> HIDE DEF T
    <2> QED
      BY <1>1, <1>2, NatInd
  <1> QED
    BY <1>3

(***************************************************************************)
(* Links: the recursions are well defined.                                 *)
(***************************************************************************)

NoneEmpty(parts) == \A i \in 1..Len(parts) : parts[i] # Blank

LEMMA PartTakenType ==
    ASSUME NEW parts \in Path, NEW s \in Segments
    PROVE  /\ PartTaken(parts, s) \in Path
           /\ Len(PartTaken(parts, s)) =
                 IF s = ".." /\ Len(parts) > 0 THEN Len(parts) - 1
                 ELSE IF s \notin {".", Blank} THEN Len(parts) + 1 ELSE Len(parts)
           /\ NoneEmpty(parts) => NoneEmpty(PartTaken(parts, s))
  <1>0. Len(parts) \in Nat /\ (parts = <<>> <=> Len(parts) = 0) /\ (parts # <<>> <=> Len(parts) > 0)
    BY PathLen
  <1>1. CASE s = ".." /\ parts # <<>>
    <2>1. PartTaken(parts, s) = Front(parts)
      BY <1>1 DEF PartTaken
    <2>2. /\ Front(parts) \in Path /\ Len(Front(parts)) = Len(parts) - 1
          /\ \A i \in 1..(Len(parts) - 1) : Front(parts)[i] = parts[i]
      BY <1>0, <1>1, PathFront
    <2>3. \A i \in 1..(Len(parts) - 1) : i \in 1..Len(parts)
      BY <1>0
    <2>4. NoneEmpty(parts) => NoneEmpty(PartTaken(parts, s))
      BY <2>1, <2>2, <2>3 DEF NoneEmpty
    <2> QED
      BY <1>0, <1>1, <2>1, <2>2, <2>4
  <1>2. CASE ~(s = ".." /\ parts # <<>>) /\ s \notin {".", Blank}
    <2>1. PartTaken(parts, s) = Append(parts, s)
      BY <1>2 DEF PartTaken
    <2>2. /\ Append(parts, s) \in Path /\ Len(Append(parts, s)) = Len(parts) + 1
          /\ \A i \in 1..Len(parts) : Append(parts, s)[i] = parts[i]
          /\ Append(parts, s)[Len(parts) + 1] = s
      BY PathAppend
    <2>3. \A i \in 1..(Len(parts) + 1) : i \in 1..Len(parts) \/ i = Len(parts) + 1
      BY <1>0
    <2>4. NoneEmpty(parts) => NoneEmpty(PartTaken(parts, s))
      BY <1>2, <2>1, <2>2, <2>3 DEF NoneEmpty
    <2>5. ~(s = ".." /\ Len(parts) > 0)
      BY <1>0, <1>2, Zenon
    <2> QED
      BY <1>2, <2>1, <2>2, <2>4, <2>5, Zenon
  <1>3. CASE ~(s = ".." /\ parts # <<>>) /\ s \in {".", Blank}
    <2>1. PartTaken(parts, s) = parts
      BY <1>3 DEF PartTaken
    <2> QED
      BY <1>0, <1>3, <2>1
  <1> QED
    BY <1>1, <1>2, <1>3

\* Parts takes one segment after the other.
PartsBy(all, f) ==
    /\ f \in [0..(Len(all) - 1) -> Path] /\ f[0] = <<>>
    /\ \A i \in 1..(Len(all) - 1) : f[i] = PartTaken(f[i - 1], all[i])

LEMMA PartsDef ==
    ASSUME NEW dir \in Path, NEW raw \in Path, Len(raw) > 0
    PROVE  LET all == dir \o raw
           IN  /\ all \in Path /\ Len(all) \in Nat \ {0} /\ Last(all) = all[Len(all)]
               /\ \E f : /\ PartsBy(all, f)
                         /\ Parts(dir, raw) = IF Last(all) # Blank
                                              THEN Append(f[Len(all) - 1], Last(all))
                                              ELSE f[Len(all) - 1]
  <1> DEFINE all == dir \o raw
             N == Len(all) - 1
             V == Path
             A == <<>>
             G == [i \in 1..N |-> [x \in V |-> PartTaken(x, all[i])]]
             Body(f) == [n \in 0..N |-> IF n = 0 THEN A ELSE PartTaken(f[n - 1], all[n])]
             after == CHOOSE f : f = Body(f)
  <1>1. all \in V /\ Len(all) \in Nat \ {0} /\ N \in Nat
    <2>1. Len(raw) \in Nat /\ Len(dir) \in Nat
      BY PathLen
    <2>2. all \in V /\ Len(all) = Len(dir) + Len(raw)
      BY PathConcat
    <2> QED
      BY <2>1, <2>2
  <1>2. \A i \in 1..N : all[i] \in Segments
    BY <1>1, PathLen
  <1> HIDE DEF all, N
  <1>3. \A i \in 1..N, x \in V : G[i][x] = PartTaken(x, all[i])
    OBVIOUS
  <1>14. G \in [1..N -> [V -> V]]
    BY <1>2, <1>3, PartTakenType
  <1>4. A \in V
    BY PathEmpty
  <1> HIDE DEF G, V, A
  <1>5. PICK f \in [0..N -> V] : Recursion(f, A, G, N)
    <2>1. N \in Nat
      BY <1>1
    <2> QED
      BY <1>4, <1>14, <2>1, RecursionExists, Zenon
  <1>6. \A i \in 1..N : i \in 0..N /\ i - 1 \in 0..N /\ i # 0 /\ f[i] = PartTaken(f[i - 1], all[i])
    <2>1. \A i \in 1..N : i \in 0..N /\ i - 1 \in 0..N /\ i # 0
      BY <1>1
    <2>2. \A i \in 1..N : f[i] = G[i][f[i - 1]]
      BY <1>5 DEF Recursion
    <2> QED
      BY <1>3, <2>1, <2>2
  <1>7. f = Body(f)
    <2>1. ASSUME NEW i \in 0..N PROVE f[i] = Body(f)[i]
      <3>1. CASE i = 0
        BY <1>5, <3>1 DEF Recursion
      <3>2. CASE i # 0
        <4>1. i \in 1..N
          BY <1>1, <3>2
        <4> QED
          BY <1>6, <3>2, <4>1
      <3> QED
        BY <3>1, <3>2
    <2> QED
      BY <1>5, <2>1
  <1>8. after = Body(after)
    BY <1>7
  <1>9. /\ Parts(dir, raw) = IF Last(all) # Blank THEN Append(after[N], Last(all)) ELSE after[N]
        /\ Last(all) = all[Len(all)]
    BY DEF Parts, Last, all, N, A
  <1> HIDE DEF after
  <1>10. after[0] = A /\ \A i \in 1..N : after[i] = PartTaken(after[i - 1], all[i])
    <2>1. \A i \in 0..N : after[i] = Body(after)[i]
      BY <1>8
    <2>2. 0 \in 0..N
      BY <1>1
    <2> QED
      BY <1>6, <2>1, <2>2
  <1>11. \A i \in 0..N : after[i] \in V
    <2>1. \A i \in 1..N : after[i - 1] \in V => after[i] = G[i][after[i - 1]]
      BY <1>3, <1>10
    <2> QED
      BY <1>1, <1>4, <1>10, <1>14, <2>1, RecursionTypes
  <1>12. after \in [0..N -> V]
    BY <1>8, <1>11
  <1>13. PartsBy(all, after)
    BY <1>10, <1>12 DEF PartsBy, V, N, A
  <1> QED
    BY <1>1, <1>9, <1>13 DEF all, N, V

\* No segment of a path that was put together is empty.
LEMMA PartsType ==
    ASSUME NEW dir \in Path, NEW raw \in Path, Len(raw) > 0
    PROVE  Parts(dir, raw) \in Path /\ NoneEmpty(Parts(dir, raw))
  <1> DEFINE all == dir \o raw
             N == Len(all) - 1
  <1>1. all \in Path /\ Len(all) \in Nat \ {0} /\ Last(all) = all[Len(all)]
    BY PartsDef
  <1>2. PICK f : /\ PartsBy(all, f)
                 /\ Parts(dir, raw) = IF Last(all) # Blank THEN Append(f[N], Last(all)) ELSE f[N]
    BY PartsDef
  <1>3. N \in Nat /\ (\A i \in 1..N : all[i] \in Segments) /\ Last(all) \in Segments
    <2>1. N \in Nat /\ (\A i \in 1..N : i \in 1..Len(all)) /\ Len(all) \in 1..Len(all)
      BY <1>1
    <2> QED
      BY <1>1, <2>1, PathLen
  <1> HIDE DEF all
  <1>4. /\ f \in [0..N -> Path] /\ f[0] = <<>>
        /\ \A i \in 1..N : f[i] = PartTaken(f[i - 1], all[i])
    BY <1>2 DEF PartsBy
  <1> HIDE DEF N
  <1> DEFINE S == {n \in 0..N : NoneEmpty(f[n])}
  <1>5. 0 \in S
    <2>1. Len(f[0]) = 0
      BY <1>4, PathEmpty, Zenon
    <2>2. NoneEmpty(f[0])
      <3>1. \A i \in 1..Len(f[0]) : FALSE
        BY <2>1
      <3> QED
        BY <3>1, Zenon DEF NoneEmpty
    <2>3. 0 \in 0..N
      BY <1>3
    <2> QED
      BY <2>2, <2>3, Zenon
  <1>6. ASSUME NEW n \in 0..(N - 1), n \in S PROVE n + 1 \in S
    <2>1. n + 1 \in 1..N /\ (n + 1) - 1 = n /\ n \in 0..N /\ n + 1 \in 0..N
      BY <1>3
    <2>2. f[n] \in Path /\ all[n + 1] \in Segments /\ f[n + 1] = PartTaken(f[n], all[n + 1])
      BY <1>3, <1>4, <2>1
    <2>3. NoneEmpty(f[n])
      BY <1>6
    <2> QED
      BY <2>1, <2>2, <2>3, PartTakenType
  <1>7. f[N] \in Path /\ NoneEmpty(f[N])
    <2>1. \A n \in 0..N : n \in S
      <3> HIDE DEF S
      <3> QED
        BY <1>3, <1>5, <1>6, UpTo
    <2>2. N \in 0..N
      BY <1>3
    <2> QED
      BY <1>4, <2>1, <2>2
  <1>8. CASE Last(all) = Blank
    BY <1>2, <1>7, <1>8
  <1>9. CASE Last(all) # Blank
    <2> DEFINE t == Append(f[N], Last(all))
    <2>1. /\ t \in Path /\ Len(t) = Len(f[N]) + 1 /\ Len(f[N]) \in Nat
          /\ \A i \in 1..Len(f[N]) : t[i] = f[N][i]
          /\ t[Len(f[N]) + 1] = Last(all)
      BY <1>3, <1>7, PathAppend, PathLen
    <2>2. \A i \in 1..(Len(f[N]) + 1) : i \in 1..Len(f[N]) \/ i = Len(f[N]) + 1
      BY <2>1
    <2> HIDE DEF t
    <2>3. NoneEmpty(t)
      BY <1>7, <1>9, <2>1, <2>2 DEF NoneEmpty
    <2> QED
      BY <1>2, <1>9, <2>1, <2>3 DEF t
  <1> QED
    BY <1>8, <1>9

\* No link that starts with a scheme or a slash is empty.
LEMMA NotEmptyLink ==
    ASSUME NEW raw, IsAbsolute(raw) \/ IsRooted(raw)
    PROVE  raw # <<Blank>>
  <1>1. Len(<<Blank>>) = 1
    OBVIOUS
  <1> QED
    BY <1>1 DEF IsAbsolute, IsRooted

\* The links that resolve_url makes absolute are those that mean one, and lead there.
LEMMA ResolvedRight ==
    ASSUME NEW raw \in Path, Len(raw) > 0, NEW base \in Path, IsAbsolute(base)
    PROVE  LET leads == IsAbsolute(raw) \/ (IsRooted(raw) /\ ~InheritsScheme(raw))
           IN  /\ resolve_url(raw, base) \in Path
               /\ IsAbsolute(resolve_url(raw, base)) <=> leads
               /\ leads => resolve_url(raw, base) = Meaning(raw, base)
  <1>1. /\ Len(raw) \in Nat \ {0} /\ Tail(raw) \in Path /\ Len(Tail(raw)) = Len(raw) - 1
        /\ \A i \in 1..(Len(raw) - 1) : Tail(raw)[i] = raw[i + 1]
    BY PathLen, PathTail
  <1>2. CASE IsAbsolute(raw)
    <2>1. resolve_url(raw, base) = raw /\ Meaning(raw, base) = raw
      <3>1. ~InheritsScheme(raw) /\ ~IsRooted(raw) /\ raw # <<Blank>>
        BY <1>2, BlankIsOther, NotEmptyLink DEF IsAbsolute, InheritsScheme, IsRooted
      <3> QED
        BY <1>2, <3>1 DEF resolve_url, Meaning
    <2> QED
      BY <1>2, <2>1
  <1>3. CASE InheritsScheme(raw)
    <2>1. ~IsAbsolute(raw)
      BY <1>3, BlankIsOther DEF IsAbsolute, InheritsScheme
    <2>2. resolve_url(raw, base) = SchemeOnly(base) \o Tail(raw)
      BY <1>3, <2>1 DEF resolve_url
    <2>3. SchemeOnly(base) \in Path /\ Len(SchemeOnly(base)) = 1
          /\ SchemeOnly(base)[1] \notin {"http:", "https:"}
      <3>1. PICK scheme \in {"https", "http"} : SchemeOnly(base) = <<scheme>>
        BY Zenon DEF SchemeOnly
      <3>2. scheme \in Segments
        BY <3>1, SegmentsAssumption, Zenon
      <3>3. scheme \notin {"http:", "https:"}
        BY <3>1
      <3>4. <<scheme>> \in Path /\ Len(<<scheme>>) = 1 /\ <<scheme>>[1] = scheme
        BY <3>2, PathTuples, Zenon
      <3> QED
        BY <3>1, <3>3, <3>4, Zenon
    <2>4. /\ resolve_url(raw, base) \in Path
          /\ resolve_url(raw, base)[1] = SchemeOnly(base)[1]
      <3>1. 1 \in 1..Len(SchemeOnly(base))
        BY <2>3
      <3>2. Tail(raw) \in Path /\ SchemeOnly(base) \in Path
        BY <1>1, <2>3
      <3>3. /\ SchemeOnly(base) \o Tail(raw) \in Path
            /\ (SchemeOnly(base) \o Tail(raw))[1] = SchemeOnly(base)[1]
        <4> DEFINE p == SchemeOnly(base)
                   q == Tail(raw)
        <4>1. p \in Path /\ q \in Path /\ 1 \in 1..Len(p)
          BY <3>1, <3>2
        <4> HIDE DEF p, q
        <4>2. p \o q \in Path /\ (p \o q)[1] = p[1]
          BY <4>1, PathConcat
        <4> QED
          BY <4>2 DEF p, q
      <3> QED
        BY <2>2, <3>3, Zenon
    <2>5. ~IsAbsolute(resolve_url(raw, base))
      BY <2>3, <2>4, Zenon DEF IsAbsolute
    <2> QED
      BY <1>3, <2>1, <2>4, <2>5, Zenon
  <1>4. CASE IsRooted(raw) /\ ~InheritsScheme(raw) /\ ~IsAbsolute(raw)
    <2>1. resolve_url(raw, base) = SchemeHost(base) \o Tail(raw)
      BY <1>4 DEF resolve_url, Rooted
    <2>2. /\ Len(base) \in Nat /\ Len(base) >= 3 /\ base[2] = Blank
          /\ base[1] \in {"http:", "https:"} /\ base[1] \in Segments /\ base[3] \in Segments
      <3>1. Len(base) >= 3 /\ base[1] \in {"http:", "https:"} /\ base[2] = Blank
        BY DEF IsAbsolute
      <3>2. Len(base) \in Nat /\ \A i \in 1..Len(base) : base[i] \in Segments
        BY PathLen
      <3>4. Len(base) >= 3
        BY <3>1
      <3>3. 1 \in 1..Len(base) /\ 3 \in 1..Len(base)
        BY <3>2, <3>4
      <3> QED
        BY <3>1, <3>2, <3>3, Zenon
    <2>3. /\ SchemeHost(base) \in Path /\ Len(SchemeHost(base)) = 3
          /\ \A i \in 1..3 : SchemeHost(base)[i] = base[i]
      <3>1. 3 \in Nat /\ 3 <= Len(base)
        BY <2>2
      <3> QED
        BY <3>1, PathPrefix, Zenon DEF SchemeHost
    <2>4. SchemeHost(base) = <<base[1], Blank, base[3]>>
      <3> DEFINE h == <<base[1], Blank, base[3]>>
      <3>1. h \in Path /\ Len(h) = 3 /\ h[1] = base[1] /\ h[2] = Blank /\ h[3] = base[3]
        BY <2>2, SegmentsAssumption, PathTuples, Zenon
      <3> HIDE DEF h
      <3>2. \A i \in 1..3 : SchemeHost(base)[i] = h[i]
        <4>1. \A i \in 1..3 : i = 1 \/ i = 2 \/ i = 3
          OBVIOUS
        <4> QED
          BY <2>2, <2>3, <3>1, <4>1
      <3>3. SchemeHost(base) = h
        BY <2>3, <3>1, <3>2, PathEqual
      <3> QED
        BY <3>3 DEF h
    <2>5. resolve_url(raw, base) = Meaning(raw, base)
      <3>1. raw # <<Blank>>
        BY <1>4, NotEmptyLink
      <3> QED
        BY <1>4, <2>1, <2>4, <3>1 DEF Meaning
    <2>6. /\ resolve_url(raw, base) \in Path
          /\ Len(resolve_url(raw, base)) >= 3
          /\ \A i \in 1..3 : resolve_url(raw, base)[i] = base[i]
      <3>1. /\ resolve_url(raw, base) \in Path
            /\ Len(resolve_url(raw, base)) = 3 + Len(Tail(raw))
            /\ \A i \in 1..3 : resolve_url(raw, base)[i] = SchemeHost(base)[i]
        <4>1. Tail(raw) \in Path /\ SchemeHost(base) \in Path
          BY <1>1, <2>3
        <4>2. /\ SchemeHost(base) \o Tail(raw) \in Path
              /\ Len(SchemeHost(base) \o Tail(raw)) = Len(SchemeHost(base)) + Len(Tail(raw))
              /\ \A i \in 1..Len(SchemeHost(base)) :
                    (SchemeHost(base) \o Tail(raw))[i] = SchemeHost(base)[i]
          BY <4>1, PathConcat, Zenon
        <4> QED
          BY <2>1, <2>3, <4>2, Zenon
      <3> QED
        BY <1>1, <2>3, <3>1
    <2>7. IsAbsolute(resolve_url(raw, base))
      <3>1. 1 \in 1..3 /\ 2 \in 1..3
        OBVIOUS
      <3> QED
        BY <2>2, <2>6, <3>1 DEF IsAbsolute
    <2> QED
      BY <1>4, <2>5, <2>6, <2>7, Zenon
  <1>5. CASE ~IsRooted(raw) /\ ~InheritsScheme(raw) /\ ~IsAbsolute(raw)
    <2> DEFINE u == Parts(Front(base), raw)
    <2>1. resolve_url(raw, base) = u
      BY <1>5 DEF resolve_url
    <2>2. Len(base) \in Nat /\ Len(base) > 0
      <3>1. Len(base) >= 3
        BY Zenon DEF IsAbsolute
      <3> QED
        BY <3>1, PathLen
    <2>3. Front(base) \in Path
      BY <2>2, PathFront
    <2>4. u \in Path /\ NoneEmpty(u)
      BY <2>3, PartsType, Zenon
    <2>5. ~IsAbsolute(u)
      <3> HIDE DEF u
      <3> SUFFICES ASSUME Len(u) >= 3 PROVE u[2] # Blank
        BY DEF IsAbsolute
      <3>1. 2 \in 1..Len(u)
        BY <2>4, PathLen
      <3> QED
        BY <2>4, <3>1 DEF NoneEmpty
    <2> QED
      BY <1>5, <2>1, <2>4, <2>5, Zenon
  <1> QED
    BY <1>2, <1>3, <1>4, <1>5

\* The elements of a page, and what collect_links has gathered.
Absolute == {b \in Path : IsAbsolute(b)}
Gathered == [base : Absolute, urls : Seq(Path)]

LEMMA ElementType ==
    ASSUME NEW e \in Elements
    PROVE  /\ e.tag \in {"a", "base"} /\ e.href \in Path /\ Len(e.href) > 0
           /\ e.tag = "base" => e.href \in Absolute
  <1>1. /\ e.tag \in {"a", "base"} /\ e.href \in Path /\ e.href # <<>>
        /\ e.tag = "base" => IsAbsolute(e.href)
    BY Zenon DEF Elements, Path
  <1> QED
    BY <1>1, PathLen DEF Absolute

LEMMA CollectedType ==
    ASSUME NEW s \in Gathered, NEW e \in Elements
    PROVE  /\ Collected(s, e) \in Gathered
           /\ e.tag = "base" => Collected(s, e) = [base |-> e.href, urls |-> s.urls]
           /\ e.tag # "base" => Collected(s, e) =
                                   [base |-> s.base, urls |-> Append(s.urls, resolve_url(e.href, s.base))]
  <1>1. /\ s.base \in Path /\ IsAbsolute(s.base) /\ s.urls \in Seq(Path)
        /\ s = [base |-> s.base, urls |-> s.urls]
    BY DEF Gathered, Absolute
  <1>2. e.href \in Path /\ Len(e.href) > 0 /\ (e.tag = "base" => e.href \in Absolute)
    BY ElementType
  <1>3. resolve_url(e.href, s.base) \in Path
    BY <1>1, <1>2, ResolvedRight, Zenon
  <1>4. Append(s.urls, resolve_url(e.href, s.base)) \in Seq(Path)
    BY <1>1, <1>3
  <1>5. e.tag = "base" => Collected(s, e) = [base |-> e.href, urls |-> s.urls]
    BY <1>1 DEF Collected
  <1>6. e.tag # "base" =>
          Collected(s, e) = [base |-> s.base, urls |-> Append(s.urls, resolve_url(e.href, s.base))]
    BY <1>1 DEF Collected
  <1> QED
    BY <1>1, <1>2, <1>4, <1>5, <1>6 DEF Gathered, Absolute

\* collect_links takes one element after the other.
LEMMA CollectDef ==
    ASSUME NEW elements \in Seq(Elements), NEW page \in Absolute
    PROVE  \E f : /\ f \in [0..Len(elements) -> Gathered] /\ f[0] = [base |-> page, urls |-> <<>>]
                  /\ \A i \in 1..Len(elements) : f[i] = Collected(f[i - 1], elements[i])
                  /\ collect_links(elements, page) = f[Len(elements)].urls
  <1> DEFINE N == Len(elements)
             V == Gathered
             A == [base |-> page, urls |-> <<>>]
             G == [i \in 1..N |-> [x \in V |-> Collected(x, elements[i])]]
             Body(f) == [n \in 0..N |-> IF n = 0 THEN A ELSE Collected(f[n - 1], elements[n])]
             after == CHOOSE f : f = Body(f)
  <1>1. N \in Nat
    OBVIOUS
  <1>2. A \in V
    BY DEF Gathered
  <1>3. ASSUME NEW i \in 1..N, NEW x \in V PROVE Collected(x, elements[i]) \in V
    <2>1. elements[i] \in Elements
      BY ElementOfSeq
    <2> QED
      BY <2>1, CollectedType
  <1>4. collect_links(elements, page) = after[Len(elements)].urls
    BY DEF collect_links
  <1> HIDE DEF N, V, A
  <1>5. \A i \in 1..N, x \in V : G[i][x] = Collected(x, elements[i])
    OBVIOUS
  <1>6. G \in [1..N -> [V -> V]]
    BY <1>3, <1>5
  <1> HIDE DEF G
  <1>7. PICK f \in [0..N -> V] : Recursion(f, A, G, N)
    BY <1>1, <1>2, <1>6, RecursionExists, Zenon
  <1>8. \A i \in 1..N : i \in 0..N /\ i - 1 \in 0..N /\ i # 0
    BY <1>1
  <1>9. \A i \in 1..N : f[i] = Collected(f[i - 1], elements[i])
    BY <1>5, <1>7, <1>8 DEF Recursion
  <1>10. f = Body(f)
    <2>1. ASSUME NEW i \in 0..N PROVE f[i] = Body(f)[i]
      <3>1. CASE i = 0
        BY <1>7, <3>1 DEF Recursion
      <3>2. CASE i # 0
        <4>1. i \in 1..N
          BY <1>1, <3>2
        <4> QED
          BY <1>9, <3>2, <4>1
      <3> QED
        BY <3>1, <3>2
    <2> QED
      BY <1>7, <2>1
  <1>11. after = Body(after)
    BY <1>10
  <1> HIDE DEF after
  <1>12. after[0] = A /\ \A i \in 1..N : after[i] = Collected(after[i - 1], elements[i])
    <2>1. \A i \in 0..N : after[i] = Body(after)[i]
      BY <1>11
    <2>2. 0 \in 0..N
      BY <1>1
    <2> QED
      BY <1>8, <2>1, <2>2
  <1>13. \A i \in 0..N : after[i] \in V
    <2>1. \A i \in 1..N : after[i - 1] \in V => after[i] = G[i][after[i - 1]]
      BY <1>5, <1>12
    <2> QED
      BY <1>1, <1>2, <1>6, <1>12, <2>1, RecursionTypes
  <1>14. after \in [0..N -> V]
    BY <1>11, <1>13
  <1> QED
    BY <1>4, <1>12, <1>14 DEF N, V, A

\* The base in force changes at a <base> and nowhere else.
LEMMA BaseAtStep ==
    ASSUME NEW elements, NEW page, NEW n \in Nat
    PROVE  /\ BaseAt(elements, page, 1) = page
           /\ BaseAt(elements, page, n + 2) =
                 IF elements[n + 1].tag = "base" THEN elements[n + 1].href
                 ELSE BaseAt(elements, page, n + 1)
  <1> DEFINE bases(i) == {j \in 1..(i - 1) : elements[j].tag = "base"}
             m == n + 1
  <1>1. bases(1) = {}
    OBVIOUS
  <1>2. BaseAt(elements, page, 1) = page
    BY <1>1 DEF BaseAt
  <1>3. (n + 2) - 1 = m /\ m - 1 = n
    OBVIOUS
  <1>4. CASE elements[m].tag = "base"
    <2>1. m \in bases(n + 2) /\ \A k \in bases(n + 2) : k <= m
      BY <1>4
    <2>2. \A j \in bases(n + 2) : (\A k \in bases(n + 2) : k <= j) => j = m
      BY <2>1
    <2>3. bases(n + 2) # {}
      BY <2>1
    <2> DEFINE B == bases(n + 2)
    <2> HIDE DEF B
    <2>4. (CHOOSE j \in B : \A k \in B : k <= j) = m
      BY <2>1, <2>2 DEF B
    <2>5. BaseAt(elements, page, n + 2) =
             IF B = {} THEN page ELSE elements[CHOOSE j \in B : \A k \in B : k <= j].href
      BY DEF BaseAt, B
    <2> QED
      BY <1>2, <1>4, <2>3, <2>4, <2>5 DEF B
  <1>5. CASE elements[m].tag # "base"
    <2>1. bases(n + 2) = bases(m)
      BY <1>5
    <2> DEFINE B == bases(n + 2)
    <2>2. BaseAt(elements, page, n + 2) =
             IF B = {} THEN page ELSE elements[CHOOSE j \in B : \A k \in B : k <= j].href
      BY DEF BaseAt
    <2>3. BaseAt(elements, page, m) =
             IF bases(m) = {} THEN page
             ELSE elements[CHOOSE j \in bases(m) : \A k \in bases(m) : k <= j].href
      BY DEF BaseAt
    <2> HIDE DEF bases
    <2> QED
      BY <1>2, <1>5, <2>1, <2>2, <2>3
  <1> QED
    BY <1>4, <1>5

\* What has been gathered: each anchor resolved against the base in force.
Resolved(elements, page, n) ==
    {resolve_url(elements[i].href, BaseAt(elements, page, i)) :
        i \in {k \in 1..n : elements[k].tag = "a"}}

LEMMA CollectInv ==
    ASSUME NEW elements \in Seq(Elements), NEW page \in Absolute
    PROVE  /\ \A i \in 1..Len(elements) : BaseAt(elements, page, i) \in Absolute
           /\ collect_links(elements, page) \in Seq(Path)
           /\ ToSet(collect_links(elements, page)) = Resolved(elements, page, Len(elements))
  <1> DEFINE N == Len(elements)
  <1>1. PICK f : /\ f \in [0..N -> Gathered] /\ f[0] = [base |-> page, urls |-> <<>>]
                 /\ \A i \in 1..N : f[i] = Collected(f[i - 1], elements[i])
                 /\ collect_links(elements, page) = f[N].urls
    BY CollectDef
  <1>2. N \in Nat /\ \A i \in 1..N : elements[i] \in Elements
    BY ElementOfSeq
  <1> HIDE DEF N
  <1> DEFINE S == {n \in 0..N : /\ f[n].base = BaseAt(elements, page, n + 1)
                                /\ ToSet(f[n].urls) = Resolved(elements, page, n)}
  <1>3. 0 \in S
    <2>1. f[0].base = BaseAt(elements, page, 0 + 1)
      <3>1. BaseAt(elements, page, 1) = page
        <4>1. 0 \in Nat
          OBVIOUS
        <4> QED
          BY <4>1, BaseAtStep, Zenon
      <3> QED
        BY <1>1, <3>1
    <2>2. ToSet(f[0].urls) = {}
      BY <1>1 DEF ToSet
    <2>3. Resolved(elements, page, 0) = {}
      <3>1. {k \in 1..0 : elements[k].tag = "a"} = {}
        OBVIOUS
      <3> QED
        BY <3>1 DEF Resolved
    <2>4. 0 \in 0..N
      BY <1>2
    <2> QED
      BY <2>1, <2>2, <2>3, <2>4
  <1>4. ASSUME NEW n \in 0..(N - 1), n \in S PROVE n + 1 \in S
    <2>1. /\ n + 1 \in 1..N /\ (n + 1) - 1 = n /\ n \in 0..N /\ n + 1 \in 0..N
          /\ n \in Nat /\ (n + 1) + 1 = n + 2
      BY <1>2
    <2>2. f[n] \in Gathered /\ elements[n + 1] \in Elements /\ f[n + 1] = Collected(f[n], elements[n + 1])
      BY <1>1, <1>2, <2>1
    <2>3. f[n].base = BaseAt(elements, page, n + 1) /\ ToSet(f[n].urls) = Resolved(elements, page, n)
      BY <1>4
    <2> DEFINE e == elements[n + 1]
               more == Append(f[n].urls, resolve_url(e.href, f[n].base))
    <2>4. /\ e.tag \in {"a", "base"}
          /\ e.tag = "base" => f[n + 1].base = e.href /\ f[n + 1].urls = f[n].urls
          /\ e.tag # "base" => f[n + 1].base = f[n].base /\ f[n + 1].urls = more
      <3>1. /\ e.tag = "base" => f[n + 1] = [base |-> e.href, urls |-> f[n].urls]
            /\ e.tag # "base" => f[n + 1] = [base |-> f[n].base, urls |-> more]
        BY <2>2, CollectedType, Zenon
      <3>2. e.tag \in {"a", "base"}
        BY <2>2, ElementType, Zenon
      <3> HIDE DEF e, more
      <3> QED
        BY <3>1, <3>2
    <2>5. f[n + 1].base = BaseAt(elements, page, (n + 1) + 1)
      BY <2>1, <2>3, <2>4, BaseAtStep
    <2>6. ToSet(f[n + 1].urls) = Resolved(elements, page, n + 1)
      <3> DEFINE As(k) == {j \in 1..k : elements[j].tag = "a"}
      <3>1. CASE e.tag = "base"
        <4>1. As(n + 1) = As(n)
          BY <2>1, <3>1
        <4>2. Resolved(elements, page, n + 1) = Resolved(elements, page, n)
          BY <4>1, Zenon DEF Resolved
        <4> QED
          BY <2>3, <2>4, <3>1, <4>2
      <3>2. CASE e.tag = "a"
        <4>1. As(n + 1) = As(n) \cup {n + 1}
          BY <2>1, <3>2
        <4>2. Resolved(elements, page, n + 1) =
                Resolved(elements, page, n) \cup {resolve_url(e.href, f[n].base)}
          <5>1. \A u : u \in Resolved(elements, page, n + 1) <=>
                    \E i \in As(n + 1) : u = resolve_url(elements[i].href, BaseAt(elements, page, i))
            BY Zenon DEF Resolved
          <5>2. \A u : u \in Resolved(elements, page, n) <=>
                    \E i \in As(n) : u = resolve_url(elements[i].href, BaseAt(elements, page, i))
            BY Zenon DEF Resolved
          <5> HIDE DEF As
          <5> QED
            BY <2>3, <4>1, <5>1, <5>2
        <4>3. ToSet(more) = ToSet(f[n].urls) \cup {resolve_url(e.href, f[n].base)}
          <5>1. f[n].urls \in Seq(Path) /\ resolve_url(e.href, f[n].base) \in Path
            BY <2>2, <2>4, ElementType, ResolvedRight DEF Gathered, Absolute
          <5> DEFINE us == f[n].urls
                     r == resolve_url(e.href, f[n].base)
          <5> HIDE DEF us, r
          <5>2. /\ Append(us, r) \in Seq(Path) /\ Len(Append(us, r)) = Len(us) + 1 /\ Len(us) \in Nat
                /\ \A i \in 1..Len(us) : Append(us, r)[i] = us[i]
                /\ Append(us, r)[Len(us) + 1] = r
            BY <5>1, AppendSeq DEF us, r
          <5>3. DOMAIN Append(us, r) = 1..(Len(us) + 1) /\ DOMAIN us = 1..Len(us)
            BY <5>1, <5>2 DEF us
          <5>4. ToSet(Append(us, r)) = ToSet(us) \cup {r}
            BY <5>2, <5>3 DEF ToSet
          <5> QED
            BY <5>4 DEF us, r
        <4>4. f[n + 1].urls = more
          BY <2>4, <3>2
        <4> QED
          BY <2>3, <4>2, <4>3, <4>4
      <3> QED
        BY <2>4, <3>1, <3>2
    <2> QED
      BY <2>1, <2>5, <2>6
  <1>5. \A n \in 0..N : n \in S
    <2> HIDE DEF S
    <2> QED
      BY <1>2, <1>3, <1>4, UpTo
  <1>6. \A i \in 1..N : BaseAt(elements, page, i) \in Absolute
    <2> TAKE i \in 1..N
    <2>1. i - 1 \in 0..N /\ (i - 1) + 1 = i
      BY <1>2
    <2>2. f[i - 1] \in Gathered /\ f[i - 1].base = BaseAt(elements, page, i)
      BY <1>1, <1>5, <2>1
    <2> QED
      BY <2>2 DEF Gathered
  <1>7. f[N].urls \in Seq(Path) /\ ToSet(f[N].urls) = Resolved(elements, page, N)
    <2>1. N \in 0..N
      BY <1>2
    <2> QED
      BY <1>1, <1>5, <2>1 DEF Gathered
  <1> QED
    BY <1>1, <1>6, <1>7 DEF N

\* What the followable links lead to is what the crawl follows.
LEMMA LinksAre ==
    ASSUME NEW elements \in Seq(Elements), NEW page \in Absolute
    PROVE  filtrate(collect_links(elements, page)) = Followable(elements, page)
  <1> DEFINE As == {k \in 1..Len(elements) : elements[k].tag = "a"}
             Leads(k) == IsAbsolute(elements[k].href)
                            \/ (IsRooted(elements[k].href) /\ ~InheritsScheme(elements[k].href))
             R(k) == resolve_url(elements[k].href, BaseAt(elements, page, k))
             M(k) == Meaning(elements[k].href, BaseAt(elements, page, k))
  <1>1. \A k \in 1..Len(elements) : (IsAbsolute(R(k)) <=> Leads(k)) /\ (Leads(k) => R(k) = M(k))
    <2> TAKE k \in 1..Len(elements)
    <2>1. elements[k].href \in Path /\ Len(elements[k].href) > 0
      BY ElementOfSeq, ElementType
    <2>2. BaseAt(elements, page, k) \in Path /\ IsAbsolute(BaseAt(elements, page, k))
      BY CollectInv DEF Absolute
    <2> QED
      BY <2>1, <2>2, ResolvedRight, Zenon
  <1>2. \A u : u \in filtrate(collect_links(elements, page)) <=>
                 \E k \in As : u = R(k) /\ IsAbsolute(R(k)) /\ ~Useless(R(k))
    <2>1. \A u : u \in ToSet(collect_links(elements, page)) <=> \E k \in As : u = R(k)
      <3>1. ToSet(collect_links(elements, page)) = Resolved(elements, page, Len(elements))
        BY CollectInv
      <3>2. Resolved(elements, page, Len(elements)) = {R(k) : k \in As}
        BY Zenon DEF Resolved
      <3> HIDE DEF As, R
      <3>3. ToSet(collect_links(elements, page)) = {R(k) : k \in As}
        BY <3>1, <3>2, Zenon
      <3> QED
        BY <3>3, Zenon
    <2>2. \A u : u \in filtrate(collect_links(elements, page)) <=>
                   /\ u \in ToSet(collect_links(elements, page))
                   /\ IsAbsolute(u) /\ ~Useless(u)
      BY Zenon DEF filtrate
    <2> HIDE DEF As
    <2> QED
      BY <2>1, <2>2, Zenon
  <1>3. \A u : u \in Followable(elements, page) <=>
                 \E k \in As : Leads(k) /\ u = M(k) /\ ~Useless(M(k))
    <2>1. DOMAIN elements = 1..Len(elements)
      BY LenProperties
    <2>2. \A k : k \in Anchors(elements) <=> k \in As
      BY <2>1, Zenon DEF Anchors
    <2>3. \A u : u \in Followable(elements, page) <=>
                   /\ \E k \in Anchors(elements) : Leads(k) /\ u = M(k)
                   /\ ~Useless(u)
      BY Zenon DEF Followable, LedTo
    <2> HIDE DEF As, Leads, M
    <2> QED
      BY <2>2, <2>3, Zenon
  <1>4. \A k \in As : k \in 1..Len(elements)
    OBVIOUS
  <1> HIDE DEF As, Leads, R, M
  <1>5. \A u : u \in filtrate(collect_links(elements, page)) <=> u \in Followable(elements, page)
    <2> TAKE u
    <2>1. ASSUME NEW k \in As PROVE (u = R(k) /\ IsAbsolute(R(k)) /\ ~Useless(R(k)))
                                        <=> (Leads(k) /\ u = M(k) /\ ~Useless(M(k)))
      <3>1. (IsAbsolute(R(k)) <=> Leads(k)) /\ (Leads(k) => R(k) = M(k))
        BY <1>1, <1>4
      <3>2. CASE Leads(k)
        <4>1. R(k) = M(k) /\ IsAbsolute(R(k))
          BY <3>1, <3>2
        <4> QED
          BY <3>2, <4>1
      <3>3. CASE ~Leads(k)
        BY <3>1, <3>3
      <3> QED
        BY <3>2, <3>3
    <2> QED
      BY <1>2, <1>3, <2>1, Zenon
  <1> QED
    BY <1>5

LEMMA FollowableMeant ==
    ASSUME NEW elements, NEW page
    PROVE  LinksOfPage(Followable(elements, page), elements, page)
  BY Zenon DEF LinksOfPage, Followable, Meant, LedTo

\* What is followed is meant, and nothing followable is left out.
LEMMA LinksAreRight ==
    ASSUME NEW elements \in Seq(Elements), NEW page \in Absolute
    PROVE  LinksRight(elements, page)
  BY LinksAre, FollowableMeant DEF LinksRight

\* Where a followable link leads depends on scheme and host of its base only.
LEMMA SiteLinks ==
    ASSUME NEW elements, NEW page, NEW other, SameSite(other, page)
    PROVE  Followable(elements, other) = Followable(elements, page)
  <1> DEFINE As == {i \in Anchors(elements) : \/ IsAbsolute(elements[i].href)
                                              \/ IsRooted(elements[i].href)
                                                    /\ ~InheritsScheme(elements[i].href)}
  <1>1. ASSUME NEW i
        PROVE  \/ BaseAt(elements, other, i) = BaseAt(elements, page, i)
               \/ BaseAt(elements, other, i) = other /\ BaseAt(elements, page, i) = page
    <2> DEFINE bases == {j \in 1..(i - 1) : elements[j].tag = "base"}
               href == elements[CHOOSE j \in bases : \A k \in bases : k <= j].href
    <2>1. \A p : BaseAt(elements, p, i) = IF bases = {} THEN p ELSE href
      BY Zenon DEF BaseAt
    <2> HIDE DEF bases, href
    <2> QED
      BY <2>1
  <1>2. ASSUME NEW i \in As
        PROVE  Meaning(elements[i].href, BaseAt(elements, other, i)) =
                  Meaning(elements[i].href, BaseAt(elements, page, i))
    <2> DEFINE raw == elements[i].href
    <2>1. IsAbsolute(raw) \/ (IsRooted(raw) /\ ~InheritsScheme(raw))
      OBVIOUS
    <2> HIDE DEF raw
    <2>2. ASSUME NEW b PROVE Meaning(raw, b) =
                                IF IsAbsolute(raw) THEN raw ELSE <<b[1], Blank, b[3]>> \o Tail(raw)
      <3>1. ~(IsAbsolute(raw) /\ (InheritsScheme(raw) \/ IsRooted(raw))) /\ raw # <<Blank>>
        BY <2>1, BlankIsOther, NotEmptyLink DEF IsAbsolute, InheritsScheme, IsRooted
      <3> QED
        BY <2>1, <3>1 DEF Meaning
    <2>3. Meaning(raw, other) = Meaning(raw, page)
      BY <2>2, Zenon DEF SameSite
    <2> QED
      BY <1>1, <2>3 DEF raw
  <1>3. /\ Followable(elements, other) = LedTo(elements, other, As)
        /\ Followable(elements, page) = LedTo(elements, page, As)
    BY Zenon DEF Followable
  <1> HIDE DEF As
  <1> QED
    BY <1>2, <1>3 DEF LedTo

\* A path does not get shorter than the directories it has named and not left.
LEMMA MarksGrow ==
    ASSUME NEW P \in SUBSET Nat, NEW n \in Nat
    PROVE  /\ IsFiniteSet(P \cap (1..n)) /\ Cardinality(P \cap (1..n)) \in Nat
           /\ Cardinality(P \cap (1..(n + 1))) =
                 Cardinality(P \cap (1..n)) + (IF n + 1 \in P THEN 1 ELSE 0)
  <1>1. IsFiniteSet(1..n)
    <2>1. 1 \in Int /\ n \in Int
      OBVIOUS
    <2> QED
      BY <2>1, FS_Interval
  <1>2. IsFiniteSet(P \cap (1..n)) /\ Cardinality(P \cap (1..n)) \in Nat
    BY <1>1, FS_Subset, FS_CardinalityType
  <1>3. CASE n + 1 \in P
    <2>1. P \cap (1..(n + 1)) = (P \cap (1..n)) \cup {n + 1} /\ n + 1 \notin P \cap (1..n)
      BY <1>3
    <2> QED
      BY <1>2, <1>3, <2>1, FS_AddElement
  <1>4. CASE n + 1 \notin P
    <2>1. P \cap (1..(n + 1)) = P \cap (1..n)
      BY <1>4
    <2> QED
      BY <1>2, <1>4, <2>1
  <1> QED
    BY <1>2, <1>3, <1>4

\* A path does not get shorter than the directories it has named and not left.
LEMMA PartsLength ==
    ASSUME NEW all \in Path, Len(all) > 0, NEW f, PartsBy(all, f)
    PROVE  \A n \in 0..(Len(all) - 1) :
              /\ f[n] \in Path
              /\ Len(f[n]) >= Cardinality(Names(all) \cap (1..n)) - Cardinality(Climbs(all) \cap (1..n))
  <1> DEFINE N == Len(all) - 1
             D == Names(all)
             C == Climbs(all)
  <1>1. /\ N \in Nat /\ DOMAIN all = 1..Len(all)
        /\ \A i \in 1..N : i \in 1..Len(all) /\ all[i] \in Segments
    BY PathLen
  <1>2. D \in SUBSET Nat /\ C \in SUBSET Nat
    <2>1. D \subseteq 1..Len(all) /\ C \subseteq 1..Len(all)
      BY <1>1 DEF Names, Climbs
    <2> QED
      BY <2>1
  <1>3. \A i \in 1..N : /\ i \in D <=> all[i] \notin {Blank, ".", ".."}
                        /\ i \in C <=> all[i] = ".."
    BY <1>1, Zenon DEF Names, Climbs
  <1>4. /\ f \in [0..N -> Path] /\ f[0] = <<>>
        /\ \A i \in 1..N : f[i] = PartTaken(f[i - 1], all[i])
    BY DEF PartsBy
  <1> HIDE DEF N, D, C
  <1> DEFINE S == {n \in 0..N :
                      Len(f[n]) >= Cardinality(D \cap (1..n)) - Cardinality(C \cap (1..n))}
  <1>5. 0 \in S
    <2>1. Len(f[0]) = 0
      BY <1>4, PathEmpty
    <2>2. D \cap (1..0) = {} /\ C \cap (1..0) = {} /\ 0 \in 0..N
      BY <1>1
    <2>3. Cardinality({}) = 0
      BY FS_EmptySet
    <2> QED
      BY <2>1, <2>2, <2>3
  <1>6. ASSUME NEW n \in 0..(N - 1), n \in S PROVE n + 1 \in S
    <2>1. n + 1 \in 1..N /\ (n + 1) - 1 = n /\ n \in 0..N /\ n + 1 \in 0..N /\ n \in Nat
      BY <1>1
    <2>2. f[n] \in Path /\ all[n + 1] \in Segments /\ f[n + 1] = PartTaken(f[n], all[n + 1])
      BY <1>1, <1>4, <2>1
    <2>3. Len(f[n]) \in Nat
      BY <2>2, PathLen
    <2>4. /\ Cardinality(D \cap (1..n)) \in Nat /\ Cardinality(C \cap (1..n)) \in Nat
          /\ Cardinality(D \cap (1..(n + 1))) =
                Cardinality(D \cap (1..n)) + (IF n + 1 \in D THEN 1 ELSE 0)
          /\ Cardinality(C \cap (1..(n + 1))) =
                Cardinality(C \cap (1..n)) + (IF n + 1 \in C THEN 1 ELSE 0)
      BY <1>2, <2>1, MarksGrow
    <2>5. Len(f[n]) >= Cardinality(D \cap (1..n)) - Cardinality(C \cap (1..n))
      BY <1>6
    <2>8. Len(f[n + 1]) = IF all[n + 1] = ".." /\ Len(f[n]) > 0 THEN Len(f[n]) - 1
                          ELSE IF all[n + 1] \notin {".", Blank} THEN Len(f[n]) + 1 ELSE Len(f[n])
      <3> DEFINE p == f[n]
                 s == all[n + 1]
      <3>1. p \in Path /\ s \in Segments /\ f[n + 1] = PartTaken(p, s)
        BY <2>2
      <3> HIDE DEF p, s
      <3>2. Len(f[n + 1]) = IF s = ".." /\ Len(p) > 0 THEN Len(p) - 1
                            ELSE IF s \notin {".", Blank} THEN Len(p) + 1 ELSE Len(p)
        BY <3>1, PartTakenType
      <3> QED
        BY <3>2 DEF p, s
    <2>6. CASE all[n + 1] = ".."
      <3>1. n + 1 \in C /\ n + 1 \notin D
        BY <1>3, <2>1, <2>6
      <3>2. Len(f[n + 1]) = IF Len(f[n]) > 0 THEN Len(f[n]) - 1 ELSE Len(f[n]) + 1
        BY <2>6, <2>8, BlankIsOther
      <3> QED
        BY <2>1, <2>3, <2>4, <2>5, <3>1, <3>2
    <2>7. CASE all[n + 1] # ".."
      <3>1. n + 1 \notin C /\ (n + 1 \in D <=> all[n + 1] \notin {".", Blank})
        BY <1>3, <2>1, <2>7
      <3>2. Len(f[n + 1]) = IF all[n + 1] \notin {".", Blank} THEN Len(f[n]) + 1 ELSE Len(f[n])
        BY <2>7, <2>8
      <3> QED
        BY <2>1, <2>3, <2>4, <2>5, <3>1, <3>2
    <2> QED
      BY <2>6, <2>7
  <1>7. \A n \in 0..N : n \in S
    <2> HIDE DEF S
    <2> QED
      BY <1>1, <1>5, <1>6, UpTo
  <1> QED
    BY <1>4, <1>7 DEF N, D, C

\* A reference that climbs less often than its base has directories is resolved.
LEMMA ClimbIsRight ==
    ASSUME NEW raw \in Path, Len(raw) > 0, NEW base \in Path, Len(base) > 0
    PROVE  ClimbRight(raw, base)
  <1> DEFINE dir == Front(base)
             all == dir \o raw
             N == Len(all) - 1
  <1> SUFFICES ASSUME Cardinality(Climbs(all)) < Cardinality(Names(dir)) PROVE Resolvable(raw, base)
    BY DEF ClimbRight
  <1>1. dir \in Path
    BY PathFront
  <1>2. all \in Path /\ Len(all) \in Nat \ {0} /\ Last(all) = all[Len(all)]
    BY <1>1, PartsDef
  <1>3. PICK f : /\ PartsBy(all, f)
                 /\ Parts(dir, raw) = IF Last(all) # Blank THEN Append(f[N], Last(all)) ELSE f[N]
    BY <1>1, PartsDef
  <1>4. /\ N \in Nat /\ Len(dir) \in Nat /\ Len(dir) <= N
        /\ DOMAIN all = 1..Len(all) /\ DOMAIN dir = 1..Len(dir)
        /\ \A i \in 1..Len(dir) : all[i] = dir[i]
    <2>1. Len(dir) \in Nat /\ DOMAIN dir = 1..Len(dir) /\ Len(raw) \in Nat
      BY <1>1, PathLen
    <2>2. DOMAIN all = 1..Len(all)
      BY <1>2, PathLen
    <2>3. Len(all) = Len(dir) + Len(raw) /\ \A i \in 1..Len(dir) : all[i] = dir[i]
      BY <1>1, PathConcat
    <2> HIDE DEF all, dir
    <2> QED
      BY <1>2, <2>1, <2>2, <2>3
  <1>5. Names(dir) \subseteq Names(all) \cap (1..N) /\ Climbs(all) \cap (1..N) \subseteq Climbs(all)
    <2>1. ASSUME NEW i \in Names(dir) PROVE i \in Names(all) \cap (1..N)
      <3>1. i \in 1..Len(dir) /\ dir[i] \notin {Blank, ".", ".."}
        BY <1>4, Zenon DEF Names
      <3>2. i \in 1..N /\ i \in 1..Len(all)
        BY <1>4, <3>1
      <3>3. all[i] \notin {Blank, ".", ".."}
        BY <1>4, <3>1, Zenon
      <3> QED
        BY <1>4, <3>2, <3>3, Zenon DEF Names
    <2> QED
      BY <2>1
  <1>6. IsFiniteSet(Climbs(all)) /\ IsFiniteSet(Names(all) \cap (1..N))
    <2>1. IsFiniteSet(1..Len(all)) /\ IsFiniteSet(1..N)
      <3>1. 1 \in Int /\ N \in Int /\ Len(all) \in Int
        BY <1>2, <1>4
      <3> HIDE DEF all, N
      <3> QED
        BY <3>1, FS_Interval
    <2>2. Climbs(all) \subseteq 1..Len(all)
      BY <1>4, Zenon DEF Climbs
    <2> QED
      BY <2>1, <2>2, FS_Subset
  <1>7. Cardinality(Names(dir)) <= Cardinality(Names(all) \cap (1..N))
        /\ Cardinality(Climbs(all) \cap (1..N)) <= Cardinality(Climbs(all))
        /\ Cardinality(Names(dir)) \in Nat /\ Cardinality(Climbs(all)) \in Nat
        /\ Cardinality(Names(all) \cap (1..N)) \in Nat /\ Cardinality(Climbs(all) \cap (1..N)) \in Nat
    <2> HIDE DEF all, dir, N
    <2> QED
      BY <1>5, <1>6, FS_Subset, FS_CardinalityType
  <1>8. f[N] \in Path /\ Len(f[N]) > 0
    <2>1. N \in 0..N /\ Len(all) > 0
      BY <1>2, <1>4
    <2>2. /\ f[N] \in Path
          /\ Len(f[N]) >= Cardinality(Names(all) \cap (1..N)) - Cardinality(Climbs(all) \cap (1..N))
      <3> HIDE DEF all
      <3> QED
        BY <1>2, <1>3, <2>1, PartsLength
    <2>3. Len(f[N]) \in Nat
      BY <2>2, PathLen
    <2> HIDE DEF all, dir, N
    <2> QED
      BY <1>7, <2>2, <2>3
  <1>9. Last(all) \in Segments
    <2>1. Len(all) \in 1..Len(all)
      BY <1>2
    <2> HIDE DEF all
    <2> QED
      BY <1>2, <2>1, PathLen
  <1>10. Parts(dir, raw) \in Path /\ Len(Parts(dir, raw)) > 0
    <2> HIDE DEF all, dir, N
    <2>1. Append(f[N], Last(all)) \in Path /\ Len(Append(f[N], Last(all))) > 0
      BY <1>8, <1>9, PathAppend, PathLen
    <2> QED
      BY <1>3, <1>8, <2>1
  <1>11. Parts(dir, raw) # <<>>
    BY <1>10, PathLen
  <1> QED
    BY <1>11 DEF Resolvable

(***************************************************************************)
(* The fetcher: what is read from robots.txt.                              *)
(***************************************************************************)

LEMMA LineKinds ==
    ASSUME NEW line \in Lines
    PROVE  /\ line.k \in {"agent", "disallow", "other"}
           /\ line.k = "disallow" => line.rule \in Rules
  BY DEF Lines

RulesRead == [on : BOOLEAN, rules : Seq(Rules)]

LEMMA LineReadType ==
    ASSUME NEW s \in RulesRead, NEW line \in Lines
    PROVE  /\ LineRead(s, line) \in RulesRead
           /\ LineRead(s, line).on <=> Collecting(s.on, line)
           /\ LineRead(s, line).rules =
                 IF Collecting(s.on, line) /\ line.k = "disallow" THEN Append(s.rules, line.rule)
                 ELSE s.rules
  <1>1. s.on \in BOOLEAN /\ s.rules \in Seq(Rules)
    BY DEF RulesRead
  <1>2. Collecting(s.on, line) \in BOOLEAN
    BY <1>1 DEF Collecting
  <1>3. line.k = "disallow" => Append(s.rules, line.rule) \in Seq(Rules)
    BY <1>1, LineKinds
  <1>4. LineRead(s, line) =
          [on |-> Collecting(s.on, line),
           rules |-> IF Collecting(s.on, line) /\ line.k = "disallow"
                     THEN Append(s.rules, line.rule) ELSE s.rules]
    BY DEF LineRead
  <1> HIDE DEF Collecting
  <1> QED
    BY <1>1, <1>2, <1>3, <1>4 DEF RulesRead

\* RulesIn reads one line after the other.
LEMMA RulesDef ==
    ASSUME NEW lines \in Seq(Lines)
    PROVE  \E f : /\ f \in [0..Len(lines) -> RulesRead] /\ f[0] = [on |-> FALSE, rules |-> <<>>]
                  /\ \A i \in 1..Len(lines) : f[i] = LineRead(f[i - 1], lines[i])
                  /\ RulesIn(lines) = f[Len(lines)].rules
  <1> DEFINE N == Len(lines)
             V == RulesRead
             A == [on |-> FALSE, rules |-> <<>>]
             G == [i \in 1..N |-> [x \in V |-> LineRead(x, lines[i])]]
             Body(f) == [n \in 0..N |-> IF n = 0 THEN A ELSE LineRead(f[n - 1], lines[n])]
             after == CHOOSE f : f = Body(f)
  <1>1. N \in Nat
    OBVIOUS
  <1>2. A \in V
    BY DEF RulesRead
  <1>3. ASSUME NEW i \in 1..N, NEW x \in V PROVE LineRead(x, lines[i]) \in V
    <2>1. lines[i] \in Lines
      BY ElementOfSeq
    <2> QED
      BY <2>1, LineReadType
  <1>4. RulesIn(lines) = after[Len(lines)].rules
    BY DEF RulesIn
  <1> HIDE DEF N, V, A
  <1>5. \A i \in 1..N, x \in V : G[i][x] = LineRead(x, lines[i])
    OBVIOUS
  <1>6. G \in [1..N -> [V -> V]]
    BY <1>3, <1>5
  <1> HIDE DEF G
  <1>7. PICK f \in [0..N -> V] : Recursion(f, A, G, N)
    BY <1>1, <1>2, <1>6, RecursionExists, Zenon
  <1>8. \A i \in 1..N : i \in 0..N /\ i - 1 \in 0..N /\ i # 0
    BY <1>1
  <1>9. \A i \in 1..N : f[i] = LineRead(f[i - 1], lines[i])
    BY <1>5, <1>7, <1>8 DEF Recursion
  <1>10. f = Body(f)
    <2>1. ASSUME NEW i \in 0..N PROVE f[i] = Body(f)[i]
      <3>1. CASE i = 0
        BY <1>7, <3>1 DEF Recursion
      <3>2. CASE i # 0
        <4>1. i \in 1..N
          BY <1>1, <3>2
        <4> QED
          BY <1>9, <3>2, <4>1
      <3> QED
        BY <3>1, <3>2
    <2> QED
      BY <1>7, <2>1
  <1>11. after = Body(after)
    BY <1>10
  <1> HIDE DEF after
  <1>12. after[0] = A /\ \A i \in 1..N : after[i] = LineRead(after[i - 1], lines[i])
    <2>1. \A i \in 0..N : after[i] = Body(after)[i]
      BY <1>11
    <2>2. 0 \in 0..N
      BY <1>1
    <2> QED
      BY <1>8, <2>1, <2>2
  <1>13. \A i \in 0..N : after[i] \in V
    <2>1. \A i \in 1..N : after[i - 1] \in V => after[i] = G[i][after[i - 1]]
      BY <1>5, <1>12
    <2> QED
      BY <1>1, <1>2, <1>6, <1>12, <2>1, RecursionTypes
  <1>14. after \in [0..N -> V]
    BY <1>11, <1>13
  <1> QED
    BY <1>4, <1>12, <1>14 DEF N, V, A


\* The last agent line up to n names "*".
On(lines, n) ==
    \E m \in 1..n : /\ lines[m].k = "agent" /\ lines[m].who = "*"
                    /\ \A l \in (m + 1)..n : lines[l].k # "agent"

LEMMA OnStep ==
    ASSUME NEW lines, NEW n \in Nat
    PROVE  On(lines, n + 1) <=> Collecting(On(lines, n), lines[n + 1])
  <1>1. CASE lines[n + 1].k = "agent"
    <2>1. ASSUME On(lines, n + 1) PROVE lines[n + 1].who = "*"
      <3>1. PICK m \in 1..(n + 1) : /\ lines[m].k = "agent" /\ lines[m].who = "*"
                                    /\ \A l \in (m + 1)..(n + 1) : lines[l].k # "agent"
        BY <2>1 DEF On
      <3>2. m = n + 1 \/ n + 1 \in (m + 1)..(n + 1)
        OBVIOUS
      <3> QED
        BY <1>1, <3>1, <3>2
    <2>2. ASSUME lines[n + 1].who = "*" PROVE On(lines, n + 1)
      <3>1. n + 1 \in 1..(n + 1) /\ \A l \in ((n + 1) + 1)..(n + 1) : FALSE
        OBVIOUS
      <3> QED
        BY <1>1, <2>2, <3>1 DEF On
    <2> QED
      BY <1>1, <2>1, <2>2 DEF Collecting
  <1>2. CASE lines[n + 1].k # "agent"
    <2>1. ASSUME On(lines, n + 1) PROVE On(lines, n)
      <3>1. PICK m \in 1..(n + 1) : /\ lines[m].k = "agent" /\ lines[m].who = "*"
                                    /\ \A l \in (m + 1)..(n + 1) : lines[l].k # "agent"
        BY <2>1 DEF On
      <3>2. m \in 1..n
        BY <1>2, <3>1
      <3>3. \A l \in (m + 1)..n : l \in (m + 1)..(n + 1)
        OBVIOUS
      <3> QED
        BY <3>1, <3>2, <3>3 DEF On
    <2>2. ASSUME On(lines, n) PROVE On(lines, n + 1)
      <3>1. PICK m \in 1..n : /\ lines[m].k = "agent" /\ lines[m].who = "*"
                              /\ \A l \in (m + 1)..n : lines[l].k # "agent"
        BY <2>2 DEF On
      <3>2. m \in 1..(n + 1) /\ \A l \in (m + 1)..(n + 1) : l \in (m + 1)..n \/ l = n + 1
        OBVIOUS
      <3> QED
        BY <1>2, <3>1, <3>2 DEF On
    <2> QED
      BY <1>2, <2>1, <2>2 DEF Collecting
  <1> QED
    BY <1>1, <1>2

\* The rules are those that stand where collecting is on.
LEMMA RulesAre ==
    ASSUME NEW lines \in Seq(Lines)
    PROVE  /\ RulesIn(lines) \in Seq(Rules)
           /\ \A rule : (\E i \in DOMAIN RulesIn(lines) : RulesIn(lines)[i] = rule) <=>
                        \E j \in 1..Len(lines) : /\ lines[j].k = "disallow" /\ On(lines, j)
                                                 /\ rule = lines[j].rule
  <1> DEFINE N == Len(lines)
             Has(rules, rule) == \E i \in 1..Len(rules) : rules[i] = rule
             Stands(n, rule) == \E j \in 1..n : /\ lines[j].k = "disallow" /\ On(lines, j)
                                                /\ rule = lines[j].rule
  <1>1. PICK f : /\ f \in [0..N -> RulesRead] /\ f[0] = [on |-> FALSE, rules |-> <<>>]
                 /\ \A i \in 1..N : f[i] = LineRead(f[i - 1], lines[i])
                 /\ RulesIn(lines) = f[N].rules
    BY RulesDef
  <1>2. N \in Nat /\ \A i \in 1..N : lines[i] \in Lines
    BY ElementOfSeq
  <1> HIDE DEF N
  <1> DEFINE S == {n \in 0..N : /\ f[n].on <=> On(lines, n)
                                /\ \A rule : Has(f[n].rules, rule) <=> Stands(n, rule)}
  <1>3. 0 \in S
    <2>1. f[0].on = FALSE /\ f[0].rules = <<>> /\ 0 \in 0..N
      BY <1>1, <1>2
    <2>2. ~On(lines, 0)
      BY DEF On
    <2>3. \A rule : ~Stands(0, rule)
      OBVIOUS
    <2>4. \A rule : ~Has(f[0].rules, rule)
      BY <2>1
    <2> HIDE DEF Has, Stands
    <2> QED
      BY <2>1, <2>2, <2>3, <2>4
  <1>4. ASSUME NEW n \in 0..(N - 1), n \in S PROVE n + 1 \in S
    <2>1. n + 1 \in 1..N /\ (n + 1) - 1 = n /\ n \in 0..N /\ n + 1 \in 0..N /\ n \in Nat
      BY <1>2
    <2> DEFINE line == lines[n + 1]
    <2>2. f[n] \in RulesRead /\ line \in Lines /\ f[n + 1] = LineRead(f[n], line)
      BY <1>1, <1>2, <2>1
    <2>3. f[n].on <=> On(lines, n)
      BY <1>4
    <2>4. \A rule : Has(f[n].rules, rule) <=> Stands(n, rule)
      BY <1>4
    <2>5. Collecting(f[n].on, line) <=> On(lines, n + 1)
      BY <2>1, <2>3, OnStep DEF Collecting
    <2>6. f[n + 1].on <=> On(lines, n + 1)
      <3> HIDE DEF line
      <3>1. LineRead(f[n], line).on <=> Collecting(f[n].on, line)
        BY <2>2, LineReadType, Zenon
      <3> QED
        BY <2>2, <2>5, <3>1, Zenon
    <2>7. \A rule : Stands(n + 1, rule) <=>
              Stands(n, rule) \/ (line.k = "disallow" /\ On(lines, n + 1) /\ rule = line.rule)
      <3>1. \A j \in 1..(n + 1) : j \in 1..n \/ j = n + 1
        BY <2>1
      <3>2. n + 1 \in 1..(n + 1) /\ \A j \in 1..n : j \in 1..(n + 1)
        BY <2>1
      <3> QED
        BY <3>1, <3>2
    <2>8. CASE line.k = "disallow" /\ On(lines, n + 1)
      <3>1. f[n + 1].rules = Append(f[n].rules, line.rule)
        <4>1. f[n + 1].rules = IF Collecting(f[n].on, line) /\ line.k = "disallow"
                               THEN Append(f[n].rules, line.rule) ELSE f[n].rules
          <5> HIDE DEF line
          <5>1. LineRead(f[n], line).rules =
                   IF Collecting(f[n].on, line) /\ line.k = "disallow"
                   THEN Append(f[n].rules, line.rule) ELSE f[n].rules
            BY <2>2, LineReadType, Zenon
          <5> QED
            BY <2>2, <5>1
        <4> HIDE DEF line
        <4> QED
          BY <2>5, <2>8, <4>1
      <3>2. f[n].rules \in Seq(Rules) /\ line.rule \in Rules
        BY <2>2, <2>8, LineKinds DEF RulesRead
      <3>3. /\ Append(f[n].rules, line.rule) \in Seq(Rules)
            /\ Len(Append(f[n].rules, line.rule)) = Len(f[n].rules) + 1 /\ Len(f[n].rules) \in Nat
            /\ \A i \in 1..Len(f[n].rules) : Append(f[n].rules, line.rule)[i] = f[n].rules[i]
            /\ Append(f[n].rules, line.rule)[Len(f[n].rules) + 1] = line.rule
        <4> DEFINE e == line.rule
                   q == f[n].rules
        <4>1. q \in Seq(Rules) /\ e \in Rules
          BY <3>2
        <4> HIDE DEF e, q, line
        <4>2. /\ Append(q, e) \in Seq(Rules) /\ Len(Append(q, e)) = Len(q) + 1 /\ Len(q) \in Nat
              /\ \A i \in 1..Len(q) : Append(q, e)[i] = q[i]
              /\ Append(q, e)[Len(q) + 1] = e
          BY <4>1, AppendSeq
        <4> QED
          BY <4>2 DEF e, q
      <3> DEFINE k == Len(f[n].rules)
      <3>4. /\ \A i \in 1..(k + 1) : i \in 1..k \/ i = k + 1
            /\ k + 1 \in 1..(k + 1) /\ \A i \in 1..k : i \in 1..(k + 1)
        BY <3>3
      <3>5. \A rule : Has(f[n + 1].rules, rule) <=> Has(f[n].rules, rule) \/ rule = line.rule
        <4> HIDE DEF line
        <4> QED
          BY <3>1, <3>3, <3>4
      <3> HIDE DEF Has, Stands, line
      <3> QED
        BY <2>1, <2>4, <2>6, <2>7, <2>8, <3>5
    <2>9. CASE ~(line.k = "disallow" /\ On(lines, n + 1))
      <3>1. f[n + 1].rules = f[n].rules
        <4> HIDE DEF line
        <4>1. LineRead(f[n], line).rules =
                 IF Collecting(f[n].on, line) /\ line.k = "disallow"
                 THEN Append(f[n].rules, line.rule) ELSE f[n].rules
          BY <2>2, LineReadType, Zenon
        <4> QED
          BY <2>2, <2>5, <2>9, <4>1
      <3> HIDE DEF Has, Stands, line
      <3> QED
        BY <2>1, <2>4, <2>6, <2>7, <2>9, <3>1
    <2> QED
      BY <2>8, <2>9
  <1>5. \A n \in 0..N : n \in S
    <2> HIDE DEF S
    <2> QED
      BY <1>2, <1>3, <1>4, UpTo
  <1>6. N \in 0..N
    BY <1>2
  <1>7. f[N].rules \in Seq(Rules) /\ \A rule : Has(f[N].rules, rule) <=> Stands(N, rule)
    <2> HIDE DEF Has, Stands
    <2> QED
      BY <1>1, <1>5, <1>6 DEF RulesRead
  <1>8. DOMAIN f[N].rules = 1..Len(f[N].rules)
    BY <1>7
  <1> QED
    BY <1>1, <1>7, <1>8 DEF N

\* The rule / begins every path.
LEMMA PathOfUrl ==
    ASSUME NEW url \in Absolute
    PROVE  /\ PathOf(url) \in Path /\ Len(PathOf(url)) >= 2 /\ PathOf(url)[1] = Blank
           /\ Begins(<<Blank, Blank>>, PathOf(url))
  <1>1. Blank \in Segments
    BY SegmentsAssumption
  <1>2. url \in Path /\ Len(url) \in Nat /\ Len(url) >= 3
    BY PathLen DEF Absolute, IsAbsolute
  <1> DEFINE slash == <<Blank, Blank>>
  <1>3. slash \in Path /\ Len(slash) = 2 /\ slash[1] = Blank /\ slash[2] = Blank
    BY <1>1 DEF Path
  <1>4. PathOf(url) \in Path /\ Len(PathOf(url)) >= 2 /\ PathOf(url)[1] = Blank
    <2>1. CASE Len(url) = 3
      BY <1>3, <2>1 DEF PathOf
    <2>2. CASE Len(url) # 3
      <3> DEFINE rest == SubSeq(url, 4, Len(url))
                 one == <<Blank>>
      <3>1. rest \in Path /\ Len(rest) = Len(url) - 3
        <4>1. 4 \in Nat \ {0} /\ 4 <= Len(url) + 1 /\ (Len(url) - 4) + 1 = Len(url) - 3
          BY <1>2, <2>2
        <4>2. rest \in Path /\ Len(rest) = (Len(url) - 4) + 1
          BY <1>2, <4>1, PathPiece, Zenon
        <4> QED
          BY <4>1, <4>2
      <3>2. one \in Path /\ Len(one) = 1 /\ one[1] = Blank
        BY <1>1, PathTuples
      <3>3. PathOf(url) = one \o rest
        BY <2>2 DEF PathOf
      <3> HIDE DEF one, rest
      <3>4. one \o rest \in Path /\ Len(one \o rest) = 1 + Len(rest) /\ (one \o rest)[1] = one[1]
        <4>1. 1 \in 1..Len(one)
          BY <3>2
        <4>2. /\ one \o rest \in Path /\ Len(one \o rest) = Len(one) + Len(rest)
              /\ \A i \in 1..Len(one) : (one \o rest)[i] = one[i]
          BY <3>1, <3>2, PathConcat, Zenon
        <4> QED
          BY <3>2, <4>1, <4>2
      <3> QED
        BY <1>2, <2>2, <3>1, <3>2, <3>3, <3>4
    <2> QED
      BY <2>1, <2>2
  <1> DEFINE p == PathOf(url)
  <1> HIDE DEF p, slash
  <1>5. /\ Front(slash) \in Path /\ Len(Front(slash)) = 1 /\ Front(slash)[1] = Blank
        /\ Last(slash) = Blank
    <2>1. 1 \in 1..(Len(slash) - 1) /\ Len(slash) > 0 /\ Len(slash) - 1 = 1
      BY <1>3
    <2>2. /\ Front(slash) \in Path /\ Len(Front(slash)) = Len(slash) - 1
          /\ \A i \in 1..(Len(slash) - 1) : Front(slash)[i] = slash[i]
      BY <1>3, <2>1, PathFront
    <2> QED
      BY <1>3, <2>1, <2>2 DEF Last
  <1>6. p \in Path /\ Len(p) \in Nat /\ Len(p) >= 2 /\ p[1] = Blank
    BY <1>4, PathLen DEF p
  <1>7. SubSeq(p, 1, 1) \in Path /\ Len(SubSeq(p, 1, 1)) = 1 /\ SubSeq(p, 1, 1)[1] = p[1]
    <2>1. 1 \in Nat /\ 1 <= Len(p) /\ 1 \in 1..1
      BY <1>6
    <2> QED
      BY <1>6, <2>1, PathPrefix
  <1>8. Front(slash) = SubSeq(p, 1, 1)
    <2>1. \A i \in 1..1 : i = 1
      OBVIOUS
    <2> QED
      BY <1>5, <1>6, <1>7, <2>1, PathEqual
  <1>9. Begins(slash, p)
    <2>1. Len(slash) - 1 = 1 /\ Len(slash) <= Len(p)
      BY <1>3, <1>6
    <2> QED
      BY <1>5, <1>8, <2>1, Zenon DEF Begins
  <1> QED
    BY <1>4, <1>9 DEF p, slash

\* The agent lines that head a rule are there, and no agent line is a rule.
LEMMA AgentLines ==
    ASSUME NEW lines \in Seq(Lines), NEW i \in 1..Len(lines), lines[i].k = "agent"
    PROVE  lines[i].k # "disallow"
  OBVIOUS

\* Collecting is on at a rule if "*" is the last of the agents that head it.
LEMMA OnIsLast ==
    ASSUME NEW lines \in Seq(Lines), NEW j \in 1..Len(lines), lines[j].k = "disallow"
    PROVE  On(lines, j) <=>
              \E i \in 1..Len(lines) :
                 /\ lines[i].k = "agent" /\ lines[i].who = "*" /\ Heads(lines, i, j)
                 /\ \A l \in 1..Len(lines) : Heads(lines, l, j) => l <= i
  <1> DEFINE N == Len(lines)
             Agent(i) == lines[i].k = "agent"
             Star(i) == lines[i].who = "*"
  <1>1. N \in Nat
    OBVIOUS
  <1>2. \A i \in 1..N : Agent(i) => i # j
    BY AgentLines
  <1> HIDE DEF N
  <1>3. j \in 1..N
    BY DEF N
  <1>4. ASSUME On(lines, j)
        PROVE  \E i \in 1..N : /\ Agent(i) /\ Star(i) /\ Heads(lines, i, j)
                               /\ \A l \in 1..N : Heads(lines, l, j) => l <= i
    <2>1. PICK m \in 1..j : Agent(m) /\ Star(m) /\ \A l \in (m + 1)..j : ~Agent(l)
      BY <1>4 DEF On
    <2>2. m \in 1..N /\ m < j
      BY <1>1, <1>2, <1>3, <2>1
    <2>3. ~\E k \in m..j, l \in m..j : k < l /\ IsRule(lines[k]) /\ Agent(l)
      <3> SUFFICES ASSUME NEW k \in m..j, NEW l \in m..j, k < l, Agent(l) PROVE FALSE
        OBVIOUS
      <3>1. l \in (m + 1)..j
        BY <1>1, <2>2
      <3> QED
        BY <2>1, <3>1
    <2>4. Heads(lines, m, j)
      BY <2>1, <2>2, <2>3, Zenon DEF Heads, IsRule
    <2>5. ASSUME NEW l \in 1..N, Heads(lines, l, j) PROVE l <= m
      <3>1. l < j /\ Agent(l)
        BY <2>5 DEF Heads
      <3>2. l \notin (m + 1)..j
        BY <2>1, <3>1
      <3> QED
        BY <1>1, <1>3, <2>2, <3>1, <3>2
    <2> QED
      BY <2>1, <2>2, <2>4, <2>5
  <1>5. ASSUME NEW i \in 1..N, Agent(i), Star(i), Heads(lines, i, j),
               \A l \in 1..N : Heads(lines, l, j) => l <= i
        PROVE  On(lines, j)
    <2> DEFINE T == {l \in i..j : Agent(l)}
    <2>1. T \subseteq Nat /\ T # {} /\ i \in T
      BY <1>5 DEF Heads
    <2>2. PICK m \in T : \A l \in T : l <= m
      <3>1. IsFiniteSet(i..j)
        <4>1. i \in Int /\ j \in Int
          BY <1>1
        <4> QED
          BY <4>1, FS_Interval
      <3>2. IsFiniteSet(T)
        BY <3>1, FS_Subset
      <3> HIDE DEF T
      <3> QED
        BY <2>1, <3>2, GreatestNat
    <2>3. m \in i..j /\ Agent(m) /\ i <= m /\ m \in 1..N
      BY <1>1, <1>3, <2>1, <2>2
    <2>4. m < j
      BY <1>1, <1>2, <1>3, <2>3
    <2>5. \A l \in (m + 1)..j : ~Agent(l)
      <3> SUFFICES ASSUME NEW l \in (m + 1)..j, Agent(l) PROVE FALSE
        OBVIOUS
      <3>1. l \in T
        BY <1>1, <2>3
      <3>2. l <= m
        BY <2>2, <3>1
      <3> QED
        BY <1>1, <2>3, <3>2
    <2>6. Heads(lines, m, j)
      <3>1. ~\E k \in i..j, l \in i..j : k < l /\ IsRule(lines[k]) /\ lines[l].k = "agent"
        BY <1>5 DEF Heads
      <3>2. \A k \in m..j : k \in i..j
        BY <1>1, <2>3
      <3> QED
        BY <2>3, <2>4, <3>1, <3>2 DEF Heads, IsRule
    <2>7. m = i
      BY <1>1, <1>5, <2>3, <2>6
    <2>8. m \in 1..j
      BY <1>1, <2>3
    <2> QED
      BY <1>5, <2>3, <2>5, <2>7, <2>8 DEF On
  <1> QED
    BY <1>4, <1>5 DEF N

\* A page is disallowed if a rule that stands begins its path.
LEMMA RulesRight ==
    ASSUME NEW lines \in Seq(Lines), NEW url \in Absolute
    PROVE  Disallows(RulesIn(lines), url) <=>
              \E path \in Standing(lines) : Begins(path, PathOf(url))
  <1> DEFINE N == Len(lines)
             Is(j) == lines[j].k = "disallow" /\ On(lines, j)
  <1>1. DOMAIN lines = 1..N
    BY LenProperties
  <1>2. Disallows(RulesIn(lines), url) <=> \E j \in 1..N : Is(j) /\ Matches(lines[j].rule, PathOf(url))
    <2>1. \A rule : (\E i \in DOMAIN RulesIn(lines) : RulesIn(lines)[i] = rule) <=>
                       \E j \in 1..N : Is(j) /\ rule = lines[j].rule
      BY RulesAre, Zenon
    <2> HIDE DEF N, Is
    <2>2. Disallows(RulesIn(lines), url) <=>
            \E rule : /\ \E i \in DOMAIN RulesIn(lines) : RulesIn(lines)[i] = rule
                      /\ Matches(rule, PathOf(url))
      BY Zenon DEF Disallows
    <2> QED
      BY <2>1, <2>2, Zenon
  <1>3. \A rule : Matches(rule, PathOf(url)) <=> ~rule.cr /\ Begins(rule.path, PathOf(url))
    BY PathOfUrl, Zenon DEF Matches
  <1>4. \A path : path \in Standing(lines) <=>
                    \E j \in 1..N : Is(j) /\ ~lines[j].rule.cr /\ path = lines[j].rule.path
    <2> DEFINE Heading(j) == \E i \in 1..N : /\ lines[i].k = "agent" /\ lines[i].who = "*"
                                             /\ Heads(lines, i, j)
                                             /\ \A l \in 1..N : Heads(lines, l, j) => l <= i
    <2>1. \A j \in 1..N : lines[j].k = "disallow" => (On(lines, j) <=> Heading(j))
      BY OnIsLast, Zenon
    <2>2. \A path : path \in Standing(lines) <=>
                      \E j \in 1..N : /\ lines[j].k = "disallow" /\ ~lines[j].rule.cr /\ Heading(j)
                                      /\ path = lines[j].rule.path
      BY <1>1, Zenon DEF Standing, IsRule
    <2> HIDE DEF N, Heading
    <2> QED
      BY <2>1, <2>2, Zenon
  <1> HIDE DEF N, Is
  <1>5. Disallows(RulesIn(lines), url) <=>
          \E j \in 1..N : Is(j) /\ ~lines[j].rule.cr /\ Begins(lines[j].rule.path, PathOf(url))
    BY <1>2, <1>3, Zenon
  <1>6. ASSUME NEW path \in Standing(lines), Begins(path, PathOf(url))
        PROVE  \E j \in 1..N : Is(j) /\ ~lines[j].rule.cr /\ Begins(lines[j].rule.path, PathOf(url))
    <2>1. PICK j \in 1..N : Is(j) /\ ~lines[j].rule.cr /\ path = lines[j].rule.path
      BY <1>4, Zenon
    <2> QED
      BY <1>6, <2>1
  <1>7. ASSUME NEW j \in 1..N, Is(j), ~lines[j].rule.cr, Begins(lines[j].rule.path, PathOf(url))
        PROVE  \E path \in Standing(lines) : Begins(path, PathOf(url))
    <2>1. lines[j].rule.path \in Standing(lines)
      BY <1>4, <1>7
    <2> QED
      BY <1>7, <2>1
  <1> QED
    BY <1>5, <1>6, <1>7, Zenon

(***************************************************************************)
(* The fetcher keeps to robots.txt.                                        *)
(***************************************************************************)

LEMMA DomainOf ==
    ASSUME NEW url \in Absolute
    PROVE  /\ extractDomain(url) \in Path /\ extractDomain(extractDomain(url)) = extractDomain(url)
  <1>1. url \in Path /\ Len(url) >= 3 /\ 3 \in Nat
    BY DEF Absolute, IsAbsolute
  <1> DEFINE d == SubSeq(url, 1, 3)
  <1>2. d \in Path /\ Len(d) = 3
    BY <1>1, PathPrefix
  <1>3. extractDomain(url) = d
    BY DEF extractDomain
  <1> HIDE DEF d
  <1>4. SubSeq(d, 1, 3) \in Path /\ Len(SubSeq(d, 1, 3)) = 3 /\ \A i \in 1..3 : SubSeq(d, 1, 3)[i] = d[i]
    <2>1. 3 \in Nat /\ 3 <= Len(d)
      BY <1>2
    <2> QED
      BY <1>2, <2>1, PathPrefix
  <1>5. SubSeq(d, 1, 3) = d
    BY <1>2, <1>4, PathEqual
  <1> QED
    BY <1>2, <1>3, <1>5 DEF extractDomain

LEMMA UrlsAbsolute == Urls \subseteq Absolute
  BY WebAssumption DEF Absolute, Path

RequestSet == [to : Path, what : {"robots", "page"}, way : Detours]
IsAsk(request, d) == request.to = d /\ request.what = "robots"

Permitted(request, rules) ==
    /\ extractDomain(request.to) \in DOMAIN rules
    /\ request.what = "page" =>
          request.to \in Urls /\ ~Disallows(rules[extractDomain(request.to)], request.to)

AskedFirst(reqs, d) ==
    \E j \in 1..Len(reqs) :
       /\ IsAsk(reqs[j], d)
       /\ \A i \in 1..Len(reqs) :
             /\ IsAsk(reqs[i], d) => i = j
             /\ extractDomain(reqs[i].to) = d => j <= i

\* Every request is for a domain whose rules are known, a page is not disallowed, and
\* the rules of each domain were asked for once and before all else.
Orderly(reqs, rules) ==
    /\ reqs \in Seq(RequestSet)
    /\ \A i \in 1..Len(reqs) : Permitted(reqs[i], rules)
    /\ \A d \in DOMAIN rules : AskedFirst(reqs, d)

LEMMA OneMore ==
    ASSUME NEW R, NEW s \in Seq(R), NEW e \in R
    PROVE  /\ s \o <<e>> \in Seq(R) /\ Len(s \o <<e>>) = Len(s) + 1 /\ Len(s) \in Nat
           /\ \A i \in 1..Len(s) : (s \o <<e>>)[i] = s[i]
           /\ (s \o <<e>>)[Len(s) + 1] = e
           /\ \A i \in 1..(Len(s) + 1) : i \in 1..Len(s) \/ i = Len(s) + 1
           /\ \A i \in 1..Len(s) : i \in 1..(Len(s) + 1)
           /\ Len(s) + 1 \in 1..(Len(s) + 1)
  <1>1. s \o <<e>> = Append(s, e)
    BY AppendIsConcat
  <1>2. Len(s) \in Nat
    BY LenProperties
  <1> QED
    BY <1>1, <1>2, AppendSeq

LEMMA RobotsAsked ==
    ASSUME NEW reqs, NEW rules, Orderly(reqs, rules),
           NEW d \in Path, d \notin DOMAIN rules, extractDomain(d) = d,
           NEW more, DOMAIN more = DOMAIN rules \cup {d},
           \A x \in DOMAIN rules : more[x] = rules[x],
           NEW asked \in get(reqs, d, "robots")
    PROVE  Orderly(asked, more)
  <1>0. PICK way \in Detours : asked = reqs \o <<[to |-> d, what |-> "robots", way |-> way]>>
    BY DEF get
  <1> DEFINE e == [to |-> d, what |-> "robots", way |-> way]
             all == reqs \o <<e>>
             n == Len(reqs)
  <1>1. e \in RequestSet /\ e.to = d /\ e.what = "robots"
    BY DEF RequestSet
  <1>2. reqs \in Seq(RequestSet)
    BY DEF Orderly
  <1> HIDE DEF e
  <1>3. /\ all \in Seq(RequestSet) /\ Len(all) = n + 1 /\ n \in Nat
        /\ \A i \in 1..n : all[i] = reqs[i]
        /\ all[n + 1] = e
        /\ \A i \in 1..(n + 1) : i \in 1..n \/ i = n + 1
        /\ \A i \in 1..n : i \in 1..(n + 1)
        /\ n + 1 \in 1..(n + 1)
    BY <1>1, <1>2, OneMore
  <1> HIDE DEF all, n
  <1>4. ASSUME NEW i \in 1..(n + 1)
        PROVE  Permitted(all[i], more)
    <2>1. CASE i \in 1..n
      BY <1>3, <2>1 DEF Orderly, Permitted, n
    <2>2. CASE i = n + 1
      BY <1>1, <1>3, <2>2 DEF Permitted
    <2> QED
      BY <1>3, <2>1, <2>2
  <1>5. ASSUME NEW x \in DOMAIN more
        PROVE  AskedFirst(all, x)
    <2>1. CASE x = d
      <3>1. ASSUME NEW i \in 1..n PROVE ~IsAsk(reqs[i], d) /\ extractDomain(reqs[i].to) # d
        <4>1. extractDomain(reqs[i].to) \in DOMAIN rules
          BY DEF Orderly, Permitted, n
        <4> QED
          BY <1>1, <4>1 DEF IsAsk
      <3>2. IsAsk(all[n + 1], d) /\ n + 1 \in 1..(n + 1)
        BY <1>1, <1>3 DEF IsAsk
      <3>3. \A i \in 1..(n + 1) : (IsAsk(all[i], d) => i = n + 1) /\ (extractDomain(all[i].to) = d => n + 1 <= i)
        BY <1>3, <3>1
      <3> QED
        BY <1>3, <2>1, <3>2, <3>3 DEF AskedFirst
    <2>2. CASE x \in DOMAIN rules
      <3>1. PICK j \in 1..n :
               /\ IsAsk(reqs[j], x)
               /\ \A i \in 1..n : (IsAsk(reqs[i], x) => i = j) /\ (extractDomain(reqs[i].to) = x => j <= i)
        BY <2>2, Zenon DEF Orderly, AskedFirst, n
      <3>2. ~IsAsk(e, x) /\ extractDomain(e.to) # x
        BY <1>1, <2>2 DEF IsAsk
      <3>3. j \in 1..(n + 1) /\ IsAsk(all[j], x)
        BY <1>3, <3>1
      <3>4. \A i \in 1..(n + 1) : (IsAsk(all[i], x) => i = j) /\ (extractDomain(all[i].to) = x => j <= i)
        BY <1>3, <3>1, <3>2
      <3> QED
        BY <1>3, <3>3, <3>4 DEF AskedFirst
    <2> QED
      BY <2>1, <2>2
  <1>6. Orderly(all, more)
    BY <1>3, <1>4, <1>5 DEF Orderly
  <1> QED
    BY <1>0, <1>6 DEF all, e

LEMMA PageAsked ==
    ASSUME NEW reqs, NEW rules, Orderly(reqs, rules),
           NEW url \in Urls, extractDomain(url) \in DOMAIN rules,
           ~Disallows(rules[extractDomain(url)], url),
           NEW asked \in get(reqs, url, "page")
    PROVE  Orderly(asked, rules)
  <1>0. PICK way \in Detours : asked = reqs \o <<[to |-> url, what |-> "page", way |-> way]>>
    BY DEF get
  <1> DEFINE e == [to |-> url, what |-> "page", way |-> way]
             all == reqs \o <<e>>
             n == Len(reqs)
  <1>1. e \in RequestSet /\ e.to = url /\ e.what = "page"
    BY UrlsAbsolute DEF RequestSet, Absolute
  <1>2. reqs \in Seq(RequestSet)
    BY DEF Orderly
  <1> HIDE DEF e
  <1>3. /\ all \in Seq(RequestSet) /\ Len(all) = n + 1 /\ n \in Nat
        /\ \A i \in 1..n : all[i] = reqs[i]
        /\ all[n + 1] = e
        /\ \A i \in 1..(n + 1) : i \in 1..n \/ i = n + 1
        /\ \A i \in 1..n : i \in 1..(n + 1)
        /\ n + 1 \in 1..(n + 1)
    BY <1>1, <1>2, OneMore
  <1> HIDE DEF all, n
  <1>4. ASSUME NEW i \in 1..(n + 1)
        PROVE  Permitted(all[i], rules)
    <2>1. CASE i \in 1..n
      BY <1>3, <2>1 DEF Orderly, Permitted, n
    <2>2. CASE i = n + 1
      BY <1>1, <1>3, <2>2 DEF Permitted
    <2> QED
      BY <1>3, <2>1, <2>2
  <1>5. ASSUME NEW x \in DOMAIN rules
        PROVE  AskedFirst(all, x)
    <2>1. PICK j \in 1..n :
             /\ IsAsk(reqs[j], x)
             /\ \A i \in 1..n : (IsAsk(reqs[i], x) => i = j) /\ (extractDomain(reqs[i].to) = x => j <= i)
      BY Zenon DEF Orderly, AskedFirst, n
    <2>2. ~IsAsk(e, x)
      BY <1>1 DEF IsAsk
    <2>3. j \in 1..(n + 1) /\ IsAsk(all[j], x) /\ j <= n + 1
      BY <1>3, <2>1
    <2>4. \A i \in 1..(n + 1) : (IsAsk(all[i], x) => i = j) /\ (extractDomain(all[i].to) = x => j <= i)
      BY <1>3, <2>1, <2>2, <2>3
    <2> QED
      BY <1>3, <2>3, <2>4 DEF AskedFirst
  <1>6. Orderly(all, rules)
    BY <1>3, <1>4, <1>5 DEF Orderly
  <1> QED
    BY <1>0, <1>6 DEF all, e

\* The rules of a domain are those of the file it served.
Filed ==
    /\ DOMAIN served = DOMAIN robotsRules
    /\ \A d \in DOMAIN robotsRules :
          served[d] \in Seq(Lines) /\ robotsRules[d] = RulesIn(served[d])

\* The last URL was asked for or is disallowed.
LastJudged ==
    last.url # EmptyUrl =>
        /\ last.url \in Urls /\ extractDomain(last.url) \in DOMAIN robotsRules
        /\ last.url \in PagesAsked \/ Disallows(robotsRules[extractDomain(last.url)], last.url)

FetcherInv == Orderly(requests, robotsRules) /\ Filed /\ LastJudged

LEMMA ObeyedByInv == FetcherInv => RobotsObeyed
  <1> SUFFICES ASSUME FetcherInv PROVE RobotsObeyed
    OBVIOUS
  <1>1. requests \in Seq(RequestSet) /\ DOMAIN requests = 1..Len(requests)
    BY LenProperties DEF FetcherInv, Orderly
  <1>2. ASSUME NEW i \in DOMAIN requests
        PROVE  LET asks == AsksFor(extractDomain(requests[i].to))
               IN  Cardinality(asks) = 1 /\ \A j \in asks : j <= i
    <2> DEFINE d == extractDomain(requests[i].to)
    <2>1. d \in DOMAIN robotsRules
      BY <1>1 DEF FetcherInv, Orderly, Permitted
    <2>2. PICK j \in 1..Len(requests) :
             /\ IsAsk(requests[j], d)
             /\ \A k \in 1..Len(requests) :
                   (IsAsk(requests[k], d) => k = j) /\ (extractDomain(requests[k].to) = d => j <= k)
      <3> HIDE DEF d
      <3> QED
        BY <2>1, Zenon DEF FetcherInv, Orderly, AskedFirst
    <2>3. AsksFor(d) = {j}
      <3> HIDE DEF d
      <3> QED
        BY <1>1, <2>2 DEF AsksFor, IsAsk
    <2>4. j <= i
      BY <1>1, <2>2
    <2>5. Cardinality({j}) = 1
      BY FS_Singleton
    <2> HIDE DEF d
    <2>6. Cardinality(AsksFor(d)) = 1 /\ \A k \in AsksFor(d) : k <= i
      BY <2>3, <2>4, <2>5
    <2> QED
      BY <2>6 DEF d
  <1>3. ASSUME NEW url \in (PagesAsked \cup {last.url}) \ {EmptyUrl}
        PROVE  url \in PagesAsked <=>
                  ~\E path \in Standing(served[extractDomain(url)]) : Begins(path, PathOf(url))
    <2> DEFINE d == extractDomain(url)
               lines == served[d]
    <2>1. url \in PagesAsked => /\ url \in Urls /\ d \in DOMAIN robotsRules
                                /\ ~Disallows(robotsRules[d], url)
      <3> SUFFICES ASSUME url \in PagesAsked
                   PROVE  url \in Urls /\ d \in DOMAIN robotsRules /\ ~Disallows(robotsRules[d], url)
        OBVIOUS
      <3>1. PICK i \in DOMAIN requests : requests[i].what = "page" /\ url = requests[i].to
        BY Zenon DEF PagesAsked
      <3> QED
        BY <1>1, <3>1 DEF FetcherInv, Orderly, Permitted
    <2>2. url \notin PagesAsked => /\ url \in Urls /\ d \in DOMAIN robotsRules
                                   /\ Disallows(robotsRules[d], url)
      <3> SUFFICES ASSUME url \notin PagesAsked
                   PROVE  url \in Urls /\ d \in DOMAIN robotsRules /\ Disallows(robotsRules[d], url)
        OBVIOUS
      <3>1. url = last.url /\ last.url # EmptyUrl
        OBVIOUS
      <3> QED
        BY <3>1 DEF FetcherInv, LastJudged
    <2> HIDE DEF d
    <2>3. lines \in Seq(Lines) /\ robotsRules[d] = RulesIn(lines)
      BY <2>1, <2>2 DEF FetcherInv, Filed
    <2>4. url \in Absolute
      BY <2>1, <2>2, UrlsAbsolute
    <2> HIDE DEF lines
    <2>5. Disallows(robotsRules[d], url) <=> \E path \in Standing(lines) : Begins(path, PathOf(url))
      BY <2>3, <2>4, RulesRight
    <2>6. url \in PagesAsked <=> ~\E path \in Standing(lines) : Begins(path, PathOf(url))
      BY <2>1, <2>2, <2>5, Zenon
    <2> QED
      BY <2>6 DEF lines, d
  <1> QED
    BY <1>2, <1>3 DEF RobotsObeyed

LEMMA FetcherInvInit == FetcherInit => FetcherInv
  <1> SUFFICES ASSUME FetcherInit PROVE FetcherInv
    OBVIOUS
  <1>1. robotsRules = <<>> /\ requests = <<>> /\ served = <<>> /\ last.url = EmptyUrl
    BY DEF FetcherInit
  <1>2. DOMAIN robotsRules = {}
    BY <1>1
  <1>3. requests \in Seq(RequestSet) /\ \A i \in 1..Len(requests) : FALSE
    BY <1>1
  <1>4. Orderly(requests, robotsRules)
    BY <1>2, <1>3, Zenon DEF Orderly
  <1> QED
    BY <1>1, <1>2, <1>4 DEF FetcherInv, Filed, LastJudged

\* A call keeps the requests in order, whether the page may be asked for or not.
LEMMA AdmitInv ==
    ASSUME FetcherInv, NEW url \in Urls, NEW allowed \in BOOLEAN, Admit(url, allowed), last'.url = url
    PROVE  FetcherInv'
  <1> DEFINE d == extractDomain(url)
  <1>1. d \in Path /\ extractDomain(d) = d
    BY DomainOf, UrlsAbsolute
  <1>2. PICK asked \in IF Known(d) THEN {requests} ELSE get(requests, d, "robots") :
            requests' \in IF allowed THEN get(asked, url, "page") ELSE {asked}
    BY DEF Admit
  <1>6. allowed <=> ~Disallows(robotsRules'[d], url)
    BY DEF Admit
  <1>3. /\ d \in DOMAIN robotsRules'
        /\ Filed' /\ Orderly(asked, robotsRules')
    <2>1. CASE Known(d)
      <3>1. UNCHANGED <<robotsRules, served>>
        BY <2>1 DEF Admit
      <3> QED
        BY <1>2, <2>1, <3>1 DEF FetcherInv, Filed, Known
    <2>2. CASE ~Known(d)
      <3>1. PICK lines \in Replies(Robots) :
               /\ robotsRules' = [x \in DOMAIN robotsRules \cup {d} |->
                                    IF x = d THEN RulesIn(lines) ELSE robotsRules[x]]
               /\ served' = [x \in DOMAIN served \cup {d} |->
                                    IF x = d THEN lines ELSE served[x]]
        BY <2>2, Zenon DEF Admit
      <3> HIDE DEF d
      <3>2. lines \in Seq(Lines)
        <4>1. lines \in Robots \/ lines = <<>>
          BY <3>1 DEF Replies, NoFile
        <4>2. Robots \subseteq Seq(Lines) /\ <<>> \in Seq(Lines)
          BY WebAssumption, EmptySeq, Zenon
        <4> QED
          BY <4>1, <4>2, Zenon
      <3>3. /\ DOMAIN robotsRules' = DOMAIN robotsRules \cup {d}
            /\ robotsRules'[d] = RulesIn(lines)
            /\ \A x \in DOMAIN robotsRules : x # d /\ robotsRules'[x] = robotsRules[x]
        BY <2>2, <3>1 DEF Known
      <3>4. /\ DOMAIN served' = DOMAIN served \cup {d} /\ served'[d] = lines
            /\ \A x \in DOMAIN served : x # d => served'[x] = served[x]
        BY <3>1
      <3>5. Filed'
        BY <3>2, <3>3, <3>4 DEF FetcherInv, Filed
      <3>6. d \notin DOMAIN robotsRules
        BY <2>2 DEF Known
      <3>7. Orderly(asked, robotsRules')
        <4>1. asked \in get(requests, d, "robots")
          BY <1>2, <2>2
        <4> QED
          BY <1>1, <3>3, <3>6, <4>1, RobotsAsked DEF FetcherInv
      <3> QED
        BY <2>2, <3>3, <3>5, <3>7
    <2> QED
      BY <2>1, <2>2
  <1>4. CASE allowed
    <2>1. requests' \in get(asked, url, "page") /\ ~Disallows(robotsRules'[d], url)
      BY <1>2, <1>4, <1>6
    <2>2. Orderly(requests', robotsRules')
      BY <1>3, <2>1, PageAsked
    <2>3. asked \in Seq(RequestSet)
      BY <1>3 DEF Orderly
    <2>10. PICK way \in Detours : requests' = asked \o <<[to |-> url, what |-> "page", way |-> way]>>
      BY <2>1 DEF get
    <2> DEFINE e == [to |-> url, what |-> "page", way |-> way]
    <2>4. e \in RequestSet /\ e.to = url /\ e.what = "page"
      BY UrlsAbsolute DEF RequestSet, Absolute
    <2> HIDE DEF e
    <2>5. requests' = asked \o <<e>>
      BY <2>10 DEF e
    <2>6. /\ requests' \in Seq(RequestSet) /\ Len(requests') = Len(asked) + 1
          /\ requests'[Len(asked) + 1] = e /\ Len(asked) + 1 \in 1..(Len(asked) + 1)
      BY <2>3, <2>4, <2>5, OneMore
    <2>7. Len(asked) + 1 \in DOMAIN requests' /\ requests'[Len(asked) + 1].what = "page"
          /\ requests'[Len(asked) + 1].to = url
      BY <2>4, <2>6, LenProperties
    <2>8. url \in PagesAsked'
      BY <2>7, Zenon DEF PagesAsked
    <2>9. LastJudged'
      BY <1>3, <2>8 DEF LastJudged
    <2> QED
      BY <1>3, <2>2, <2>9 DEF FetcherInv
  <1>5. CASE ~allowed
    <2>1. requests' = asked /\ Disallows(robotsRules'[d], url)
      BY <1>2, <1>5, <1>6
    <2>2. LastJudged'
      BY <1>3, <2>1 DEF LastJudged
    <2> QED
      BY <1>3, <2>1, <2>2 DEF FetcherInv
  <1> QED
    BY <1>4, <1>5

LEMMA FetcherInvNext == FetcherInv /\ [FetcherNext]_fetcherVars => FetcherInv'
  <1> SUFFICES ASSUME FetcherInv, [FetcherNext]_fetcherVars PROVE FetcherInv'
    OBVIOUS
  <1>1. CASE UNCHANGED fetcherVars
    <2>1. /\ requests' = requests /\ robotsRules' = robotsRules /\ served' = served
          /\ last' = last
      BY <1>1 DEF fetcherVars
    <2>2. Orderly(requests, robotsRules)'
      BY <2>1 DEF FetcherInv
    <2>3. Filed'
      BY <2>1 DEF FetcherInv, Filed
    <2>4. LastJudged'
      BY <2>1 DEF FetcherInv, LastJudged, PagesAsked
    <2> QED
      BY <2>2, <2>3, <2>4 DEF FetcherInv
  <1>2. ASSUME NEW url \in Urls \cup {EmptyUrl}, NEW call \in {"info", "urls"}, RefuseUrl(call, url)
        PROVE  FetcherInv'
    <2>1. last'.url = url
      BY <1>2 DEF RefuseUrl, Answered
    <2>2. CASE url = EmptyUrl /\ UNCHANGED <<robotsRules, served, requests>>
      <3>1. LastJudged'
        BY <2>1, <2>2 DEF LastJudged
      <3> QED
        BY <2>2, <3>1 DEF FetcherInv, Filed
    <2>3. CASE Admit(url, FALSE)
      <3>1. url \in Urls
        BY <2>3 DEF Admit
      <3> QED
        BY <2>1, <2>3, <3>1, AdmitInv
    <2> QED
      BY <1>2, <2>2, <2>3 DEF RefuseUrl
  <1>3. ASSUME NEW url \in Urls \cup {EmptyUrl}, MissPage(url) \/ TakePage(url) \/ TakeLinks(url)
        PROVE  FetcherInv'
    <2>1. Admit(url, TRUE) /\ last'.url = url
      <3>1. CASE MissPage(url)
        BY <3>1 DEF MissPage, Answered
      <3>2. CASE TakePage(url)
        <4>1. Admit(url, TRUE)
          BY <3>2 DEF TakePage
        <4>2. PICK call, html, answer :
                 last' = [call |-> call, url |-> url, page |-> html, answer |-> answer]
          BY <3>2, Zenon DEF TakePage, Answered
        <4> QED
          BY <4>1, <4>2
      <3>3. CASE TakeLinks(url)
        <4>1. Admit(url, TRUE)
          BY <3>3 DEF TakeLinks
        <4>2. PICK call, html, answer :
                 last' = [call |-> call, url |-> url, page |-> html, answer |-> answer]
          BY <3>3, Zenon DEF TakeLinks, Answered
        <4> QED
          BY <4>1, <4>2
      <3> QED
        BY <1>3, <3>1, <3>2, <3>3
    <2>2. url \in Urls
      BY <2>1 DEF Admit
    <2> QED
      BY <2>1, <2>2, AdmitInv
  <1> QED
    BY <1>1, <1>2, <1>3 DEF FetcherNext

\* For any web and any robots.txt, in whatever order its lines are: of the URLs that the
\* fetcher is asked for, it asks for exactly those whose path no standing rule begins, and
\* for each robots.txt once and before the first page of its site.  Nothing is said of
\* where redirects lead (LinkFetcher.cpp:38-89, HTML_getter.cpp:34).
THEOREM RobotsAlwaysObeyed == FetcherSpec => []RobotsObeyed
  <1>1. FetcherInit => FetcherInv
    BY FetcherInvInit
  <1>2. FetcherInv /\ [FetcherNext]_fetcherVars => FetcherInv'
    BY FetcherInvNext
  <1>3. FetcherInv => RobotsObeyed
    BY ObeyedByInv
  <1> QED
    BY <1>1, <1>2, <1>3, PTL DEF FetcherSpec

(***************************************************************************)
(* An answer is about its own page.                                        *)
(***************************************************************************)

LEMMA FetchedLinks ==
    ASSUME NEW html \in Replies(Pages), NEW url \in Urls, GetLinks(html, url)
    PROVE  filtered_url' = Followable(ElementsOn[html], url)
  <1>1. url \in Absolute /\ ElementsOn[html] \in Seq(Elements)
    BY UrlsAbsolute, ParserAssumption
  <1>2. urls' = <<>> \o collect_links(ElementsOn[html], url) /\ filtered_url' = filtrate(urls')
    BY DEF GetLinks, ClearedUrls
  <1>3. collect_links(ElementsOn[html], url) \in Seq(Path)
    BY <1>1, CollectInv
  <1>4. urls' = collect_links(ElementsOn[html], url)
    BY <1>2, <1>3, ConcatEmptySeq
  <1> QED
    BY <1>1, <1>2, <1>4, LinksAre

LEMMA NoPageNoLinks == ASSUME NEW url PROVE Followable(ElementsOn[NoFile], url) = {}
  <1>1. ElementsOn[NoFile] = <<>>
    BY ParserAssumption
  <1>2. Anchors(<<>>) = {}
    BY DEF Anchors
  <1>3. \A u \in Followable(<<>>, url) : FALSE
    BY <1>2, Zenon DEF Followable, LedTo
  <1> QED
    BY <1>1, <1>3

\* Where the page may be read at, its links are right if they are the followable ones
\* of the page at the URL that was asked for.
LEMMA ReadAnywhere ==
    ASSUME NEW elements, last'.answer.links = Followable(elements, last'.url), NEW url \in ReadAt'
    PROVE  LinksOfPage(last'.answer.links, elements, url)
  <1>1. Followable(elements, url) = Followable(elements, last'.url)
    <2>1. url = last'.url \/ SameSite(url, last'.url)
      BY Zenon DEF ReadAt
    <2> QED
      BY <2>1, SiteLinks
  <1>2. LinksOfPage(Followable(elements, url), elements, url)
    BY FollowableMeant
  <1> QED
    BY <1>1, <1>2

\* An answer tells of its own page and of nothing that was fetched before it, though
\* the lists it is made from live on in the fetcher: its links are links of the page,
\* with all that name their scheme or have one leading slash, also where a redirect
\* within the site led to the page (LinkFetcher.cpp:93-139).
THEOREM AnswersAreOfTheirPages == FetcherSpec => []AnswerIsOfItsPage
  <1>1. FetcherInit => AnswerIsOfItsPage
    BY DEF FetcherInit, AnswerIsOfItsPage
  <1>2. ASSUME AnswerIsOfItsPage, [FetcherNext]_fetcherVars PROVE AnswerIsOfItsPage'
    <2>1. CASE UNCHANGED fetcherVars
      <3>1. last' = last /\ requests' = requests
        BY <2>1 DEF fetcherVars
      <3>2. ReadAt' = ReadAt
        BY <3>1 DEF ReadAt, Origin
      <3> QED
        BY <1>2, <3>1, <3>2 DEF AnswerIsOfItsPage
    <2>2. ASSUME NEW url, NEW call \in {"info", "urls"},
                 last' = [call |-> call, url |-> url, page |-> NoFile, answer |-> NoAnswer]
          PROVE  AnswerIsOfItsPage'
      <3>1. /\ last'.url = url /\ last'.page = NoFile /\ last'.answer.ok = FALSE
            /\ last'.answer.links = {}
            /\ last'.answer.title = <<>> /\ last'.answer.content = <<>>
        BY <2>2 DEF NoAnswer
      <3>2. last'.answer.links = Followable(ElementsOn[last'.page], last'.url)
        BY <3>1, NoPageNoLinks
      <3>3. \A u \in ReadAt' : LinksOfPage(last'.answer.links, ElementsOn[last'.page], u)
        BY <3>2, ReadAnywhere
      <3> QED
        BY <3>1, <3>3, Zenon DEF AnswerIsOfItsPage
    <2>3. ASSUME NEW url \in Urls \cup {EmptyUrl}, TakePage(url) PROVE AnswerIsOfItsPage'
      <3>1. PICK html \in Pages :
               /\ GetLinks(html, url)
               /\ last' = [call |-> "info", url |-> url, page |-> html,
                           answer |-> [ok |-> TRUE, links |-> filtered_url',
                                       title |-> TextOn[html].title,
                                       content |-> TextOn[html].content]]
        BY <2>3 DEF TakePage, Answered
      <3>2. url \in Urls
        BY <2>3 DEF TakePage, Admit
      <3>3. filtered_url' = Followable(ElementsOn[html], url)
        BY <3>1, <3>2, FetchedLinks DEF Replies
      <3>4. html # NoFile
        BY WebAssumption
      <3>5. TextOn[html] = [title |-> TextOn[html].title, content |-> TextOn[html].content]
        BY ParserAssumption
      <3>6. /\ last'.call = "info" /\ last'.url = url /\ last'.page = html /\ last'.answer.ok = TRUE
            /\ last'.answer.links = Followable(ElementsOn[html], url)
            /\ last'.answer.title = TextOn[html].title /\ last'.answer.content = TextOn[html].content
        BY <3>1, <3>3
      <3>7. \A u \in ReadAt' : LinksOfPage(last'.answer.links, ElementsOn[last'.page], u)
        BY <3>6, ReadAnywhere
      <3> QED
        BY <3>4, <3>5, <3>6, <3>7, Zenon DEF AnswerIsOfItsPage
    <2>4. ASSUME NEW url \in Urls \cup {EmptyUrl}, TakeLinks(url) PROVE AnswerIsOfItsPage'
      <3>1. PICK html \in Replies(Pages) :
               /\ GetLinks(html, url)
               /\ last' = [call |-> "urls", url |-> url, page |-> html,
                           answer |-> [NoAnswer EXCEPT !.links = filtered_url']]
        BY <2>4 DEF TakeLinks, Answered
      <3>2. url \in Urls
        BY <2>4 DEF TakeLinks, Admit
      <3>3. filtered_url' = Followable(ElementsOn[html], url)
        BY <3>1, <3>2, FetchedLinks
      <3>4. /\ last'.call = "urls" /\ last'.url = url /\ last'.page = html /\ last'.answer.ok = FALSE
            /\ last'.answer.links = Followable(ElementsOn[html], url)
            /\ last'.answer.title = <<>> /\ last'.answer.content = <<>>
        BY <3>1, <3>3 DEF NoAnswer
      <3>5. "urls" # "info"
        OBVIOUS
      <3>6. \A u \in ReadAt' : LinksOfPage(last'.answer.links, ElementsOn[last'.page], u)
        BY <3>4, ReadAnywhere
      <3> QED
        BY <3>4, <3>5, <3>6, Zenon DEF AnswerIsOfItsPage
    <2> QED
      BY <1>2, <2>1, <2>2, <2>3, <2>4 DEF FetcherNext, RefuseUrl, MissPage, Answered
  <1> QED
    BY <1>1, <1>2, PTL DEF FetcherSpec

(***************************************************************************)
(* The functions on texts get their inputs, and take one.                  *)
(***************************************************************************)

InputOk ==
    \/ input = [kind |-> "none"]
    \/ \E content \in Contents, qset \in QuerySets :
          input = [kind |-> "snippet", content |-> content, qset |-> qset]
    \/ \E bytes \in ByteStrings : input = [kind |-> "bytes", bytes |-> bytes]
    \/ \E text \in TermTexts : input = [kind |-> "terms", text |-> text]
    \/ \E page \in BaseUrls, elements \in ElementLists :
          input = [kind |-> "links", page |-> page, elements |-> elements]
    \/ \E root \in Trees : input = [kind |-> "tree", root |-> root]

LEMMA InputsOk == TextSpec => []InputOk
  <1>1. TextInit => InputOk
    BY Zenon DEF TextInit, InputOk
  <1>2. InputOk /\ [TextNext]_input => InputOk'
    <2> SUFFICES ASSUME InputOk, [TextNext]_input PROVE InputOk'
      OBVIOUS
    <2>1. CASE UNCHANGED input
      BY <2>1, Zenon DEF InputOk
    <2>2. CASE TextNext
      BY <2>2, Zenon DEF InputOk, TextNext, TakeSnippet, TakeBytes, TakeTerms, TakeElements, TakeTree
    <2> QED
      BY <2>1, <2>2
  <1> QED
    BY <1>1, <1>2, PTL DEF TextSpec

\* The inputs of each kind.
LEMMA InputKinds ==
    ASSUME InputOk
    PROVE  /\ input.kind = "snippet" => input.content \in Contents /\ input.qset \in QuerySets
           /\ input.kind = "bytes" => input.bytes \in ByteStrings
           /\ input.kind = "terms" => input.text \in TermTexts
           /\ input.kind = "links" => input.page \in BaseUrls /\ input.elements \in ElementLists
           /\ input.kind = "tree" => input.root \in Trees
  <1>1. CASE input = [kind |-> "none"]
    BY <1>1
  <1>2. ASSUME NEW content \in Contents, NEW qset \in QuerySets,
               input = [kind |-> "snippet", content |-> content, qset |-> qset]
        PROVE  input.kind = "snippet" /\ input.content \in Contents /\ input.qset \in QuerySets
    BY <1>2
  <1>3. ASSUME NEW bytes \in ByteStrings, input = [kind |-> "bytes", bytes |-> bytes]
        PROVE  input.kind = "bytes" /\ input.bytes \in ByteStrings
    BY <1>3
  <1>4. ASSUME NEW text \in TermTexts, input = [kind |-> "terms", text |-> text]
        PROVE  input.kind = "terms" /\ input.text \in TermTexts
    BY <1>4
  <1>5. ASSUME NEW page \in BaseUrls, NEW elements \in ElementLists,
               input = [kind |-> "links", page |-> page, elements |-> elements]
        PROVE  input.kind = "links" /\ input.page \in BaseUrls /\ input.elements \in ElementLists
    BY <1>5
  <1>6. ASSUME NEW root \in Trees, input = [kind |-> "tree", root |-> root]
        PROVE  input.kind = "tree" /\ input.root \in Trees
    BY <1>6
  <1>7. "snippet" # "bytes" /\ "snippet" # "terms" /\ "snippet" # "links" /\ "snippet" # "tree"
        /\ "bytes" # "terms" /\ "bytes" # "links" /\ "bytes" # "tree"
        /\ "terms" # "links" /\ "terms" # "tree" /\ "links" # "tree"
    OBVIOUS
  <1> QED
    BY <1>1, <1>2, <1>3, <1>4, <1>5, <1>6, <1>7 DEF InputOk

\* get and filtrate keep every useful link that names its scheme or has one leading
\* slash, and whatever they keep leads where a link of the page is meant to: // and
\* relative links may be lost, which URL_getter.cpp:53 and :64 do not say
\* (URL_getter.cpp:49-118, URL_filter.cpp:57-93).
THEOREM LinksAlwaysExact == TextSpec => []LinksExact
  <1>1. InputOk => LinksExact
    <2> SUFFICES ASSUME InputOk, input.kind = "links"
                 PROVE  /\ LinksRight(input.elements, input.page)
                        /\ \A i \in DOMAIN input.elements :
                              ClimbRight(input.elements[i].href, input.page)
      BY DEF LinksExact
    <2>1. input.page \in Absolute /\ input.elements \in Seq(Elements)
      BY InputKinds, InputsAssumption DEF Absolute, Path
    <2>2. input.page \in Path /\ Len(input.page) > 0
      <3>1. input.page \in Path /\ Len(input.page) >= 3
        BY <2>1, Zenon DEF Absolute, IsAbsolute
      <3> QED
        BY <3>1, PathLen
    <2>3. LinksRight(input.elements, input.page)
      BY <2>1, LinksAreRight
    <2>4. ASSUME NEW i \in DOMAIN input.elements
          PROVE  ClimbRight(input.elements[i].href, input.page)
      <3>1. input.elements[i] \in Elements
        BY <2>1, ElementOfSeq, LenProperties
      <3>2. input.elements[i].href \in Path /\ Len(input.elements[i].href) > 0
        BY <3>1, ElementType
      <3> QED
        BY <2>2, <3>2, ClimbIsRight
    <2> QED
      BY <2>3, <2>4
  <1> QED
    BY <1>1, InputsOk, PTL

(***************************************************************************)
(* cleanUTF8.                                                              *)
(***************************************************************************)

\* Induction from the end.
LEMMA DownTo ==
    ASSUME NEW N \in Nat, NEW S, \A i \in 1..N : (\A j \in (i + 1)..N : j \in S) => i \in S
    PROVE  \A i \in 1..N : i \in S
  <1> DEFINE T == {n \in Nat : \A j \in 1..N : N - j < n => j \in S}
  <1>1. 0 \in T
    OBVIOUS
  <1>2. \A n \in Nat : n \in T => n + 1 \in T
    <2> SUFFICES ASSUME NEW n \in Nat, n \in T, NEW j \in 1..N, N - j < n + 1 PROVE j \in S
      OBVIOUS
    <2>1. \A k \in (j + 1)..N : k \in 1..N /\ N - k < n
      OBVIOUS
    <2> QED
      BY <2>1
  <1>3. Nat \subseteq T
    <2> HIDE DEF T
    <2> QED
      BY <1>1, <1>2, NatInd
  <1>4. \A j \in 1..N : N - j < N + 1 /\ N + 1 \in Nat
    OBVIOUS
  <1> QED
    BY <1>3, <1>4

LEMMA WidthType == ASSUME NEW c PROVE Width(c) \in 0..4
  <1>1. CASE c = "0"
    BY <1>1 DEF Width
  <1>2. CASE c = "110"
    BY <1>2 DEF Width
  <1>3. CASE c = "1110"
    BY <1>3 DEF Width
  <1>4. CASE c = "11110"
    BY <1>4 DEF Width
  <1>5. CASE c \notin {"0", "110", "1110", "11110"}
    BY <1>5 DEF Width
  <1> QED
    BY <1>1, <1>2, <1>3, <1>4, <1>5

LEMMA ContinuationLeadsNone == Width("10") = 0
  BY DEF Width

\* A whole sequence starts at i.
WholeFrom(b, i) == Width(b[i]) > 0 /\ Followed(b, i)

\* cleanUTF8 takes one sequence after the other.
LEMMA CleanDef ==
    ASSUME NEW b \in Seq(Bytes)
    PROVE  \E f : /\ f \in [1..(Len(b) + 1) -> Seq(Bytes)] /\ f[Len(b) + 1] = <<>>
                  /\ \A i \in 1..Len(b) : f[i] = (IF Width(b[i]) > 0 /\ Followed(b, i) THEN SubSeq(b, i, i + Width(b[i]) - 1) \o f[i + Width(b[i])] ELSE f[i + 1])
                  /\ cleanUTF8(b) = f[1]
  <1> DEFINE L == Len(b)
             M == L + 1
             V == Seq(Bytes)
             A == <<>>
             G == [i \in 0..M |-> [h \in [(i + 1)..M -> V] |->
                      IF i = 0 \/ i > L THEN A ELSE (IF Width(b[i]) > 0 /\ Followed(b, i) THEN SubSeq(b, i, i + Width(b[i]) - 1) \o h[i + Width(b[i])] ELSE h[i + 1])]]
             Body(f) == [i \in 1..M |-> IF i > L THEN A ELSE (IF Width(b[i]) > 0 /\ Followed(b, i) THEN SubSeq(b, i, i + Width(b[i]) - 1) \o f[i + Width(b[i])] ELSE f[i + 1])]
             from == CHOOSE f : f = Body(f)
  <1>1. L \in Nat
    OBVIOUS
  <1>2. A \in V
    OBVIOUS
  <1>3. \A i \in 1..L : i + 1 \in (i + 1)..M /\ (Width(b[i]) > 0 /\ Followed(b, i) => i + Width(b[i]) \in (i + 1)..M)
    <2> TAKE i \in 1..L
    <2>1. Width(b[i]) \in 0..4 /\ L \in Nat
      BY WidthType
    <2>2. Followed(b, i) => i + Width(b[i]) - 1 <= L
      BY DEF Followed
    <2> QED
      BY <2>1, <2>2
  <1>4. ASSUME NEW i \in 1..L, NEW g, \A j \in (i + 1)..M : g[j] \in V PROVE (IF Width(b[i]) > 0 /\ Followed(b, i) THEN SubSeq(b, i, i + Width(b[i]) - 1) \o g[i + Width(b[i])] ELSE g[i + 1]) \in V
    <2> DEFINE w == Width(b[i])
    <2>1. w \in 0..4 /\ L \in Nat
      BY WidthType
    <2>2. CASE w > 0 /\ Followed(b, i)
      <3>1. i + w \in (i + 1)..M /\ i + w - 1 <= L
        BY <1>3, <2>1, <2>2 DEF Followed
      <3>2. \A j \in i..(i + w - 1) : b[j] \in Bytes
        BY <2>1, <3>1, ElementOfSeq
      <3>3. SubSeq(b, i, i + w - 1) \in Seq(Bytes)
        <4>1. i \in Int /\ i + w - 1 \in Int
          BY <2>1
        <4> HIDE DEF w
        <4> QED
          BY <3>2, <4>1, SubSeqProperties
      <3>4. g[i + w] \in Seq(Bytes)
        BY <1>4, <3>1
      <3> QED
        BY <2>2, <3>3, <3>4, ConcatProperties
    <2>3. CASE ~(w > 0 /\ Followed(b, i))
      <3>1. g[i + 1] \in Seq(Bytes)
        BY <1>3, <1>4
      <3> QED
        BY <2>3, <3>1
    <2> QED
      BY <2>2, <2>3
  <1>5. cleanUTF8(b) = from[1]
    BY DEF cleanUTF8
  <1> HIDE DEF V, A, L
  <1>6. \A i \in 0..M : \A h \in [(i + 1)..M -> V] :
           /\ G[i][h] = IF i = 0 \/ i > L THEN A ELSE (IF Width(b[i]) > 0 /\ Followed(b, i) THEN SubSeq(b, i, i + Width(b[i]) - 1) \o h[i + Width(b[i])] ELSE h[i + 1])
           /\ G[i][h] \in V
    <2> TAKE i \in 0..M
    <2> TAKE h \in [(i + 1)..M -> V]
    <2>1. G[i][h] = IF i = 0 \/ i > L THEN A ELSE (IF Width(b[i]) > 0 /\ Followed(b, i) THEN SubSeq(b, i, i + Width(b[i]) - 1) \o h[i + Width(b[i])] ELSE h[i + 1])
      OBVIOUS
    <2>2. CASE i = 0 \/ i > L
      BY <1>2, <2>1, <2>2
    <2>3. CASE ~(i = 0 \/ i > L)
      <3>1. i \in 1..L
        BY <1>1, <2>3
      <3>2. (IF Width(b[i]) > 0 /\ Followed(b, i) THEN SubSeq(b, i, i + Width(b[i]) - 1) \o h[i + Width(b[i])] ELSE h[i + 1]) \in V
        BY <1>4, <3>1
      <3> QED
        BY <2>1, <2>3, <3>2
    <2> QED
      BY <2>1, <2>2, <2>3
  <1> HIDE DEF G
  <1>7. M \in Nat
    BY <1>1
  <1> HIDE DEF M
  <1>8. PICK p \in [0..M -> V] : LookAhead(p, G, M)
    BY <1>6, <1>7, LookAheadExists
  <1> DEFINE f == [i \in 1..M |-> p[i]]
  <1>9. f = Body(f)
    <2>1. ASSUME NEW i \in 1..M PROVE f[i] = Body(f)[i]
      <3> DEFINE h == [j \in (i + 1)..M |-> p[j]]
      <3>1. h \in [(i + 1)..M -> V] /\ i \in 0..M /\ i # 0
        BY <1>1 DEF M
      <3>2. f[i] = G[i][h]
        BY <1>8, <3>1 DEF LookAhead
      <3>3. \A j \in (i + 1)..M : h[j] = f[j]
        BY <1>1 DEF M
      <3>4. f[i] = IF i > L THEN A ELSE (IF Width(b[i]) > 0 /\ Followed(b, i) THEN SubSeq(b, i, i + Width(b[i]) - 1) \o h[i + Width(b[i])] ELSE h[i + 1])
        BY <1>6, <3>1, <3>2
      <3> HIDE DEF h, f
      <3>5. CASE i > L
        BY <3>4, <3>5
      <3>6. CASE ~(i > L)
        <4>1. i \in 1..L
          BY <1>1, <3>6 DEF M
        <4>2. (IF Width(b[i]) > 0 /\ Followed(b, i) THEN SubSeq(b, i, i + Width(b[i]) - 1) \o h[i + Width(b[i])] ELSE h[i + 1]) = (IF Width(b[i]) > 0 /\ Followed(b, i) THEN SubSeq(b, i, i + Width(b[i]) - 1) \o f[i + Width(b[i])] ELSE f[i + 1])
          BY <1>3, <3>3, <4>1
        <4> QED
          BY <3>4, <3>6, <4>2
      <3> QED
        BY <3>5, <3>6
    <2> QED
      BY <2>1
  <1>10. from = Body(from)
    <2> HIDE DEF f
    <2> QED
      BY <1>9
  <1> HIDE DEF from
  <1>11. /\ from[M] = A /\ \A i \in 1..L : from[i] = (IF Width(b[i]) > 0 /\ Followed(b, i) THEN SubSeq(b, i, i + Width(b[i]) - 1) \o from[i + Width(b[i])] ELSE from[i + 1])
    <2>1. \A i \in 1..M : from[i] = Body(from)[i]
      BY <1>10
    <2>2. M \in 1..M /\ M > L /\ \A i \in 1..L : i \in 1..M /\ ~(i > L)
      BY <1>1 DEF M
    <2> QED
      BY <2>1, <2>2
  <1>12. \A i \in 1..M : from[i] \in V
    <2> DEFINE S == {i \in 1..M : from[i] \in V}
    <2>1. ASSUME NEW i \in 1..M, \A j \in (i + 1)..M : j \in S PROVE i \in S
      <3>1. i = M \/ i \in 1..L
        BY <1>1 DEF M
      <3>2. \A j \in (i + 1)..M : from[j] \in V
        BY <2>1
      <3>3. i \in 1..L => (IF Width(b[i]) > 0 /\ Followed(b, i) THEN SubSeq(b, i, i + Width(b[i]) - 1) \o from[i + Width(b[i])] ELSE from[i + 1]) \in V
        BY <1>4, <3>2
      <3> QED
        BY <1>2, <1>11, <3>1, <3>3
    <2> HIDE DEF S
    <2>2. \A i \in 1..M : i \in S
      BY <1>7, <2>1, DownTo
    <2> QED
      BY <2>2 DEF S
  <1>13. from \in [1..M -> V]
    BY <1>10, <1>12
  <1> QED
    BY <1>5, <1>11, <1>13 DEF L, M, V, A

\* f[i] is what is kept of b from i on.
KeptFrom(b, places, f) ==
    /\ f \in [1..(Len(b) + 1) -> Seq(Bytes)] /\ f[Len(b) + 1] = <<>>
    /\ \A i \in 1..Len(b) : f[i] = (IF i \in places THEN <<b[i]>> \o f[i + 1] ELSE f[i + 1])
    /\ BytesAt(b, places) = f[1]

\* BytesAt takes one byte after the other.
LEMMA KeptDef ==
    ASSUME NEW b \in Seq(Bytes), NEW places
    PROVE  \E f : KeptFrom(b, places, f)
  <1> DEFINE L == Len(b)
             M == L + 1
             V == Seq(Bytes)
             A == <<>>
             G == [i \in 0..M |-> [h \in [(i + 1)..M -> V] |->
                      IF i = 0 \/ i > L THEN A ELSE (IF i \in places THEN <<b[i]>> \o h[i + 1] ELSE h[i + 1])]]
             Body(f) == [i \in 1..M |-> IF i > L THEN A ELSE (IF i \in places THEN <<b[i]>> \o f[i + 1] ELSE f[i + 1])]
             from == CHOOSE f : f = Body(f)
  <1>1. L \in Nat
    OBVIOUS
  <1>2. A \in V
    OBVIOUS
  <1>3. \A i \in 1..L : i + 1 \in (i + 1)..M 
    OBVIOUS
  <1>4. ASSUME NEW i \in 1..L, NEW g, \A j \in (i + 1)..M : g[j] \in V PROVE (IF i \in places THEN <<b[i]>> \o g[i + 1] ELSE g[i + 1]) \in V
    <2>1. b[i] \in Bytes /\ g[i + 1] \in Seq(Bytes)
      BY <1>3, <1>4, ElementOfSeq
    <2>2. <<b[i]>> \in Seq(Bytes)
      BY <2>1
    <2> QED
      BY <2>1, <2>2, ConcatProperties
  <1>5. BytesAt(b, places) = from[1]
    BY DEF BytesAt
  <1> HIDE DEF V, A, L
  <1>6. \A i \in 0..M : \A h \in [(i + 1)..M -> V] :
           /\ G[i][h] = IF i = 0 \/ i > L THEN A ELSE (IF i \in places THEN <<b[i]>> \o h[i + 1] ELSE h[i + 1])
           /\ G[i][h] \in V
    <2> TAKE i \in 0..M
    <2> TAKE h \in [(i + 1)..M -> V]
    <2>1. G[i][h] = IF i = 0 \/ i > L THEN A ELSE (IF i \in places THEN <<b[i]>> \o h[i + 1] ELSE h[i + 1])
      OBVIOUS
    <2>2. CASE i = 0 \/ i > L
      BY <1>2, <2>1, <2>2
    <2>3. CASE ~(i = 0 \/ i > L)
      <3>1. i \in 1..L
        BY <1>1, <2>3
      <3>2. (IF i \in places THEN <<b[i]>> \o h[i + 1] ELSE h[i + 1]) \in V
        BY <1>4, <3>1
      <3> QED
        BY <2>1, <2>3, <3>2
    <2> QED
      BY <2>1, <2>2, <2>3
  <1> HIDE DEF G
  <1>7. M \in Nat
    BY <1>1
  <1> HIDE DEF M
  <1>8. PICK p \in [0..M -> V] : LookAhead(p, G, M)
    BY <1>6, <1>7, LookAheadExists
  <1> DEFINE f == [i \in 1..M |-> p[i]]
  <1>9. f = Body(f)
    <2>1. ASSUME NEW i \in 1..M PROVE f[i] = Body(f)[i]
      <3> DEFINE h == [j \in (i + 1)..M |-> p[j]]
      <3>1. h \in [(i + 1)..M -> V] /\ i \in 0..M /\ i # 0
        BY <1>1 DEF M
      <3>2. f[i] = G[i][h]
        BY <1>8, <3>1 DEF LookAhead
      <3>3. \A j \in (i + 1)..M : h[j] = f[j]
        BY <1>1 DEF M
      <3>4. f[i] = IF i > L THEN A ELSE (IF i \in places THEN <<b[i]>> \o h[i + 1] ELSE h[i + 1])
        BY <1>6, <3>1, <3>2
      <3> HIDE DEF h, f
      <3>5. CASE i > L
        BY <3>4, <3>5
      <3>6. CASE ~(i > L)
        <4>1. i \in 1..L
          BY <1>1, <3>6 DEF M
        <4>2. (IF i \in places THEN <<b[i]>> \o h[i + 1] ELSE h[i + 1]) = (IF i \in places THEN <<b[i]>> \o f[i + 1] ELSE f[i + 1])
          BY <1>3, <3>3, <4>1
        <4> QED
          BY <3>4, <3>6, <4>2
      <3> QED
        BY <3>5, <3>6
    <2> QED
      BY <2>1
  <1>10. from = Body(from)
    <2> HIDE DEF f
    <2> QED
      BY <1>9
  <1> HIDE DEF from
  <1>11. /\ from[M] = A /\ \A i \in 1..L : from[i] = (IF i \in places THEN <<b[i]>> \o from[i + 1] ELSE from[i + 1])
    <2>1. \A i \in 1..M : from[i] = Body(from)[i]
      BY <1>10
    <2>2. M \in 1..M /\ M > L /\ \A i \in 1..L : i \in 1..M /\ ~(i > L)
      BY <1>1 DEF M
    <2> QED
      BY <2>1, <2>2
  <1>12. \A i \in 1..M : from[i] \in V
    <2> DEFINE S == {i \in 1..M : from[i] \in V}
    <2>1. ASSUME NEW i \in 1..M, \A j \in (i + 1)..M : j \in S PROVE i \in S
      <3>1. i = M \/ i \in 1..L
        BY <1>1 DEF M
      <3>2. \A j \in (i + 1)..M : from[j] \in V
        BY <2>1
      <3>3. i \in 1..L => (IF i \in places THEN <<b[i]>> \o from[i + 1] ELSE from[i + 1]) \in V
        BY <1>4, <3>2
      <3> QED
        BY <1>2, <1>11, <3>1, <3>3
    <2> HIDE DEF S
    <2>2. \A i \in 1..M : i \in S
      BY <1>7, <2>1, DownTo
    <2> QED
      BY <2>2 DEF S
  <1>13. from \in [1..M -> V]
    BY <1>10, <1>12
  <1>14. KeptFrom(b, places, from)
    BY <1>5, <1>11, <1>13 DEF KeptFrom, L, M, V, A
  <1> QED
    BY <1>14

LEMMA WholeIs ==
    ASSUME NEW b \in Seq(Bytes), NEW j
    PROVE  j \in Whole(b) <=> \E k \in 1..Len(b) : WholeFrom(b, k) /\ j \in k..(k + Width(b[k]) - 1)
  <1>1. DOMAIN b = 1..Len(b)
    OBVIOUS
  <1> QED
    BY <1>1, Zenon DEF Whole, WholeFrom, Followed

LEMMA WholeInside == ASSUME NEW b \in Seq(Bytes) PROVE Whole(b) \subseteq 1..Len(b)
  <1> SUFFICES ASSUME NEW j \in Whole(b) PROVE j \in 1..Len(b)
    OBVIOUS
  <1>1. PICK k \in 1..Len(b) : WholeFrom(b, k) /\ j \in k..(k + Width(b[k]) - 1)
    BY WholeIs
  <1>2. Width(b[k]) \in 0..4 /\ k + Width(b[k]) - 1 <= Len(b)
    BY <1>1, WidthType DEF WholeFrom, Followed
  <1> QED
    BY <1>1, <1>2

LEMMA Associates ==
    ASSUME NEW R, NEW s \in Seq(R), NEW t \in Seq(R), NEW u \in Seq(R)
    PROVE  s \o (t \o u) = (s \o t) \o u
  <1>1. (s \o t) \o u = s \o (t \o u)
    BY ConcatAssociative
  <1> QED
    BY <1>1

LEMMA OneLonger ==
    ASSUME NEW b \in Seq(Bytes), NEW i \in 1..Len(b), NEW n \in Nat, i + n <= Len(b)
    PROVE  /\ SubSeq(b, i, i + n) = SubSeq(b, i, i + n - 1) \o <<b[i + n]>>
           /\ SubSeq(b, i, i + n - 1) \in Seq(Bytes) /\ <<b[i + n]>> \in Seq(Bytes)
  <1>1. b[i + n] \in Bytes /\ i + n \in 1..Len(b)
    BY ElementOfSeq
  <1>2. <<b[i + n]>> \in Seq(Bytes) /\ Len(<<b[i + n]>>) = 1 /\ <<b[i + n]>>[1] = b[i + n]
    BY <1>1
  <1>3. i \in Nat \ {0} /\ i + n \in Nat /\ i + n - 1 \in Nat /\ i <= i + n + 1 /\ i <= (i + n - 1) + 1
        /\ i + n - 1 <= Len(b) /\ (i + n) - i + 1 = n + 1 /\ (i + n - 1) - i + 1 = n
    OBVIOUS
  <1> DEFINE s == SubSeq(b, i, i + n)
             t == SubSeq(b, i, i + n - 1)
             e == <<b[i + n]>>
  <1>4. s \in Seq(Bytes) /\ Len(s) = n + 1 /\ \A k \in 1..(n + 1) : s[k] = b[i + k - 1]
    BY <1>3, PieceSeq
  <1>5. t \in Seq(Bytes) /\ Len(t) = n /\ \A k \in 1..n : t[k] = b[i + k - 1]
    BY <1>3, PieceSeq
  <1> HIDE DEF s, t, e
  <1>6. e \in Seq(Bytes) /\ Len(e) = 1 /\ e[1] = b[i + n]
    BY <1>2 DEF e
  <1>7. /\ t \o e \in Seq(Bytes) /\ Len(t \o e) = n + 1
        /\ \A k \in 1..n : (t \o e)[k] = t[k]
        /\ (t \o e)[n + 1] = b[i + n]
    <2>1. /\ t \o e \in Seq(Bytes) /\ Len(t \o e) = Len(t) + Len(e)
          /\ \A k \in 1..Len(t) : (t \o e)[k] = t[k]
          /\ \A k \in 1..Len(e) : (t \o e)[Len(t) + k] = e[k]
      <3>1. t \in Seq(Bytes) /\ e \in Seq(Bytes)
        BY <1>5, <1>6
      <3> QED
        BY <3>1, ConcatBegins
    <2>2. 1 \in 1..Len(e)
      BY <1>6
    <2>3. (t \o e)[Len(t) + 1] = e[1]
      BY <2>1, <2>2
    <2> QED
      BY <1>5, <1>6, <2>1, <2>3
  <1>8. ASSUME NEW k \in 1..(n + 1) PROVE s[k] = (t \o e)[k]
    <2>1. s[k] = b[i + k - 1]
      BY <1>4
    <2>2. CASE k \in 1..n
      BY <1>5, <1>7, <2>1, <2>2
    <2>3. CASE k = n + 1
      <3>1. i + k - 1 = i + n
        BY <1>3, <2>3
      <3>2. s[k] = b[i + n]
        BY <2>1, <3>1
      <3> QED
        BY <1>7, <2>3, <3>2
    <2>4. k \in 1..n \/ k = n + 1
      OBVIOUS
    <2> QED
      BY <2>2, <2>3, <2>4
  <1>9. s = t \o e
    <2> DEFINE x == t \o e
    <2>1. /\ s \in Seq(Bytes) /\ x \in Seq(Bytes) /\ Len(s) = Len(x)
          /\ \A k \in 1..Len(s) : s[k] = x[k]
      BY <1>4, <1>7, <1>8
    <2> HIDE DEF x
    <2>2. s = x
      BY <2>1, SeqEqual
    <2> QED
      BY <2>2 DEF x
  <1> QED
    BY <1>5, <1>6, <1>9 DEF s, t, e

Associate(p, q, r) == p \o (q \o r) = (p \o q) \o r

LEMMA BytesAssociate ==
    ASSUME NEW p \in Seq(Bytes), NEW q \in Seq(Bytes), NEW r \in Seq(Bytes)
    PROVE  Associate(p, q, r)
  BY Associates DEF Associate

\* f[i] is what is kept of b from i on, and a run of places that are all kept is
\* copied.
KeptBy(b, places, f) ==
    /\ f \in [1..(Len(b) + 1) -> Seq(Bytes)] /\ f[Len(b) + 1] = <<>>
    /\ \A i \in 1..Len(b) : f[i] = (IF i \in places THEN <<b[i]>> \o f[i + 1] ELSE f[i + 1])
    /\ \A i \in 1..Len(b), m \in Nat :
          i + m - 1 <= Len(b) /\ i..(i + m - 1) \subseteq places
          => f[i] = SubSeq(b, i, i + m - 1) \o f[i + m]
    /\ BytesAt(b, places) = f[1]

LEMMA KeptRuns == ASSUME NEW b \in Seq(Bytes), NEW places PROVE \E f : KeptBy(b, places, f)
  <1>4. PICK f : KeptFrom(b, places, f)
    BY KeptDef
  <1>1. /\ f \in [1..(Len(b) + 1) -> Seq(Bytes)] /\ f[Len(b) + 1] = <<>>
        /\ \A i \in 1..Len(b) : f[i] = (IF i \in places THEN <<b[i]>> \o f[i + 1] ELSE f[i + 1])
        /\ BytesAt(b, places) = f[1]
    BY <1>4 DEF KeptFrom
  <1>2. ASSUME NEW i \in 1..Len(b), NEW m \in Nat,
               i + m - 1 <= Len(b) /\ i..(i + m - 1) \subseteq places
        PROVE  f[i] = SubSeq(b, i, i + m - 1) \o f[i + m]
    <2> DEFINE Good == {n \in 0..m : f[i] = SubSeq(b, i, i + n - 1) \o f[i + n]}
    <2>1. 0 \in Good
      <3>1. SubSeq(b, i, i + 0 - 1) = <<>>
        <4>1. i + 0 - 1 < i /\ i \in Int /\ i + 0 - 1 \in Int
          OBVIOUS
        <4> QED
          BY <4>1, SubSeqEmpty
      <3>2. f[i] \in Seq(Bytes) /\ i + 0 = i
        <4>1. i \in 1..(Len(b) + 1)
          OBVIOUS
        <4> QED
          BY <1>1, <4>1
      <3>3. f[i] = <<>> \o f[i]
        BY <3>2, ConcatEmptySeq
      <3> QED
        BY <3>1, <3>2, <3>3
    <2>2. ASSUME NEW n \in 0..(m - 1), n \in Good PROVE n + 1 \in Good
      <3>1. i + n \in 1..Len(b) /\ i + n \in places /\ i + n + 1 \in 1..(Len(b) + 1)
        BY <1>2
      <3>2. f[i + n] = <<b[i + n]>> \o f[i + n + 1] /\ f[i + n + 1] \in Seq(Bytes)
        BY <1>1, <3>1
      <3> DEFINE t == SubSeq(b, i, i + n - 1)
                 e == <<b[i + n]>>
                 u == f[i + n + 1]
      <3>3. SubSeq(b, i, i + n) = t \o e /\ t \in Seq(Bytes) /\ e \in Seq(Bytes)
        <4>1. n \in Nat /\ i + n <= Len(b)
          BY <3>1
        <4> QED
          BY <4>1, OneLonger
      <3>4. f[i] = t \o f[i + n]
        BY <2>2
      <3> HIDE DEF t, e, u
      <3>5. t \o (e \o u) = (t \o e) \o u
        <4>1. t \in Seq(Bytes) /\ e \in Seq(Bytes) /\ u \in Seq(Bytes)
          BY <3>2, <3>3 DEF u
        <4>2. Associate(t, e, u)
          BY <4>1, BytesAssociate
        <4> QED
          BY <4>2 DEF Associate
      <3>6. f[i] = SubSeq(b, i, i + n) \o f[i + n + 1]
        BY <3>2, <3>3, <3>4, <3>5 DEF e, u
      <3>7. i + (n + 1) - 1 = i + n /\ i + (n + 1) = i + n + 1 /\ n + 1 \in 0..m
        OBVIOUS
      <3> QED
        BY <3>6, <3>7
    <2>3. m \in 0..m
      OBVIOUS
    <2> HIDE DEF Good
    <2>4. \A n \in 0..m : n \in Good
      BY <2>1, <2>2, UpTo
    <2> QED
      BY <2>3, <2>4 DEF Good
  <1>3. \A i \in 1..Len(b), m \in Nat :
           i + m - 1 <= Len(b) /\ i..(i + m - 1) \subseteq places
           => f[i] = SubSeq(b, i, i + m - 1) \o f[i + m]
    BY <1>2, Zenon
  <1> QED
    BY <1>1, <1>3 DEF KeptBy

LEMMA JoinBytes ==
    ASSUME NEW p \in Seq(Bytes), NEW s \in Seq(Bytes)
    PROVE  /\ p \o s \in Seq(Bytes) /\ Len(p \o s) = Len(p) + Len(s)
           /\ \A k \in 1..Len(p) : (p \o s)[k] = p[k]
           /\ \A k \in 1..Len(s) : (p \o s)[Len(p) + k] = s[k]
  BY ConcatBegins

LEMMA PlacesMoved ==
    ASSUME NEW w \in Nat, NEW k \in Nat, NEW d \in Nat, NEW n \in Nat, 0 < k, k + d - 1 <= n
    PROVE  /\ \A i \in (w + k + 1)..(w + k + d - 1) :
                 i - w \in (k + 1)..(k + d - 1) /\ i - w \in 1..n /\ w + (i - w) = i
           /\ \A j \in Nat : j - w \in k..(k + d - 1) => j \in (w + k)..(w + k + d - 1)
  OBVIOUS

\* A whole sequence before a text without any other byte.
LEMMA WholeJoins ==
    ASSUME NEW p \in Seq(Bytes), NEW s \in Seq(Bytes), Len(p) > 0, Len(p) = Width(p[1]),
           \A k \in 2..Len(p) : p[k] = "10", Whole(s) = DOMAIN s
    PROVE  Whole(p \o s) = DOMAIN (p \o s)
  <1> DEFINE a == p \o s
             w == Len(p)
  <1>1. /\ a \in Seq(Bytes) /\ Len(a) = w + Len(s)
        /\ \A k \in 1..w : a[k] = p[k]
        /\ \A k \in 1..Len(s) : a[w + k] = s[k]
    BY JoinBytes
  <1>2. w \in 1..4 /\ Len(s) \in Nat
    BY WidthType
  <1>3. w = Width(p[1])
    OBVIOUS
  <1> HIDE DEF a, w
  <1>4. Whole(a) \subseteq 1..Len(a)
    BY <1>1, WholeInside
  <1>5. ASSUME NEW j \in 1..Len(a) PROVE j \in Whole(a)
    <2>1. CASE j <= w
      <3>1. 1 \in 1..Len(a) /\ 1 \in 1..w
        BY <1>1, <1>2
      <3>2. Width(a[1]) = w
        BY <1>1, <1>3, <3>1
      <3>3. \A k \in 2..w : a[k] = "10"
        <4> TAKE k \in 2..w
        <4>1. k \in 1..w
          BY <1>2
        <4>2. a[k] = p[k] /\ p[k] = "10"
          BY <1>1, <4>1 DEF w
        <4> QED
          BY <4>2
      <3>4. WholeFrom(a, 1)
        <4>1. 1 + Width(a[1]) - 1 <= Len(a) /\ Width(a[1]) > 0
          BY <1>1, <1>2, <3>2
        <4>2. (1 + 1)..(1 + Width(a[1]) - 1) = 2..w
          BY <1>2, <3>2
        <4>3. \A k \in (1 + 1)..(1 + Width(a[1]) - 1) : a[k] = "10"
          BY <3>3, <4>2
        <4> QED
          BY <4>1, <4>3 DEF WholeFrom, Followed
      <3>5. j \in 1..(1 + Width(a[1]) - 1)
        BY <1>2, <2>1, <3>2
      <3> QED
        BY <1>1, <3>1, <3>4, <3>5, WholeIs
    <2>2. CASE j > w
      <3>1. j - w \in 1..Len(s)
        BY <1>1, <1>2, <2>2
      <3>2. j - w \in Whole(s)
        BY <3>1
      <3>3. PICK k \in 1..Len(s) : WholeFrom(s, k) /\ j - w \in k..(k + Width(s[k]) - 1)
        BY <3>2, WholeIs
      <3>4. w + k \in 1..Len(a) /\ a[w + k] = s[k]
        BY <1>1, <1>2
      <3>5. Width(s[k]) \in 0..4 /\ Width(s[k]) > 0 /\ k + Width(s[k]) - 1 <= Len(s)
        BY <3>3, WidthType DEF WholeFrom, Followed
      <3> DEFINE d == Width(s[k])
      <3>9. w \in Nat /\ k \in Nat /\ d \in Nat /\ Len(s) \in Nat /\ 0 < k /\ k + d - 1 <= Len(s)
        BY <1>2, <3>5
      <3>6. ASSUME NEW i \in (w + k + 1)..(w + k + Width(s[k]) - 1) PROVE a[i] = "10"
        <4>1. i - w \in (k + 1)..(k + Width(s[k]) - 1) /\ i - w \in 1..Len(s) /\ w + (i - w) = i
          <5> HIDE DEF d
          <5>1. i \in (w + k + 1)..(w + k + d - 1)
            BY DEF d
          <5>2. i - w \in (k + 1)..(k + d - 1) /\ i - w \in 1..Len(s) /\ w + (i - w) = i
            BY <3>9, <5>1, PlacesMoved
          <5> QED
            BY <5>2 DEF d
        <4>2. s[i - w] = "10"
          BY <3>3, <4>1 DEF WholeFrom, Followed
        <4> QED
          BY <1>1, <4>1, <4>2
      <3>7. WholeFrom(a, w + k)
        <4>1. Width(a[w + k]) > 0 /\ w + k + Width(a[w + k]) - 1 <= Len(a)
          BY <1>1, <1>2, <3>4, <3>5
        <4>2. \A i \in (w + k + 1)..(w + k + Width(a[w + k]) - 1) : a[i] = "10"
          BY <3>4, <3>6
        <4> QED
          BY <4>1, <4>2 DEF WholeFrom, Followed
      <3>8. j \in (w + k)..(w + k + Width(a[w + k]) - 1)
        <4>1. j \in Nat /\ j - w \in k..(k + d - 1)
          BY <1>1, <3>3
        <4> HIDE DEF d
        <4>2. j \in (w + k)..(w + k + d - 1)
          BY <3>9, <4>1, PlacesMoved
        <4> QED
          BY <3>4, <4>2 DEF d
      <3> QED
        BY <1>1, <3>4, <3>7, <3>8, WholeIs
    <2> QED
      BY <1>1, <1>2, <2>1, <2>2
  <1>6. DOMAIN a = 1..Len(a)
    BY <1>1
  <1>7. Whole(a) = DOMAIN a
    BY <1>4, <1>5, <1>6
  <1> QED
    BY <1>7 DEF a

LEMMA CleanIsRight == ASSUME NEW b \in Seq(Bytes) PROVE CleanRight(b)
  <1> DEFINE L == Len(b)
             M == L + 1
             places == Whole(b)
  <1>1. PICK f \in [1..M -> Seq(Bytes)] :
           /\ f[M] = <<>>
           /\ \A i \in 1..L : f[i] = (IF WholeFrom(b, i)
                                      THEN SubSeq(b, i, i + Width(b[i]) - 1) \o f[i + Width(b[i])]
                                      ELSE f[i + 1])
           /\ cleanUTF8(b) = f[1]
    BY CleanDef, Zenon DEF WholeFrom
  <1>2. PICK g : KeptBy(b, places, g)
    BY KeptRuns
  <1>10. /\ g \in [1..M -> Seq(Bytes)] /\ g[M] = <<>>
         /\ \A i \in 1..L : g[i] = (IF i \in places THEN <<b[i]>> \o g[i + 1] ELSE g[i + 1])
         /\ \A i \in 1..L, m \in Nat :
               i + m - 1 <= L /\ i..(i + m - 1) \subseteq places
               => g[i] = SubSeq(b, i, i + m - 1) \o g[i + m]
         /\ BytesAt(b, places) = g[1]
    BY <1>2 DEF KeptBy
  <1>3. L \in Nat /\ M \in Nat /\ \A i \in 1..L : i \in 1..M /\ i + 1 \in 1..M
    OBVIOUS
  <1>4. \A i \in 1..L : WholeFrom(b, i) =>
           /\ Width(b[i]) \in 1..4 /\ i + Width(b[i]) - 1 <= L /\ i + Width(b[i]) \in (i + 1)..M
           /\ \A k \in (i + 1)..(i + Width(b[i]) - 1) : ~WholeFrom(b, k)
    <2> SUFFICES ASSUME NEW i \in 1..L, WholeFrom(b, i)
                 PROVE  /\ Width(b[i]) \in 1..4 /\ i + Width(b[i]) - 1 <= L
                        /\ i + Width(b[i]) \in (i + 1)..M
                        /\ \A k \in (i + 1)..(i + Width(b[i]) - 1) : ~WholeFrom(b, k)
      OBVIOUS
    <2>1. Width(b[i]) \in 0..4 /\ Width(b[i]) > 0 /\ i + Width(b[i]) - 1 <= L
      BY WidthType DEF WholeFrom, Followed
    <2>2. \A k \in (i + 1)..(i + Width(b[i]) - 1) : b[k] = "10"
      BY DEF WholeFrom, Followed
    <2>3. \A k : b[k] = "10" => ~WholeFrom(b, k)
      BY ContinuationLeadsNone DEF WholeFrom
    <2> QED
      BY <1>3, <2>1, <2>2, <2>3
  <1>5. \A j \in 1..L : j \in places <=> \E k \in 1..L : WholeFrom(b, k) /\ j \in k..(k + Width(b[k]) - 1)
    BY WholeIs
  <1> HIDE DEF L, M, places
  <1> DEFINE Clear(i) == \A k \in 1..L : k < i /\ WholeFrom(b, k) => k + Width(b[k]) - 1 < i
             Good == {i \in 1..M : /\ Clear(i) => f[i] = g[i]
                                   /\ Whole(f[i]) = DOMAIN f[i]}
  <1>6. ASSUME NEW i \in 1..M, \A j \in (i + 1)..M : j \in Good PROVE i \in Good
    <2>1. CASE i = M
      <3>1. Whole(<<>>) = {} /\ DOMAIN <<>> = {}
        BY DEF Whole
      <3> QED
        BY <1>1, <1>10, <2>1, <3>1
    <2>2. CASE i \in 1..L /\ WholeFrom(b, i)
      <3> DEFINE w == Width(b[i])
                 p == SubSeq(b, i, i + w - 1)
      <3>1. w \in 1..4 /\ i + w - 1 <= L /\ i + w \in (i + 1)..M
        BY <1>4, <2>2
      <3>2. f[i] = p \o f[i + w]
        BY <1>1, <2>2
      <3>3. i + w \in Good
        BY <1>6, <3>1
      <3>4. ASSUME Clear(i) PROVE f[i] = g[i]
        <4>1. Clear(i + w)
          <5> SUFFICES ASSUME NEW k \in 1..L, k < i + w, WholeFrom(b, k)
                       PROVE  k + Width(b[k]) - 1 < i + w
            OBVIOUS
          <5>1. CASE k < i
            <6>1. k + Width(b[k]) - 1 < i /\ Width(b[k]) \in 1..4
              BY <1>4, <3>4, <5>1
            <6> QED
              BY <3>1, <6>1
          <5>2. CASE k = i
            BY <3>1, <5>2
          <5>3. CASE k > i
            <6>1. k \in (i + 1)..(i + w - 1)
              BY <3>1, <5>3
            <6> QED
              BY <1>4, <2>2, <6>1
          <5> QED
            BY <5>1, <5>2, <5>3
        <4>2. f[i + w] = g[i + w]
          BY <3>3, <4>1
        <4>3. i..(i + w - 1) \subseteq places
          <5> SUFFICES ASSUME NEW j \in i..(i + w - 1) PROVE j \in places
            OBVIOUS
          <5>1. j \in 1..L
            <6>1. w \in Int
              BY <3>1
            <6> HIDE DEF w
            <6> QED
              BY <1>3, <2>2, <3>1, <6>1
          <5> QED
            BY <1>5, <2>2, <5>1
        <4>4. g[i] = p \o g[i + w]
          <5>1. w \in Nat /\ i + w - 1 <= L
            BY <3>1
          <5> HIDE DEF w
          <5> QED
            BY <1>10, <2>2, <4>3, <5>1
        <4> QED
          BY <3>2, <4>2, <4>4
      <3>5. Whole(f[i]) = DOMAIN f[i]
        <4>1. /\ p \in Seq(Bytes) /\ Len(p) = w
              /\ \A k \in 1..w : p[k] = b[i + k - 1]
          <5>1. i \in Nat \ {0} /\ i + w - 1 \in Nat /\ i <= (i + w - 1) + 1 /\ i + w - 1 <= Len(b)
                /\ (i + w - 1) - i + 1 = w
            <6>1. i \in 1..Len(b) /\ w \in 1..4 /\ i + w - 1 <= Len(b)
              BY <2>2, <3>1 DEF L
            <6> HIDE DEF w
            <6> QED
              BY <6>1
          <5> HIDE DEF w
          <5> QED
            BY <5>1, PieceSeq
        <4> HIDE DEF p
        <4>2. 1 \in 1..w /\ i + 1 - 1 = i
          BY <2>2, <3>1
        <4>3. p[1] = b[i]
          BY <4>1, <4>2
        <4>4. Len(p) > 0 /\ Len(p) = Width(p[1])
          BY <3>1, <4>1, <4>3
        <4>5. \A k \in 2..Len(p) : p[k] = "10"
          <5> TAKE k \in 2..Len(p)
          <5>1. k \in 1..w /\ i + k - 1 \in (i + 1)..(i + w - 1)
            BY <2>2, <3>1, <4>1
          <5>2. b[i + k - 1] = "10"
            BY <2>2, <5>1 DEF WholeFrom, Followed
          <5> QED
            BY <4>1, <5>1, <5>2
        <4>6. f[i + w] \in Seq(Bytes) /\ Whole(f[i + w]) = DOMAIN f[i + w]
          BY <3>1, <3>3
        <4>7. Whole(p \o f[i + w]) = DOMAIN (p \o f[i + w])
          <5> HIDE DEF w
          <5> QED
            BY <4>1, <4>4, <4>5, <4>6, WholeJoins
        <4> QED
          BY <3>2, <4>7
      <3> QED
        BY <3>4, <3>5
    <2>3. CASE i \in 1..L /\ ~WholeFrom(b, i)
      <3>1. i + 1 \in (i + 1)..M
        BY <1>3, <2>3 DEF M
      <3>2. f[i] = f[i + 1] /\ i + 1 \in Good
        BY <1>1, <1>6, <2>3, <3>1
      <3>3. ASSUME Clear(i) PROVE f[i] = g[i]
        <4>1. Clear(i + 1)
          <5> SUFFICES ASSUME NEW k \in 1..L, k < i + 1, WholeFrom(b, k)
                       PROVE  k + Width(b[k]) - 1 < i + 1
            OBVIOUS
          <5>1. k < i
            BY <2>3
          <5>2. k + Width(b[k]) - 1 < i /\ Width(b[k]) \in 1..4
            BY <1>4, <3>3, <5>1
          <5> QED
            BY <5>2
        <4>2. i \notin places
          <5> SUFFICES ASSUME NEW k \in 1..L, WholeFrom(b, k), i \in k..(k + Width(b[k]) - 1)
                       PROVE  FALSE
            BY <1>5, <2>3
          <5>1. k < i /\ Width(b[k]) \in 1..4
            BY <1>4, <2>3
          <5>2. k + Width(b[k]) - 1 < i
            BY <3>3, <5>1
          <5> QED
            BY <5>1, <5>2
        <4>3. g[i] = g[i + 1]
          BY <1>10, <2>3, <4>2
        <4> QED
          BY <3>2, <4>1, <4>3
      <3> QED
        BY <3>2, <3>3
    <2> QED
      <3>1. i = M \/ i \in 1..L
        BY <1>3 DEF M
      <3> QED
        BY <2>1, <2>2, <2>3, <3>1
  <1> HIDE DEF Good
  <1>7. \A i \in 1..M : i \in Good
    BY <1>3, <1>6, DownTo
  <1>8. 1 \in 1..M /\ Clear(1)
    BY <1>3 DEF M
  <1>9. f[1] = g[1] /\ Whole(f[1]) = DOMAIN f[1]
    BY <1>7, <1>8 DEF Good
  <1> QED
    BY <1>1, <1>10, <1>9 DEF CleanRight, places

(***************************************************************************)
(* getstrs.                                                                *)
(***************************************************************************)

\* What tolower leaves, and the terms that getstrs may give.
Letters == {c \in DOMAIN TermLower : TermLower[c] = c}
GoodTerms == {t \in Seq(Letters) : t # <<>> /\ t \notin Stopwords}
ReadSet == [tokens : Seq(GoodTerms), temp : Seq(Letters)]

LEMMA PushedType ==
    ASSUME NEW tokens \in Seq(GoodTerms), NEW temp \in Seq(Letters)
    PROVE  Pushed(tokens, temp) \in Seq(GoodTerms)
  <1>1. CASE temp \notin Stopwords /\ temp # <<>>
    <2>1. temp \in GoodTerms
      BY <1>1 DEF GoodTerms
    <2>2. Append(tokens, temp) \in Seq(GoodTerms)
      BY <2>1, AppendSeq
    <2> QED
      BY <1>1, <2>2 DEF Pushed
  <1>2. CASE ~(temp \notin Stopwords /\ temp # <<>>)
    BY <1>2 DEF Pushed
  <1> QED
    BY <1>1, <1>2

LEMMA LowerLetter == ASSUME NEW c, isalnum(c) PROVE TermLower[c] \in Letters
  BY LowerAssumption DEF isalnum, Letters

LEMMA ReadFields ==
    ASSUME NEW s \in ReadSet, NEW c
    PROVE  /\ isalnum(c) => /\ CharRead(s, c).tokens = s.tokens
                            /\ CharRead(s, c).temp = Append(s.temp, TermLower[c])
           /\ ~isalnum(c) => /\ CharRead(s, c).tokens = Pushed(s.tokens, s.temp)
                             /\ CharRead(s, c).temp = <<>>
           /\ CharRead(s, c) \in ReadSet
  <1>1. s.tokens \in Seq(GoodTerms) /\ s.temp \in Seq(Letters) /\ s = [tokens |-> s.tokens, temp |-> s.temp]
    BY DEF ReadSet
  <1>2. CASE isalnum(c)
    <2>1. CharRead(s, c) = [tokens |-> s.tokens, temp |-> Append(s.temp, TermLower[c])]
      <3>1. CharRead(s, c) = [s EXCEPT !.temp = Append(@, TermLower[c])]
        BY <1>2 DEF CharRead
      <3> QED
        BY <1>1, <3>1
    <2>2. Append(s.temp, TermLower[c]) \in Seq(Letters)
      BY <1>1, <1>2, LowerLetter, AppendSeq
    <2>3. CharRead(s, c) \in ReadSet
      BY <1>1, <2>1, <2>2 DEF ReadSet
    <2> QED
      BY <1>2, <2>1, <2>3
  <1>3. CASE ~isalnum(c)
    <2>1. CharRead(s, c) = [tokens |-> Pushed(s.tokens, s.temp), temp |-> <<>>]
      BY <1>3 DEF CharRead
    <2>2. Pushed(s.tokens, s.temp) \in Seq(GoodTerms) /\ <<>> \in Seq(Letters)
      BY <1>1, PushedType
    <2>3. CharRead(s, c) \in ReadSet
      BY <2>1, <2>2 DEF ReadSet
    <2> QED
      BY <1>3, <2>1, <2>3
  <1> QED
    BY <1>2, <1>3

\* getstrs takes one character after the other.
LEMMA TokensDef ==
    ASSUME NEW R, NEW text \in Seq(R)
    PROVE  \E f : /\ f \in [0..Len(text) -> ReadSet] /\ f[0] = [tokens |-> <<>>, temp |-> <<>>]
                  /\ \A i \in 1..Len(text) : f[i] = CharRead(f[i - 1], text[i])
                  /\ getstrs(text) = Pushed(f[Len(text)].tokens, f[Len(text)].temp)
  <1> DEFINE N == Len(text)
             V == ReadSet
             A == [tokens |-> <<>>, temp |-> <<>>]
             G == [i \in 1..N |-> [x \in V |-> CharRead(x, text[i])]]
             Body(f) == [n \in 0..N |-> IF n = 0 THEN A ELSE CharRead(f[n - 1], text[n])]
             after == CHOOSE f : f = Body(f)
  <1>1. N \in Nat
    OBVIOUS
  <1>2. A \in V
    BY DEF ReadSet
  <1>3. ASSUME NEW i \in 1..N, NEW x \in V PROVE CharRead(x, text[i]) \in V
    BY ReadFields
  <1>4. getstrs(text) = Pushed(after[Len(text)].tokens, after[Len(text)].temp)
    BY DEF getstrs
  <1> HIDE DEF N, V, A
  <1>5. \A i \in 1..N, x \in V : G[i][x] = CharRead(x, text[i])
    OBVIOUS
  <1>6. G \in [1..N -> [V -> V]]
    BY <1>3, <1>5
  <1> HIDE DEF G
  <1>7. PICK f \in [0..N -> V] : Recursion(f, A, G, N)
    BY <1>1, <1>2, <1>6, RecursionExists, Zenon
  <1>8. \A i \in 1..N : i \in 0..N /\ i - 1 \in 0..N /\ i # 0
    BY <1>1
  <1>9. \A i \in 1..N : f[i] = CharRead(f[i - 1], text[i])
    BY <1>5, <1>7, <1>8 DEF Recursion
  <1>10. f = Body(f)
    <2>1. ASSUME NEW i \in 0..N PROVE f[i] = Body(f)[i]
      <3>1. CASE i = 0
        BY <1>7, <3>1 DEF Recursion
      <3>2. CASE i # 0
        <4>1. i \in 1..N
          BY <1>1, <3>2
        <4> QED
          BY <1>9, <3>2, <4>1
      <3> QED
        BY <3>1, <3>2
    <2> QED
      BY <1>7, <2>1
  <1>11. after = Body(after)
    BY <1>10
  <1> HIDE DEF after
  <1>12. after[0] = A /\ \A i \in 1..N : after[i] = CharRead(after[i - 1], text[i])
    <2>1. \A i \in 0..N : after[i] = Body(after)[i]
      BY <1>11
    <2>2. 0 \in 0..N
      BY <1>1
    <2> QED
      BY <1>8, <2>1, <2>2
  <1>13. \A i \in 0..N : after[i] \in V
    <2>1. \A i \in 1..N : after[i - 1] \in V => after[i] = G[i][after[i - 1]]
      BY <1>5, <1>12
    <2> QED
      BY <1>1, <1>2, <1>6, <1>12, <2>1, RecursionTypes
  <1>14. after \in [0..N -> V]
    BY <1>11, <1>13
  <1> QED
    BY <1>4, <1>12, <1>14 DEF N, V, A

LEMMA WordEndExists ==
    ASSUME NEW R, NEW text \in Seq(R), NEW i \in 1..Len(text), isalnum(text[i])
    PROVE  \E j \in i..Len(text) : WordEnds(text, i, j)
  <1> DEFINE L == Len(text)
             T == {j \in i..L : j = L \/ ~isalnum(text[j + 1])}
  <1>1. L \in Nat /\ i \in Nat /\ i <= L
    OBVIOUS
  <1>2. T \subseteq Nat /\ L \in T
    BY <1>1
  <1>3. PICK j \in T : \A y \in T : j <= y
    BY <1>2, LeastNat
  <1>4. ASSUME NEW k \in i..j, ~isalnum(text[k]) PROVE FALSE
    <2>1. k # i
      BY <1>4
    <2>2. k - 1 \in i..L /\ (k - 1) + 1 = k /\ k - 1 < j
      BY <1>1, <1>3, <2>1
    <2>3. k - 1 \in T
      BY <1>4, <2>2
    <2>4. j <= k - 1
      BY <1>3, <2>3
    <2> QED
      BY <1>1, <1>3, <2>2, <2>4
  <1> QED
    BY <1>3, <1>4 DEF WordEnds

\* A run of letters in lower case.
Low(text, i, n) == [k \in 1..(n - i + 1) |-> TermLower[text[i + k - 1]]]

LEMMA LowType ==
    ASSUME NEW text, NEW i \in Nat, NEW n \in Nat, i <= n, \A k \in i..n : isalnum(text[k])
    PROVE  Low(text, i, n) \in Seq(Letters) /\ Len(Low(text, i, n)) = n - i + 1 /\ Low(text, i, n) # <<>>
  <1> DEFINE m == n - i + 1
  <1>1. m \in Nat \ {0} /\ \A k \in 1..m : i + k - 1 \in i..n
    OBVIOUS
  <1> HIDE DEF m
  <1>2. \A k \in 1..m : TermLower[text[i + k - 1]] \in Letters
    BY <1>1, LowerLetter
  <1>3. [k \in 1..m |-> TermLower[text[i + k - 1]]] \in Seq(Letters)
    BY <1>1, <1>2
  <1>4. Low(text, i, n) = [k \in 1..m |-> TermLower[text[i + k - 1]]]
    BY DEF Low, m
  <1>5. Low(text, i, n) \in Seq(Letters) /\ Len(Low(text, i, n)) = m
    BY <1>1, <1>3, <1>4
  <1>6. Low(text, i, n) # <<>>
    BY <1>1, <1>5
  <1> QED
    BY <1>5, <1>6 DEF m

LEMMA WordIs ==
    ASSUME NEW R, NEW text \in Seq(R), NEW i \in 1..Len(text), NEW n \in i..Len(text),
           WordEnds(text, i, n)
    PROVE  WordAt(text, i) = Low(text, i, n)
  <1>1. ASSUME NEW j \in i..Len(text), WordEnds(text, i, j) PROVE j = n
    <2>1. CASE j < n
      <3>1. j + 1 \in i..n /\ j # Len(text)
        BY <2>1
      <3> QED
        BY <1>1, <3>1 DEF WordEnds
    <2>2. CASE n < j
      <3>1. n + 1 \in i..j /\ n # Len(text)
        BY <2>2
      <3> QED
        BY <1>1, <3>1 DEF WordEnds
    <2> QED
      BY <2>1, <2>2
  <1>2. (CHOOSE j \in i..Len(text) : WordEnds(text, i, j)) = n
    BY <1>1
  <1> QED
    BY <1>2 DEF WordAt, Low

LEMMA WordType ==
    ASSUME NEW R, NEW text \in Seq(R), NEW i \in 1..Len(text), isalnum(text[i])
    PROVE  WordAt(text, i) \in Seq(Letters) /\ WordAt(text, i) # <<>>
  <1>1. PICK n \in i..Len(text) : WordEnds(text, i, n)
    BY WordEndExists
  <1>2. WordAt(text, i) = Low(text, i, n)
    BY <1>1, WordIs
  <1>3. i \in Nat /\ n \in Nat /\ i <= n /\ \A k \in i..n : isalnum(text[k])
    BY <1>1 DEF WordEnds
  <1> QED
    BY <1>2, <1>3, LowType

\* WordsOf collects word by word.
LEMMA WordsDef ==
    ASSUME NEW R, NEW text \in Seq(R)
    PROVE  \E f : /\ f \in [0..Len(text) -> Seq(GoodTerms)] /\ f[0] = <<>>
                  /\ \A i \in 1..Len(text) : f[i] = (IF WordStarts(text, i) /\ WordAt(text, i) \notin Stopwords THEN Append(f[i - 1], WordAt(text, i)) ELSE f[i - 1])
                  /\ WordsOf(text) = f[Len(text)]
  <1> DEFINE N == Len(text)
             V == Seq(GoodTerms)
             A == <<>>
             G == [i \in 1..N |-> [x \in V |-> (IF WordStarts(text, i) /\ WordAt(text, i) \notin Stopwords THEN Append(x, WordAt(text, i)) ELSE x)]]
             Body(f) == [n \in 0..N |-> IF n = 0 THEN A ELSE (IF WordStarts(text, n) /\ WordAt(text, n) \notin Stopwords THEN Append(f[n - 1], WordAt(text, n)) ELSE f[n - 1])]
             after == CHOOSE f : f = Body(f)
  <1>1. N \in Nat
    OBVIOUS
  <1>2. A \in V
    OBVIOUS
  <1>3. ASSUME NEW i \in 1..N, NEW x \in V PROVE (IF WordStarts(text, i) /\ WordAt(text, i) \notin Stopwords THEN Append(x, WordAt(text, i)) ELSE x) \in V
    <2>1. CASE WordStarts(text, i) /\ WordAt(text, i) \notin Stopwords
      <3>1. WordAt(text, i) \in GoodTerms
        BY <2>1, WordType DEF WordStarts, GoodTerms
      <3>2. Append(x, WordAt(text, i)) \in Seq(GoodTerms)
        BY <3>1, AppendSeq
      <3> QED
        BY <2>1, <3>2
    <2>2. CASE ~(WordStarts(text, i) /\ WordAt(text, i) \notin Stopwords)
      BY <2>2
    <2> QED
      BY <2>1, <2>2
  <1>4. WordsOf(text) = after[Len(text)]
    BY DEF WordsOf
  <1> HIDE DEF N, V, A
  <1>5. \A i \in 1..N, x \in V : G[i][x] = (IF WordStarts(text, i) /\ WordAt(text, i) \notin Stopwords THEN Append(x, WordAt(text, i)) ELSE x)
    OBVIOUS
  <1>6. G \in [1..N -> [V -> V]]
    BY <1>3, <1>5
  <1> HIDE DEF G
  <1>7. PICK f \in [0..N -> V] : Recursion(f, A, G, N)
    BY <1>1, <1>2, <1>6, RecursionExists, Zenon
  <1>8. \A i \in 1..N : i \in 0..N /\ i - 1 \in 0..N /\ i # 0
    BY <1>1
  <1>9. \A i \in 1..N : f[i] = (IF WordStarts(text, i) /\ WordAt(text, i) \notin Stopwords THEN Append(f[i - 1], WordAt(text, i)) ELSE f[i - 1])
    BY <1>5, <1>7, <1>8 DEF Recursion
  <1>10. f = Body(f)
    <2>1. ASSUME NEW i \in 0..N PROVE f[i] = Body(f)[i]
      <3>1. CASE i = 0
        BY <1>7, <3>1 DEF Recursion
      <3>2. CASE i # 0
        <4>1. i \in 1..N
          BY <1>1, <3>2
        <4> QED
          BY <1>9, <3>2, <4>1
      <3> QED
        BY <3>1, <3>2
    <2> QED
      BY <1>7, <2>1
  <1>11. after = Body(after)
    BY <1>10
  <1> HIDE DEF after
  <1>12. after[0] = A /\ \A i \in 1..N : after[i] = (IF WordStarts(text, i) /\ WordAt(text, i) \notin Stopwords THEN Append(after[i - 1], WordAt(text, i)) ELSE after[i - 1])
    <2>1. \A i \in 0..N : after[i] = Body(after)[i]
      BY <1>11
    <2>2. 0 \in 0..N
      BY <1>1
    <2> QED
      BY <1>8, <2>1, <2>2
  <1>13. \A i \in 0..N : after[i] \in V
    <2>1. \A i \in 1..N : after[i - 1] \in V => after[i] = G[i][after[i - 1]]
      BY <1>5, <1>12
    <2> QED
      BY <1>1, <1>2, <1>6, <1>12, <2>1, RecursionTypes
  <1>14. after \in [0..N -> V]
    BY <1>11, <1>13
  <1> QED
    BY <1>4, <1>12, <1>14 DEF N, V, A

\* A letter more.
LEMMA LowGrows ==
    ASSUME NEW text, NEW i \in Nat, NEW n \in Nat, i <= n, \A k \in i..n : isalnum(text[k]),
           isalnum(text[n + 1])
    PROVE  Append(Low(text, i, n), TermLower[text[n + 1]]) = Low(text, i, n + 1)
  <1> DEFINE s == Low(text, i, n)
             t == Low(text, i, n + 1)
             e == TermLower[text[n + 1]]
             m == n - i + 1
  <1>1. s \in Seq(Letters) /\ Len(s) = m
    BY LowType
  <1>2. i <= n + 1 /\ n + 1 \in Nat /\ \A k \in i..(n + 1) : isalnum(text[k])
    OBVIOUS
  <1>3. t \in Seq(Letters) /\ Len(t) = m + 1
    <2>1. t \in Seq(Letters) /\ Len(t) = (n + 1) - i + 1
      BY <1>2, LowType
    <2> QED
      BY <2>1
  <1>4. e \in Letters
    BY LowerLetter
  <1>5. \A k \in 1..m : s[k] = TermLower[text[i + k - 1]]
    BY DEF Low
  <1>6. \A k \in 1..((n + 1) - i + 1) : t[k] = TermLower[text[i + k - 1]]
    BY DEF Low
  <1>7. m \in Nat /\ (n + 1) - i + 1 = m + 1 /\ i + (m + 1) - 1 = n + 1
    OBVIOUS
  <1>8. t[m + 1] = e
    <2>1. m + 1 \in 1..((n + 1) - i + 1)
      BY <1>7
    <2> QED
      BY <1>6, <1>7, <2>1
  <1> HIDE DEF s, t, e, m
  <1>9. /\ Append(s, e) \in Seq(Letters) /\ Len(Append(s, e)) = m + 1
        /\ \A k \in 1..m : Append(s, e)[k] = s[k]
        /\ Append(s, e)[m + 1] = e
    BY <1>1, <1>4, AppendSeq
  <1>10. \A k \in 1..(m + 1) : Append(s, e)[k] = t[k]
    BY <1>5, <1>6, <1>7, <1>8, <1>9
  <1>11. Append(s, e) = t
    BY <1>3, <1>9, <1>10, SeqEqual
  <1> QED
    BY <1>11 DEF s, t, e

\* Inside a word that started at i: what was read of it, and the words before it.
InWord(text, words, s, i, n) ==
    /\ WordStarts(text, i) /\ \A k \in i..n : isalnum(text[k])
    /\ s.temp = Low(text, i, n) /\ s.tokens = words[i - 1] /\ words[n] = words[i]

ReadSoFar(text, words, s, n) ==
    IF n = 0 \/ ~isalnum(text[n]) THEN s.temp = <<>> /\ s.tokens = words[n]
    ELSE \E i \in 1..n : InWord(text, words, s, i, n)

LEMMA PushBlank == ASSUME NEW tokens PROVE Pushed(tokens, <<>>) = tokens
  BY DEF Pushed

\* A word is over.
LEMMA PushWord ==
    ASSUME NEW R, NEW text \in Seq(R), NEW words, NEW s, NEW n \in 1..Len(text), NEW i \in 1..n,
           \A k \in 1..Len(text) :
              words[k] = (IF WordStarts(text, k) /\ WordAt(text, k) \notin Stopwords
                          THEN Append(words[k - 1], WordAt(text, k)) ELSE words[k - 1]),
           InWord(text, words, s, i, n), n = Len(text) \/ ~isalnum(text[n + 1])
    PROVE  Pushed(s.tokens, s.temp) = words[n]
  <1>1. i \in 1..Len(text) /\ n \in i..Len(text) /\ i \in Nat /\ n \in Nat /\ i <= n
    OBVIOUS
  <1>2. WordEnds(text, i, n)
    BY DEF WordEnds, InWord
  <1>3. WordAt(text, i) = Low(text, i, n)
    BY <1>1, <1>2, WordIs
  <1>4. Low(text, i, n) # <<>>
    BY <1>1, LowType DEF InWord
  <1>5. s.temp = WordAt(text, i) /\ s.temp # <<>> /\ s.tokens = words[i - 1] /\ words[n] = words[i]
    BY <1>3, <1>4 DEF InWord
  <1>6. words[i] = (IF WordAt(text, i) \notin Stopwords
                    THEN Append(words[i - 1], WordAt(text, i)) ELSE words[i - 1])
    BY <1>1 DEF InWord
  <1> QED
    BY <1>5, <1>6 DEF Pushed

LEMMA ReadStep ==
    ASSUME NEW R, NEW text \in Seq(R), NEW words, NEW s \in ReadSet, NEW n \in 0..(Len(text) - 1),
           \A k \in 1..Len(text) :
              words[k] = (IF WordStarts(text, k) /\ WordAt(text, k) \notin Stopwords
                          THEN Append(words[k - 1], WordAt(text, k)) ELSE words[k - 1]),
           ReadSoFar(text, words, s, n)
    PROVE  ReadSoFar(text, words, CharRead(s, text[n + 1]), n + 1)
  <1> DEFINE c == text[n + 1]
             r == CharRead(s, c)
  <1>1. n + 1 \in 1..Len(text) /\ (n + 1) - 1 = n /\ n + 1 # 0 /\ n \in Nat
    OBVIOUS
  <1>2. words[n + 1] = (IF WordStarts(text, n + 1) /\ WordAt(text, n + 1) \notin Stopwords
                        THEN Append(words[n], WordAt(text, n + 1)) ELSE words[n])
    BY <1>1
  <1>3. /\ isalnum(c) => r.tokens = s.tokens /\ r.temp = Append(s.temp, TermLower[c])
        /\ ~isalnum(c) => r.tokens = Pushed(s.tokens, s.temp) /\ r.temp = <<>>
    BY ReadFields
  <1> HIDE DEF r
  <1>4. CASE isalnum(c) /\ (n = 0 \/ ~isalnum(text[n]))
    <2>1. s.temp = <<>> /\ s.tokens = words[n]
      BY <1>4 DEF ReadSoFar
    <2>2. WordStarts(text, n + 1)
      BY <1>1, <1>4 DEF WordStarts
    <2>3. r.temp = Low(text, n + 1, n + 1)
      <3>1. Low(text, n + 1, n + 1) = [k \in 1..1 |-> TermLower[c]]
        <4>1. (n + 1) - (n + 1) + 1 = 1 /\ \A k \in 1..1 : (n + 1) + k - 1 = n + 1
          OBVIOUS
        <4> QED
          BY <4>1 DEF Low
      <3>2. Append(<<>>, TermLower[c]) = <<TermLower[c]>>
        OBVIOUS
      <3>3. <<TermLower[c]>> = [k \in 1..1 |-> TermLower[c]]
        OBVIOUS
      <3> QED
        BY <1>3, <1>4, <2>1, <3>1, <3>2, <3>3
    <2>4. r.tokens = words[(n + 1) - 1]
      BY <1>1, <1>3, <1>4, <2>1
    <2>5. \A k \in (n + 1)..(n + 1) : isalnum(text[k])
      BY <1>4
    <2>6. InWord(text, words, r, n + 1, n + 1)
      BY <2>2, <2>3, <2>4, <2>5 DEF InWord
    <2>7. n + 1 \in 1..(n + 1)
      BY <1>1
    <2> QED
      BY <1>1, <1>4, <2>6, <2>7 DEF ReadSoFar, r
  <1>5. CASE isalnum(c) /\ ~(n = 0 \/ ~isalnum(text[n]))
    <2>1. PICK i \in 1..n : InWord(text, words, s, i, n)
      BY <1>5 DEF ReadSoFar
    <2>2. ~WordStarts(text, n + 1)
      BY <1>1, <1>5 DEF WordStarts
    <2>3. words[n + 1] = words[i]
      BY <1>2, <2>1, <2>2 DEF InWord
    <2>4. i \in Nat /\ i <= n /\ i \in 1..(n + 1)
      OBVIOUS
    <2>5. r.temp = Low(text, i, n + 1)
      BY <1>1, <1>3, <1>5, <2>1, <2>4, LowGrows DEF InWord
    <2>6. \A k \in i..(n + 1) : isalnum(text[k])
      <3> TAKE k \in i..(n + 1)
      <3>1. k \in i..n \/ k = n + 1
        BY <1>1
      <3> QED
        BY <1>5, <2>1, <3>1 DEF InWord
    <2>7. InWord(text, words, r, i, n + 1)
      BY <1>3, <1>5, <2>1, <2>3, <2>5, <2>6 DEF InWord
    <2> QED
      BY <1>1, <1>5, <2>4, <2>7 DEF ReadSoFar, r
  <1>6. CASE ~isalnum(c) /\ (n = 0 \/ ~isalnum(text[n]))
    <2>1. s.temp = <<>> /\ s.tokens = words[n]
      BY <1>6 DEF ReadSoFar
    <2>2. words[n + 1] = words[n]
      BY <1>2, <1>6 DEF WordStarts
    <2>3. r.temp = <<>> /\ r.tokens = words[n + 1]
      BY <1>3, <1>6, <2>1, <2>2, PushBlank
    <2> QED
      BY <1>6, <2>3 DEF ReadSoFar, r
  <1>7. CASE ~isalnum(c) /\ ~(n = 0 \/ ~isalnum(text[n]))
    <2>1. PICK i \in 1..n : InWord(text, words, s, i, n)
      BY <1>7 DEF ReadSoFar
    <2>2. words[n + 1] = words[n]
      BY <1>2, <1>7 DEF WordStarts
    <2>3. n \in 1..Len(text)
      BY <1>7
    <2>4. Pushed(s.tokens, s.temp) = words[n]
      <3>1. n = Len(text) \/ ~isalnum(text[n + 1])
        BY <1>7
      <3> QED
        BY <2>1, <2>3, <3>1, PushWord
    <2>5. r.temp = <<>> /\ r.tokens = words[n + 1]
      BY <1>3, <1>7, <2>2, <2>4
    <2> QED
      BY <1>7, <2>5 DEF ReadSoFar, r
  <1> QED
    BY <1>4, <1>5, <1>6, <1>7

LEMMA WordsAreTerms == ASSUME NEW R, NEW text \in Seq(R) PROVE getstrs(text) = WordsOf(text)
  <1> DEFINE L == Len(text)
  <1>1. PICK f : /\ f \in [0..L -> ReadSet] /\ f[0] = [tokens |-> <<>>, temp |-> <<>>]
                 /\ \A i \in 1..L : f[i] = CharRead(f[i - 1], text[i])
                 /\ getstrs(text) = Pushed(f[L].tokens, f[L].temp)
    BY TokensDef, Zenon
  <1>2. PICK words : /\ words[0] = <<>>
                     /\ \A k \in 1..L :
                           words[k] = (IF WordStarts(text, k) /\ WordAt(text, k) \notin Stopwords
                                       THEN Append(words[k - 1], WordAt(text, k)) ELSE words[k - 1])
                     /\ WordsOf(text) = words[L]
    BY WordsDef, Zenon
  <1>3. L \in Nat
    OBVIOUS
  <1> DEFINE Good == {n \in 0..L : ReadSoFar(text, words, f[n], n)}
  <1>4. 0 \in Good
    BY <1>1, <1>2, <1>3 DEF ReadSoFar
  <1>5. ASSUME NEW n \in 0..(L - 1), n \in Good PROVE n + 1 \in Good
    <2>1. n + 1 \in 1..L /\ (n + 1) - 1 = n /\ n \in 0..L /\ n + 1 \in 0..L
      BY <1>3
    <2>2. f[n + 1] = CharRead(f[n], text[n + 1]) /\ f[n] \in ReadSet
      BY <1>1, <2>1
    <2>3. ReadSoFar(text, words, f[n], n)
      BY <1>5
    <2>4. ReadSoFar(text, words, CharRead(f[n], text[n + 1]), n + 1)
      BY <1>2, <2>2, <2>3, ReadStep
    <2> QED
      BY <2>1, <2>2, <2>4
  <1>6. L \in 0..L
    BY <1>3
  <1> HIDE DEF Good
  <1>7. \A n \in 0..L : n \in Good
    BY <1>3, <1>4, <1>5, UpTo
  <1>8. ReadSoFar(text, words, f[L], L)
    BY <1>6, <1>7 DEF Good
  <1>9. CASE L = 0 \/ ~isalnum(text[L])
    BY <1>1, <1>2, <1>8, <1>9, PushBlank DEF ReadSoFar
  <1>10. CASE ~(L = 0 \/ ~isalnum(text[L]))
    <2>1. PICK i \in 1..L : InWord(text, words, f[L], i, L)
      BY <1>8, <1>10 DEF ReadSoFar
    <2>2. L \in 1..Len(text)
      BY <1>3, <1>10
    <2>3. Pushed(f[L].tokens, f[L].temp) = words[L]
      BY <1>2, <2>1, <2>2, PushWord
    <2> QED
      BY <1>1, <1>2, <2>3
  <1> QED
    BY <1>9, <1>10

\* A term is one word, and in lower case already.
LEMMA TermStays == ASSUME NEW t \in GoodTerms PROVE getstrs(t) = <<t>>
  <1> DEFINE L == Len(t)
  <1>1. t \in Seq(Letters) /\ t # <<>> /\ t \notin Stopwords /\ L \in Nat
    BY DEF GoodTerms
  <1>2. PICK f : /\ f \in [0..L -> ReadSet] /\ f[0] = [tokens |-> <<>>, temp |-> <<>>]
                 /\ \A i \in 1..L : f[i] = CharRead(f[i - 1], t[i])
                 /\ getstrs(t) = Pushed(f[L].tokens, f[L].temp)
    BY <1>1, TokensDef, Zenon
  <1> DEFINE Good == {n \in 0..L : f[n].tokens = <<>> /\ f[n].temp = SubSeq(t, 1, n)}
  <1>3. 0 \in Good
    <2>1. SubSeq(t, 1, 0) = <<>>
      BY SubSeqEmpty
    <2>2. f[0].tokens = <<>> /\ f[0].temp = <<>>
      BY <1>2
    <2>3. 0 \in 0..L
      BY <1>1
    <2> HIDE DEF L
    <2> QED
      BY <2>1, <2>2, <2>3
  <1>4. ASSUME NEW n \in 0..(L - 1), n \in Good PROVE n + 1 \in Good
    <2>1. n + 1 \in 1..L /\ (n + 1) - 1 = n /\ n \in 0..L /\ n + 1 \in 0..L
      BY <1>1
    <2>2. f[n + 1] = CharRead(f[n], t[n + 1]) /\ f[n] \in ReadSet
      BY <1>2, <2>1
    <2>3. t[n + 1] \in Letters
      BY <1>1, <2>1, ElementOfSeq
    <2>4. isalnum(t[n + 1]) /\ TermLower[t[n + 1]] = t[n + 1]
      BY <2>3 DEF Letters, isalnum
    <2>5. f[n + 1].tokens = <<>> /\ f[n + 1].temp = Append(SubSeq(t, 1, n), t[n + 1])
      <3>1. f[n].tokens = <<>> /\ f[n].temp = SubSeq(t, 1, n)
        BY <1>4
      <3>2. /\ CharRead(f[n], t[n + 1]).tokens = f[n].tokens
            /\ CharRead(f[n], t[n + 1]).temp = Append(f[n].temp, TermLower[t[n + 1]])
        <4>1. f[n] \in ReadSet /\ isalnum(t[n + 1])
          BY <2>2, <2>4
        <4> QED
          BY <4>1, ReadFields, Zenon
      <3> QED
        BY <2>2, <2>4, <3>1, <3>2, Zenon
    <2>6. Append(SubSeq(t, 1, n), t[n + 1]) = SubSeq(t, 1, n + 1)
      <3> DEFINE a == SubSeq(t, 1, n)
                 b == SubSeq(t, 1, n + 1)
                 e == t[n + 1]
      <3>1. a \in Seq(Letters) /\ Len(a) = n /\ \A k \in 1..n : a[k] = t[k]
        BY <1>1, <2>1, PrefixSeq
      <3>2. b \in Seq(Letters) /\ Len(b) = n + 1 /\ \A k \in 1..(n + 1) : b[k] = t[k]
        BY <1>1, <2>1, PrefixSeq
      <3>3. n + 1 \in 1..(n + 1) /\ n \in Nat
        BY <2>1
      <3>4. b[n + 1] = e
        BY <3>2, <3>3
      <3> HIDE DEF a, b, e
      <3>5. e \in Letters
        BY <2>3 DEF e
      <3>6. /\ Append(a, e) \in Seq(Letters) /\ Len(Append(a, e)) = n + 1
            /\ \A k \in 1..n : Append(a, e)[k] = a[k]
            /\ Append(a, e)[n + 1] = e
        BY <3>1, <3>5, AppendSeq
      <3>7. \A k \in 1..(n + 1) : Append(a, e)[k] = b[k]
        BY <3>1, <3>2, <3>3, <3>4, <3>6
      <3>8. Append(a, e) = b
        BY <3>2, <3>6, <3>7, SeqEqual
      <3> QED
        BY <3>8 DEF a, b, e
    <2> QED
      BY <2>1, <2>5, <2>6
  <1>5. L \in 0..L
    BY <1>1
  <1> HIDE DEF Good
  <1>6. \A n \in 0..L : n \in Good
    BY <1>1, <1>3, <1>4, UpTo
  <1>7. f[L].tokens = <<>> /\ f[L].temp = SubSeq(t, 1, L)
    BY <1>5, <1>6 DEF Good
  <1>8. SubSeq(t, 1, L) = t
    BY <1>1
  <1>9. Append(<<>>, t) = <<t>>
    OBVIOUS
  <1> QED
    BY <1>1, <1>2, <1>7, <1>8, <1>9 DEF Pushed

LEMMA TokensAreRight == ASSUME NEW R, NEW text \in Seq(R) PROVE TokensRight(text)
  <1>1. getstrs(text) = WordsOf(text)
    BY WordsAreTerms
  <1>2. getstrs(text) \in Seq(GoodTerms)
    <2>1. \E f : f \in [0..Len(text) -> Seq(GoodTerms)] /\ WordsOf(text) = f[Len(text)]
      BY WordsDef, Zenon
    <2>2. Len(text) \in 0..Len(text)
      OBVIOUS
    <2> QED
      BY <1>1, <2>1, <2>2
  <1>3. ASSUME NEW k \in DOMAIN getstrs(text) PROVE getstrs(getstrs(text)[k]) = <<getstrs(text)[k]>>
    <2>1. getstrs(text)[k] \in GoodTerms
      BY <1>2
    <2> QED
      BY <2>1, TermStays
  <1> QED
    BY <1>1, <1>3 DEF TokensRight

\* cleanUTF8 keeps exactly the bytes of whole sequences, and getstrs exactly the
\* words that are no stop words (APItest.cpp:37-83, Tokenizer.cpp:11-34).
THEOREM BytesAlwaysExact == TextSpec => []BytesExact
  <1>1. InputOk => BytesExact
    <2> SUFFICES ASSUME InputOk PROVE BytesExact
      OBVIOUS
    <2>1. input.kind = "bytes" => CleanRight(input.bytes)
      <3> SUFFICES ASSUME input.kind = "bytes" PROVE CleanRight(input.bytes)
        OBVIOUS
      <3>1. input.bytes \in Seq(Bytes)
        BY InputKinds, InputsAssumption
      <3> QED
        BY <3>1, CleanIsRight
    <2>2. input.kind = "terms" => TokensRight(input.text)
      <3> SUFFICES ASSUME input.kind = "terms" PROVE TokensRight(input.text)
        OBVIOUS
      <3>1. input.text \in Seq(STRING)
        BY InputKinds, InputsAssumption
      <3> QED
        BY <3>1, TokensAreRight
    <2> QED
      BY <2>1, <2>2 DEF BytesExact
  <1> QED
    BY <1>1, InputsOk, PTL

(***************************************************************************)
(* The text of a page.                                                     *)
(***************************************************************************)

\* The nodes, level by level.
LEMMA NodesDef ==
    \A h \in 0..MaxDepth : Nodes[h] = IF h = 0 THEN TextNodes ELSE (TextNodes \cup [kind : {"element"}, visible : BOOLEAN, children : Seq(Nodes[h - 1])])
  <1> DEFINE Body(f, n) == [h \in 0..n |-> IF h = 0 THEN TextNodes ELSE (TextNodes \cup [kind : {"element"}, visible : BOOLEAN, children : Seq(f[h - 1])])]
             Good == {n \in 0..MaxDepth : \E f : f = Body(f, n)}
  <1>1. MaxDepth \in Nat
    BY PageTextAssumption
  <1>2. 0 \in Good
    <2> DEFINE f == [h \in 0..0 |-> TextNodes]
    <2>1. f = Body(f, 0)
      OBVIOUS
    <2>2. 0 \in 0..MaxDepth
      BY <1>1
    <2> HIDE DEF Body, f
    <2> QED
      BY <2>1, <2>2
  <1>3. ASSUME NEW n \in 0..(MaxDepth - 1), n \in Good PROVE n + 1 \in Good
    <2>1. PICK f : f = Body(f, n)
      BY <1>3
    <2> DEFINE v == (TextNodes \cup [kind : {"element"}, visible : BOOLEAN, children : Seq(f[n])])
               g == [h \in 0..(n + 1) |-> IF h = n + 1 THEN v ELSE f[h]]
    <2>2. \A h \in 0..n : f[h] = IF h = 0 THEN TextNodes ELSE (TextNodes \cup [kind : {"element"}, visible : BOOLEAN, children : Seq(f[h - 1])])
      BY <2>1
    <2>3. n \in Nat /\ n + 1 # 0 /\ (n + 1) - 1 = n /\ n \in 0..(n + 1) /\ n # n + 1 /\ n + 1 \in 0..MaxDepth
      BY <1>1
    <2>4. ASSUME NEW h \in 0..(n + 1) PROVE g[h] = Body(g, n + 1)[h]
      <3>1. CASE h = n + 1
        <4>1. g[h - 1] = f[n]
          BY <2>3, <3>1
        <4>2. g[h] = v
          BY <3>1
        <4>3. v = (TextNodes \cup [kind : {"element"}, visible : BOOLEAN, children : Seq(f[n])])
          BY <3>1
        <4> HIDE DEF g, v
        <4>4. Body(g, n + 1)[h] = (TextNodes \cup [kind : {"element"}, visible : BOOLEAN, children : Seq(g[h - 1])])
          BY <2>3, <3>1
        <4> QED
          BY <4>1, <4>2, <4>3, <4>4
      <3>2. CASE h # n + 1
        <4>1. h \in 0..n /\ (h # 0 => h - 1 \in 0..(n + 1) /\ h - 1 # n + 1)
          BY <2>3, <3>2
        <4>2. g[h] = f[h] /\ (h # 0 => g[h - 1] = f[h - 1])
          BY <3>2, <4>1
        <4>3. f[h] = IF h = 0 THEN TextNodes ELSE (TextNodes \cup [kind : {"element"}, visible : BOOLEAN, children : Seq(f[h - 1])])
          BY <2>2, <4>1
        <4> HIDE DEF g
        <4>4. Body(g, n + 1)[h] = IF h = 0 THEN TextNodes ELSE (TextNodes \cup [kind : {"element"}, visible : BOOLEAN, children : Seq(g[h - 1])])
          OBVIOUS
        <4> QED
          BY <4>2, <4>3, <4>4
      <3> QED
        BY <3>1, <3>2
    <2>5. g = Body(g, n + 1)
      <3>1. DOMAIN Body(g, n + 1) = 0..(n + 1) /\ DOMAIN g = 0..(n + 1)
        OBVIOUS
      <3>2. g = [h \in 0..(n + 1) |-> g[h]] /\ Body(g, n + 1) = [h \in 0..(n + 1) |-> Body(g, n + 1)[h]]
        OBVIOUS
      <3> HIDE DEF g, Body
      <3> QED
        BY <2>4, <3>1, <3>2, Zenon
    <2> HIDE DEF Body, g
    <2> QED
      BY <2>3, <2>5
  <1>4. MaxDepth \in 0..MaxDepth
    BY <1>1
  <1> HIDE DEF Good
  <1>5. \A n \in 0..MaxDepth : n \in Good
    BY <1>1, <1>2, <1>3, UpTo
  <1>6. PICK f : f = Body(f, MaxDepth)
    BY <1>4, <1>5 DEF Good
  <1>7. Nodes = CHOOSE g : g = Body(g, MaxDepth)
    BY DEF Nodes
  <1>8. Nodes = Body(Nodes, MaxDepth)
    <2> HIDE DEF Body
    <2> QED
      BY <1>6, <1>7
  <1> QED
    <2>1. \A h \in 0..MaxDepth : Nodes[h] = Body(Nodes, MaxDepth)[h]
      BY <1>8
    <2> QED
      BY <2>1

LEMMA NodeKinds ==
    ASSUME NEW h \in 0..MaxDepth, NEW node \in Nodes[h]
    PROVE  \/ node \in TextNodes /\ node.kind = "text" /\ node.blank \in BOOLEAN
           \/ /\ h # 0 /\ h - 1 \in 0..MaxDepth /\ node.kind = "element" /\ node.visible \in BOOLEAN
              /\ node.children \in Seq(Nodes[h - 1])
  <1>1. CASE node \in TextNodes
    BY <1>1, PageTextAssumption
  <1>2. CASE node \notin TextNodes
    <2>1. h # 0 /\ node \in [kind : {"element"}, visible : BOOLEAN, children : Seq(Nodes[h - 1])]
      BY <1>2, NodesDef
    <2>2. node.kind = "element" /\ node.visible \in BOOLEAN /\ node.children \in Seq(Nodes[h - 1])
      BY <2>1
    <2>3. h - 1 \in 0..MaxDepth
      BY <2>1, PageTextAssumption
    <2> QED
      BY <2>1, <2>2, <2>3
  <1> QED
    BY <1>1, <1>2

LEMMA TextsAreNodes == ASSUME NEW h \in 0..MaxDepth PROVE TextNodes \subseteq Nodes[h]
  BY NodesDef

WalkLevel(walk, h) == [a \in Nodes[h] \X Seq(TextNodes) |-> Walked(walk, a[1], a[2])]
SeenLevel(visible, h) == [node \in Nodes[h] |-> Seen(visible, node)]

\* Texts have no children.
LEMMA WalkLevelBlind == ASSUME NEW x PROVE WalkLevel(x, 0) = WalkLevel(<<>>, 0)
  <1>1. 0 \in 0..MaxDepth
    BY PageTextAssumption
  <1>2. ASSUME NEW a \in Nodes[0] \X Seq(TextNodes)
        PROVE  Walked(x, a[1], a[2]) = Walked(<<>>, a[1], a[2])
    <2>1. a[1].kind = "text"
      BY <1>1, NodeKinds
    <2> QED
      BY <2>1 DEF Walked
  <1> QED
    BY <1>2 DEF WalkLevel

LEMMA SeenLevelBlind == ASSUME NEW x PROVE SeenLevel(x, 0) = SeenLevel(<<>>, 0)
  <1>1. 0 \in 0..MaxDepth
    BY PageTextAssumption
  <1>2. ASSUME NEW node \in Nodes[0] PROVE Seen(x, node) = Seen(<<>>, node)
    <2>1. node.kind = "text"
      BY <1>1, NodeKinds
    <2> QED
      BY <2>1 DEF Seen
  <1> QED
    BY <1>2 DEF SeenLevel

\* dfs, level by level.
LEMMA WalkDef ==
    \A h \in 0..MaxDepth : Walk[h] = IF h = 0 THEN WalkLevel(<<>>, 0) ELSE WalkLevel(Walk[h - 1], h)
  <1> DEFINE Body(f, n) == [h \in 0..n |-> IF h = 0 THEN WalkLevel(<<>>, 0) ELSE WalkLevel(f[h - 1], h)]
             Good == {n \in 0..MaxDepth : \E f : f = Body(f, n)}
  <1>1. MaxDepth \in Nat
    BY PageTextAssumption
  <1>2. 0 \in Good
    <2> DEFINE f == [h \in 0..0 |-> WalkLevel(<<>>, 0)]
    <2>1. f = Body(f, 0)
      OBVIOUS
    <2>2. 0 \in 0..MaxDepth
      BY <1>1
    <2> HIDE DEF Body, f
    <2> QED
      BY <2>1, <2>2
  <1>3. ASSUME NEW n \in 0..(MaxDepth - 1), n \in Good PROVE n + 1 \in Good
    <2>1. PICK f : f = Body(f, n)
      BY <1>3
    <2> DEFINE v == WalkLevel(f[n], (n + 1))
               g == [h \in 0..(n + 1) |-> IF h = n + 1 THEN v ELSE f[h]]
    <2>2. \A h \in 0..n : f[h] = IF h = 0 THEN WalkLevel(<<>>, 0) ELSE WalkLevel(f[h - 1], h)
      BY <2>1
    <2>3. n \in Nat /\ n + 1 # 0 /\ (n + 1) - 1 = n /\ n \in 0..(n + 1) /\ n # n + 1 /\ n + 1 \in 0..MaxDepth
      BY <1>1
    <2>4. ASSUME NEW h \in 0..(n + 1) PROVE g[h] = Body(g, n + 1)[h]
      <3>1. CASE h = n + 1
        <4>1. g[h - 1] = f[n]
          BY <2>3, <3>1
        <4>2. g[h] = v
          BY <3>1
        <4>3. v = WalkLevel(f[n], h)
          BY <3>1
        <4> HIDE DEF g, v
        <4>4. Body(g, n + 1)[h] = WalkLevel(g[h - 1], h)
          BY <2>3, <3>1
        <4> QED
          BY <4>1, <4>2, <4>3, <4>4
      <3>2. CASE h # n + 1
        <4>1. h \in 0..n /\ (h # 0 => h - 1 \in 0..(n + 1) /\ h - 1 # n + 1)
          BY <2>3, <3>2
        <4>2. g[h] = f[h] /\ (h # 0 => g[h - 1] = f[h - 1])
          BY <3>2, <4>1
        <4>3. f[h] = IF h = 0 THEN WalkLevel(<<>>, 0) ELSE WalkLevel(f[h - 1], h)
          BY <2>2, <4>1
        <4> HIDE DEF g
        <4>4. Body(g, n + 1)[h] = IF h = 0 THEN WalkLevel(<<>>, 0) ELSE WalkLevel(g[h - 1], h)
          OBVIOUS
        <4> QED
          BY <4>2, <4>3, <4>4
      <3> QED
        BY <3>1, <3>2
    <2>5. g = Body(g, n + 1)
      <3>1. DOMAIN Body(g, n + 1) = 0..(n + 1) /\ DOMAIN g = 0..(n + 1)
        OBVIOUS
      <3>2. g = [h \in 0..(n + 1) |-> g[h]] /\ Body(g, n + 1) = [h \in 0..(n + 1) |-> Body(g, n + 1)[h]]
        OBVIOUS
      <3> HIDE DEF g, Body
      <3> QED
        BY <2>4, <3>1, <3>2, Zenon
    <2> HIDE DEF Body, g
    <2> QED
      BY <2>3, <2>5
  <1>4. MaxDepth \in 0..MaxDepth
    BY <1>1
  <1> HIDE DEF Good
  <1>5. \A n \in 0..MaxDepth : n \in Good
    BY <1>1, <1>2, <1>3, UpTo
  <1>6. PICK f : f = Body(f, MaxDepth)
    BY <1>4, <1>5 DEF Good
  <1>7. \A g : Body(g, MaxDepth) = [h \in 0..MaxDepth |-> WalkLevel(g[h - 1], h)]
    <2> TAKE g
    <2>1. \A h \in 0..MaxDepth :
             (IF h = 0 THEN WalkLevel(<<>>, 0) ELSE WalkLevel(g[h - 1], h)) = WalkLevel(g[h - 1], h)
      BY WalkLevelBlind
    <2> QED
      BY <2>1
  <1>8. f = [h \in 0..MaxDepth |-> WalkLevel(f[h - 1], h)]
    <2> HIDE DEF Body
    <2> QED
      BY <1>6, <1>7
  <1>9. Walk = CHOOSE g : g = [h \in 0..MaxDepth |-> WalkLevel(g[h - 1], h)]
    BY DEF Walk, WalkLevel
  <1>10. Walk = [h \in 0..MaxDepth |-> WalkLevel(Walk[h - 1], h)]
    BY <1>8, <1>9
  <1>11. \A h \in 0..MaxDepth : Walk[h] = WalkLevel(Walk[h - 1], h)
    BY <1>10
  <1> QED
    BY <1>11, WalkLevelBlind

\* What is visible, level by level.
LEMMA VisibleDef ==
    \A h \in 0..MaxDepth : Visible[h] = IF h = 0 THEN SeenLevel(<<>>, 0) ELSE SeenLevel(Visible[h - 1], h)
  <1> DEFINE Body(f, n) == [h \in 0..n |-> IF h = 0 THEN SeenLevel(<<>>, 0) ELSE SeenLevel(f[h - 1], h)]
             Good == {n \in 0..MaxDepth : \E f : f = Body(f, n)}
  <1>1. MaxDepth \in Nat
    BY PageTextAssumption
  <1>2. 0 \in Good
    <2> DEFINE f == [h \in 0..0 |-> SeenLevel(<<>>, 0)]
    <2>1. f = Body(f, 0)
      OBVIOUS
    <2>2. 0 \in 0..MaxDepth
      BY <1>1
    <2> HIDE DEF Body, f
    <2> QED
      BY <2>1, <2>2
  <1>3. ASSUME NEW n \in 0..(MaxDepth - 1), n \in Good PROVE n + 1 \in Good
    <2>1. PICK f : f = Body(f, n)
      BY <1>3
    <2> DEFINE v == SeenLevel(f[n], (n + 1))
               g == [h \in 0..(n + 1) |-> IF h = n + 1 THEN v ELSE f[h]]
    <2>2. \A h \in 0..n : f[h] = IF h = 0 THEN SeenLevel(<<>>, 0) ELSE SeenLevel(f[h - 1], h)
      BY <2>1
    <2>3. n \in Nat /\ n + 1 # 0 /\ (n + 1) - 1 = n /\ n \in 0..(n + 1) /\ n # n + 1 /\ n + 1 \in 0..MaxDepth
      BY <1>1
    <2>4. ASSUME NEW h \in 0..(n + 1) PROVE g[h] = Body(g, n + 1)[h]
      <3>1. CASE h = n + 1
        <4>1. g[h - 1] = f[n]
          BY <2>3, <3>1
        <4>2. g[h] = v
          BY <3>1
        <4>3. v = SeenLevel(f[n], h)
          BY <3>1
        <4> HIDE DEF g, v
        <4>4. Body(g, n + 1)[h] = SeenLevel(g[h - 1], h)
          BY <2>3, <3>1
        <4> QED
          BY <4>1, <4>2, <4>3, <4>4
      <3>2. CASE h # n + 1
        <4>1. h \in 0..n /\ (h # 0 => h - 1 \in 0..(n + 1) /\ h - 1 # n + 1)
          BY <2>3, <3>2
        <4>2. g[h] = f[h] /\ (h # 0 => g[h - 1] = f[h - 1])
          BY <3>2, <4>1
        <4>3. f[h] = IF h = 0 THEN SeenLevel(<<>>, 0) ELSE SeenLevel(f[h - 1], h)
          BY <2>2, <4>1
        <4> HIDE DEF g
        <4>4. Body(g, n + 1)[h] = IF h = 0 THEN SeenLevel(<<>>, 0) ELSE SeenLevel(g[h - 1], h)
          OBVIOUS
        <4> QED
          BY <4>2, <4>3, <4>4
      <3> QED
        BY <3>1, <3>2
    <2>5. g = Body(g, n + 1)
      <3>1. DOMAIN Body(g, n + 1) = 0..(n + 1) /\ DOMAIN g = 0..(n + 1)
        OBVIOUS
      <3>2. g = [h \in 0..(n + 1) |-> g[h]] /\ Body(g, n + 1) = [h \in 0..(n + 1) |-> Body(g, n + 1)[h]]
        OBVIOUS
      <3> HIDE DEF g, Body
      <3> QED
        BY <2>4, <3>1, <3>2, Zenon
    <2> HIDE DEF Body, g
    <2> QED
      BY <2>3, <2>5
  <1>4. MaxDepth \in 0..MaxDepth
    BY <1>1
  <1> HIDE DEF Good
  <1>5. \A n \in 0..MaxDepth : n \in Good
    BY <1>1, <1>2, <1>3, UpTo
  <1>6. PICK f : f = Body(f, MaxDepth)
    BY <1>4, <1>5 DEF Good
  <1>7. \A g : Body(g, MaxDepth) = [h \in 0..MaxDepth |-> SeenLevel(g[h - 1], h)]
    <2> TAKE g
    <2>1. \A h \in 0..MaxDepth :
             (IF h = 0 THEN SeenLevel(<<>>, 0) ELSE SeenLevel(g[h - 1], h)) = SeenLevel(g[h - 1], h)
      BY SeenLevelBlind
    <2> QED
      BY <2>1
  <1>8. f = [h \in 0..MaxDepth |-> SeenLevel(f[h - 1], h)]
    <2> HIDE DEF Body
    <2> QED
      BY <1>6, <1>7
  <1>9. Visible = CHOOSE g : g = [h \in 0..MaxDepth |-> SeenLevel(g[h - 1], h)]
    BY DEF Visible, SeenLevel
  <1>10. Visible = [h \in 0..MaxDepth |-> SeenLevel(Visible[h - 1], h)]
    BY <1>8, <1>9
  <1>11. \A h \in 0..MaxDepth : Visible[h] = SeenLevel(Visible[h - 1], h)
    BY <1>10
  <1> QED
    BY <1>11, SeenLevelBlind

\* The children are walked one after the other.
ThroughBy(walk, children, out, f) ==
    /\ f \in [0..Len(children) -> Seq(TextNodes)] /\ f[0] = out
    /\ \A i \in 1..Len(children) : f[i] = walk[<<children[i], f[i - 1]>>]
    /\ Through(walk, children, out) = f[Len(children)]

LEMMA ThroughDef ==
    ASSUME NEW R, NEW walk \in [R \X Seq(TextNodes) -> Seq(TextNodes)],
           NEW children \in Seq(R), NEW out \in Seq(TextNodes)
    PROVE  \E f : ThroughBy(walk, children, out, f)
  <1> DEFINE N == Len(children)
             V == Seq(TextNodes)
             A == out
             G == [i \in 1..N |-> [x \in V |-> walk[<<children[i], x>>]]]
             Body(f) == [n \in 0..N |-> IF n = 0 THEN A ELSE walk[<<children[n], f[n - 1]>>]]
             after == CHOOSE f : f = Body(f)
  <1>1. N \in Nat
    OBVIOUS
  <1>2. A \in V
    OBVIOUS
  <1>3. ASSUME NEW i \in 1..N, NEW x \in V PROVE walk[<<children[i], x>>] \in V
    <2>1. children[i] \in R
      BY ElementOfSeq
    <2> QED
      BY <2>1
  <1>4. Through(walk, children, out) = after[Len(children)]
    BY DEF Through
  <1> HIDE DEF N, V, A
  <1>5. \A i \in 1..N, x \in V : G[i][x] = walk[<<children[i], x>>]
    OBVIOUS
  <1>6. G \in [1..N -> [V -> V]]
    BY <1>3, <1>5
  <1> HIDE DEF G
  <1>7. PICK f \in [0..N -> V] : Recursion(f, A, G, N)
    BY <1>1, <1>2, <1>6, RecursionExists, Zenon
  <1>8. \A i \in 1..N : i \in 0..N /\ i - 1 \in 0..N /\ i # 0
    BY <1>1
  <1>9. \A i \in 1..N : f[i] = walk[<<children[i], f[i - 1]>>]
    BY <1>5, <1>7, <1>8 DEF Recursion
  <1>10. f = Body(f)
    <2>1. ASSUME NEW i \in 0..N PROVE f[i] = Body(f)[i]
      <3>1. CASE i = 0
        BY <1>7, <3>1 DEF Recursion
      <3>2. CASE i # 0
        <4>1. i \in 1..N
          BY <1>1, <3>2
        <4> QED
          BY <1>9, <3>2, <4>1
      <3> QED
        BY <3>1, <3>2
    <2> QED
      BY <1>7, <2>1
  <1>11. after = Body(after)
    BY <1>10
  <1> HIDE DEF after
  <1>12. after[0] = A /\ \A i \in 1..N : after[i] = walk[<<children[i], after[i - 1]>>]
    <2>1. \A i \in 0..N : after[i] = Body(after)[i]
      BY <1>11
    <2>2. 0 \in 0..N
      BY <1>1
    <2> QED
      BY <1>8, <2>1, <2>2
  <1>13. \A i \in 0..N : after[i] \in V
    <2>1. \A i \in 1..N : after[i - 1] \in V => after[i] = G[i][after[i - 1]]
      BY <1>5, <1>12
    <2> QED
      BY <1>1, <1>2, <1>6, <1>12, <2>1, RecursionTypes
  <1>14. after \in [0..N -> V]
    BY <1>11, <1>13
  <1> QED
    BY <1>4, <1>12, <1>14 DEF N, V, A, ThroughBy

\* What is visible of the children is joined.
LEMMA JoinedDef ==
    ASSUME NEW R, NEW visible \in [R -> Seq(TextNodes)], NEW children \in Seq(R)
    PROVE  \E f : /\ f \in [0..Len(children) -> Seq(TextNodes)] /\ f[0] = <<>>
                  /\ \A i \in 1..Len(children) : f[i] = (f[i - 1] \o visible[children[i]])
                  /\ Joined(visible, children) = f[Len(children)]
  <1> DEFINE N == Len(children)
             V == Seq(TextNodes)
             A == <<>>
             G == [i \in 1..N |-> [x \in V |-> (x \o visible[children[i]])]]
             Body(f) == [n \in 0..N |-> IF n = 0 THEN A ELSE (f[n - 1] \o visible[children[n]])]
             after == CHOOSE f : f = Body(f)
  <1>1. N \in Nat
    OBVIOUS
  <1>2. A \in V
    OBVIOUS
  <1>3. ASSUME NEW i \in 1..N, NEW x \in V PROVE (x \o visible[children[i]]) \in V
    <2>1. children[i] \in R
      BY ElementOfSeq
    <2>2. visible[children[i]] \in Seq(TextNodes)
      BY <2>1
    <2> QED
      BY <2>2, ConcatProperties
  <1>4. Joined(visible, children) = after[Len(children)]
    BY DEF Joined
  <1> HIDE DEF N, V, A
  <1>5. \A i \in 1..N, x \in V : G[i][x] = (x \o visible[children[i]])
    OBVIOUS
  <1>6. G \in [1..N -> [V -> V]]
    BY <1>3, <1>5
  <1> HIDE DEF G
  <1>7. PICK f \in [0..N -> V] : Recursion(f, A, G, N)
    BY <1>1, <1>2, <1>6, RecursionExists, Zenon
  <1>8. \A i \in 1..N : i \in 0..N /\ i - 1 \in 0..N /\ i # 0
    BY <1>1
  <1>9. \A i \in 1..N : f[i] = (f[i - 1] \o visible[children[i]])
    BY <1>5, <1>7, <1>8 DEF Recursion
  <1>10. f = Body(f)
    <2>1. ASSUME NEW i \in 0..N PROVE f[i] = Body(f)[i]
      <3>1. CASE i = 0
        BY <1>7, <3>1 DEF Recursion
      <3>2. CASE i # 0
        <4>1. i \in 1..N
          BY <1>1, <3>2
        <4> QED
          BY <1>9, <3>2, <4>1
      <3> QED
        BY <3>1, <3>2
    <2> QED
      BY <1>7, <2>1
  <1>11. after = Body(after)
    BY <1>10
  <1> HIDE DEF after
  <1>12. after[0] = A /\ \A i \in 1..N : after[i] = (after[i - 1] \o visible[children[i]])
    <2>1. \A i \in 0..N : after[i] = Body(after)[i]
      BY <1>11
    <2>2. 0 \in 0..N
      BY <1>1
    <2> QED
      BY <1>8, <2>1, <2>2
  <1>13. \A i \in 0..N : after[i] \in V
    <2>1. \A i \in 1..N : after[i - 1] \in V => after[i] = G[i][after[i - 1]]
      BY <1>5, <1>12
    <2> QED
      BY <1>1, <1>2, <1>6, <1>12, <2>1, RecursionTypes
  <1>14. after \in [0..N -> V]
    BY <1>11, <1>13
  <1> QED
    BY <1>4, <1>12, <1>14 DEF N, V, A

\* The size is a number.
LEMMA SizeDef ==
    ASSUME NEW out \in Seq(TextNodes)
    PROVE  \E f : /\ f \in [0..Len(out) -> Nat] /\ f[0] = 0
                  /\ \A i \in 1..Len(out) : f[i] = (f[i - 1] + out[i].size + 1)
                  /\ SizeOf(out) = f[Len(out)]
  <1> DEFINE N == Len(out)
             V == Nat
             A == 0
             G == [i \in 1..N |-> [x \in V |-> (x + out[i].size + 1)]]
             Body(f) == [n \in 0..N |-> IF n = 0 THEN A ELSE (f[n - 1] + out[n].size + 1)]
             after == CHOOSE f : f = Body(f)
  <1>1. N \in Nat
    OBVIOUS
  <1>2. A \in V
    OBVIOUS
  <1>3. ASSUME NEW i \in 1..N, NEW x \in V PROVE (x + out[i].size + 1) \in V
    <2>1. out[i] \in TextNodes
      BY ElementOfSeq
    <2>2. out[i].size \in Nat
      BY <2>1, PageTextAssumption
    <2> QED
      BY <2>2
  <1>4. SizeOf(out) = after[Len(out)]
    BY DEF SizeOf
  <1> HIDE DEF N, V, A
  <1>5. \A i \in 1..N, x \in V : G[i][x] = (x + out[i].size + 1)
    OBVIOUS
  <1>6. G \in [1..N -> [V -> V]]
    BY <1>3, <1>5
  <1> HIDE DEF G
  <1>7. PICK f \in [0..N -> V] : Recursion(f, A, G, N)
    BY <1>1, <1>2, <1>6, RecursionExists, Zenon
  <1>8. \A i \in 1..N : i \in 0..N /\ i - 1 \in 0..N /\ i # 0
    BY <1>1
  <1>9. \A i \in 1..N : f[i] = (f[i - 1] + out[i].size + 1)
    BY <1>5, <1>7, <1>8 DEF Recursion
  <1>10. f = Body(f)
    <2>1. ASSUME NEW i \in 0..N PROVE f[i] = Body(f)[i]
      <3>1. CASE i = 0
        BY <1>7, <3>1 DEF Recursion
      <3>2. CASE i # 0
        <4>1. i \in 1..N
          BY <1>1, <3>2
        <4> QED
          BY <1>9, <3>2, <4>1
      <3> QED
        BY <3>1, <3>2
    <2> QED
      BY <1>7, <2>1
  <1>11. after = Body(after)
    BY <1>10
  <1> HIDE DEF after
  <1>12. after[0] = A /\ \A i \in 1..N : after[i] = (after[i - 1] + out[i].size + 1)
    <2>1. \A i \in 0..N : after[i] = Body(after)[i]
      BY <1>11
    <2>2. 0 \in 0..N
      BY <1>1
    <2> QED
      BY <1>8, <2>1, <2>2
  <1>13. \A i \in 0..N : after[i] \in V
    <2>1. \A i \in 1..N : after[i - 1] \in V => after[i] = G[i][after[i - 1]]
      BY <1>5, <1>12
    <2> QED
      BY <1>1, <1>2, <1>6, <1>12, <2>1, RecursionTypes
  <1>14. after \in [0..N -> V]
    BY <1>11, <1>13
  <1> QED
    BY <1>4, <1>12, <1>14 DEF N, V, A

LEMMA FirstPart ==
    ASSUME NEW R, NEW v \in Seq(R), NEW w \in Seq(R), NEW j \in 0..Len(v)
    PROVE  SubSeq(v \o w, 1, j) = SubSeq(v, 1, j)
  <1> DEFINE a == v \o w
             s == SubSeq(a, 1, j)
             t == SubSeq(v, 1, j)
  <1>1. a \in Seq(R) /\ Len(a) = Len(v) + Len(w) /\ \A i \in 1..Len(v) : a[i] = v[i]
    BY ConcatBegins
  <1>2. j \in Nat /\ j <= Len(v) /\ Len(v) \in Nat /\ Len(w) \in Nat
    OBVIOUS
  <1>3. t \in Seq(R) /\ Len(t) = j /\ \A i \in 1..j : t[i] = v[i]
    BY <1>2, PrefixSeq
  <1> HIDE DEF a
  <1>4. s \in Seq(R) /\ Len(s) = j /\ \A i \in 1..j : s[i] = a[i]
    BY <1>1, <1>2, PrefixSeq
  <1> HIDE DEF s, t
  <1>5. ASSUME NEW i \in 1..Len(s) PROVE s[i] = t[i]
    <2>1. i \in 1..j /\ i \in 1..Len(v)
      BY <1>2, <1>4
    <2> QED
      BY <1>1, <1>3, <1>4, <2>1
  <1>6. s = t
    BY <1>3, <1>4, <1>5, SeqEqual
  <1> QED
    BY <1>6 DEF s, t, a

LEMMA SecondPart ==
    ASSUME NEW R, NEW v \in Seq(R), NEW w \in Seq(R), NEW j \in 0..Len(w)
    PROVE  SubSeq(v \o w, 1, Len(v) + j) = v \o SubSeq(w, 1, j)
  <1> DEFINE a == v \o w
             n == Len(v)
             s == SubSeq(a, 1, n + j)
             x == SubSeq(w, 1, j)
             t == v \o x
  <1>1. /\ a \in Seq(R) /\ Len(a) = n + Len(w) /\ \A i \in 1..n : a[i] = v[i]
        /\ \A i \in 1..Len(w) : a[n + i] = w[i]
    BY ConcatBegins
  <1>2. j \in Nat /\ j <= Len(w) /\ n \in Nat /\ Len(w) \in Nat
    OBVIOUS
  <1>3. x \in Seq(R) /\ Len(x) = j /\ \A i \in 1..j : x[i] = w[i]
    BY <1>2, PrefixSeq
  <1> HIDE DEF a, x, n
  <1>4. s \in Seq(R) /\ Len(s) = n + j /\ \A i \in 1..(n + j) : s[i] = a[i]
    <2>1. n + j \in Nat /\ n + j <= Len(a)
      BY <1>1, <1>2
    <2> QED
      BY <1>1, <2>1, PrefixSeq
  <1>5. /\ t \in Seq(R) /\ Len(t) = n + j /\ \A i \in 1..n : t[i] = v[i]
        /\ \A i \in 1..j : t[n + i] = x[i]
    <2>1. v \in Seq(R) /\ x \in Seq(R)
      BY <1>3
    <2>2. /\ v \o x \in Seq(R) /\ Len(v \o x) = Len(v) + Len(x)
          /\ \A i \in 1..Len(v) : (v \o x)[i] = v[i]
          /\ \A i \in 1..Len(x) : (v \o x)[Len(v) + i] = x[i]
      BY <2>1, ConcatBegins
    <2> QED
      BY <1>3, <2>2 DEF n
  <1> HIDE DEF s, t
  <1>6. ASSUME NEW i \in 1..Len(s) PROVE s[i] = t[i]
    <2>1. CASE i <= n
      <3>1. i \in 1..n /\ i \in 1..(n + j)
        BY <1>2, <1>4, <2>1
      <3> QED
        BY <1>1, <1>4, <1>5, <3>1
    <2>2. CASE i > n
      <3>1. i - n \in 1..j /\ n + (i - n) = i /\ i \in 1..(n + j) /\ i - n \in 1..Len(w)
        BY <1>2, <1>4, <2>2
      <3>2. s[i] = a[n + (i - n)] /\ t[i] = x[i - n]
        BY <1>4, <1>5, <3>1
      <3> QED
        BY <1>1, <1>3, <3>1, <3>2
    <2> QED
      BY <1>2, <1>4, <2>1, <2>2
  <1>7. s = t
    BY <1>4, <1>5, <1>6, SeqEqual
  <1> QED
    BY <1>7 DEF s, t, a, n, x

\* What was taken after out is a beginning of v, all of it or the shortest with which
\* there is enough.
TakenUpTo(out, r, v, k) ==
    /\ r = out \o SubSeq(v, 1, k)
    /\ k = Len(v) \/ Full(r)
    /\ \A j \in 0..(k - 1) : ~Full(out \o SubSeq(v, 1, j))

TakenFrom(out, r, v) == \E k \in 0..Len(v) : TakenUpTo(out, r, v, k)

NodeTexts == Seq(TextNodes)

LEMMA TextsAssociate ==
    ASSUME NEW r \in NodeTexts, NEW v \in NodeTexts, NEW w \in NodeTexts
    PROVE  Associate(r, v, w)
  BY Associates DEF NodeTexts, Associate

LEMMA NothingOf == ASSUME NEW out \in NodeTexts, NEW v PROVE out \o SubSeq(v, 1, 0) = out
  <1>1. SubSeq(v, 1, 0) = <<>>
    BY SubSeqEmpty
  <1> QED
    BY <1>1, ConcatEmptySeq DEF NodeTexts

LEMMA TakesNothing ==
    ASSUME NEW out \in NodeTexts, NEW v \in NodeTexts, Full(out) \/ v = <<>>
    PROVE  TakenFrom(out, out, v)
  <1>1. 0 \in 0..Len(v) /\ 0..(0 - 1) = {} /\ (v = <<>> => Len(v) = 0)
    BY DEF NodeTexts
  <1> QED
    BY <1>1, NothingOf DEF TakenFrom, TakenUpTo

LEMMA TakesOne ==
    ASSUME NEW out \in NodeTexts, NEW t \in TextNodes, ~Full(out)
    PROVE  TakenFrom(out, Append(out, t), <<t>>)
  <1>1. SubSeq(<<t>>, 1, 1) = <<t>> /\ Len(<<t>>) = 1 /\ 1 \in 0..Len(<<t>>) /\ 0..(1 - 1) = {0}
    <2>1. <<t>> \in Seq(TextNodes) /\ Len(<<t>>) = 1
      OBVIOUS
    <2>2. SubSeq(<<t>>, 1, Len(<<t>>)) = <<t>>
      BY <2>1, SubSeqFull
    <2>3. 0..(1 - 1) = {0} /\ 1 \in 0..1
      OBVIOUS
    <2> QED
      BY <2>1, <2>2, <2>3
  <1>2. Append(out, t) = out \o <<t>>
    BY AppendIsConcat DEF NodeTexts
  <1>3. out \o SubSeq(<<t>>, 1, 0) = out
    BY NothingOf
  <1>4. \A j \in 0..(1 - 1) : ~Full(out \o SubSeq(<<t>>, 1, j))
    BY <1>1, <1>3
  <1>5. TakenUpTo(out, Append(out, t), <<t>>, 1)
    BY <1>1, <1>2, <1>4 DEF TakenUpTo
  <1> QED
    BY <1>1, <1>5 DEF TakenFrom

LEMMA TakesMore ==
    ASSUME NEW out \in NodeTexts, NEW r \in NodeTexts, NEW v \in NodeTexts, NEW w \in NodeTexts,
           NEW q, TakenFrom(out, r, v), TakenFrom(r, q, w)
    PROVE  TakenFrom(out, q, v \o w)
  <1> DEFINE vw == v \o w
  <1>1. PICK k \in 0..Len(v) : TakenUpTo(out, r, v, k)
    BY DEF TakenFrom
  <1>2. PICK m \in 0..Len(w) : TakenUpTo(r, q, w, m)
    BY DEF TakenFrom
  <1>3. vw \in NodeTexts /\ Len(vw) = Len(v) + Len(w) /\ Len(v) \in Nat /\ Len(w) \in Nat
    BY ConcatProperties DEF NodeTexts
  <1>4. \A j \in 0..Len(v) : SubSeq(vw, 1, j) = SubSeq(v, 1, j)
    BY FirstPart DEF NodeTexts
  <1>5. \A j \in 0..Len(w) : SubSeq(vw, 1, Len(v) + j) = v \o SubSeq(w, 1, j)
    BY SecondPart DEF NodeTexts
  <1> HIDE DEF vw
  <1>6. CASE k = Len(v)
    <2>1. SubSeq(v, 1, k) = v
      BY <1>6 DEF NodeTexts
    <2>2. r = out \o v
      BY <1>1, <2>1 DEF TakenUpTo
    <2>3. ASSUME NEW j \in 0..Len(w)
          PROVE  r \o SubSeq(w, 1, j) = out \o SubSeq(vw, 1, Len(v) + j)
      <3> DEFINE x == SubSeq(w, 1, j)
      <3>1. x \in NodeTexts
        <4>1. j \in Nat /\ j <= Len(w)
          OBVIOUS
        <4> QED
          BY <4>1, PrefixSeq DEF NodeTexts
      <3>2. SubSeq(vw, 1, Len(v) + j) = v \o x
        BY <1>5
      <3> HIDE DEF x
      <3>3. out \o (v \o x) = (out \o v) \o x
        <4>1. Associate(out, v, x)
          BY <3>1, TextsAssociate
        <4> QED
          BY <4>1 DEF Associate
      <3>4. r \o x = out \o SubSeq(vw, 1, Len(v) + j)
        BY <2>2, <3>2, <3>3
      <3> QED
        BY <3>4 DEF x
    <2>4. Len(v) + m \in 0..Len(vw)
      BY <1>3
    <2>5. q = out \o SubSeq(vw, 1, Len(v) + m)
      BY <1>2, <2>3 DEF TakenUpTo
    <2>6. Len(v) + m = Len(vw) \/ Full(q)
      BY <1>2, <1>3 DEF TakenUpTo
    <2>7. ASSUME NEW j \in 0..(Len(v) + m - 1) PROVE ~Full(out \o SubSeq(vw, 1, j))
      <3>1. CASE j < Len(v)
        <4>1. j \in 0..Len(v) /\ j \in 0..(k - 1)
          BY <1>3, <1>6, <3>1
        <4>2. ~Full(out \o SubSeq(v, 1, j))
          BY <1>1, <4>1 DEF TakenUpTo
        <4> QED
          BY <1>4, <4>1, <4>2
      <3>2. CASE j >= Len(v)
        <4>1. j - Len(v) \in 0..(m - 1) /\ j - Len(v) \in 0..Len(w) /\ Len(v) + (j - Len(v)) = j
          BY <1>3, <3>2
        <4>2. ~Full(r \o SubSeq(w, 1, j - Len(v)))
          BY <1>2, <4>1 DEF TakenUpTo
        <4>3. r \o SubSeq(w, 1, j - Len(v)) = out \o SubSeq(vw, 1, Len(v) + (j - Len(v)))
          BY <2>3, <4>1
        <4> QED
          BY <4>1, <4>2, <4>3
      <3> QED
        BY <1>3, <3>1, <3>2
    <2>8. TakenUpTo(out, q, vw, Len(v) + m)
      BY <2>5, <2>6, <2>7 DEF TakenUpTo
    <2>9. TakenFrom(out, q, vw)
      BY <2>4, <2>8 DEF TakenFrom
    <2> QED
      BY <2>9 DEF vw
  <1>7. CASE k # Len(v)
    <2>1. Full(r)
      BY <1>1, <1>7 DEF TakenUpTo
    <2>2. m = 0
      <3>1. ASSUME m # 0 PROVE FALSE
        <4>1. 0 \in 0..(m - 1)
          BY <3>1
        <4>2. ~Full(r \o SubSeq(w, 1, 0))
          BY <1>2, <4>1 DEF TakenUpTo
        <4> QED
          BY <2>1, <4>2, NothingOf
      <3> QED
        BY <3>1
    <2>3. q = r
      BY <1>2, <2>2, NothingOf DEF TakenUpTo
    <2>4. k \in 0..Len(vw) /\ SubSeq(vw, 1, k) = SubSeq(v, 1, k)
      BY <1>3, <1>4
    <2>5. \A j \in 0..(k - 1) : ~Full(out \o SubSeq(vw, 1, j))
      <3> TAKE j \in 0..(k - 1)
      <3>1. j \in 0..Len(v)
        BY <1>3
      <3> QED
        BY <1>1, <1>4, <3>1 DEF TakenUpTo
    <2>6. TakenUpTo(out, q, vw, k)
      BY <1>1, <2>1, <2>3, <2>4, <2>5 DEF TakenUpTo
    <2>7. TakenFrom(out, q, vw)
      BY <2>4, <2>6 DEF TakenFrom
    <2> QED
      BY <2>7 DEF vw
  <1> QED
    BY <1>6, <1>7

\* dfs on the nodes of a level takes from what is visible of them.
LevelRight(h) ==
    /\ Walk[h] \in [Nodes[h] \X NodeTexts -> NodeTexts]
    /\ Visible[h] \in [Nodes[h] -> NodeTexts]
    /\ \A node \in Nodes[h], out \in NodeTexts :
          TakenFrom(out, Walk[h][<<node, out>>], Visible[h][node])

LEMMA ChildrenRight ==
    ASSUME NEW h \in 0..MaxDepth, LevelRight(h), NEW children \in Seq(Nodes[h]), NEW out \in NodeTexts
    PROVE  /\ Through(Walk[h], children, out) \in NodeTexts
           /\ Joined(Visible[h], children) \in NodeTexts
           /\ TakenFrom(out, Through(Walk[h], children, out), Joined(Visible[h], children))
  <1> DEFINE R == Nodes[h]
             L == Len(children)
             walk == Walk[h]
             visible == Visible[h]
  <1>1. walk \in [R \X NodeTexts -> NodeTexts] /\ visible \in [R -> NodeTexts] /\ L \in Nat
    BY DEF LevelRight
  <1>2. \A node \in R, o \in NodeTexts : TakenFrom(o, walk[<<node, o>>], visible[node])
    BY DEF LevelRight
  <1>3. \A i \in 1..L : children[i] \in R
    BY ElementOfSeq
  <1>4. children \in Seq(R)
    OBVIOUS
  <1> HIDE DEF R, walk, visible
  <1>5. PICK f : /\ f \in [0..L -> NodeTexts] /\ f[0] = out
                 /\ \A i \in 1..L : f[i] = walk[<<children[i], f[i - 1]>>]
                 /\ Through(walk, children, out) = f[L]
    <2>1. walk \in [R \X Seq(TextNodes) -> Seq(TextNodes)] /\ out \in Seq(TextNodes)
      BY <1>1 DEF NodeTexts
    <2>2. \E f : ThroughBy(walk, children, out, f)
      BY <1>4, <2>1, ThroughDef
    <2> QED
      BY <2>2 DEF NodeTexts, ThroughBy
  <1>6. PICK g : /\ g \in [0..L -> NodeTexts] /\ g[0] = <<>>
                 /\ \A i \in 1..L : g[i] = (g[i - 1] \o visible[children[i]])
                 /\ Joined(visible, children) = g[L]
    <2>1. visible \in [R -> Seq(TextNodes)]
      BY <1>1 DEF NodeTexts
    <2> QED
      BY <1>4, <2>1, JoinedDef, Zenon DEF NodeTexts
  <1> DEFINE Good == {n \in 0..L : TakenFrom(out, f[n], g[n])}
  <1>7. 0 \in Good
    <2>1. TakenFrom(out, out, <<>>)
      <3>1. <<>> \in NodeTexts
        BY DEF NodeTexts
      <3> QED
        BY <3>1, TakesNothing
    <2> QED
      BY <1>1, <1>5, <1>6, <2>1
  <1>8. ASSUME NEW n \in 0..(L - 1), n \in Good PROVE n + 1 \in Good
    <2>1. n + 1 \in 1..L /\ (n + 1) - 1 = n /\ n \in 0..L /\ n + 1 \in 0..L
      BY <1>1
    <2>2. /\ f[n] \in NodeTexts /\ g[n] \in NodeTexts /\ children[n + 1] \in R
          /\ f[n + 1] = walk[<<children[n + 1], f[n]>>]
          /\ g[n + 1] = g[n] \o visible[children[n + 1]]
      BY <1>3, <1>5, <1>6, <2>1
    <2>3. visible[children[n + 1]] \in NodeTexts
      BY <1>1, <2>2
    <2>4. TakenFrom(f[n], f[n + 1], visible[children[n + 1]])
      BY <1>2, <2>2
    <2>5. TakenFrom(out, f[n], g[n])
      BY <1>8
    <2>6. TakenFrom(out, f[n + 1], g[n] \o visible[children[n + 1]])
      BY <2>2, <2>3, <2>4, <2>5, TakesMore
    <2> QED
      BY <2>1, <2>2, <2>6
  <1>9. L \in 0..L
    BY <1>1
  <1> HIDE DEF Good
  <1>10. \A n \in 0..L : n \in Good
    BY <1>1, <1>7, <1>8, UpTo
  <1>11. TakenFrom(out, f[L], g[L]) /\ f[L] \in NodeTexts /\ g[L] \in NodeTexts
    BY <1>5, <1>6, <1>9, <1>10 DEF Good
  <1> QED
    BY <1>5, <1>6, <1>11 DEF walk, visible

LEMMA NodeRight ==
    ASSUME NEW h \in 0..MaxDepth, h # 0 => LevelRight(h - 1), NEW node \in Nodes[h], NEW out \in NodeTexts
    PROVE  /\ Walked(Walk[h - 1], node, out) \in NodeTexts
           /\ Seen(Visible[h - 1], node) \in NodeTexts
           /\ TakenFrom(out, Walked(Walk[h - 1], node, out), Seen(Visible[h - 1], node))
  <1> DEFINE r == Walked(Walk[h - 1], node, out)
             v == Seen(Visible[h - 1], node)
  <1>1. <<>> \in NodeTexts
    BY DEF NodeTexts
  <1>2. "text" # "element"
    OBVIOUS
  <1>3. CASE node \in TextNodes /\ node.kind = "text" /\ node.blank \in BOOLEAN
    <2>1. CASE node.blank
      <3>1. r = out /\ v = <<>>
        BY <1>3, <2>1 DEF Walked, Seen
      <3> HIDE DEF r, v
      <3>2. TakenFrom(out, r, v)
        BY <1>1, <3>1, TakesNothing
      <3>3. r \in NodeTexts /\ v \in NodeTexts
        BY <1>1, <3>1
      <3> QED
        BY <3>2, <3>3 DEF r, v
    <2>2. CASE ~node.blank
      <3>1. v = <<node>> /\ r = IF Full(out) THEN out ELSE Append(out, node)
        BY <1>3, <2>2 DEF Walked, Seen
      <3>2. <<node>> \in NodeTexts /\ Append(out, node) \in NodeTexts
        BY <1>3, AppendSeq DEF NodeTexts
      <3> HIDE DEF r, v
      <3>3. TakenFrom(out, r, v)
        <4>1. CASE Full(out)
          BY <3>1, <3>2, <4>1, TakesNothing
        <4>2. CASE ~Full(out)
          BY <1>3, <3>1, <4>2, TakesOne
        <4> QED
          BY <4>1, <4>2
      <3>4. r \in NodeTexts /\ v \in NodeTexts
        BY <3>1, <3>2
      <3> QED
        BY <3>3, <3>4 DEF r, v
    <2> QED
      BY <1>3, <2>1, <2>2
  <1>4. CASE /\ h # 0 /\ h - 1 \in 0..MaxDepth /\ node.kind = "element" /\ node.visible \in BOOLEAN
             /\ node.children \in Seq(Nodes[h - 1])
    <2> DEFINE through == Through(Walk[h - 1], node.children, out)
               joined == Joined(Visible[h - 1], node.children)
    <2>1. through \in NodeTexts /\ joined \in NodeTexts /\ TakenFrom(out, through, joined)
      BY <1>4, ChildrenRight
    <2>2. v = IF node.visible THEN joined ELSE <<>>
      BY <1>2, <1>4 DEF Seen
    <2>3. r = IF Full(out) THEN out ELSE IF node.visible THEN through ELSE out
      BY <1>2, <1>4 DEF Walked
    <2> HIDE DEF through, joined, r, v
    <2>4. r \in NodeTexts /\ v \in NodeTexts
      BY <1>1, <2>1, <2>2, <2>3
    <2>5. TakenFrom(out, r, v)
      <3>1. CASE Full(out) \/ ~node.visible
        <4>1. r = out /\ (Full(out) \/ v = <<>>)
          BY <2>2, <2>3, <3>1
        <4> QED
          BY <2>4, <4>1, TakesNothing
      <3>2. CASE ~Full(out) /\ node.visible
        BY <2>1, <2>2, <2>3, <3>2
      <3> QED
        BY <3>1, <3>2
    <2> QED
      BY <2>4, <2>5 DEF r, v
  <1> QED
    BY <1>3, <1>4, NodeKinds

LEMMA LevelsRight == \A h \in 0..MaxDepth : LevelRight(h)
  <1>1. MaxDepth \in Nat
    BY PageTextAssumption
  <1>2. ASSUME NEW h \in 0..MaxDepth, h # 0 => LevelRight(h - 1) PROVE LevelRight(h)
    <2>1. /\ Walk[h] = [a \in Nodes[h] \X NodeTexts |-> Walked(Walk[h - 1], a[1], a[2])]
          /\ Visible[h] = [node \in Nodes[h] |-> Seen(Visible[h - 1], node)]
      <3>1. Walk[h] = WalkLevel(Walk[h - 1], h)
        <4>1. h = 0 => WalkLevel(Walk[h - 1], h) = WalkLevel(<<>>, 0)
          BY WalkLevelBlind
        <4> QED
          BY <4>1, WalkDef
      <3>2. Visible[h] = SeenLevel(Visible[h - 1], h)
        <4>1. h = 0 => SeenLevel(Visible[h - 1], h) = SeenLevel(<<>>, 0)
          BY SeenLevelBlind
        <4> QED
          BY <4>1, VisibleDef
      <3> QED
        BY <3>1, <3>2 DEF WalkLevel, SeenLevel, NodeTexts
    <2>2. \A node \in Nodes[h], out \in NodeTexts :
             /\ Walked(Walk[h - 1], node, out) \in NodeTexts
             /\ Seen(Visible[h - 1], node) \in NodeTexts
             /\ TakenFrom(out, Walked(Walk[h - 1], node, out), Seen(Visible[h - 1], node))
      BY <1>2, NodeRight
    <2>3. Walk[h] \in [Nodes[h] \X NodeTexts -> NodeTexts]
      <3>1. \A a \in Nodes[h] \X NodeTexts : Walked(Walk[h - 1], a[1], a[2]) \in NodeTexts
        BY <2>2
      <3> QED
        BY <2>1, <3>1
    <2>4. Visible[h] \in [Nodes[h] -> NodeTexts]
      <3>1. <<>> \in NodeTexts
        BY DEF NodeTexts
      <3>2. \A node \in Nodes[h] : Seen(Visible[h - 1], node) \in NodeTexts
        BY <2>2, <3>1
      <3> QED
        BY <2>1, <3>2
    <2>5. ASSUME NEW node \in Nodes[h], NEW out \in NodeTexts
          PROVE  TakenFrom(out, Walk[h][<<node, out>>], Visible[h][node])
      <3>1. <<node, out>> \in Nodes[h] \X NodeTexts /\ <<node, out>>[1] = node /\ <<node, out>>[2] = out
        OBVIOUS
      <3>2. Walk[h][<<node, out>>] = Walked(Walk[h - 1], node, out)
        BY <2>1, <3>1
      <3>3. Visible[h][node] = Seen(Visible[h - 1], node)
        BY <2>1
      <3> QED
        BY <2>2, <3>2, <3>3
    <2> QED
      BY <2>3, <2>4, <2>5 DEF LevelRight
  <1> DEFINE Good == {h \in 0..MaxDepth : LevelRight(h)}
  <1>3. 0 \in Good
    <2>1. 0 \in 0..MaxDepth
      BY <1>1
    <2> QED
      BY <1>2, <2>1
  <1>4. ASSUME NEW n \in 0..(MaxDepth - 1), n \in Good PROVE n + 1 \in Good
    <2>1. n + 1 \in 0..MaxDepth /\ (n + 1) - 1 = n
      BY <1>1
    <2> QED
      BY <1>2, <1>4, <2>1
  <1> HIDE DEF Good
  <1>5. \A h \in 0..MaxDepth : h \in Good
    BY <1>1, <1>3, <1>4, UpTo
  <1> QED
    BY <1>5 DEF Good

LEMMA TextIsRight == ASSUME NEW root \in Nodes[MaxDepth] PROVE TextRight(root)
  <1> DEFINE out == dfs(root, <<>>)
             v == VisibleTexts(root)
  <1>1. MaxDepth \in 0..MaxDepth /\ <<>> \in NodeTexts
    BY PageTextAssumption DEF NodeTexts
  <1>2. out \in NodeTexts /\ v \in NodeTexts /\ TakenFrom(<<>>, out, v)
    BY <1>1, LevelsRight DEF LevelRight, dfs, VisibleTexts
  <1> HIDE DEF out, v
  <1>3. PICK k \in 0..Len(v) : TakenUpTo(<<>>, out, v, k)
    BY <1>2 DEF TakenFrom
  <1>4. \A j \in 0..Len(v) : /\ SubSeq(v, 1, j) \in NodeTexts /\ Len(SubSeq(v, 1, j)) = j
                             /\ <<>> \o SubSeq(v, 1, j) = SubSeq(v, 1, j)
    <2> TAKE j \in 0..Len(v)
    <2>1. v \in Seq(TextNodes) /\ j \in Nat /\ j <= Len(v)
      BY <1>2 DEF NodeTexts
    <2>2. SubSeq(v, 1, j) \in Seq(TextNodes) /\ Len(SubSeq(v, 1, j)) = j
      BY <2>1, PrefixSeq
    <2> QED
      BY <2>2, ConcatEmptySeq DEF NodeTexts
  <1>5. out = SubSeq(v, 1, k) /\ Len(out) = k
    BY <1>3, <1>4 DEF TakenUpTo
  <1>6. Len(v) \in Nat /\ SubSeq(v, 1, Len(v)) = v /\ SubSeq(out, 1, Len(out)) = out
    BY <1>2, SubSeqFull, LenProperties DEF NodeTexts
  <1>7. IsPrefix(out, v)
    <2>1. Len(out) <= Len(v) /\ SubSeq(out, 1, Len(out)) = SubSeq(v, 1, Len(out))
      BY <1>5, <1>6
    <2> QED
      BY <2>1 DEF IsPrefix
  <1>8. Full(out) \/ out = v
    BY <1>3, <1>5, <1>6 DEF TakenUpTo
  <1>9. ASSUME out # <<>> PROVE SizeOf(Front(out)) <= Limit
    <2>1. /\ Len(out) \in Nat \ {0}
          /\ Front(out) \in Seq(TextNodes) /\ Len(Front(out)) = Len(out) - 1
          /\ \A i \in 1..(Len(out) - 1) : Front(out)[i] = out[i]
      BY <1>2, <1>9, FrontSeq DEF NodeTexts
    <2>2. k - 1 \in 0..Len(v) /\ k - 1 \in 0..(k - 1)
      BY <1>5, <1>6, <2>1
    <2>3. Front(out) = SubSeq(v, 1, k - 1)
      <3>1. /\ SubSeq(v, 1, k - 1) \in Seq(TextNodes) /\ Len(SubSeq(v, 1, k - 1)) = k - 1
            /\ \A i \in 1..(k - 1) : SubSeq(v, 1, k - 1)[i] = v[i]
        <4>1. v \in Seq(TextNodes) /\ k - 1 \in Nat /\ k - 1 <= Len(v)
          BY <1>2, <1>6, <2>2 DEF NodeTexts
        <4> QED
          BY <4>1, PrefixSeq
      <3>2. \A i \in 1..k : SubSeq(v, 1, k)[i] = v[i]
        <4>1. v \in Seq(TextNodes) /\ k \in Nat /\ k <= Len(v)
          BY <1>2, <1>6 DEF NodeTexts
        <4> QED
          BY <4>1, PrefixSeq
      <3>3. \A i \in 1..(k - 1) : Front(out)[i] = SubSeq(v, 1, k - 1)[i]
        <4> TAKE i \in 1..(k - 1)
        <4>1. i \in 1..k
          BY <1>6
        <4> QED
          BY <1>5, <2>1, <3>1, <3>2, <4>1
      <3> QED
        BY <1>5, <2>1, <3>1, <3>3, SeqEqual
    <2>4. ~Full(Front(out))
      BY <1>3, <1>4, <2>2, <2>3 DEF TakenUpTo
    <2>5. SizeOf(Front(out)) \in Nat
      <3>1. \E f : f \in [0..Len(Front(out)) -> Nat] /\ SizeOf(Front(out)) = f[Len(Front(out))]
        BY <2>1, SizeDef, Zenon
      <3>2. Len(Front(out)) \in 0..Len(Front(out))
        BY <2>1
      <3> QED
        BY <3>1, <3>2
    <2> QED
      BY <2>4, <2>5, PageTextAssumption DEF Full
  <1> QED
    BY <1>7, <1>8, <1>9 DEF TextRight, out, v

\* extract keeps a beginning of the text that is not hidden
\* (Content_getterv2.cpp:10-48).
THEOREM TextAlwaysPrefix == TextSpec => []TextIsPrefix
  <1>1. InputOk => TextIsPrefix
    <2> SUFFICES ASSUME InputOk, input.kind = "tree" PROVE TextRight(input.root)
      BY DEF TextIsPrefix
    <2>1. input.root \in Nodes[MaxDepth]
      BY InputKinds, InputsAssumption
    <2> QED
      BY <2>1, TextIsRight
  <1> QED
    BY <1>1, InputsOk, PTL

(***************************************************************************)
(* The snippet: its window.                                                *)
(***************************************************************************)

\* stripHTML takes one character after the other.
LEMMA StripDef ==
    ASSUME NEW R, NEW html \in Seq(R)
    PROVE  \E f : /\ f \in [0..Len(html) -> [out : Seq(R), inTag : BOOLEAN]] /\ f[0] = [out |-> <<>>, inTag |-> FALSE]
                  /\ \A i \in 1..Len(html) : f[i] = Stripped(f[i - 1], html[i])
                  /\ stripHTML(html) = f[Len(html)].out
  <1> DEFINE N == Len(html)
             V == [out : Seq(R), inTag : BOOLEAN]
             A == [out |-> <<>>, inTag |-> FALSE]
             G == [i \in 1..N |-> [x \in V |-> Stripped(x, html[i])]]
             Body(f) == [n \in 0..N |-> IF n = 0 THEN A ELSE Stripped(f[n - 1], html[n])]
             after == CHOOSE f : f = Body(f)
  <1>1. N \in Nat
    OBVIOUS
  <1>2. A \in V
    OBVIOUS
  <1>3. ASSUME NEW i \in 1..N, NEW x \in V PROVE Stripped(x, html[i]) \in V
    <2>1. x.out \in Seq(R) /\ x.inTag \in BOOLEAN /\ html[i] \in R
      BY <1>3, ElementOfSeq
    <2>2. Append(x.out, html[i]) \in Seq(R)
      BY <2>1, AppendSeq
    <2> DEFINE c == html[i]
    <2>3. CASE c \in {"<", ">"}
      <3>1. Stripped(x, c) = [x EXCEPT !.inTag = (c = "<")]
        BY <2>3 DEF Stripped
      <3> QED
        BY <1>3, <3>1
    <2>4. CASE c \notin {"<", ">"} /\ x.inTag
      <3>1. Stripped(x, c) = x
        BY <2>4 DEF Stripped
      <3> QED
        BY <1>3, <3>1
    <2>5. CASE c \notin {"<", ">"} /\ ~x.inTag
      <3>1. Stripped(x, c) = [x EXCEPT !.out = Append(@, c)]
        BY <2>5 DEF Stripped
      <3> QED
        BY <1>3, <2>2, <3>1
    <2> QED
      BY <2>3, <2>4, <2>5
  <1>4. stripHTML(html) = after[Len(html)].out
    BY DEF stripHTML
  <1> HIDE DEF N, V, A
  <1>5. \A i \in 1..N, x \in V : G[i][x] = Stripped(x, html[i])
    OBVIOUS
  <1>6. G \in [1..N -> [V -> V]]
    BY <1>3, <1>5
  <1> HIDE DEF G
  <1>7. PICK f \in [0..N -> V] : Recursion(f, A, G, N)
    BY <1>1, <1>2, <1>6, RecursionExists, Zenon
  <1>8. \A i \in 1..N : i \in 0..N /\ i - 1 \in 0..N /\ i # 0
    BY <1>1
  <1>9. \A i \in 1..N : f[i] = Stripped(f[i - 1], html[i])
    BY <1>5, <1>7, <1>8 DEF Recursion
  <1>10. f = Body(f)
    <2>1. ASSUME NEW i \in 0..N PROVE f[i] = Body(f)[i]
      <3>1. CASE i = 0
        BY <1>7, <3>1 DEF Recursion
      <3>2. CASE i # 0
        <4>1. i \in 1..N
          BY <1>1, <3>2
        <4> QED
          BY <1>9, <3>2, <4>1
      <3> QED
        BY <3>1, <3>2
    <2> QED
      BY <1>7, <2>1
  <1>11. after = Body(after)
    BY <1>10
  <1> HIDE DEF after
  <1>12. after[0] = A /\ \A i \in 1..N : after[i] = Stripped(after[i - 1], html[i])
    <2>1. \A i \in 0..N : after[i] = Body(after)[i]
      BY <1>11
    <2>2. 0 \in 0..N
      BY <1>1
    <2> QED
      BY <1>8, <2>1, <2>2
  <1>13. \A i \in 0..N : after[i] \in V
    <2>1. \A i \in 1..N : after[i - 1] \in V => after[i] = G[i][after[i - 1]]
      BY <1>5, <1>12
    <2> QED
      BY <1>1, <1>2, <1>6, <1>12, <2>1, RecursionTypes
  <1>14. after \in [0..N -> V]
    BY <1>11, <1>13
  <1> QED
    BY <1>4, <1>12, <1>14 DEF N, V, A

\* escapeHTML writes one character after the other.
LEMMA EscapeDef ==
    ASSUME NEW s \in Seq(Chars)
    PROVE  \E f : /\ f \in [0..Len(s) -> Seq(Chars)] /\ f[0] = <<>>
                  /\ \A i \in 1..Len(s) : f[i] = f[i - 1] \o EntityOf[s[i]]
                  /\ escapeHTML(s) = f[Len(s)]
  <1> DEFINE N == Len(s)
             V == Seq(Chars)
             A == <<>>
             G == [i \in 1..N |-> [x \in V |-> x \o EntityOf[s[i]]]]
             Body(f) == [n \in 0..N |-> IF n = 0 THEN A ELSE f[n - 1] \o EntityOf[s[n]]]
             after == CHOOSE f : f = Body(f)
  <1>1. N \in Nat
    OBVIOUS
  <1>2. A \in V
    OBVIOUS
  <1>3. ASSUME NEW i \in 1..N, NEW x \in V PROVE x \o EntityOf[s[i]] \in V
    <2>1. s[i] \in Chars
      BY ElementOfSeq
    <2>2. EntityOf[s[i]] \in Seq(Chars)
      BY <2>1, CharsAssumption
    <2> QED
      BY <1>3, <2>2, ConcatProperties
  <1>4. escapeHTML(s) = after[Len(s)]
    BY DEF escapeHTML
  <1> HIDE DEF N, V, A
  <1>5. \A i \in 1..N, x \in V : G[i][x] = x \o EntityOf[s[i]]
    OBVIOUS
  <1>6. G \in [1..N -> [V -> V]]
    BY <1>3, <1>5
  <1> HIDE DEF G
  <1>7. PICK f \in [0..N -> V] : Recursion(f, A, G, N)
    BY <1>1, <1>2, <1>6, RecursionExists, Zenon
  <1>8. \A i \in 1..N : i \in 0..N /\ i - 1 \in 0..N /\ i # 0
    BY <1>1
  <1>9. \A i \in 1..N : f[i] = f[i - 1] \o EntityOf[s[i]]
    BY <1>5, <1>7, <1>8 DEF Recursion
  <1>10. f = Body(f)
    <2>1. ASSUME NEW i \in 0..N PROVE f[i] = Body(f)[i]
      <3>1. CASE i = 0
        BY <1>7, <3>1 DEF Recursion
      <3>2. CASE i # 0
        <4>1. i \in 1..N
          BY <1>1, <3>2
        <4> QED
          BY <1>9, <3>2, <4>1
      <3> QED
        BY <3>1, <3>2
    <2> QED
      BY <1>7, <2>1
  <1>11. after = Body(after)
    BY <1>10
  <1> HIDE DEF after
  <1>12. after[0] = A /\ \A i \in 1..N : after[i] = after[i - 1] \o EntityOf[s[i]]
    <2>1. \A i \in 0..N : after[i] = Body(after)[i]
      BY <1>11
    <2>2. 0 \in 0..N
      BY <1>1
    <2> QED
      BY <1>8, <2>1, <2>2
  <1>13. \A i \in 0..N : after[i] \in V
    <2>1. \A i \in 1..N : after[i - 1] \in V => after[i] = G[i][after[i - 1]]
      BY <1>5, <1>12
    <2> QED
      BY <1>1, <1>2, <1>6, <1>12, <2>1, RecursionTypes
  <1>14. after \in [0..N -> V]
    BY <1>11, <1>13
  <1> QED
    BY <1>4, <1>12, <1>14 DEF N, V, A


LEMMA StripType == ASSUME NEW R, NEW html \in Seq(R) PROVE stripHTML(html) \in Seq(R)
  <1>1. PICK f : /\ f \in [0..Len(html) -> [out : Seq(R), inTag : BOOLEAN]]
                 /\ f[0] = [out |-> <<>>, inTag |-> FALSE]
                 /\ \A i \in 1..Len(html) : f[i] = Stripped(f[i - 1], html[i])
                 /\ stripHTML(html) = f[Len(html)].out
    BY StripDef
  <1>2. Len(html) \in 0..Len(html)
    OBVIOUS
  <1> QED
    BY <1>1, <1>2

LEMMA EscapeType == ASSUME NEW s \in Seq(Chars) PROVE escapeHTML(s) \in Seq(Chars)
  <1>1. PICK f : /\ f \in [0..Len(s) -> Seq(Chars)] /\ f[0] = <<>>
                 /\ \A i \in 1..Len(s) : f[i] = f[i - 1] \o EntityOf[s[i]]
                 /\ escapeHTML(s) = f[Len(s)]
    BY EscapeDef
  <1>2. Len(s) \in 0..Len(s)
    OBVIOUS
  <1> QED
    BY <1>1, <1>2

LEMMA LowerType ==
    ASSUME NEW s \in Seq(Chars)
    PROVE  /\ toLower(s) \in Seq(Chars) /\ Len(toLower(s)) = Len(s) /\ Len(s) \in Nat
           /\ \A i \in 1..Len(s) : toLower(s)[i] = LowerOf[s[i]]
  <1>1. DOMAIN s = 1..Len(s) /\ Len(s) \in Nat /\ \A i \in 1..Len(s) : s[i] \in Chars
    BY ElementOfSeq
  <1>2. \A c \in Chars : LowerOf[c] \in Chars
    BY CharsAssumption
  <1>3. toLower(s) = [i \in 1..Len(s) |-> LowerOf[s[i]]]
    BY <1>1 DEF toLower
  <1>4. toLower(s) \in [1..Len(s) -> Chars]
    BY <1>1, <1>2, <1>3
  <1> QED
    BY <1>1, <1>3, <1>4

LEMMA LeastOf == ASSUME NEW T, T \subseteq Nat, T # {} PROVE Min(T) \in T /\ \A y \in T : Min(T) <= y
  <1>1. \E x \in T : \A y \in T : x <= y
    BY LeastNat
  <1> QED
    BY <1>1 DEF Min

LEMMA FoundPlaces ==
    ASSUME NEW s \in Seq(Chars), NEW t \in Seq(Chars), NEW p \in Found(s, t)
    PROVE  /\ p \in Nat /\ p + Len(t) <= Len(s) /\ Len(t) \in Nat /\ Len(s) \in Nat
           /\ SubSeq(s, p + 1, p + Len(t)) = t
  <1>1. p \in 0..(Len(s) - Len(t)) /\ SubSeq(s, p + 1, p + Len(t)) = t
    BY DEF Found
  <1>2. Len(s) \in Nat /\ Len(t) \in Nat
    OBVIOUS
  <1> QED
    BY <1>1, <1>2

LEMMA FirstIsFirst ==
    ASSUME NEW plain \in Seq(Chars), NEW qset, qset \subseteq Seq(Chars)
    PROVE  /\ FirstPos(plain, qset) \in Nat
           /\ \A t \in qset : \A p \in Found(toLower(plain), t) : FirstPos(plain, qset) <= p
           /\ \A t \in qset : \A p \in Found(toLower(plain), t) :
                 (\A u \in qset : \A r \in Found(toLower(plain), u) : p <= r)
                 => FirstPos(plain, qset) = p
  <1> DEFINE low == toLower(plain)
             all == UNION {Found(low, t) : t \in qset}
  <1>1. low \in Seq(Chars)
    BY LowerType
  <1>2. FirstPos(plain, qset) = IF all = {} THEN 0 ELSE Min(all)
    BY DEF FirstPos
  <1> HIDE DEF low
  <1>3. \A t \in qset : \A p \in Found(low, t) : p \in Nat
    BY <1>1, FoundPlaces
  <1>4. all \subseteq Nat
    BY <1>3
  <1>5. \A p : p \in all <=> \E t \in qset : p \in Found(low, t)
    BY Zenon
  <1> HIDE DEF all
  <1>6. CASE all = {}
    BY <1>2, <1>5, <1>6 DEF low
  <1>7. CASE all # {}
    <2> DEFINE m == Min(all)
    <2>1. m \in all /\ \A y \in all : m <= y
      BY <1>4, <1>7, LeastOf
    <2>2. FirstPos(plain, qset) = m
      BY <1>2, <1>7
    <2> HIDE DEF m
    <2>3. m \in Nat
      BY <1>4, <2>1
    <2>4. ASSUME NEW p \in all, \A r \in all : p <= r PROVE m = p
      <3>1. p <= m /\ m <= p /\ p \in Nat
        BY <1>4, <2>1, <2>4
      <3> QED
        BY <2>3, <3>1
    <2>5. \A t \in qset : \A p \in Found(low, t) :
             (\A u \in qset : \A r \in Found(low, u) : p <= r) => m = p
      BY <1>5, <2>4
    <2>6. \A t \in qset : \A p \in Found(low, t) : m <= p
      BY <1>5, <2>1
    <2> QED
      BY <2>2, <2>3, <2>5, <2>6 DEF low
  <1> QED
    BY <1>6, <1>7

\* The arithmetic of the window.
Placed(n, first, start, shown) ==
    /\ start \in Nat /\ start <= n /\ start <= first
    /\ shown = Smaller(maxLen, n) /\ shown \in Nat /\ start + shown <= n
    /\ start + shown < n <=> start + maxLen < n
    /\ n > 0 => shown > 0
    /\ \A len \in Nat : len <= maxLen - maxLen \div 2 /\ first + len <= n
                        => first + len <= start + shown

LEMMA WindowPlaces ==
    ASSUME NEW n \in Nat, NEW first \in Nat
    PROVE  Placed(n, first, Start(n, first), Smaller(maxLen, n - Start(n, first)))
  <1> DEFINE half == maxLen \div 2
             before == StartUnclamped(n, first)
             start == Start(n, first)
             shown == Smaller(maxLen, n - start)
  <1>1. maxLen \in Nat /\ maxLen > 0
    BY SizesAssumption
  <1>2. half \in Nat /\ half <= maxLen
    BY <1>1
  <1>3. before = IF first > half THEN first - half ELSE 0
    BY DEF StartUnclamped
  <1>4. before \in Nat /\ before <= first /\ first - before <= half
    BY <1>2, <1>3
  <1>5. start = IF before + maxLen <= n THEN before ELSE IF n > maxLen THEN n - maxLen ELSE 0
    BY DEF Start
  <1>7. shown = IF maxLen < n - start THEN maxLen ELSE n - start
    BY DEF Smaller
  <1> HIDE DEF half, before, start, shown
  <1>6. start \in Nat /\ start <= n /\ start <= before
    BY <1>1, <1>4, <1>5
  <1>8. /\ shown \in Nat /\ start + shown <= n
        /\ start + shown < n <=> start + maxLen < n
        /\ n > 0 => shown > 0
        /\ shown = IF maxLen < n THEN maxLen ELSE n
    BY <1>1, <1>4, <1>5, <1>6, <1>7
  <1>9. ASSUME NEW len \in Nat, len <= maxLen - half, first + len <= n
        PROVE  first + len <= start + shown
    BY <1>1, <1>2, <1>4, <1>5, <1>7, <1>9
  <1>10. shown = Smaller(maxLen, n)
    BY <1>8 DEF Smaller
  <1> QED
    BY <1>4, <1>6, <1>8, <1>9, <1>10 DEF half, start, shown, Placed

LEMMA ExcerptPlaces ==
    ASSUME NEW plain \in Seq(Chars), NEW qset, qset \subseteq Seq(Chars)
    PROVE  LET w == Excerpt(plain, qset)
               n == Len(plain)
               first == FirstPos(plain, qset)
           IN  /\ n \in Nat /\ w.first \in Nat /\ w.second \in Nat /\ w.first <= w.second /\ w.second <= n
               /\ w.second - w.first = Smaller(maxLen, n) /\ w.first <= first
               /\ w.second < n <=> w.first + maxLen < n
               /\ n > 0 => w.first < w.second
               /\ \A len \in Nat : len <= maxLen - maxLen \div 2 /\ first + len <= n
                                   => first + len <= w.second
  <1> DEFINE n == Len(plain)
             first == FirstPos(plain, qset)
             start == Start(n, first)
             shown == Smaller(maxLen, n - start)
  <1>1. n \in Nat /\ first \in Nat
    BY FirstIsFirst
  <1>2. Excerpt(plain, qset).first = start /\ Excerpt(plain, qset).second = start + shown
    BY DEF Excerpt
  <1> HIDE DEF n, first
  <1>3. Placed(n, first, start, shown)
    BY <1>1, WindowPlaces
  <1> HIDE DEF start, shown
  <1> QED
    BY <1>1, <1>2, <1>3 DEF n, first, Placed

LEMMA WindowIsRight ==
    ASSUME NEW plain \in Seq(Chars), NEW qset, qset \subseteq Seq(Chars)
    PROVE  WindowRight(plain, qset)
  <1> DEFINE w == Excerpt(plain, qset)
             n == Len(plain)
             first == FirstPos(plain, qset)
             low == toLower(plain)
  <1>1. /\ n \in Nat /\ w.first \in Nat /\ w.second \in Nat /\ w.second <= n
        /\ w.second - w.first = Smaller(maxLen, n) /\ w.first <= first
        /\ \A len \in Nat : len <= maxLen - maxLen \div 2 /\ first + len <= n
                            => first + len <= w.second
    BY ExcerptPlaces
  <1>2. low \in Seq(Chars) /\ Len(low) = n
    BY LowerType
  <1>3. ASSUME NEW t \in qset, NEW p \in Found(low, t),
               \A u \in qset : \A r \in Found(low, u) : p <= r, Len(t) <= maxLen - maxLen \div 2
        PROVE  w.first <= p /\ p + Len(t) <= w.second
    <2>1. first = p
      BY <1>3, FirstIsFirst
    <2>2. t \in Seq(Chars)
      OBVIOUS
    <2> HIDE DEF w, n, first, low
    <2>3. p + Len(t) <= n /\ Len(t) \in Nat
      BY <1>2, <2>2, FoundPlaces
    <2> QED
      BY <1>1, <1>3, <2>1, <2>3
  <1>4. w.first >= 0
    BY <1>1
  <1> HIDE DEF first
  <1> QED
    BY <1>1, <1>3, <1>4 DEF WindowRight

LEMMA CutIsRight ==
    ASSUME NEW plain \in Seq(Chars \ {Ellipsis}), NEW qset, qset \subseteq Seq(Chars)
    PROVE  /\ CutRight(plain, qset)
           /\ Cut(plain, Excerpt(plain, qset)) \in Seq(Chars)
  <1> DEFINE w == Excerpt(plain, qset)
             n == Len(plain)
             d == <<Ellipsis>>
             a == IF w.first # 0 THEN d ELSE <<>>
             m == SubSeq(plain, w.first + 1, w.second)
             z == IF w.first + maxLen < n THEN d ELSE <<>>
             cut == Cut(plain, w)
  <1>1. plain \in Seq(Chars)
    OBVIOUS
  <1>2. /\ n \in Nat /\ w.first \in Nat /\ w.second \in Nat /\ w.first <= w.second /\ w.second <= n
        /\ w.second < n <=> w.first + maxLen < n
        /\ n > 0 => w.first < w.second
    BY <1>1, ExcerptPlaces
  <1>3. cut = a \o m \o z
    BY DEF Cut
  <1>4. Ellipsis \in Chars
    BY CharsAssumption
  <1> HIDE DEF w, n, cut
  <1>5. /\ d \in Seq(Chars) /\ Len(d) = 1 /\ d[1] = Ellipsis
    BY <1>4
  <1> HIDE DEF d
  <1>6. a \in Seq(Chars) /\ z \in Seq(Chars)
    BY <1>5
  <1>7. /\ m \in Seq(Chars \ {Ellipsis}) /\ Len(m) = w.second - w.first
    <2>1. w.first + 1 \in Nat \ {0} /\ w.second <= Len(plain) /\ w.first + 1 <= w.second + 1
      BY <1>2 DEF n
    <2>2. /\ m \in Seq(Chars \ {Ellipsis}) /\ Len(m) = w.second - (w.first + 1) + 1
      BY <1>2, <2>1, PieceSeq
    <2> QED
      BY <1>2, <2>2
  <1> HIDE DEF m
  <1>8. m \in Seq(Chars) /\ Len(m) \in Nat /\ \A i \in 1..Len(m) : m[i] # Ellipsis
    BY <1>7, ElementOfSeq
  <1>9. /\ a \o m \in Seq(Chars) /\ Len(a \o m) = Len(a) + Len(m)
        /\ \A i \in 1..Len(a) : (a \o m)[i] = a[i]
        /\ \A i \in 1..Len(m) : (a \o m)[Len(a) + i] = m[i]
    BY <1>6, <1>8, ConcatBegins
  <1> DEFINE am == a \o m
  <1> HIDE DEF a, z
  <1>10. /\ am \o z \in Seq(Chars) /\ Len(am \o z) = Len(am) + Len(z)
         /\ \A i \in 1..Len(am) : (am \o z)[i] = am[i]
         /\ \A i \in 1..Len(z) : (am \o z)[Len(am) + i] = z[i]
    <2> HIDE DEF am
    <2>1. am \in Seq(Chars)
      BY <1>9 DEF am
    <2> QED
      BY <1>6, <2>1, ConcatBegins
  <1>11. cut = am \o z
    BY <1>3
  <1>12. /\ cut \in Seq(Chars) /\ Len(cut) = Len(a) + Len(m) + Len(z)
         /\ \A i \in 1..Len(a) : cut[i] = a[i]
         /\ \A i \in 1..Len(m) : cut[Len(a) + i] = m[i]
         /\ \A i \in 1..Len(z) : cut[Len(a) + Len(m) + i] = z[i]
    <2>1. Len(a) \in Nat /\ Len(z) \in Nat
      BY <1>6
    <2>2. \A i \in 1..Len(a) : i \in 1..Len(am)
      BY <1>8, <1>9, <2>1
    <2>3. \A i \in 1..Len(m) : Len(a) + i \in 1..Len(am)
      BY <1>8, <1>9, <2>1
    <2> HIDE DEF am
    <2> QED
      BY <1>9, <1>10, <1>11, <2>2, <2>3 DEF am
  <1>13. /\ w.first > 0 => Len(a) = 1 /\ a[1] = Ellipsis
         /\ ~(w.first > 0) => Len(a) = 0
         /\ w.second < n => Len(z) = 1 /\ z[1] = Ellipsis
         /\ ~(w.second < n) => Len(z) = 0
    BY <1>2, <1>5 DEF a, z
  <1> HIDE DEF am
  <1>14. cut # <<>> <=> Len(cut) > 0
    BY <1>12, EmptySeq
  <1>15. (cut # <<>> /\ cut[1] = Ellipsis) <=> w.first > 0
    <2>1. CASE w.first > 0
      BY <1>8, <1>12, <1>13, <1>14, <2>1
    <2>2. CASE ~(w.first > 0)
      <3>1. w.second < n => Len(m) > 0
        BY <1>2, <1>7
      <3>2. Len(cut) > 0 => Len(m) > 0
        BY <1>8, <1>12, <1>13, <2>2, <3>1
      <3>3. Len(m) > 0 => cut[1] = m[1] /\ m[1] # Ellipsis
        BY <1>8, <1>12, <1>13, <2>2
      <3> QED
        BY <1>14, <2>2, <3>2, <3>3
    <2> QED
      BY <2>1, <2>2
  <1>16. (cut # <<>> /\ cut[Len(cut)] = Ellipsis) <=> w.second < n
    <2>3. Len(a) \in Nat
      BY <1>6
    <2>1. CASE w.second < n
      <3>3. Len(z) = 1 /\ z[1] = Ellipsis /\ 1 \in 1..Len(z)
        BY <1>13, <2>1
      <3>1. Len(cut) = Len(a) + Len(m) + 1 /\ Len(cut) > 0
        BY <1>8, <1>12, <2>3, <3>3
      <3>2. cut[Len(a) + Len(m) + 1] = z[1]
        BY <1>12, <3>3
      <3> QED
        BY <1>14, <2>1, <3>1, <3>2, <3>3
    <2>2. CASE ~(w.second < n)
      <3>1. w.first > 0 => Len(m) > 0
        BY <1>2, <1>7, <2>2
      <3>2. Len(cut) > 0 => Len(m) > 0
        BY <1>2, <1>8, <1>12, <1>13, <2>2, <3>1
      <3>3. Len(m) > 0 => cut[Len(cut)] = m[Len(m)] /\ m[Len(m)] # Ellipsis
        <4>1. Len(m) > 0 => Len(m) \in 1..Len(m) /\ Len(cut) = Len(a) + Len(m)
          BY <1>8, <1>12, <1>13, <2>2, <2>3
        <4> QED
          BY <1>8, <1>12, <4>1
      <3> QED
        BY <1>14, <2>2, <3>2, <3>3
    <2> QED
      BY <2>1, <2>2
  <1>17. cut # <<>> => Head(cut) = cut[1] /\ Last(cut) = cut[Len(cut)]
    BY <1>12 DEF Last
  <1> QED
    BY <1>12, <1>15, <1>16, <1>17 DEF CutRight, cut, w, n

(***************************************************************************)
(* The snippet: the hits of a term.                                        *)
(***************************************************************************)

Intervals == [first : Nat, second : Nat]

\* f[pos] is what is found of the term from pos on.
HitsFrom(s, term, f, pos) ==
    LET next == {p \in Found(s, term) : p >= pos}
    IN  IF next = {} THEN {}
        ELSE LET end == Min(next) + Len(term)
             IN  {[first |-> Min(next), second |-> end]} \cup f[end]

Searched(s, term, f) ==
    /\ \A pos \in 0..Len(s) : f[pos] = HitsFrom(s, term, f, pos)
    /\ HitsOfTerm(s, term) = f[0]

Nearest(s, t, pos) ==
    LET next == {p \in Found(s, t) : p >= pos}
    IN  /\ Min(next) \in next /\ \A p \in next : Min(next) <= p
        /\ Min(next) \in Nat /\ Min(next) + Len(t) \in (pos + 1)..Len(s)
        /\ Len(t) \in Nat /\ Len(t) > 0

LEMMA NextHit ==
    ASSUME NEW s \in Seq(Chars), NEW t \in Seq(Chars) \ {<<>>}, NEW pos \in 0..Len(s),
           {p \in Found(s, t) : p >= pos} # {}
    PROVE  Nearest(s, t, pos)
  <1> DEFINE next == {p \in Found(s, t) : p >= pos}
  <1>1. Len(t) \in Nat /\ Len(t) > 0
    BY EmptySeq
  <1>2. \A p \in next : p \in Nat /\ p >= pos /\ p + Len(t) <= Len(s)
    BY FoundPlaces
  <1>3. next \subseteq Nat
    BY <1>2
  <1>4. Min(next) \in next /\ \A p \in next : Min(next) <= p
    BY <1>3, LeastOf
  <1> DEFINE m == Min(next)
  <1>5. m \in Nat /\ m >= pos /\ m + Len(t) <= Len(s)
    BY <1>2, <1>4
  <1> HIDE DEF m
  <1>6. m + Len(t) \in (pos + 1)..Len(s)
    BY <1>1, <1>5
  <1> QED
    BY <1>1, <1>4, <1>5, <1>6 DEF m, Nearest

LEMMA SearchedDef ==
    ASSUME NEW s \in Seq(Chars), NEW t \in Seq(Chars) \ {<<>>}
    PROVE  \E f : Searched(s, t, f)
  <1> DEFINE N == Len(s)
             V == SUBSET Intervals
             G == [pos \in 0..N |-> [h \in [(pos + 1)..N -> V] |-> HitsFrom(s, t, h, pos)]]
             Body(f) == [pos \in 0..N |-> HitsFrom(s, t, f, pos)]
             from == CHOOSE f : f = Body(f)
  <1>1. N \in Nat
    OBVIOUS
  <1>2. HitsOfTerm(s, t) = from[0]
    BY DEF HitsOfTerm, HitsFrom
  <1>3. ASSUME NEW pos \in 0..N, NEW f, NEW g, \A j \in (pos + 1)..N : f[j] = g[j]
        PROVE  HitsFrom(s, t, f, pos) = HitsFrom(s, t, g, pos)
    <2> DEFINE next == {p \in Found(s, t) : p >= pos}
               end == Min(next) + Len(t)
    <2>1. CASE next = {}
      BY <2>1 DEF HitsFrom
    <2>2. CASE next # {}
      <3>4. Nearest(s, t, pos)
        BY <2>2, NextHit
      <3>1. end \in (pos + 1)..N
        BY <3>4 DEF Nearest
      <3>2. f[end] = g[end]
        BY <1>3, <3>1
      <3>3. \A h : HitsFrom(s, t, h, pos) = {[first |-> Min(next), second |-> end]} \cup h[end]
        BY <2>2, Zenon DEF HitsFrom
      <3> QED
        BY <3>2, <3>3, Zenon
    <2> QED
      BY <2>1, <2>2
  <1>4. ASSUME NEW pos \in 0..N, NEW h \in [(pos + 1)..N -> V]
        PROVE  HitsFrom(s, t, h, pos) \in V
    <2> DEFINE next == {p \in Found(s, t) : p >= pos}
               end == Min(next) + Len(t)
    <2>1. CASE next = {}
      BY <2>1 DEF HitsFrom
    <2>2. CASE next # {}
      <3>1. end \in (pos + 1)..N /\ Min(next) \in Nat
        <4>1. Nearest(s, t, pos)
          BY <2>2, NextHit
        <4> QED
          BY <4>1 DEF Nearest
      <3>2. h[end] \in V
        BY <3>1
      <3>3. HitsFrom(s, t, h, pos) = {[first |-> Min(next), second |-> end]} \cup h[end]
        BY <2>2, Zenon DEF HitsFrom
      <3> HIDE DEF next, end
      <3>4. [first |-> Min(next), second |-> end] \in Intervals
        BY <1>1, <3>1 DEF Intervals
      <3> QED
        BY <3>2, <3>3, <3>4
    <2> QED
      BY <2>1, <2>2
  <1> HIDE DEF V, N
  <1>5. \A pos \in 0..N : \A h \in [(pos + 1)..N -> V] :
           G[pos][h] = HitsFrom(s, t, h, pos) /\ G[pos][h] \in V
    BY <1>4
  <1> HIDE DEF G
  <1>6. PICK f \in [0..N -> V] : LookAhead(f, G, N)
    BY <1>1, <1>5, LookAheadExists
  <1>7. f = Body(f)
    <2>1. ASSUME NEW pos \in 0..N PROVE f[pos] = Body(f)[pos]
      <3> DEFINE h == [j \in (pos + 1)..N |-> f[j]]
      <3>1. h \in [(pos + 1)..N -> V]
        BY <1>1
      <3>2. f[pos] = G[pos][h]
        BY <1>6 DEF LookAhead
      <3>3. \A j \in (pos + 1)..N : h[j] = f[j]
        OBVIOUS
      <3> HIDE DEF h
      <3>4. f[pos] = HitsFrom(s, t, h, pos)
        BY <1>5, <3>1, <3>2
      <3>5. HitsFrom(s, t, h, pos) = HitsFrom(s, t, f, pos)
        BY <1>3, <3>3
      <3> QED
        BY <3>4, <3>5
    <2> QED
      BY <2>1
  <1>8. from = Body(from)
    BY <1>7
  <1> HIDE DEF from
  <1>9. \A pos \in 0..N : from[pos] = HitsFrom(s, t, from, pos)
    <2>1. \A pos \in 0..N : from[pos] = Body(from)[pos]
      BY <1>8
    <2> QED
      BY <2>1
  <1> QED
    BY <1>2, <1>9 DEF N, Searched

\* Each is an occurrence, and each occurrence is one of them or begins inside one.
HitsRight(s, t, hits) ==
    /\ \A h \in hits : /\ h \in Intervals /\ h.first \in Found(s, t)
                       /\ h.second = h.first + Len(t)
    /\ \A p \in Found(s, t) : \E h \in hits :
          h.first <= p /\ p < h.second /\ (h.first = p \/ SelfOverlapping(t))

LEMMA OverlapItself ==
    ASSUME NEW s \in Seq(Chars), NEW t \in Seq(Chars), NEW m \in Found(s, t), NEW p \in Found(s, t),
           m < p, p < m + Len(t)
    PROVE  SelfOverlapping(t)
  <1> DEFINE n == Len(t)
             k == p - m
             a == SubSeq(t, 1, n - k)
             z == SubSeq(t, k + 1, n)
  <1>1. /\ m \in Nat /\ p \in Nat /\ n \in Nat /\ Len(s) \in Nat
        /\ m + n <= Len(s) /\ p + n <= Len(s)
        /\ SubSeq(s, m + 1, m + n) = t /\ SubSeq(s, p + 1, p + n) = t
    BY FoundPlaces
  <1>2. k \in 1..(n - 1) /\ k \in Nat
    BY <1>1
  <1>3. ASSUME NEW i \in 1..n PROVE t[i] = s[m + i] /\ t[i] = s[p + i]
    <2>1. /\ m + 1 \in Nat \ {0} /\ m + n \in Nat /\ m + 1 <= m + n + 1
          /\ p + 1 \in Nat \ {0} /\ p + n \in Nat /\ p + 1 <= p + n + 1
          /\ m + n - (m + 1) + 1 = n /\ p + n - (p + 1) + 1 = n
          /\ m + 1 + i - 1 = m + i /\ p + 1 + i - 1 = p + i
      BY <1>1
    <2>2. SubSeq(s, m + 1, m + n)[i] = s[m + i]
      BY <1>1, <2>1, PieceSeq
    <2>3. SubSeq(s, p + 1, p + n)[i] = s[p + i]
      BY <1>1, <2>1, PieceSeq
    <2> QED
      BY <1>1, <2>2, <2>3
  <1>4. a \in Seq(Chars) /\ Len(a) = n - k /\ \A i \in 1..(n - k) : a[i] = t[i]
    <2>1. n - k \in Nat /\ n - k <= Len(t)
      BY <1>1, <1>2
    <2> QED
      BY <2>1, PrefixSeq
  <1>5. z \in Seq(Chars) /\ Len(z) = n - k /\ \A i \in 1..(n - k) : z[i] = t[k + i]
    <2>1. k + 1 \in Nat \ {0} /\ n \in Nat /\ k + 1 <= n + 1 /\ n <= Len(t) /\ n - (k + 1) + 1 = n - k
      BY <1>1, <1>2
    <2>2. z \in Seq(Chars) /\ Len(z) = n - k /\ \A i \in 1..(n - k) : z[i] = t[k + 1 + i - 1]
      BY <2>1, PieceSeq
    <2>3. \A i \in 1..(n - k) : k + 1 + i - 1 = k + i
      BY <1>1, <1>2
    <2> QED
      BY <2>2, <2>3
  <1>6. ASSUME NEW i \in 1..(n - k) PROVE a[i] = z[i]
    <2>1. i \in 1..n /\ k + i \in 1..n /\ m + (k + i) = p + i
      BY <1>1, <1>2
    <2> HIDE DEF a, z, k, n
    <2>2. t[k + i] = s[m + (k + i)] /\ t[i] = s[p + i]
      BY <1>3, <2>1
    <2> QED
      BY <1>4, <1>5, <2>1, <2>2
  <1>7. a = z
    <2> HIDE DEF a, z
    <2> QED
      BY <1>4, <1>5, <1>6, SeqEqual
  <1> HIDE DEF k
  <1> QED
    BY <1>2, <1>7 DEF SelfOverlapping

LEMMA HitsAreRight ==
    ASSUME NEW s \in Seq(Chars), NEW t \in Seq(Chars) \ {<<>>}
    PROVE  HitsRight(s, t, HitsOfTerm(s, t))
  <1> DEFINE N == Len(s)
             Each(pos, hits) ==
                \A h \in hits : /\ h \in Intervals /\ h.first \in Found(s, t)
                                /\ h.second = h.first + Len(t)
             All(pos, hits) ==
                \A p \in Found(s, t) : p >= pos => \E h \in hits :
                   h.first <= p /\ p < h.second /\ (h.first = p \/ SelfOverlapping(t))
  <1>1. PICK f : Searched(s, t, f)
    BY SearchedDef
  <1>2. N \in Nat
    OBVIOUS
  <1>3. ASSUME NEW pos \in 0..N, \A j \in (pos + 1)..N : Each(j, f[j]) /\ All(j, f[j])
        PROVE  Each(pos, f[pos]) /\ All(pos, f[pos])
    <2> DEFINE next == {p \in Found(s, t) : p >= pos}
               m == Min(next)
               end == Min(next) + Len(t)
               hit == [first |-> m, second |-> end]
    <2>1. f[pos] = HitsFrom(s, t, f, pos)
      BY <1>1 DEF Searched
    <2>2. CASE next = {}
      <3>1. f[pos] = {}
        BY <2>1, <2>2 DEF HitsFrom
      <3> QED
        BY <2>2, <3>1
    <2>3. CASE next # {}
      <3>1. /\ m \in next /\ (\A p \in next : m <= p) /\ m \in Nat
            /\ end \in (pos + 1)..N /\ Len(t) \in Nat /\ Len(t) > 0
        <4>1. Nearest(s, t, pos)
          BY <2>3, NextHit
        <4> QED
          BY <4>1 DEF Nearest
      <3>2. f[pos] = {hit} \cup f[end]
        BY <2>1, <2>3, Zenon DEF HitsFrom
      <3>3. m \in Found(s, t) /\ \A p \in Found(s, t) : p >= pos => m <= p
        BY <3>1
      <3>4. end = m + Len(t)
        OBVIOUS
      <3>5. hit \in Intervals /\ hit.first = m /\ hit.second = end
        BY <1>2, <3>1 DEF Intervals
      <3>6. Each(end, f[end]) /\ All(end, f[end])
        BY <1>3, <3>1
      <3>7. \A p \in Found(s, t) : p \in Nat
        BY FoundPlaces
      <3> HIDE DEF m, end, hit, next
      <3>8. Each(pos, f[pos])
        BY <3>2, <3>3, <3>4, <3>5, <3>6
      <3>9. ASSUME NEW p \in Found(s, t), p >= pos
            PROVE  \E h \in f[pos] : h.first <= p /\ p < h.second /\ (h.first = p \/ SelfOverlapping(t))
        <4>1. m <= p /\ p \in Nat
          BY <3>3, <3>7, <3>9
        <4>2. CASE p < end
          <5>1. m = p \/ SelfOverlapping(t)
            BY <3>1, <3>3, <3>4, <4>1, <4>2, OverlapItself
          <5>2. hit \in f[pos]
            BY <3>2
          <5> QED
            BY <3>5, <4>1, <4>2, <5>1, <5>2
        <4>3. CASE p >= end
          <5>1. PICK h \in f[end] : h.first <= p /\ p < h.second /\ (h.first = p \/ SelfOverlapping(t))
            BY <3>6, <4>3
          <5>2. h \in f[pos]
            BY <3>2
          <5> QED
            BY <5>1, <5>2
        <4>4. end \in Nat
          BY <1>2, <3>1
        <4> QED
          BY <4>1, <4>2, <4>3, <4>4
      <3> QED
        BY <3>8, <3>9
    <2> QED
      BY <2>2, <2>3
  <1> DEFINE S == {pos \in 0..N : Each(pos, f[pos]) /\ All(pos, f[pos])}
  <1>4. ASSUME NEW pos \in 0..N, \A j \in (pos + 1)..N : j \in S PROVE pos \in S
    <2>1. \A j \in (pos + 1)..N : Each(j, f[j]) /\ All(j, f[j])
      BY <1>4
    <2> HIDE DEF Each, All
    <2>2. Each(pos, f[pos]) /\ All(pos, f[pos])
      BY <1>3, <2>1
    <2> QED
      BY <2>2
  <1> HIDE DEF S
  <1>5. \A pos \in 1..N : pos \in S
    <2>1. \A pos \in 1..N : pos \in 0..N
      OBVIOUS
    <2>2. \A pos \in 1..N : (\A j \in (pos + 1)..N : j \in S) => pos \in S
      BY <1>4, <2>1
    <2> HIDE DEF N
    <2> QED
      BY <1>2, <2>2, DownTo
  <1>6. 0 \in S
    <2>1. 0 \in 0..N /\ \A j \in (0 + 1)..N : j \in 1..N
      BY <1>2
    <2> QED
      BY <1>4, <1>5, <2>1
  <1>7. Each(0, f[0]) /\ All(0, f[0])
    BY <1>6 DEF S
  <1>8. HitsOfTerm(s, t) = f[0]
    BY <1>1 DEF Searched
  <1>9. \A p \in Found(s, t) : p >= 0
    BY FoundPlaces
  <1> QED
    BY <1>7, <1>8, <1>9 DEF HitsRight

(***************************************************************************)
(* The snippet: the hits in order, and those that meet made one.           *)
(***************************************************************************)

LEMMA BeforeOrders ==
    ASSUME NEW g \in Intervals, NEW h \in Intervals, NEW k \in Intervals
    PROVE  /\ ~Before(h, h) /\ (Before(g, h) \/ Before(h, g) \/ g = h)
           /\ Before(g, h) /\ Before(h, k) => Before(g, k)
           /\ Before(g, h) => g.first <= h.first
  <1>1. /\ g.first \in Nat /\ g.second \in Nat /\ h.first \in Nat /\ h.second \in Nat
        /\ k.first \in Nat /\ k.second \in Nat
    BY DEF Intervals
  <1>2. g.first = h.first /\ g.second = h.second => g = h
    BY DEF Intervals
  <1> QED
    BY <1>1, <1>2 DEF Before

InOrder(hits, sorted) ==
    /\ sorted \in Seq(hits) /\ \A h \in hits : \E i \in 1..Len(sorted) : sorted[i] = h
    /\ \A i \in 1..(Len(sorted) - 1) : sorted[i].first <= sorted[i + 1].first

LEMMA SortedInOrder ==
    ASSUME NEW hits, hits \subseteq Intervals, IsFiniteSet(hits)
    PROVE  InOrder(hits, Sorted(hits))
  <1> DEFINE n == Cardinality(hits)
             Below(h) == {k \in hits : Before(k, h)}
             rank == [h \in hits |-> Cardinality(Below(h))]
             sorted == [i \in 1..n |-> CHOOSE h \in hits : Cardinality(Below(h)) = i - 1]
  <1>1. n \in Nat
    BY FS_CardinalityType
  <1>2. Sorted(hits) = sorted
    BY DEF Sorted
  <1>3. ASSUME NEW h \in hits
        PROVE  IsFiniteSet(Below(h)) /\ Cardinality(Below(h)) \in Nat /\ h \notin Below(h)
    <2>1. Below(h) \in SUBSET hits
      OBVIOUS
    <2>2. h \notin Below(h)
      BY BeforeOrders
    <2> HIDE DEF Below
    <2> QED
      BY <2>1, <2>2, FS_Subset, FS_CardinalityType
  <1>4. ASSUME NEW g \in hits, NEW h \in hits, Before(g, h)
        PROVE  Cardinality(Below(g)) < Cardinality(Below(h))
    <2>1. Below(g) \cup {g} \in SUBSET Below(h)
      BY <1>4, BeforeOrders
    <2>2. /\ IsFiniteSet(Below(g)) /\ Cardinality(Below(g)) \in Nat /\ g \notin Below(g)
          /\ IsFiniteSet(Below(h)) /\ Cardinality(Below(h)) \in Nat
      BY <1>3
    <2> HIDE DEF Below
    <2>3. Cardinality(Below(g) \cup {g}) = Cardinality(Below(g)) + 1
      BY <2>2, FS_AddElement
    <2>4. Cardinality(Below(g) \cup {g}) <= Cardinality(Below(h))
      BY <2>1, <2>2, FS_Subset
    <2> QED
      BY <2>2, <2>3, <2>4
  <1>5. ASSUME NEW h \in hits PROVE Cardinality(Below(h)) \in 0..(n - 1)
    <2>1. Below(h) \cup {h} \in SUBSET hits
      OBVIOUS
    <2>2. IsFiniteSet(Below(h)) /\ Cardinality(Below(h)) \in Nat /\ h \notin Below(h)
      BY <1>3
    <2> HIDE DEF Below
    <2>3. Cardinality(Below(h) \cup {h}) = Cardinality(Below(h)) + 1
      BY <2>2, FS_AddElement
    <2>4. Cardinality(Below(h) \cup {h}) <= n
      BY <2>1, FS_Subset
    <2> HIDE DEF n
    <2> QED
      BY <1>1, <2>2, <2>3, <2>4
  <1>6. \A h \in hits : rank[h] = Cardinality(Below(h))
    OBVIOUS
  <1>7. rank \in [hits -> 0..(n - 1)]
    BY <1>5
  <1> HIDE DEF Below, rank, n
  <1>8. ASSUME NEW g \in hits, NEW h \in hits, rank[g] = rank[h] PROVE g = h
    <2>1. Before(g, h) \/ Before(h, g) \/ g = h
      BY BeforeOrders
    <2>2. ~Before(g, h)
      BY <1>3, <1>4, <1>6, <1>8
    <2>3. ~Before(h, g)
      BY <1>3, <1>4, <1>6, <1>8
    <2> QED
      BY <2>1, <2>2, <2>3
  <1>9. \A i \in 0..(n - 1) : \E h \in hits : rank[h] = i
    <2>1. rank \in Injection(hits, 0..(n - 1))
      <3>1. \A g, h \in hits : rank[g] = rank[h] => g = h
        BY <1>8
      <3> QED
        BY <1>7, <3>1 DEF Injection, IsInjective
    <2>2. IsFiniteSet(0..(n - 1)) /\ Cardinality(0..(n - 1)) = n
      <3>1. 0 \in Int /\ n - 1 \in Int /\ (IF 0 > n - 1 THEN 0 ELSE n - 1 - 0 + 1) = n
        BY <1>1
      <3> QED
        BY <3>1, FS_Interval
    <2>3. rank \in Surjection(hits, 0..(n - 1))
      BY <2>1, <2>2, FS_Injection DEF n
    <2> QED
      BY <2>3 DEF Surjection
  <1>10. ASSUME NEW i \in 1..n PROVE sorted[i] \in hits /\ rank[sorted[i]] = i - 1
    <2>1. i - 1 \in 0..(n - 1)
      BY <1>1
    <2>2. \E h \in hits : Cardinality(Below(h)) = i - 1
      BY <1>6, <1>9, <2>1
    <2>3. sorted[i] = CHOOSE h \in hits : Cardinality(Below(h)) = i - 1
      OBVIOUS
    <2>4. sorted[i] \in hits /\ Cardinality(Below(sorted[i])) = i - 1
      BY <2>2, <2>3
    <2> QED
      BY <1>6, <2>4
  <1>11. sorted \in Seq(hits) /\ Len(sorted) = n
    <2>1. sorted \in [1..n -> hits]
      BY <1>10
    <2> HIDE DEF sorted
    <2> QED
      BY <1>1, <2>1
  <1> HIDE DEF sorted
  <1>12. ASSUME NEW h \in hits PROVE \E i \in 1..n : sorted[i] = h
    <2> DEFINE i == rank[h] + 1
    <2>1. i \in 1..n /\ i - 1 = rank[h]
      BY <1>1, <1>7
    <2>2. sorted[i] \in hits /\ rank[sorted[i]] = rank[h]
      BY <1>10, <2>1
    <2>3. sorted[i] = h
      BY <1>8, <2>2
    <2> QED
      BY <2>1, <2>3
  <1>13. ASSUME NEW i \in 1..(n - 1) PROVE sorted[i].first <= sorted[i + 1].first
    <2>1. i \in 1..n /\ i + 1 \in 1..n /\ i - 1 < (i + 1) - 1 /\ i - 1 \in Nat /\ (i + 1) - 1 \in Nat
      BY <1>1
    <2> DEFINE g == sorted[i]
               h == sorted[i + 1]
    <2>2. g \in hits /\ h \in hits /\ rank[g] < rank[h] /\ rank[g] \in Nat /\ rank[h] \in Nat
      BY <1>10, <2>1
    <2> HIDE DEF g, h
    <2>3. ~Before(h, g)
      BY <1>4, <1>6, <2>2
    <2>4. g # h
      BY <2>2
    <2>5. g \in Intervals /\ h \in Intervals
      BY <2>2
    <2>6. g.first <= h.first
      BY <2>3, <2>4, <2>5, BeforeOrders
    <2> QED
      BY <2>6 DEF g, h
  <1> QED
    BY <1>2, <1>11, <1>12, <1>13 DEF InOrder

AllInOrder(sorted) ==
    /\ sorted \in Seq(Intervals)
    /\ \A i \in 1..Len(sorted) : sorted[i].first < sorted[i].second
    /\ \A i \in 1..(Len(sorted) - 1) : sorted[i].first <= sorted[i + 1].first

AddedUp(hits, f) ==
    LET sorted == Sorted(hits)
    IN  /\ f \in [0..Len(sorted) -> Seq(Intervals)] /\ f[0] = <<>>
        /\ \A i \in 1..Len(sorted) : f[i] = Added(f[i - 1], sorted[i])
        /\ Merged(hits) = f[Len(sorted)]

LEMMA AddedType ==
    ASSUME NEW m \in Seq(Intervals), NEW h \in Intervals PROVE Added(m, h) \in Seq(Intervals)
  <1>1. CASE m # <<>> /\ Joins(h, Last(m))
    <2>1. Len(m) \in 1..Len(m)
      BY <1>1, EmptySeq
    <2> DEFINE v == IF m[Len(m)].second > h.second THEN m[Len(m)].second ELSE h.second
    <2>2. m[Len(m)] \in Intervals
      BY <2>1, ElementOfSeq
    <2>3. v \in Nat
      BY <2>2 DEF Intervals
    <2>4. Added(m, h) = [m EXCEPT ![Len(m)] = [m[Len(m)] EXCEPT !.second = v]]
      BY <1>1 DEF Added
    <2> HIDE DEF v
    <2>5. [m[Len(m)] EXCEPT !.second = v] \in Intervals
      BY <2>2, <2>3 DEF Intervals
    <2> QED
      BY <2>1, <2>4, <2>5, ExceptSeq
  <1>2. CASE ~(m # <<>> /\ Joins(h, Last(m)))
    <2>1. Added(m, h) = Append(m, h)
      BY <1>2 DEF Added
    <2> QED
      BY <2>1, AppendSeq
  <1> QED
    BY <1>1, <1>2

\* Merged adds one hit after the other.
LEMMA MergedDef ==
    ASSUME NEW hits, Sorted(hits) \in Seq(Intervals)
    PROVE  \E f : AddedUp(hits, f)
  <1> DEFINE N == Len(Sorted(hits))
             V == Seq(Intervals)
             A == <<>>
             G == [i \in 1..N |-> [x \in V |-> Added(x, Sorted(hits)[i])]]
             Body(f) == [n \in 0..N |-> IF n = 0 THEN A ELSE Added(f[n - 1], Sorted(hits)[n])]
             after == CHOOSE f : f = Body(f)
  <1>1. N \in Nat
    OBVIOUS
  <1>2. A \in V
    OBVIOUS
  <1>3. ASSUME NEW i \in 1..N, NEW x \in V PROVE Added(x, Sorted(hits)[i]) \in V
    <2>1. Sorted(hits)[i] \in Intervals
      BY ElementOfSeq
    <2> QED
      BY <1>3, <2>1, AddedType
  <1>4. Merged(hits) = after[Len(Sorted(hits))]
    BY DEF Merged
  <1> HIDE DEF N, V, A
  <1>5. \A i \in 1..N, x \in V : G[i][x] = Added(x, Sorted(hits)[i])
    OBVIOUS
  <1>6. G \in [1..N -> [V -> V]]
    BY <1>3, <1>5
  <1> HIDE DEF G
  <1>7. PICK f \in [0..N -> V] : Recursion(f, A, G, N)
    BY <1>1, <1>2, <1>6, RecursionExists, Zenon
  <1>8. \A i \in 1..N : i \in 0..N /\ i - 1 \in 0..N /\ i # 0
    BY <1>1
  <1>9. \A i \in 1..N : f[i] = Added(f[i - 1], Sorted(hits)[i])
    BY <1>5, <1>7, <1>8 DEF Recursion
  <1>10. f = Body(f)
    <2>1. ASSUME NEW i \in 0..N PROVE f[i] = Body(f)[i]
      <3>1. CASE i = 0
        BY <1>7, <3>1 DEF Recursion
      <3>2. CASE i # 0
        <4>1. i \in 1..N
          BY <1>1, <3>2
        <4> QED
          BY <1>9, <3>2, <4>1
      <3> QED
        BY <3>1, <3>2
    <2> QED
      BY <1>7, <2>1
  <1>11. after = Body(after)
    BY <1>10
  <1> HIDE DEF after
  <1>12. after[0] = A /\ \A i \in 1..N : after[i] = Added(after[i - 1], Sorted(hits)[i])
    <2>1. \A i \in 0..N : after[i] = Body(after)[i]
      BY <1>11
    <2>2. 0 \in 0..N
      BY <1>1
    <2> QED
      BY <1>8, <2>1, <2>2
  <1>13. \A i \in 0..N : after[i] \in V
    <2>1. \A i \in 1..N : after[i - 1] \in V => after[i] = G[i][after[i - 1]]
      BY <1>5, <1>12
    <2> QED
      BY <1>1, <1>2, <1>6, <1>12, <2>1, RecursionTypes
  <1>14. after \in [0..N -> V]
    BY <1>11, <1>13
  <1>15. AddedUp(hits, after)
    BY <1>4, <1>12, <1>14 DEF AddedUp, N, V, A
  <1> QED
    BY <1>15

Holds(h, p) == h.first <= p /\ p < h.second
In(p, m) == \E i \in 1..Len(m) : Holds(m[i], p)

Apart(m) ==
    /\ \A i \in 1..Len(m) : m[i].first < m[i].second
    /\ \A i \in 1..(Len(m) - 1) : m[i].second < m[i + 1].first

\* The interval h has been added to m.
Extends(m, h, r) ==
    /\ r \in Seq(Intervals) /\ Apart(r) /\ Len(r) > 0 /\ r[Len(r)].first <= h.first
    /\ \A p \in Nat : In(p, r) <=> In(p, m) \/ Holds(h, p)

LEMMA JoinedRight ==
    ASSUME NEW m \in Seq(Intervals), Apart(m), NEW h \in Intervals, h.first < h.second,
           Len(m) > 0, m[Len(m)].first <= h.first, Joins(h, Last(m))
    PROVE  Extends(m, h, Added(m, h))
  <1> DEFINE n == Len(m)
             l == m[n]
             v == IF l.second > h.second THEN l.second ELSE h.second
             g == [l EXCEPT !.second = v]
             r == [m EXCEPT ![n] = g]
  <1>1. n \in 1..n /\ n \in Nat /\ n > 0
    OBVIOUS
  <1>2. l \in Intervals
    BY <1>1, ElementOfSeq
  <1>3. l.first <= h.first /\ h.first <= l.second /\ l.first < l.second
    BY <1>1 DEF Joins, Last, Apart
  <1>4. l.first \in Nat /\ l.second \in Nat /\ h.first \in Nat /\ h.second \in Nat
    BY <1>2 DEF Intervals
  <1>5. m # <<>>
    BY <1>1
  <1>6. Added(m, h) = r
    BY <1>5 DEF Added
  <1> HIDE DEF v
  <1>7. v \in Nat /\ v >= l.second /\ v >= h.second /\ (v = l.second \/ v = h.second)
    BY <1>4 DEF v
  <1>8. g \in Intervals /\ g.first = l.first /\ g.second = v
    BY <1>2, <1>7 DEF Intervals
  <1> HIDE DEF g
  <1>9. r \in Seq(Intervals) /\ Len(r) = n /\ \A j \in 1..n : r[j] = IF j = n THEN g ELSE m[j]
    BY <1>1, <1>8, ExceptSeq
  <1> HIDE DEF r, l, n
  <1>10. r[n] = g
    BY <1>1, <1>9
  <1>11. \A j \in 1..n : j # n => r[j] = m[j]
    BY <1>9
  <1>12. \A p \in Nat : Holds(g, p) <=> Holds(l, p) \/ Holds(h, p)
    BY <1>3, <1>4, <1>7, <1>8 DEF Holds
  <1>13. \A p \in Nat : In(p, r) <=> In(p, m) \/ Holds(h, p)
    <2> TAKE p \in Nat
    <2>1. In(p, r) <=> \E i \in 1..n : Holds(r[i], p)
      BY <1>9 DEF In
    <2>2. In(p, m) <=> \E i \in 1..n : Holds(m[i], p)
      BY DEF In, n
    <2>3. m[n] = l
      BY DEF l
    <2>4. ASSUME NEW i \in 1..n, Holds(r[i], p) PROVE In(p, m) \/ Holds(h, p)
      <3>1. CASE i = n
        BY <1>1, <1>10, <1>12, <2>2, <2>3, <2>4, <3>1
      <3>2. CASE i # n
        BY <1>11, <2>2, <2>4, <3>2
      <3> QED
        BY <3>1, <3>2
    <2>5. ASSUME NEW i \in 1..n, Holds(m[i], p) PROVE In(p, r)
      <3>1. CASE i = n
        BY <1>1, <1>10, <1>12, <2>1, <2>3, <2>5, <3>1
      <3>2. CASE i # n
        BY <1>11, <2>1, <2>5, <3>2
      <3> QED
        BY <3>1, <3>2
    <2>6. Holds(h, p) => In(p, r)
      BY <1>1, <1>10, <1>12, <2>1
    <2> QED
      BY <2>1, <2>2, <2>4, <2>5, <2>6
  <1>14. ASSUME NEW i \in 1..n PROVE r[i].first < r[i].second
    <2>1. CASE i = n
      BY <1>3, <1>4, <1>7, <1>8, <1>10, <2>1
    <2>2. CASE i # n
      BY <1>11, <2>2 DEF Apart, n
    <2> QED
      BY <2>1, <2>2
  <1>15. ASSUME NEW i \in 1..(n - 1) PROVE r[i].second < r[i + 1].first
    <2>1. i \in 1..n /\ i # n /\ i + 1 \in 1..n
      BY <1>1
    <2>2. r[i] = m[i] /\ m[i].second < m[i + 1].first
      BY <1>11, <2>1 DEF Apart, n
    <2>3. r[i + 1].first = m[i + 1].first
      <3>1. CASE i + 1 = n
        BY <1>8, <1>10, <3>1 DEF l
      <3>2. CASE i + 1 # n
        BY <1>11, <2>1, <3>2
      <3> QED
        BY <3>1, <3>2
    <2> QED
      BY <2>2, <2>3
  <1> QED
    BY <1>1, <1>3, <1>6, <1>8, <1>9, <1>10, <1>13, <1>14, <1>15 DEF Extends, Apart

LEMMA AppendedRight ==
    ASSUME NEW m \in Seq(Intervals), Apart(m), NEW h \in Intervals, h.first < h.second,
           Len(m) > 0 => m[Len(m)].second < h.first
    PROVE  Extends(m, h, Append(m, h))
  <1> DEFINE n == Len(m)
             r == Append(m, h)
  <1>1. n \in Nat
    OBVIOUS
  <1>2. /\ r \in Seq(Intervals) /\ Len(r) = n + 1
        /\ \A i \in 1..n : r[i] = m[i]
        /\ r[n + 1] = h
    BY AppendSeq
  <1> HIDE DEF r, n
  <1>3. \A i \in 1..(n + 1) : i \in 1..n \/ i = n + 1
    BY <1>1
  <1>4. n + 1 \in 1..(n + 1) /\ \A i \in 1..n : i \in 1..(n + 1)
    BY <1>1
  <1>5. \A p \in Nat : In(p, r) <=> In(p, m) \/ Holds(h, p)
    <2> TAKE p \in Nat
    <2>1. In(p, r) <=> \E i \in 1..(n + 1) : Holds(r[i], p)
      BY <1>2 DEF In
    <2>2. In(p, m) <=> \E i \in 1..n : Holds(m[i], p)
      BY DEF In, n
    <2> QED
      BY <1>2, <1>3, <1>4, <2>1, <2>2
  <1>6. ASSUME NEW i \in 1..(n + 1) PROVE r[i].first < r[i].second
    <2>1. CASE i \in 1..n
      BY <1>2, <2>1 DEF Apart, n
    <2>2. CASE i = n + 1
      BY <1>2, <2>2
    <2> QED
      BY <1>3, <2>1, <2>2
  <1>7. ASSUME NEW i \in 1..n PROVE r[i].second < r[i + 1].first
    <2>1. CASE i = n
      <3>1. n > 0 /\ r[n] = m[n] /\ m[n].second < h.first
        BY <1>1, <1>2, <2>1 DEF n
      <3> QED
        BY <1>2, <2>1, <3>1
    <2>2. CASE i # n
      <3>1. i \in 1..(n - 1) /\ i + 1 \in 1..n
        BY <1>1, <2>2
      <3>2. m[i].second < m[i + 1].first
        BY <3>1 DEF Apart, n
      <3> QED
        BY <1>2, <3>1, <3>2
    <2> QED
      BY <2>1, <2>2
  <1>8. Len(r) > 0 /\ Len(r) - 1 = n /\ h.first <= h.first
    BY <1>1, <1>2 DEF Intervals
  <1> QED
    BY <1>2, <1>5, <1>6, <1>7, <1>8 DEF Extends, Apart, r

LEMMA AddedRight ==
    ASSUME NEW m \in Seq(Intervals), Apart(m), NEW h \in Intervals, h.first < h.second,
           Len(m) > 0 => m[Len(m)].first <= h.first
    PROVE  Extends(m, h, Added(m, h))
  <1>1. m # <<>> <=> Len(m) > 0
    BY EmptySeq
  <1>2. CASE m # <<>> /\ Joins(h, Last(m))
    BY <1>1, <1>2, JoinedRight
  <1>3. CASE ~(m # <<>> /\ Joins(h, Last(m)))
    <2>1. Added(m, h) = Append(m, h)
      BY <1>3 DEF Added
    <2>2. ASSUME Len(m) > 0 PROVE m[Len(m)].second < h.first
      <3>1. ~(h.first <= m[Len(m)].second)
        BY <1>1, <1>3, <2>2 DEF Joins, Last
      <3>2. m[Len(m)] \in Intervals
        BY <2>2, ElementOfSeq
      <3> QED
        BY <3>1, <3>2 DEF Intervals
    <2>3. Extends(m, h, Append(m, h))
      BY <2>2, AppendedRight
    <2> QED
      BY <2>1, <2>3
  <1> QED
    BY <1>2, <1>3

LEMMA MergedRight ==
    ASSUME NEW hits, AllInOrder(Sorted(hits))
    PROVE  /\ Merged(hits) \in Seq(Intervals) /\ Apart(Merged(hits))
           /\ \A p \in Nat : In(p, Merged(hits)) <=> In(p, Sorted(hits))
  <1> DEFINE sorted == Sorted(hits)
             N == Len(sorted)
  <1>1. sorted \in Seq(Intervals)
    BY DEF AllInOrder
  <1>2. PICK f : AddedUp(hits, f)
    BY <1>1, MergedDef
  <1>3. /\ f \in [0..N -> Seq(Intervals)] /\ f[0] = <<>>
        /\ \A i \in 1..N : f[i] = Added(f[i - 1], sorted[i])
        /\ Merged(hits) = f[N]
    BY <1>2 DEF AddedUp
  <1>4. N \in Nat
    BY <1>1
  <1>5. \A i \in 1..N : sorted[i] \in Intervals /\ sorted[i].first < sorted[i].second
    BY <1>1, ElementOfSeq DEF AllInOrder
  <1>6. \A i \in 1..(N - 1) : sorted[i].first <= sorted[i + 1].first
    BY DEF AllInOrder
  <1> HIDE DEF sorted, N
  <1> DEFINE Covers(n) == \A p \in Nat : In(p, f[n]) <=> \E j \in 1..n : Holds(sorted[j], p)
             Latest(n) == n > 0 => f[n][Len(f[n])].first <= sorted[n].first
             S == {n \in 0..N : Apart(f[n]) /\ Latest(n) /\ Covers(n) /\ (n = 0 => f[n] = <<>>)}
  <1>7. 0 \in S
    <2>1. Apart(<<>>)
      BY DEF Apart
    <2>2. \A p \in Nat : ~In(p, <<>>)
      BY DEF In
    <2>3. 0 \in 0..N /\ 1..0 = {}
      BY <1>4
    <2> QED
      BY <1>3, <2>1, <2>2, <2>3
  <1>8. ASSUME NEW n \in 0..(N - 1), n \in S PROVE n + 1 \in S
    <2>1. n \in Nat /\ n \in 0..N /\ n + 1 \in 1..N /\ n + 1 \in 0..N /\ (n + 1) - 1 = n
      BY <1>4
    <2> DEFINE m == f[n]
               h == sorted[n + 1]
               r == f[n + 1]
    <2>2. m \in Seq(Intervals) /\ h \in Intervals /\ h.first < h.second /\ r = Added(m, h)
      BY <1>3, <1>5, <2>1
    <2>3. Apart(m) /\ Latest(n) /\ Covers(n) /\ (n = 0 => m = <<>>)
      BY <1>8
    <2>4. Len(m) > 0 => m[Len(m)].first <= h.first
      <3> SUFFICES ASSUME Len(m) > 0 PROVE m[Len(m)].first <= h.first
        OBVIOUS
      <3>1. n > 0
        BY <2>1, <2>3
      <3>2. m[Len(m)].first <= sorted[n].first
        BY <2>3, <3>1
      <3>3. n \in 1..(N - 1) /\ n \in 1..N
        BY <1>4, <2>1, <3>1
      <3>4. sorted[n].first <= h.first
        BY <1>6, <3>3
      <3>5. m[Len(m)] \in Intervals
        BY <2>2, ElementOfSeq
      <3>6. sorted[n] \in Intervals
        BY <1>5, <3>3
      <3>7. m[Len(m)].first \in Nat /\ sorted[n].first \in Nat /\ h.first \in Nat
        BY <2>2, <3>5, <3>6 DEF Intervals
      <3> QED
        BY <3>2, <3>4, <3>7
    <2> HIDE DEF m, h, r, S
    <2>5. Extends(m, h, r)
      BY <2>2, <2>3, <2>4, AddedRight DEF m
    <2>6. ASSUME NEW p \in Nat
          PROVE  In(p, r) <=> \E j \in 1..(n + 1) : Holds(sorted[j], p)
      <3>1. In(p, r) <=> In(p, m) \/ Holds(h, p)
        BY <2>5 DEF Extends
      <3>2. In(p, m) <=> \E j \in 1..n : Holds(sorted[j], p)
        BY <2>3 DEF m
      <3>3. /\ \A j \in 1..(n + 1) : j \in 1..n \/ j = n + 1
            /\ n + 1 \in 1..(n + 1) /\ \A j \in 1..n : j \in 1..(n + 1)
        BY <2>1
      <3> QED
        BY <3>1, <3>2, <3>3 DEF h
    <2>7. Apart(r) /\ r[Len(r)].first <= h.first
      BY <2>5 DEF Extends
    <2>8. n + 1 # 0
      BY <2>1
    <2> QED
      BY <2>1, <2>6, <2>7, <2>8 DEF S, r, h
  <1>9. N \in S
    <2>1. N \in 0..N
      BY <1>4
    <2> HIDE DEF S
    <2> QED
      BY <1>4, <1>7, <1>8, <2>1, UpTo
  <1>10. N \in 0..N
    BY <1>4
  <1>11. \A p \in Nat : In(p, f[N]) <=> \E j \in 1..N : Holds(sorted[j], p)
    BY <1>9
  <1> QED
    BY <1>3, <1>9, <1>10, <1>11 DEF In, sorted, N

(***************************************************************************)
(* The snippet: its marks.                                                 *)
(***************************************************************************)

Tags == {"<b>", "</b>"}
Out == Chars \cup Tags
MarkStates == [text : Seq(Chars), depths : Seq(Int), depth : Int]

\* The marks, from the state st on.
MarksFrom(st, q) ==
    LET after[n \in 0..Len(q)] == IF n = 0 THEN st ELSE Marked(after[n - 1], q[n])
    IN  after[Len(q)]

Reading(st, q, f) ==
    /\ f \in [0..Len(q) -> MarkStates] /\ f[0] = st
    /\ \A i \in 1..Len(q) : f[i] = Marked(f[i - 1], q[i])
    /\ MarksFrom(st, q) = f[Len(q)]

LEMMA CharsAreNoTags == \A c \in Chars : c \notin Tags /\ c # "<b>" /\ c # "</b>"
  BY CharsAssumption DEF Tags

Becomes(st, text, depths, depth) == st.text = text /\ st.depths = depths /\ st.depth = depth

LEMMA MarkedAs ==
    ASSUME NEW st \in MarkStates, NEW c \in Out
    PROVE  /\ Marked(st, c) \in MarkStates
           /\ c = "<b>" => Becomes(Marked(st, c), st.text, st.depths, st.depth + 1)
           /\ c = "</b>" => Becomes(Marked(st, c), st.text, st.depths, st.depth - 1)
           /\ c \in Chars =>
                 Becomes(Marked(st, c), Append(st.text, c), Append(st.depths, st.depth), st.depth)
  <1>1. st.text \in Seq(Chars) /\ st.depths \in Seq(Int) /\ st.depth \in Int
    BY DEF MarkStates
  <1>2. "<b>" # "</b>"
    OBVIOUS
  <1>3. CASE c = "<b>"
    <2>1. Marked(st, c) = [st EXCEPT !.depth = @ + 1]
      BY <1>3 DEF Marked
    <2>2. c \notin Chars
      BY <1>3, CharsAreNoTags
    <2> QED
      BY <1>1, <1>2, <1>3, <2>1, <2>2 DEF MarkStates, Becomes
  <1>4. CASE c = "</b>"
    <2>1. Marked(st, c) = [st EXCEPT !.depth = @ - 1]
      BY <1>2, <1>4 DEF Marked
    <2>2. c \notin Chars
      BY <1>4, CharsAreNoTags
    <2> QED
      BY <1>1, <1>2, <1>4, <2>1, <2>2 DEF MarkStates, Becomes
  <1>5. CASE c \in Chars
    <2>1. c # "<b>" /\ c # "</b>"
      BY <1>5, CharsAreNoTags
    <2>2. Marked(st, c) = [st EXCEPT !.text = Append(@, c), !.depths = Append(@, st.depth)]
      BY <2>1 DEF Marked
    <2>3. Append(st.text, c) \in Seq(Chars) /\ Append(st.depths, st.depth) \in Seq(Int)
      BY <1>1, <1>5, AppendSeq
    <2> QED
      BY <1>1, <2>1, <2>2, <2>3 DEF MarkStates, Becomes
  <1> QED
    BY <1>3, <1>4, <1>5 DEF Out, Tags

\* MarksFrom reads one character after the other.
LEMMA ReadingDef ==
    ASSUME NEW st \in MarkStates, NEW q \in Seq(Out)
    PROVE  \E f : Reading(st, q, f)
  <1> DEFINE N == Len(q)
             V == MarkStates
             A == st
             G == [i \in 1..N |-> [x \in V |-> Marked(x, q[i])]]
             Body(f) == [n \in 0..N |-> IF n = 0 THEN A ELSE Marked(f[n - 1], q[n])]
             after == CHOOSE f : f = Body(f)
  <1>1. N \in Nat
    OBVIOUS
  <1>2. A \in V
    OBVIOUS
  <1>3. ASSUME NEW i \in 1..N, NEW x \in V PROVE Marked(x, q[i]) \in V
    <2>1. q[i] \in Out
      BY ElementOfSeq
    <2> QED
      BY <1>3, <2>1, MarkedAs
  <1>4. MarksFrom(st, q) = after[Len(q)]
    BY DEF MarksFrom
  <1> HIDE DEF N, V, A
  <1>5. \A i \in 1..N, x \in V : G[i][x] = Marked(x, q[i])
    OBVIOUS
  <1>6. G \in [1..N -> [V -> V]]
    BY <1>3, <1>5
  <1> HIDE DEF G
  <1>7. PICK f \in [0..N -> V] : Recursion(f, A, G, N)
    BY <1>1, <1>2, <1>6, RecursionExists, Zenon
  <1>8. \A i \in 1..N : i \in 0..N /\ i - 1 \in 0..N /\ i # 0
    BY <1>1
  <1>9. \A i \in 1..N : f[i] = Marked(f[i - 1], q[i])
    BY <1>5, <1>7, <1>8 DEF Recursion
  <1>10. f = Body(f)
    <2>1. ASSUME NEW i \in 0..N PROVE f[i] = Body(f)[i]
      <3>1. CASE i = 0
        BY <1>7, <3>1 DEF Recursion
      <3>2. CASE i # 0
        <4>1. i \in 1..N
          BY <1>1, <3>2
        <4> QED
          BY <1>9, <3>2, <4>1
      <3> QED
        BY <3>1, <3>2
    <2> QED
      BY <1>7, <2>1
  <1>11. after = Body(after)
    BY <1>10
  <1> HIDE DEF after
  <1>12. after[0] = A /\ \A i \in 1..N : after[i] = Marked(after[i - 1], q[i])
    <2>1. \A i \in 0..N : after[i] = Body(after)[i]
      BY <1>11
    <2>2. 0 \in 0..N
      BY <1>1
    <2> QED
      BY <1>8, <2>1, <2>2
  <1>13. \A i \in 0..N : after[i] \in V
    <2>1. \A i \in 1..N : after[i - 1] \in V => after[i] = G[i][after[i - 1]]
      BY <1>5, <1>12
    <2> QED
      BY <1>1, <1>2, <1>6, <1>12, <2>1, RecursionTypes
  <1>14. after \in [0..N -> V]
    BY <1>11, <1>13
  <1>15. Reading(st, q, after)
    BY <1>4, <1>12, <1>14 DEF Reading, N, V, A
  <1> QED
    BY <1>15

LEMMA MarksType == ASSUME NEW st \in MarkStates, NEW q \in Seq(Out) PROVE MarksFrom(st, q) \in MarkStates
  <1>1. PICK f : Reading(st, q, f)
    BY ReadingDef
  <1>2. Len(q) \in 0..Len(q)
    OBVIOUS
  <1> QED
    BY <1>1, <1>2 DEF Reading

\* One text after the other.
LEMMA MarksJoin ==
    ASSUME NEW st \in MarkStates, NEW p \in Seq(Out), NEW q \in Seq(Out)
    PROVE  MarksFrom(st, p \o q) = MarksFrom(MarksFrom(st, p), q)
  <1> DEFINE a == p \o q
             mid == MarksFrom(st, p)
             n == Len(p)
             k == Len(q)
  <1>1. /\ a \in Seq(Out) /\ Len(a) = n + k
        /\ \A i \in 1..n : a[i] = p[i]
        /\ \A i \in 1..k : a[n + i] = q[i]
    BY ConcatBegins
  <1>2. mid \in MarkStates
    BY MarksType
  <1>3. n \in Nat /\ k \in Nat
    OBVIOUS
  <1> HIDE DEF a, mid
  <1>4. PICK f : Reading(st, a, f)
    BY <1>1, ReadingDef
  <1>5. PICK g : Reading(st, p, g)
    BY ReadingDef
  <1>6. PICK h : Reading(mid, q, h)
    BY <1>2, ReadingDef
  <1> HIDE DEF n, k
  <1> DEFINE S == {i \in 0..n : f[i] = g[i]}
             T == {i \in 0..k : f[n + i] = h[i]}
  <1>7. 0 \in S
    BY <1>3, <1>4, <1>5 DEF Reading
  <1>8. ASSUME NEW i \in 0..(n - 1), i \in S PROVE i + 1 \in S
    <2>1. i + 1 \in 1..n /\ i + 1 \in 1..(n + k) /\ (i + 1) - 1 = i /\ i + 1 \in 0..n
      BY <1>3
    <2>2. f[i + 1] = Marked(f[i], a[i + 1])
      BY <1>1, <1>4, <2>1 DEF Reading
    <2>3. g[i + 1] = Marked(g[i], p[i + 1])
      BY <1>5, <2>1 DEF Reading, n
    <2> QED
      BY <1>1, <1>8, <2>1, <2>2, <2>3
  <1>9. n \in S
    <2>1. n \in 0..n
      BY <1>3
    <2> HIDE DEF S
    <2> QED
      BY <1>3, <1>7, <1>8, <2>1, UpTo
  <1>10. 0 \in T
    <2>1. f[n] = mid
      BY <1>5, <1>9 DEF Reading, n, mid
    <2>2. h[0] = mid /\ n + 0 = n /\ 0 \in 0..k
      BY <1>3, <1>6 DEF Reading
    <2> QED
      BY <2>1, <2>2
  <1>11. ASSUME NEW i \in 0..(k - 1), i \in T PROVE i + 1 \in T
    <2>1. i + 1 \in 1..k /\ n + (i + 1) \in 1..(n + k) /\ (i + 1) - 1 = i /\ (n + (i + 1)) - 1 = n + i
          /\ i + 1 \in 0..k
      BY <1>3
    <2>2. f[n + (i + 1)] = Marked(f[n + i], a[n + (i + 1)])
      BY <1>1, <1>4, <2>1 DEF Reading
    <2>3. h[i + 1] = Marked(h[i], q[i + 1])
      BY <1>6, <2>1 DEF Reading, k
    <2> QED
      BY <1>1, <1>11, <2>1, <2>2, <2>3
  <1>12. k \in T
    <2>1. k \in 0..k
      BY <1>3
    <2> HIDE DEF T
    <2> QED
      BY <1>3, <1>10, <1>11, <2>1, UpTo
  <1>13. MarksFrom(st, a) = f[n + k] /\ MarksFrom(mid, q) = h[k]
    BY <1>1, <1>4, <1>6 DEF Reading, k
  <1> QED
    BY <1>12, <1>13 DEF a, mid

\* One character.
LEMMA MarksOne == ASSUME NEW st \in MarkStates, NEW c \in Out PROVE MarksFrom(st, <<c>>) = Marked(st, c)
  <1>1. <<c>> \in Seq(Out) /\ Len(<<c>>) = 1 /\ <<c>>[1] = c
    OBVIOUS
  <1>2. PICK f : Reading(st, <<c>>, f)
    BY <1>1, ReadingDef
  <1>3. f[0] = st /\ f[1] = Marked(f[0], c) /\ MarksFrom(st, <<c>>) = f[1]
    BY <1>1, <1>2 DEF Reading
  <1> QED
    BY <1>3

LEMMA StatesEqual ==
    ASSUME NEW st \in MarkStates, NEW u \in MarkStates, Becomes(st, u.text, u.depths, u.depth)
    PROVE  st = u
  BY DEF MarkStates, Becomes

\* The marks of the first i characters of s, the depths of which are D, inside d tags.
At(s, D, i, d) == [text |-> SubSeq(s, 1, i), depths |-> SubSeq(D, 1, i), depth |-> d]

LEMMA AtType ==
    ASSUME NEW s \in Seq(Chars), NEW D \in Seq(Int), Len(D) = Len(s), NEW i \in 0..Len(s), NEW d \in Int
    PROVE  At(s, D, i, d) \in MarkStates
  <1>1. i \in Nat /\ i <= Len(s) /\ i <= Len(D)
    OBVIOUS
  <1>2. SubSeq(s, 1, i) \in Seq(Chars) /\ SubSeq(D, 1, i) \in Seq(Int)
    BY <1>1, PrefixSeq
  <1> QED
    BY <1>2 DEF At, MarkStates

LEMMA LastAppended ==
    ASSUME NEW R, NEW s \in Seq(R), NEW i \in 0..(Len(s) - 1)
    PROVE  Append(SubSeq(s, 1, i), s[i + 1]) = SubSeq(s, 1, i + 1)
  <1> DEFINE a == SubSeq(s, 1, i)
             z == SubSeq(s, 1, i + 1)
             b == Append(a, s[i + 1])
  <1>1. i \in Nat /\ i + 1 \in Nat /\ i <= Len(s) /\ i + 1 <= Len(s) /\ i + 1 \in 1..Len(s)
    OBVIOUS
  <1>2. a \in Seq(R) /\ Len(a) = i /\ \A j \in 1..i : a[j] = s[j]
    BY <1>1, PrefixSeq
  <1>3. z \in Seq(R) /\ Len(z) = i + 1 /\ \A j \in 1..(i + 1) : z[j] = s[j]
    BY <1>1, PrefixSeq
  <1>4. s[i + 1] \in R
    BY <1>1
  <1> HIDE DEF a, z
  <1>5. /\ b \in Seq(R) /\ Len(b) = i + 1 /\ b[i + 1] = s[i + 1]
        /\ \A j \in 1..i : b[j] = a[j]
    BY <1>2, <1>4, AppendSeq
  <1> HIDE DEF b
  <1>6. ASSUME NEW j \in 1..(i + 1) PROVE b[j] = z[j]
    <2>1. j \in 1..i \/ j = i + 1
      OBVIOUS
    <2>2. CASE j \in 1..i
      BY <1>2, <1>3, <1>5, <2>2
    <2>3. CASE j = i + 1
      BY <1>1, <1>3, <1>5, <2>3
    <2> QED
      BY <2>1, <2>2, <2>3
  <1>7. b = z
    BY <1>3, <1>5, <1>6, SeqEqual
  <1> QED
    BY <1>7 DEF a, b, z

\* Text between tags.
LEMMA MarksText ==
    ASSUME NEW s \in Seq(Chars), NEW D \in Seq(Int), Len(D) = Len(s), NEW i \in 0..Len(s),
           NEW j \in i..Len(s), NEW d \in Int, \A k \in (i + 1)..j : D[k] = d
    PROVE  MarksFrom(At(s, D, i, d), SubSeq(s, i + 1, j)) = At(s, D, j, d)
  <1> DEFINE q == SubSeq(s, i + 1, j)
             n == j - i
             st == At(s, D, i, d)
  <1>1. n \in Nat /\ i \in Nat /\ j \in Nat /\ j <= Len(s) /\ i + n = j /\ Len(s) \in Nat
    OBVIOUS
  <1>2. q \in Seq(Chars) /\ Len(q) = n /\ \A k \in 1..n : q[k] = s[i + k]
    <2>1. i + 1 \in Nat \ {0} /\ i + 1 <= j + 1 /\ j - (i + 1) + 1 = n
          /\ \A k \in 1..n : (i + 1) + k - 1 = i + k
      BY <1>1
    <2>2. /\ q \in Seq(Chars) /\ Len(q) = j - (i + 1) + 1
          /\ \A k \in 1..(j - (i + 1) + 1) : q[k] = s[(i + 1) + k - 1]
      BY <1>1, <2>1, PieceSeq
    <2> QED
      BY <2>1, <2>2
  <1>3. st \in MarkStates
    BY AtType
  <1> HIDE DEF q, n, st
  <1>4. q \in Seq(Out)
    BY <1>2 DEF Out
  <1>5. PICK f : Reading(st, q, f)
    BY <1>3, <1>4, ReadingDef
  <1> DEFINE S == {k \in 0..n : f[k] = At(s, D, i + k, d)}
  <1>6. 0 \in S
    <2>1. i + 0 = i /\ 0 \in 0..n
      BY <1>1
    <2> QED
      BY <1>5, <2>1 DEF Reading, st
  <1>7. ASSUME NEW k \in 0..(n - 1), k \in S PROVE k + 1 \in S
    <2>1. /\ k + 1 \in 1..n /\ k + 1 \in 0..n /\ (k + 1) - 1 = k /\ i + (k + 1) = (i + k) + 1
          /\ i + k \in 0..(Len(s) - 1) /\ i + k + 1 \in (i + 1)..j /\ i + k + 1 \in 1..Len(s)
          /\ i + k \in 0..Len(s)
      BY <1>1
    <2> DEFINE c == s[i + k + 1]
               at == At(s, D, i + k, d)
    <2>2. c \in Chars /\ c \in Out
      BY <2>1 DEF Out
    <2>3. f[k + 1] = Marked(at, c)
      <3>1. f[k + 1] = Marked(f[k], q[k + 1])
        BY <1>2, <1>5, <2>1 DEF Reading
      <3>2. q[k + 1] = c
        BY <1>2, <2>1
      <3> QED
        BY <1>7, <3>1, <3>2
    <2>4. at \in MarkStates
      BY <2>1, AtType
    <2>5. Marked(at, c) \in MarkStates
          /\ Becomes(Marked(at, c), Append(at.text, c), Append(at.depths, at.depth), at.depth)
      <3> HIDE DEF at, c
      <3> QED
        BY <2>2, <2>4, MarkedAs
    <2>6. Append(SubSeq(s, 1, i + k), c) = SubSeq(s, 1, i + k + 1)
      BY <2>1, LastAppended
    <2>7. Append(SubSeq(D, 1, i + k), d) = SubSeq(D, 1, i + k + 1)
      <3>1. D[i + k + 1] = d /\ i + k \in 0..(Len(D) - 1)
        BY <2>1
      <3>2. Append(SubSeq(D, 1, i + k), D[i + k + 1]) = SubSeq(D, 1, i + k + 1)
        BY <3>1, LastAppended
      <3> QED
        BY <3>1, <3>2
    <2>8. Marked(at, c) = At(s, D, i + k + 1, d)
      <3>1. at.text = SubSeq(s, 1, i + k) /\ at.depths = SubSeq(D, 1, i + k) /\ at.depth = d
        BY DEF At
      <3> DEFINE u == At(s, D, i + k + 1, d)
      <3>2. u \in MarkStates
        <4>1. i + k + 1 \in 0..Len(s)
          BY <2>1
        <4> QED
          BY <4>1, AtType
      <3>3. u.text = SubSeq(s, 1, i + k + 1) /\ u.depths = SubSeq(D, 1, i + k + 1) /\ u.depth = d
        BY DEF At
      <3>4. Append(at.text, c) = u.text /\ Append(at.depths, at.depth) = u.depths /\ at.depth = u.depth
        BY <2>6, <2>7, <3>1, <3>3
      <3> HIDE DEF at, c, u
      <3>5. Becomes(Marked(at, c), u.text, u.depths, u.depth)
        BY <2>5, <3>4
      <3>6. Marked(at, c) = u
        BY <2>5, <3>2, <3>5, StatesEqual
      <3> QED
        BY <3>6 DEF u
    <2> QED
      BY <2>1, <2>3, <2>8
  <1>8. n \in S
    <2>1. n \in 0..n
      BY <1>1
    <2> HIDE DEF S
    <2> QED
      BY <1>1, <1>6, <1>7, <2>1, UpTo
  <1>9. MarksFrom(st, q) = f[n]
    BY <1>2, <1>5 DEF Reading
  <1> QED
    BY <1>1, <1>8, <1>9 DEF st, q

LEMMA MarksTags ==
    ASSUME NEW s \in Seq(Chars), NEW D \in Seq(Int), Len(D) = Len(s), NEW i \in 0..Len(s)
    PROVE  /\ MarksFrom(At(s, D, i, 0), <<"<b>">>) = At(s, D, i, 1)
           /\ MarksFrom(At(s, D, i, 1), <<"</b>">>) = At(s, D, i, 0)
  <1>1. At(s, D, i, 0) \in MarkStates /\ At(s, D, i, 1) \in MarkStates
    BY AtType
  <1>2. "<b>" \in Out /\ "</b>" \in Out
    BY DEF Out, Tags
  <1> DEFINE outside == At(s, D, i, 0)
             inside == At(s, D, i, 1)
  <1>3. /\ outside.text = inside.text /\ outside.depths = inside.depths
        /\ outside.depth + 1 = inside.depth /\ inside.depth - 1 = outside.depth
    BY DEF At
  <1> HIDE DEF outside, inside
  <1>4. Marked(outside, "<b>") = inside
    <2>1. /\ Marked(outside, "<b>") \in MarkStates
          /\ Becomes(Marked(outside, "<b>"), outside.text, outside.depths, outside.depth + 1)
      BY <1>1, <1>2, MarkedAs DEF outside
    <2>2. Becomes(Marked(outside, "<b>"), inside.text, inside.depths, inside.depth)
      BY <1>3, <2>1
    <2> QED
      BY <1>1, <2>1, <2>2, StatesEqual DEF inside
  <1>5. Marked(inside, "</b>") = outside
    <2>1. /\ Marked(inside, "</b>") \in MarkStates
          /\ Becomes(Marked(inside, "</b>"), inside.text, inside.depths, inside.depth - 1)
      BY <1>1, <1>2, MarkedAs DEF inside
    <2>2. Becomes(Marked(inside, "</b>"), outside.text, outside.depths, outside.depth)
      BY <1>3, <2>1
    <2> QED
      BY <1>1, <2>1, <2>2, StatesEqual DEF outside
  <1> QED
    BY <1>1, <1>2, <1>4, <1>5, MarksOne DEF inside, outside

(***************************************************************************)
(* The snippet: its tags.                                                  *)
(***************************************************************************)

LEMMA TextIsOut == Seq(Chars) \subseteq Seq(Out) /\ <<"<b>">> \in Seq(Out) /\ <<"</b>">> \in Seq(Out)
  <1>1. Chars \subseteq Out /\ "<b>" \in Out /\ "</b>" \in Out
    BY DEF Out, Tags
  <1> QED
    BY <1>1

LEMMA OutConcat ==
    ASSUME NEW p \in Seq(Out), NEW q \in Seq(Out)
    PROVE  /\ p \o q \in Seq(Out) /\ Len(p \o q) = Len(p) + Len(q)
           /\ \A i \in 1..Len(p) : (p \o q)[i] = p[i]
           /\ \A i \in 1..Len(q) : (p \o q)[Len(p) + i] = q[i]
  BY ConcatBegins

\* Inside the part that is still text.
LEMMA PieceOfText ==
    ASSUME NEW s \in Seq(Out), NEW b \in 0..Len(s), NEW r \in Seq(Out),
           NEW i \in 1..(b + 1), NEW j \in (i - 1)..b
    PROVE  SubSeq(SubSeq(s, 1, b) \o r, i, j) = SubSeq(s, i, j)
  <1> DEFINE p == SubSeq(s, 1, b)
             x == p \o r
             y == SubSeq(x, i, j)
             z == SubSeq(s, i, j)
             n == j - i + 1
  <1>1. /\ b \in Nat /\ b <= Len(s) /\ Len(s) \in Nat /\ i \in Nat \ {0} /\ j \in Nat /\ i <= j + 1
        /\ j <= Len(s) /\ n \in Nat /\ j <= b /\ Len(r) \in Nat
    OBVIOUS
  <1>2. p \in Seq(Out) /\ Len(p) = b /\ \A k \in 1..b : p[k] = s[k]
    BY <1>1, PrefixSeq
  <1> HIDE DEF p
  <1>3. x \in Seq(Out) /\ Len(x) = b + Len(r) /\ \A k \in 1..b : x[k] = p[k]
    BY <1>2, OutConcat
  <1> HIDE DEF x
  <1>4. y \in Seq(Out) /\ Len(y) = n /\ \A k \in 1..n : y[k] = x[i + k - 1]
    <2>1. j <= Len(x)
      BY <1>1, <1>3
    <2> QED
      BY <1>1, <1>3, <2>1, PieceSeq
  <1>5. z \in Seq(Out) /\ Len(z) = n /\ \A k \in 1..n : z[k] = s[i + k - 1]
    BY <1>1, PieceSeq
  <1> HIDE DEF y, z
  <1>6. ASSUME NEW k \in 1..n PROVE y[k] = z[k]
    <2>1. i + k - 1 \in 1..b
      BY <1>1
    <2> HIDE DEF n
    <2>2. y[k] = x[i + k - 1] /\ z[k] = s[i + k - 1]
      BY <1>4, <1>5
    <2> QED
      BY <1>2, <1>3, <2>1, <2>2
  <1>7. y = z
    BY <1>4, <1>5, <1>6, SeqEqual
  <1> QED
    BY <1>7 DEF y, z, x, p

\* And from inside it to the end.
LEMMA RestOfText ==
    ASSUME NEW s \in Seq(Out), NEW b \in 0..Len(s), NEW r \in Seq(Out), NEW i \in 0..b
    PROVE  SubSeq(SubSeq(s, 1, b) \o r, i + 1, Len(SubSeq(s, 1, b) \o r)) = SubSeq(s, i + 1, b) \o r
  <1> DEFINE p == SubSeq(s, 1, b)
             x == p \o r
             y == SubSeq(x, i + 1, Len(x))
             g == SubSeq(s, i + 1, b)
             z == g \o r
             n == b - i
  <1>1. /\ b \in Nat /\ b <= Len(s) /\ Len(s) \in Nat /\ i \in Nat /\ i <= b /\ n \in Nat
        /\ Len(r) \in Nat /\ i + 1 \in Nat \ {0} /\ b - (i + 1) + 1 = n /\ i + 1 <= b + 1
    OBVIOUS
  <1>2. p \in Seq(Out) /\ Len(p) = b /\ \A k \in 1..b : p[k] = s[k]
    BY <1>1, PrefixSeq
  <1> HIDE DEF p
  <1>3. /\ x \in Seq(Out) /\ Len(x) = b + Len(r) /\ \A k \in 1..b : x[k] = p[k]
        /\ \A k \in 1..Len(r) : x[b + k] = r[k]
    BY <1>2, OutConcat
  <1> HIDE DEF x
  <1>4. y \in Seq(Out) /\ Len(y) = n + Len(r) /\ \A k \in 1..(n + Len(r)) : y[k] = x[i + k]
    <2>1. /\ Len(x) \in Nat /\ i + 1 <= Len(x) + 1 /\ Len(x) - (i + 1) + 1 = n + Len(r)
          /\ \A k \in 1..(n + Len(r)) : (i + 1) + k - 1 = i + k
      BY <1>1, <1>3
    <2>2. /\ y \in Seq(Out) /\ Len(y) = Len(x) - (i + 1) + 1
          /\ \A k \in 1..(Len(x) - (i + 1) + 1) : y[k] = x[(i + 1) + k - 1]
      BY <1>1, <1>3, <2>1, PieceSeq
    <2> QED
      BY <2>1, <2>2
  <1>5. g \in Seq(Out) /\ Len(g) = n /\ \A k \in 1..n : g[k] = s[i + k]
    <2>1. \A k \in 1..n : (i + 1) + k - 1 = i + k
      BY <1>1
    <2>2. /\ g \in Seq(Out) /\ Len(g) = b - (i + 1) + 1
          /\ \A k \in 1..(b - (i + 1) + 1) : g[k] = s[(i + 1) + k - 1]
      BY <1>1, PieceSeq
    <2> QED
      BY <1>1, <2>1, <2>2
  <1> HIDE DEF g, y
  <1>6. /\ z \in Seq(Out) /\ Len(z) = n + Len(r) /\ \A k \in 1..n : z[k] = g[k]
        /\ \A k \in 1..Len(r) : z[n + k] = r[k]
    <2>1. /\ g \o r \in Seq(Out) /\ Len(g \o r) = Len(g) + Len(r)
          /\ \A k \in 1..Len(g) : (g \o r)[k] = g[k]
          /\ \A k \in 1..Len(r) : (g \o r)[Len(g) + k] = r[k]
      BY <1>5, OutConcat
    <2> HIDE DEF n
    <2> QED
      BY <1>5, <2>1
  <1> HIDE DEF z
  <1>7. ASSUME NEW k \in 1..(n + Len(r)) PROVE y[k] = z[k]
    <2>1. CASE k <= n
      <3>1. k \in 1..n /\ i + k \in 1..b
        BY <1>1, <2>1
      <3> HIDE DEF n
      <3>2. y[k] = x[i + k]
        BY <1>4
      <3>3. x[i + k] = s[i + k]
        BY <1>2, <1>3, <3>1
      <3>4. z[k] = s[i + k]
        BY <1>5, <1>6, <3>1
      <3> QED
        BY <3>2, <3>3, <3>4
    <2>2. CASE k > n
      <3>1. k - n \in 1..Len(r) /\ i + k = b + (k - n) /\ n + (k - n) = k
        BY <1>1, <2>2
      <3> HIDE DEF n
      <3>2. y[k] = x[b + (k - n)] /\ z[n + (k - n)] = r[k - n]
        BY <1>4, <1>6, <3>1
      <3> QED
        BY <1>3, <3>1, <3>2
    <2> QED
      BY <1>1, <2>1, <2>2
  <1>8. y = z
    BY <1>4, <1>6, <1>7, SeqEqual
  <1> QED
    BY <1>8 DEF y, z, x, p, g

LEMMA OutAssociate ==
    ASSUME NEW p \in Seq(Out), NEW q \in Seq(Out), NEW r \in Seq(Out)
    PROVE  Associate(p, q, r)
  BY Associates DEF Associate

Regroup(a, b, c, d, e) == a \o b \o c \o d \o e = a \o (b \o (c \o (d \o e)))

LEMMA FiveParts ==
    ASSUME NEW a \in Seq(Out), NEW b \in Seq(Out), NEW c \in Seq(Out), NEW d \in Seq(Out), NEW e \in Seq(Out)
    PROVE  Regroup(a, b, c, d, e)
  <1> DEFINE de == d \o e
             cde == c \o de
             bcde == b \o cde
             ab == a \o b
             abc == ab \o c
  <1>1. de \in Seq(Out)
    BY OutConcat
  <1>2. ab \in Seq(Out)
    BY OutConcat
  <1> HIDE DEF de, ab
  <1>3. cde \in Seq(Out)
    BY <1>1, OutConcat
  <1>4. abc \in Seq(Out)
    BY <1>2, OutConcat
  <1> HIDE DEF cde, abc
  <1> HIDE DEF bcde
  <1>7. Associate(abc, d, e) /\ Associate(ab, c, de) /\ Associate(a, b, cde)
    BY <1>1, <1>2, <1>3, <1>4, OutAssociate
  <1>8. (abc \o d) \o e = abc \o de
    BY <1>7, Zenon DEF Associate, de
  <1>9. abc \o de = ab \o cde
    BY <1>7, Zenon DEF Associate, cde, abc
  <1>10. ab \o cde = a \o bcde
    BY <1>7, Zenon DEF Associate, bcde, ab
  <1>11. (abc \o d) \o e = a \o bcde
    BY <1>8, <1>9, <1>10, Zenon
  <1>12. a \o b \o c \o d \o e = a \o (b \o (c \o (d \o e)))
    BY <1>11, Zenon DEF abc, ab, bcde, cde, de
  <1> QED
    BY <1>12 DEF Regroup

\* No tag begins where another one ends.
Untouched(q) == \A i \in 1..(Len(q) - 1) : q[i] = "</b>" => q[i + 1] # "<b>"

LEMMA UntouchedText == ASSUME NEW q \in Seq(Chars) PROVE Untouched(q)
  <1>1. ASSUME NEW i \in 1..(Len(q) - 1) PROVE q[i] # "</b>"
    <2>1. i \in 1..Len(q)
      OBVIOUS
    <2>2. q[i] \in Chars
      BY <2>1, ElementOfSeq
    <2> QED
      BY <2>2, CharsAreNoTags
  <1> QED
    BY <1>1 DEF Untouched

LEMMA UntouchedJoin ==
    ASSUME NEW p \in Seq(Out), NEW q \in Seq(Out), Untouched(p), Untouched(q),
           ~(Len(p) > 0 /\ Len(q) > 0 /\ p[Len(p)] = "</b>" /\ q[1] = "<b>")
    PROVE  Untouched(p \o q)
  <1> DEFINE a == p \o q
             m == Len(p)
             n == Len(q)
  <1>1. /\ a \in Seq(Out) /\ Len(a) = m + n
        /\ \A i \in 1..m : a[i] = p[i]
        /\ \A i \in 1..n : a[m + i] = q[i]
    BY OutConcat
  <1>2. m \in Nat /\ n \in Nat
    OBVIOUS
  <1> HIDE DEF a, m, n
  <1>3. ASSUME NEW i \in 1..(m + n - 1), a[i] = "</b>" PROVE a[i + 1] # "<b>"
    <2>1. CASE i < m
      <3>1. i \in 1..(m - 1) /\ i \in 1..m /\ i + 1 \in 1..m
        BY <1>2, <2>1
      <3>2. a[i] = p[i] /\ a[i + 1] = p[i + 1]
        BY <1>1, <3>1
      <3> QED
        BY <1>3, <3>1, <3>2 DEF Untouched, m
    <2>2. CASE i = m
      <3>1. m > 0 /\ n > 0 /\ m \in 1..m /\ 1 \in 1..n
        BY <1>2, <2>2
      <3>2. a[i] = p[m] /\ a[i + 1] = q[1]
        BY <1>1, <2>2, <3>1
      <3> QED
        BY <1>3, <3>1, <3>2 DEF m, n
    <2>3. CASE i > m
      <3>1. /\ i - m \in 1..(n - 1) /\ i - m \in 1..n /\ (i - m) + 1 \in 1..n
            /\ m + (i - m) = i /\ m + ((i - m) + 1) = i + 1
        BY <1>2, <2>3
      <3>2. a[m + (i - m)] = q[i - m] /\ a[m + ((i - m) + 1)] = q[(i - m) + 1]
        BY <1>1, <3>1
      <3>3. q[i - m] = "</b>" => q[(i - m) + 1] # "<b>"
        BY <3>1 DEF Untouched, n
      <3> QED
        BY <1>3, <3>1, <3>2, <3>3
    <2> QED
      BY <1>2, <2>1, <2>2, <2>3
  <1>4. Len(a) - 1 = m + n - 1
    BY <1>1, <1>2
  <1>5. Untouched(a)
    BY <1>3, <1>4 DEF Untouched
  <1> QED
    BY <1>5 DEF a

\* r is what has been made of s from b on.
Done(s, D, b, r) ==
    r \in Seq(Out) /\ Untouched(r) /\ MarksFrom(At(s, D, b, 0), r) = At(s, D, Len(s), 0)

\* The parts of a text with its last h between tags.
DoneTo(s, D, h, x) ==
    \E r : Done(s, D, h.first, r) /\ Len(r) > 0 /\ x = SubSeq(s, 1, h.first) \o r

LEMMA TagMarks ==
    ASSUME NEW s \in Seq(Chars), NEW D \in Seq(Int), Len(D) = Len(s),
           NEW b \in 0..Len(s), NEW r, Done(s, D, b, r), NEW h \in Intervals,
           h.first < h.second, h.second <= b,
           \A k \in (h.first + 1)..h.second : D[k] = 1, \A k \in (h.second + 1)..b : D[k] = 0
    PROVE  MarksFrom(At(s, D, h.first, 0),
                     <<"<b>">> \o (SubSeq(s, h.first + 1, h.second)
                        \o (<<"</b>">> \o (SubSeq(s, h.second + 1, b) \o r)))) = At(s, D, Len(s), 0)
  <1> DEFINE i == h.first
             j == h.second
             o == <<"<b>">>
             c == <<"</b>">>
             t == SubSeq(s, i + 1, j)
             g == SubSeq(s, j + 1, b)
             r1 == g \o r
             r2 == c \o r1
             r3 == t \o r2
  <1>1. /\ i \in 0..Len(s) /\ j \in i..Len(s) /\ j \in 0..Len(s) /\ b \in j..Len(s) /\ b \in Nat
        /\ i \in Nat /\ j \in Nat /\ Len(s) \in Nat
    BY DEF Intervals
  <1>2. r \in Seq(Out) /\ MarksFrom(At(s, D, b, 0), r) = At(s, D, Len(s), 0)
    BY DEF Done
  <1>3. t \in Seq(Out) /\ g \in Seq(Out)
    <2>1. t \in Seq(Chars)
      <3>1. i + 1 \in Nat \ {0} /\ i + 1 <= j + 1 /\ j <= Len(s)
        BY <1>1
      <3> HIDE DEF i, j
      <3> QED
        BY <1>1, <3>1, PieceSeq
    <2>2. g \in Seq(Chars)
      <3>1. j + 1 \in Nat \ {0} /\ j + 1 <= b + 1 /\ b <= Len(s)
        BY <1>1
      <3> HIDE DEF i, j
      <3> QED
        BY <1>1, <3>1, PieceSeq
    <2> QED
      BY <2>1, <2>2, TextIsOut
  <1>4. o \in Seq(Out) /\ c \in Seq(Out)
    BY TextIsOut
  <1>5. /\ At(s, D, i, 0) \in MarkStates /\ At(s, D, i, 1) \in MarkStates
        /\ At(s, D, j, 1) \in MarkStates /\ At(s, D, j, 0) \in MarkStates
    BY <1>1, AtType
  <1>6. MarksFrom(At(s, D, i, 0), o) = At(s, D, i, 1) /\ MarksFrom(At(s, D, j, 1), c) = At(s, D, j, 0)
    BY <1>1, MarksTags
  <1>7. MarksFrom(At(s, D, i, 1), t) = At(s, D, j, 1)
    <2>1. \A k \in (i + 1)..j : D[k] = 1
      OBVIOUS
    <2> HIDE DEF i, j
    <2> QED
      BY <1>1, <2>1, MarksText
  <1>8. MarksFrom(At(s, D, j, 0), g) = At(s, D, b, 0)
    <2>1. \A k \in (j + 1)..b : D[k] = 0
      OBVIOUS
    <2> HIDE DEF i, j
    <2> QED
      BY <1>1, <2>1, MarksText
  <1> HIDE DEF i, j, o, c, t, g
  <1>9. r1 \in Seq(Out)
    BY <1>2, <1>3, OutConcat
  <1>10. MarksFrom(At(s, D, j, 0), r1) = At(s, D, Len(s), 0)
    BY <1>2, <1>3, <1>5, <1>8, MarksJoin
  <1> HIDE DEF r1
  <1>11. r2 \in Seq(Out)
    BY <1>4, <1>9, OutConcat
  <1>12. MarksFrom(At(s, D, j, 1), r2) = At(s, D, Len(s), 0)
    BY <1>4, <1>5, <1>6, <1>9, <1>10, MarksJoin
  <1> HIDE DEF r2
  <1>13. r3 \in Seq(Out)
    BY <1>3, <1>11, OutConcat
  <1>14. MarksFrom(At(s, D, i, 1), r3) = At(s, D, Len(s), 0)
    BY <1>3, <1>5, <1>7, <1>11, <1>12, MarksJoin
  <1> HIDE DEF r3
  <1>15. MarksFrom(At(s, D, i, 0), o \o r3) = At(s, D, Len(s), 0)
    BY <1>4, <1>5, <1>6, <1>13, <1>14, MarksJoin
  <1> QED
    BY <1>15, Zenon DEF r3, r2, r1, g, t, c, o, i, j

LEMMA TagTouches ==
    ASSUME NEW t \in Seq(Chars), NEW g \in Seq(Chars), NEW r \in Seq(Out), Untouched(r),
           Len(r) = 0 \/ Len(g) > 0
    PROVE  /\ <<"<b>">> \o (t \o (<<"</b>">> \o (g \o r))) \in Seq(Out)
           /\ Len(<<"<b>">> \o (t \o (<<"</b>">> \o (g \o r)))) > 0
           /\ Untouched(<<"<b>">> \o (t \o (<<"</b>">> \o (g \o r))))
  <1> DEFINE o == <<"<b>">>
             c == <<"</b>">>
             r1 == g \o r
             r2 == c \o r1
             r3 == t \o r2
             r4 == o \o r3
  <1>1. t \in Seq(Out) /\ g \in Seq(Out) /\ o \in Seq(Out) /\ c \in Seq(Out)
    BY TextIsOut
  <1>2. /\ Len(o) = 1 /\ o[1] = "<b>" /\ Len(c) = 1 /\ c[1] = "</b>"
        /\ Untouched(o) /\ Untouched(c) /\ Untouched(t) /\ Untouched(g)
    <2>1. Len(o) = 1 /\ o[1] = "<b>" /\ Len(c) = 1 /\ c[1] = "</b>"
      OBVIOUS
    <2>2. Untouched(t) /\ Untouched(g)
      BY UntouchedText
    <2> HIDE DEF o, c
    <2>3. Untouched(o) /\ Untouched(c)
      BY <2>1 DEF Untouched
    <2> QED
      BY <2>1, <2>2, <2>3
  <1>3. ASSUME NEW q \in Seq(Chars), Len(q) > 0 PROVE q[Len(q)] # "</b>" /\ q[1] # "<b>"
    <2>1. 1 \in 1..Len(q) /\ Len(q) \in 1..Len(q)
      BY <1>3
    <2>2. q[1] \in Chars /\ q[Len(q)] \in Chars
      BY <2>1, ElementOfSeq
    <2> QED
      BY <2>2, CharsAreNoTags
  <1>4. "<b>" # "</b>"
    OBVIOUS
  <1>5. Len(g) \in Nat /\ Len(t) \in Nat /\ Len(r) \in Nat
    OBVIOUS
  <1> HIDE DEF o, c
  <1>6. r1 \in Seq(Out) /\ Len(r1) = Len(g) + Len(r) /\ \A i \in 1..Len(g) : r1[i] = g[i]
    BY <1>1, OutConcat
  <1>7. Untouched(r1)
    <2>1. ~(Len(g) > 0 /\ Len(r) > 0 /\ g[Len(g)] = "</b>" /\ r[1] = "<b>")
      BY <1>3
    <2> QED
      BY <1>1, <1>2, <2>1, UntouchedJoin
  <1>8. Len(r1) > 0 => r1[1] # "<b>"
    <2>1. Len(r1) > 0 => 1 \in 1..Len(g) /\ Len(g) > 0
      BY <1>5, <1>6
    <2> QED
      BY <1>3, <1>6, <2>1
  <1> HIDE DEF r1
  <1>9. /\ r2 \in Seq(Out) /\ Len(r2) = 1 + Len(r1) /\ r2[1] = "</b>"
    <2>1. 1 \in 1..Len(c)
      BY <1>2
    <2>2. /\ c \o r1 \in Seq(Out) /\ Len(c \o r1) = Len(c) + Len(r1)
          /\ \A i \in 1..Len(c) : (c \o r1)[i] = c[i]
      BY <1>1, <1>6, OutConcat
    <2> QED
      BY <1>2, <2>1, <2>2
  <1>10. Untouched(r2)
    <2>1. ~(Len(c) > 0 /\ Len(r1) > 0 /\ c[Len(c)] = "</b>" /\ r1[1] = "<b>")
      BY <1>8
    <2> QED
      BY <1>1, <1>2, <1>6, <1>7, <2>1, UntouchedJoin
  <1> HIDE DEF r2
  <1>11. r3 \in Seq(Out) /\ Len(r3) = Len(t) + Len(r2)
    BY <1>1, <1>9, OutConcat
  <1>12. Untouched(r3)
    <2>1. ~(Len(t) > 0 /\ Len(r2) > 0 /\ t[Len(t)] = "</b>" /\ r2[1] = "<b>")
      BY <1>4, <1>9
    <2> QED
      BY <1>1, <1>2, <1>9, <1>10, <2>1, UntouchedJoin
  <1> HIDE DEF r3
  <1>13. r4 \in Seq(Out) /\ Len(r4) = Len(o) + Len(r3)
    BY <1>1, <1>11, OutConcat
  <1>14. Untouched(r4)
    <2>1. ~(Len(o) > 0 /\ Len(r3) > 0 /\ o[Len(o)] = "</b>" /\ r3[1] = "<b>")
      BY <1>2, <1>4
    <2> QED
      BY <1>1, <1>2, <1>11, <1>12, <2>1, UntouchedJoin
  <1>15. Len(r4) > 0
    <2>1. Len(r3) \in Nat
      BY <1>11
    <2> QED
      BY <1>2, <1>13, <2>1
  <1> HIDE DEF r4
  <1>16. r4 = <<"<b>">> \o (t \o (<<"</b>">> \o (g \o r)))
    BY Zenon DEF r4, r3, r2, r1, o, c
  <1> QED
    BY <1>13, <1>14, <1>15, <1>16

LEMMA TagStep ==
    ASSUME NEW s \in Seq(Chars), NEW D \in Seq(Int), Len(D) = Len(s),
           NEW b \in 0..Len(s), NEW r, Done(s, D, b, r), NEW h \in Intervals,
           h.first < h.second, h.second <= b, Len(r) = 0 \/ h.second < b,
           \A k \in (h.first + 1)..h.second : D[k] = 1, \A k \in (h.second + 1)..b : D[k] = 0
    PROVE  DoneTo(s, D, h, Tagged(SubSeq(s, 1, b) \o r, h))
  <1> DEFINE i == h.first
             j == h.second
             x == SubSeq(s, 1, b) \o r
             t == SubSeq(s, i + 1, j)
             g == SubSeq(s, j + 1, b)
             rest == <<"<b>">> \o (t \o (<<"</b>">> \o (g \o r)))
  <1>1. /\ i \in Nat /\ j \in Nat /\ Len(s) \in Nat /\ i < j /\ j <= b /\ b \in Nat /\ b <= Len(s)
    BY DEF Intervals
  <1>2. r \in Seq(Out) /\ Untouched(r)
    BY DEF Done
  <1>3. s \in Seq(Out)
    BY TextIsOut
  <1>4. MarksFrom(At(s, D, i, 0), rest) = At(s, D, Len(s), 0)
    BY TagMarks
  <1>5. Len(r) = 0 \/ j < b
    OBVIOUS
  <1> HIDE DEF i, j
  <1>6. SubSeq(x, 1, i) = SubSeq(s, 1, i)
    <2>1. 1 \in 1..(b + 1) /\ i \in (1 - 1)..b
      BY <1>1
    <2> QED
      BY <1>2, <1>3, <2>1, PieceOfText
  <1>7. SubSeq(x, i + 1, j) = t
    <2>1. i + 1 \in 1..(b + 1) /\ j \in ((i + 1) - 1)..b
      BY <1>1
    <2> QED
      BY <1>2, <1>3, <2>1, PieceOfText
  <1>8. SubSeq(x, j + 1, Len(x)) = g \o r
    <2>1. j \in 0..b
      BY <1>1
    <2> QED
      BY <1>2, <1>3, <2>1, RestOfText
  <1>9. t \in Seq(Chars) /\ g \in Seq(Chars) /\ Len(g) = b - j
    <2>1. i + 1 \in Nat \ {0} /\ i + 1 <= j + 1 /\ j <= Len(s)
      BY <1>1
    <2>2. j + 1 \in Nat \ {0} /\ j + 1 <= b + 1 /\ b - (j + 1) + 1 = b - j
      BY <1>1
    <2> QED
      BY <1>1, <2>1, <2>2, PieceSeq
  <1>10. SubSeq(s, 1, i) \in Seq(Out)
    <2>1. i <= Len(s)
      BY <1>1
    <2> QED
      BY <1>1, <1>3, <2>1, PrefixSeq
  <1>11. Tagged(x, h) = SubSeq(x, 1, i) \o <<"<b>">> \o SubSeq(x, i + 1, j)
                           \o <<"</b>">> \o SubSeq(x, j + 1, Len(x))
    BY Zenon DEF Tagged, i, j
  <1> DEFINE p == SubSeq(s, 1, i)
             e == g \o r
  <1>12. Tagged(x, h) = p \o <<"<b>">> \o t \o <<"</b>">> \o e
    BY <1>6, <1>7, <1>8, <1>11, Zenon
  <1>13. t \in Seq(Out) /\ g \in Seq(Out) /\ <<"<b>">> \in Seq(Out) /\ <<"</b>">> \in Seq(Out)
    BY <1>9, TextIsOut
  <1>14. p \o <<"<b>">> \o t \o <<"</b>">> \o e = p \o (<<"<b>">> \o (t \o (<<"</b>">> \o e)))
    <2>1. e \in Seq(Out)
      BY <1>2, <1>13, OutConcat
    <2>2. p \in Seq(Out)
      BY <1>10
    <2> HIDE DEF p, e, t, x
    <2>3. Regroup(p, <<"<b>">>, t, <<"</b>">>, e)
      BY <1>13, <2>1, <2>2, FiveParts
    <2> QED
      BY <2>3 DEF Regroup
  <1>15. Tagged(x, h) = p \o rest
    BY <1>12, <1>14, Zenon
  <1>16. rest \in Seq(Out) /\ Len(rest) > 0 /\ Untouched(rest)
    <2>1. Len(r) = 0 \/ Len(g) > 0
      <3>1. Len(g) = b - j
        BY <1>9
      <3> HIDE DEF g
      <3> QED
        BY <1>1, <1>5, <3>1
    <2> HIDE DEF t, g
    <2> QED
      BY <1>2, <1>9, <2>1, TagTouches
  <1> HIDE DEF rest, p, x
  <1>17. Done(s, D, i, rest)
    BY <1>4, <1>16 DEF Done
  <1>18. DoneTo(s, D, h, Tagged(x, h))
    BY <1>15, <1>16, <1>17 DEF DoneTo, p, i
  <1> QED
    BY <1>18 DEF x

\* The intervals highlight puts between tags.
MarkedParts(s, qset) == Merged(UNION {HitsOfTerm(toLower(s), t) : t \in qset})

HitsOf(s, qset) == UNION {HitsOfTerm(toLower(s), t) : t \in qset}

LEMMA HitPlaces ==
    ASSUME NEW s \in Seq(Chars), NEW t \in Seq(Chars) \ {<<>>}, NEW h \in HitsOfTerm(toLower(s), t)
    PROVE  /\ h \in Intervals /\ h.first \in Found(toLower(s), t) /\ h.second = h.first + Len(t)
           /\ h.first < h.second /\ h.second <= Len(s)
  <1> DEFINE low == toLower(s)
  <1>1. low \in Seq(Chars) /\ Len(low) = Len(s)
    BY LowerType
  <1> HIDE DEF low
  <1>2. HitsRight(low, t, HitsOfTerm(low, t))
    BY <1>1, HitsAreRight
  <1>3. h \in Intervals /\ h.first \in Found(low, t) /\ h.second = h.first + Len(t)
    BY <1>2 DEF HitsRight, low
  <1>4. h.first \in Nat /\ h.first + Len(t) <= Len(low)
    BY <1>1, <1>3, FoundPlaces
  <1>5. Len(t) \in Nat /\ Len(t) > 0
    BY EmptySeq
  <1> QED
    BY <1>1, <1>3, <1>4, <1>5 DEF low

LEMMA HitsFinite ==
    ASSUME NEW s \in Seq(Chars), NEW qset, qset \subseteq Seq(Chars) \ {<<>>}
    PROVE  /\ HitsOf(s, qset) \subseteq Intervals /\ IsFiniteSet(HitsOf(s, qset))
           /\ \A h \in HitsOf(s, qset) : h.first < h.second /\ h.second <= Len(s)
  <1> DEFINE N == Len(s)
             hits == HitsOf(s, qset)
             P == (0..N) \X (0..N)
             f == [a \in P |-> [first |-> a[1], second |-> a[2]]]
             all == {f[a] : a \in P}
  <1>1. N \in Nat
    OBVIOUS
  <1>2. ASSUME NEW h \in hits PROVE h \in Intervals /\ h.first < h.second /\ h.second <= N
    <2>1. PICK t \in qset : h \in HitsOfTerm(toLower(s), t)
      BY Zenon DEF HitsOf
    <2> QED
      BY <2>1, HitPlaces
  <1>3. IsFiniteSet(P)
    <2>1. IsFiniteSet(0..N)
      BY <1>1, FS_Interval
    <2> QED
      BY <2>1, FS_Product
  <1> HIDE DEF hits, N
  <1>4. ASSUME NEW h \in hits PROVE h \in all
    <2>1. h.first \in 0..N /\ h.second \in 0..N /\ h = [first |-> h.first, second |-> h.second]
      BY <1>1, <1>2 DEF Intervals
    <2> DEFINE a == <<h.first, h.second>>
    <2>2. a \in P /\ a[1] = h.first /\ a[2] = h.second
      BY <2>1
    <2> HIDE DEF a, P
    <2>3. f[a] = h
      BY <2>1, <2>2
    <2> QED
      BY <2>2, <2>3
  <1>5. IsFiniteSet(all)
    <2>1. DOMAIN f = P
      OBVIOUS
    <2> HIDE DEF f, P
    <2> QED
      BY <1>3, <2>1, FiniteImage
  <1>6. hits \in SUBSET all
    <2> HIDE DEF all
    <2> QED
      BY <1>4
  <1> HIDE DEF all
  <1>7. IsFiniteSet(hits)
    BY <1>5, <1>6, FS_Subset
  <1> QED
    BY <1>2, <1>7 DEF hits, N

\* They lie apart inside s, and hold exactly the places of the hits.
PartsFit(s, qset, m) ==
    /\ m \in Seq(Intervals) /\ Apart(m) /\ \A i \in 1..Len(m) : m[i].second <= Len(s)
    /\ \A p \in Nat : In(p, m) <=> \E h \in HitsOf(s, qset) : Holds(h, p)

LEMMA PartsRight ==
    ASSUME NEW s \in Seq(Chars), NEW qset, qset \subseteq Seq(Chars) \ {<<>>}
    PROVE  PartsFit(s, qset, MarkedParts(s, qset))
  <1> DEFINE hits == HitsOf(s, qset)
             sorted == Sorted(hits)
             m == Merged(hits)
  <1>1. hits \subseteq Intervals /\ IsFiniteSet(hits)
        /\ \A h \in hits : h.first < h.second /\ h.second <= Len(s)
    BY HitsFinite
  <1>2. MarkedParts(s, qset) = m
    BY Zenon DEF MarkedParts, HitsOf
  <1> HIDE DEF hits
  <1>3. InOrder(hits, sorted)
    BY <1>1, SortedInOrder
  <1> HIDE DEF sorted
  <1>4. sorted \in Seq(hits) /\ Len(sorted) \in Nat /\ \A i \in 1..Len(sorted) : sorted[i] \in hits
    BY <1>3, ElementOfSeq DEF InOrder
  <1>5. AllInOrder(sorted)
    <2>1. sorted \in Seq(Intervals)
      BY <1>1, <1>4
    <2>2. \A i \in 1..Len(sorted) : sorted[i].first < sorted[i].second
      BY <1>1, <1>4
    <2> QED
      BY <1>3, <2>1, <2>2 DEF AllInOrder, InOrder
  <1>6. m \in Seq(Intervals) /\ Apart(m) /\ \A p \in Nat : In(p, m) <=> In(p, sorted)
    BY <1>5, MergedRight DEF sorted
  <1> HIDE DEF m
  <1>7. \A p \in Nat : In(p, m) <=> \E h \in hits : Holds(h, p)
    <2> TAKE p \in Nat
    <2>1. In(p, sorted) => \E h \in hits : Holds(h, p)
      BY <1>4 DEF In
    <2>2. (\E h \in hits : Holds(h, p)) => In(p, sorted)
      BY <1>3 DEF In, InOrder
    <2> QED
      BY <1>6, <2>1, <2>2
  <1>8. ASSUME NEW i \in 1..Len(m) PROVE m[i].second <= Len(s)
    <2>1. m[i] \in Intervals /\ m[i].first < m[i].second
      BY <1>6, ElementOfSeq DEF Apart
    <2> DEFINE p == m[i].second - 1
    <2>2. p \in Nat /\ Holds(m[i], p) /\ m[i].second = p + 1
      BY <2>1 DEF Intervals, Holds
    <2> HIDE DEF p
    <2>3. PICK h \in hits : Holds(h, p)
      BY <1>7, <2>2 DEF In
    <2>4. h.second \in Nat /\ h.second <= Len(s) /\ p < h.second /\ Len(s) \in Nat
      BY <1>1, <2>3 DEF Holds, Intervals
    <2> QED
      BY <2>2, <2>4
  <1> QED
    BY <1>2, <1>6, <1>7, <1>8 DEF PartsFit, hits

\* Of two intervals the earlier one ends before the later one.
LEMMA ApartFar ==
    ASSUME NEW m \in Seq(Intervals), Apart(m), NEW i \in 1..Len(m), NEW j \in (i + 1)..Len(m)
    PROVE  m[i].second < m[j].first
  <1> DEFINE S == {k \in 0..(Len(m) - i - 1) : m[i].second < m[i + k + 1].first}
  <1>1. Len(m) \in Nat /\ i \in Nat /\ j \in Nat /\ Len(m) - i - 1 \in Nat
    OBVIOUS
  <1>2. 0 \in S
    <2>1. i \in 1..(Len(m) - 1) /\ i + 0 + 1 = i + 1 /\ 0 \in 0..(Len(m) - i - 1)
      BY <1>1
    <2> QED
      BY <2>1 DEF Apart
  <1>3. ASSUME NEW k \in 0..(Len(m) - i - 1 - 1), k \in S PROVE k + 1 \in S
    <2>1. /\ i + k + 1 \in 1..(Len(m) - 1) /\ i + k + 1 \in 1..Len(m) /\ i + k + 1 + 1 \in 1..Len(m)
          /\ i + (k + 1) + 1 = i + k + 1 + 1 /\ k + 1 \in 0..(Len(m) - i - 1)
      BY <1>1
    <2> DEFINE g == m[i + k + 1]
               h == m[i + k + 1 + 1]
    <2>2. g \in Intervals /\ h \in Intervals /\ m[i] \in Intervals
      BY <2>1, ElementOfSeq
    <2>3. m[i].second < g.first /\ g.first < g.second /\ g.second < h.first
      BY <1>3, <2>1 DEF Apart
    <2> DEFINE l == m[i]
    <2> HIDE DEF g, h, l
    <2>4. l \in Intervals /\ l.second < g.first
      BY <2>2, <2>3 DEF l
    <2>5. l.second \in Nat /\ g.first \in Nat /\ g.second \in Nat /\ h.first \in Nat
      BY <2>2, <2>4 DEF Intervals
    <2>6. l.second < h.first
      BY <2>3, <2>4, <2>5
    <2> QED
      BY <2>1, <2>6 DEF h, l
  <1>4. \A k \in 0..(Len(m) - i - 1) : k \in S
    <2> HIDE DEF S
    <2> QED
      BY <1>1, <1>2, <1>3, UpTo
  <1>5. j - i - 1 \in 0..(Len(m) - i - 1) /\ i + (j - i - 1) + 1 = j
    BY <1>1
  <1>6. j - i - 1 \in S
    BY <1>4, <1>5
  <1> QED
    BY <1>5, <1>6

LEMMA TaggedType ==
    ASSUME NEW s \in Seq(Out), NEW h \in Intervals, h.first <= h.second, h.second <= Len(s)
    PROVE  Tagged(s, h) \in Seq(Out) /\ Len(Tagged(s, h)) >= Len(s)
  <1> DEFINE a == SubSeq(s, 1, h.first)
             b == <<"<b>">>
             c == SubSeq(s, h.first + 1, h.second)
             d == <<"</b>">>
             e == SubSeq(s, h.second + 1, Len(s))
  <1>1. h.first \in Nat /\ h.second \in Nat /\ Len(s) \in Nat /\ h.first <= Len(s)
    BY DEF Intervals
  <1>2. a \in Seq(Out) /\ Len(a) = h.first
    BY <1>1, PrefixSeq
  <1>3. c \in Seq(Out) /\ Len(c) = h.second - h.first
    <2>1. h.first + 1 \in Nat \ {0} /\ h.first + 1 <= h.second + 1
          /\ h.second - (h.first + 1) + 1 = h.second - h.first
      BY <1>1
    <2> QED
      BY <1>1, <2>1, PieceSeq
  <1>4. e \in Seq(Out) /\ Len(e) = Len(s) - h.second
    <2>1. h.second + 1 \in Nat \ {0} /\ h.second + 1 <= Len(s) + 1
          /\ Len(s) - (h.second + 1) + 1 = Len(s) - h.second
      BY <1>1
    <2> QED
      BY <1>1, <2>1, PieceSeq
  <1>5. b \in Seq(Out) /\ Len(b) = 1 /\ d \in Seq(Out) /\ Len(d) = 1
    BY TextIsOut
  <1> DEFINE ab == a \o b
             abc == ab \o c
             abcd == abc \o d
  <1>6. Tagged(s, h) = abcd \o e
    BY Zenon DEF Tagged
  <1> HIDE DEF a, b, c, d, e
  <1>7. ab \in Seq(Out) /\ Len(ab) = Len(a) + Len(b)
    BY <1>2, <1>5, OutConcat
  <1> HIDE DEF ab
  <1>8. abc \in Seq(Out) /\ Len(abc) = Len(ab) + Len(c)
    BY <1>3, <1>7, OutConcat
  <1> HIDE DEF abc
  <1>9. abcd \in Seq(Out) /\ Len(abcd) = Len(abc) + Len(d)
    BY <1>5, <1>8, OutConcat
  <1> HIDE DEF abcd
  <1>10. abcd \o e \in Seq(Out) /\ Len(abcd \o e) = Len(abcd) + Len(e)
    BY <1>4, <1>9, OutConcat
  <1>11. Len(abcd \o e) = h.first + 1 + (h.second - h.first) + 1 + (Len(s) - h.second)
    BY <1>2, <1>3, <1>4, <1>5, <1>7, <1>8, <1>9, <1>10
  <1> DEFINE i == h.first
             j == h.second
             k == Len(s)
  <1> HIDE DEF i, j, k
  <1>12. i + 1 + (j - i) + 1 + (k - j) >= k
    BY <1>1 DEF i, j, k
  <1> QED
    BY <1>6, <1>10, <1>11, <1>12 DEF i, j, k

\* The parts are put between tags from the last to the first.
TaggedUp(s, qset, f) ==
    LET m == MarkedParts(s, qset)
    IN  /\ f[0] = s /\ highlight(s, qset) = f[Len(m)]
        /\ \A i \in 1..Len(m) : f[i] = Tagged(f[i - 1], m[Len(m) + 1 - i])

\* highlight puts one part after the other between tags.
LEMMA TaggedDef ==
    ASSUME NEW s \in Seq(Chars), NEW qset, qset \subseteq Seq(Chars) \ {<<>>}
    PROVE  \E f : TaggedUp(s, qset, f)
  <1> DEFINE N == Len(MarkedParts(s, qset))
             V == {x \in Seq(Out) : Len(x) >= Len(s)}
             A == s
             G == [i \in 1..N |-> [x \in V |-> Tagged(x, MarkedParts(s, qset)[Len(MarkedParts(s, qset)) + 1 - i])]]
             Body(f) == [n \in 0..N |-> IF n = 0 THEN A ELSE Tagged(f[n - 1], MarkedParts(s, qset)[Len(MarkedParts(s, qset)) + 1 - n])]
             after == CHOOSE f : f = Body(f)
  <1>1. N \in Nat
    BY PartsRight DEF PartsFit
  <1>2. A \in V
    BY TextIsOut
  <1>3. ASSUME NEW i \in 1..N, NEW x \in V PROVE Tagged(x, MarkedParts(s, qset)[Len(MarkedParts(s, qset)) + 1 - i]) \in V
    <2> DEFINE m == MarkedParts(s, qset)
               k == Len(m) + 1 - i
    <2>1. m \in Seq(Intervals) /\ Apart(m) /\ \A j \in 1..Len(m) : m[j].second <= Len(s)
      BY PartsRight DEF PartsFit
    <2> HIDE DEF m
    <2>2. k \in 1..Len(m)
      BY <2>1 DEF m
    <2> HIDE DEF k
    <2>3. m[k] \in Intervals /\ m[k].first < m[k].second /\ m[k].second <= Len(s)
      BY <2>1, <2>2, ElementOfSeq DEF Apart
    <2>4. x \in Seq(Out) /\ Len(x) >= Len(s) /\ Len(x) \in Nat /\ Len(s) \in Nat
      OBVIOUS
    <2>5. m[k].first <= m[k].second /\ m[k].second <= Len(x)
      BY <2>3, <2>4 DEF Intervals
    <2>6. Tagged(x, m[k]) \in Seq(Out) /\ Len(Tagged(x, m[k])) >= Len(x)
      BY <2>3, <2>4, <2>5, TaggedType
    <2>7. Len(Tagged(x, m[k])) \in Nat
      BY <2>6
    <2>8. Tagged(x, m[k]) \in V
      BY <2>4, <2>6, <2>7
    <2> QED
      BY <2>8 DEF m, k
  <1>4. highlight(s, qset) = after[Len(MarkedParts(s, qset))]
    BY DEF highlight, MarkedParts
  <1> HIDE DEF N, V, A
  <1>5. \A i \in 1..N, x \in V : G[i][x] = Tagged(x, MarkedParts(s, qset)[Len(MarkedParts(s, qset)) + 1 - i])
    OBVIOUS
  <1>6. G \in [1..N -> [V -> V]]
    BY <1>3, <1>5
  <1> HIDE DEF G
  <1>7. PICK f \in [0..N -> V] : Recursion(f, A, G, N)
    BY <1>1, <1>2, <1>6, RecursionExists, Zenon
  <1>8. \A i \in 1..N : i \in 0..N /\ i - 1 \in 0..N /\ i # 0
    BY <1>1
  <1>9. \A i \in 1..N : f[i] = Tagged(f[i - 1], MarkedParts(s, qset)[Len(MarkedParts(s, qset)) + 1 - i])
    BY <1>5, <1>7, <1>8 DEF Recursion
  <1>10. f = Body(f)
    <2>1. ASSUME NEW i \in 0..N PROVE f[i] = Body(f)[i]
      <3>1. CASE i = 0
        BY <1>7, <3>1 DEF Recursion
      <3>2. CASE i # 0
        <4>1. i \in 1..N
          BY <1>1, <3>2
        <4> QED
          BY <1>9, <3>2, <4>1
      <3> QED
        BY <3>1, <3>2
    <2> QED
      BY <1>7, <2>1
  <1>11. after = Body(after)
    BY <1>10
  <1> HIDE DEF after
  <1>12. after[0] = A /\ \A i \in 1..N : after[i] = Tagged(after[i - 1], MarkedParts(s, qset)[Len(MarkedParts(s, qset)) + 1 - i])
    <2>1. \A i \in 0..N : after[i] = Body(after)[i]
      BY <1>11
    <2>2. 0 \in 0..N
      BY <1>1
    <2> QED
      BY <1>8, <2>1, <2>2
  <1>15. TaggedUp(s, qset, after)
    BY <1>4, <1>12 DEF TaggedUp, N, A
  <1> QED
    BY <1>15

\* Outside the intervals, and inside one.
LEMMA Outside ==
    ASSUME NEW m \in Seq(Intervals), Apart(m), NEW i \in 1..(Len(m) + 1), NEW p \in Nat,
           i <= Len(m) => p < m[i].first, i > 1 => m[i - 1].second <= p
    PROVE  ~In(p, m)
  <1> SUFFICES ASSUME NEW j \in 1..Len(m), Holds(m[j], p) PROVE FALSE
    BY DEF In
  <1> DEFINE g == m[j]
  <1>1. Len(m) \in Nat /\ i \in Nat /\ j \in Nat
    OBVIOUS
  <1>2. g \in Intervals /\ g.first <= p /\ p < g.second
    BY ElementOfSeq DEF Holds
  <1> HIDE DEF g
  <1>3. g.first \in Nat /\ g.second \in Nat
    BY <1>2 DEF Intervals
  <1>4. CASE j >= i
    <2> DEFINE h == m[i]
    <2>1. i \in 1..Len(m)
      BY <1>1, <1>4
    <2>2. h \in Intervals /\ h.first < h.second /\ p < h.first
      BY <1>1, <2>1, ElementOfSeq DEF Apart
    <2>3. j # i => h.second < g.first
      <3> SUFFICES ASSUME j # i PROVE m[i].second < m[j].first
        BY DEF g, h
      <3>1. j \in (i + 1)..Len(m)
        BY <1>1, <1>4
      <3> QED
        BY <2>1, <3>1, ApartFar
    <2>4. j = i => g = h
      BY DEF g
    <2> HIDE DEF h
    <2>5. h.first \in Nat /\ h.second \in Nat
      BY <2>2 DEF Intervals
    <2>6. CASE j = i
      BY <1>2, <1>3, <2>2, <2>4, <2>6
    <2>7. CASE j # i
      BY <1>2, <1>3, <2>2, <2>3, <2>5, <2>7
    <2> QED
      BY <2>6, <2>7
  <1>5. CASE j < i
    <2> DEFINE k == i - 1
               h == m[k]
    <2>1. k \in 1..Len(m) /\ i > 1 /\ j <= k
      BY <1>1, <1>5
    <2>2. h.second <= p
      BY <2>1
    <2> HIDE DEF k
    <2>3. h \in Intervals /\ h.first < h.second
      BY <2>1, ElementOfSeq DEF Apart
    <2>4. j # k => g.second < h.first
      <3> SUFFICES ASSUME j # k PROVE m[j].second < m[k].first
        BY DEF g, h
      <3>1. k \in (j + 1)..Len(m)
        BY <1>1, <2>1
      <3> QED
        BY <3>1, ApartFar
    <2>5. j = k => g = h
      BY DEF g
    <2> HIDE DEF h
    <2>6. h.first \in Nat /\ h.second \in Nat
      BY <2>3 DEF Intervals
    <2>7. CASE j = k
      BY <1>2, <1>3, <2>2, <2>5, <2>7
    <2>8. CASE j # k
      BY <1>2, <1>3, <2>2, <2>3, <2>4, <2>6, <2>8
    <2> QED
      BY <2>7, <2>8
  <1> QED
    BY <1>1, <1>4, <1>5

LEMMA MarksDef == \A q : Marks(q) = MarksFrom([text |-> <<>>, depths |-> <<>>, depth |-> 0], q)
  BY DEF Marks, MarksFrom

LEMMA WholeSeq ==
    ASSUME NEW R, NEW s \in Seq(R)
    PROVE  SubSeq(s, 1, Len(s)) = s /\ SubSeq(s, 1, 0) = <<>>
  <1> DEFINE z == SubSeq(s, 1, Len(s))
             e == SubSeq(s, 1, 0)
  <1>1. Len(s) \in Nat /\ 0 <= Len(s)
    OBVIOUS
  <1>2. z \in Seq(R) /\ Len(z) = Len(s) /\ \A i \in 1..Len(s) : z[i] = s[i]
    BY <1>1, PrefixSeq
  <1>3. e \in Seq(R) /\ Len(e) = 0
    BY <1>1, PrefixSeq
  <1> HIDE DEF z, e
  <1>4. z = s
    BY <1>2, SeqEqual
  <1>5. e = <<>>
    BY <1>3, EmptySeq
  <1> QED
    BY <1>4, <1>5 DEF z, e

\* What is still text has no tag before it.
LEMMA Finish ==
    ASSUME NEW s \in Seq(Chars), NEW D \in Seq(Int), Len(D) = Len(s),
           NEW b \in 0..Len(s), NEW r, Done(s, D, b, r), \A k \in 1..b : D[k] = 0
    PROVE  Becomes(Marks(SubSeq(s, 1, b) \o r), s, D, 0) /\ Untouched(SubSeq(s, 1, b) \o r)
  <1> DEFINE p == SubSeq(s, 1, b)
             zero == [text |-> <<>>, depths |-> <<>>, depth |-> 0]
             end == At(s, D, Len(s), 0)
  <1>1. b \in Nat /\ b <= Len(s) /\ Len(s) \in Nat
    OBVIOUS
  <1>2. p \in Seq(Chars) /\ p \in Seq(Out)
    BY <1>1, PrefixSeq, TextIsOut
  <1>3. r \in Seq(Out) /\ Untouched(r) /\ MarksFrom(At(s, D, b, 0), r) = end
    BY DEF Done
  <1>4. At(s, D, 0, 0) = zero /\ Becomes(end, s, D, 0)
    BY WholeSeq DEF At, Becomes
  <1>5. At(s, D, 0, 0) \in MarkStates
    BY <1>1, AtType
  <1>6. MarksFrom(At(s, D, 0, 0), p) = At(s, D, b, 0)
    <2>1. 0 \in 0..Len(s) /\ b \in 0..Len(s) /\ 0 + 1 = 1 /\ \A k \in (0 + 1)..b : D[k] = 0
      BY <1>1
    <2>2. MarksFrom(At(s, D, 0, 0), SubSeq(s, 0 + 1, b)) = At(s, D, b, 0)
      BY <2>1, MarksText
    <2> QED
      BY <2>1, <2>2
  <1>7. ~(Len(p) > 0 /\ Len(r) > 0 /\ p[Len(p)] = "</b>" /\ r[1] = "<b>")
    <2> SUFFICES ASSUME Len(p) > 0 PROVE p[Len(p)] # "</b>"
      OBVIOUS
    <2> HIDE DEF p
    <2>1. Len(p) \in 1..Len(p)
      BY <1>2
    <2>2. p[Len(p)] \in Chars
      BY <1>2, <2>1, ElementOfSeq
    <2> QED
      BY <2>2, CharsAreNoTags
  <1>8. Untouched(p)
    BY <1>2, UntouchedText
  <1> HIDE DEF p, end
  <1>9. MarksFrom(At(s, D, 0, 0), p \o r) = end
    BY <1>2, <1>3, <1>5, <1>6, MarksJoin
  <1>10. Marks(p \o r) = end
    BY <1>4, <1>9, MarksDef
  <1>11. Untouched(p \o r)
    BY <1>2, <1>3, <1>7, <1>8, UntouchedJoin
  <1> QED
    BY <1>4, <1>10, <1>11 DEF p

\* The parts from the last down to the one after i are between tags in x.
Left(s, D, m, i, x) ==
    \E b \in 0..Len(s), r \in Seq(Out) :
        /\ Done(s, D, b, r) /\ x = SubSeq(s, 1, b) \o r
        /\ i > 0 => m[i].second <= b /\ (Len(r) = 0 \/ m[i].second < b)
        /\ \A k \in 1..b : D[k] = 0 \/ (i > 0 /\ k <= m[i].second)

\* D marks the characters that the intervals m hold.
MarksParts(s, D, m) ==
    /\ D \in Seq(Int) /\ Len(D) = Len(s)
    /\ \A k \in 1..Len(s) : D[k] = IF In(k - 1, m) THEN 1 ELSE 0

Fits(s, m) == m \in Seq(Intervals) /\ Apart(m) /\ \A i \in 1..Len(m) : m[i].second <= Len(s)

LEMMA LeftAtFirst ==
    ASSUME NEW s \in Seq(Chars), NEW m, Fits(s, m), NEW D, MarksParts(s, D, m)
    PROVE  Left(s, D, m, Len(m), s)
  <1> DEFINE n == Len(s)
             r == <<>>
             M == Len(m)
  <1>1. n \in Nat /\ n \in 0..n /\ m \in Seq(Intervals) /\ M \in Nat
    BY DEF Fits
  <1>2. D \in Seq(Int) /\ Len(D) = n
    BY DEF MarksParts
  <1>3. Done(s, D, n, r)
    <2>1. Untouched(r)
      BY DEF Untouched
    <2>2. r \in Seq(Out) /\ Len(r) = 0
      OBVIOUS
    <2> DEFINE st == At(s, D, n, 0)
    <2>3. st \in MarkStates
      <3> HIDE DEF n, r, M
      <3> QED
        BY <1>1, <1>2, AtType DEF n
    <2> HIDE DEF st, r
    <2>4. PICK f : Reading(st, r, f)
      BY <2>2, <2>3, ReadingDef
    <2>5. MarksFrom(st, r) = st
      BY <2>2, <2>4 DEF Reading
    <2> QED
      BY <2>1, <2>2, <2>5 DEF Done, st
  <1>4. s = SubSeq(s, 1, n) \o r
    <2>1. SubSeq(s, 1, n) = s
      BY WholeSeq
    <2>2. s \o <<>> = s
      OBVIOUS
    <2> QED
      BY <2>1, <2>2
  <1>5. M > 0 => m[M].second <= n
    BY <1>1 DEF Fits
  <1>6. ASSUME NEW k \in 1..n PROVE D[k] = 0 \/ (M > 0 /\ k <= m[M].second)
    <2> SUFFICES ASSUME ~(M > 0 /\ k <= m[M].second) PROVE ~In(k - 1, m)
      BY DEF MarksParts
    <2> DEFINE i == M + 1
    <2>1. k - 1 \in Nat /\ i \in 1..(M + 1) /\ i - 1 = M /\ ~(i <= M) /\ (i > 1 => M > 0)
      BY <1>1
    <2>2. M > 0 => m[M].second <= k - 1
      <3> SUFFICES ASSUME M > 0 PROVE m[M].second <= k - 1
        OBVIOUS
      <3> DEFINE l == m[M]
      <3>1. M \in 1..M
        BY <1>1
      <3>2. l \in Intervals
        BY <1>1, <3>1, ElementOfSeq
      <3>3. ~(k <= l.second)
        OBVIOUS
      <3> HIDE DEF l
      <3>4. l.second \in Nat /\ k \in Nat
        BY <1>1, <3>2 DEF Intervals
      <3>5. l.second <= k - 1
        BY <3>3, <3>4
      <3> QED
        BY <3>5 DEF l
    <2>3. i <= Len(m) => k - 1 < m[i].first
      BY <2>1
    <2>4. i > 1 => m[i - 1].second <= k - 1
      BY <2>1, <2>2
    <2>5. Apart(m)
      BY DEF Fits
    <2> HIDE DEF i
    <2> QED
      BY <1>1, <2>1, <2>3, <2>4, <2>5, Outside
  <1>7. Len(r) = 0 /\ r \in Seq(Out)
    OBVIOUS
  <1> HIDE DEF r, n, M
  <1>8. Left(s, D, m, M, s)
    BY <1>1, <1>3, <1>4, <1>5, <1>6, <1>7 DEF Left, n
  <1> QED
    BY <1>8 DEF M

LEMMA LeftStep ==
    ASSUME NEW s \in Seq(Chars), NEW m, Fits(s, m), NEW D, MarksParts(s, D, m),
           NEW i \in 1..Len(m), NEW x, Left(s, D, m, i, x)
    PROVE  Left(s, D, m, i - 1, Tagged(x, m[i]))
  <1> DEFINE h == m[i]
             a == h.first
  <1>1. /\ m \in Seq(Intervals) /\ Apart(m) /\ Len(m) \in Nat /\ i \in Nat /\ i > 0
        /\ D \in Seq(Int) /\ Len(D) = Len(s) /\ Len(s) \in Nat
    BY DEF Fits, MarksParts
  <1>2. h \in Intervals /\ h.first < h.second /\ h.second <= Len(s)
    BY <1>1, ElementOfSeq DEF Apart, Fits
  <1>3. h.first \in Nat /\ h.second \in Nat
    <2> HIDE DEF h
    <2> QED
      BY <1>2 DEF Intervals
  <1>4. PICK b \in 0..Len(s), r \in Seq(Out) :
            /\ Done(s, D, b, r) /\ x = SubSeq(s, 1, b) \o r
            /\ h.second <= b /\ (Len(r) = 0 \/ h.second < b)
            /\ \A k \in 1..b : D[k] = 0 \/ k <= h.second
    BY <1>1 DEF Left
  <1>5. ASSUME NEW k \in (h.first + 1)..h.second PROVE D[k] = 1
    <2>1. k - 1 \in Nat /\ k \in 1..Len(s) /\ h.first <= k - 1 /\ k - 1 < h.second
      <3> DEFINE c == h.first
                 d == h.second
      <3>1. c \in Nat /\ d \in Nat /\ d <= Len(s) /\ Len(s) \in Nat /\ k \in (c + 1)..d
        BY <1>1, <1>2, <1>3
      <3> HIDE DEF c, d
      <3>2. k - 1 \in Nat /\ k \in 1..Len(s) /\ c <= k - 1 /\ k - 1 < d
        BY <3>1
      <3> QED
        BY <3>2 DEF c, d
    <2>2. In(k - 1, m)
      BY <2>1 DEF In, Holds
    <2> QED
      BY <2>1, <2>2 DEF MarksParts
  <1>6. ASSUME NEW k \in (h.second + 1)..b PROVE D[k] = 0
    <2> HIDE DEF h
    <2>1. k \in 1..b /\ ~(k <= h.second)
      BY <1>3
    <2> QED
      BY <1>4, <2>1
  <1>7. DoneTo(s, D, h, Tagged(x, h))
    <2> HIDE DEF h
    <2> QED
      BY <1>1, <1>2, <1>4, <1>5, <1>6, TagStep
  <1>8. PICK q : Done(s, D, a, q) /\ Len(q) > 0 /\ Tagged(x, h) = SubSeq(s, 1, a) \o q
    BY <1>7 DEF DoneTo
  <1>9. a \in 0..Len(s)
    <2> HIDE DEF h
    <2> QED
      BY <1>1, <1>2, <1>3
  <1>10. i - 1 > 0 => m[i - 1].second < a
    <2> SUFFICES ASSUME i - 1 > 0 PROVE m[i - 1].second < m[i].first
      OBVIOUS
    <2>1. i - 1 \in 1..(Len(m) - 1) /\ (i - 1) + 1 = i
      BY <1>1
    <2> QED
      BY <1>1, <2>1 DEF Apart
  <1>11. ASSUME NEW k \in 1..a, ~(i - 1 > 0 /\ k <= m[i - 1].second) PROVE D[k] = 0
    <2>1. k - 1 \in Nat /\ k \in 1..Len(s) /\ k - 1 < a /\ i \in 1..(Len(m) + 1)
      <3> HIDE DEF a
      <3> QED
        BY <1>1, <1>9
    <2>2. i > 1 => m[i - 1].second <= k - 1
      <3> SUFFICES ASSUME i > 1 PROVE m[i - 1].second <= k - 1
        OBVIOUS
      <3> DEFINE l == m[i - 1]
      <3>1. i - 1 \in 1..Len(m) /\ i - 1 > 0
        BY <1>1
      <3>2. l \in Intervals /\ ~(k <= l.second)
        BY <1>1, <1>11, <3>1, ElementOfSeq
      <3> HIDE DEF l
      <3>3. l.second \in Nat /\ k \in Nat
        BY <2>1, <3>2 DEF Intervals
      <3>4. l.second <= k - 1
        BY <3>2, <3>3
      <3> QED
        BY <3>4 DEF l
    <2>3. i <= Len(m) => k - 1 < m[i].first
      BY <2>1
    <2> HIDE DEF a
    <2>4. ~In(k - 1, m)
      BY <1>1, <2>1, <2>2, <2>3, Outside
    <2> QED
      BY <2>1, <2>4 DEF MarksParts
  <1>12. i - 1 > 0 => m[i - 1].second <= a
    <2> SUFFICES ASSUME i - 1 > 0 PROVE m[i - 1].second <= a
      OBVIOUS
    <2> DEFINE l == m[i - 1]
    <2>1. i - 1 \in 1..Len(m)
      BY <1>1
    <2>2. l \in Intervals /\ l.second < a
      BY <1>1, <1>10, <2>1, ElementOfSeq
    <2> HIDE DEF l, a
    <2>3. l.second <= a
      BY <1>9, <2>2 DEF Intervals
    <2> QED
      BY <2>3 DEF l
  <1> HIDE DEF a, h
  <1>13. Left(s, D, m, i - 1, Tagged(x, h))
    <2>1. q \in Seq(Out)
      BY <1>8 DEF Done
    <2> QED
      BY <1>8, <1>9, <1>10, <1>11, <1>12, <2>1 DEF Left
  <1> QED
    BY <1>13 DEF h

\* D marks the tagged text.
TextMarked(s, D, x) == Becomes(Marks(x), s, D, 0) /\ Untouched(x)

LEMMA AllTagged ==
    ASSUME NEW s \in Seq(Chars), NEW qset, qset \subseteq Seq(Chars) \ {<<>>},
           NEW D, MarksParts(s, D, MarkedParts(s, qset))
    PROVE  TextMarked(s, D, highlight(s, qset))
  <1> DEFINE m == MarkedParts(s, qset)
             M == Len(m)
  <1>1. Fits(s, m)
    BY PartsRight DEF PartsFit, Fits
  <1>2. PICK f : TaggedUp(s, qset, f)
    BY TaggedDef
  <1>3. /\ f[0] = s /\ highlight(s, qset) = f[M]
        /\ \A i \in 1..M : f[i] = Tagged(f[i - 1], m[M + 1 - i])
    BY <1>2, Zenon DEF TaggedUp
  <1>4. MarksParts(s, D, m)
    OBVIOUS
  <1> HIDE DEF m
  <1>5. M \in Nat
    BY <1>1 DEF Fits
  <1> DEFINE S == {n \in 0..M : Left(s, D, m, M - n, f[n])}
  <1>6. 0 \in S
    <2>1. Left(s, D, m, M, s) /\ M - 0 = M /\ 0 \in 0..M
      BY <1>1, <1>4, <1>5, LeftAtFirst
    <2> QED
      BY <1>3, <2>1
  <1>7. ASSUME NEW n \in 0..(M - 1), n \in S PROVE n + 1 \in S
    <2> DEFINE i == M - n
    <2>1. /\ i \in 1..M /\ n + 1 \in 1..M /\ n + 1 \in 0..M /\ (n + 1) - 1 = n
          /\ M + 1 - (n + 1) = i /\ M - (n + 1) = i - 1
      BY <1>5
    <2>2. Left(s, D, m, i, f[n])
      BY <1>7
    <2>3. f[n + 1] = Tagged(f[n], m[i])
      BY <1>3, <2>1
    <2> HIDE DEF i
    <2>4. Left(s, D, m, i - 1, Tagged(f[n], m[i]))
      BY <1>1, <1>4, <2>1, <2>2, LeftStep
    <2>5. Left(s, D, m, M - (n + 1), f[n + 1])
      BY <2>1, <2>3, <2>4
    <2> QED
      BY <2>1, <2>5
  <1>8. \A n \in 0..M : n \in S
    <2> HIDE DEF S, M
    <2> QED
      BY <1>5, <1>6, <1>7, UpTo
  <1>9. Left(s, D, m, 0, f[M])
    <2>1. M \in S /\ M - M = 0
      BY <1>5, <1>8
    <2> QED
      BY <2>1
  <1>10. PICK b \in 0..Len(s), r \in Seq(Out) :
            /\ Done(s, D, b, r) /\ f[M] = SubSeq(s, 1, b) \o r /\ \A k \in 1..b : D[k] = 0
    <2>1. PICK b \in 0..Len(s), r \in Seq(Out) :
            /\ Done(s, D, b, r) /\ f[M] = SubSeq(s, 1, b) \o r
            /\ \A k \in 1..b : D[k] = 0 \/ (0 > 0 /\ k <= m[0].second)
      BY <1>9, Zenon DEF Left
    <2>2. ~(0 > 0)
      OBVIOUS
    <2>3. \A k \in 1..b : D[k] = 0
      BY <2>1, <2>2, Zenon
    <2> QED
      BY <2>1, <2>3, Zenon
  <1>11. D \in Seq(Int) /\ Len(D) = Len(s)
    BY <1>4 DEF MarksParts
  <1>12. /\ Becomes(Marks(SubSeq(s, 1, b) \o r), s, D, 0)
         /\ Untouched(SubSeq(s, 1, b) \o r)
    BY <1>10, <1>11, Finish
  <1> QED
    BY <1>3, <1>10, <1>12 DEF TextMarked

\* A place is marked exactly when a hit holds it.
LEMMA MarkedPlaces ==
    ASSUME NEW s \in Seq(Chars), NEW qset, qset \subseteq Seq(Chars) \ {<<>>}
    PROVE  \E D : /\ TextMarked(s, D, highlight(s, qset)) /\ DOMAIN D = 1..Len(s)
                  /\ \A k \in 1..Len(s) : D[k] \in {0, 1}
                  /\ \A p \in 0..(Len(s) - 1) :
                        D[p + 1] = 1 <=> \E h \in HitsOf(s, qset) : Holds(h, p)
  <1> DEFINE m == MarkedParts(s, qset)
             n == Len(s)
             D == [k \in 1..n |-> IF In(k - 1, m) THEN 1 ELSE 0]
  <1>1. \A p \in Nat : In(p, m) <=> \E h \in HitsOf(s, qset) : Holds(h, p)
    BY PartsRight DEF PartsFit
  <1>2. n \in Nat
    OBVIOUS
  <1> HIDE DEF m, n
  <1>3. DOMAIN D = 1..n /\ \A k \in 1..n : D[k] = IF In(k - 1, m) THEN 1 ELSE 0
    OBVIOUS
  <1>4. D \in Seq(Int) /\ Len(D) = n
    <2>1. D \in [1..n -> Int]
      OBVIOUS
    <2> HIDE DEF D
    <2> QED
      BY <1>2, <2>1, SeqDef, LenProperties
  <1> HIDE DEF D
  <1>5. MarksParts(s, D, m)
    BY <1>3, <1>4 DEF MarksParts, n
  <1>6. TextMarked(s, D, highlight(s, qset))
    BY <1>5, AllTagged DEF m
  <1>7. \A k \in 1..n : D[k] \in {0, 1} /\ (D[k] = 1 <=> In(k - 1, m))
    BY <1>3
  <1>8. ASSUME NEW p \in 0..(n - 1) PROVE D[p + 1] = 1 <=> \E h \in HitsOf(s, qset) : Holds(h, p)
    <2>1. p + 1 \in 1..n /\ (p + 1) - 1 = p /\ p \in Nat
      BY <1>2
    <2>2. D[p + 1] = 1 <=> In(p, m)
      BY <1>7, <2>1
    <2> QED
      BY <1>1, <2>1, <2>2
  <1> QED
    BY <1>3, <1>6, <1>7, <1>8 DEF n

LEMMA HighlightIsRight ==
    ASSUME NEW s \in Seq(Chars), NEW qset, qset \subseteq Seq(Chars) \ {<<>>}
    PROVE  HighlightRight(s, qset) /\ Marks(highlight(s, qset)).text = s
  <1> DEFINE low == toLower(s)
             n == Len(s)
             out == highlight(s, qset)
             m == Marks(out)
             marked == {p \in 0..(n - 1) : m.depths[p + 1] = 1}
             Covered(t) == UNION {p..(p + Len(t) - 1) : p \in Found(low, t)}
  <1>1. low \in Seq(Chars) /\ Len(low) = n /\ n \in Nat
    BY LowerType
  <1>2. PICK D : /\ TextMarked(s, D, out) /\ DOMAIN D = 1..n
                 /\ \A k \in 1..n : D[k] \in {0, 1}
                 /\ \A p \in 0..(n - 1) : D[p + 1] = 1 <=> \E h \in HitsOf(s, qset) : Holds(h, p)
    BY MarkedPlaces
  <1>3. m.text = s /\ m.depths = D /\ m.depth = 0 /\ Untouched(out)
    BY <1>2 DEF TextMarked, Becomes
  <1>4. ASSUME NEW t \in qset
        PROVE  HitsRight(low, t, HitsOfTerm(low, t)) /\ Len(t) \in Nat /\ Len(t) > 0
               /\ \A p \in Found(low, t) : p \in Nat /\ p + Len(t) <= n
    <2>1. t \in Seq(Chars) \ {<<>>}
      OBVIOUS
    <2> HIDE DEF low
    <2> QED
      BY <1>1, <2>1, HitsAreRight, FoundPlaces, EmptySeq
  <1>5. ASSUME NEW p \in marked PROVE \E t \in qset : p \in Covered(t)
    <2>1. p \in 0..(n - 1) /\ p \in Nat
      BY <1>1
    <2>2. PICK h \in HitsOf(s, qset) : Holds(h, p)
      BY <1>2, <1>3, <2>1
    <2>3. PICK t \in qset : h \in HitsOfTerm(low, t)
      BY Zenon DEF HitsOf
    <2>4. h.first \in Found(low, t) /\ h.second = h.first + Len(t)
      BY <1>4, <2>3 DEF HitsRight
    <2>5. p \in h.first..(h.first + Len(t) - 1)
      <3> DEFINE i == h.first
      <3>1. i \in Nat /\ Len(t) \in Nat /\ i <= p /\ p < i + Len(t)
        BY <1>4, <2>2, <2>4 DEF Holds
      <3> HIDE DEF i
      <3>2. p \in i..(i + Len(t) - 1)
        BY <2>1, <3>1
      <3> QED
        BY <3>2 DEF i
    <2> QED
      BY <2>4, <2>5
  <1>6. ASSUME NEW t \in qset, NEW h \in HitsOfTerm(low, t), NEW q \in 0..(n - 1), Holds(h, q)
        PROVE  q \in marked
    <2>1. h \in HitsOf(s, qset)
      BY Zenon DEF HitsOf
    <2> QED
      BY <1>2, <1>3, <1>6, <2>1
  <1> HIDE DEF marked
  <1>7. ASSUME NEW t \in qset, NEW p \in Found(low, t) PROVE marked \cap (p..(p + Len(t) - 1)) # {}
    <2>1. p \in Nat /\ Len(t) \in Nat /\ Len(t) > 0 /\ p + Len(t) <= n
      BY <1>4
    <2>2. PICK h \in HitsOfTerm(low, t) : Holds(h, p)
      BY <1>4 DEF HitsRight, Holds
    <2>3. p \in 0..(n - 1) /\ p \in p..(p + Len(t) - 1)
      BY <1>1, <2>1
    <2>4. p \in marked
      BY <1>6, <2>2, <2>3
    <2> QED
      BY <2>3, <2>4
  <1>8. ASSUME NEW t \in qset, ~SelfOverlapping(t), NEW q \in Covered(t) PROVE q \in marked
    <2>1. PICK p \in Found(low, t) : q \in p..(p + Len(t) - 1)
      OBVIOUS
    <2>2. p \in Nat /\ Len(t) \in Nat /\ p + Len(t) <= n
      BY <1>4
    <2>3. PICK h \in HitsOfTerm(low, t) : h.first = p /\ h.second = h.first + Len(t)
      BY <1>4, <1>8 DEF HitsRight
    <2>4. q \in 0..(n - 1) /\ p <= q /\ q < p + Len(t)
      <3> HIDE DEF low
      <3> QED
        BY <1>1, <2>1, <2>2
    <2>5. Holds(h, q)
      BY <2>3, <2>4 DEF Holds
    <2> QED
      BY <1>6, <2>4, <2>5
  <1>9. \A i \in DOMAIN m.depths : m.depths[i] \in {0, 1}
    BY <1>2, <1>3
  <1>10. \A i \in 1..(Len(out) - 1) : out[i] = "</b>" => out[i + 1] # "<b>"
    BY <1>3 DEF Untouched
  <1>11. marked \subseteq UNION {Covered(t) : t \in qset}
    BY <1>5
  <1>12. \A t \in qset : IF SelfOverlapping(t)
                         THEN \A p \in Found(low, t) : marked \cap (p..(p + Len(t) - 1)) # {}
                         ELSE Covered(t) \subseteq marked
    BY <1>7, <1>8
  <1>13. HighlightRight(s, qset)
    <2> HIDE DEF low, out, m, Covered
    <2> QED
      BY <1>3, <1>9, <1>10, <1>11, <1>12, Zenon DEF HighlightRight, marked, n, low, out, m, Covered
  <1> QED
    BY <1>3, <1>13

\* generate shows the right part of the page, says where it was cut, and marks the
\* query's terms exactly (SnippetGenerator.cpp:18-133).
THEOREM SnippetAlwaysExact == TextSpec => []SnippetExact
  <1>1. InputOk => SnippetExact
    <2> SUFFICES ASSUME InputOk, input.kind = "snippet" PROVE SnippetExact
      BY DEF SnippetExact
    <2> DEFINE content == input.content
               qset == input.qset
               raw == SubSeq(content, 1, Smaller(Len(content), RAW_LIMIT))
               plain == stripHTML(raw)
               cut == Cut(plain, Excerpt(plain, qset))
               shown == escapeHTML(cut)
    <2>1. content \in Seq(Chars \ {Ellipsis}) /\ qset \subseteq Seq(Chars) \ {<<>>}
      BY InputKinds, InputsAssumption
    <2>2. raw \in Seq(Chars \ {Ellipsis})
      <3> DEFINE k == Smaller(Len(content), RAW_LIMIT)
      <3>1. Len(content) \in Nat /\ RAW_LIMIT \in Nat
        BY <2>1, SizesAssumption
      <3>2. k \in Nat /\ k <= Len(content)
        BY <3>1 DEF Smaller
      <3> HIDE DEF k, content
      <3> QED
        BY <2>1, <3>2, PrefixSeq DEF k
    <2> HIDE DEF raw, content, qset
    <2>3. plain \in Seq(Chars \ {Ellipsis})
      BY <2>2, StripType
    <2>4. plain \in Seq(Chars)
      BY <2>3
    <2> HIDE DEF plain
    <2>5. qset \subseteq Seq(Chars)
      BY <2>1
    <2>6. WindowRight(plain, qset)
      BY <2>4, <2>5, WindowIsRight
    <2>7. CutRight(plain, qset) /\ cut \in Seq(Chars)
      BY <2>3, <2>5, CutIsRight
    <2> HIDE DEF cut
    <2>8. shown \in Seq(Chars)
      BY <2>7, EscapeType
    <2> HIDE DEF shown
    <2>9. HighlightRight(shown, qset) /\ Marks(highlight(shown, qset)).text = shown
      BY <2>1, <2>8, HighlightIsRight
    <2>10. raw # <<>> => generate(content, qset) = highlight(shown, qset)
      BY Zenon DEF generate, raw, plain, cut, shown
    <2>11. raw # <<>> => Marks(generate(content, qset)).text = shown
      BY <2>9, <2>10
    <2> QED
      BY <2>6, <2>7, <2>9, <2>11, Zenon DEF SnippetExact, raw, plain, cut, shown, content, qset
  <1> QED
    BY <1>1, InputsOk, PTL

(***************************************************************************)
(* The rate limiter, for any number of threads, any limit, any window and  *)
(* any scheduling delay.                                                   *)
(***************************************************************************)

\* What left the deque has expired, and no stamp is in the future.
DequeInv ==
    /\ \A i \in 1..popped : clock >= stamps[i] + Window
    /\ \A i \in 1..Len(stamps) : stamps[i] <= clock

\* No thread is held up for longer than MaxDelay after it read the clock.
DelayInv ==
    \A t \in Threads : pc[t] = "stamped" => now[t] <= clock /\ clock - now[t] <= MaxDelay

\* A refused call wakes up no earlier than the stamp expires that was at the front
\* of the full deque when it was refused.
WakeInv ==
    \A t \in Threads :
       /\ seen[t] # NotYet => MaxReq <= seen[t] /\ seen[t] <= Len(stamps)
       /\ pc[t] = "idle" => seen[t] = NotYet
       /\ pc[t] = "sleeping" => seen[t] # NotYet /\ wake[t] >= stamps[seen[t] - MaxReq + 1] + Window
       /\ pc[t] = "stamped" /\ seen[t] # NotYet => now[t] >= stamps[seen[t] - MaxReq + 1] + Window

IInv == TypeOK /\ DequeInv /\ DelayInv /\ WakeInv /\ GrantsSpaced /\ SleepBounded

LEMMA Constants ==
    /\ MaxReq \in Nat /\ MaxReq > 0 /\ Window \in Nat /\ Window > 0
    /\ MaxDelay \in Nat /\ MaxTime \in Nat /\ MaxCalls \in Nat /\ LastCall \in Nat
  BY LimitAssumption, BoundsAssumption

LEMMA InvInit == Init => IInv
  BY Constants DEF Init, IInv, TypeOK, DequeInv, DelayInv, WakeInv, GrantsSpaced,
                   SleepBounded, NotYet

-----------------------------------------------------------------------------
(***************************************************************************)
(* A granted call.                                                         *)
(***************************************************************************)

LEMMA GrantTypes ==
    ASSUME TypeOK, NEW t \in Threads, Enter(t),
           NEW k \in popped..Len(stamps), popped' = k, Grant(t, k)
    PROVE  /\ TypeOK'
           /\ Len(stamps') = Len(stamps) + 1
           /\ \A i \in 1..Len(stamps) : stamps'[i] = stamps[i] /\ grantedAt'[i] = grantedAt[i]
           /\ stamps'[Len(stamps) + 1] = now[t] /\ grantedAt'[Len(stamps) + 1] = clock
  <1> USE Constants
  <1>1. /\ now[t] \in Nat /\ clock \in Nat
        /\ stamps \in Seq(Nat) /\ grantedAt \in Seq(Nat) /\ Len(grantedAt) = Len(stamps)
    BY DEF TypeOK
  <1>2. /\ stamps' \in Seq(Nat) /\ Len(stamps') = Len(stamps) + 1
        /\ \A i \in 1..Len(stamps) : stamps'[i] = stamps[i]
        /\ stamps'[Len(stamps) + 1] = now[t]
    BY <1>1 DEF Grant
  <1>3. /\ grantedAt' \in Seq(Nat) /\ Len(grantedAt') = Len(stamps) + 1
        /\ \A i \in 1..Len(stamps) : grantedAt'[i] = grantedAt[i]
        /\ grantedAt'[Len(stamps) + 1] = clock
    BY <1>1 DEF Grant
  <1>4. popped' \in 0..Len(stamps') /\ Len(stamps') - popped' <= MaxReq
    BY <1>1, <1>2 DEF Grant, HasToken, TypeOK
  <1>5. TypeOK'
    BY <1>1, <1>2, <1>3, <1>4 DEF TypeOK, Enter, Grant, NotYet
  <1> QED
    BY <1>2, <1>3, <1>5

LEMMA GrantKeeps ==
    ASSUME IInv, NEW t \in Threads, Enter(t),
           NEW k \in popped..Len(stamps), Expired(k, now[t]), popped' = k, Grant(t, k)
    PROVE  IInv'
  <1> USE Constants
  <1> DEFINE n == Len(stamps)
  <1>1. /\ TypeOK'
        /\ Len(stamps') = n + 1
        /\ \A i \in 1..n : stamps'[i] = stamps[i] /\ grantedAt'[i] = grantedAt[i]
        /\ stamps'[n + 1] = now[t] /\ grantedAt'[n + 1] = clock
    BY GrantTypes DEF IInv
  <1>2. /\ n \in Nat /\ popped \in 0..n /\ clock \in Nat /\ clock' = clock
        /\ now[t] \in Nat /\ now[t] <= clock
        /\ \A i \in 1..n : stamps[i] \in Nat
    BY SMTT(30) DEF IInv, TypeOK, DelayInv, Enter
  <1> HIDE DEF n
  <1>3. \A i \in 1..k : i \in 1..n /\ clock >= stamps[i] + Window
    <2> SUFFICES ASSUME NEW i \in 1..k PROVE i \in 1..n /\ clock >= stamps[i] + Window
      OBVIOUS
    <2>1. i \in 1..n
      BY <1>2 DEF n
    <2>2. CASE i <= popped
      BY <1>2, <2>1, <2>2 DEF IInv, DequeInv
    <2>3. CASE i > popped
      BY <1>2, <2>1, <2>3 DEF Expired
    <2> QED
      BY <1>2, <2>1, <2>2, <2>3
  <1>4. DequeInv'
    <2>1. \A i \in 1..popped' : clock' >= stamps'[i] + Window
      BY <1>1, <1>2, <1>3
    <2>2. \A i \in 1..n : stamps[i] <= clock
      BY DEF IInv, DequeInv, n
    <2>3. \A i \in 1..Len(stamps') : stamps'[i] <= clock'
      BY <1>1, <1>2, <2>2
    <2> QED
      BY <2>1, <2>3 DEF DequeInv
  <1>5. GrantsSpaced'
    <2> SUFFICES ASSUME NEW i \in 1..(n + 1), NEW j \in 1..(n + 1), j = i + MaxReq
                 PROVE  grantedAt'[j] >= stamps'[i] + Window
      BY <1>1 DEF GrantsSpaced
    <2>1. i \in 1..n
      BY <1>2
    <2>2. CASE j \in 1..n
      BY <1>1, <2>1, <2>2 DEF IInv, GrantsSpaced, n
    <2>3. CASE j = n + 1
      <3>1. i \in 1..k
        BY <1>2, <2>1, <2>3 DEF Grant, HasToken, n
      <3> QED
        BY <1>1, <1>3, <2>1, <2>3, <3>1
    <2> QED
      BY <1>2, <2>2, <2>3
  <1>6. /\ pc'[t] = "idle" /\ seen'[t] = NotYet
        /\ \A v \in Threads : v # t => /\ pc'[v] = pc[v] /\ now'[v] = now[v]
                                       /\ wake'[v] = wake[v] /\ seen'[v] = seen[v]
    BY DEF Enter, Grant, IInv, TypeOK
  <1>7. DelayInv' /\ SleepBounded'
    BY <1>2, <1>6 DEF IInv, DelayInv, SleepBounded
  <1>8. \A s \in Nat : MaxReq <= s /\ s <= n => stamps'[s - MaxReq + 1] = stamps[s - MaxReq + 1]
    BY <1>1, <1>2
  <1>9. WakeInv'
    <2>1. \A v \in Threads : seen[v] # NotYet => seen[v] \in Nat
      BY DEF IInv, TypeOK
    <2> SUFFICES ASSUME NEW v \in Threads, v # t
                 PROVE  /\ seen'[v] # NotYet => MaxReq <= seen'[v] /\ seen'[v] <= Len(stamps')
                        /\ pc'[v] = "idle" => seen'[v] = NotYet
                        /\ pc'[v] = "sleeping" =>
                              seen'[v] # NotYet /\ wake'[v] >= stamps'[seen'[v] - MaxReq + 1] + Window
                        /\ pc'[v] = "stamped" /\ seen'[v] # NotYet =>
                              now'[v] >= stamps'[seen'[v] - MaxReq + 1] + Window
      BY <1>6 DEF WakeInv
    <2>2. CASE seen[v] = NotYet
      BY <1>6, <2>2 DEF IInv, WakeInv
    <2>3. CASE seen[v] # NotYet
      <3>1. seen[v] \in Nat /\ MaxReq <= seen[v] /\ seen[v] <= n
        BY <2>1, <2>3 DEF IInv, WakeInv, n
      <3>2. stamps'[seen'[v] - MaxReq + 1] = stamps[seen[v] - MaxReq + 1]
        BY <1>6, <1>8, <3>1
      <3>3. /\ pc[v] = "idle" => seen[v] = NotYet
            /\ pc[v] = "sleeping" => wake[v] >= stamps[seen[v] - MaxReq + 1] + Window
            /\ pc[v] = "stamped" => now[v] >= stamps[seen[v] - MaxReq + 1] + Window
        BY <2>3 DEF IInv, WakeInv
      <3>4. seen'[v] <= Len(stamps')
        BY <1>1, <1>2, <1>6, <3>1
      <3> QED
        BY <1>6, <2>3, <3>1, <3>2, <3>3, <3>4
    <2> QED
      BY <2>2, <2>3
  <1> QED
    BY <1>1, <1>4, <1>5, <1>7, <1>9 DEF IInv

-----------------------------------------------------------------------------
(***************************************************************************)
(* A refused call.                                                         *)
(***************************************************************************)

\* A refusal sees a full deque that starts at k; the stamp there has not expired.
LEMMA RefuseFacts ==
    ASSUME IInv, NEW t \in Threads, Enter(t),
           NEW k \in popped..Len(stamps), Expired(k, now[t]), Refuse(t, k)
    PROVE  /\ k = Len(stamps) - MaxReq /\ k = popped
           /\ k + 1 \in 1..Len(stamps)
           /\ now[t] - stamps[k + 1] < Window
           /\ stamps[k + 1] \in Nat /\ stamps[k + 1] <= clock
           /\ now[t] \in Nat /\ clock \in Nat
           /\ now[t] <= clock /\ clock - now[t] <= MaxDelay
  <1> USE Constants
  <1>1. /\ Len(stamps) \in Nat /\ popped \in 0..Len(stamps)
        /\ Len(stamps) - popped <= MaxReq /\ ~ (Len(stamps) - k < MaxReq)
    BY DEF IInv, TypeOK, Refuse, HasToken
  <1>2. k = Len(stamps) - MaxReq /\ k = popped /\ k + 1 \in 1..Len(stamps)
    BY <1>1
  <1>3. now[t] - stamps[k + 1] < Window
    BY <1>1, <1>2 DEF Expired
  <1>4. stamps[k + 1] \in Nat /\ stamps[k + 1] <= clock
    <2>1. stamps \in Seq(Nat) /\ \A i \in 1..Len(stamps) : stamps[i] <= clock
      BY DEF IInv, TypeOK, DequeInv
    <2> QED
      BY <1>2, <2>1
  <1>5. /\ now[t] \in Nat /\ clock \in Nat
        /\ now[t] <= clock /\ clock - now[t] <= MaxDelay
    BY DEF IInv, TypeOK, DelayInv, Enter
  <1> QED
    BY <1>2, <1>3, <1>4, <1>5

LEMMA RefuseKeeps ==
    ASSUME IInv, NEW t \in Threads, Enter(t),
           NEW k \in popped..Len(stamps), Expired(k, now[t]), popped' = k, Refuse(t, k)
    PROVE  IInv'
  <1> USE Constants
  <1> DEFINE front == stamps[k + 1]
             end == clock + (Window - (now[t] - front))
  <1>1. /\ k = Len(stamps) - MaxReq /\ k = popped /\ k + 1 \in 1..Len(stamps)
        /\ front \in Nat /\ front <= clock /\ now[t] - front < Window
        /\ now[t] \in Nat /\ clock \in Nat
        /\ now[t] <= clock /\ clock - now[t] <= MaxDelay
    BY RefuseFacts
  <1>2. wake' = [wake EXCEPT ![t] = end]
    BY DEF Refuse, WaitFor
  <1> HIDE DEF front
  <1>3. end \in Nat /\ end - clock <= Window + MaxDelay /\ end >= front + Window
    BY <1>1, SMTT(30)
  <1> HIDE DEF end
  <1>4. /\ UNCHANGED <<clock, calls, stamps, grantedAt, popped>>
        /\ pc' = [pc EXCEPT ![t] = "sleeping"]
        /\ seen' = [seen EXCEPT ![t] = Len(stamps)]
        /\ now' = [now EXCEPT ![t] = 0]
    BY <1>1 DEF Enter, Refuse
  <1>5. TypeOK'
    BY <1>2, <1>3, <1>4 DEF IInv, TypeOK
  <1>6. DequeInv' /\ GrantsSpaced'
    BY <1>4 DEF IInv, DequeInv, GrantsSpaced
  <1>7. /\ pc'[t] = "sleeping" /\ seen'[t] = Len(stamps) /\ wake'[t] = end
        /\ \A v \in Threads : v # t => /\ pc'[v] = pc[v] /\ now'[v] = now[v]
                                       /\ wake'[v] = wake[v] /\ seen'[v] = seen[v]
    BY <1>2, <1>4 DEF IInv, TypeOK
  <1>8. DelayInv' /\ SleepBounded'
    BY <1>3, <1>4, <1>7 DEF IInv, DelayInv, SleepBounded
  <1>9. Len(stamps) \in Nat /\ MaxReq <= Len(stamps) /\ Len(stamps) # NotYet
    BY <1>1 DEF IInv, TypeOK, NotYet
  <1>10. stamps[Len(stamps) - MaxReq + 1] = front
    BY <1>1 DEF front
  <1>11. WakeInv'
    <2> SUFFICES ASSUME NEW v \in Threads
                 PROVE  /\ seen'[v] # NotYet => MaxReq <= seen'[v] /\ seen'[v] <= Len(stamps')
                        /\ pc'[v] = "idle" => seen'[v] = NotYet
                        /\ pc'[v] = "sleeping" =>
                              seen'[v] # NotYet /\ wake'[v] >= stamps'[seen'[v] - MaxReq + 1] + Window
                        /\ pc'[v] = "stamped" /\ seen'[v] # NotYet =>
                              now'[v] >= stamps'[seen'[v] - MaxReq + 1] + Window
      BY DEF WakeInv
    <2>1. CASE v = t
      BY <1>3, <1>4, <1>7, <1>9, <1>10, <2>1
    <2>2. CASE v # t
      BY <1>4, <1>7, <2>2 DEF IInv, WakeInv
    <2> QED
      BY <2>1, <2>2
  <1> QED
    BY <1>5, <1>6, <1>8, <1>11 DEF IInv

-----------------------------------------------------------------------------
LEMMA InvNext == IInv /\ [Next]_vars => IInv'
  <1> SUFFICES ASSUME IInv, [Next]_vars PROVE IInv'
    OBVIOUS
  <1> USE Constants
  <1>1. CASE Tick
    <2>1. /\ clock' = clock + 1 /\ clock < MaxTime /\ clock \in Nat
          /\ UNCHANGED <<stamps, popped, pc, now, wake, calls, grantedAt, seen>>
      BY <1>1 DEF Tick, IInv, TypeOK
    <2>2. TypeOK'
      BY <2>1 DEF IInv, TypeOK
    <2>3. DequeInv'
      <3>1. /\ \A i \in 1..Len(stamps) : stamps[i] \in Nat
            /\ popped \in 0..Len(stamps)
        BY DEF IInv, TypeOK
      <3> QED
        BY <2>1, <3>1, SMTT(30) DEF IInv, DequeInv
    <2>4. DelayInv'
      BY <1>1, <2>1 DEF IInv, DelayInv, TypeOK, Tick
    <2>5. WakeInv' /\ GrantsSpaced'
      BY <2>1 DEF IInv, WakeInv, GrantsSpaced
    <2>6. SleepBounded'
      BY <2>1 DEF IInv, SleepBounded, TypeOK
    <2> QED
      BY <2>2, <2>3, <2>4, <2>5, <2>6 DEF IInv
  <1>2. ASSUME NEW t \in Threads, Call(t) \/ Retry(t) PROVE IInv'
    <2>1. /\ UNCHANGED <<clock, stamps, popped, grantedAt, seen>>
          /\ pc' = [pc EXCEPT ![t] = "stamped"]
          /\ now' = [now EXCEPT ![t] = clock]
          /\ wake' = [wake EXCEPT ![t] = 0]
          /\ clock \in Nat
      BY <1>2 DEF Call, Retry, ReadClock, IInv, TypeOK
    <2>2. calls' \in 0..MaxCalls
      BY <1>2 DEF Call, Retry, IInv, TypeOK
    <2>3. TypeOK'
      BY <2>1, <2>2 DEF IInv, TypeOK
    <2>4. /\ pc'[t] = "stamped" /\ now'[t] = clock
          /\ \A v \in Threads : v # t => pc'[v] = pc[v] /\ now'[v] = now[v] /\ wake'[v] = wake[v]
      BY <2>1 DEF IInv, TypeOK
    <2>5. DequeInv' /\ GrantsSpaced'
      BY <2>1 DEF IInv, DequeInv, GrantsSpaced
    <2>6. DelayInv' /\ SleepBounded'
      BY <2>1, <2>4 DEF IInv, DelayInv, SleepBounded
    <2>7. seen[t] # NotYet => clock >= stamps[seen[t] - MaxReq + 1] + Window
      <3>1. CASE Retry(t)
        <4>1. pc[t] = "sleeping" /\ clock >= wake[t] /\ wake[t] \in Nat
          BY <3>1 DEF Retry, IInv, TypeOK
        <4>2. /\ MaxReq <= seen[t] /\ seen[t] <= Len(stamps) /\ seen[t] # NotYet
              /\ wake[t] >= stamps[seen[t] - MaxReq + 1] + Window
          BY <4>1 DEF IInv, WakeInv
        <4>3. seen[t] \in Nat
          BY <4>2 DEF IInv, TypeOK
        <4>4. stamps[seen[t] - MaxReq + 1] \in Nat
          <5>1. seen[t] - MaxReq + 1 \in 1..Len(stamps)
            BY <4>2, <4>3
          <5> QED
            BY <5>1 DEF IInv, TypeOK
        <4> QED
          BY <2>1, <4>1, <4>2, <4>4
      <3>2. CASE Call(t)
        BY <3>2 DEF Call, IInv, WakeInv
      <3> QED
        BY <1>2, <3>1, <3>2
    <2>8. WakeInv'
      BY <2>1, <2>4, <2>7 DEF IInv, WakeInv
    <2> QED
      BY <2>3, <2>5, <2>6, <2>8 DEF IInv
  <1>3. ASSUME NEW t \in Threads, Enter(t) PROVE IInv'
    <2>1. PICK k \in popped..Len(stamps) :
             Expired(k, now[t]) /\ popped' = k /\ (Grant(t, k) \/ Refuse(t, k))
      BY <1>3 DEF Enter
    <2> QED
      BY <1>3, <2>1, GrantKeeps, RefuseKeeps
  <1>4. CASE UNCHANGED vars
    BY <1>4 DEF vars, IInv, TypeOK, DequeInv, DelayInv, WakeInv, GrantsSpaced, SleepBounded
  <1> QED
    BY <1>1, <1>2, <1>3, <1>4 DEF Next

\* The property of a step that RefusedOnlyIfOvertaken asks for.
Overtaken ==
    \A t \in Threads :
        pc[t] = "stamped" /\ pc'[t] = "sleeping" /\ seen[t] # NotYet => Len(stamps) > seen[t]

LEMMA RefusalStep == IInv /\ [Next]_vars => [Overtaken]_vars
  <1> SUFFICES ASSUME IInv, [Next]_vars, NEW t \in Threads,
                      pc[t] = "stamped", pc'[t] = "sleeping", seen[t] # NotYet
               PROVE  Len(stamps) > seen[t]
    BY DEF Overtaken
  <1>1. Enter(t)
    <2>1. ASSUME NEW v \in Threads, Call(v) \/ Retry(v) PROVE pc'[t] # "sleeping"
      BY <2>1 DEF Call, Retry, ReadClock, IInv, TypeOK
    <2>2. ASSUME NEW v \in Threads, v # t, Enter(v) PROVE pc'[t] = pc[t]
      BY <2>2 DEF Enter, Grant, Refuse, IInv, TypeOK
    <2> QED
      BY <2>1, <2>2 DEF Next, Tick, vars
  <1>2. PICK k \in popped..Len(stamps) : Expired(k, now[t]) /\ Refuse(t, k)
    BY <1>1 DEF Enter, Grant, IInv, TypeOK
  <1>3. k = Len(stamps) - MaxReq /\ now[t] - stamps[k + 1] < Window
        /\ stamps[k + 1] \in Nat /\ now[t] \in Nat
    BY <1>1, <1>2, RefuseFacts
  <1>4. /\ seen[t] \in Nat /\ seen[t] <= Len(stamps) /\ Len(stamps) \in Nat
        /\ now[t] >= stamps[seen[t] - MaxReq + 1] + Window
    BY DEF IInv, TypeOK, WakeInv
  <1>5. seen[t] # Len(stamps)
    <2> SUFFICES ASSUME seen[t] = Len(stamps) PROVE FALSE
      OBVIOUS
    <2>1. seen[t] - MaxReq + 1 = k + 1
      BY <1>3, <1>4, Constants
    <2>2. now[t] >= stamps[k + 1] + Window
      BY <1>4, <2>1
    <2> DEFINE x == stamps[k + 1]
               y == now[t]
    <2>3. x \in Nat /\ y \in Nat /\ y - x < Window /\ y >= x + Window /\ Window \in Nat
      BY <1>3, <2>2, Constants
    <2> HIDE DEF x, y
    <2> QED
      BY <2>3
  <1> QED
    BY <1>4, <1>5

-----------------------------------------------------------------------------
\* The deque never holds more than MaxReq time stamps, and every variable keeps its
\* type (RateLimiter.cpp:10-17).
THEOREM LimiterTypes == Spec => []TypeOK
  <1>1. IInv => TypeOK
    BY DEF IInv
  <1> QED
    BY <1>1, InvInit, InvNext, PTL DEF Spec

\* However threads interleave and are held up, MaxReq + 1 grants span a window,
\* counted from the time the first of them read (RateLimiter.cpp:6-28).
THEOREM LimiterSpacesGrants == Spec => []GrantsSpaced
  <1>1. IInv => GrantsSpaced
    BY DEF IInv
  <1> QED
    BY <1>1, InvInit, InvNext, PTL DEF Spec

\* No sleep in acquire() exceeds the window plus the lag of the clock reading
\* (RateLimiter.cpp:18-21).
THEOREM LimiterSleepsAreBounded == Spec => []SleepBounded
  <1>1. IInv => SleepBounded
    BY DEF IInv
  <1> QED
    BY <1>1, InvInit, InvNext, PTL DEF Spec

\* A call that slept is refused again only when another call was granted in the
\* meantime (RateLimiter.cpp:18-24).
THEOREM LimiterRefusalsArePaid == Spec => RefusedOnlyIfOvertaken
  BY InvInit, InvNext, RefusalStep, PTL DEF Spec, RefusedOnlyIfOvertaken, Overtaken
=============================================================================
