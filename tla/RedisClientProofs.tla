------------------------- MODULE RedisClientProofs -------------------------
(***************************************************************************)
(* Proofs about RedisClient: however commands and replies are cut on their *)
(* way, the client implements CommandLink.  The first half is about the    *)
(* reader alone: it comes to each object of a reply, and to no other.      *)
(***************************************************************************)
EXTENDS RedisClient, SharedLemmas, SequenceTheorems

(***************************************************************************)
(* Bytes.                                                                  *)
(***************************************************************************)

LEMMA PartOf ==
    ASSUME NEW S, NEW s \in Seq(S), NEW n \in Nat, n <= Len(s)
    PROVE  /\ SubSeq(s, 1, n) \in Seq(S) /\ Len(SubSeq(s, 1, n)) = n
           /\ \A i \in 1..n : SubSeq(s, 1, n)[i] = s[i]
  OBVIOUS

\* What has come in of some bytes begins with their beginning, once it is long enough.
LEMMA CutBehind ==
    ASSUME NEW u \in Seq(Int), NEW v \in Seq(Int), NEW h \in Seq(Int), NEW w \in Seq(Int),
           u \o v = h \o w, Len(h) <= Len(u)
    PROVE  SubSeq(u, 1, Len(h)) = h /\ SubSeq(u, Len(h) + 1, Len(u)) \o v = w
  <1> DEFINE x == SubSeq(u, Len(h) + 1, Len(u))
             y == SubSeq(u, 1, Len(h))
  <1>1. Len(u) \in Nat /\ Len(v) \in Nat /\ Len(h) \in Nat /\ Len(w) \in Nat
    BY LenProperties
  <1>2. \A i \in 1..Len(u) : u[i] \in Int
    BY ElementOfSeq
  <1>3. x \in Seq(Int) /\ Len(x) = Len(u) - Len(h) /\ \A i \in 1..Len(x) : x[i] = u[Len(h) + i]
    BY <1>1, <1>2, SubSeqProperties
  <1>4. y \in Seq(Int) /\ Len(y) = Len(h) /\ \A i \in 1..Len(y) : y[i] = u[i]
    BY <1>1, <1>2, SubSeqProperties
  <1> HIDE DEF x, y
  <1>5. Len(u) + Len(v) = Len(h) + Len(w)
    <2>1. Len(u \o v) = Len(u) + Len(v) /\ Len(h \o w) = Len(h) + Len(w)
      BY ConcatProperties
    <2> QED
      BY <2>1
  <1>6. \A i \in 1..(Len(u) + Len(v)) :
           (u \o v)[i] = IF i <= Len(u) THEN u[i] ELSE v[i - Len(u)]
    BY ConcatProperties
  <1>7. \A i \in 1..(Len(h) + Len(w)) :
           (u \o v)[i] = IF i <= Len(h) THEN h[i] ELSE w[i - Len(h)]
    <2>1. \A i \in 1..(Len(h) + Len(w)) :
             (h \o w)[i] = IF i <= Len(h) THEN h[i] ELSE w[i - Len(h)]
      BY ConcatProperties
    <2> QED
      BY <2>1
  <1>8. y = h
    <2>1. ASSUME NEW i \in 1..Len(y) PROVE y[i] = h[i]
      <3>1. i \in 1..(Len(u) + Len(v)) /\ i \in 1..(Len(h) + Len(w)) /\ i <= Len(u) /\ i <= Len(h)
        BY <1>1, <1>4, SMTT(60)
      <3>2. (u \o v)[i] = u[i] /\ (u \o v)[i] = h[i]
        BY <1>6, <1>7, <3>1
      <3> QED
        BY <1>4, <3>2
    <2> QED
      BY <1>4, <2>1, SeqEqual
  <1>9. x \o v = w
    <2>1. /\ x \o v \in Seq(Int) /\ Len(x \o v) = Len(x) + Len(v)
          /\ \A i \in 1..(Len(x) + Len(v)) :
                (x \o v)[i] = IF i <= Len(x) THEN x[i] ELSE v[i - Len(x)]
      BY <1>3, ConcatProperties
    <2>2. Len(x \o v) = Len(w)
      BY <1>1, <1>3, <1>5, <2>1
    <2>3. ASSUME NEW i \in 1..Len(x \o v) PROVE (x \o v)[i] = w[i]
      <3> DEFINE j == Len(h) + i
      <3>1. /\ j \in 1..(Len(u) + Len(v)) /\ j \in 1..(Len(h) + Len(w)) /\ ~(j <= Len(h))
            /\ j - Len(h) = i
        BY <1>1, <1>5, <2>2
      <3>2. (u \o v)[j] = w[i]
        BY <1>7, <3>1
      <3>3. CASE i <= Len(x)
        <4>1. i \in 1..Len(x) /\ j <= Len(u)
          BY <1>1, <1>3, <3>3
        <4>2. (x \o v)[i] = u[j]
          <5>1. i \in 1..(Len(x) + Len(v)) /\ i <= Len(x)
            BY <1>1, <1>3, <4>1
          <5>2. (x \o v)[i] = x[i]
            BY <2>1, <5>1
          <5> QED
            BY <1>3, <4>1, <5>2
        <4> QED
          BY <1>6, <3>1, <3>2, <4>1, <4>2
      <3>4. CASE ~(i <= Len(x))
        <4>1. ~(j <= Len(u)) /\ j - Len(u) = i - Len(x)
          BY <1>1, <1>3, <3>4
        <4>2. (x \o v)[i] = v[i - Len(x)]
          BY <1>1, <1>3, <2>1, <2>2, <3>4
        <4> QED
          BY <1>6, <3>1, <3>2, <4>1, <4>2
      <3> QED
        BY <3>3, <3>4
    <2> QED
      BY <2>1, <2>2, <2>3, SeqEqual
  <1> QED
    BY <1>8, <1>9 DEF x, y

\* The line that readLine finds, and that it finds none before its end has come.
LEMMA FirstLine ==
    ASSUME NEW u \in Seq(Int), NEW v \in Seq(Int), NEW line \in Seq(Int), NEW w \in Seq(Int),
           u \o v = (line \o CRLF) \o w, Newlines(line) = {}
    PROVE  Lines(u) = IF Len(line) + 2 <= Len(u) THEN {line} ELSE {}
  <1> DEFINE h == line \o CRLF
             n == Len(line)
  <1>1. CRLF \in Seq(Int) /\ Len(CRLF) = 2 /\ CRLF[1] = 13 /\ CRLF[2] = 10
    BY DEF CRLF
  <1>2. h \in Seq(Int) /\ Len(h) = n + 2 /\ n \in Nat /\ Len(u) \in Nat
    <2>1. h \in Seq(Int) /\ Len(h) = Len(line) + Len(CRLF)
      BY <1>1, ConcatProperties
    <2> QED
      BY <1>1, <2>1, LenProperties
  <1>3. \A i \in 1..(n + 2) : h[i] = IF i <= n THEN line[i] ELSE CRLF[i - n]
    <2>1. \A i \in 1..(Len(line) + Len(CRLF)) : h[i] = IF i <= n THEN line[i] ELSE CRLF[i - n]
      BY <1>1, ConcatProperties
    <2> HIDE DEF h
    <2> QED
      BY <1>1, <2>1
  <1>4. h[n + 1] = 13 /\ h[n + 2] = 10 /\ \A i \in 1..n : h[i] = line[i]
    BY <1>1, <1>2, <1>3
  <1>5. \A i \in 1..Len(u) : i \in 1..Len(h) => u[i] = h[i]
    <2>1. \A i \in 1..(Len(u) + Len(v)) : (u \o v)[i] = IF i <= Len(u) THEN u[i] ELSE v[i - Len(u)]
      BY ConcatProperties
    <2>2. \A i \in 1..(Len(h) + Len(w)) : (h \o w)[i] = IF i <= Len(h) THEN h[i] ELSE w[i - Len(h)]
      BY <1>2, ConcatProperties, SMTT(60)
    <2>3. Len(v) \in Nat /\ Len(w) \in Nat
      BY LenProperties
    <2> HIDE DEF h
    <2>4. ASSUME NEW i \in 1..Len(u), i \in 1..Len(h) PROVE u[i] = h[i]
      <3>1. i \in 1..(Len(u) + Len(v)) /\ i \in 1..(Len(h) + Len(w)) /\ i <= Len(u) /\ i <= Len(h)
        BY <1>2, <2>3, <2>4
      <3>2. (u \o v)[i] = u[i] /\ (h \o w)[i] = h[i]
        BY <2>1, <2>2, <3>1
      <3> QED
        BY <3>2 DEF h
    <2> QED
      BY <2>4
  <1> HIDE DEF h, n
  <1>6. \A i \in Newlines(u) : i \in 1..(Len(u) - 1) /\ i >= n + 1
    <2> SUFFICES ASSUME NEW i \in Newlines(u), ~(i >= n + 1) PROVE FALSE
      BY DEF Newlines
    <2>1. i \in 1..(Len(u) - 1) /\ u[i] = 13 /\ u[i + 1] = 10 /\ i \in 1..n
      BY <1>1, <1>2 DEF Newlines
    <2>2. u[i] = h[i] /\ u[i + 1] = h[i + 1]
      <3>1. /\ i \in 1..Len(u) /\ i \in 1..Len(h)
            /\ i + 1 \in 1..Len(u) /\ i + 1 \in 1..Len(h)
        BY <1>2, <2>1
      <3> QED
        BY <1>5, <3>1
    <2>3. CASE i = n
      BY <1>4, <2>1, <2>2, <2>3
    <2>4. CASE i # n
      <3>1. i \in 1..(n - 1) /\ i + 1 \in 1..n
        BY <1>2, <2>1, <2>4
      <3>2. line[i] = 13 /\ line[i + 1] = 10
        BY <1>4, <2>1, <2>2, <3>1
      <3>3. i \in Newlines(line)
        BY <1>1, <3>1, <3>2 DEF Newlines, n
      <3> QED
        BY <3>3
    <2> QED
      BY <2>3, <2>4
  <1>7. CASE n + 2 <= Len(u)
    <2>1. n + 1 \in Newlines(u)
      <3>1. n + 1 \in 1..(Len(u) - 1) /\ n + 1 \in 1..Len(u) /\ n + 2 \in 1..Len(u)
            /\ n + 1 \in 1..Len(h) /\ n + 2 \in 1..Len(h) /\ (n + 1) + 1 = n + 2
        BY <1>2, <1>7
      <3>2. u[n + 1] = 13 /\ u[(n + 1) + 1] = 10
        BY <1>4, <1>5, <3>1
      <3> QED
        BY <1>1, <3>1, <3>2 DEF Newlines
    <2>2. {i \in Newlines(u) : \A j \in Newlines(u) : i <= j} = {n + 1}
      <3>1. \A j \in Newlines(u) : n + 1 <= j
        BY <1>2, <1>6
      <3>2. ASSUME NEW i \in Newlines(u), \A j \in Newlines(u) : i <= j PROVE i = n + 1
        <4>1. i <= n + 1 /\ i >= n + 1 /\ i \in Int
          BY <1>6, <2>1, <3>2
        <4> QED
          BY <1>2, <4>1
      <3> QED
        BY <2>1, <3>1, <3>2
    <2>3. SubSeq(u, 1, (n + 1) - 1) = line
      <3>1. \A i \in 1..n : u[i] \in Int /\ u[i] = line[i]
        <4>1. \A i \in 1..n : i \in 1..Len(u) /\ i \in 1..Len(h)
          BY <1>2, <1>7
        <4>2. \A i \in 1..n : u[i] = line[i]
          BY <1>4, <1>5, <4>1
        <4> QED
          BY <4>1, <4>2, ElementOfSeq
      <3>2. /\ SubSeq(u, 1, n) \in Seq(Int) /\ Len(SubSeq(u, 1, n)) = n
            /\ \A i \in 1..n : SubSeq(u, 1, n)[i] = u[i]
        BY <1>2, <1>7, PartOf, SMTT(60)
      <3>3. SubSeq(u, 1, n) = line
        BY <3>1, <3>2, SeqEqual DEF n
      <3> QED
        BY <1>2, <3>3
    <2> QED
      BY <1>7, <2>2, <2>3 DEF Lines, n
  <1>8. CASE ~(n + 2 <= Len(u))
    <2>1. Newlines(u) = {}
      BY <1>2, <1>6, <1>8
    <2> QED
      BY <1>8, <2>1 DEF Lines, n
  <1> QED
    BY <1>7, <1>8

(***************************************************************************)
(* Numbers: string2ll reads what the server wrote.                         *)
(***************************************************************************)

\* The value of the first i digits is v[i].
Summed(s, v) ==
    /\ v \in [0..Len(s) -> Int] /\ v[0] = 0
    /\ \A i \in 1..Len(s) : v[i] = 10 * v[i - 1] + s[i] - 48

LEMMA SumExists ==
    ASSUME NEW s \in Seq(Int)
    PROVE  \E v : Summed(s, v)
  <1> DEFINE N == Len(s)
             Upto(n) == \E v \in [0..n -> Int] :
                           v[0] = 0 /\ \A i \in 1..n : v[i] = 10 * v[i - 1] + s[i] - 48
             S == {n \in Nat : n <= N => Upto(n)}
  <1>1. N \in Nat /\ \A i \in 1..N : s[i] \in Int
    BY LenProperties, ElementOfSeq
  <1>2. Upto(0)
    <2> DEFINE v == [i \in 0..0 |-> 0]
    <2>1. v \in [0..0 -> Int] /\ v[0] = 0 /\ \A i \in 1..0 : v[i] = 10 * v[i - 1] + s[i] - 48
      OBVIOUS
    <2> QED
      BY <2>1
  <1>3. ASSUME NEW n \in Nat, n + 1 <= N, Upto(n) PROVE Upto(n + 1)
    <2>1. PICK v \in [0..n -> Int] : v[0] = 0 /\ \A i \in 1..n : v[i] = 10 * v[i - 1] + s[i] - 48
      BY <1>3
    <2> DEFINE e == 10 * v[n] + s[n + 1] - 48
               u == [i \in 0..(n + 1) |-> IF i = n + 1 THEN e ELSE v[i]]
    <2>2. e \in Int
      <3>1. v[n] \in Int /\ s[n + 1] \in Int
        BY <1>1, <1>3, <2>1
      <3> QED
        BY <3>1
    <2> HIDE DEF e
    <2>3. u \in [0..(n + 1) -> Int] /\ u[0] = 0
      BY <2>1, <2>2
    <2>4. ASSUME NEW i \in 1..(n + 1) PROVE u[i] = 10 * u[i - 1] + s[i] - 48
      <3>1. CASE i = n + 1
        <4>1. u[i] = e /\ u[i - 1] = v[n]
          BY <3>1
        <4> QED
          BY <3>1, <4>1 DEF e
      <3>2. CASE i # n + 1
        <4>1. i \in 1..n /\ u[i] = v[i] /\ u[i - 1] = v[i - 1]
          BY <3>2
        <4> QED
          BY <2>1, <4>1
      <3> QED
        BY <3>1, <3>2
    <2> HIDE DEF u
    <2> QED
      BY <2>3, <2>4
  <1> HIDE DEF Upto, N
  <1>4. 0 \in S /\ \A n \in Nat : n \in S => n + 1 \in S
    BY <1>1, <1>2, <1>3
  <1>5. Nat \subseteq S
    <2> HIDE DEF S
    <2> QED
      BY <1>4, NatInd
  <1>6. Upto(N)
    BY <1>1, <1>5
  <1> QED
    BY <1>6 DEF Upto, Summed, N

\* There is one such function, so it does not matter how long it goes on.
LEMMA SumUnique ==
    ASSUME NEW s \in Seq(Int), NEW t \in Seq(Int), NEW v, NEW u, Summed(s, v), Summed(t, u),
           Len(s) <= Len(t), \A i \in 1..Len(s) : s[i] = t[i]
    PROVE  v[Len(s)] = u[Len(s)]
  <1> DEFINE N == Len(s)
             S == {n \in Nat : n <= N => v[n] = u[n]}
  <1>1. N \in Nat /\ Len(t) \in Nat
    BY LenProperties
  <1>2. 0 \in S
    BY DEF Summed
  <1>3. ASSUME NEW n \in Nat, n \in S PROVE n + 1 \in S
    <2> SUFFICES ASSUME n + 1 <= N PROVE v[n + 1] = u[n + 1]
      OBVIOUS
    <2>1. n + 1 \in 1..Len(s) /\ n + 1 \in 1..Len(t) /\ (n + 1) - 1 = n /\ v[n] = u[n]
      BY <1>1, <1>3
    <2>2. /\ v[n + 1] = 10 * v[n] + s[n + 1] - 48
          /\ u[n + 1] = 10 * u[n] + t[n + 1] - 48
      BY <2>1 DEF Summed
    <2> QED
      BY <2>1, <2>2
  <1>4. Nat \subseteq S
    <2> HIDE DEF S
    <2> QED
      BY <1>2, <1>3, NatInd
  <1> QED
    BY <1>1, <1>4

LEMMA ValueDef ==
    ASSUME NEW s \in Seq(Int)
    PROVE  \E v : Summed(s, v) /\ Value(s) = v[Len(s)]
  <1> DEFINE N == Len(s)
             Eqn(v) == [i \in 0..N |-> IF i = 0 THEN 0 ELSE 10 * v[i - 1] + s[i] - 48]
             w == CHOOSE v : v = Eqn(v)
  <1>1. N \in Nat
    BY LenProperties
  <1>2. PICK v : Summed(s, v)
    BY SumExists
  <1>3. v = Eqn(v)
    <2>1. \A i \in 0..N : v[i] = Eqn(v)[i]
      <3> SUFFICES ASSUME NEW i \in 0..N PROVE v[i] = Eqn(v)[i]
        OBVIOUS
      <3>1. CASE i = 0
        BY <1>2, <3>1 DEF Summed
      <3>2. CASE i # 0
        <4>1. i \in 1..N
          BY <1>1, <3>2
        <4> QED
          BY <1>2, <3>2, <4>1 DEF Summed
      <3> QED
        BY <3>1, <3>2
    <2>2. v \in [0..N -> Int]
      BY <1>2 DEF Summed
    <2> HIDE DEF N
    <2> QED
      BY <2>1, <2>2
  <1>4. w = Eqn(w)
    BY <1>3
  <1>5. Value(s) = w[N]
    BY DEF Value
  <1> HIDE DEF w
  <1>6. w[0] = 0 /\ \A i \in 1..N : w[i] = 10 * w[i - 1] + s[i] - 48
    <2>1. \A i \in 0..N : w[i] = Eqn(w)[i]
      BY <1>4
    <2>2. 0 \in 0..N /\ \A i \in 1..N : i \in 0..N /\ i # 0
      BY <1>1
    <2> QED
      BY <2>1, <2>2
  <1> DEFINE S == {n \in Nat : n <= N => w[n] = v[n]}
  <1>7. 0 \in S
    BY <1>2, <1>6 DEF Summed
  <1>8. ASSUME NEW n \in Nat, n \in S PROVE n + 1 \in S
    <2> SUFFICES ASSUME n + 1 <= N PROVE w[n + 1] = v[n + 1]
      OBVIOUS
    <2>1. n + 1 \in 1..N /\ (n + 1) - 1 = n /\ w[n] = v[n]
      BY <1>1, <1>8
    <2>2. v[n + 1] = 10 * v[n] + s[n + 1] - 48
      BY <1>2, <2>1 DEF Summed
    <2> QED
      BY <1>6, <2>1, <2>2
  <1>9. Nat \subseteq S
    <2> HIDE DEF S
    <2> QED
      BY <1>7, <1>8, NatInd
  <1>10. w[N] = v[N]
    BY <1>1, <1>9
  <1> QED
    BY <1>2, <1>5, <1>10

LEMMA ValueAppend ==
    ASSUME NEW s \in Seq(Int), NEW d \in Int
    PROVE  /\ Value(s) \in Int
           /\ Value(Append(s, d)) = 10 * Value(s) + d - 48
  <1> DEFINE t == Append(s, d)
             N == Len(s)
  <1>1. N \in Nat /\ t \in Seq(Int) /\ Len(t) = N + 1 /\ t[N + 1] = d /\ \A i \in 1..N : s[i] = t[i]
    BY LenProperties, AppendProperties
  <1>2. PICK v : Summed(s, v) /\ Value(s) = v[N]
    BY ValueDef
  <1> HIDE DEF t
  <1>3. PICK u : Summed(t, u) /\ Value(t) = u[Len(t)]
    BY <1>1, ValueDef
  <1>4. v[N] = u[N]
    <2>1. Len(s) <= Len(t)
      BY <1>1
    <2> QED
      BY <1>1, <1>2, <1>3, <2>1, SumUnique
  <1>5. u[N + 1] = 10 * u[N] + d - 48
    <2>1. N + 1 \in 1..Len(t) /\ (N + 1) - 1 = N
      BY <1>1
    <2> QED
      BY <1>1, <1>3, <2>1 DEF Summed
  <1>6. v[N] \in Int
    BY <1>1, <1>2 DEF Summed
  <1> QED
    BY <1>1, <1>2, <1>3, <1>4, <1>5, <1>6 DEF t

LEMMA DivTen ==
    ASSUME NEW m \in Nat, m >= 10
    PROVE  /\ m \div 10 \in Nat /\ m \div 10 > 0 /\ m \div 10 < m
           /\ m % 10 \in 0..9 /\ 10 * (m \div 10) + (m % 10) = m
  OBVIOUS

Digit(m) == 48 + (m % 10)

LEMMA NumeralDef ==
    ASSUME NEW n \in Nat
    PROVE  \E f : /\ Numeral(n) = f[n]
                  /\ \A m \in 0..n : f[m] = IF m < 10 THEN <<48 + m>> ELSE Append(f[m \div 10], Digit(m))
  <1> DEFINE Eqn(f, k) == [m \in 0..k |-> IF m < 10 THEN <<48 + m>> ELSE Append(f[m \div 10], Digit(m))]
             Upto(k) == \E f : f = Eqn(f, k)
             S == {k \in Nat : Upto(k)}
  <1>1. Upto(0)
    <2> DEFINE f == [m \in 0..0 |-> <<48 + m>>]
    <2>1. f = Eqn(f, 0)
      OBVIOUS
    <2> QED
      BY <2>1
  <1>2. ASSUME NEW k \in Nat, Upto(k) PROVE Upto(k + 1)
    <2>1. PICK f : f = Eqn(f, k)
      BY <1>2
    <2>2. \A m \in 0..k : f[m] = IF m < 10 THEN <<48 + m>> ELSE Append(f[m \div 10], Digit(m))
      <3> SUFFICES ASSUME NEW m \in 0..k PROVE f[m] = Eqn(f, k)[m]
        OBVIOUS
      <3> HIDE DEF Eqn
      <3> QED
        BY <2>1
    <2> DEFINE e == IF k + 1 < 10 THEN <<48 + (k + 1)>> ELSE Append(f[(k + 1) \div 10], Digit(k + 1))
               g == [m \in 0..(k + 1) |-> IF m = k + 1 THEN e ELSE f[m]]
    <2>3. ASSUME NEW m \in 0..(k + 1) PROVE g[m] = Eqn(g, k + 1)[m]
      <3>1. CASE m < 10
        <4>1. g[m] = <<48 + m>>
          <5>1. CASE m = k + 1
            BY <3>1, <5>1
          <5>2. CASE m # k + 1
            <6>1. m \in 0..k /\ g[m] = f[m]
              BY <5>2
            <6> QED
              BY <2>2, <3>1, <6>1
          <5> QED
            BY <5>1, <5>2
        <4> QED
          BY <3>1, <4>1
      <3>2. CASE ~(m < 10)
        <4>1. m \div 10 \in 0..k
          BY <3>2, DivTen
        <4> HIDE DEF e
        <4>2. g[m \div 10] = f[m \div 10]
          BY <4>1
        <4>3. g[m] = Append(f[m \div 10], Digit(m))
          <5>1. CASE m = k + 1
            BY <3>2, <5>1 DEF e
          <5>2. CASE m # k + 1
            <6>1. m \in 0..k /\ g[m] = f[m]
              BY <5>2
            <6> QED
              BY <2>2, <3>2, <6>1
          <5> QED
            BY <5>1, <5>2
        <4>4. Eqn(g, k + 1)[m] = Append(g[m \div 10], Digit(m))
          <5> HIDE DEF g
          <5> QED
            BY <3>2
        <4> QED
          BY <4>2, <4>3, <4>4
      <3> QED
        BY <3>1, <3>2
    <2>4. g = Eqn(g, k + 1)
      <3>1. g = [m \in 0..(k + 1) |-> g[m]]
        OBVIOUS
      <3>2. Eqn(g, k + 1) = [m \in 0..(k + 1) |-> Eqn(g, k + 1)[m]]
        <4> HIDE DEF g
        <4> QED
          OBVIOUS
      <3> HIDE DEF g, Eqn
      <3> QED
        BY <2>3, <3>1, <3>2
    <2> HIDE DEF g, Eqn
    <2> QED
      BY <2>4
  <1>3. Nat \subseteq S
    <2>1. 0 \in S /\ \A k \in Nat : k \in S => k + 1 \in S
      <3> HIDE DEF Upto
      <3> QED
        BY <1>1, <1>2
    <2> HIDE DEF S
    <2> QED
      BY <2>1, NatInd
  <1> DEFINE w == CHOOSE f : f = Eqn(f, n)
  <1>4. w = Eqn(w, n)
    <2>1. Upto(n)
      BY <1>3
    <2> HIDE DEF Eqn
    <2> QED
      BY <2>1
  <1>5. Numeral(n) = w[n]
    BY DEF Numeral, Digit
  <1> HIDE DEF w
  <1>6. \A m \in 0..n : w[m] = IF m < 10 THEN <<48 + m>> ELSE Append(w[m \div 10], Digit(m))
    <2> SUFFICES ASSUME NEW m \in 0..n PROVE w[m] = Eqn(w, n)[m]
      OBVIOUS
    <2> HIDE DEF Eqn
    <2> QED
      BY <1>4
  <1> QED
    BY <1>5, <1>6

\* A numeral has the value it stands for, and no leading zero.
LEMMA NumeralValue ==
    ASSUME NEW n \in Nat
    PROVE  /\ Numeral(n) \in Seq(Digits) /\ Numeral(n) \in Seq(Int) /\ Numeral(n) # <<>>
           /\ Value(Numeral(n)) = n
           /\ n = 0 => Numeral(n) = <<48>>
           /\ n > 0 => Numeral(n)[1] # 48
  <1>1. PICK f : /\ Numeral(n) = f[n]
                 /\ \A m \in 0..n : f[m] = IF m < 10 THEN <<48 + m>> ELSE Append(f[m \div 10], Digit(m))
    BY NumeralDef
  <1>2. Value(<<>>) = 0
    <2>1. <<>> \in Seq(Int) /\ Len(<<>>) = 0
      OBVIOUS
    <2> QED
      BY <2>1, ValueDef DEF Summed
  <1> DEFINE Right(m) == /\ f[m] \in Seq(Digits) /\ f[m] # <<>> /\ Value(f[m]) = m
                         /\ m > 0 => f[m][1] # 48
             Wrong == {m \in 0..n : ~Right(m)}
  <1>3. ASSUME NEW m \in 0..n, \A k \in 0..n : k < m => Right(k) PROVE Right(m)
    <2>1. CASE m < 10
      <3>1. f[m] = <<48 + m>> /\ 48 + m \in Digits /\ 48 + m \in Int
        <4>1. f[m] = <<48 + m>>
          BY <1>1, <2>1
        <4>2. 48 + m \in 48..57 /\ 48 + m \in Int
          BY <2>1
        <4> QED
          BY <4>1, <4>2 DEF Digits
      <3>2. <<48 + m>> = Append(<<>>, 48 + m) /\ <<>> \in Seq(Int)
        OBVIOUS
      <3>3. Value(<<48 + m>>) = 10 * Value(<<>>) + (48 + m) - 48
        BY <3>1, <3>2, ValueAppend
      <3>4. <<48 + m>> \in Seq(Digits) /\ <<48 + m>> # <<>> /\ <<48 + m>>[1] = 48 + m
        BY <3>1
      <3>5. Value(f[m]) = m
        BY <1>2, <3>1, <3>3
      <3>6. m > 0 => f[m][1] # 48
        BY <3>1, <3>4
      <3> QED
        BY <3>1, <3>4, <3>5, <3>6
    <2>2. CASE ~(m < 10)
      <3> DEFINE q == m \div 10
                 s == f[q]
      <3>1. /\ q \in Nat /\ q > 0 /\ q < m /\ m % 10 \in 0..9 /\ 10 * q + (m % 10) = m
        BY <2>2, DivTen
      <3>2. f[m] = Append(s, Digit(m))
        BY <1>1, <2>2
      <3>3. Digit(m) \in Digits /\ Digit(m) \in Int /\ Digit(m) = 48 + (m % 10)
        BY <3>1 DEF Digit, Digits
      <3>4. s \in Seq(Digits) /\ s # <<>> /\ Value(s) = q /\ s[1] # 48
        <4>1. Right(q)
          <5>1. q \in 0..n /\ q < m
            BY <3>1
          <5> HIDE DEF Right, q
          <5> QED
            BY <1>3, <5>1
        <4> QED
          BY <3>1, <4>1
      <3> HIDE DEF s, q
      <3>5. s \in Seq(Int)
        BY <3>4 DEF Digits
      <3>6. Value(f[m]) = 10 * q + Digit(m) - 48
        BY <3>2, <3>3, <3>4, <3>5, ValueAppend
      <3>7. Value(f[m]) = m
        BY <3>1, <3>3, <3>6
      <3>8. /\ Append(s, Digit(m)) \in Seq(Digits) /\ Append(s, Digit(m)) # <<>>
            /\ Append(s, Digit(m))[1] = s[1]
        BY <3>3, <3>4
      <3> QED
        BY <3>2, <3>4, <3>7, <3>8
    <2> QED
      BY <2>1, <2>2
  <1>4. Wrong = {}
    <2> SUFFICES ASSUME Wrong # {} PROVE FALSE
      OBVIOUS
    <2>1. Wrong \subseteq Nat
      OBVIOUS
    <2>2. PICK m \in Wrong : \A k \in Wrong : m <= k
      <3> HIDE DEF Wrong
      <3> QED
        BY <2>1, LeastNat
    <2>3. m \in 0..n /\ ~Right(m) /\ \A k \in 0..n : k < m => Right(k)
      <3> HIDE DEF Right
      <3> QED
        BY <2>2
    <2> HIDE DEF Right
    <2> QED
      BY <1>3, <2>3
  <1>5. Right(n)
    <2> HIDE DEF Right
    <2> QED
      BY <1>4
  <1>6. n = 0 => Numeral(n) = <<48>>
    BY <1>1
  <1>7. Numeral(n) \in Seq(Int)
    BY <1>1, <1>5 DEF Digits
  <1> QED
    BY <1>1, <1>5, <1>6, <1>7

LEMMA DecimalRead ==
    ASSUME NEW n \in Int
    PROVE  /\ Decimal(n) \in Seq(Int) /\ Newlines(Decimal(n)) = {}
           /\ IsNumber(Decimal(n)) /\ string2ll(Decimal(n)) = n
  <1> DEFINE s == Decimal(n)
  <1>1. CASE n >= 0
    <2>1. n \in Nat /\ s = Numeral(n)
      BY <1>1 DEF Decimal
    <2>2. /\ s \in Seq(Digits) /\ s \in Seq(Int) /\ s # <<>> /\ Value(s) = n
          /\ n = 0 => s = <<48>>
          /\ n > 0 => s[1] # 48
      BY <2>1, NumeralValue, ZenonT(60)
    <2> HIDE DEF s
    <2>3. \A i \in 1..Len(s) : s[i] \in Digits
      BY <2>2, ElementOfSeq
    <2>4. 1 \in 1..Len(s) /\ DOMAIN s = 1..Len(s)
      BY <2>2, EmptySeq, LenProperties
    <2>5. Magnitude(s) = s
      <3>1. s[1] # Minus
        BY <2>3, <2>4 DEF Digits, Minus
      <3> QED
        BY <3>1 DEF Magnitude
    <2>6. IsNumber(s)
      <3>1. n = 0 \/ n > 0
        BY <2>1
      <3> QED
        BY <2>2, <2>3, <2>4, <2>5, <3>1 DEF IsNumber
    <2>7. string2ll(s) = n
      BY <2>2, <2>5 DEF string2ll
    <2>8. Newlines(s) = {}
      <3>1. \A i \in 1..(Len(s) - 1) : i \in 1..Len(s)
        BY <2>4
      <3>2. \A i \in 1..Len(s) : s[i] # 13
        BY <2>3 DEF Digits
      <3> QED
        BY <3>1, <3>2 DEF Newlines, CRLF
    <2> QED
      BY <2>2, <2>6, <2>7, <2>8 DEF s
  <1>2. CASE ~(n >= 0)
    <2> DEFINE d == Numeral(-n)
    <2>1. -n \in Nat /\ -n > 0 /\ s = <<Minus>> \o d
      BY <1>2 DEF Decimal
    <2>2. d \in Seq(Digits) /\ d \in Seq(Int) /\ d # <<>> /\ Value(d) = -n /\ d[1] # 48
      BY <2>1, NumeralValue
    <2> HIDE DEF s, d
    <2>3. Minus = 45 /\ <<Minus>> \in Seq(Int)
      BY DEF Minus
    <2>4. /\ s \in Seq(Int) /\ s # <<>> /\ s[1] = Minus /\ Len(s) = Len(d) + 1 /\ Tail(s) = d
          /\ \A i \in 1..Len(d) : s[i + 1] = d[i]
      BY <2>1, <2>2, <2>3, SMTT(60)
    <2>5. Magnitude(s) = d /\ s # d
      <3>1. Len(d) \in Nat
        BY <2>2, LenProperties
      <3> QED
        BY <2>4, <3>1 DEF Magnitude
    <2>6. \A i \in 1..Len(d) : d[i] \in Digits
      BY <2>2, ElementOfSeq
    <2>7. DOMAIN d = 1..Len(d) /\ Len(d) \in Nat
      BY <2>2, LenProperties
    <2>8. IsNumber(s)
      BY <2>2, <2>5, <2>6, <2>7 DEF IsNumber
    <2>9. string2ll(s) = n
      BY <2>2, <2>5 DEF string2ll
    <2>10. Newlines(s) = {}
      <3> SUFFICES ASSUME NEW i \in Newlines(s) PROVE FALSE
        OBVIOUS
      <3>1. i \in 1..(Len(s) - 1) /\ s[i] = 13
        BY DEF Newlines, CRLF
      <3>2. CASE i = 1
        BY <2>3, <2>4, <3>1, <3>2
      <3>3. CASE i # 1
        <4>1. i - 1 \in 1..Len(d) /\ (i - 1) + 1 = i
          BY <2>4, <2>7, <3>1, <3>3
        <4>2. d[i - 1] = 13
          BY <2>4, <3>1, <4>1
        <4> QED
          BY <2>6, <4>1, <4>2 DEF Digits
      <3> QED
        BY <3>2, <3>3
    <2> QED
      BY <2>4, <2>8, <2>9, <2>10 DEF s
  <1> QED
    BY <1>1, <1>2

(***************************************************************************)
(* The bytes of a reply.                                                   *)
(***************************************************************************)

LEMMA TypeBytes ==
    /\ DOMAIN TypeOf = {36, 42, 58, 43, 45}
    /\ TypeOf[36] = "string" /\ TypeOf[42] = "array" /\ TypeOf[58] = "integer"
    /\ TypeOf[43] = "status" /\ TypeOf[45] = "error"
  BY DEF TypeOf, Minus

\* The conjuncts of WellFormed about one object.
Sound(o) ==
    /\ o \in Object
    /\ o.type \in {"array", "integer"} => Len(o.value) = 1
    /\ o.type = "array" => o.value[1] >= 0
    /\ o.type \in {"status", "error"} => ToSet(o.value) \cap ToSet(CRLF) = {}

LEMMA HeaderParts ==
    ASSUME NEW o, Sound(o)
    PROVE  /\ Letter(o) \in DOMAIN TypeOf /\ TypeOf[Letter(o)] = TypeSent(o)
           /\ Letter(o) \in Int
           /\ Line(o) \in Seq(Int) /\ Newlines(Line(o)) = {}
           /\ Body(o) \in Seq(Int)
           /\ Header(o) \in Seq(Int)
  <1>1. Letter(o) \in DOMAIN TypeOf /\ TypeOf[Letter(o)] = TypeSent(o)
    <2>1. TypeSent(o) \in {"string", "array", "integer", "status", "error"}
      BY DEF Sound, Object, TypeSent
    <2>2. \E b \in DOMAIN TypeOf : TypeOf[b] = TypeSent(o)
      BY <2>1, TypeBytes
    <2> QED
      BY <2>2 DEF Letter
  <1>2. Letter(o) \in Int
    BY <1>1, TypeBytes
  <1>3. o.value \in Seq(Int) /\ CRLF \in Seq(Int)
    <2>1. o.value \in Seq(Int)
      BY DEF Sound, Object
    <2> QED
      BY <2>1 DEF CRLF
  <1>4. Body(o) \in Seq(Int)
    BY <1>3, EmptySeq, ConcatProperties DEF Body
  <1>5. Line(o) \in Seq(Int) /\ Newlines(Line(o)) = {}
    <2>1. CASE o.type = "string"
      <3>1. Len(o.value) \in Int
        BY <1>3, LenProperties
      <3> QED
        BY <2>1, <3>1, DecimalRead DEF Line
    <2>2. CASE o.type \in {"array", "integer"}
      <3>1. o.value[1] \in Int
        BY <1>3, <2>2, ElementOfSeq DEF Sound
      <3>2. Line(o) = Decimal(o.value[1])
        BY <2>2 DEF Line
      <3> QED
        BY <3>1, <3>2, DecimalRead
    <2>3. CASE o.type \in {"status", "error"}
      <3>1. Line(o) = o.value
        BY <2>3 DEF Line
      <3>2. \A i \in 1..Len(o.value) : o.value[i] # 13
        <4>1. ToSet(CRLF) = {13, 10}
          BY DEF ToSet, CRLF
        <4>2. \A i \in 1..Len(o.value) : o.value[i] \in ToSet(o.value)
          BY <1>3 DEF ToSet
        <4> QED
          BY <2>3, <4>1, <4>2 DEF Sound
      <3>3. \A i \in 1..(Len(o.value) - 1) : i \in 1..Len(o.value)
        BY <1>3, LenProperties
      <3>4. Newlines(o.value) = {}
        BY <3>2, <3>3 DEF Newlines, CRLF
      <3> QED
        BY <1>3, <3>1, <3>4
    <2>4. CASE o.type \in {"nil string", "nil array"}
      <3>1. Line(o) = Decimal(-1)
        BY <2>4 DEF Line
      <3> QED
        BY <3>1, DecimalRead
    <2> QED
      BY <2>1, <2>2, <2>3, <2>4 DEF Sound, Object
  <1>6. Header(o) \in Seq(Int)
    <2>1. <<Letter(o)>> \in Seq(Int)
      BY <1>2
    <2>2. <<Letter(o)>> \o Line(o) \in Seq(Int)
      BY <1>5, <2>1, ConcatProperties
    <2>3. (<<Letter(o)>> \o Line(o)) \o CRLF \in Seq(Int)
      BY <1>3, <2>2, ConcatProperties
    <2> QED
      BY <1>4, <2>3, ConcatProperties DEF Header
  <1> QED
    BY <1>1, <1>2, <1>4, <1>5, <1>6

LEMMA WellFormedParts ==
    ASSUME NEW a, WellFormed(a)
    PROVE  /\ a \in Seq(Object) /\ Len(a) \in Nat /\ DOMAIN a = 1..Len(a)
           /\ \A k \in 1..Len(a) : Sound(a[k]) /\ a[k].place \in NextPlaces(a, k - 1)
           /\ \A i, j \in 1..Len(a) : a[i].place = a[j].place => i = j
  <1>1. a \in Seq(Object) /\ Len(a) \in Nat /\ DOMAIN a = 1..Len(a)
    BY LenProperties DEF WellFormed
  <1>2. \A k \in 1..Len(a) : a[k] \in Object
    BY <1>1, ElementOfSeq
  <1> QED
    BY <1>1, <1>2 DEF WellFormed, Sound

LEMMA BehindDef ==
    ASSUME NEW a, WellFormed(a), NEW tail \in Seq(Int)
    PROVE  /\ BytesBehind(a, tail)[Len(a)] = tail
           /\ \A k \in 0..Len(a) : BytesBehind(a, tail)[k] \in Seq(Int)
           /\ \A k \in 0..(Len(a) - 1) :
                 BytesBehind(a, tail)[k] = Header(a[k + 1]) \o BytesBehind(a, tail)[k + 1]
  <1> DEFINE N == Len(a)
             Eqn(f) == [k \in 0..N |-> IF k = N THEN tail ELSE Header(a[k + 1]) \o f[k + 1]]
             w == CHOOSE f : f = Eqn(f)
  <1>1. N \in Nat /\ \A k \in 1..N : Header(a[k]) \in Seq(Int)
    BY WellFormedParts, HeaderParts
  <1>2. BytesBehind(a, tail) = w
    BY DEF BytesBehind
  <1> DEFINE Upto(n) == \E f \in [(N - n)..N -> Seq(Int)] :
                           /\ f[N] = tail
                           /\ \A k \in (N - n)..(N - 1) : f[k] = Header(a[k + 1]) \o f[k + 1]
             S == {n \in Nat : n <= N => Upto(n)}
  <1> HIDE DEF N
  <1>3. Upto(0)
    <2> DEFINE f == [k \in (N - 0)..N |-> tail]
    <2>1. f \in [(N - 0)..N -> Seq(Int)] /\ f[N] = tail
          /\ \A k \in (N - 0)..(N - 1) : f[k] = Header(a[k + 1]) \o f[k + 1]
      <3>1. N \in (N - 0)..N /\ \A k \in (N - 0)..(N - 1) : FALSE
        BY <1>1
      <3> QED
        BY <3>1
    <2> HIDE DEF f
    <2> QED
      BY <2>1
  <1>4. ASSUME NEW n \in Nat, n + 1 <= N, Upto(n) PROVE Upto(n + 1)
    <2> DEFINE m == N - n
    <2>1. m \in 1..N /\ N - (n + 1) = m - 1
      BY <1>1, <1>4
    <2>2. PICK f \in [m..N -> Seq(Int)] : /\ f[N] = tail
                                          /\ \A k \in m..(N - 1) : f[k] = Header(a[k + 1]) \o f[k + 1]
      BY <1>4
    <2> HIDE DEF m
    <2> DEFINE e == Header(a[m]) \o f[m]
               g == [k \in (m - 1)..N |-> IF k = m - 1 THEN e ELSE f[k]]
    <2>3. e \in Seq(Int)
      <3>1. Header(a[m]) \in Seq(Int) /\ f[m] \in Seq(Int)
        BY <1>1, <2>1, <2>2
      <3> QED
        BY <3>1, ConcatProperties
    <2> HIDE DEF e
    <2>4. g \in [(m - 1)..N -> Seq(Int)] /\ g[N] = tail
      BY <1>1, <2>1, <2>2, <2>3
    <2>5. ASSUME NEW k \in (m - 1)..(N - 1) PROVE g[k] = Header(a[k + 1]) \o g[k + 1]
      <3>1. CASE k = m - 1
        <4>1. g[k] = e /\ g[k + 1] = f[m] /\ k + 1 = m
          BY <1>1, <2>1, <3>1
        <4> QED
          BY <4>1 DEF e
      <3>2. CASE k # m - 1
        <4>1. k \in m..(N - 1) /\ g[k] = f[k] /\ g[k + 1] = f[k + 1]
          BY <1>1, <2>1, <3>2
        <4> QED
          BY <2>2, <4>1
      <3> QED
        BY <3>1, <3>2
    <2> HIDE DEF g
    <2> QED
      BY <2>1, <2>4, <2>5
  <1>5. Nat \subseteq S
    <2>1. 0 \in S /\ \A n \in Nat : n \in S => n + 1 \in S
      <3> HIDE DEF Upto
      <3> QED
        BY <1>1, <1>3, <1>4
    <2> HIDE DEF S
    <2> QED
      BY <2>1, NatInd
  <1>6. w = Eqn(w)
    <2>1. Upto(N) /\ N - N = 0
      <3>1. N \in S
        BY <1>1, <1>5
      <3> HIDE DEF Upto
      <3> QED
        BY <1>1, <3>1
    <2>2. PICK f \in [0..N -> Seq(Int)] : /\ f[N] = tail
                                          /\ \A k \in 0..(N - 1) : f[k] = Header(a[k + 1]) \o f[k + 1]
      BY <2>1
    <2>3. f = Eqn(f)
      <3>1. ASSUME NEW k \in 0..N PROVE f[k] = Eqn(f)[k]
        <4>1. k = N \/ k \in 0..(N - 1)
          BY <1>1
        <4> QED
          BY <1>1, <2>2, <4>1
      <3>2. f = [k \in 0..N |-> f[k]]
        OBVIOUS
      <3> QED
        BY <3>1, <3>2
    <2> HIDE DEF Eqn
    <2> QED
      BY <2>3
  <1> HIDE DEF w
  <1>7. w[N] = tail /\ \A k \in 0..(N - 1) : w[k] = Header(a[k + 1]) \o w[k + 1]
    <2>1. \A k \in 0..N : w[k] = Eqn(w)[k]
      BY <1>6
    <2>2. N \in 0..N /\ \A k \in 0..(N - 1) : k \in 0..N /\ k # N
      BY <1>1
    <2> QED
      BY <2>1, <2>2
  <1> DEFINE T == {n \in Nat : n <= N => w[N - n] \in Seq(Int)}
  <1>8. 0 \in T
    BY <1>1, <1>7
  <1>9. ASSUME NEW n \in Nat, n \in T PROVE n + 1 \in T
    <2> SUFFICES ASSUME n + 1 <= N PROVE w[N - (n + 1)] \in Seq(Int)
      OBVIOUS
    <2> DEFINE k == N - (n + 1)
    <2>1. k \in 0..(N - 1) /\ k + 1 = N - n /\ k + 1 \in 1..N
      BY <1>1
    <2> HIDE DEF k
    <2>2. w[k + 1] \in Seq(Int) /\ Header(a[k + 1]) \in Seq(Int)
      BY <1>1, <1>9, <2>1
    <2>3. w[k] \in Seq(Int)
      BY <1>7, <2>1, <2>2, ConcatProperties, ZenonT(60)
    <2> QED
      BY <2>3 DEF k
  <1>10. Nat \subseteq T
    <2> HIDE DEF T
    <2> QED
      BY <1>8, <1>9, NatInd
  <1>11. \A k \in 0..N : w[k] \in Seq(Int)
    <2> SUFFICES ASSUME NEW k \in 0..N PROVE w[k] \in Seq(Int)
      OBVIOUS
    <2>1. N - k \in Nat /\ N - k <= N /\ N - (N - k) = k
      BY <1>1
    <2>2. N - k \in T
      BY <1>10, <2>1
    <2> QED
      BY <2>1, <2>2
  <1> QED
    BY <1>2, <1>7, <1>11 DEF N

(***************************************************************************)
(* The places of a reply.                                                  *)
(***************************************************************************)

LEMMA PrefixOf ==
    ASSUME NEW q \in Seq(Nat), NEW n \in 0..Len(q), NEW x \in Nat
    PROVE  LET p == Append(SubSeq(q, 1, n), x)
           IN  /\ p \in Seq(Nat) /\ Len(p) = n + 1 /\ p[n + 1] = x
               /\ \A i \in 1..n : p[i] = q[i]
               /\ \A m \in 0..n : SubSeq(p, 1, m) = SubSeq(q, 1, m)
  <1> DEFINE s == SubSeq(q, 1, n)
             p == Append(s, x)
  <1>1. Len(q) \in Nat
    BY LenProperties
  <1>2. s \in Seq(Nat) /\ Len(s) = n /\ \A i \in 1..n : s[i] = q[i]
    BY <1>1, PartOf
  <1> HIDE DEF s
  <1>3. p \in Seq(Nat) /\ Len(p) = n + 1 /\ p[n + 1] = x /\ \A i \in 1..n : p[i] = s[i]
    BY <1>2, AppendProperties
  <1> HIDE DEF p
  <1>4. ASSUME NEW m \in 0..n PROVE SubSeq(p, 1, m) = SubSeq(q, 1, m)
    <2>1. m \in Nat /\ m <= Len(p) /\ m <= Len(q) /\ \A i \in 1..m : i \in 1..n
      BY <1>1, <1>3
    <2>2. /\ SubSeq(p, 1, m) \in Seq(Nat) /\ Len(SubSeq(p, 1, m)) = m
          /\ \A i \in 1..m : SubSeq(p, 1, m)[i] = p[i]
      BY <1>3, <2>1, PartOf
    <2>3. /\ SubSeq(q, 1, m) \in Seq(Nat) /\ Len(SubSeq(q, 1, m)) = m
          /\ \A i \in 1..m : SubSeq(q, 1, m)[i] = q[i]
      BY <2>1, PartOf
    <2>4. \A i \in 1..m : SubSeq(p, 1, m)[i] = SubSeq(q, 1, m)[i]
      BY <1>2, <1>3, <2>1, <2>2, <2>3
    <2> QED
      BY <2>2, <2>3, <2>4, SeqEqual
  <1> QED
    BY <1>2, <1>3, <1>4 DEF p, s

\* The element of an array that comes next after those that end with the object at p.
Turns(a, p) == {t \in 1..Len(p) : ~IsLast(a, p, t) /\ \A u \in (t + 1)..Len(p) : IsLast(a, p, u)}

LEMMA NextIsPlace ==
    ASSUME NEW a, WellFormed(a), NEW k \in 0..Len(a), NEW p \in NextPlaces(a, k)
    PROVE  p \in Seq(Nat)
  <1>1. CASE k = 0
    BY <1>1 DEF NextPlaces
  <1>2. CASE k # 0
    <2> DEFINE c == a[k].place
    <2>1. k \in 1..Len(a)
      BY <1>2, WellFormedParts
    <2>2. c \in Seq(Nat)
      BY <2>1, WellFormedParts DEF Sound, Object
    <2>3. p \in IF Opens(a[k]) THEN {Append(c, 0)} ELSE {Append(SubSeq(c, 1, t - 1), c[t] + 1) : t \in Turns(a, c)}
      BY <1>2 DEF NextPlaces, Turns
    <2> HIDE DEF c
    <2>4. CASE p = Append(c, 0)
      BY <2>2, <2>4
    <2>5. ASSUME NEW t \in Turns(a, c), p = Append(SubSeq(c, 1, t - 1), c[t] + 1) PROVE p \in Seq(Nat)
      <3>1. t - 1 \in 0..Len(c) /\ c[t] + 1 \in Nat
        BY <2>2, LenProperties, ElementOfSeq DEF Turns
      <3> QED
        BY <2>2, <2>5, <3>1, PrefixOf
    <2> QED
      BY <2>3, <2>4, <2>5
  <1> QED
    BY <1>1, <1>2

\* At most one place may come next.
LEMMA NextUnique ==
    ASSUME NEW a, WellFormed(a), NEW k \in 0..Len(a),
           NEW p \in NextPlaces(a, k), NEW q \in NextPlaces(a, k)
    PROVE  p = q
  <1>1. CASE k = 0
    BY <1>1 DEF NextPlaces
  <1>2. CASE k # 0
    <2> DEFINE c == a[k].place
    <2>1. k \in 1..Len(a)
      BY <1>2, WellFormedParts
    <2>2. c \in Seq(Nat) /\ Len(c) \in Nat
      <3>1. c \in Seq(Nat)
        BY <2>1, WellFormedParts DEF Sound, Object
      <3> QED
        BY <3>1, LenProperties
    <2>3. \A t \in Turns(a, c), u \in Turns(a, c) : t = u
      <3> HIDE DEF c
      <3> SUFFICES ASSUME NEW t \in Turns(a, c), NEW u \in Turns(a, c), t < u PROVE FALSE
        BY <2>2 DEF Turns
      <3>1. u \in (t + 1)..Len(c)
        BY <2>2 DEF Turns
      <3> QED
        BY <3>1 DEF Turns
    <2> QED
      BY <1>2, <2>3 DEF NextPlaces, Turns
  <1> QED
    BY <1>1, <1>2

\* What the reader has made of the first k objects.
Built(a, k) ==
    [q \in {a[i].place : i \in 1..k} |-> Visible(CHOOSE o \in ToSet(a) : o.place = q)]

LEMMA ObjectAt ==
    ASSUME NEW a, WellFormed(a), NEW i \in 1..Len(a)
    PROVE  (CHOOSE o \in ToSet(a) : o.place = a[i].place) = a[i]
  <1> DEFINE o == CHOOSE o \in ToSet(a) : o.place = a[i].place
  <1>1. a[i] \in ToSet(a)
    BY WellFormedParts DEF ToSet
  <1>2. o \in ToSet(a) /\ o.place = a[i].place
    BY <1>1
  <1> HIDE DEF o
  <1>3. PICK j \in 1..Len(a) : o = a[j]
    BY <1>2, WellFormedParts DEF ToSet
  <1>4. j = i
    BY <1>2, <1>3, WellFormedParts
  <1> QED
    BY <1>3, <1>4 DEF o

Extended(reply, p, object) == [q \in {p} \cup DOMAIN reply |-> IF q = p THEN object ELSE reply[q]]

LEMMA BuiltMore ==
    ASSUME NEW a, WellFormed(a), NEW k \in 0..(Len(a) - 1), NEW reply,
           reply = IF k = 0 THEN NoReply ELSE Built(a, k)
    PROVE  Extended(reply, a[k + 1].place, Visible(a[k + 1])) = Built(a, k + 1)
  <1> DEFINE D == {a[i].place : i \in 1..k}
             c == a[k + 1].place
             E == {a[i].place : i \in 1..(k + 1)}
             V(q) == Visible(CHOOSE o \in ToSet(a) : o.place = q)
  <1>1. Len(a) \in Nat /\ k \in Nat /\ k + 1 \in 1..Len(a)
    BY WellFormedParts
  <1>2. E = {c} \cup D
    <2>1. \A i \in 1..(k + 1) : i = k + 1 \/ i \in 1..k
      BY <1>1
    <2>2. k + 1 \in 1..(k + 1) /\ \A i \in 1..k : i \in 1..(k + 1)
      BY <1>1
    <2> QED
      BY <2>1, <2>2
  <1>3. DOMAIN reply = D /\ \A q \in D : reply[q] = V(q)
    <2>1. CASE k = 0
      <3>1. D = {}
        BY <2>1
      <3>2. DOMAIN reply = {}
        BY <2>1 DEF NoReply
      <3> QED
        BY <3>1, <3>2
    <2>2. CASE k # 0
      <3>1. reply = Built(a, k)
        BY <2>2
      <3> QED
        BY <3>1 DEF Built
    <2> QED
      BY <2>1, <2>2
  <1>4. V(c) = Visible(a[k + 1])
    BY <1>1, ObjectAt
  <1>5. Built(a, k + 1) = [q \in E |-> V(q)]
    BY DEF Built
  <1> HIDE DEF V, D, E, c
  <1>6. Extended(reply, c, Visible(a[k + 1])) = [q \in E |-> V(q)]
    BY <1>2, <1>3, <1>4 DEF Extended
  <1> QED
    BY <1>5, <1>6 DEF c

(***************************************************************************)
(* The task stack.                                                         *)
(***************************************************************************)

\* The stack on the way to the object at place p, whose type is read or not.
Stack(a, p, type) ==
    [i \in 1..(Len(p) + 1) |->
        [type |-> IF i <= Len(p) THEN "array" ELSE type,
         elements |-> IF i <= Len(p) THEN Width(a, SubSeq(p, 1, i - 1)) ELSE -1,
         idx |-> IF i = 1 THEN -1 ELSE p[i - 1]]]

IsStack(T, a, p, type) ==
    /\ T \in Seq({T[i] : i \in 1..(Len(p) + 1)})
    /\ Len(T) = Len(p) + 1 /\ T # <<>> /\ DOMAIN T = 1..(Len(p) + 1)
    /\ Last(T) = T[Len(p) + 1] /\ T[Len(p) + 1].type = type /\ T[Len(p) + 1].elements = -1
    /\ \A i \in 2..(Len(p) + 1) : T[i].idx = p[i - 1]
    /\ \A i \in 1..Len(p) : T[i].elements = Width(a, SubSeq(p, 1, i - 1))
    /\ Place(T) = p

LEMMA StackParts ==
    ASSUME NEW a, NEW p \in Seq(Nat), NEW type
    PROVE  IsStack(Stack(a, p, type), a, p, type)
  <1> DEFINE T == Stack(a, p, type)
             n == Len(p) + 1
             X == {T[i] : i \in 1..n}
  <1>1. Len(p) \in Nat /\ n \in Nat /\ n \in 1..n
    BY LenProperties
  <1>2. DOMAIN T = 1..n /\ T = [i \in 1..n |-> T[i]]
    BY DEF Stack
  <1>3. /\ T[n].type = type /\ T[n].elements = -1
        /\ \A i \in 2..n : T[i].idx = p[i - 1]
        /\ \A i \in 1..Len(p) : T[i].elements = Width(a, SubSeq(p, 1, i - 1))
    BY <1>1 DEF Stack
  <1> HIDE DEF T, n
  <1>4. T \in Seq(X) /\ Len(T) = n /\ T # <<>>
    <2>1. \A i \in 1..n : T[i] \in X
      OBVIOUS
    <2> HIDE DEF X
    <2>2. T \in [1..n -> X]
      BY <1>2, <2>1
    <2> QED
      BY <1>1, <2>2
  <1>5. Last(T) = T[n]
    BY <1>4 DEF Last
  <1>6. Place(T) = p
    <2>1. Place(T) = [i \in 1..(n - 1) |-> T[i + 1].idx]
      BY <1>4 DEF Place
    <2>2. \A i \in 1..Len(p) : T[i + 1].idx = p[i]
      <3> SUFFICES ASSUME NEW i \in 1..Len(p) PROVE T[i + 1].idx = p[i]
        OBVIOUS
      <3>1. i + 1 \in 2..n /\ (i + 1) - 1 = i
        BY <1>1 DEF n
      <3> QED
        BY <1>3, <3>1
    <2>3. n - 1 = Len(p) /\ p = [i \in 1..Len(p) |-> p[i]]
      BY <1>1 DEF n
    <2> QED
      BY <2>1, <2>2, <2>3
  <1> QED
    BY <1>2, <1>3, <1>4, <1>5, <1>6 DEF IsStack, T, n

Unfinished(T) == {i \in 2..Len(T) : T[i].idx # T[i - 1].elements - 1}

LEMMA UnfinishedTurns ==
    ASSUME NEW a, NEW p \in Seq(Nat), NEW type
    PROVE  \A i : i \in Unfinished(Stack(a, p, type)) <=> i - 1 \in 1..Len(p) /\ i \in Int /\ ~IsLast(a, p, i - 1)
  <1> DEFINE T == Stack(a, p, type)
  <1>1. /\ Len(T) = Len(p) + 1 /\ Len(p) \in Nat
        /\ \A i \in 2..(Len(p) + 1) : T[i].idx = p[i - 1]
        /\ \A i \in 1..Len(p) : T[i].elements = Width(a, SubSeq(p, 1, i - 1))
    <2>1. /\ Len(T) = Len(p) + 1
          /\ \A i \in 2..(Len(p) + 1) : T[i].idx = p[i - 1]
          /\ \A i \in 1..Len(p) : T[i].elements = Width(a, SubSeq(p, 1, i - 1))
      <3>1. IsStack(T, a, p, type)
        BY StackParts
      <3> HIDE DEF T
      <3> QED
        BY <3>1 DEF IsStack
    <2> QED
      BY <2>1, LenProperties
  <1> HIDE DEF T
  <1>2. ASSUME NEW i \in 2..Len(T)
        PROVE  /\ i - 1 \in 1..Len(p) /\ i \in Int
               /\ T[i].idx # T[i - 1].elements - 1 <=> ~IsLast(a, p, i - 1)
    <2>1. i \in 2..(Len(p) + 1) /\ i - 1 \in 1..Len(p)
      BY <1>1
    <2> QED
      BY <1>1, <2>1 DEF IsLast
  <1>3. ASSUME NEW i, i - 1 \in 1..Len(p), i \in Int PROVE i \in 2..Len(T)
    BY <1>1, <1>3
  <1> QED
    BY <1>2, <1>3 DEF Unfinished, T

\* When no array around p has a further element, the stack is empty afterwards.
LEMMA NoneUnfinished ==
    ASSUME NEW a, NEW p \in Seq(Nat), NEW type, Turns(a, p) = {}
    PROVE  Unfinished(Stack(a, p, type)) = {}
  <1> DEFINE R == {t \in 1..Len(p) : ~IsLast(a, p, t)}
  <1>1. Len(p) \in Nat
    BY LenProperties
  <1>2. R = {}
    <2> SUFFICES ASSUME R # {} PROVE FALSE
      OBVIOUS
    <2>1. IsFiniteSet(R) /\ R \subseteq Nat
      <3>1. IsFiniteSet(1..Len(p)) /\ R \subseteq 1..Len(p)
        BY <1>1, FS_Interval
      <3> QED
        BY <3>1, FS_Subset
    <2>2. PICK m \in R : \A n \in R : n <= m
      <3> HIDE DEF R
      <3> QED
        BY <2>1, GreatestNat
    <2>3. m \in Turns(a, p)
      <3>1. m \in 1..Len(p) /\ ~IsLast(a, p, m)
        BY <2>2
      <3>2. ASSUME NEW u \in (m + 1)..Len(p) PROVE IsLast(a, p, u)
        <4>1. u \in 1..Len(p) /\ ~(u <= m)
          BY <1>1, <3>1
        <4> QED
          BY <2>2, <4>1
      <3> QED
        BY <3>1, <3>2 DEF Turns
    <2> QED
      BY <2>3
  <1>3. ASSUME NEW i \in Unfinished(Stack(a, p, type)) PROVE FALSE
    <2>1. i - 1 \in 1..Len(p) /\ ~IsLast(a, p, i - 1)
      BY UnfinishedTurns
    <2> QED
      BY <1>2, <2>1
  <1> QED
    BY <1>3

LEMMA NextOfTask ==
    ASSUME NEW x, NEW y, NEW z
    PROVE  NextElement([type |-> x, elements |-> y, idx |-> z])
              = [type |-> "unread", elements |-> -1, idx |-> z + 1]
  BY DEF NextElement, RootTask

\* Otherwise the innermost of them goes on with it.
LEMMA StackTurns ==
    ASSUME NEW a, NEW p \in Seq(Nat), NEW type, NEW t \in Turns(a, p)
    PROVE  LET T == Stack(a, p, type)
           IN  /\ Unfinished(T) # {} /\ Max(Unfinished(T)) = t + 1
               /\ SubSeq(T, 1, t) \o <<NextElement(T[t + 1])>>
                     = Stack(a, Append(SubSeq(p, 1, t - 1), p[t] + 1), "unread")
  <1> DEFINE T == Stack(a, p, type)
             q == Append(SubSeq(p, 1, t - 1), p[t] + 1)
             X == {T[i] : i \in 1..(Len(p) + 1)}
             e == NextElement(T[t + 1])
             N == SubSeq(T, 1, t) \o <<e>>
  <1>1. /\ Len(p) \in Nat /\ t \in 1..Len(p) /\ t \in Nat /\ t - 1 \in 0..Len(p)
        /\ t + 1 \in 1..(Len(p) + 1) /\ (t + 1) - 1 = t
    BY LenProperties DEF Turns
  <1>2. t + 1 \in Unfinished(T) /\ \A i \in Unfinished(T) : i \in Int /\ i <= t + 1
    <2>1. t + 1 \in Unfinished(T)
      <3>1. ~IsLast(a, p, t)
        BY DEF Turns
      <3> HIDE DEF T
      <3> QED
        BY <1>1, <3>1, UnfinishedTurns DEF T
    <2>2. ASSUME NEW i \in Unfinished(T) PROVE i \in Int /\ i <= t + 1
      <3>1. i - 1 \in 1..Len(p) /\ i \in Int /\ ~IsLast(a, p, i - 1)
        BY UnfinishedTurns
      <3>2. ~(i - 1 \in (t + 1)..Len(p))
        BY <3>1 DEF Turns
      <3> QED
        BY <1>1, <3>1, <3>2
    <2> QED
      BY <2>1, <2>2
  <1>3. Max(Unfinished(T)) = t + 1
    <2> HIDE DEF T
    <2> DEFINE m == Max(Unfinished(T))
    <2>1. m \in Unfinished(T) /\ \A y \in Unfinished(T) : m >= y
      <3>1. \E x \in Unfinished(T) : \A y \in Unfinished(T) : x >= y
        BY <1>1, <1>2
      <3> QED
        BY <3>1 DEF Max
    <2> HIDE DEF m
    <2>2. m \in Int /\ m <= t + 1 /\ m >= t + 1
      BY <1>2, <2>1
    <2> QED
      BY <1>1, <2>2 DEF m
  <1>4. IsStack(T, a, p, type)
    BY StackParts
  <1>5. q \in Seq(Nat) /\ Len(q) = t /\ q[t] = p[t] + 1 /\ (\A i \in 1..(t - 1) : q[i] = p[i])
        /\ \A m \in 0..(t - 1) : SubSeq(q, 1, m) = SubSeq(p, 1, m)
    <2>1. p[t] + 1 \in Nat /\ (t - 1) + 1 = t
      BY <1>1, ElementOfSeq
    <2> QED
      BY <1>1, <2>1, PrefixOf
  <1> DEFINE Y == {N[i] : i \in 1..(t + 1)}
  <1>6. Len(SubSeq(T, 1, t)) = t /\ \A i \in 1..t : SubSeq(T, 1, t)[i] = T[i]
    <2> HIDE DEF T, X
    <2>1. T \in Seq(X) /\ t <= Len(T)
      BY <1>1, <1>4 DEF IsStack, X
    <2> QED
      BY <1>1, <2>1, PartOf
  <1>7. N = [i \in 1..(t + 1) |-> IF i = t + 1 THEN e ELSE T[i]]
    <2> HIDE DEF T, X, e
    <2>1. T \in Seq(X) /\ t <= Len(T)
      BY <1>1, <1>4 DEF IsStack, X
    <2> DEFINE s == SubSeq(T, 1, t)
               Z == X \cup {e}
    <2>2. s \in Seq(Z) /\ <<e>> \in Seq(Z) /\ Len(<<e>>) = 1 /\ <<e>>[1] = e
      <3>1. s \in Seq(X)
        BY <1>1, <2>1, PartOf
      <3>2. s \in Seq(Z)
        BY <3>1, SeqMonotonic
      <3> QED
        BY <3>2
    <2>3. Len(s) = t /\ \A i \in 1..t : s[i] = T[i]
      BY <1>6
    <2> HIDE DEF s, Z
    <2>4. /\ s \o <<e>> \in Seq(Z) /\ Len(s \o <<e>>) = t + 1
          /\ \A i \in 1..(t + 1) : (s \o <<e>>)[i] = IF i = t + 1 THEN e ELSE T[i]
      BY <1>1, <2>2, <2>3
    <2>5. s \o <<e>> = [i \in 1..(t + 1) |-> (s \o <<e>>)[i]]
      BY <2>4
    <2> QED
      BY <2>4, <2>5 DEF s
  <1>8. e = [type |-> "unread", elements |-> -1, idx |-> p[t] + 1]
    <2>1. T[t + 1] = [type |-> IF t + 1 <= Len(p) THEN "array" ELSE type,
                      elements |-> IF t + 1 <= Len(p) THEN Width(a, SubSeq(p, 1, (t + 1) - 1)) ELSE -1,
                      idx |-> IF t + 1 = 1 THEN -1 ELSE p[(t + 1) - 1]]
      BY <1>1 DEF Stack
    <2>2. t + 1 # 1
      BY <1>1
    <2> HIDE DEF T
    <2>3. PICK x, y : T[t + 1] = [type |-> x, elements |-> y, idx |-> p[t]]
      BY <1>1, <2>1, <2>2
    <2> QED
      BY <2>3, NextOfTask
  <1>9. \A i \in 1..(t + 1) : Stack(a, q, "unread")[i] = IF i = t + 1 THEN e ELSE T[i]
    <2> SUFFICES ASSUME NEW i \in 1..(t + 1)
                 PROVE  Stack(a, q, "unread")[i] = IF i = t + 1 THEN e ELSE T[i]
      OBVIOUS
    <2> HIDE DEF q, e
    <2>1. Stack(a, q, "unread")[i] =
             [type |-> IF i <= t THEN "array" ELSE "unread",
              elements |-> IF i <= t THEN Width(a, SubSeq(q, 1, i - 1)) ELSE -1,
              idx |-> IF i = 1 THEN -1 ELSE q[i - 1]]
      BY <1>5 DEF Stack
    <2>2. CASE i = t + 1
      <3>1. ~(i <= t) /\ i # 1 /\ q[i - 1] = p[t] + 1
        BY <1>1, <1>5, <2>2
      <3> QED
        BY <1>8, <2>1, <2>2, <3>1
    <2>3. CASE i # t + 1
      <3>1. i \in 1..t /\ i - 1 \in 0..(t - 1) /\ i \in 1..(Len(p) + 1) /\ i <= Len(p) /\ i <= t
        BY <1>1, <2>3
      <3>2. T[i] = [type |-> "array", elements |-> Width(a, SubSeq(p, 1, i - 1)),
                    idx |-> IF i = 1 THEN -1 ELSE p[i - 1]]
        BY <3>1 DEF Stack
      <3>3. SubSeq(q, 1, i - 1) = SubSeq(p, 1, i - 1)
        BY <1>5, <3>1
      <3>4. i # 1 => q[i - 1] = p[i - 1]
        <4>1. i # 1 => i - 1 \in 1..(t - 1)
          BY <1>1, <3>1
        <4> QED
          BY <1>5, <4>1
      <3> HIDE DEF T
      <3> QED
        BY <2>1, <2>3, <3>1, <3>2, <3>3, <3>4
    <2> QED
      BY <2>2, <2>3
  <1>10. Stack(a, q, "unread") = [i \in 1..(t + 1) |-> Stack(a, q, "unread")[i]]
    <2> HIDE DEF q
    <2> QED
      BY <1>5 DEF Stack
  <1>11. N = Stack(a, q, "unread")
    <2> HIDE DEF N, T, q, e
    <2> QED
      BY <1>7, <1>9, <1>10
  <1> QED
    BY <1>2, <1>3, <1>11
(***************************************************************************)
(* What each operation does to the fields of a reader.                     *)
(***************************************************************************)

IsRecord(r) == r = [buf |-> r.buf, pos |-> r.pos, task |-> r.task, reply |-> r.reply, err |-> r.err]

LEMMA FreshIs ==
    /\ IsRecord(Fresh)
    /\ \A r : SetError(r) = [buf |-> <<>>, pos |-> 0, task |-> <<>>, reply |-> NoReply, err |-> TRUE]
  <1>1. IsRecord(Fresh)
    BY DEF Fresh, IsRecord
  <1>2. ASSUME NEW r PROVE SetError(r) = [buf |-> <<>>, pos |-> 0, task |-> <<>>, reply |-> NoReply, err |-> TRUE]
    <2> DEFINE s == SetError(r)
    <2>1. s = [Fresh EXCEPT !.err = TRUE]
      BY DEF SetError
    <2> HIDE DEF s
    <2>2. DOMAIN s = {"buf", "pos", "task", "reply", "err"} /\ s.err = TRUE
      BY <2>1 DEF Fresh
    <2>3. s.buf = <<>> /\ s.pos = 0 /\ s.task = <<>> /\ s.reply = NoReply
      BY <2>1 DEF Fresh
    <2>4. s = [buf |-> s.buf, pos |-> s.pos, task |-> s.task, reply |-> s.reply, err |-> s.err]
      BY <2>1, <2>2
    <2> QED
      BY <2>2, <2>3, <2>4 DEF s
  <1> QED
    BY <1>1, <1>2

LEMMA ConsumeIs ==
    ASSUME NEW r, IsRecord(r), NEW n
    PROVE  Consume(r, n) = [buf |-> r.buf, pos |-> r.pos + n, task |-> r.task, reply |-> r.reply, err |-> r.err]
  BY DEF Consume, IsRecord

LEMMA CreateIs ==
    ASSUME NEW r, IsRecord(r), NEW type, NEW value
    PROVE  Create(r, type, value) =
              [buf |-> r.buf, pos |-> r.pos, task |-> r.task,
               reply |-> Extended(r.reply, Place(r.task), [type |-> type, value |-> value]),
               err |-> r.err]
  BY DEF Create, IsRecord, Extended

MovedTask(T) ==
    IF Unfinished(T) = {} THEN <<>>
    ELSE SubSeq(T, 1, Max(Unfinished(T)) - 1) \o <<NextElement(T[Max(Unfinished(T))])>>

LEMMA MoveIs ==
    ASSUME NEW r, IsRecord(r)
    PROVE  moveToNextTask(r) =
              [buf |-> r.buf, pos |-> r.pos, task |-> MovedTask(r.task), reply |-> r.reply, err |-> r.err]
  <1> DEFINE M == MovedTask(r.task)
  <1>1. moveToNextTask(r) = [r EXCEPT !.task = M]
    BY DEF moveToNextTask, MovedTask, Unfinished
  <1> HIDE DEF M
  <1> QED
    BY <1>1 DEF IsRecord, M

LEMMA TypedIs ==
    ASSUME NEW r, IsRecord(r), r.task # <<>>, Last(r.task).type = "unread", Rest(r) # <<>>,
           Rest(r)[1] \in DOMAIN TypeOf
    PROVE  Typed(r) =
              [buf |-> r.buf, pos |-> r.pos + 1,
               task |-> [r.task EXCEPT ![Len(r.task)] =
                            [r.task[Len(r.task)] EXCEPT !.type = TypeOf[Rest(r)[1]]]],
               reply |-> r.reply, err |-> r.err]
  <1> DEFINE s == [r EXCEPT !.task[Len(r.task)].type = TypeOf[Rest(r)[1]]]
  <1>1. s = [buf |-> r.buf, pos |-> r.pos,
             task |-> [r.task EXCEPT ![Len(r.task)] =
                          [r.task[Len(r.task)] EXCEPT !.type = TypeOf[Rest(r)[1]]]],
             reply |-> r.reply, err |-> r.err]
    <2> DEFINE T == [r.task EXCEPT ![Len(r.task)] =
                        [r.task[Len(r.task)] EXCEPT !.type = TypeOf[Rest(r)[1]]]]
    <2>1. s = [r EXCEPT !.task = T]
      BY DEF IsRecord
    <2> HIDE DEF s, T
    <2>2. s = [buf |-> r.buf, pos |-> r.pos, task |-> T, reply |-> r.reply, err |-> r.err]
      BY <2>1 DEF IsRecord
    <2> QED
      BY <2>2 DEF T
  <1>2. Typed(r) = Consume(s, 1)
    BY DEF Typed
  <1> HIDE DEF s
  <1>3. IsRecord(s)
    BY <1>1 DEF IsRecord
  <1> QED
    BY <1>1, <1>2, <1>3, ConsumeIs

LEMMA StartIs ==
    ASSUME NEW r, IsRecord(r)
    PROVE  StartReply(r) =
              [buf |-> r.buf, pos |-> r.pos,
               task |-> IF ~r.err /\ r.buf # <<>> /\ r.task = <<>> THEN <<RootTask>> ELSE r.task,
               reply |-> r.reply, err |-> r.err]
  BY DEF StartReply, IsRecord

LEMMA FeedIs ==
    ASSUME NEW r, IsRecord(r), ~r.err, NEW bytes
    PROVE  redisReaderFeed(r, bytes) =
              [buf |-> r.buf \o bytes, pos |-> r.pos, task |-> r.task, reply |-> r.reply, err |-> r.err]
  BY DEF redisReaderFeed, IsRecord

LEMMA KeptIs ==
    ASSUME NEW r, IsRecord(r)
    PROVE  Kept(r) =
              [buf |-> IF r.pos >= Discard THEN Rest(r) ELSE r.buf, pos |-> IF r.pos >= Discard THEN 0 ELSE r.pos,
               task |-> r.task, reply |-> r.reply, err |-> r.err]
  <1>1. CASE r.pos >= Discard
    <2> DEFINE s == Kept(r)
    <2>1. s = [r EXCEPT !.buf = Rest(r), !.pos = 0]
      BY <1>1 DEF Kept
    <2> HIDE DEF s
    <2>2. DOMAIN r = {"buf", "pos", "task", "reply", "err"}
      BY DEF IsRecord
    <2>3. DOMAIN s = {"buf", "pos", "task", "reply", "err"}
      BY <2>1, <2>2
    <2>4. s.buf = Rest(r) /\ s.pos = 0
      BY <2>1, <2>2
    <2>5. s.task = r.task /\ s.reply = r.reply /\ s.err = r.err
      BY <2>1, <2>2
    <2>6. s = [buf |-> s.buf, pos |-> s.pos, task |-> s.task, reply |-> s.reply, err |-> s.err]
      BY <2>1, <2>3
    <2> QED
      BY <1>1, <2>4, <2>5, <2>6 DEF s
  <1>2. CASE ~(r.pos >= Discard)
    BY <1>2 DEF Kept, IsRecord
  <1> QED
    BY <1>1, <1>2

LEMMA AfterIs ==
    ASSUME NEW r, IsRecord(r), ~r.err
    PROVE  AfterReply(r) =
              [buf |-> IF r.pos >= Discard THEN Rest(r) ELSE r.buf, pos |-> IF r.pos >= Discard THEN 0 ELSE r.pos,
               task |-> r.task, reply |-> IF r.task = <<>> THEN NoReply ELSE r.reply, err |-> r.err]
  <1> DEFINE s == Kept(r)
  <1>1. s = [buf |-> IF r.pos >= Discard THEN Rest(r) ELSE r.buf, pos |-> IF r.pos >= Discard THEN 0 ELSE r.pos,
             task |-> r.task, reply |-> r.reply, err |-> r.err]
    BY KeptIs
  <1>2. AfterReply(r) = IF r.task = <<>> THEN [s EXCEPT !.reply = NoReply] ELSE s
    BY DEF AfterReply
  <1> HIDE DEF s
  <1> QED
    BY <1>1, <1>2
(***************************************************************************)
(* Readers.                                                                *)
(***************************************************************************)

IsTask(T) == T = <<>> \/ \E a, type : \E p \in Seq(Nat) : T = Stack(a, p, type)

IsReader(r) ==
    /\ IsRecord(r)
    /\ r.buf \in Seq(Int) /\ r.pos \in 0..Len(r.buf) /\ r.err \in BOOLEAN
    /\ IsTask(r.task)

LEMMA RootIs ==
    ASSUME NEW a
    PROVE  <<RootTask>> = Stack(a, <<>>, "unread") /\ <<>> \in Seq(Nat) /\ Place(<<RootTask>>) = <<>>
  <1>1. <<RootTask>> = Stack(a, <<>>, "unread")
    BY DEF RootTask, Stack
  <1>2. <<>> \in Seq(Nat)
    OBVIOUS
  <1>3. Place(Stack(a, <<>>, "unread")) = <<>>
    <2> DEFINE T == Stack(a, <<>>, "unread")
    <2>1. IsStack(T, a, <<>>, "unread")
      BY <1>2, StackParts
    <2> HIDE DEF T
    <2> QED
      BY <2>1 DEF IsStack, T
  <1> QED
    BY <1>1, <1>2, <1>3

LEMMA RestOf ==
    ASSUME NEW s \in Seq(Int), NEW m \in 0..Len(s)
    PROVE  LET x == SubSeq(s, m + 1, Len(s))
           IN  /\ x \in Seq(Int) /\ Len(x) = Len(s) - m /\ \A i \in 1..Len(x) : x[i] = s[m + i]
  <1>1. Len(s) \in Nat /\ \A i \in 1..Len(s) : s[i] \in Int
    BY LenProperties, ElementOfSeq
  <1> QED
    BY <1>1, SubSeqProperties

LEMMA RestOfRest ==
    ASSUME NEW s \in Seq(Int), NEW m \in 0..Len(s), NEW n \in 0..(Len(s) - m)
    PROVE  LET x == SubSeq(s, m + 1, Len(s))
           IN  SubSeq(s, (m + n) + 1, Len(s)) = SubSeq(x, n + 1, Len(x))
  <1> DEFINE x == SubSeq(s, m + 1, Len(s))
             y == SubSeq(s, (m + n) + 1, Len(s))
             z == SubSeq(x, n + 1, Len(x))
  <1>1. Len(s) \in Nat
    BY LenProperties
  <1>2. x \in Seq(Int) /\ Len(x) = Len(s) - m /\ \A i \in 1..Len(x) : x[i] = s[m + i]
    BY RestOf
  <1>3. y \in Seq(Int) /\ Len(y) = Len(s) - (m + n) /\ \A i \in 1..Len(y) : y[i] = s[(m + n) + i]
    <2>1. m + n \in 0..Len(s)
      BY <1>1
    <2> QED
      BY <2>1, RestOf
  <1> HIDE DEF x
  <1>4. z \in Seq(Int) /\ Len(z) = Len(x) - n /\ \A i \in 1..Len(z) : z[i] = x[n + i]
    <2>1. n \in 0..Len(x)
      BY <1>2
    <2> QED
      BY <1>2, <2>1, RestOf
  <1> HIDE DEF y, z
  <1>5. Len(y) = Len(z)
    BY <1>1, <1>2, <1>3, <1>4
  <1>6. ASSUME NEW i \in 1..Len(y) PROVE y[i] = z[i]
    <2>1. i \in 1..Len(z) /\ n + i \in 1..Len(x) /\ m + (n + i) = (m + n) + i
      BY <1>1, <1>2, <1>4, <1>5
    <2>2. z[i] = x[n + i] /\ x[n + i] = s[m + (n + i)]
      BY <1>2, <1>4, <2>1
    <2> QED
      BY <1>3, <2>1, <2>2
  <1>7. y = z
    BY <1>3, <1>4, <1>5, <1>6, SeqEqual
  <1> QED
    BY <1>7 DEF x, y, z

LEMMA RestOfMore ==
    ASSUME NEW s \in Seq(Int), NEW m \in 0..Len(s), NEW t \in Seq(Int)
    PROVE  SubSeq(s \o t, m + 1, Len(s \o t)) = SubSeq(s, m + 1, Len(s)) \o t
  <1> DEFINE x == SubSeq(s, m + 1, Len(s))
             y == SubSeq(s \o t, m + 1, Len(s \o t))
  <1>1. Len(s) \in Nat /\ Len(t) \in Nat
    BY LenProperties
  <1>2. x \in Seq(Int) /\ Len(x) = Len(s) - m /\ \A i \in 1..Len(x) : x[i] = s[m + i]
    BY RestOf
  <1>3. /\ s \o t \in Seq(Int) /\ Len(s \o t) = Len(s) + Len(t)
        /\ \A i \in 1..(Len(s) + Len(t)) : (s \o t)[i] = IF i <= Len(s) THEN s[i] ELSE t[i - Len(s)]
    BY ConcatProperties
  <1>4. y \in Seq(Int) /\ Len(y) = Len(s) + Len(t) - m /\ \A i \in 1..Len(y) : y[i] = (s \o t)[m + i]
    <2>1. m \in 0..Len(s \o t)
      BY <1>1, <1>3
    <2> HIDE DEF x
    <2>2. y \in Seq(Int) /\ Len(y) = Len(s \o t) - m /\ \A i \in 1..Len(y) : y[i] = (s \o t)[m + i]
      BY <1>3, <2>1, RestOf
    <2> HIDE DEF y
    <2> QED
      BY <1>3, <2>2
  <1> HIDE DEF x, y
  <1>5. /\ x \o t \in Seq(Int) /\ Len(x \o t) = Len(x) + Len(t)
        /\ \A i \in 1..(Len(x) + Len(t)) : (x \o t)[i] = IF i <= Len(x) THEN x[i] ELSE t[i - Len(x)]
    BY <1>2, ConcatProperties
  <1>6. Len(y) = Len(x \o t) /\ Len(y) = Len(x) + Len(t)
    BY <1>1, <1>2, <1>4, <1>5
  <1>7. ASSUME NEW i \in 1..Len(y) PROVE y[i] = (x \o t)[i]
    <2>1. i \in 1..(Len(x) + Len(t)) /\ m + i \in 1..(Len(s) + Len(t))
      BY <1>1, <1>2, <1>6
    <2>2. y[i] = IF m + i <= Len(s) THEN s[m + i] ELSE t[(m + i) - Len(s)]
      BY <1>3, <1>4, <2>1
    <2>3. (x \o t)[i] = IF i <= Len(x) THEN x[i] ELSE t[i - Len(x)]
      BY <1>5, <2>1
    <2>4. CASE i <= Len(x)
      <3>1. i \in 1..Len(x) /\ m + i <= Len(s)
        BY <1>1, <1>2, <2>4
      <3> QED
        BY <1>2, <2>2, <2>3, <2>4, <3>1
    <2>5. CASE ~(i <= Len(x))
      <3>1. ~(m + i <= Len(s)) /\ (m + i) - Len(s) = i - Len(x)
        BY <1>1, <1>2, <2>5
      <3> QED
        BY <2>2, <2>3, <2>5, <3>1
    <2> QED
      BY <2>4, <2>5
  <1>8. y = x \o t
    BY <1>4, <1>5, <1>6, <1>7, SeqEqual
  <1> QED
    BY <1>8 DEF x, y

LEMMA ReaderParts ==
    ASSUME NEW r, IsReader(r)
    PROVE  Rest(r) \in Seq(Int) /\ Len(Rest(r)) = Len(r.buf) - r.pos /\ Len(Rest(r)) \in Nat
  <1>1. Rest(r) \in Seq(Int) /\ Len(Rest(r)) = Len(r.buf) - r.pos
    BY RestOf DEF Rest, IsReader
  <1> QED
    BY <1>1, LenProperties

\* A reader that took the first n of its bytes.
LEMMA Consumed ==
    ASSUME NEW r, IsReader(r), NEW n \in 0..Len(Rest(r)), NEW s, IsRecord(s),
           s.buf = r.buf, s.pos = r.pos + n, s.err = FALSE, IsTask(s.task)
    PROVE  IsReader(s) /\ Rest(s) = SubSeq(Rest(r), n + 1, Len(Rest(r)))
  <1>1. r.buf \in Seq(Int) /\ r.pos \in 0..Len(r.buf) /\ Len(r.buf) \in Nat
    BY LenProperties DEF IsReader
  <1>2. n \in 0..(Len(r.buf) - r.pos) /\ r.pos + n \in 0..Len(r.buf)
    BY <1>1, ReaderParts
  <1>3. Rest(s) = SubSeq(Rest(r), n + 1, Len(Rest(r)))
    BY <1>1, <1>2, RestOfRest DEF Rest
  <1> QED
    BY <1>1, <1>2, <1>3 DEF IsReader
\* The type byte goes from the bytes into the task.
LEMMA StackTyped ==
    ASSUME NEW a, NEW p \in Seq(Nat), NEW type
    PROVE  LET T == Stack(a, p, "unread")
           IN  [T EXCEPT ![Len(T)] = [T[Len(T)] EXCEPT !.type = type]] = Stack(a, p, type)
  <1> DEFINE T == Stack(a, p, "unread")
             U == Stack(a, p, type)
             n == Len(p) + 1
             e == [T[n] EXCEPT !.type = type]
  <1>1. Len(p) \in Nat /\ n \in Nat /\ n \in 1..n /\ ~(n <= Len(p))
    BY LenProperties
  <1>2. Len(T) = n
    <2>1. IsStack(T, a, p, "unread")
      BY StackParts
    <2> HIDE DEF T
    <2> QED
      BY <2>1 DEF IsStack
  <1>3. DOMAIN T = 1..n /\ DOMAIN U = 1..n /\ T = [i \in 1..n |-> T[i]] /\ U = [i \in 1..n |-> U[i]]
    BY DEF Stack
  <1>4. e = U[n]
    <2>1. /\ T[n] = [type |-> "unread", elements |-> -1, idx |-> IF n = 1 THEN -1 ELSE p[n - 1]]
          /\ U[n] = [type |-> type, elements |-> -1, idx |-> IF n = 1 THEN -1 ELSE p[n - 1]]
      BY <1>1 DEF Stack
    <2> HIDE DEF T, U, n
    <2> QED
      BY <2>1
  <1>5. \A i \in 1..n : i # n => T[i] = U[i]
    <2> SUFFICES ASSUME NEW i \in 1..n, i # n PROVE T[i] = U[i]
      OBVIOUS
    <2>1. i <= Len(p)
      BY <1>1
    <2> QED
      BY <2>1 DEF Stack
  <1> HIDE DEF T, U, e, n
  <1>6. [T EXCEPT ![n] = e] = U
    BY <1>1, <1>3, <1>4, <1>5
  <1> QED
    BY <1>2, <1>6 DEF T, U, e

LEMMA TypedStep ==
    ASSUME NEW r, IsReader(r), ~r.err, NEW a, NEW p \in Seq(Nat), r.task = Stack(a, p, "unread"),
           NEW b \in DOMAIN TypeOf, NEW u \in Seq(Int), Rest(r) = <<b>> \o u
    PROVE  LET t == Typed(r)
           IN  /\ IsReader(t) /\ ~t.err
               /\ t.task = Stack(a, p, TypeOf[b]) /\ Rest(t) = u /\ t.reply = r.reply
  <1> DEFINE T == Stack(a, p, "unread")
             t == Typed(r)
  <1>1. b \in Int
    BY TypeBytes
  <1>2. Rest(r) # <<>> /\ Rest(r)[1] = b /\ Len(Rest(r)) = Len(u) + 1 /\ Len(u) \in Nat
        /\ SubSeq(Rest(r), 2, Len(Rest(r))) = u
    <2>1. <<b>> \in Seq(Int) /\ Len(<<b>>) = 1 /\ <<b>>[1] = b
      BY <1>1
    <2>2. /\ <<b>> \o u \in Seq(Int) /\ Len(<<b>> \o u) = 1 + Len(u) /\ Len(u) \in Nat
          /\ \A i \in 1..(1 + Len(u)) : (<<b>> \o u)[i] = IF i <= 1 THEN b ELSE u[i - 1]
      BY <2>1, ConcatProperties, LenProperties
    <2> DEFINE x == <<b>> \o u
               y == SubSeq(x, 1 + 1, Len(x))
    <2>3. y \in Seq(Int) /\ Len(y) = Len(x) - 1 /\ \A i \in 1..Len(y) : y[i] = x[1 + i]
      <3>1. x \in Seq(Int) /\ 1 \in 0..Len(x)
        BY <2>2
      <3> HIDE DEF x
      <3> QED
        BY <3>1, RestOf
    <2> HIDE DEF y
    <2>4. y = u
      <3>1. Len(y) = Len(u)
        BY <2>2, <2>3
      <3>2. ASSUME NEW i \in 1..Len(y) PROVE y[i] = u[i]
        <4>1. 1 + i \in 1..(1 + Len(u)) /\ ~(1 + i <= 1) /\ (1 + i) - 1 = i
          BY <2>2, <3>1
        <4> QED
          BY <2>2, <2>3, <4>1
      <3> QED
        BY <2>3, <3>1, <3>2, SeqEqual
    <2>5. x # <<>> /\ x[1] = b /\ 1 + 1 = 2 /\ Len(x) = Len(u) + 1
      BY <2>2
    <2> QED
      BY <2>2, <2>4, <2>5 DEF y
  <1>3. IsStack(T, a, p, "unread")
    BY StackParts
  <1> HIDE DEF T
  <1>4. r.task # <<>> /\ Last(r.task).type = "unread"
    BY <1>3 DEF IsStack, T
  <1>5. t = [buf |-> r.buf, pos |-> r.pos + 1,
             task |-> [r.task EXCEPT ![Len(r.task)] = [r.task[Len(r.task)] EXCEPT !.type = TypeOf[b]]],
             reply |-> r.reply, err |-> r.err]
    BY <1>2, <1>4, TypedIs DEF IsReader
  <1> DEFINE N == [r.task EXCEPT ![Len(r.task)] = [r.task[Len(r.task)] EXCEPT !.type = TypeOf[b]]]
  <1>6. N = Stack(a, p, TypeOf[b])
    BY StackTyped
  <1> HIDE DEF N, t
  <1>7. /\ IsRecord(t) /\ t.buf = r.buf /\ t.pos = r.pos + 1 /\ t.task = N /\ t.reply = r.reply
        /\ t.err = r.err
    BY <1>5 DEF IsRecord, N
  <1>8. IsReader(t) /\ Rest(t) = u
    <2>1. t.err = FALSE
      BY <1>7 DEF IsReader
    <2>2. 1 \in 0..Len(Rest(r)) /\ 1 + 1 = 2
      BY <1>2
    <2>3. IsTask(t.task)
      BY <1>6, <1>7 DEF IsTask
    <2> QED
      BY <1>2, <1>7, <2>1, <2>2, <2>3, Consumed
  <1> QED
    BY <1>6, <1>7, <1>8 DEF t

\* The stack behind an object that is no array with elements.
LEMMA MovedStack ==
    ASSUME NEW a, WellFormed(a), NEW k \in 1..Len(a), ~Opens(a[k]), NEW type
    PROVE  LET p == a[k].place
               T == Stack(a, p, type)
           IN  IF NextPlaces(a, k) = {} THEN MovedTask(T) = <<>>
               ELSE \E q \in NextPlaces(a, k) : MovedTask(T) = Stack(a, q, "unread")
  <1> DEFINE p == a[k].place
             T == Stack(a, p, type)
             Q(t) == Append(SubSeq(p, 1, t - 1), p[t] + 1)
  <1>1. p \in Seq(Nat)
    BY WellFormedParts DEF Sound, Object
  <1>2. NextPlaces(a, k) = {Q(t) : t \in Turns(a, p)}
    <2>1. k # 0
      BY WellFormedParts
    <2> QED
      BY <2>1 DEF NextPlaces, Turns
  <1>3. CASE Turns(a, p) = {}
    <2>1. Unfinished(T) = {}
      BY <1>1, <1>3, NoneUnfinished
    <2>2. NextPlaces(a, k) = {}
      BY <1>2, <1>3
    <2> QED
      BY <2>1, <2>2 DEF MovedTask
  <1>4. CASE Turns(a, p) # {}
    <2>1. PICK t \in Turns(a, p) : TRUE
      BY <1>4
    <2>2. /\ Unfinished(T) # {} /\ Max(Unfinished(T)) = t + 1
          /\ SubSeq(T, 1, t) \o <<NextElement(T[t + 1])>> = Stack(a, Q(t), "unread")
      <3> HIDE DEF p
      <3> QED
        BY <1>1, <2>1, StackTurns, ZenonT(60)
    <2>3. (t + 1) - 1 = t
      BY <2>1 DEF Turns
    <2> HIDE DEF T, Q
    <2>4. MovedTask(T) = Stack(a, Q(t), "unread")
      BY <2>2, <2>3 DEF MovedTask
    <2>5. Q(t) \in NextPlaces(a, k)
      BY <1>2, <2>1
    <2> QED
      BY <2>4, <2>5 DEF T
  <1> QED
    BY <1>3, <1>4
\* s is what the reader r becomes when it has made the k-th object of a from its first n bytes.
Advanced(s, r, n, a, k) ==
    /\ IsReader(s) /\ ~s.err
    /\ Rest(s) = SubSeq(Rest(r), n + 1, Len(Rest(r)))
    /\ s.reply = Built(a, k)
    /\ IF NextPlaces(a, k) = {} THEN s.task = <<>>
       ELSE \E q \in NextPlaces(a, k) : s.task = Stack(a, q, "unread")

Reply(a, k) == IF k = 0 THEN NoReply ELSE Built(a, k)

LEMMA CreatedIs ==
    ASSUME NEW a, WellFormed(a), NEW k \in 0..(Len(a) - 1), NEW ty,
           NEW r, IsReader(r), ~r.err, r.reply = Reply(a, k), r.task = Stack(a, a[k + 1].place, ty),
           NEW n, NEW type, NEW value, [type |-> type, value |-> value] = Visible(a[k + 1])
    PROVE  Create(Consume(r, n), type, value) =
              [buf |-> r.buf, pos |-> r.pos + n, task |-> r.task, reply |-> Built(a, k + 1), err |-> FALSE]
  <1> DEFINE c == Consume(r, n)
             p == a[k + 1].place
             T == Stack(a, p, ty)
  <1>1. c = [buf |-> r.buf, pos |-> r.pos + n, task |-> r.task, reply |-> r.reply, err |-> r.err]
    BY ConsumeIs DEF IsReader
  <1>2. Place(T) = p
    <2>1. p \in Seq(Nat)
      <3>1. k + 1 \in 1..Len(a)
        BY WellFormedParts
      <3> QED
        BY <3>1, WellFormedParts DEF Sound, Object
    <2>2. IsStack(T, a, p, ty)
      <3> HIDE DEF p
      <3> QED
        BY <2>1, StackParts
    <2> HIDE DEF T
    <2> QED
      BY <2>2 DEF IsStack
  <1> HIDE DEF c, T
  <1>3. c.task = T /\ c.reply = r.reply /\ IsRecord(c) /\ c.err = FALSE
        /\ c.buf = r.buf /\ c.pos = r.pos + n
    BY <1>1 DEF IsRecord, T, IsReader
  <1>4. Extended(r.reply, p, Visible(a[k + 1])) = Built(a, k + 1)
    <2>1. r.reply = IF k = 0 THEN NoReply ELSE Built(a, k)
      BY DEF Reply
    <2> QED
      BY <2>1, BuiltMore
  <1> HIDE DEF p
  <1>5. Create(c, type, value) =
           [buf |-> c.buf, pos |-> c.pos, task |-> c.task,
            reply |-> Extended(c.reply, p, [type |-> type, value |-> value]),
            err |-> c.err]
    <2>1. Place(c.task) = p
      BY <1>2, <1>3
    <2>2. Create(c, type, value) =
             [buf |-> c.buf, pos |-> c.pos, task |-> c.task,
              reply |-> Extended(c.reply, Place(c.task), [type |-> type, value |-> value]),
              err |-> c.err]
      BY <1>3, CreateIs
    <2> QED
      BY <2>1, <2>2
  <1> QED
    BY <1>3, <1>4, <1>5 DEF T, p, c

LEMMA MadeStep ==
    ASSUME NEW a, WellFormed(a), NEW k \in 0..(Len(a) - 1), NEW ty, ~Opens(a[k + 1]),
           NEW r, IsReader(r), ~r.err, r.reply = Reply(a, k), r.task = Stack(a, a[k + 1].place, ty),
           NEW n \in 0..Len(Rest(r)),
           NEW type, NEW value, [type |-> type, value |-> value] = Visible(a[k + 1])
    PROVE  Advanced(Made(r, n, type, value), r, n, a, k + 1)
  <1> DEFINE c == Create(Consume(r, n), type, value)
             s == Made(r, n, type, value)
  <1>1. c = [buf |-> r.buf, pos |-> r.pos + n, task |-> r.task, reply |-> Built(a, k + 1), err |-> FALSE]
    BY CreatedIs, ZenonT(60)
  <1>2. s = moveToNextTask(c)
    BY DEF Made
  <1> HIDE DEF c, s
  <1>3. s = [buf |-> r.buf, pos |-> r.pos + n, task |-> MovedTask(r.task), reply |-> Built(a, k + 1), err |-> FALSE]
    <2>1. IsRecord(c)
      BY <1>1 DEF IsRecord
    <2>2. c.buf = r.buf /\ c.pos = r.pos + n /\ c.task = r.task /\ c.reply = Built(a, k + 1) /\ c.err = FALSE
      BY <1>1
    <2>3. s = [buf |-> c.buf, pos |-> c.pos, task |-> MovedTask(c.task), reply |-> c.reply, err |-> c.err]
      BY <1>2, <2>1, MoveIs
    <2> QED
      BY <2>2, <2>3
  <1>4. IF NextPlaces(a, k + 1) = {} THEN MovedTask(r.task) = <<>>
        ELSE \E q \in NextPlaces(a, k + 1) : MovedTask(r.task) = Stack(a, q, "unread")
    <2>1. k + 1 \in 1..Len(a)
      BY WellFormedParts
    <2> QED
      BY <2>1, MovedStack
  <1>5. IsTask(MovedTask(r.task))
    <2>1. CASE NextPlaces(a, k + 1) = {}
      BY <1>4, <2>1 DEF IsTask
    <2>2. CASE NextPlaces(a, k + 1) # {}
      <3>1. PICK q \in NextPlaces(a, k + 1) : MovedTask(r.task) = Stack(a, q, "unread")
        BY <1>4, <2>2
      <3>2. q \in Seq(Nat)
        <4>1. k + 1 \in 0..Len(a)
          BY WellFormedParts
        <4> QED
          BY <4>1, NextIsPlace
      <3> QED
        BY <3>1, <3>2 DEF IsTask
    <2> QED
      BY <2>1, <2>2
  <1> DEFINE M == MovedTask(r.task)
  <1> HIDE DEF M
  <1>6. IsRecord(s) /\ s.buf = r.buf /\ s.pos = r.pos + n /\ s.err = FALSE /\ s.task = M
        /\ s.reply = Built(a, k + 1)
    BY <1>3 DEF IsRecord, M
  <1>7. IsReader(s) /\ Rest(s) = SubSeq(Rest(r), n + 1, Len(Rest(r)))
    BY <1>5, <1>6, Consumed DEF M
  <1> QED
    BY <1>4, <1>6, <1>7 DEF Advanced, s, M

\* The stack behind an array with elements.
LEMMA OpenedStack ==
    ASSUME NEW a, WellFormed(a), NEW k \in 1..Len(a), Opens(a[k])
    PROVE  LET p == a[k].place
               T == Stack(a, p, "array")
           IN  /\ Front(T) \o <<[Last(T) EXCEPT !.elements = a[k].value[1]], ElementTask>>
                     = Stack(a, Append(p, 0), "unread")
               /\ NextPlaces(a, k) = {Append(p, 0)}
  <1> DEFINE p == a[k].place
             q == Append(p, 0)
             T == Stack(a, p, "array")
             n == Len(p) + 1
             e == [Last(T) EXCEPT !.elements = a[k].value[1]]
             N == Front(T) \o <<e, ElementTask>>
             U == Stack(a, q, "unread")
  <1>1. p \in Seq(Nat)
    BY WellFormedParts DEF Sound, Object
  <1>2. Width(a, p) = a[k].value[1]
    BY ObjectAt DEF Width
  <1>3. NextPlaces(a, k) = {q}
    <2>1. k # 0
      BY WellFormedParts
    <2> QED
      BY <2>1 DEF NextPlaces
  <1> HIDE DEF p
  <1>4. Len(p) \in Nat /\ n \in Nat /\ n \in 1..n /\ n - 1 = Len(p)
    BY <1>1, LenProperties
  <1>5. q \in Seq(Nat) /\ Len(q) = n /\ q[n] = 0 /\ \A i \in 1..Len(p) : q[i] = p[i]
    BY <1>1, AppendProperties
  <1>6. \A m \in 0..Len(p) : SubSeq(q, 1, m) = SubSeq(p, 1, m)
    <2> SUFFICES ASSUME NEW m \in 0..Len(p) PROVE SubSeq(q, 1, m) = SubSeq(p, 1, m)
      OBVIOUS
    <2> HIDE DEF q, n
    <2>1. m \in Nat /\ m <= Len(p) /\ m <= Len(q) /\ \A i \in 1..m : i \in 1..Len(p)
      BY <1>4, <1>5 DEF n
    <2>2. /\ SubSeq(p, 1, m) \in Seq(Nat) /\ Len(SubSeq(p, 1, m)) = m
          /\ \A i \in 1..m : SubSeq(p, 1, m)[i] = p[i]
      BY <1>1, <2>1, PartOf
    <2>3. /\ SubSeq(q, 1, m) \in Seq(Nat) /\ Len(SubSeq(q, 1, m)) = m
          /\ \A i \in 1..m : SubSeq(q, 1, m)[i] = q[i]
      BY <1>5, <2>1, PartOf
    <2>4. \A i \in 1..m : SubSeq(p, 1, m)[i] = SubSeq(q, 1, m)[i]
      BY <1>5, <2>1, <2>2, <2>3
    <2> QED
      BY <2>2, <2>3, <2>4, SeqEqual
  <1>7. SubSeq(p, 1, Len(p)) = p
    <2>1. /\ SubSeq(p, 1, Len(p)) \in Seq(Nat) /\ Len(SubSeq(p, 1, Len(p))) = Len(p)
          /\ \A i \in 1..Len(p) : SubSeq(p, 1, Len(p))[i] = p[i]
      BY <1>1, <1>4, PartOf
    <2> QED
      BY <1>1, <2>1, SeqEqual
  <1>8. IsStack(T, a, p, "array")
    BY <1>1, StackParts
  <1>9. /\ T[n] = [type |-> "array", elements |-> -1, idx |-> IF n = 1 THEN -1 ELSE p[n - 1]]
        /\ U[n] = [type |-> "array", elements |-> Width(a, SubSeq(q, 1, Len(p))),
                   idx |-> IF n = 1 THEN -1 ELSE q[n - 1]]
        /\ U[n + 1] = [type |-> "unread", elements |-> -1, idx |-> IF n + 1 = 1 THEN -1 ELSE q[(n + 1) - 1]]
    <2>1. ~(n <= Len(p)) /\ n <= Len(q) /\ ~(n + 1 <= Len(q)) /\ n \in 1..(Len(q) + 1) /\ n + 1 \in 1..(Len(q) + 1)
          /\ n \in 1..(Len(p) + 1)
      BY <1>4, <1>5
    <2> HIDE DEF q, n
    <2>2. T[n] = [type |-> "array", elements |-> -1, idx |-> IF n = 1 THEN -1 ELSE p[n - 1]]
      BY <2>1 DEF Stack
    <2>3. U[n] = [type |-> "array", elements |-> Width(a, SubSeq(q, 1, n - 1)),
                   idx |-> IF n = 1 THEN -1 ELSE q[n - 1]]
      BY <2>1 DEF Stack
    <2>4. U[n + 1] = [type |-> "unread", elements |-> -1, idx |-> IF n + 1 = 1 THEN -1 ELSE q[(n + 1) - 1]]
      BY <2>1 DEF Stack
    <2> QED
      BY <1>4, <2>2, <2>3, <2>4
  <1>10. \A i \in 1..Len(p) : T[i] = U[i]
    <2> SUFFICES ASSUME NEW i \in 1..Len(p) PROVE T[i] = U[i]
      OBVIOUS
    <2>1. i <= Len(p) /\ i <= Len(q) /\ i \in 1..(Len(p) + 1) /\ i \in 1..(Len(q) + 1) /\ i - 1 \in 0..Len(p)
          /\ (i # 1 => i - 1 \in 1..Len(p))
      BY <1>4, <1>5
    <2>2. SubSeq(q, 1, i - 1) = SubSeq(p, 1, i - 1) /\ (i # 1 => q[i - 1] = p[i - 1])
      BY <1>5, <1>6, <2>1
    <2> HIDE DEF q
    <2> QED
      BY <2>1, <2>2 DEF Stack
  <1>11. ElementTask = [type |-> "unread", elements |-> -1, idx |-> 0]
    BY DEF ElementTask, RootTask
  <1>12. U = [i \in 1..(n + 1) |-> U[i]]
    <2> HIDE DEF q
    <2> QED
      BY <1>5 DEF Stack
  <1> HIDE DEF T, U, q, n
  <1>13. e = U[n]
    <2>1. Last(T) = T[n]
      BY <1>8 DEF IsStack, n
    <2>2. e = [type |-> "array", elements |-> a[k].value[1], idx |-> IF n = 1 THEN -1 ELSE p[n - 1]]
      BY <1>9, <2>1
    <2>3. n # 1 => q[n - 1] = p[n - 1]
      BY <1>4, <1>5
    <2>4. SubSeq(q, 1, Len(p)) = p
      BY <1>4, <1>6, <1>7
    <2> HIDE DEF e
    <2> QED
      BY <1>2, <1>9, <2>2, <2>3, <2>4
  <1>14. ElementTask = U[n + 1]
    BY <1>4, <1>5, <1>9, <1>11
  <1>15. N = [i \in 1..(n + 1) |-> IF i = n + 1 THEN ElementTask ELSE IF i = n THEN e ELSE T[i]]
    <2> HIDE DEF e
    <2> DEFINE X == {T[i] : i \in 1..(Len(p) + 1)}
               F == Front(T)
               Z == X \cup {e, ElementTask}
               tl == <<e, ElementTask>>
    <2>1. T \in Seq(X) /\ Len(T) = n
      BY <1>8 DEF IsStack, n
    <2> HIDE DEF X
    <2>2. F \in Seq(X) /\ Len(F) = Len(p) /\ \A i \in 1..Len(p) : F[i] = T[i]
      BY <1>4, <2>1 DEF Front
    <2>3. F \in Seq(Z)
      BY <2>2, SeqMonotonic
    <2>4. tl \in Seq(Z) /\ Len(tl) = 2 /\ tl[1] = e /\ tl[2] = ElementTask
      OBVIOUS
    <2>5. N = F \o tl
      OBVIOUS
    <2> HIDE DEF F, Z, tl, N
    <2>6. /\ N \in Seq(Z) /\ Len(N) = Len(p) + 2
          /\ \A i \in 1..(Len(p) + 2) : N[i] = IF i <= Len(p) THEN F[i] ELSE tl[i - Len(p)]
      <3>1. /\ F \o tl \in Seq(Z) /\ Len(F \o tl) = Len(F) + Len(tl)
            /\ \A i \in 1..(Len(F) + Len(tl)) : (F \o tl)[i] = IF i <= Len(F) THEN F[i] ELSE tl[i - Len(F)]
        BY <2>3, <2>4, ConcatProperties
      <3> QED
        BY <2>2, <2>4, <2>5, <3>1
    <2>7. \A i \in 1..(n + 1) : N[i] = IF i = n + 1 THEN ElementTask ELSE IF i = n THEN e ELSE T[i]
      <3> SUFFICES ASSUME NEW i \in 1..(n + 1)
                   PROVE  N[i] = IF i = n + 1 THEN ElementTask ELSE IF i = n THEN e ELSE T[i]
        OBVIOUS
      <3>1. i \in 1..(Len(p) + 2) /\ n = Len(p) + 1
        BY <1>4 DEF n
      <3>2. CASE i <= Len(p)
        <4>1. i \in 1..Len(p) /\ i # n + 1 /\ i # n
          BY <1>4, <3>1, <3>2
        <4> QED
          BY <2>2, <2>6, <3>1, <3>2, <4>1
      <3>3. CASE ~(i <= Len(p))
        <4>1. (i = n /\ i - Len(p) = 1) \/ (i = n + 1 /\ i - Len(p) = 2 /\ i # n)
          BY <1>4, <3>1, <3>3
        <4> QED
          BY <1>4, <2>4, <2>6, <3>1, <3>3, <4>1
      <3> QED
        BY <3>2, <3>3
    <2>8. N = [i \in 1..(n + 1) |-> N[i]]
      BY <1>4, <2>6 DEF n
    <2> QED
      BY <2>7, <2>8
  <1>16. N = U
    <2> HIDE DEF N, e
    <2>1. \A i \in 1..(n + 1) : U[i] = IF i = n + 1 THEN ElementTask ELSE IF i = n THEN e ELSE T[i]
      <3> SUFFICES ASSUME NEW i \in 1..(n + 1)
                   PROVE  U[i] = IF i = n + 1 THEN ElementTask ELSE IF i = n THEN e ELSE T[i]
        OBVIOUS
      <3>1. i = n + 1 \/ (i = n /\ i # n + 1) \/ (i \in 1..Len(p) /\ i # n /\ i # n + 1)
        BY <1>4 DEF n
      <3> QED
        BY <1>10, <1>13, <1>14, <3>1
    <2> QED
      BY <1>12, <1>15, <2>1
  <1> QED
    BY <1>3, <1>16 DEF N, T, U, e, q, p
LEMMA TopOfStack ==
    ASSUME NEW a, NEW p \in Seq(Nat), NEW type
    PROVE  LET T == Stack(a, p, type) IN T # <<>> /\ Last(T).type = type
  <1> DEFINE T == Stack(a, p, type)
  <1>1. IsStack(T, a, p, type)
    BY StackParts
  <1> HIDE DEF T
  <1> QED
    BY <1>1 DEF IsStack, T

LEMMA ItsPlace ==
    ASSUME NEW a, WellFormed(a), NEW k \in 0..(Len(a) - 1)
    PROVE  k + 1 \in 1..Len(a) /\ Sound(a[k + 1]) /\ a[k + 1].place \in Seq(Nat)
           /\ a[k + 1].place \in NextPlaces(a, k) /\ k \in 0..Len(a)
  <1>1. k + 1 \in 1..Len(a) /\ (k + 1) - 1 = k /\ k \in 0..Len(a)
    BY WellFormedParts
  <1> QED
    BY <1>1, WellFormedParts DEF Sound, Object

\* A line object: an integer, a status or an error.
LEMMA LineItem ==
    ASSUME NEW a, WellFormed(a), NEW k \in 0..(Len(a) - 1),
           a[k + 1].type \in {"integer", "status", "error"},
           NEW r, IsReader(r), ~r.err, r.reply = Reply(a, k),
           r.task = Stack(a, a[k + 1].place, a[k + 1].type),
           Len(Line(a[k + 1])) + 2 \in 0..Len(Rest(r))
    PROVE  Advanced(processLineItem(r, Line(a[k + 1])), r, Len(Line(a[k + 1])) + 2, a, k + 1)
  <1> DEFINE o == a[k + 1]
             line == Line(o)
             n == Len(line) + 2
  <1>1. Sound(o) /\ o.place \in Seq(Nat) /\ o.value \in Seq(Int)
    BY ItsPlace DEF Sound, Object
  <1> HIDE DEF o
  <1>2. Last(r.task).type = o.type
    BY <1>1, TopOfStack DEF o
  <1>3. ~Opens(o) /\ Visible(o) = [type |-> o.type, value |-> o.value]
    BY DEF Opens, Visible, o
  <1>4. CASE o.type = "integer"
    <2>1. line = Decimal(o.value[1]) /\ o.value[1] \in Int /\ o.value = <<o.value[1]>>
      <3>1. Len(o.value) = 1
        BY <1>1, <1>4 DEF Sound
      <3>2. o.value[1] \in Int /\ o.value = <<o.value[1]>>
        BY <1>1, <3>1
      <3> QED
        BY <1>4, <3>2 DEF Line
    <2>2. IsNumber(line) /\ string2ll(line) = o.value[1]
      BY <2>1, DecimalRead
    <2> HIDE DEF line
    <2>3. processLineItem(r, line) = Made(r, n, o.type, o.value)
      BY <1>2, <1>4, <2>1, <2>2 DEF processLineItem
    <2>4. Advanced(Made(r, n, o.type, o.value), r, n, a, k + 1)
      BY <1>3, MadeStep DEF o, line
    <2> QED
      BY <2>3, <2>4 DEF line, o
  <1>5. CASE o.type # "integer"
    <2>1. o.type \in {"status", "error"}
      BY <1>5 DEF o
    <2>2. line = o.value /\ DOMAIN o.value = 1..Len(o.value)
      BY <1>1, <2>1 DEF Line
    <2>3. \A i \in DOMAIN line : line[i] \notin {13, 10}
      <3>1. ToSet(CRLF) = {13, 10}
        BY DEF ToSet, CRLF
      <3>2. \A i \in DOMAIN o.value : o.value[i] \in ToSet(o.value)
        BY DEF ToSet
      <3> QED
        BY <1>1, <2>1, <2>2, <3>1, <3>2 DEF Sound
    <2> HIDE DEF line
    <2>4. processLineItem(r, line) = Made(r, n, o.type, o.value)
      BY <1>2, <1>5, <2>2, <2>3 DEF processLineItem
    <2>5. Advanced(Made(r, n, o.type, o.value), r, n, a, k + 1)
      BY <1>3, MadeStep DEF o, line
    <2> QED
      BY <2>4, <2>5 DEF line, o
  <1> QED
    BY <1>4, <1>5

Begins(s, h) == Len(h) <= Len(s) /\ \A i \in 1..Len(h) : s[i] = h[i]

\* The text of a bulk string behind its line.
LEMMA BulkText ==
    ASSUME NEW line \in Seq(Int), NEW v \in Seq(Int), NEW R \in Seq(Int), NEW h,
           h = (line \o CRLF) \o (v \o CRLF), Begins(R, h)
    PROVE  /\ Len(h) = Len(line) + 2 + Len(v) + 2
           /\ SubSeq(R, Len(line) + 2 + 1, Len(line) + 2 + Len(v)) = v
  <1> DEFINE l == line \o CRLF
             b == v \o CRLF
             n == Len(line) + 2
             m == Len(v)
             y == SubSeq(R, n + 1, n + m)
  <1>1. CRLF \in Seq(Int) /\ Len(CRLF) = 2
    BY DEF CRLF
  <1>2. Len(line) \in Nat /\ m \in Nat /\ Len(R) \in Nat
    BY LenProperties
  <1>3. l \in Seq(Int) /\ Len(l) = n
    <2>1. l \in Seq(Int) /\ Len(l) = Len(line) + Len(CRLF)
      BY <1>1, ConcatProperties
    <2> QED
      BY <1>1, <2>1
  <1>4. b \in Seq(Int) /\ Len(b) = m + 2 /\ \A i \in 1..m : b[i] = v[i]
    <2>1. b \in Seq(Int) /\ Len(b) = m + Len(CRLF)
          /\ \A i \in 1..(m + Len(CRLF)) : b[i] = IF i <= m THEN v[i] ELSE CRLF[i - m]
      BY <1>1, ConcatProperties
    <2> HIDE DEF b
    <2> QED
      BY <1>1, <1>2, <2>1, SMTT(60)
  <1> HIDE DEF l, b
  <1>5. h \in Seq(Int) /\ Len(h) = n + m + 2 /\ \A i \in 1..m : h[n + i] = v[i]
    <2>1. h = l \o b
      BY DEF l, b
    <2>2. /\ l \o b \in Seq(Int) /\ Len(l \o b) = Len(l) + Len(b)
          /\ \A i \in 1..(Len(l) + Len(b)) : (l \o b)[i] = IF i <= Len(l) THEN l[i] ELSE b[i - Len(l)]
      BY <1>3, <1>4, ConcatProperties
    <2>3. ASSUME NEW i \in 1..m PROVE h[n + i] = v[i]
      <3>1. n + i \in 1..(Len(l) + Len(b)) /\ ~(n + i <= Len(l)) /\ (n + i) - Len(l) = i
        <4> HIDE DEF n
        <4>1. n \in Nat
          BY <1>2 DEF n
        <4> QED
          BY <1>2, <1>3, <1>4, <4>1
      <3>2. (l \o b)[n + i] = b[i]
        BY <2>2, <3>1
      <3> QED
        BY <1>4, <2>1, <3>2
    <2>4. Len(h) = n + m + 2
      BY <1>2, <1>3, <1>4, <2>1, <2>2
    <2> QED
      BY <2>1, <2>2, <2>3, <2>4
  <1> HIDE DEF m, n
  <1>6. n \in Nat /\ n = Len(line) + 2
    BY <1>2 DEF n
  <1>7. \A i \in 1..Len(h) : R[i] = h[i]
    BY DEF Begins
  <1>8. y \in Seq(Int) /\ Len(y) = m /\ \A i \in 1..m : y[i] = R[n + i]
    <2>1. \A i \in 1..Len(R) : R[i] \in Int
      BY ElementOfSeq
    <2>2. n + 1 \in 1..(Len(R) + 1) /\ n + m \in n..Len(R)
      BY <1>2, <1>5, <1>6 DEF Begins
    <2> QED
      BY <1>2, <1>6, <2>1, <2>2, SubSeqProperties
  <1>9. y = v
    <2> HIDE DEF y
    <2>1. ASSUME NEW i \in 1..m PROVE y[i] = v[i]
      <3>1. n + i \in 1..Len(h)
        BY <1>2, <1>5, <1>6
      <3> QED
        BY <1>5, <1>7, <1>8, <3>1
    <2> QED
      BY <1>8, <2>1, SeqEqual DEF m
  <1>10. Len(h) = Len(line) + 2 + Len(v) + 2
    BY <1>2, <1>5, <1>6 DEF m
  <1> QED
    BY <1>6, <1>9, <1>10 DEF y, m

LEMMA LineEnd ==
    ASSUME NEW line \in Seq(Int)
    PROVE  line \o CRLF \in Seq(Int) /\ Len(line \o CRLF) = Len(line) + 2
           /\ (line \o CRLF) \o <<>> = line \o CRLF
  <1>1. CRLF \in Seq(Int) /\ Len(CRLF) = 2
    BY DEF CRLF
  <1>2. line \o CRLF \in Seq(Int) /\ Len(line \o CRLF) = Len(line) + Len(CRLF)
    BY <1>1, ConcatProperties
  <1>3. (line \o CRLF) \o <<>> = line \o CRLF
    BY <1>2, ConcatEmptySeq
  <1> QED
    BY <1>1, <1>2, <1>3

\* The line of an object and what is behind it.
HeadOf(o) == (Line(o) \o CRLF) \o Body(o)

LEMMA HeadLength ==
    ASSUME NEW o, Sound(o)
    PROVE  /\ HeadOf(o) \in Seq(Int) /\ Len(HeadOf(o)) \in Nat
           /\ Body(o) = <<>> => HeadOf(o) = Line(o) \o CRLF /\ Len(HeadOf(o)) = Len(Line(o)) + 2
  <1>1. Line(o) \in Seq(Int) /\ Body(o) \in Seq(Int)
    BY HeaderParts
  <1>2. Line(o) \o CRLF \in Seq(Int) /\ Len(Line(o) \o CRLF) = Len(Line(o)) + 2
        /\ (Line(o) \o CRLF) \o <<>> = Line(o) \o CRLF
    BY <1>1, LineEnd
  <1>3. HeadOf(o) \in Seq(Int)
    BY <1>1, <1>2, ConcatProperties DEF HeadOf
  <1> QED
    BY <1>2, <1>3, LenProperties DEF HeadOf

\* A bulk string, when it is there, or nil in the form of one.
LEMMA BulkItem ==
    ASSUME NEW a, WellFormed(a), NEW k \in 0..(Len(a) - 1), NEW o, o = a[k + 1],
           TypeSent(o) = "string",
           NEW r, IsReader(r), ~r.err, r.reply = Reply(a, k), r.task = Stack(a, o.place, "string"),
           Begins(Rest(r), HeadOf(o))
    PROVE  Advanced(processBulkItem(r, Line(o)), r, Len(HeadOf(o)), a, k + 1)
  <1>1. Sound(o) /\ o.value \in Seq(Int)
    BY ItsPlace DEF Sound, Object
  <1>2. Line(o) \in Seq(Int)
    BY <1>1, HeaderParts
  <1>3. ~Opens(o)
    BY DEF Opens, TypeSent
  <1>4. ASSUME NEW type, NEW value, [type |-> type, value |-> value] = Visible(o)
        PROVE  Advanced(Made(r, Len(HeadOf(o)), type, value), r, Len(HeadOf(o)), a, k + 1)
    <2>1. Len(HeadOf(o)) \in 0..Len(Rest(r))
      <3>1. Len(HeadOf(o)) \in Nat
        BY <1>1, HeadLength
      <3> QED
        BY <3>1, ReaderParts DEF Begins
    <2> QED
      BY <1>3, <1>4, <2>1, MadeStep
  <1>5. CASE o.type = "string"
    <2> DEFINE v == o.value
               line == Line(o)
    <2>1. line = Decimal(Len(v)) /\ Body(o) = v \o CRLF
      BY <1>5 DEF Line, Body
    <2>2. Visible(o) = [type |-> "string", value |-> v]
      BY <1>5 DEF Visible
    <2>3. Len(v) \in Nat
      BY <1>1, LenProperties
    <2>4. IsNumber(line) /\ string2ll(line) = Len(v)
      BY <2>1, <2>3, DecimalRead, SMTT(60)
    <2> HIDE DEF line, v
    <2>5. /\ Len(HeadOf(o)) = Len(line) + 2 + Len(v) + 2
          /\ SubSeq(Rest(r), Len(line) + 2 + 1, Len(line) + 2 + Len(v)) = v
      <3>1. Rest(r) \in Seq(Int)
        BY ReaderParts
      <3>2. line \in Seq(Int) /\ v \in Seq(Int) /\ HeadOf(o) = (line \o CRLF) \o (v \o CRLF)
        BY <1>1, <1>2, <2>1 DEF line, v, HeadOf
      <3> QED
        BY <3>1, <3>2, BulkText
    <2>6. BulkEnd(line) = Len(HeadOf(o))
      BY <2>4, <2>5 DEF BulkEnd
    <2>7. processBulkItem(r, line) = Made(r, Len(HeadOf(o)), "string", v)
      <3>1. ~(Len(v) < -1) /\ Len(v) # -1
        BY <2>3
      <3> QED
        BY <2>4, <2>5, <2>6, <3>1 DEF processBulkItem
    <2> QED
      BY <1>4, <2>2, <2>7 DEF line
  <1>6. CASE o.type # "string"
    <2> DEFINE line == Line(o)
    <2>0. o.type = "nil string"
      BY <1>1, <1>6 DEF TypeSent, Sound, Object
    <2>1. line = Decimal(-1) /\ Body(o) = <<>>
      BY <2>0 DEF Line, Body
    <2>2. Visible(o) = [type |-> "nil", value |-> <<>>]
      BY <2>0 DEF Visible
    <2>3. IsNumber(line) /\ string2ll(line) = -1
      BY <2>1, DecimalRead
    <2>4. Len(HeadOf(o)) = Len(line) + 2
      BY <1>1, <2>1, HeadLength
    <2> HIDE DEF line
    <2>5. processBulkItem(r, line) = Made(r, Len(HeadOf(o)), "nil", <<>>)
      BY <2>3, <2>4 DEF processBulkItem
    <2> QED
      BY <1>4, <2>2, <2>5 DEF line
  <1> QED
    BY <1>5, <1>6
\* An array, whose elements come next if it has any, or nil in the form of one.
LEMMA OpenedStep ==
    ASSUME NEW a, WellFormed(a), NEW k \in 0..(Len(a) - 1), Opens(a[k + 1]),
           NEW r, IsReader(r), ~r.err, r.reply = Reply(a, k), r.task = Stack(a, a[k + 1].place, "array"),
           NEW n \in 0..Len(Rest(r)), NEW v, v = a[k + 1].value[1]
    PROVE  Advanced(Descend(Create(Consume(r, n), "array", <<v>>), v), r, n, a, k + 1)
  <1> DEFINE o == a[k + 1]
             q == Append(o.place, 0)
             c == Create(Consume(r, n), "array", <<v>>)
             s == Descend(c, v)
             M == Front(c.task) \o <<[Last(c.task) EXCEPT !.elements = o.value[1]], ElementTask>>
  <1>1. Visible(o) = [type |-> "array", value |-> <<o.value[1]>>]
    <2>1. Sound(o) /\ o.type = "array"
      BY ItsPlace DEF Opens
    <2> HIDE DEF o
    <2>2. Len(o.value) = 1 /\ o.value \in Seq(Int)
      BY <2>1 DEF Sound, Object
    <2>3. o.value = <<o.value[1]>>
      BY <2>2
    <2>4. Visible(o) = [type |-> "array", value |-> o.value]
      BY <2>1 DEF Visible
    <2> QED
      BY <2>3, <2>4
  <1>2. c = [buf |-> r.buf, pos |-> r.pos + n, task |-> r.task, reply |-> Built(a, k + 1), err |-> FALSE]
    BY <1>1, CreatedIs, ZenonT(60)
  <1> HIDE DEF c
  <1>3. M = Stack(a, q, "unread") /\ NextPlaces(a, k + 1) = {q}
    <2>1. k + 1 \in 1..Len(a)
      BY ItsPlace
    <2>2. c.task = Stack(a, o.place, "array")
      BY <1>2
    <2> QED
      BY <2>1, <2>2, OpenedStack
  <1>4. s = [c EXCEPT !.task = M]
    BY DEF Descend
  <1>5. q \in Seq(Nat)
    <2>1. o.place \in Seq(Nat)
      BY ItsPlace
    <2> HIDE DEF o
    <2> QED
      BY <2>1
  <1>6. IsTask(M)
    BY <1>3, <1>5 DEF IsTask
  <1> HIDE DEF M, q, o, s, c
  <1>7. s = [buf |-> r.buf, pos |-> r.pos + n, task |-> M, reply |-> Built(a, k + 1), err |-> FALSE]
    BY <1>2, <1>4
  <1>8. IsRecord(s) /\ s.buf = r.buf /\ s.pos = r.pos + n /\ s.err = FALSE /\ s.task = M
        /\ s.reply = Built(a, k + 1)
    BY <1>7 DEF IsRecord
  <1>9. IsReader(s) /\ Rest(s) = SubSeq(Rest(r), n + 1, Len(Rest(r)))
    BY <1>6, <1>8, Consumed
  <1> QED
    BY <1>3, <1>8, <1>9 DEF Advanced, s, c

LEMMA AggregateItem ==
    ASSUME NEW a, WellFormed(a), NEW k \in 0..(Len(a) - 1), NEW o, o = a[k + 1],
           TypeSent(o) = "array",
           NEW r, IsReader(r), ~r.err, r.reply = Reply(a, k), r.task = Stack(a, o.place, "array"),
           NEW n, n = Len(Line(o)) + 2, n \in 0..Len(Rest(r))
    PROVE  Advanced(processAggregateItem(r, Line(o)), r, n, a, k + 1)
  <1>1. Sound(o) /\ o.value \in Seq(Int)
    BY ItsPlace DEF Sound, Object
  <1> DEFINE line == Line(o)
             c == Create(Consume(r, n), "array", <<o.value[1]>>)
  <1>2. CASE o.type = "array"
    <2>1. line = Decimal(o.value[1])
      BY <1>2 DEF Line
    <2>2. o.value[1] \in Int /\ o.value[1] >= 0 /\ o.value = <<o.value[1]>>
      <3>1. Len(o.value) = 1 /\ o.value[1] >= 0
        BY <1>1, <1>2 DEF Sound
      <3> QED
        BY <1>1, <3>1
    <2>3. IsNumber(line) /\ string2ll(line) = o.value[1]
      BY <2>1, <2>2, DecimalRead
    <2> HIDE DEF line
    <2>4. CASE o.value[1] = 0
      <3>1. processAggregateItem(r, line) = Made(r, n, "array", <<0>>)
        BY <2>3, <2>4 DEF processAggregateItem, Made, line
      <3>2. ~Opens(o)
        BY <2>4 DEF Opens
      <3>3. Visible(o) = [type |-> "array", value |-> <<0>>]
        BY <1>2, <2>2, <2>4 DEF Visible
      <3>4. Advanced(Made(r, n, "array", <<0>>), r, n, a, k + 1)
        BY <3>2, <3>3, MadeStep
      <3> QED
        BY <3>1, <3>4 DEF line
    <2>5. CASE o.value[1] # 0
      <3> DEFINE s == Descend(c, o.value[1])
      <3>1. Opens(o)
        <4>1. o.value[1] > 0
          BY <2>2, <2>5
        <4> QED
          BY <1>2, <4>1 DEF Opens
      <3>2. processAggregateItem(r, line) = s
        <4>1. ~(o.value[1] < -1) /\ o.value[1] # -1
          BY <2>2
        <4> QED
          BY <2>3, <2>5, <4>1 DEF processAggregateItem, line
      <3>3. Advanced(s, r, n, a, k + 1)
        BY <3>1, OpenedStep
      <3> QED
        BY <3>2, <3>3 DEF line
    <2> QED
      BY <2>4, <2>5
  <1>3. CASE o.type # "array"
    <2>1. o.type = "nil array"
      BY <1>1, <1>3 DEF TypeSent, Sound, Object
    <2>2. line = Decimal(-1)
      BY <2>1 DEF Line
    <2>3. Visible(o) = [type |-> "nil", value |-> <<>>]
      BY <2>1 DEF Visible
    <2>4. IsNumber(line) /\ string2ll(line) = -1
      BY <2>2, DecimalRead
    <2>5. ~Opens(o)
      BY <1>3 DEF Opens
    <2> HIDE DEF line
    <2>6. processAggregateItem(r, line) = Made(r, n, "nil", <<>>)
      BY <2>4 DEF processAggregateItem, line
    <2>7. Advanced(Made(r, n, "nil", <<>>), r, n, a, k + 1)
      BY <2>3, <2>5, MadeStep
    <2> QED
      BY <2>6, <2>7 DEF line
  <1> QED
    BY <1>2, <1>3
(***************************************************************************)
(* Where the reader is in a reply.                                         *)
(***************************************************************************)

\* r has made the first k objects of a, and is at the next one, whose type it may have read;
\* w are the bytes that have not come in.
Before(r, w, left) == r.task = <<>> /\ Rest(r) \o w = left
Untyped(r, w, a, k, left) ==
    \E p \in NextPlaces(a, k) : r.task = Stack(a, p, "unread") /\ Rest(r) \o w = left
Halfway(r, w, a, k, left) ==
    \E p \in NextPlaces(a, k), b \in DOMAIN TypeOf, u \in Seq(Int) :
        r.task = Stack(a, p, TypeOf[b]) /\ left = <<b>> \o u /\ Rest(r) \o w = u

Reading(r, w, a, tail, k) ==
    LET left == BytesBehind(a, tail)[k]
    IN  /\ IsReader(r) /\ ~r.err /\ r.reply = Reply(a, k)
        /\ \/ Before(r, w, left) /\ (k = 0 \/ NextPlaces(a, k) = {})
           \/ Untyped(r, w, a, k, left)
           \/ Halfway(r, w, a, k, left)

LEMMA Associative ==
    ASSUME NEW x \in Seq(Int), NEW y \in Seq(Int), NEW z \in Seq(Int)
    PROVE  (x \o y) \o z = x \o (y \o z)
  OBVIOUS

LEMMA HeaderSplit ==
    ASSUME NEW o, Sound(o), NEW x \in Seq(Int)
    PROVE  Header(o) \o x = <<Letter(o)>> \o (HeadOf(o) \o x)
  <1> DEFINE b == <<Letter(o)>>
             l == Line(o)
             y == Body(o)
  <1>1. b \in Seq(Int) /\ l \in Seq(Int) /\ y \in Seq(Int) /\ CRLF \in Seq(Int)
    <2>1. Letter(o) \in Int /\ l \in Seq(Int) /\ y \in Seq(Int)
      BY HeaderParts
    <2> QED
      BY <2>1 DEF CRLF
  <1>2. Header(o) = ((b \o l) \o CRLF) \o y /\ HeadOf(o) = (l \o CRLF) \o y
    BY DEF Header, HeadOf
  <1> HIDE DEF b, l, y
  <1>3. (b \o l) \o CRLF = b \o (l \o CRLF)
    BY <1>1, Associative, ZenonT(60)
  <1> DEFINE m == l \o CRLF
             n == m \o y
  <1>4. m \in Seq(Int)
    BY <1>1, ConcatProperties
  <1> HIDE DEF m
  <1>5. (b \o m) \o y = b \o n
    <2>1. b \in Seq(Int) /\ y \in Seq(Int)
      BY <1>1
    <2> QED
      BY <1>4, <2>1, Associative, ZenonT(60)
  <1>6. n \in Seq(Int)
    BY <1>1, <1>4, ConcatProperties
  <1> HIDE DEF n
  <1>7. (b \o n) \o x = b \o (n \o x)
    <2>1. b \in Seq(Int)
      BY <1>1
    <2> QED
      BY <1>6, <2>1, Associative, ZenonT(30)
  <1>8. Header(o) = b \o n
    BY <1>2, <1>3, <1>5 DEF m
  <1>9. HeadOf(o) = n
    BY <1>2 DEF m, n
  <1> QED
    BY <1>7, <1>8, <1>9 DEF b

\* The first byte, and those behind it.
LEMMA FirstByte ==
    ASSUME NEW b \in Int, NEW u \in Seq(Int), NEW c \in Int, NEW v \in Seq(Int),
           <<b>> \o u = <<c>> \o v
    PROVE  b = c /\ u = v
  <1>1. <<b>> \in Seq(Int) /\ Len(<<b>>) = 1 /\ <<b>>[1] = b /\ <<c>> \in Seq(Int) /\ Len(<<c>>) = 1 /\ <<c>>[1] = c
    OBVIOUS
  <1>2. Len(u) \in Nat /\ Len(v) \in Nat
    BY LenProperties
  <1>3. /\ Len(<<b>> \o u) = 1 + Len(u)
        /\ \A i \in 1..(1 + Len(u)) : (<<b>> \o u)[i] = IF i <= 1 THEN b ELSE u[i - 1]
    BY <1>1, ConcatProperties
  <1>4. /\ Len(<<c>> \o v) = 1 + Len(v)
        /\ \A i \in 1..(1 + Len(v)) : (<<c>> \o v)[i] = IF i <= 1 THEN c ELSE v[i - 1]
    BY <1>1, ConcatProperties
  <1>5. Len(u) = Len(v)
    BY <1>2, <1>3, <1>4
  <1>6. b = c
    <2>1. 1 \in 1..(1 + Len(u)) /\ 1 \in 1..(1 + Len(v)) /\ 1 <= 1
      BY <1>2
    <2> QED
      BY <1>3, <1>4, <2>1
  <1>7. u = v
    <2>1. ASSUME NEW i \in 1..Len(u) PROVE u[i] = v[i]
      <3>1. 1 + i \in 1..(1 + Len(u)) /\ 1 + i \in 1..(1 + Len(v)) /\ ~(1 + i <= 1) /\ (1 + i) - 1 = i
        BY <1>2, <1>5
      <3>2. (<<b>> \o u)[1 + i] = u[i] /\ (<<c>> \o v)[1 + i] = v[i]
        BY <1>3, <1>4, <3>1
      <3> QED
        BY <3>2
    <2> QED
      BY <1>5, <2>1, SeqEqual
  <1> QED
    BY <1>6, <1>7
LEMMA BeginsIs ==
    ASSUME NEW u \in Seq(Int), NEW v \in Seq(Int), NEW h \in Seq(Int), NEW w \in Seq(Int),
           u \o v = h \o w, Len(h) <= Len(u)
    PROVE  Begins(u, h)
  <1>1. SubSeq(u, 1, Len(h)) = h
    BY CutBehind
  <1>2. \A i \in 1..Len(h) : SubSeq(u, 1, Len(h))[i] = u[i]
    BY PartOf, LenProperties
  <1> QED
    BY <1>1, <1>2 DEF Begins

\* Past the k-th object.
LEMMA StepEnd ==
    ASSUME NEW a, WellFormed(a), NEW tail \in Seq(Int), NEW w \in Seq(Int), NEW k \in 1..Len(a),
           NEW r, IsReader(r), NEW h \in Seq(Int), Len(h) <= Len(Rest(r)),
           Rest(r) \o w = h \o BytesBehind(a, tail)[k],
           NEW s, Advanced(s, r, Len(h), a, k)
    PROVE  Reading(s, w, a, tail, k)
  <1> DEFINE left == BytesBehind(a, tail)[k]
             R == Rest(r)
  <1>1. left \in Seq(Int)
    <2>1. k \in 0..Len(a)
      BY WellFormedParts
    <2> QED
      BY <2>1, BehindDef
  <1>2. R \in Seq(Int)
    BY ReaderParts
  <1>3. k # 0
    BY WellFormedParts
  <1> HIDE DEF left, R
  <1>4. SubSeq(R, Len(h) + 1, Len(R)) \o w = left
    <2>1. R \o w = h \o left /\ Len(h) <= Len(R)
      BY DEF left, R
    <2> QED
      BY <1>1, <1>2, <2>1, CutBehind, ZenonT(30)
  <1>5. Rest(s) \o w = left
    BY <1>4 DEF Advanced, R
  <1>6. IsReader(s) /\ ~s.err /\ s.reply = Reply(a, k)
    BY <1>3 DEF Advanced, Reply
  <1>7. CASE NextPlaces(a, k) = {}
    <2>1. Before(s, w, left)
      BY <1>5, <1>7 DEF Before, Advanced
    <2> QED
      BY <1>6, <1>7, <2>1 DEF Reading, left
  <1>8. CASE NextPlaces(a, k) # {}
    <2>1. Untyped(s, w, a, k, left)
      BY <1>5, <1>8 DEF Untyped, Advanced
    <2> QED
      BY <1>6, <2>1 DEF Reading, left
  <1> QED
    BY <1>7, <1>8

LEMMA BulkLength ==
    ASSUME NEW o, Sound(o), o.type = "string"
    PROVE  /\ IsNumber(Line(o)) /\ string2ll(Line(o)) >= 0
           /\ BulkEnd(Line(o)) = Len(HeadOf(o))
  <1> DEFINE v == o.value
             line == Line(o)
             l == line \o CRLF
             b == v \o CRLF
  <1>1. v \in Seq(Int) /\ line = Decimal(Len(v)) /\ Body(o) = b
    BY DEF Sound, Object, Line, Body
  <1>2. HeadOf(o) = l \o b
    BY <1>1 DEF HeadOf
  <1> HIDE DEF v, line, l, b
  <1>3. Len(v) \in Nat
    BY <1>1, LenProperties
  <1>4. IsNumber(line) /\ string2ll(line) = Len(v) /\ line \in Seq(Int)
    BY <1>1, <1>3, DecimalRead
  <1>5. l \in Seq(Int) /\ Len(l) = Len(line) + 2 /\ Len(line) \in Nat
    BY <1>4, LineEnd, LenProperties DEF l
  <1>6. b \in Seq(Int) /\ Len(b) = Len(v) + 2
    BY <1>1, LineEnd DEF b
  <1>7. Len(l \o b) = Len(l) + Len(b)
    BY <1>5, <1>6, ConcatProperties
  <1> DEFINE n == Len(line)
             m == Len(v)
  <1>8. BulkEnd(line) = Len(HeadOf(o))
    <2>1. Len(HeadOf(o)) = (n + 2) + (m + 2)
      BY <1>2, <1>5, <1>6, <1>7
    <2>2. BulkEnd(line) = ((n + 2) + m) + 2
      BY <1>4 DEF BulkEnd
    <2>3. n \in Nat /\ m \in Nat
      BY <1>3, <1>5
    <2> HIDE DEF n, m
    <2> QED
      BY <2>1, <2>2, <2>3
  <1> QED
    BY <1>3, <1>4, <1>8 DEF line

\* What a turn does with a reader that has its type and the line.
LEMMA TurnIs ==
    ASSUME NEW r, ~r.err, NEW line, NEW s \in processItem(r), Lines(Rest(r)) \subseteq {line}
    PROVE  /\ line \in Lines(Rest(r))
           /\ Last(r.task).type = "array" => s = processAggregateItem(r, line)
           /\ Last(r.task).type = "string" =>
                 /\ s = processBulkItem(r, line)
                 /\ ~(IsNumber(line) /\ string2ll(line) >= 0 /\ ~BulkThere(r, line))
           /\ Last(r.task).type \notin {"array", "string"} => s = processLineItem(r, line)
  <1> DEFINE F(l) == CASE Last(r.task).type = "array" -> {processAggregateItem(r, l)}
                       [] Last(r.task).type = "string" ->
                             IF IsNumber(l) /\ string2ll(l) >= 0 /\ ~BulkThere(r, l) THEN {}
                             ELSE {processBulkItem(r, l)}
                       [] OTHER -> {processLineItem(r, l)}
  <1>1. processItem(r) = UNION {F(l) : l \in Lines(Rest(r))}
    BY DEF processItem
  <1> HIDE DEF F
  <1>2. PICK l \in Lines(Rest(r)) : s \in F(l)
    BY <1>1
  <1>3. l = line /\ s \in F(line) /\ line \in Lines(Rest(r))
    BY <1>2
  <1>4. CASE Last(r.task).type = "array"
    <2>1. F(line) = {processAggregateItem(r, line)}
      BY <1>4 DEF F
    <2> QED
      BY <1>3, <1>4, <2>1
  <1>5. CASE Last(r.task).type = "string"
    <2>1. F(line) = IF IsNumber(line) /\ string2ll(line) >= 0 /\ ~BulkThere(r, line) THEN {}
                    ELSE {processBulkItem(r, line)}
      BY <1>5 DEF F
    <2> QED
      BY <1>3, <1>5, <2>1
  <1>6. CASE Last(r.task).type \notin {"array", "string"}
    <2>1. F(line) = {processLineItem(r, line)}
      BY <1>6 DEF F
    <2> QED
      BY <1>3, <1>6, <2>1
  <1> QED
    BY <1>4, <1>5, <1>6
LEMMA BehindStep ==
    ASSUME NEW a, WellFormed(a), NEW tail \in Seq(Int), NEW k \in 0..(Len(a) - 1)
    PROVE  BytesBehind(a, tail)[k] = Header(a[k + 1]) \o BytesBehind(a, tail)[k + 1]
  BY BehindDef

\* A turn that has the type of the object.
LEMMA ItemStep ==
    ASSUME NEW a, WellFormed(a), NEW tail \in Seq(Int), NEW w \in Seq(Int), NEW k \in 0..(Len(a) - 1),
           NEW r, IsReader(r), ~r.err, r.reply = Reply(a, k), Halfway(r, w, a, k, BytesBehind(a, tail)[k]),
           NEW s \in processItem(r)
    PROVE  Reading(s, w, a, tail, k + 1)
  <1> DEFINE o == a[k + 1]
             B == BytesBehind(a, tail)[k + 1]
             h == HeadOf(o)
             line == Line(o)
             R == Rest(r)
  <1>1. k + 1 \in 1..Len(a) /\ Sound(o) /\ o.place \in NextPlaces(a, k) /\ k \in 0..Len(a)
        /\ o.place \in Seq(Nat) /\ k + 1 \in 0..Len(a)
    BY ItsPlace
  <1>2. B \in Seq(Int) /\ BytesBehind(a, tail)[k] = Header(o) \o B
    <2>1. B \in Seq(Int)
      BY <1>1, BehindDef
    <2>2. BytesBehind(a, tail)[k] = Header(a[k + 1]) \o BytesBehind(a, tail)[k + 1]
      BY BehindStep
    <2> QED
      BY <2>1, <2>2
  <1>3. PICK q \in NextPlaces(a, k), b \in DOMAIN TypeOf, u \in Seq(Int) :
           /\ r.task = Stack(a, q, TypeOf[b])
           /\ BytesBehind(a, tail)[k] = <<b>> \o u
           /\ R \o w = u
    <2> HIDE DEF o, B, h, line
    <2> QED
      BY DEF Halfway
  <1>4. q = o.place
    BY <1>1, NextUnique
  <1> HIDE DEF o, B, h, R, line
  <1>5. h \in Seq(Int) /\ Len(h) \in Nat /\ line \in Seq(Int) /\ Newlines(line) = {} /\ Body(o) \in Seq(Int)
    BY <1>1, HeadLength, HeaderParts DEF h, line
  <1>6. R \in Seq(Int) /\ Len(R) \in Nat
    BY ReaderParts DEF R
  <1>7. b = Letter(o) /\ u = h \o B
    <2>1. <<b>> \o u = <<Letter(o)>> \o (h \o B)
      BY <1>1, <1>2, <1>3, HeaderSplit, ZenonT(30) DEF h
    <2>2. b \in Int /\ Letter(o) \in Int
      BY <1>1, TypeBytes, HeaderParts
    <2>3. h \o B \in Seq(Int)
      BY <1>2, <1>5, ConcatProperties
    <2> QED
      BY <2>1, <2>2, <2>3, FirstByte, ZenonT(60)
  <1>8. r.task = Stack(a, o.place, TypeSent(o))
    BY <1>1, <1>3, <1>4, <1>7, HeaderParts
  <1>9. R \o w = h \o B
    BY <1>3, <1>7
  <1>10. Lines(R) = IF Len(line) + 2 <= Len(R) THEN {line} ELSE {}
    <2> DEFINE y == Body(o)
               l == line \o CRLF
               z == y \o B
    <2>1. h = l \o y /\ l \in Seq(Int) /\ y \in Seq(Int)
      BY <1>5, LineEnd DEF h, HeadOf, line
    <2>2. z \in Seq(Int)
      BY <1>2, <2>1, ConcatProperties
    <2> HIDE DEF y, z
    <2>3. (l \o y) \o B = l \o z
      <3> HIDE DEF l
      <3> QED
        BY <1>2, <2>1, Associative, ZenonT(60) DEF z
    <2>4. R \o w = (line \o CRLF) \o z
      <3> HIDE DEF l
      <3>1. R \o w = l \o z
        BY <1>9, <2>1, <2>3
      <3> QED
        BY <3>1 DEF l
    <2> QED
      BY <1>5, <1>6, <2>2, <2>4, FirstLine, ZenonT(30)
  <1>11. Last(r.task).type = TypeSent(o)
    BY <1>1, <1>8, TopOfStack
  <1>12. Lines(R) \subseteq {line}
    BY <1>10
  <1>13. /\ line \in Lines(R)
         /\ TypeSent(o) = "array" => s = processAggregateItem(r, line)
         /\ TypeSent(o) = "string" => /\ s = processBulkItem(r, line)
                                      /\ ~(IsNumber(line) /\ string2ll(line) >= 0 /\ ~BulkThere(r, line))
         /\ TypeSent(o) \notin {"array", "string"} => s = processLineItem(r, line)
    BY <1>11, <1>12, TurnIs DEF R
  <1>14. Len(line) + 2 <= Len(R)
    BY <1>10, <1>13
  <1>15. Body(o) = <<>> => Len(h) = Len(line) + 2
    BY <1>1, HeadLength DEF h, line
  <1>16. Len(h) <= Len(R)
    <2>1. CASE o.type = "string"
      <3>1. /\ IsNumber(line) /\ string2ll(line) >= 0 /\ BulkEnd(line) = Len(h)
        BY <1>1, <2>1, BulkLength DEF line, h
      <3>2. TypeSent(o) = "string"
        BY <2>1 DEF TypeSent
      <3> QED
        BY <1>13, <3>1, <3>2 DEF BulkThere, R
    <2>2. CASE o.type # "string"
      <3>1. Body(o) = <<>>
        BY <2>2 DEF Body
      <3> QED
        BY <1>14, <1>15, <3>1
    <2> QED
      BY <2>1, <2>2
  <1>17. Begins(R, h)
    BY <1>2, <1>5, <1>6, <1>9, <1>16, BeginsIs, ZenonT(30)
  <1>18. Advanced(s, r, Len(h), a, k + 1)
    <2>1. CASE TypeSent(o) = "string"
      <3>1. s = processBulkItem(r, line)
        BY <1>13, <2>1
      <3>2. Advanced(processBulkItem(r, Line(o)), r, Len(HeadOf(o)), a, k + 1)
        BY <1>8, <1>17, <2>1, BulkItem DEF o, R, h
      <3> QED
        BY <3>1, <3>2 DEF line, h
    <2>2. CASE TypeSent(o) = "array"
      <3>1. s = processAggregateItem(r, line)
        BY <1>13, <2>2
      <3>2. Body(o) = <<>>
        BY <2>2 DEF Body, TypeSent
      <3>3. Len(h) = Len(line) + 2 /\ Len(h) \in 0..Len(R)
        BY <1>5, <1>6, <1>15, <1>16, <3>2
      <3>4. Advanced(processAggregateItem(r, Line(o)), r, Len(h), a, k + 1)
        BY <1>8, <2>2, <3>3, AggregateItem DEF o, R, line
      <3> QED
        BY <3>1, <3>4 DEF line
    <2>3. CASE TypeSent(o) \notin {"array", "string"}
      <3>1. s = processLineItem(r, line)
        BY <1>13, <2>3
      <3>2. TypeSent(o) = o.type /\ o.type \in {"integer", "status", "error"}
        BY <1>1, <2>3 DEF TypeSent, Sound, Object
      <3>3. Body(o) = <<>>
        BY <3>2 DEF Body
      <3>4. Len(h) = Len(line) + 2 /\ Len(h) \in 0..Len(R)
        BY <1>5, <1>6, <1>15, <1>16, <3>3
      <3>5. Advanced(processLineItem(r, Line(a[k + 1])), r, Len(Line(a[k + 1])) + 2, a, k + 1)
        BY <1>8, <3>2, <3>4, LineItem DEF o, R, line
      <3> QED
        BY <3>1, <3>4, <3>5 DEF line, o
    <2> QED
      BY <2>1, <2>2, <2>3
  <1> QED
    BY <1>1, <1>5, <1>9, <1>16, <1>18, StepEnd DEF R, B
LEMMA OneByte ==
    ASSUME NEW u \in Seq(Int), u # <<>>
    PROVE  u[1] \in Int /\ \E x \in Seq(Int) : u = <<u[1]>> \o x
  <1>1. u[1] \in Int /\ Tail(u) \in Seq(Int) /\ u = <<u[1]>> \o Tail(u)
    OBVIOUS
  <1> QED
    BY <1>1

LEMMA NoLine == Lines(<<>>) = {}
  <1>1. Newlines(<<>>) = {}
    BY DEF Newlines
  <1> QED
    BY <1>1 DEF Lines

\* What makes no object puts the reader into its error state.
Junk(letter, line) ==
    letter \in Int /\ line \in Seq(Int) /\ Newlines(line) = {} /\ MakesNoObject(letter, line)
JunkTail(letter, line) == <<letter>> \o (line \o CRLF)

LEMMA JunkLine ==
    ASSUME NEW letter \in DOMAIN TypeOf, NEW line, Junk(letter, line), NEW r
    PROVE  /\ TypeOf[letter] = "array" => processAggregateItem(r, line) = SetError(r)
           /\ TypeOf[letter] = "string" => processBulkItem(r, line) = SetError(r)
           /\ TypeOf[letter] \notin {"array", "string"} /\ Last(r.task).type = TypeOf[letter]
                 => processLineItem(r, line) = SetError(r)
  <1>1. TypeOf[letter] \in {"string", "array", "integer", "status", "error"}
    BY TypeBytes
  <1>2. ASSUME TypeOf[letter] \in {"array", "string"}
        PROVE  ~IsNumber(line) \/ string2ll(line) < -1
    BY <1>2 DEF Junk, MakesNoObject
  <1>3. CASE TypeOf[letter] = "array"
    BY <1>2, <1>3 DEF processAggregateItem
  <1>4. CASE TypeOf[letter] = "string"
    BY <1>2, <1>4 DEF processBulkItem
  <1>5. CASE TypeOf[letter] = "integer"
    <2>1. ~IsNumber(line)
      BY <1>5 DEF Junk, MakesNoObject
    <2> QED
      BY <1>5, <2>1 DEF processLineItem
  <1>6. CASE TypeOf[letter] \in {"status", "error"}
    <2>1. ToSet(line) \cap ToSet(CRLF) # {}
      BY <1>6 DEF Junk, MakesNoObject
    <2>2. PICK i \in DOMAIN line : line[i] \in ToSet(CRLF)
      BY <2>1 DEF ToSet
    <2>3. line[i] \in {13, 10}
      BY <2>2 DEF ToSet, CRLF
    <2> QED
      BY <1>6, <2>2, <2>3 DEF processLineItem
  <1> QED
    BY <1>1, <1>3, <1>4, <1>5, <1>6

LEMMA JunkItem ==
    ASSUME NEW letter \in DOMAIN TypeOf, NEW line, Junk(letter, line),
           NEW r, IsReader(r), ~r.err, Last(r.task).type = TypeOf[letter],
           NEW w \in Seq(Int), Rest(r) \o w = line \o CRLF,
           NEW s \in processItem(r)
    PROVE  s = SetError(r)
  <1> DEFINE R == Rest(r)
  <1>1. line \in Seq(Int) /\ Newlines(line) = {} /\ R \in Seq(Int)
    BY ReaderParts DEF Junk
  <1>2. line \o CRLF = (line \o CRLF) \o <<>> /\ <<>> \in Seq(Int)
    BY <1>1, LineEnd
  <1> HIDE DEF R
  <1>3. R \o w = (line \o CRLF) \o <<>>
    BY <1>2 DEF R
  <1>4. Lines(R) = IF Len(line) + 2 <= Len(R) THEN {line} ELSE {}
    BY <1>1, <1>2, <1>3, FirstLine, ZenonT(30)
  <1>5. Lines(R) \subseteq {line}
    BY <1>4
  <1>6. TypeOf[letter] \in {"string", "array", "integer", "status", "error"}
    BY TypeBytes
  <1> DEFINE type == Last(r.task).type
  <1>7. /\ type = "array" => s = processAggregateItem(r, line)
        /\ type = "string" => s = processBulkItem(r, line)
        /\ type \notin {"array", "string"} => s = processLineItem(r, line)
    BY <1>5, TurnIs DEF R
  <1> QED
    BY <1>7, JunkLine

LEMMA ErrorReader ==
    ASSUME NEW r
    PROVE  IsReader(SetError(r)) /\ SetError(r).err /\ SetError(r).task = <<>>
  <1> DEFINE s == SetError(r)
  <1>1. s = [buf |-> <<>>, pos |-> 0, task |-> <<>>, reply |-> NoReply, err |-> TRUE]
    BY FreshIs
  <1> HIDE DEF s
  <1>2. IsRecord(s) /\ s.buf = <<>> /\ s.pos = 0 /\ s.task = <<>> /\ s.err = TRUE
    BY <1>1 DEF IsRecord
  <1>3. s.buf \in Seq(Int) /\ s.pos \in 0..Len(s.buf)
    BY <1>2
  <1> QED
    BY <1>2, <1>3 DEF IsReader, IsTask, s
\* What may be behind the last object: nothing, or what makes none.
GoodTail(a, tail) ==
    \/ tail = <<>> /\ (a = <<>> \/ NextPlaces(a, Len(a)) = {})
    \/ /\ NextPlaces(a, Len(a)) # {}
       /\ \E letter, line : Junk(letter, line) /\ tail = JunkTail(letter, line)

LEMMA TailParts ==
    ASSUME NEW a, NEW tail, GoodTail(a, tail)
    PROVE  tail \in Seq(Int)
  <1>1. CASE tail = <<>>
    BY <1>1
  <1>2. ASSUME NEW letter, NEW line, Junk(letter, line), tail = JunkTail(letter, line)
        PROVE  tail \in Seq(Int)
    <2>1. <<letter>> \in Seq(Int) /\ line \in Seq(Int)
      BY <1>2 DEF Junk
    <2>2. line \o CRLF \in Seq(Int)
      BY <2>1, LineEnd
    <2> QED
      BY <1>2, <2>1, <2>2, ConcatProperties DEF JunkTail
  <1> QED
    BY <1>1, <1>2 DEF GoodTail

Turned(s, w, a, tail, k) ==
    \/ k < Len(a) /\ Reading(s, w, a, tail, k + 1)
    \/ tail # <<>> /\ IsReader(s) /\ s.err /\ s.task = <<>>

\* A turn with a type in the task.
LEMMA HalfwayStep ==
    ASSUME NEW a, WellFormed(a), NEW tail, GoodTail(a, tail), NEW w \in Seq(Int), NEW k \in 0..Len(a),
           NEW r, IsReader(r), ~r.err, r.reply = Reply(a, k), Halfway(r, w, a, k, BytesBehind(a, tail)[k]),
           NEW s \in processItem(r)
    PROVE  Turned(s, w, a, tail, k)
  <1>1. tail \in Seq(Int) /\ Len(a) \in Nat
    BY TailParts, WellFormedParts
  <1>2. CASE k # Len(a)
    <2>1. k \in 0..(Len(a) - 1) /\ k < Len(a)
      BY <1>1, <1>2
    <2>2. Reading(s, w, a, tail, k + 1)
      BY <1>1, <2>1, ItemStep
    <2> QED
      BY <2>1, <2>2 DEF Turned
  <1>3. CASE k = Len(a)
    <2>1. BytesBehind(a, tail)[k] = tail
      BY <1>1, <1>3, BehindDef
    <2>2. PICK p \in NextPlaces(a, k), b \in DOMAIN TypeOf, u \in Seq(Int) :
             r.task = Stack(a, p, TypeOf[b]) /\ tail = <<b>> \o u /\ Rest(r) \o w = u
      BY <2>1 DEF Halfway
    <2>3. b \in Int /\ p \in Seq(Nat)
      BY TypeBytes, NextIsPlace
    <2>4. tail # <<>>
      <3>1. <<b>> \o u # <<>>
        BY <2>3
      <3> QED
        BY <2>2, <3>1
    <2>5. PICK letter, line : Junk(letter, line) /\ tail = JunkTail(letter, line)
      BY <2>4 DEF GoodTail
    <2>6. letter = b /\ u = line \o CRLF
      <3>1. letter \in Int /\ line \o CRLF \in Seq(Int)
        BY <2>5, LineEnd DEF Junk
      <3>2. <<b>> \o u = <<letter>> \o (line \o CRLF)
        BY <2>2, <2>5 DEF JunkTail
      <3>3. b = letter /\ u = line \o CRLF
        <4>1. b \in Int /\ u \in Seq(Int)
          BY <2>3
        <4> QED
          BY <3>1, <3>2, <4>1, FirstByte, ZenonT(60)
      <3> QED
        BY <3>3
    <2>7. Last(r.task).type = TypeOf[letter]
      BY <2>2, <2>3, <2>6, TopOfStack
    <2>8. s = SetError(r)
      <3>1. Rest(r) \o w = line \o CRLF
        BY <2>2, <2>6
      <3>2. letter \in DOMAIN TypeOf /\ Junk(letter, line)
        BY <2>5, <2>6
      <3> QED
        <4>1. IsReader(r) /\ ~r.err /\ w \in Seq(Int) /\ s \in processItem(r) /\ letter \in DOMAIN TypeOf
          BY <3>2
        <4> QED
          BY <2>7, <3>1, <3>2, <4>1, JunkItem, ZenonT(30)
    <2> QED
      BY <2>4, <2>8, ErrorReader DEF Turned
  <1> QED
    BY <1>2, <1>3

LEMMA NothingToRead ==
    ASSUME NEW r, Rest(r) = <<>>
    PROVE  Typed(r) = r /\ (~r.err => processItem(r) = {})
  <1>1. Typed(r) = r
    BY DEF Typed
  <1>2. ASSUME ~r.err PROVE processItem(r) = {}
    BY <1>2, NoLine DEF processItem
  <1> QED
    BY <1>1, <1>2

LEMMA AlreadyTyped ==
    ASSUME NEW r, Last(r.task).type # "unread"
    PROVE  Typed(r) = r
  BY DEF Typed

LEMMA WithoutType ==
    ASSUME NEW r, r.task # <<>>, Last(r.task).type = "unread", Rest(r) # <<>>, Rest(r)[1] \notin DOMAIN TypeOf
    PROVE  Typed(r) = SetError(r)
  BY DEF Typed

\* A reader that knows no type yet takes the next byte for it.
LEMMA UntypedStep ==
    ASSUME NEW a, WellFormed(a), NEW tail, GoodTail(a, tail), NEW w \in Seq(Int), NEW k \in 0..Len(a),
           NEW r, IsReader(r), ~r.err, r.reply = Reply(a, k), Untyped(r, w, a, k, BytesBehind(a, tail)[k]),
           Rest(r) # <<>>
    PROVE  LET t == Typed(r)
           IN  \/ IsReader(t) /\ ~t.err /\ t.reply = Reply(a, k) /\ t.task # <<>>
                  /\ Halfway(t, w, a, k, BytesBehind(a, tail)[k])
               \/ t = SetError(r) /\ tail # <<>> /\ k = Len(a)
  <1> DEFINE t == Typed(r)
             left == BytesBehind(a, tail)[k]
             b == Rest(r)[1]
  <1>1. tail \in Seq(Int) /\ Len(a) \in Nat /\ Rest(r) \in Seq(Int)
    BY TailParts, WellFormedParts, ReaderParts
  <1>2. PICK p \in NextPlaces(a, k) : r.task = Stack(a, p, "unread") /\ Rest(r) \o w = left
    BY DEF Untyped
  <1>3. p \in Seq(Nat)
    BY NextIsPlace
  <1>4. b \in Int /\ \E x \in Seq(Int) : Rest(r) = <<b>> \o x
    BY <1>1, OneByte
  <1> HIDE DEF left, b, t
  <1>5. PICK x \in Seq(Int) : Rest(r) = <<b>> \o x
    BY <1>4
  <1> DEFINE u == x \o w
  <1>6. left = <<b>> \o u /\ u \in Seq(Int)
    <2>1. <<b>> \in Seq(Int)
      BY <1>4
    <2>2. (<<b>> \o x) \o w = <<b>> \o u
      BY <2>1, Associative, ZenonT(30)
    <2>3. u \in Seq(Int)
      BY ConcatProperties
    <2> HIDE DEF u
    <2> QED
      BY <1>2, <1>5, <2>2, <2>3
  <1> HIDE DEF u
  <1>7. r.task # <<>> /\ Last(r.task).type = "unread"
    BY <1>2, <1>3, TopOfStack
  <1>8. CASE b \in DOMAIN TypeOf
    <2>1. /\ IsReader(t) /\ ~t.err
          /\ t.task = Stack(a, p, TypeOf[b]) /\ Rest(t) = x /\ t.reply = r.reply
      BY <1>2, <1>3, <1>5, <1>8, TypedStep DEF t
    <2>2. t.task # <<>>
      BY <1>3, <2>1, TopOfStack
    <2>3. Rest(t) \o w = u
      BY <2>1 DEF u
    <2>4. Halfway(t, w, a, k, left)
      BY <1>6, <1>8, <2>1, <2>3, ZenonT(30) DEF Halfway
    <2>5. t.reply = Reply(a, k)
      BY <2>1
    <2> QED
      BY <2>1, <2>2, <2>4, <2>5 DEF t, left
  <1>9. CASE b \notin DOMAIN TypeOf
    <2>1. t = SetError(r)
      BY <1>7, <1>9, WithoutType DEF t, b
    <2>2. k = Len(a)
      <3> SUFFICES ASSUME k # Len(a) PROVE FALSE
        OBVIOUS
      <3> DEFINE B == BytesBehind(a, tail)[k + 1]
                 o == a[k + 1]
      <3>1. k \in 0..(Len(a) - 1)
        BY <1>1
      <3>2. Sound(o) /\ k + 1 \in 0..Len(a)
        BY <1>1, <3>1, ItsPlace
      <3>3. left = Header(o) \o B
        BY <1>1, <3>1, BehindStep DEF left
      <3>4. B \in Seq(Int)
        BY <1>1, <3>2, BehindDef
      <3> HIDE DEF B, o
      <3>5. left = <<Letter(o)>> \o (HeadOf(o) \o B)
        BY <3>2, <3>3, <3>4, HeaderSplit
      <3>6. Letter(o) \in DOMAIN TypeOf /\ Letter(o) \in Int /\ HeadOf(o) \in Seq(Int)
        BY <3>2, HeaderParts, HeadLength
      <3>7. HeadOf(o) \o B \in Seq(Int)
        BY <3>4, <3>6, ConcatProperties
      <3>8. b = Letter(o)
        <4>1. <<b>> \o u = <<Letter(o)>> \o (HeadOf(o) \o B)
          BY <1>6, <3>5
        <4>2. Letter(o) \in Int /\ u \in Seq(Int) /\ b \in Int
          BY <1>4, <1>6, <3>6
        <4> QED
          BY <3>7, <4>1, <4>2, FirstByte, ZenonT(60)
      <3> QED
        BY <1>9, <3>6, <3>8
    <2>3. tail # <<>>
      <3>1. left = tail
        BY <1>1, <2>2, BehindDef DEF left
      <3>2. <<b>> \o u # <<>>
        BY <1>4, <1>6
      <3> QED
        BY <1>6, <3>1, <3>2
    <2> QED
      BY <2>1, <2>2, <2>3 DEF t
  <1> QED
    BY <1>8, <1>9
\* A turn of the loop makes the next object, or meets what makes none.
LEMMA TurnStep ==
    ASSUME NEW a, WellFormed(a), NEW tail, GoodTail(a, tail), NEW w \in Seq(Int), NEW k \in 0..Len(a),
           NEW r, Reading(r, w, a, tail, k), NEW s \in Items(r)
    PROVE  Turned(s, w, a, tail, k)
  <1> DEFINE left == BytesBehind(a, tail)[k]
             t == Typed(r)
  <1>1. /\ IsReader(r) /\ ~r.err /\ r.reply = Reply(a, k)
        /\ Before(r, w, left) \/ Untyped(r, w, a, k, left) \/ Halfway(r, w, a, k, left)
    BY DEF Reading
  <1>2. r.task # <<>> /\ s \in processItem(t)
    BY DEF Items
  <1> HIDE DEF left, t
  <1>3. CASE Before(r, w, left)
    BY <1>2, <1>3 DEF Before
  <1>4. CASE Halfway(r, w, a, k, left)
    <2>1. t = r
      <3>1. PICK p \in NextPlaces(a, k), b \in DOMAIN TypeOf : r.task = Stack(a, p, TypeOf[b])
        BY <1>4 DEF Halfway
      <3>2. Last(r.task).type = TypeOf[b]
        BY <3>1, NextIsPlace, TopOfStack
      <3>3. TypeOf[b] # "unread"
        BY TypeBytes
      <3> QED
        BY <3>2, <3>3, AlreadyTyped DEF t
    <2>2. s \in processItem(r)
      BY <1>2, <2>1
    <2> QED
      BY <1>1, <1>4, <2>2, HalfwayStep DEF left
  <1>5. CASE Untyped(r, w, a, k, left)
    <2>1. Rest(r) # <<>>
      <3> SUFFICES ASSUME Rest(r) = <<>> PROVE FALSE
        OBVIOUS
      <3>1. t = r /\ processItem(r) = {}
        BY <1>1, NothingToRead DEF t
      <3> QED
        BY <1>2, <3>1
    <2>2. \/ IsReader(t) /\ ~t.err /\ t.reply = Reply(a, k) /\ t.task # <<>> /\ Halfway(t, w, a, k, left)
          \/ t = SetError(r) /\ tail # <<>> /\ k = Len(a)
      BY <1>1, <1>5, <2>1, UntypedStep DEF left, t
    <2>3. CASE t = SetError(r) /\ tail # <<>>
      <3>1. t.err /\ IsReader(t) /\ t.task = <<>>
        BY <2>3, ErrorReader
      <3>2. processItem(t) = {t}
        BY <3>1 DEF processItem
      <3> QED
        BY <1>2, <2>3, <3>1, <3>2 DEF Turned
    <2>4. CASE IsReader(t) /\ ~t.err /\ t.reply = Reply(a, k) /\ Halfway(t, w, a, k, left)
      BY <1>2, <2>4, HalfwayStep DEF left
    <2> QED
      BY <2>2, <2>3, <2>4
  <1> QED
    BY <1>1, <1>3, <1>4, <1>5

\* Where a reader is does not depend on the bytes it has consumed.
LEMMA SameReading ==
    ASSUME NEW r, NEW w, NEW a, NEW tail, NEW k, Reading(r, w, a, tail, k),
           NEW s, IsReader(s), ~s.err, Rest(s) = Rest(r), s.task = r.task, s.reply = r.reply
    PROVE  Reading(s, w, a, tail, k)
  <1> DEFINE left == BytesBehind(a, tail)[k]
  <1>1. /\ r.reply = Reply(a, k)
        /\ \/ Before(r, w, left) /\ (k = 0 \/ NextPlaces(a, k) = {})
           \/ Untyped(r, w, a, k, left)
           \/ Halfway(r, w, a, k, left)
    BY DEF Reading
  <1> HIDE DEF left
  <1>2. /\ Before(r, w, left) => Before(s, w, left)
        /\ Untyped(r, w, a, k, left) => Untyped(s, w, a, k, left)
        /\ Halfway(r, w, a, k, left) => Halfway(s, w, a, k, left)
    BY DEF Before, Untyped, Halfway
  <1> QED
    BY <1>1, <1>2 DEF Reading, left

LEMMA BuiltSomething ==
    ASSUME NEW a, NEW k \in Nat \ {0}
    PROVE  Built(a, k) # NoReply
  <1>1. 1 \in 1..k
    OBVIOUS
  <1>2. a[1].place \in DOMAIN Built(a, k)
    BY <1>1 DEF Built
  <1>3. DOMAIN NoReply = {}
    BY DEF NoReply
  <1> QED
    BY <1>2, <1>3

\* The places of a reply run out with its objects.
LEMMA LastPlace ==
    ASSUME NEW a, WellFormed(a), NEW tail, GoodTail(a, tail), NEW k \in 0..Len(a), k # 0, NextPlaces(a, k) = {}
    PROVE  k = Len(a) /\ tail = <<>> /\ BytesBehind(a, tail)[k] = <<>>
  <1>1. Len(a) \in Nat /\ tail \in Seq(Int)
    BY WellFormedParts, TailParts
  <1>2. k = Len(a)
    <2> SUFFICES ASSUME k # Len(a) PROVE FALSE
      OBVIOUS
    <2>1. k + 1 \in 1..Len(a) /\ (k + 1) - 1 = k
      BY <1>1
    <2>2. a[k + 1].place \in NextPlaces(a, (k + 1) - 1)
      BY <2>1, WellFormedParts
    <2> QED
      BY <2>1, <2>2
  <1>3. tail = <<>>
    BY <1>2 DEF GoodTail
  <1>4. BytesBehind(a, tail)[k] = tail
    BY <1>1, <1>2, BehindDef
  <1> QED
    BY <1>2, <1>3, <1>4

LEMMA NothingBehind ==
    ASSUME NEW x \in Seq(Int), NEW y \in Seq(Int), x \o y = <<>>
    PROVE  x = <<>> /\ y = <<>>
  <1>1. Len(x \o y) = Len(x) + Len(y) /\ Len(x) \in Nat /\ Len(y) \in Nat
    BY ConcatProperties, LenProperties
  <1>2. Len(x \o y) = 0
    OBVIOUS
  <1>3. Len(x) = 0 /\ Len(y) = 0
    BY <1>1, <1>2
  <1> QED
    BY <1>3, EmptySeq
Settled(r) == r.task = <<>> => r.reply = NoReply

\* A reader that has emitted everything is in front of an object, if it is anywhere.
LEMMA InFront ==
    ASSUME NEW a, WellFormed(a), NEW tail, NEW w, NEW k \in 0..Len(a),
           NEW r, Reading(r, w, a, tail, k), r.task = <<>>, r.reply = NoReply
    PROVE  k = 0 /\ Rest(r) \o w = BytesBehind(a, tail)[0]
  <1> DEFINE left == BytesBehind(a, tail)[k]
  <1>1. /\ r.reply = Reply(a, k)
        /\ Before(r, w, left) \/ Untyped(r, w, a, k, left) \/ Halfway(r, w, a, k, left)
    BY DEF Reading
  <1> HIDE DEF left
  <1>2. k = 0
    <2> SUFFICES ASSUME k # 0 PROVE FALSE
      OBVIOUS
    <2>1. k \in Nat \ {0}
      BY WellFormedParts
    <2> QED
      BY <1>1, <2>1, BuiltSomething DEF Reply
  <1>3. Rest(r) \o w = left
    <2>1. CASE Before(r, w, left)
      BY <2>1 DEF Before
    <2>2. CASE Untyped(r, w, a, k, left)
      <3>1. PICK p \in NextPlaces(a, k) : r.task = Stack(a, p, "unread")
        BY <2>2 DEF Untyped
      <3> QED
        BY <3>1, NextIsPlace, TopOfStack
    <2>3. CASE Halfway(r, w, a, k, left)
      <3>1. PICK p \in NextPlaces(a, k), b \in DOMAIN TypeOf : r.task = Stack(a, p, TypeOf[b])
        BY <2>3 DEF Halfway
      <3> QED
        BY <3>1, NextIsPlace, TopOfStack
    <2> QED
      BY <1>1, <2>1, <2>2, <2>3
  <1> QED
    BY <1>2, <1>3 DEF left

LEMMA StartReader ==
    ASSUME NEW r, IsReader(r)
    PROVE  LET s == StartReply(r)
           IN  /\ IsReader(s) /\ s.err = r.err /\ Rest(s) = Rest(r) /\ s.reply = r.reply
               /\ s.task = r.task \/ (r.task = <<>> /\ s.task = <<RootTask>>)
               /\ ~s.err /\ s.task = <<>> => Rest(s) = <<>>
  <1> DEFINE s == StartReply(r)
  <1>1. s = [buf |-> r.buf, pos |-> r.pos,
             task |-> IF ~r.err /\ r.buf # <<>> /\ r.task = <<>> THEN <<RootTask>> ELSE r.task,
             reply |-> r.reply, err |-> r.err]
    BY StartIs DEF IsReader
  <1> HIDE DEF s
  <1>2. /\ IsRecord(s) /\ s.buf = r.buf /\ s.pos = r.pos /\ s.reply = r.reply /\ s.err = r.err
        /\ s.task = IF ~r.err /\ r.buf # <<>> /\ r.task = <<>> THEN <<RootTask>> ELSE r.task
    BY <1>1 DEF IsRecord
  <1>3. IsTask(<<RootTask>>)
    BY RootIs DEF IsTask
  <1>4. IsReader(s)
    BY <1>2, <1>3 DEF IsReader
  <1>5. Rest(s) = Rest(r)
    <2>1. s.buf = r.buf /\ s.pos = r.pos
      BY <1>2
    <2> QED
      BY <2>1, ZenonT(30) DEF Rest
  <1>6. ASSUME ~s.err, s.task = <<>> PROVE Rest(s) = <<>>
    <2>1. s.buf = <<>>
      <3>1. ~(~r.err /\ r.buf # <<>> /\ r.task = <<>>)
        <4>1. <<RootTask>> # <<>>
          OBVIOUS
        <4> QED
          BY <1>2, <1>6, <4>1
      <3>2. r.task = <<>> /\ ~r.err
        BY <1>2, <1>6, <3>1
      <3> QED
        BY <1>2, <3>1, <3>2
    <2>2. Len(s.buf) = 0 /\ s.pos \in 0..Len(s.buf)
      BY <1>4, <2>1 DEF IsReader
    <2>3. Rest(s) \in Seq(Int) /\ Len(Rest(s)) = 0
      <3>1. Rest(s) \in Seq(Int) /\ Len(Rest(s)) = Len(s.buf) - s.pos
        BY <1>4, ReaderParts
      <3> QED
        BY <2>2, <3>1
    <2> QED
      BY <2>3, EmptySeq
  <1> QED
    BY <1>2, <1>4, <1>5, <1>6 DEF s

LEMMA StartReading ==
    ASSUME NEW a, WellFormed(a), NEW tail, NEW w, NEW k \in 0..Len(a),
           NEW r, Reading(r, w, a, tail, k), Settled(r)
    PROVE  Reading(StartReply(r), w, a, tail, k)
  <1> DEFINE s == StartReply(r)
  <1>1. IsReader(r) /\ ~r.err
    BY DEF Reading
  <1>2. /\ IsReader(s) /\ s.err = r.err /\ Rest(s) = Rest(r) /\ s.reply = r.reply
        /\ s.task = r.task \/ (r.task = <<>> /\ s.task = <<RootTask>>)
    BY <1>1, StartReader
  <1> HIDE DEF s
  <1>3. CASE s.task = r.task
    BY <1>1, <1>2, <1>3, SameReading DEF s
  <1>4. CASE r.task = <<>> /\ s.task = <<RootTask>>
    <2>1. k = 0 /\ Rest(r) \o w = BytesBehind(a, tail)[0]
      BY <1>4, InFront DEF Settled
    <2>2. <<>> \in NextPlaces(a, 0)
      BY DEF NextPlaces
    <2>3. s.task = Stack(a, <<>>, "unread")
      BY <1>4, RootIs
    <2>4. Untyped(s, w, a, 0, BytesBehind(a, tail)[0])
      BY <1>2, <2>1, <2>2, <2>3 DEF Untyped
    <2>5. s.reply = Reply(a, 0)
      BY <1>2, <2>1 DEF Reading
    <2> QED
      BY <1>1, <1>2, <2>1, <2>4, <2>5 DEF Reading, s
  <1> QED
    BY <1>2, <1>3, <1>4

LEMMA FeedReader ==
    ASSUME NEW r, IsReader(r), ~r.err, NEW bytes \in Seq(Int)
    PROVE  LET s == redisReaderFeed(r, bytes)
           IN  /\ IsReader(s) /\ ~s.err /\ Rest(s) = Rest(r) \o bytes
               /\ s.reply = r.reply /\ s.task = r.task
  <1> DEFINE s == redisReaderFeed(r, bytes)
             b == r.buf \o bytes
  <1>1. s = [buf |-> b, pos |-> r.pos, task |-> r.task, reply |-> r.reply, err |-> r.err]
    BY FeedIs DEF IsReader
  <1> HIDE DEF s
  <1>2. r.buf \in Seq(Int) /\ r.pos \in 0..Len(r.buf)
    BY DEF IsReader
  <1>3. b \in Seq(Int) /\ r.pos \in 0..Len(b)
    <2>1. Len(b) = Len(r.buf) + Len(bytes) /\ b \in Seq(Int) /\ Len(bytes) \in Nat /\ Len(r.buf) \in Nat
      BY <1>2, ConcatProperties, LenProperties
    <2> HIDE DEF b
    <2> QED
      BY <1>2, <2>1
  <1>4. SubSeq(b, r.pos + 1, Len(b)) = SubSeq(r.buf, r.pos + 1, Len(r.buf)) \o bytes
    BY <1>2, RestOfMore
  <1> HIDE DEF b
  <1>5. IsRecord(s) /\ s.buf = b /\ s.pos = r.pos /\ s.task = r.task /\ s.reply = r.reply /\ s.err = r.err
    BY <1>1 DEF IsRecord
  <1>6. Rest(s) = Rest(r) \o bytes
    BY <1>4, <1>5 DEF Rest
  <1> QED
    BY <1>3, <1>5, <1>6 DEF IsReader, s

LEMMA FeedReading ==
    ASSUME NEW a, NEW tail, NEW w \in Seq(Int), NEW n \in 1..Len(w), NEW k,
           NEW r, Reading(r, w, a, tail, k)
    PROVE  Reading(redisReaderFeed(r, SubSeq(w, 1, n)), SubSeq(w, n + 1, Len(w)), a, tail, k)
  <1> DEFINE s == redisReaderFeed(r, SubSeq(w, 1, n))
             x == SubSeq(w, 1, n)
             y == SubSeq(w, n + 1, Len(w))
             R == Rest(r)
             left == BytesBehind(a, tail)[k]
  <1>1. IsReader(r) /\ ~r.err /\ R \in Seq(Int)
    BY ReaderParts DEF Reading
  <1>2. x \in Seq(Int) /\ y \in Seq(Int) /\ x \o y = w
    OBVIOUS
  <1>3. /\ IsReader(s) /\ ~s.err /\ Rest(s) = R \o x
        /\ s.reply = r.reply /\ s.task = r.task
    BY <1>1, <1>2, FeedReader
  <1> HIDE DEF x, y, s, R
  <1>4. (R \o x) \o y = R \o w
    <2>1. (R \o x) \o y = R \o (x \o y)
      BY <1>1, <1>2, Associative, ZenonT(60)
    <2> QED
      BY <1>2, <2>1
  <1>5. Rest(s) \o y = Rest(r) \o w
    BY <1>3, <1>4 DEF R
  <1>6. /\ r.reply = Reply(a, k)
        /\ \/ Before(r, w, left) /\ (k = 0 \/ NextPlaces(a, k) = {})
           \/ Untyped(r, w, a, k, left)
           \/ Halfway(r, w, a, k, left)
    BY DEF Reading
  <1> HIDE DEF left
  <1>7. /\ Before(r, w, left) => Before(s, y, left)
        /\ Untyped(r, w, a, k, left) => Untyped(s, y, a, k, left)
        /\ Halfway(r, w, a, k, left) => Halfway(s, y, a, k, left)
    BY <1>3, <1>5 DEF Before, Untyped, Halfway
  <1> QED
    BY <1>3, <1>6, <1>7 DEF Reading, left, s, x, y
LEMMA EmptyReply == WellFormed(<<>>) /\ BytesBehind(<<>>, <<>>)[0] = <<>> /\ GoodTail(<<>>, <<>>)
  <1>1. WellFormed(<<>>)
    BY DEF WellFormed
  <1>2. <<>> \in Seq(Int) /\ Len(<<>>) = 0
    OBVIOUS
  <1>3. BytesBehind(<<>>, <<>>)[Len(<<>>)] = <<>>
    BY <1>1, <1>2, BehindDef
  <1> QED
    BY <1>1, <1>2, <1>3 DEF GoodTail

\* The stack is empty only in front of a reply and behind it.
LEMMA NoTask ==
    ASSUME NEW a, WellFormed(a), NEW tail, NEW w, NEW k \in 0..Len(a),
           NEW r, Reading(r, w, a, tail, k), r.task = <<>>
    PROVE  Rest(r) \o w = BytesBehind(a, tail)[k] /\ (k = 0 \/ NextPlaces(a, k) = {})
  <1> DEFINE left == BytesBehind(a, tail)[k]
  <1>1. \/ Before(r, w, left) /\ (k = 0 \/ NextPlaces(a, k) = {})
        \/ Untyped(r, w, a, k, left)
        \/ Halfway(r, w, a, k, left)
    BY DEF Reading
  <1> HIDE DEF left
  <1>2. ASSUME Untyped(r, w, a, k, left) PROVE FALSE
    <2>1. PICK p \in NextPlaces(a, k) : r.task = Stack(a, p, "unread")
      BY <1>2 DEF Untyped
    <2> QED
      BY <2>1, NextIsPlace, TopOfStack
  <1>3. ASSUME Halfway(r, w, a, k, left) PROVE FALSE
    <2>1. PICK p \in NextPlaces(a, k), b \in DOMAIN TypeOf : r.task = Stack(a, p, TypeOf[b])
      BY <1>3 DEF Halfway
    <2> QED
      BY <2>1, NextIsPlace, TopOfStack
  <1>4. Before(r, w, left) => Rest(r) \o w = left
    BY DEF Before
  <1>5. Before(r, w, left) /\ (k = 0 \/ NextPlaces(a, k) = {})
    BY <1>1, <1>2, <1>3
  <1>6. Rest(r) \o w = left
    BY <1>4, <1>5
  <1> QED
    BY <1>5, <1>6, ZenonT(30) DEF left

\* Behind a reply no byte is left.
LEMMA Complete ==
    ASSUME NEW a, WellFormed(a), NEW tail, GoodTail(a, tail), NEW w \in Seq(Int), NEW k \in 0..Len(a),
           NEW r, Reading(r, w, a, tail, k), r.task = <<>>, k # 0
    PROVE  /\ Rest(r) = <<>> /\ w = <<>> /\ k = Len(a) /\ tail = <<>>
           /\ r.reply = Seen(a) /\ r.reply # NoReply
  <1>1. Rest(r) \o w = BytesBehind(a, tail)[k] /\ NextPlaces(a, k) = {}
    <2>1. Rest(r) \o w = BytesBehind(a, tail)[k] /\ (k = 0 \/ NextPlaces(a, k) = {})
      BY NoTask, ZenonT(30)
    <2> QED
      BY <2>1
  <1>2. k = Len(a) /\ tail = <<>> /\ BytesBehind(a, tail)[k] = <<>>
    BY <1>1, LastPlace
  <1>3. Rest(r) = <<>> /\ w = <<>>
    <2>1. Rest(r) \in Seq(Int)
      BY ReaderParts DEF Reading
    <2>2. Rest(r) \o w = <<>>
      BY <1>1, <1>2
    <2> QED
      BY <2>1, <2>2, NothingBehind
  <1>4. r.reply = Built(a, Len(a))
    BY <1>2 DEF Reading, Reply
  <1>5. Built(a, Len(a)) = Seen(a)
    BY WellFormedParts DEF Built, Seen
  <1>6. Built(a, Len(a)) # NoReply
    <2>1. Len(a) \in Nat \ {0}
      BY <1>2, WellFormedParts
    <2> QED
      BY <2>1, BuiltSomething
  <1> QED
    BY <1>2, <1>3, <1>4, <1>5, <1>6

LEMMA AfterReader ==
    ASSUME NEW r, IsReader(r), ~r.err
    PROVE  LET s == AfterReply(r)
           IN  /\ IsReader(s) /\ ~s.err /\ Rest(s) = Rest(r) /\ s.task = r.task
               /\ s.reply = IF r.task = <<>> THEN NoReply ELSE r.reply
  <1> DEFINE s == AfterReply(r)
             b == IF r.pos >= Discard THEN Rest(r) ELSE r.buf
             p == IF r.pos >= Discard THEN 0 ELSE r.pos
  <1>1. s = [buf |-> b, pos |-> p, task |-> r.task,
             reply |-> IF r.task = <<>> THEN NoReply ELSE r.reply, err |-> r.err]
    BY AfterIs DEF IsReader
  <1> HIDE DEF s
  <1>2. r.buf \in Seq(Int) /\ r.pos \in 0..Len(r.buf) /\ Rest(r) \in Seq(Int) /\ Len(Rest(r)) \in Nat
    BY ReaderParts DEF IsReader
  <1>3. b \in Seq(Int) /\ p \in 0..Len(b) /\ SubSeq(b, p + 1, Len(b)) = Rest(r)
    <2>1. CASE r.pos >= Discard
      <3>1. SubSeq(Rest(r), 0 + 1, Len(Rest(r))) = Rest(r)
        <4> DEFINE R == Rest(r)
                   x == SubSeq(R, 0 + 1, Len(R))
        <4> HIDE DEF R
        <4>1. 0 \in 0..Len(R) /\ R \in Seq(Int) /\ Len(R) \in Nat
          BY <1>2 DEF R
        <4>2. x \in Seq(Int) /\ Len(x) = Len(R) - 0 /\ \A i \in 1..Len(x) : x[i] = R[0 + i]
          BY <4>1, RestOf
        <4> HIDE DEF x
        <4>3. Len(x) = Len(R) /\ \A i \in 1..Len(x) : x[i] = R[i]
          BY <4>1, <4>2
        <4>4. x = R
          BY <4>1, <4>2, <4>3, SeqEqual
        <4> QED
          BY <4>4 DEF x, R
      <3>2. b = Rest(r) /\ p = 0
        BY <2>1
      <3> HIDE DEF b, p
      <3> QED
        BY <1>2, <3>1, <3>2
    <2>2. CASE ~(r.pos >= Discard)
      BY <1>2, <2>2 DEF Rest
    <2> QED
      BY <2>1, <2>2
  <1> HIDE DEF b, p
  <1>4. /\ IsRecord(s) /\ s.buf = b /\ s.pos = p /\ s.task = r.task /\ s.err = r.err
        /\ s.reply = IF r.task = <<>> THEN NoReply ELSE r.reply
    BY <1>1 DEF IsRecord
  <1>5. Rest(s) = Rest(r)
    <2>1. Rest(s) = SubSeq(b, p + 1, Len(b))
      BY <1>4, ZenonT(30) DEF Rest
    <2> QED
      BY <1>3, <2>1
  <1>6. IsReader(s)
    BY <1>3, <1>4 DEF IsReader
  <1> QED
    BY <1>4, <1>5, <1>6 DEF s

\* When no turn is left the type of the next object may have been read.
LEMMA TypedReading ==
    ASSUME NEW a, WellFormed(a), NEW tail, GoodTail(a, tail), NEW w \in Seq(Int), NEW k \in 0..Len(a),
           NEW r, Reading(r, w, a, tail, k), Items(r) = {}
    PROVE  Reading(Typed(r), w, a, tail, k) /\ (Typed(r).task = <<>> <=> r.task = <<>>)
  <1> DEFINE left == BytesBehind(a, tail)[k]
             t == Typed(r)
  <1>1. /\ IsReader(r) /\ ~r.err /\ r.reply = Reply(a, k)
        /\ Before(r, w, left) \/ Untyped(r, w, a, k, left) \/ Halfway(r, w, a, k, left)
    BY DEF Reading
  <1> HIDE DEF left, t
  <1>2. CASE t = r
    BY <1>2 DEF t
  <1>3. CASE t # r
    <2>1. r.task # <<>> /\ Rest(r) # <<>> /\ Last(r.task).type = "unread"
      BY <1>3 DEF t, Typed
    <2>2. Untyped(r, w, a, k, left)
      <3>1. ~Before(r, w, left)
        BY <2>1 DEF Before
      <3>2. ASSUME Halfway(r, w, a, k, left) PROVE FALSE
        <4>1. PICK p \in NextPlaces(a, k), b \in DOMAIN TypeOf : r.task = Stack(a, p, TypeOf[b])
          BY <3>2 DEF Halfway
        <4>2. Last(r.task).type = TypeOf[b]
          BY <4>1, NextIsPlace, TopOfStack
        <4> QED
          BY <2>1, <4>2, TypeBytes
      <3> QED
        BY <1>1, <3>1, <3>2
    <2>3. \/ IsReader(t) /\ ~t.err /\ t.reply = Reply(a, k) /\ t.task # <<>> /\ Halfway(t, w, a, k, left)
          \/ t = SetError(r) /\ tail # <<>> /\ k = Len(a)
      BY <1>1, <2>1, <2>2, UntypedStep DEF left, t
    <2>4. t # SetError(r)
      <3> SUFFICES ASSUME t = SetError(r) PROVE FALSE
        OBVIOUS
      <3>1. t.err
        BY ErrorReader
      <3>2. processItem(t) = {t}
        BY <3>1 DEF processItem
      <3> QED
        BY <2>1, <3>2 DEF Items, t
    <2> QED
      BY <2>1, <2>3, <2>4 DEF Reading, left, t
  <1> QED
    BY <1>2, <1>3

LEMMA StillReading ==
    ASSUME NEW a, WellFormed(a), NEW tail, GoodTail(a, tail), NEW w \in Seq(Int), NEW k \in 0..Len(a),
           NEW r, Reading(r, w, a, tail, k), Items(r) = {}, Emitted(r) = NoReply
    PROVE  Reading(AfterReply(Typed(r)), w, a, tail, k)
  <1> DEFINE t == Typed(r)
             s == AfterReply(t)
  <1>1. Reading(t, w, a, tail, k) /\ (t.task = <<>> <=> r.task = <<>>)
    BY TypedReading
  <1>2. t.task = <<>> => t = r
    BY <1>1 DEF Typed
  <1> HIDE DEF t
  <1>3. IsReader(t) /\ ~t.err
    BY <1>1 DEF Reading
  <1>4. /\ IsReader(s) /\ ~s.err /\ Rest(s) = Rest(t) /\ s.task = t.task
        /\ s.reply = IF t.task = <<>> THEN NoReply ELSE t.reply
    BY <1>3, AfterReader
  <1> HIDE DEF s
  <1>5. s.reply = t.reply
    BY <1>2, <1>4 DEF Emitted
  <1> QED
    BY <1>1, <1>4, <1>5, SameReading DEF s, t

LEMMA QuietAfter ==
    ASSUME NEW a, WellFormed(a), NEW tail, GoodTail(a, tail), NEW w \in Seq(Int), NEW k \in 0..Len(a),
           NEW r, Reading(r, w, a, tail, k), Emitted(r) # NoReply
    PROVE  /\ r.task = <<>> /\ a # <<>> /\ tail = <<>> /\ Emitted(r) = Seen(a)
           /\ Reading(AfterReply(Typed(r)), w, <<>>, <<>>, 0) /\ AfterReply(Typed(r)).reply = NoReply
  <1>1. r.task = <<>> /\ r.reply # NoReply /\ Typed(r) = r /\ Emitted(r) = r.reply
    BY DEF Emitted, Typed
  <1>2. k # 0
    BY <1>1 DEF Reading, Reply
  <1>3. Rest(r) = <<>> /\ w = <<>> /\ k = Len(a) /\ tail = <<>> /\ r.reply = Seen(a)
    BY <1>1, <1>2, Complete
  <1>4. a # <<>>
    BY <1>2, <1>3
  <1> DEFINE s == AfterReply(r)
  <1>5. IsReader(s) /\ ~s.err /\ Rest(s) = Rest(r) /\ s.task = <<>> /\ s.reply = NoReply
    BY <1>1, AfterReader DEF Reading
  <1> HIDE DEF s
  <1>6. Before(s, w, BytesBehind(<<>>, <<>>)[0])
    <2>1. Rest(s) \o w = <<>>
      BY <1>3, <1>5
    <2> QED
      BY <1>5, <2>1, EmptyReply DEF Before
  <1>7. Reading(s, w, <<>>, <<>>, 0)
    BY <1>5, <1>6 DEF Reading, Reply
  <1> QED
    BY <1>1, <1>3, <1>4, <1>5, <1>7 DEF s
\* The server answers a client that has read everything.
LEMMA MoreReading ==
    ASSUME NEW w \in Seq(Int), NEW r, Reading(r, w, <<>>, <<>>, 0),
           NEW a, WellFormed(a), NEW tail \in Seq(Int)
    PROVE  Reading(r, w \o BytesBehind(a, tail)[0], a, tail, 0)
  <1> DEFINE B == BytesBehind(a, tail)[0]
             E == BytesBehind(<<>>, <<>>)[0]
  <1>1. /\ IsReader(r) /\ ~r.err /\ r.reply = NoReply /\ Rest(r) \in Seq(Int)
        /\ Before(r, w, E) \/ Untyped(r, w, <<>>, 0, E) \/ Halfway(r, w, <<>>, 0, E)
    BY ReaderParts DEF Reading, Reply
  <1>2. E = <<>> /\ B \in Seq(Int)
    <2>1. 0 \in 0..Len(a)
      BY WellFormedParts
    <2> QED
      BY <2>1, EmptyReply, BehindDef
  <1> HIDE DEF B, E
  <1>3. Rest(r) \o w = <<>> => Rest(r) \o (w \o B) = B
    <2> SUFFICES ASSUME Rest(r) \o w = <<>> PROVE Rest(r) \o (w \o B) = B
      OBVIOUS
    <2>1. Rest(r) = <<>> /\ w = <<>>
      BY <1>1, NothingBehind
    <2>2. <<>> \o (<<>> \o B) = B
      BY <1>2
    <2> QED
      BY <2>1, <2>2
  <1>4. CASE Before(r, w, E)
    <2>1. Before(r, w \o B, B)
      BY <1>2, <1>3, <1>4 DEF Before
    <2> QED
      BY <1>1, <2>1 DEF Reading, Reply, B
  <1>5. CASE Untyped(r, w, <<>>, 0, E)
    <2>1. PICK p \in NextPlaces(<<>>, 0) : r.task = Stack(<<>>, p, "unread") /\ Rest(r) \o w = <<>>
      BY <1>2, <1>5 DEF Untyped
    <2>2. p = <<>> /\ p \in NextPlaces(a, 0)
      BY DEF NextPlaces
    <2>3. r.task = Stack(a, p, "unread")
      BY <2>1, <2>2, RootIs
    <2>4. Untyped(r, w \o B, a, 0, B)
      BY <1>3, <2>1, <2>2, <2>3 DEF Untyped
    <2> QED
      BY <1>1, <2>4 DEF Reading, Reply, B
  <1>6. ASSUME Halfway(r, w, <<>>, 0, E) PROVE FALSE
    <2>1. PICK b \in DOMAIN TypeOf, u \in Seq(Int) : <<>> = <<b>> \o u
      BY <1>2, <1>6 DEF Halfway
    <2>2. b \in Int
      BY TypeBytes
    <2>3. Len(<<b>> \o u) = Len(<<b>>) + Len(u) /\ Len(<<b>>) = 1 /\ Len(u) \in Nat /\ Len(<<>>) = 0
      <3>1. <<b>> \in Seq(Int) /\ Len(<<b>>) = 1 /\ Len(<<>>) = 0
        BY <2>2
      <3> QED
        BY <3>1, ConcatProperties, LenProperties
    <2>4. Len(<<b>> \o u) = 0
      BY <2>1, <2>3
    <2> QED
      BY <2>3, <2>4
  <1> QED
    BY <1>1, <1>4, <1>5, <1>6

(***************************************************************************)
(* Readers that wait for bytes.                                            *)
(***************************************************************************)
Waits(R, type) ==
    \A line \in Lines(R) :
        type = "string" /\ IsNumber(line) /\ string2ll(line) >= 0 /\ ~(BulkEnd(line) <= Len(R))

LEMMA WaitsIs ==
    ASSUME NEW t, ~t.err
    PROVE  processItem(t) = {} <=> Waits(Rest(t), Last(t.task).type)
  <1> DEFINE type == Last(t.task).type
             F(l) == CASE type = "array" -> {processAggregateItem(t, l)}
                       [] type = "string" ->
                             IF IsNumber(l) /\ string2ll(l) >= 0 /\ ~BulkThere(t, l) THEN {}
                             ELSE {processBulkItem(t, l)}
                       [] OTHER -> {processLineItem(t, l)}
             G(l) == type = "string" /\ IsNumber(l) /\ string2ll(l) >= 0 /\ ~(BulkEnd(l) <= Len(Rest(t)))
  <1>1. processItem(t) = UNION {F(l) : l \in Lines(Rest(t))}
    BY DEF processItem
  <1>2. ASSUME NEW l PROVE F(l) = {} <=> G(l)
    <2>1. BulkThere(t, l) <=> BulkEnd(l) <= Len(Rest(t))
      BY DEF BulkThere
    <2>2. CASE type = "array"
      BY <2>2
    <2>3. CASE type = "string"
      <3>1. F(l) = IF IsNumber(l) /\ string2ll(l) >= 0 /\ ~BulkThere(t, l) THEN {}
                   ELSE {processBulkItem(t, l)}
        BY <2>3
      <3> HIDE DEF F
      <3> QED
        BY <2>1, <2>3, <3>1
    <2>4. CASE type \notin {"array", "string"}
      <3>1. F(l) = {processLineItem(t, l)}
        BY <2>4
      <3> HIDE DEF F
      <3> QED
        BY <2>4, <3>1
    <2> QED
      BY <2>2, <2>3, <2>4
  <1>3. Waits(Rest(t), type) <=> \A l \in Lines(Rest(t)) : G(l)
    BY DEF Waits
  <1> HIDE DEF F, G, type
  <1>4. processItem(t) = {} <=> \A l \in Lines(Rest(t)) : F(l) = {}
    BY <1>1
  <1> QED
    BY <1>2, <1>3, <1>4 DEF type

\* What the bytes that are there make of a reader does not change it any more.
Stuck(r) == Items(StartReply(r)) = {} /\ Settled(r)

LEMMA StuckWaits ==
    ASSUME NEW r, Stuck(r)
    PROVE  Items(r) = {} /\ Emitted(r) = NoReply
  <1>1. CASE r.task = <<>>
    BY <1>1 DEF Stuck, Items, Emitted, Settled
  <1>2. CASE r.task # <<>>
    <2>1. StartReply(r) = r
      BY <1>2 DEF StartReply
    <2> QED
      BY <1>2, <2>1 DEF Stuck, Emitted
  <1> QED
    BY <1>1, <1>2

LEMMA StuckStart ==
    ASSUME NEW r, IsReader(r), Stuck(r)
    PROVE  Stuck(StartReply(r))
  <1> DEFINE s == StartReply(r)
  <1>1. /\ IsReader(s) /\ s.err = r.err /\ Rest(s) = Rest(r) /\ s.reply = r.reply
        /\ s.task = r.task \/ (r.task = <<>> /\ s.task = <<RootTask>>)
    BY StartReader
  <1>2. StartReply(s) = s
    <2>1. CASE s = r
      BY <2>1
    <2>2. CASE s # r
      <3>1. s.task # <<>>
        <4>1. ~(r.err \/ r.buf = <<>> \/ r.task # <<>>)
          BY <2>2 DEF StartReply
        <4>2. s.task = <<RootTask>>
          <5>1. s = [buf |-> r.buf, pos |-> r.pos,
                     task |-> IF ~r.err /\ r.buf # <<>> /\ r.task = <<>> THEN <<RootTask>> ELSE r.task,
                     reply |-> r.reply, err |-> r.err]
            BY StartIs DEF IsReader
          <5> HIDE DEF s
          <5> QED
            BY <4>1, <5>1
        <4> HIDE DEF s
        <4>3. <<RootTask>> # <<>>
          OBVIOUS
        <4> QED
          BY <4>2, <4>3
      <3> QED
        BY <3>1 DEF StartReply
    <2> QED
      BY <2>1, <2>2
  <1>3. Items(s) = {}
    BY DEF Stuck
  <1> HIDE DEF s
  <1>4. Settled(s)
    <2>1. CASE s.task = r.task
      BY <1>1, <2>1 DEF Stuck, Settled
    <2>2. CASE s.task = <<RootTask>>
      <3>1. <<RootTask>> # <<>>
        OBVIOUS
      <3> QED
        BY <2>2, <3>1 DEF Settled
    <2> QED
      BY <1>1, <2>1, <2>2
  <1> QED
    BY <1>2, <1>3, <1>4 DEF Stuck, s
\* The type of a reader that waits has been read, unless no byte is there.
LEMMA TypedWaits ==
    ASSUME NEW r, IsReader(r), ~r.err, r.task # <<>>, Items(r) = {}
    PROVE  LET t == Typed(r)
           IN  /\ IsReader(t) /\ ~t.err /\ t.task # <<>> /\ processItem(t) = {}
               /\ Last(t.task).type = "unread" => Rest(t) = <<>>
  <1> DEFINE t == Typed(r)
  <1>1. processItem(t) = {}
    BY DEF Items
  <1>2. ~t.err
    BY <1>1 DEF processItem
  <1> HIDE DEF t
  <1>3. CASE Last(r.task).type # "unread"
    BY <1>1, <1>3, AlreadyTyped DEF t
  <1>4. CASE Rest(r) = <<>>
    BY <1>1, <1>4, NothingToRead DEF t
  <1>5. CASE Last(r.task).type = "unread" /\ Rest(r) # <<>>
    <2> DEFINE b == Rest(r)[1]
    <2>1. b \in DOMAIN TypeOf
      <3> SUFFICES ASSUME b \notin DOMAIN TypeOf PROVE FALSE
        OBVIOUS
      <3>1. t = SetError(r)
        BY <1>5, WithoutType DEF t
      <3>2. SetError(r).err
        BY ErrorReader
      <3> QED
        BY <1>2, <3>1, <3>2
    <2>2. PICK a, type : \E p \in Seq(Nat) : r.task = Stack(a, p, type)
      BY DEF IsReader, IsTask
    <2>3. PICK p \in Seq(Nat) : r.task = Stack(a, p, type)
      BY <2>2
    <2>4. type = "unread"
      BY <1>5, <2>3, TopOfStack
    <2>5. \E u \in Seq(Int) : Rest(r) = <<b>> \o u
      <3>1. Rest(r) \in Seq(Int)
        BY ReaderParts
      <3> QED
        BY <1>5, <3>1, OneByte
    <2> HIDE DEF b
    <2>6. PICK u \in Seq(Int) : Rest(r) = <<b>> \o u
      BY <2>5
    <2>7. IsReader(t) /\ ~t.err /\ t.task = Stack(a, p, TypeOf[b])
      BY <2>1, <2>3, <2>4, <2>6, TypedStep DEF t
    <2>8. t.task # <<>> /\ Last(t.task).type = TypeOf[b]
      BY <2>3, <2>7, TopOfStack
    <2>9. TypeOf[b] # "unread"
      BY <2>1, TypeBytes
    <2> QED
      BY <1>1, <2>7, <2>8, <2>9 DEF t
  <1> QED
    BY <1>3, <1>4, <1>5

\* When redisGetReply leaves the reader for the socket, another look at it finds nothing.
LEMMA StuckAfter ==
    ASSUME NEW r, IsReader(r), ~r.err, Items(r) = {}, r.task = <<>> => Rest(r) = <<>>
    PROVE  LET s == AfterReply(Typed(r)) IN IsReader(s) /\ ~s.err /\ Stuck(s)
  <1> DEFINE t == Typed(r)
             s == AfterReply(t)
  <1>1. CASE r.task = <<>>
    <2>1. t = r
      BY <1>1 DEF Typed
    <2> HIDE DEF t
    <2>2. IsReader(s) /\ ~s.err /\ Rest(s) = <<>> /\ s.reply = NoReply
      BY <1>1, <2>1, AfterReader
    <2> HIDE DEF s
    <2> DEFINE v == StartReply(s)
    <2>3. IsReader(v) /\ v.err = s.err /\ Rest(v) = <<>>
      BY <2>2, StartReader
    <2> HIDE DEF v
    <2>4. Items(v) = {}
      <3>1. Typed(v) = v /\ processItem(v) = {}
        BY <2>2, <2>3, NothingToRead
      <3> QED
        BY <3>1 DEF Items
    <2>5. Settled(s)
      BY <2>2 DEF Settled
    <2> QED
      BY <2>2, <2>4, <2>5 DEF Stuck, v, s, t
  <1>2. CASE r.task # <<>>
    <2>1. /\ IsReader(t) /\ ~t.err /\ t.task # <<>> /\ processItem(t) = {}
          /\ Last(t.task).type = "unread" => Rest(t) = <<>>
      BY <1>2, TypedWaits
    <2> HIDE DEF t
    <2>2. IsReader(s) /\ ~s.err /\ Rest(s) = Rest(t) /\ s.task = t.task
      BY <2>1, AfterReader
    <2> HIDE DEF s
    <2>3. StartReply(s) = s
      BY <2>1, <2>2 DEF StartReply
    <2>4. Typed(s) = s
      BY <2>1, <2>2 DEF Typed
    <2>5. processItem(s) = {}
      <3>1. Waits(Rest(t), Last(t.task).type)
        BY <2>1, WaitsIs
      <3>2. Waits(Rest(s), Last(s.task).type)
        BY <2>2, <3>1
      <3> QED
        BY <2>2, <3>2, WaitsIs
    <2>6. Items(s) = {}
      BY <2>4, <2>5 DEF Items
    <2>7. Settled(s)
      BY <2>1, <2>2 DEF Settled
    <2> QED
      BY <2>2, <2>3, <2>6, <2>7 DEF Stuck, s, t
  <1> QED
    BY <1>1, <1>2
(***************************************************************************)
(* The reader somewhere in a reply, whatever its place.                    *)
(***************************************************************************)
AtReply(r, w, a, tail) ==
    WellFormed(a) /\ GoodTail(a, tail) /\ \E k \in 0..Len(a) : Reading(r, w, a, tail, k)

LEMMA AtReader ==
    ASSUME NEW r, NEW w, NEW a, NEW tail, AtReply(r, w, a, tail)
    PROVE  IsReader(r) /\ ~r.err
  BY DEF AtReply, Reading

LEMMA StartAt ==
    ASSUME NEW r, NEW w, NEW a, NEW tail, AtReply(r, w, a, tail), Settled(r)
    PROVE  AtReply(StartReply(r), w, a, tail)
  BY StartReading, ZenonT(30) DEF AtReply

LEMMA FeedAt ==
    ASSUME NEW r, NEW w \in Seq(Int), NEW n \in 1..Len(w), NEW a, NEW tail, AtReply(r, w, a, tail)
    PROVE  AtReply(redisReaderFeed(r, SubSeq(w, 1, n)), SubSeq(w, n + 1, Len(w)), a, tail)
  BY FeedReading, ZenonT(30) DEF AtReply

LEMMA TurnAt ==
    ASSUME NEW r, NEW w \in Seq(Int), NEW a, NEW tail, AtReply(r, w, a, tail), NEW s \in Items(r)
    PROVE  /\ IsReader(s)
           /\ \/ AtReply(s, w, a, tail) /\ ~s.err /\ (s.task = <<>> => Rest(s) = <<>>)
              \/ tail # <<>> /\ s.err /\ s.task = <<>>
  <1>1. PICK k \in 0..Len(a) : Reading(r, w, a, tail, k)
    BY DEF AtReply
  <1>2. WellFormed(a) /\ GoodTail(a, tail) /\ Len(a) \in Nat
    BY WellFormedParts DEF AtReply
  <1>3. Turned(s, w, a, tail, k)
    BY <1>1, <1>2, TurnStep
  <1>4. CASE k < Len(a) /\ Reading(s, w, a, tail, k + 1)
    <2>1. k + 1 \in 0..Len(a) /\ k + 1 # 0
      BY <1>2, <1>4
    <2>2. s.task = <<>> => Rest(s) = <<>>
      BY <1>2, <1>4, <2>1, Complete
    <2>3. AtReply(s, w, a, tail)
      BY <1>2, <1>4, <2>1 DEF AtReply
    <2> QED
      BY <2>2, <2>3, AtReader
  <1>5. CASE tail # <<>> /\ IsReader(s) /\ s.err /\ s.task = <<>>
    BY <1>5
  <1> QED
    BY <1>3, <1>4, <1>5 DEF Turned

LEMMA StillAt ==
    ASSUME NEW r, NEW w \in Seq(Int), NEW a, NEW tail, AtReply(r, w, a, tail), Items(r) = {},
           Emitted(r) = NoReply
    PROVE  AtReply(AfterReply(Typed(r)), w, a, tail)
  BY StillReading, ZenonT(30) DEF AtReply

LEMMA QuietAt ==
    ASSUME NEW r, NEW w \in Seq(Int), NEW a, NEW tail, AtReply(r, w, a, tail), Emitted(r) # NoReply
    PROVE  /\ a # <<>> /\ tail = <<>> /\ Emitted(r) = Seen(a)
           /\ AtReply(AfterReply(Typed(r)), w, <<>>, <<>>) /\ AfterReply(Typed(r)).reply = NoReply
  <1>1. PICK k \in 0..Len(a) : Reading(r, w, a, tail, k)
    BY DEF AtReply
  <1>2. /\ r.task = <<>> /\ a # <<>> /\ tail = <<>> /\ Emitted(r) = Seen(a)
        /\ Reading(AfterReply(Typed(r)), w, <<>>, <<>>, 0) /\ AfterReply(Typed(r)).reply = NoReply
    BY <1>1, QuietAfter DEF AtReply
  <1>3. 0 \in 0..Len(<<>>)
    OBVIOUS
  <1> QED
    BY <1>2, <1>3, EmptyReply DEF AtReply

LEMMA MoreAt ==
    ASSUME NEW r, NEW w \in Seq(Int), AtReply(r, w, <<>>, <<>>), NEW a, WellFormed(a), NEW tail, GoodTail(a, tail)
    PROVE  AtReply(r, w \o BytesBehind(a, tail)[0], a, tail)
  <1>1. Reading(r, w, <<>>, <<>>, 0)
    <2>1. PICK k \in 0..Len(<<>>) : Reading(r, w, <<>>, <<>>, k)
      BY DEF AtReply
    <2>2. k = 0
      OBVIOUS
    <2> QED
      BY <2>1, <2>2
  <1>2. 0 \in 0..Len(a)
    BY WellFormedParts
  <1>3. Reading(r, w \o BytesBehind(a, tail)[0], a, tail, 0)
    BY <1>1, MoreReading, TailParts, ZenonT(30)
  <1> QED
    BY <1>2, <1>3, ZenonT(30) DEF AtReply

LEMMA ReplyParts ==
    ASSUME NEW a \in Replies
    PROVE  WellFormed(a) /\ GoodTail(a, <<>>) /\ a # <<>> /\ Bytes(a) \in Seq(Int)
  <1>1. WellFormed(a) /\ NextPlaces(a, Len(a)) = {}
    BY RepliesAssumption
  <1>2. a # <<>>
    <2> SUFFICES ASSUME a = <<>> PROVE FALSE
      OBVIOUS
    <2>1. NextPlaces(<<>>, 0) = {<<>>} /\ Len(<<>>) = 0
      BY DEF NextPlaces
    <2> QED
      BY <1>1, <2>1
  <1>3. 0 \in 0..Len(a) /\ <<>> \in Seq(Int)
    BY <1>1, WellFormedParts
  <1> QED
    BY <1>1, <1>2, <1>3, BehindDef DEF GoodTail, Bytes

LEMMA MalformedParts ==
    ASSUME NEW m \in Malformed
    PROVE  /\ WellFormed(m.good) /\ GoodTail(m.good, BadLine(m)) /\ BadLine(m) # <<>>
           /\ BytesBehind(m.good, BadLine(m))[0] \in Seq(Int)
  <1>1. WellFormed(m.good) /\ NextPlaces(m.good, Len(m.good)) # {} /\ Junk(m.letter, m.line)
    BY MalformedAssumption DEF Junk
  <1> DEFINE b == <<m.letter>>
             l == m.line
             J == JunkTail(m.letter, m.line)
  <1>2. b \in Seq(Int) /\ l \in Seq(Int) /\ CRLF \in Seq(Int) /\ Len(b) = 1
    BY <1>1 DEF Junk, CRLF
  <1>3. BadLine(m) = J
    <2> HIDE DEF b, l
    <2>1. (b \o l) \o CRLF = b \o (l \o CRLF)
      BY <1>2, Associative
    <2> QED
      BY <2>1 DEF BadLine, JunkTail, b, l
  <1>4. GoodTail(m.good, J)
    BY <1>1 DEF GoodTail
  <1>5. J # <<>>
    <2>1. l \o CRLF \in Seq(Int)
      BY <1>2, LineEnd
    <2> DEFINE x == l \o CRLF
    <2> HIDE DEF x, b
    <2>2. Len(b \o x) = 1 + Len(x) /\ Len(x) \in Nat
      <3>1. x \in Seq(Int)
        BY <2>1 DEF x
      <3> QED
        BY <1>2, <3>1, ConcatProperties, LenProperties, ZenonT(60)
    <2>3. b \o x # <<>>
      <3> SUFFICES ASSUME b \o x = <<>> PROVE FALSE
        OBVIOUS
      <3>1. Len(b \o x) = Len(<<>>) /\ Len(<<>>) = 0
        OBVIOUS
      <3> QED
        BY <2>2, <3>1
    <2> QED
      BY <2>3 DEF JunkTail, b, x
  <1>6. 0 \in 0..Len(m.good) /\ J \in Seq(Int)
    BY <1>1, <1>4, WellFormedParts, TailParts
  <1> HIDE DEF J
  <1>7. BytesBehind(m.good, J)[0] \in Seq(Int)
    BY <1>1, <1>6, BehindDef
  <1> QED
    BY <1>1, <1>3, <1>4, <1>5, <1>7
(***************************************************************************)
(* The inductive invariant.                                                *)
(***************************************************************************)
Outcomes == {Seen(a) : a \in Replies}

ClientTypes ==
    /\ pc \in {"idle", "pending", "write", "read", "scan"}
    /\ obuf \in Seq(Int) /\ err \in BOOLEAN /\ given \in Nat /\ sent \in Nat
    /\ returned \in Seq({NULL} \cup Outcomes)
    /\ request \in Seq(Int) /\ wire \in Seq(Int)
    /\ open \in BOOLEAN /\ welcome \in BOOLEAN /\ genuine \in BOOLEAN
    /\ answers \in Seq(Outcomes)
    /\ IsReader(reader)

\* The client has sent what it was told of, and the command it is at.
InStep == ~err => sent = Len(returned) + (IF pc = "idle" THEN 0 ELSE 1)

\* A server that is there has answered every command that was sent but perhaps the last,
\* whose bytes it has, or the client has.
ServerInStep ==
    open => /\ welcome
            /\ \/ Len(answers) = sent /\ request = <<>> /\ (~err => obuf = <<>>)
               \/ /\ Len(answers) = sent - 1 /\ Len(request) <= CommandSize
                  /\ (~err => Len(request) + Len(obuf) <= CommandSize)

Misread ==
    reader.err => /\ ~genuine /\ reader.task = <<>>
                  /\ ~err => pc \in {"pending", "scan"}

\* The reader has an empty stack only if it has no bytes.
Drained == pc \in {"pending", "scan"} /\ ~reader.err /\ reader.task = <<>> => Rest(reader) = <<>>

\* Outside of redisReaderGetReply, and for ever after an error, the reader has nothing to give.
Quiescent ==
    /\ (err \/ pc \in {"write", "read"}) /\ ~reader.err => Stuck(reader)
    /\ pc = "idle" /\ ~reader.err => Settled(reader)

\* What the reader and the wire hold is nothing, or the answer to the command the client is
\* at, or what is no reply.
Expected(a, tail) ==
    \/ a = <<>> /\ tail = <<>> /\ Len(answers) = Len(returned)
    \/ a # <<>> /\ tail = <<>> /\ Len(answers) = Len(returned) + 1 /\ answers[Len(answers)] = Seen(a)
    \/ tail # <<>> /\ ~genuine /\ ~open
Stream ==
    ~err /\ ~reader.err => \E a, tail : AtReply(reader, wire, a, tail) /\ Expected(a, tail)

ClientInv ==
    /\ ClientTypes /\ InStep /\ ServerInStep /\ Misread /\ Drained /\ Quiescent /\ Stream

LEMMA FreshReader ==
    /\ IsReader(Fresh) /\ ~Fresh.err /\ Fresh.task = <<>> /\ Fresh.reply = NoReply
    /\ Fresh.buf = <<>> /\ Rest(Fresh) = <<>> /\ Settled(Fresh)
    /\ AtReply(Fresh, <<>>, <<>>, <<>>)
  <1>1. IsRecord(Fresh)
    BY FreshIs
  <1>2. /\ Fresh.buf = <<>> /\ Fresh.pos = 0 /\ Fresh.task = <<>> /\ Fresh.reply = NoReply
        /\ Fresh.err = FALSE
    BY DEF Fresh
  <1>3. IsReader(Fresh)
    <2>1. <<>> \in Seq(Int) /\ 0 \in 0..Len(<<>>)
      OBVIOUS
    <2> QED
      BY <1>1, <1>2, <2>1 DEF IsReader, IsTask
  <1>4. Rest(Fresh) = <<>>
    <2>1. Rest(Fresh) \in Seq(Int) /\ Len(Rest(Fresh)) = 0
      <3>1. Rest(Fresh) \in Seq(Int) /\ Len(Rest(Fresh)) = Len(Fresh.buf) - Fresh.pos
        BY <1>3, ReaderParts
      <3> QED
        BY <1>2, <3>1
    <2> QED
      BY <2>1, EmptySeq
  <1>5. Before(Fresh, <<>>, BytesBehind(<<>>, <<>>)[0])
    BY <1>2, <1>4, EmptyReply DEF Before
  <1>6. Reading(Fresh, <<>>, <<>>, <<>>, 0)
    BY <1>2, <1>3, <1>5 DEF Reading, Reply
  <1>7. 0 \in 0..Len(<<>>)
    OBVIOUS
  <1>8. AtReply(Fresh, <<>>, <<>>, <<>>)
    BY <1>6, <1>7, EmptyReply DEF AtReply
  <1> QED
    BY <1>2, <1>3, <1>4, <1>8 DEF Settled

LEMMA ClientInit == Init => ClientInv
  <1> SUFFICES ASSUME Init PROVE ClientInv
    OBVIOUS
  <1> DEFINE a == IF welcome THEN <<>> ELSE TooManyClients
  <1>1. /\ pc = "idle" /\ obuf = <<>> /\ err = FALSE /\ reader = Fresh /\ given = 0 /\ sent = 0
        /\ returned = <<>> /\ request = <<>> /\ welcome \in BOOLEAN /\ open = welcome /\ genuine = TRUE
    BY DEF Init
  <1>2. WellFormed(TooManyClients) /\ GoodTail(TooManyClients, <<>>) /\ TooManyClients # <<>>
        /\ Bytes(TooManyClients) \in Seq(Int) /\ Seen(TooManyClients) \in Outcomes
    BY NullAssumption, ReplyParts DEF Outcomes
  <1>3. wire \in Seq(Int) /\ answers \in Seq(Outcomes)
    <2>1. CASE welcome
      BY <2>1 DEF Init
    <2>2. CASE ~welcome
      BY <1>2, <2>2 DEF Init
    <2> QED
      BY <1>1, <2>1, <2>2
  <1>4. ClientTypes
    <2>1. <<>> \in Seq(Int) /\ <<>> \in Seq({NULL} \cup Outcomes)
      OBVIOUS
    <2>2. IsReader(reader)
      BY <1>1, FreshReader
    <2> QED
      BY <1>1, <1>3, <2>1, <2>2 DEF ClientTypes
  <1>5. InStep
    BY <1>1 DEF InStep
  <1>6. ServerInStep
    <2>1. welcome => answers = <<>>
      BY DEF Init
    <2> QED
      BY <1>1, <2>1 DEF ServerInStep
  <1>7. Misread /\ Drained /\ Quiescent
    BY <1>1, FreshReader DEF Misread, Drained, Quiescent
  <1>8. AtReply(reader, wire, a, <<>>)
    <2>1. CASE welcome
      BY <1>1, <2>1, FreshReader DEF Init
    <2>2. CASE ~welcome
      <3>1. wire = Bytes(TooManyClients) /\ a = TooManyClients
        BY <2>2 DEF Init
      <3>2. <<>> \in Seq(Int) /\ <<>> \o Bytes(TooManyClients) = Bytes(TooManyClients)
        BY <1>2
      <3>3. AtReply(reader, <<>> \o BytesBehind(a, <<>>)[0], a, <<>>)
        BY <1>1, <1>2, <3>1, <3>2, FreshReader, MoreAt, ZenonT(30)
      <3> QED
        BY <3>1, <3>2, <3>3 DEF Bytes
    <2> QED
      BY <1>1, <2>1, <2>2
  <1>9. Expected(a, <<>>)
    <2>1. CASE welcome
      BY <1>1, <2>1 DEF Init, Expected
    <2>2. CASE ~welcome
      <3>1. answers = <<Seen(TooManyClients)>> /\ a = TooManyClients
        BY <2>2 DEF Init
      <3>2. Len(answers) = 1 /\ answers[1] = Seen(a) /\ Len(returned) = 0
        BY <1>1, <3>1
      <3> HIDE DEF a
      <3> QED
        BY <1>2, <3>1, <3>2 DEF Expected
    <2> QED
      BY <1>1, <2>1, <2>2
  <1>10. Stream
    BY <1>8, <1>9 DEF Stream
  <1> QED
    BY <1>4, <1>5, <1>6, <1>7, <1>10 DEF ClientInv
LEMMA FormattedIs ==
    ASSUME NEW k \in Int
    PROVE  Formatted(k) \in Seq(Int) /\ Len(Formatted(k)) = CommandSize
  BY CommandAssumption DEF Formatted

LEMMA CommandInv == ClientInv /\ Command => ClientInv'
  <1> SUFFICES ASSUME ClientInv, Command PROVE ClientInv'
    OBVIOUS
  <1>1. ClientTypes /\ InStep /\ ServerInStep /\ Misread /\ Drained /\ Quiescent /\ Stream
    BY DEF ClientInv
  <1>2. /\ pc = "idle" /\ given' = given + 1 /\ sent' = IF err THEN sent ELSE sent + 1
        /\ obuf' = obuf \o Formatted(given') /\ pc' = "pending" /\ reader' = StartReply(reader)
        /\ err' = err /\ returned' = returned /\ request' = request /\ wire' = wire /\ open' = open
        /\ welcome' = welcome /\ genuine' = genuine /\ answers' = answers
    BY DEF Command, serverVars
  <1>3. /\ IsReader(reader') /\ reader'.err = reader.err
        /\ ~reader'.err /\ reader'.task = <<>> => Rest(reader') = <<>>
    BY <1>1, <1>2, StartReader DEF ClientTypes
  <1>4. obuf' \in Seq(Int) /\ Len(obuf') = Len(obuf) + CommandSize /\ Len(obuf) \in Nat
    <2>1. Formatted(given') \in Seq(Int) /\ Len(Formatted(given')) = CommandSize /\ obuf \in Seq(Int)
      <3>1. given' \in Int /\ obuf \in Seq(Int)
        BY <1>1, <1>2 DEF ClientTypes
      <3> QED
        BY <3>1, FormattedIs
    <2> QED
      BY <1>2, <2>1, ConcatProperties, LenProperties
  <1>5. ClientTypes'
    <2>1. sent' \in Nat /\ given' \in Nat
      BY <1>1, <1>2 DEF ClientTypes
    <2> QED
      BY <1>1, <1>2, <1>3, <1>4, <2>1 DEF ClientTypes
  <1>6. sent \in Nat /\ Len(returned) \in Nat /\ Len(answers) \in Nat
    BY <1>1, LenProperties DEF ClientTypes
  <1>7. InStep'
    BY <1>1, <1>2, <1>6 DEF InStep
  <1>8. ServerInStep'
    <2> SUFFICES ASSUME open PROVE ServerInStep'
      BY <1>2 DEF ServerInStep
    <2>1. CASE err
      BY <1>1, <1>2, <2>1 DEF ServerInStep
    <2>2. CASE ~err
      <3>1. ~reader.err
        BY <1>1, <1>2, <2>2 DEF Misread
      <3>2. Len(answers) >= Len(returned)
        <4>1. PICK a, tail : Expected(a, tail)
          BY <1>1, <2>2, <3>1 DEF Stream
        <4> QED
          BY <1>6, <4>1 DEF Expected
      <3>3. sent = Len(returned)
        BY <1>1, <1>2, <1>6, <2>2 DEF InStep
      <3>4. welcome /\ Len(answers) = sent /\ request = <<>> /\ obuf = <<>>
        BY <1>1, <1>6, <2>2, <3>2, <3>3 DEF ServerInStep
      <3>5. Len(request) = 0 /\ Len(obuf) = 0
        BY <3>4
      <3>6. /\ Len(answers') = sent' - 1 /\ Len(request') <= CommandSize
            /\ Len(request') + Len(obuf') <= CommandSize
        BY <1>2, <1>4, <1>6, <2>2, <3>4, <3>5, CommandAssumption
      <3> QED
        BY <1>2, <3>4, <3>6 DEF ServerInStep
    <2> QED
      BY <2>1, <2>2
  <1>9. Misread'
    <2>1. reader.err => reader' = reader
      BY <1>2 DEF StartReply
    <2> QED
      BY <1>1, <1>2, <1>3, <2>1 DEF Misread
  <1>10. Drained'
    BY <1>3 DEF Drained
  <1>11. Quiescent'
    <2>1. Stuck(reader) => Stuck(reader')
      BY <1>1, <1>2, StuckStart DEF ClientTypes
    <2> QED
      BY <1>1, <1>2, <1>3, <2>1 DEF Quiescent
  <1>12. Stream'
    <2> SUFFICES ASSUME ~err, ~reader.err PROVE Stream'
      BY <1>2, <1>3 DEF Stream
    <2>1. PICK a, tail : AtReply(reader, wire, a, tail) /\ Expected(a, tail)
      BY <1>1 DEF Stream
    <2>2. Settled(reader)
      BY <1>1, <1>2 DEF Quiescent
    <2>3. AtReply(reader', wire', a, tail)
      BY <1>2, <2>1, <2>2, StartAt
    <2>4. Expected(a, tail)'
      BY <1>2, <2>1 DEF Expected
    <2> QED
      BY <2>3, <2>4 DEF Stream
  <1> QED
    BY <1>5, <1>7, <1>8, <1>9, <1>10, <1>11, <1>12 DEF ClientInv

LEMMA ProcessItemInv == ClientInv /\ ProcessItem => ClientInv'
  <1> SUFFICES ASSUME ClientInv, ProcessItem PROVE ClientInv'
    OBVIOUS
  <1>1. ClientTypes /\ InStep /\ ServerInStep /\ Misread /\ Drained /\ Quiescent /\ Stream
    BY DEF ClientInv
  <1>2. /\ pc \in {"pending", "scan"} /\ reader' \in Items(reader)
        /\ pc' = pc /\ obuf' = obuf /\ err' = err /\ given' = given /\ sent' = sent
        /\ returned' = returned /\ request' = request /\ wire' = wire /\ open' = open
        /\ welcome' = welcome /\ genuine' = genuine /\ answers' = answers
    BY DEF ProcessItem, serverVars
  <1>3. ~err /\ ~reader.err
    <2>1. reader.err => Items(reader) = {}
      BY <1>1 DEF Misread, Items
    <2>2. err /\ ~reader.err => Items(reader) = {}
      BY <1>1, StuckWaits DEF Quiescent
    <2> QED
      BY <1>2, <2>1, <2>2
  <1>4. PICK a, tail : AtReply(reader, wire, a, tail) /\ Expected(a, tail)
    BY <1>1, <1>3 DEF Stream
  <1>5. /\ IsReader(reader')
        /\ \/ /\ AtReply(reader', wire, a, tail) /\ ~reader'.err
              /\ reader'.task = <<>> => Rest(reader') = <<>>
           \/ tail # <<>> /\ reader'.err /\ reader'.task = <<>>
    <2>1. wire \in Seq(Int)
      BY <1>1 DEF ClientTypes
    <2> QED
      BY <1>2, <1>4, <2>1, TurnAt
  <1>6. Expected(a, tail)'
    BY <1>2, <1>4 DEF Expected
  <1>7. ClientTypes'
    BY <1>1, <1>2, <1>5 DEF ClientTypes
  <1>8. InStep' /\ ServerInStep'
    BY <1>1, <1>2 DEF InStep, ServerInStep
  <1>9. Misread'
    <2>1. tail # <<>> => ~genuine
      BY <1>4 DEF Expected
    <2> QED
      BY <1>2, <1>5, <2>1 DEF Misread
  <1>10. Drained' /\ Quiescent'
    BY <1>2, <1>3, <1>5 DEF Drained, Quiescent
  <1>11. Stream'
    <2>1. ~reader'.err => AtReply(reader', wire', a, tail)
      BY <1>2, <1>5
    <2> QED
      BY <1>6, <2>1 DEF Stream
  <1> QED
    BY <1>7, <1>8, <1>9, <1>10, <1>11 DEF ClientInv
\* A reply that redisGetReply returns is the server's answer to the command.
LEMMA Returns ==
    ASSUME ClientInv, pc \in {"pending", "scan"}, Items(reader) = {}, ~reader.err, Emitted(reader) # NoReply
    PROVE  /\ ~err /\ Len(answers) = Len(returned) + 1 /\ Emitted(reader) = answers[Len(answers)]
           /\ AtReply(AfterReply(Typed(reader)), wire, <<>>, <<>>)
           /\ AfterReply(Typed(reader)).reply = NoReply
  <1>1. wire \in Seq(Int) /\ Quiescent /\ Stream
    BY DEF ClientInv, ClientTypes
  <1>2. ~err
    BY <1>1, StuckWaits DEF Quiescent
  <1>3. PICK a, tail : AtReply(reader, wire, a, tail) /\ Expected(a, tail)
    BY <1>1, <1>2 DEF Stream
  <1>4. /\ a # <<>> /\ tail = <<>> /\ Emitted(reader) = Seen(a)
        /\ AtReply(AfterReply(Typed(reader)), wire, <<>>, <<>>)
        /\ AfterReply(Typed(reader)).reply = NoReply
    BY <1>1, <1>3, QuietAt
  <1>5. Len(answers) = Len(returned) + 1 /\ answers[Len(answers)] = Seen(a)
    BY <1>3, <1>4 DEF Expected
  <1> QED
    BY <1>2, <1>4, <1>5

LEMMA NullIsLast ==
    ASSUME ClientTypes, NEW x, x \in {NULL} \cup Outcomes, returned' = Append(returned, x)
    PROVE  returned' \in Seq({NULL} \cup Outcomes) /\ Len(returned') = Len(returned) + 1 /\ Len(returned) \in Nat
  <1>1. returned \in Seq({NULL} \cup Outcomes)
    BY DEF ClientTypes
  <1> QED
    BY <1>1, AppendProperties, LenProperties

LEMMA ReturnErrorInv ==
    ASSUME ClientInv, ReturnError, reader' = reader, request' = request, open' = open, welcome' = welcome,
           genuine' = genuine, answers' = answers, wire' \in {wire, <<>>},
           ~reader.err => Stuck(reader)
    PROVE  ClientInv'
  <1>1. ClientTypes /\ InStep /\ ServerInStep /\ Misread /\ Drained /\ Quiescent /\ Stream
    BY DEF ClientInv
  <1>2. /\ err' = TRUE /\ pc' = "idle" /\ returned' = Append(returned, NULL)
        /\ obuf' = obuf /\ given' = given /\ sent' = sent
    BY DEF ReturnError, Return
  <1>3. returned' \in Seq({NULL} \cup Outcomes)
    BY <1>1, <1>2, NullIsLast
  <1>4. wire' \in Seq(Int)
    <2>1. <<>> \in Seq(Int) /\ wire \in Seq(Int)
      BY <1>1 DEF ClientTypes
    <2> QED
      BY <2>1
  <1>5. ClientTypes'
    BY <1>1, <1>2, <1>3, <1>4 DEF ClientTypes
  <1>6. InStep' /\ Drained' /\ Stream'
    BY <1>2 DEF InStep, Drained, Stream
  <1>7. ServerInStep' /\ Misread'
    BY <1>1, <1>2 DEF ServerInStep, Misread
  <1>8. Quiescent'
    BY <1>2 DEF Quiescent, Stuck
  <1> QED
    BY <1>5, <1>6, <1>7, <1>8 DEF ClientInv

LEMMA EndReplyInv == ClientInv /\ EndReply => ClientInv'
  <1> SUFFICES ASSUME ClientInv, EndReply PROVE ClientInv'
    OBVIOUS
  <1>1. ClientTypes /\ InStep /\ ServerInStep /\ Misread /\ Drained /\ Quiescent /\ Stream
    BY DEF ClientInv
  <1>2. pc \in {"pending", "scan"} /\ Items(reader) = {}
    BY DEF EndReply
  <1>3. CASE reader.err
    <2>1. /\ ReturnError /\ reader' = reader /\ request' = request /\ open' = open /\ welcome' = welcome
          /\ genuine' = genuine /\ answers' = answers /\ wire' = wire
      BY <1>3 DEF EndReply, serverVars
    <2> QED
      BY <1>3, <2>1, ReturnErrorInv
  <1>4. CASE ~reader.err
    <2> DEFINE s == AfterReply(Typed(reader))
    <2>1. /\ reader' = s /\ obuf' = obuf /\ err' = err /\ given' = given /\ sent' = sent
          /\ request' = request /\ wire' = wire /\ open' = open
          /\ welcome' = welcome /\ genuine' = genuine /\ answers' = answers
      BY <1>4 DEF EndReply, serverVars
    <2>2. IsReader(s) /\ ~s.err /\ Stuck(s)
      <3>1. reader.task = <<>> => Rest(reader) = <<>>
        BY <1>1, <1>2, <1>4 DEF Drained
      <3>2. IsReader(reader)
        BY <1>1 DEF ClientTypes
      <3> QED
        BY <1>2, <1>4, <3>1, <3>2, StuckAfter
    <2> HIDE DEF s
    <2>3. Misread'
      BY <2>1, <2>2 DEF Misread
    <2>4. CASE Emitted(reader) # NoReply
      <3>1. pc' = "idle" /\ returned' = Append(returned, Emitted(reader))
        BY <1>4, <2>4 DEF EndReply, Return
      <3>2. /\ ~err /\ Len(answers) = Len(returned) + 1 /\ Emitted(reader) = answers[Len(answers)]
            /\ AtReply(s, wire, <<>>, <<>>)
        BY <1>2, <1>4, <2>4, Returns DEF s
      <3>3. Emitted(reader) \in Outcomes
        <4>1. answers \in Seq(Outcomes) /\ Len(answers) \in 1..Len(answers)
          BY <1>1, <3>2, LenProperties DEF ClientTypes
        <4> QED
          BY <3>2, <4>1, ElementOfSeq
      <3>4. returned' \in Seq({NULL} \cup Outcomes) /\ Len(returned') = Len(returned) + 1 /\ Len(returned) \in Nat
        BY <1>1, <3>1, <3>3, NullIsLast
      <3>5. ClientTypes'
        BY <1>1, <2>1, <2>2, <3>1, <3>4 DEF ClientTypes
      <3>6. InStep'
        BY <1>1, <1>2, <2>1, <3>1, <3>4 DEF InStep
      <3>7. ServerInStep'
        BY <1>1, <2>1 DEF ServerInStep
      <3>8. Drained' /\ Quiescent'
        BY <2>1, <2>2, <3>1 DEF Drained, Quiescent, Stuck
      <3>9. Stream'
        <4>1. Expected(<<>>, <<>>)'
          BY <2>1, <3>2, <3>4 DEF Expected
        <4>2. AtReply(reader', wire', <<>>, <<>>)
          BY <2>1, <3>2
        <4> QED
          BY <4>1, <4>2 DEF Stream
      <3> QED
        BY <2>3, <3>5, <3>6, <3>7, <3>8, <3>9 DEF ClientInv
    <2>5. CASE Emitted(reader) = NoReply
      <3>1. pc' \in {"write", "read"} /\ returned' = returned
        BY <1>4, <2>5 DEF EndReply
      <3>2. ClientTypes'
        BY <1>1, <2>1, <2>2, <3>1 DEF ClientTypes
      <3>3. InStep'
        BY <1>1, <1>2, <2>1, <3>1 DEF InStep
      <3>4. ServerInStep'
        BY <1>1, <2>1 DEF ServerInStep
      <3>5. Drained' /\ Quiescent'
        BY <2>1, <2>2, <3>1 DEF Drained, Quiescent
      <3>6. Stream'
        <4> SUFFICES ASSUME ~err PROVE Stream'
          BY <2>1 DEF Stream
        <4>1. PICK a, tail : AtReply(reader, wire, a, tail) /\ Expected(a, tail)
          BY <1>1, <1>4 DEF Stream
        <4>2. AtReply(s, wire, a, tail)
          <5>1. wire \in Seq(Int)
            BY <1>1 DEF ClientTypes
          <5> QED
            BY <1>2, <2>5, <4>1, <5>1, StillAt DEF s
        <4>3. AtReply(reader', wire', a, tail)
          BY <2>1, <4>2
        <4>4. Expected(a, tail)'
          BY <2>1, <3>1, <4>1 DEF Expected
        <4> QED
          BY <4>3, <4>4 DEF Stream
      <3> QED
        BY <2>3, <3>2, <3>3, <3>4, <3>5, <3>6 DEF ClientInv
    <2> QED
      BY <2>4, <2>5
  <1> QED
    BY <1>3, <1>4
LEMMA FailureInv == ClientInv /\ (CallRefused \/ ConnectionFails) => ClientInv'
  <1> SUFFICES ASSUME ClientInv, CallRefused \/ ConnectionFails PROVE ClientInv'
    OBVIOUS
  <1>1. /\ pc \in {"write", "read"} /\ ReturnError /\ reader' = reader /\ request' = request
        /\ open' = open /\ welcome' = welcome /\ genuine' = genuine /\ answers' = answers
        /\ wire' \in {wire, <<>>}
    BY DEF CallRefused, ConnectionFails, serverVars
  <1>2. ~reader.err => Stuck(reader)
    BY <1>1 DEF ClientInv, Quiescent
  <1> QED
    BY <1>1, <1>2, ReturnErrorInv

LEMMA CutAt ==
    ASSUME NEW s \in Seq(Int), NEW n \in 1..Len(s)
    PROVE  LET x == SubSeq(s, 1, n)
               y == SubSeq(s, n + 1, Len(s))
           IN  /\ x \in Seq(Int) /\ Len(x) = n /\ y \in Seq(Int) /\ Len(y) = Len(s) - n
               /\ Len(s) \in Nat
  <1>1. Len(s) \in Nat
    BY LenProperties
  <1>2. n \in 0..Len(s) /\ n \in Nat /\ n <= Len(s)
    BY <1>1
  <1>3. SubSeq(s, n + 1, Len(s)) \in Seq(Int) /\ Len(SubSeq(s, n + 1, Len(s))) = Len(s) - n
    BY <1>2, RestOf
  <1>4. SubSeq(s, 1, n) \in Seq(Int) /\ Len(SubSeq(s, 1, n)) = n
    BY <1>2, PartOf
  <1> QED
    BY <1>1, <1>3, <1>4

LEMMA WriteInv ==
    ASSUME ClientInv, NEW n, Write(n)
    PROVE  ClientInv'
  <1>1. ClientTypes /\ InStep /\ ServerInStep /\ Misread /\ Drained /\ Quiescent /\ Stream
    BY DEF ClientInv
  <1> DEFINE x == SubSeq(obuf, 1, n)
             y == SubSeq(obuf, n + 1, Len(obuf))
  <1>2. /\ pc = "write" /\ ~err /\ n \in 1..Len(obuf)
        /\ obuf' = y /\ request' = IF open THEN request \o x ELSE request
        /\ pc' \in {"write", "read"}
        /\ err' = err /\ reader' = reader /\ given' = given /\ sent' = sent /\ returned' = returned
        /\ wire' = wire /\ open' = open /\ welcome' = welcome /\ genuine' = genuine /\ answers' = answers
    BY DEF Write, Usable
  <1>3. /\ x \in Seq(Int) /\ Len(x) = n /\ y \in Seq(Int) /\ Len(y) = Len(obuf) - n
        /\ Len(obuf) \in Nat
    <2>1. obuf \in Seq(Int)
      BY <1>1 DEF ClientTypes
    <2> QED
      BY <1>2, <2>1, CutAt
  <1> HIDE DEF x, y
  <1>4. /\ request \o x \in Seq(Int) /\ Len(request \o x) = Len(request) + n /\ Len(request) \in Nat
    <2>1. request \in Seq(Int)
      BY <1>1 DEF ClientTypes
    <2> QED
      BY <1>3, <2>1, ConcatProperties, LenProperties
  <1> DEFINE q == request \o x
  <1> HIDE DEF q
  <1>5. request' = (IF open THEN q ELSE request) /\ q \in Seq(Int) /\ Len(q) = Len(request) + n
    BY <1>2, <1>4 DEF q
  <1>6. ClientTypes'
    BY <1>1, <1>2, <1>3, <1>5 DEF ClientTypes
  <1>7. InStep'
    BY <1>1, <1>2 DEF InStep
  <1>8. ServerInStep'
    <2> SUFFICES ASSUME open PROVE ServerInStep'
      BY <1>2 DEF ServerInStep
    <2>1. obuf # <<>>
      <3>1. Len(<<>>) = 0
        OBVIOUS
      <3> QED
        BY <1>2, <3>1
    <2>2. /\ welcome /\ Len(answers) = sent - 1 /\ Len(request) <= CommandSize
          /\ Len(request) + Len(obuf) <= CommandSize
      BY <1>1, <1>2, <2>1 DEF ServerInStep
    <2>3. Len(request') = Len(request) + n /\ Len(obuf') = Len(obuf) - n
      BY <1>2, <1>3, <1>5
    <2>4. Len(request') <= CommandSize /\ Len(request') + Len(obuf') <= CommandSize
      <3>1. n \in 1..Len(obuf)
        BY <1>2
      <3> QED
        BY <1>3, <1>4, <2>2, <2>3, <3>1, CommandAssumption
    <2>5. open' /\ welcome' = welcome /\ answers' = answers /\ sent' = sent
      BY <1>2
    <2> QED
      BY <2>2, <2>4, <2>5 DEF ServerInStep
  <1>9. Misread' /\ Drained' /\ Quiescent'
    BY <1>1, <1>2 DEF Misread, Drained, Quiescent, Stuck
  <1>10. Stream'
    BY <1>1, <1>2 DEF Stream, Expected
  <1> QED
    BY <1>6, <1>7, <1>8, <1>9, <1>10 DEF ClientInv

\* The reader begins to look at what it has and x more bytes.
LEMMA ScanInv ==
    ASSUME ClientInv, pc = "read", ~err, pc' = "scan", NEW r, reader' = StartReply(r), wire' \in Seq(Int),
           IsReader(r), ~r.err, Settled(r),
           \A a, tail : AtReply(reader, wire, a, tail) => AtReply(r, wire', a, tail),
           obuf' = obuf, err' = err, given' = given, sent' = sent, returned' = returned, request' = request,
           open' = open, welcome' = welcome, genuine' = genuine, answers' = answers
    PROVE  ClientInv'
  <1>1. ClientTypes /\ InStep /\ ServerInStep /\ Misread /\ Drained /\ Quiescent /\ Stream
    BY DEF ClientInv
  <1>2. /\ IsReader(reader') /\ ~reader'.err
        /\ reader'.task = <<>> => Rest(reader') = <<>>
    BY StartReader
  <1>3. ClientTypes'
    BY <1>1, <1>2 DEF ClientTypes
  <1>4. InStep' /\ ServerInStep'
    BY <1>1 DEF InStep, ServerInStep
  <1>5. Misread' /\ Drained' /\ Quiescent'
    BY <1>2 DEF Misread, Drained, Quiescent
  <1>6. Stream'
    <2>1. ~reader.err
      BY <1>1 DEF Misread
    <2>2. PICK a, tail : AtReply(reader, wire, a, tail) /\ Expected(a, tail)
      BY <1>1, <2>1 DEF Stream
    <2>3. AtReply(r, wire', a, tail)
      BY <2>2
    <2>4. AtReply(reader', wire', a, tail)
      BY <2>3, StartAt
    <2>5. Expected(a, tail)'
      BY <2>2 DEF Expected
    <2> QED
      BY <2>4, <2>5 DEF Stream
  <1> QED
    BY <1>3, <1>4, <1>5, <1>6 DEF ClientInv

LEMMA InterruptInv == ClientInv /\ Interrupt => ClientInv'
  <1> SUFFICES ASSUME ClientInv, Interrupt PROVE ClientInv'
    OBVIOUS
  <1>1. /\ pc = "read" /\ ~err /\ pc' = "scan" /\ reader' = StartReply(reader) /\ wire' = wire
        /\ obuf' = obuf /\ err' = err /\ given' = given /\ sent' = sent /\ returned' = returned
        /\ request' = request /\ open' = open /\ welcome' = welcome /\ genuine' = genuine
        /\ answers' = answers
    BY DEF Interrupt, Usable, serverVars
  <1>2. wire \in Seq(Int) /\ IsReader(reader)
    BY DEF ClientInv, ClientTypes
  <1>3. ~reader.err
    BY <1>1 DEF ClientInv, Misread
  <1>4. Settled(reader)
    BY <1>1, <1>3 DEF ClientInv, Quiescent, Stuck
  <1> QED
    BY <1>1, <1>2, <1>3, <1>4, ScanInv

LEMMA ReadInv ==
    ASSUME ClientInv, NEW n, Read(n)
    PROVE  ClientInv'
  <1> DEFINE x == SubSeq(wire, 1, n)
             y == SubSeq(wire, n + 1, Len(wire))
             r == redisReaderFeed(reader, x)
  <1>1. /\ pc = "read" /\ ~err /\ pc' = "scan" /\ reader' = StartReply(r) /\ wire' = y
        /\ obuf' = obuf /\ err' = err /\ given' = given /\ sent' = sent /\ returned' = returned
        /\ request' = request /\ open' = open /\ welcome' = welcome /\ genuine' = genuine
        /\ answers' = answers /\ n \in 1..Len(wire)
    BY DEF Read, Usable
  <1>2. wire \in Seq(Int) /\ IsReader(reader)
    BY DEF ClientInv, ClientTypes
  <1>3. ~reader.err
    BY <1>1 DEF ClientInv, Misread
  <1>4. Settled(reader)
    BY <1>1, <1>3 DEF ClientInv, Quiescent, Stuck
  <1>5. x \in Seq(Int) /\ y \in Seq(Int)
    BY <1>1, <1>2, CutAt
  <1>6. \A a, tail : AtReply(reader, wire, a, tail) => AtReply(r, y, a, tail)
    BY <1>1, <1>2, FeedAt
  <1>7. IsReader(r) /\ ~r.err /\ r.task = reader.task /\ r.reply = reader.reply
    BY <1>2, <1>3, <1>5, FeedReader
  <1> HIDE DEF x, y, r
  <1>8. Settled(r)
    BY <1>4, <1>7 DEF Settled
  <1> QED
    BY <1>1, <1>5, <1>6, <1>7, <1>8, ScanInv
\* The server has a command: it is the one the client is at.
LEMMA Demanded ==
    ASSUME ClientInv, open, Len(request) >= CommandSize
    PROVE  /\ welcome /\ Len(answers) = sent - 1 /\ Len(request) = CommandSize
           /\ ~err => obuf = <<>>
           /\ ~err /\ ~reader.err => AtReply(reader, wire, <<>>, <<>>) /\ Len(answers) = Len(returned)
  <1>1. ClientTypes /\ InStep /\ ServerInStep /\ Stream
    BY DEF ClientInv
  <1>2. /\ Len(request) \in Nat /\ Len(obuf) \in Nat /\ Len(answers) \in Nat /\ Len(returned) \in Nat
        /\ sent \in Nat /\ obuf \in Seq(Int)
    BY <1>1, LenProperties DEF ClientTypes
  <1>3. request # <<>>
    <2>1. Len(<<>>) = 0
      OBVIOUS
    <2> QED
      BY <1>2, <2>1, CommandAssumption
  <1>4. /\ welcome /\ Len(answers) = sent - 1 /\ Len(request) <= CommandSize
        /\ ~err => Len(request) + Len(obuf) <= CommandSize
    BY <1>1, <1>3 DEF ServerInStep
  <1>5. Len(request) = CommandSize
    BY <1>2, <1>4, CommandAssumption
  <1>6. ~err => obuf = <<>>
    <2>1. ~err => Len(obuf) = 0
      BY <1>2, <1>4, <1>5, CommandAssumption
    <2> QED
      BY <1>2, <2>1, EmptySeq
  <1>7. ASSUME ~err, ~reader.err
        PROVE  AtReply(reader, wire, <<>>, <<>>) /\ Len(answers) = Len(returned)
    <2>1. PICK a, tail : AtReply(reader, wire, a, tail) /\ Expected(a, tail)
      BY <1>1, <1>7 DEF Stream
    <2>2. sent = Len(returned) + (IF pc = "idle" THEN 0 ELSE 1)
      BY <1>1, <1>7 DEF InStep
    <2>3. sent <= Len(returned) + 1
      BY <1>2, <2>2
    <2>4. Len(answers) # Len(returned) + 1
      BY <1>2, <1>4, <2>3
    <2>5. a = <<>> /\ tail = <<>> /\ Len(answers) = Len(returned)
      BY <2>1, <2>4 DEF Expected
    <2> QED
      BY <2>1, <2>5
  <1> QED
    BY <1>4, <1>5, <1>6, <1>7

LEMMA RunInv == ClientInv /\ Run => ClientInv'
  <1> SUFFICES ASSUME ClientInv, Run PROVE ClientInv'
    OBVIOUS
  <1>1. ClientTypes /\ InStep /\ ServerInStep /\ Misread /\ Drained /\ Quiescent /\ Stream
    BY DEF ClientInv
  <1>2. PICK a \in Replies : answers' = Append(answers, Seen(a)) /\ wire' = wire \o Bytes(a)
    BY DEF Run
  <1>3. /\ open /\ Len(request) >= CommandSize
        /\ request' = SubSeq(request, CommandSize + 1, Len(request))
        /\ pc' = pc /\ obuf' = obuf /\ err' = err /\ reader' = reader /\ given' = given
        /\ sent' = sent /\ returned' = returned /\ open' = open /\ welcome' = welcome
        /\ genuine' = genuine
    BY DEF Run, clientVars
  <1>4. /\ welcome /\ Len(answers) = sent - 1 /\ Len(request) = CommandSize
        /\ ~err => obuf = <<>>
        /\ ~err /\ ~reader.err => AtReply(reader, wire, <<>>, <<>>) /\ Len(answers) = Len(returned)
    BY <1>3, Demanded
  <1>5. request' = <<>>
    <2>1. request \in Seq(Int) /\ CommandSize \in 0..Len(request)
      BY <1>1, <1>4, CommandAssumption DEF ClientTypes
    <2>2. request' \in Seq(Int) /\ Len(request') = Len(request) - CommandSize
      BY <1>3, <2>1, RestOf
    <2>3. Len(request') = 0
      BY <1>4, <2>2, CommandAssumption
    <2> QED
      BY <2>2, <2>3, EmptySeq
  <1>6. WellFormed(a) /\ GoodTail(a, <<>>) /\ a # <<>> /\ Bytes(a) \in Seq(Int) /\ Seen(a) \in Outcomes
    BY ReplyParts DEF Outcomes
  <1>7. wire' \in Seq(Int)
    <2>1. wire \in Seq(Int)
      BY <1>1 DEF ClientTypes
    <2> QED
      BY <1>2, <1>6, <2>1, ConcatProperties
  <1>8. /\ answers' \in Seq(Outcomes) /\ Len(answers') = Len(answers) + 1
        /\ answers'[Len(answers')] = Seen(a) /\ Len(answers) \in Nat
    <2>1. answers \in Seq(Outcomes)
      BY <1>1 DEF ClientTypes
    <2> QED
      BY <1>2, <1>6, <2>1, AppendProperties, LenProperties
  <1>9. ClientTypes'
    <2>1. <<>> \in Seq(Int)
      OBVIOUS
    <2> QED
      BY <1>1, <1>3, <1>5, <1>7, <1>8, <2>1 DEF ClientTypes
  <1>10. InStep' /\ Misread' /\ Drained' /\ Quiescent'
    BY <1>1, <1>3 DEF InStep, Misread, Drained, Quiescent, Stuck
  <1>11. ServerInStep'
    <2>1. Len(answers') = sent' /\ sent \in Nat
      BY <1>1, <1>3, <1>4, <1>8 DEF ClientTypes
    <2> QED
      BY <1>3, <1>4, <1>5, <2>1 DEF ServerInStep
  <1>12. Stream'
    <2> SUFFICES ASSUME ~err, ~reader.err PROVE Stream'
      BY <1>3 DEF Stream
    <2>1. AtReply(reader, wire \o BytesBehind(a, <<>>)[0], a, <<>>)
      <3>1. wire \in Seq(Int)
        BY <1>1 DEF ClientTypes
      <3> QED
        BY <1>4, <1>6, <3>1, MoreAt
    <2>2. AtReply(reader', wire', a, <<>>)
      BY <1>2, <1>3, <2>1, ZenonT(30) DEF Bytes
    <2>3. Expected(a, <<>>)'
      BY <1>3, <1>4, <1>6, <1>8 DEF Expected
    <2> QED
      BY <2>2, <2>3 DEF Stream
  <1> QED
    BY <1>9, <1>10, <1>11, <1>12 DEF ClientInv

LEMMA GarbleInv == ClientInv /\ Garble => ClientInv'
  <1> SUFFICES ASSUME ClientInv, Garble PROVE ClientInv'
    OBVIOUS
  <1>1. ClientTypes /\ InStep /\ ServerInStep /\ Misread /\ Drained /\ Quiescent /\ Stream
    BY DEF ClientInv
  <1>2. PICK m \in Malformed : wire' = wire \o BytesBehind(m.good, BadLine(m))[0]
    BY DEF Garble
  <1>3. /\ open /\ Len(request) >= CommandSize /\ open' = FALSE /\ genuine' = FALSE
        /\ pc' = pc /\ obuf' = obuf /\ err' = err /\ reader' = reader /\ given' = given
        /\ sent' = sent /\ returned' = returned /\ request' = request /\ welcome' = welcome
        /\ answers' = answers
    BY DEF Garble, clientVars
  <1>4. ~err /\ ~reader.err => AtReply(reader, wire, <<>>, <<>>)
    BY <1>3, Demanded
  <1> DEFINE a == m.good
             tail == BadLine(m)
  <1>5. /\ WellFormed(a) /\ GoodTail(a, tail) /\ tail # <<>>
        /\ BytesBehind(a, tail)[0] \in Seq(Int)
    BY MalformedParts
  <1>6. wire' = wire \o BytesBehind(a, tail)[0]
    BY <1>2
  <1> HIDE DEF a, tail
  <1>7. wire \in Seq(Int)
    BY <1>1 DEF ClientTypes
  <1>8. wire' \in Seq(Int)
    BY <1>5, <1>6, <1>7, ConcatProperties
  <1>9. ClientTypes'
    BY <1>1, <1>3, <1>8 DEF ClientTypes
  <1>10. InStep' /\ ServerInStep' /\ Misread' /\ Drained' /\ Quiescent'
    BY <1>1, <1>3 DEF InStep, ServerInStep, Misread, Drained, Quiescent, Stuck
  <1>11. Stream'
    <2> SUFFICES ASSUME ~err, ~reader.err PROVE Stream'
      BY <1>3 DEF Stream
    <2>1. AtReply(reader, wire \o BytesBehind(a, tail)[0], a, tail)
      BY <1>4, <1>5, <1>7, MoreAt
    <2>2. AtReply(reader', wire', a, tail)
      BY <1>3, <1>6, <2>1, ZenonT(30)
    <2>3. Expected(a, tail)'
      BY <1>3, <1>5 DEF Expected
    <2> QED
      BY <2>2, <2>3 DEF Stream
  <1> QED
    BY <1>9, <1>10, <1>11 DEF ClientInv

LEMMA CloseInv == ClientInv /\ Close => ClientInv'
  <1> SUFFICES ASSUME ClientInv, Close PROVE ClientInv'
    OBVIOUS
  <1>1. ClientTypes /\ InStep /\ ServerInStep /\ Misread /\ Drained /\ Quiescent /\ Stream
    BY DEF ClientInv
  <1>2. /\ open' = FALSE
        /\ pc' = pc /\ obuf' = obuf /\ err' = err /\ reader' = reader /\ given' = given
        /\ sent' = sent /\ returned' = returned /\ request' = request /\ wire' = wire
        /\ welcome' = welcome /\ genuine' = genuine /\ answers' = answers
    BY DEF Close, clientVars
  <1>3. ClientTypes'
    BY <1>1, <1>2 DEF ClientTypes
  <1>4. InStep' /\ ServerInStep' /\ Misread' /\ Drained' /\ Quiescent'
    BY <1>1, <1>2 DEF InStep, ServerInStep, Misread, Drained, Quiescent, Stuck
  <1>5. Stream'
    BY <1>1, <1>2 DEF Stream, Expected
  <1> QED
    BY <1>3, <1>4, <1>5 DEF ClientInv

\* Commands and answers stay in step, however the bytes are cut, and what the reader and
\* the wire hold is what is left of one answer.
THEOREM ClientStaysInStep == Spec => []ClientInv
  <1>1. Init => ClientInv
    BY ClientInit
  <1>2. ClientInv /\ [Next]_vars => ClientInv'
    <2> SUFFICES ASSUME ClientInv, [Next]_vars PROVE ClientInv'
      OBVIOUS
    <2>1. CASE Command
      BY <2>1, CommandInv
    <2>2. CASE ProcessItem
      BY <2>2, ProcessItemInv
    <2>3. CASE EndReply
      BY <2>3, EndReplyInv
    <2>4. CASE CallRefused \/ ConnectionFails
      BY <2>4, FailureInv
    <2>5. CASE \E n \in 1..Len(obuf) : Write(n)
      BY <2>5, WriteInv
    <2>6. CASE Interrupt
      BY <2>6, InterruptInv
    <2>7. CASE \E n \in 1..Len(wire) : Read(n)
      BY <2>7, ReadInv
    <2>8. CASE Run
      BY <2>8, RunInv
    <2>9. CASE Garble
      BY <2>9, GarbleInv
    <2>10. CASE Close
      BY <2>10, CloseInv
    <2>11. CASE UNCHANGED vars
      <3>1. /\ pc' = pc /\ obuf' = obuf /\ err' = err /\ reader' = reader /\ given' = given
            /\ sent' = sent /\ returned' = returned /\ request' = request /\ wire' = wire
            /\ open' = open /\ welcome' = welcome /\ genuine' = genuine /\ answers' = answers
        BY <2>11 DEF vars, clientVars, serverVars
      <3> QED
        BY <3>1 DEF ClientInv, ClientTypes, InStep, ServerInStep, Misread, Drained, Quiescent, Stuck,
                    Stream, Expected
    <2> QED
      BY <2>1, <2>2, <2>3, <2>4, <2>5, <2>6, <2>7, <2>8, <2>9, <2>10, <2>11 DEF Next, ClientStep
  <1> QED
    BY <1>1, <1>2, PTL DEF Spec
(***************************************************************************)
(* The refinement.                                                         *)
(***************************************************************************)
Link == IF ~err THEN "good" ELSE IF reader.err THEN "misread" ELSE "lost"

LEMMA SameLink ==
    ASSUME Link' = Link, welcome' = welcome, genuine' = genuine, sent' = sent, answers' = answers,
           returned' = returned
    PROVE  [Promised!Next]_(Promised!linkVars)
  BY DEF Promised!linkVars, Link

LEMMA ErrorStep ==
    ASSUME ClientInv, pc # "idle", ReturnError, reader' = reader, welcome' = welcome, genuine' = genuine,
           answers' = answers
    PROVE  Promised!Next
  <1>1. err' = TRUE /\ returned' = Append(returned, NULL) /\ sent' = sent
    BY DEF ReturnError, Return
  <1>2. CASE err
    <2>1. Link # "good" /\ Link' = Link
      BY <1>1, <1>2 DEF Link
    <2>2. Promised!Fail
      BY <1>1, <2>1 DEF Promised!Fail, Link
    <2> QED
      BY <2>2 DEF Promised!Next
  <1>3. CASE ~err
    <2>1. Link = "good" /\ Link' = IF reader.err THEN "misread" ELSE "lost"
      BY <1>1, <1>3 DEF Link
    <2>2. reader.err => ~genuine
      BY DEF ClientInv, Misread
    <2>3. Len(returned) < sent
      <3>1. sent = Len(returned) + 1
        BY <1>3 DEF ClientInv, InStep
      <3>2. Len(returned) \in Nat
        BY LenProperties DEF ClientInv, ClientTypes
      <3> QED
        BY <3>1, <3>2
    <2>4. Promised!Break
      BY <1>1, <2>1, <2>2, <2>3 DEF Promised!Break, Link
    <2> QED
      BY <2>4 DEF Promised!Next
  <1> QED
    BY <1>2, <1>3

LEMMA EndReplyStep ==
    ASSUME ClientInv, EndReply
    PROVE  [Promised!Next]_(Promised!linkVars)
  <1>1. pc \in {"pending", "scan"} /\ Items(reader) = {} /\ pc # "idle"
    BY DEF EndReply
  <1>2. CASE reader.err
    <2>1. /\ ReturnError /\ reader' = reader /\ welcome' = welcome /\ genuine' = genuine
          /\ answers' = answers
      BY <1>2 DEF EndReply, serverVars
    <2> QED
      BY <1>1, <2>1, ErrorStep
  <1>3. CASE ~reader.err
    <2> DEFINE s == AfterReply(Typed(reader))
    <2>1. /\ reader' = s /\ err' = err /\ sent' = sent /\ welcome' = welcome /\ genuine' = genuine
          /\ answers' = answers
      BY <1>3 DEF EndReply, serverVars
    <2>2. ~s.err
      <3>1. reader.task = <<>> => Rest(reader) = <<>>
        BY <1>1, <1>3 DEF ClientInv, Drained
      <3>2. IsReader(reader)
        BY DEF ClientInv, ClientTypes
      <3> QED
        BY <1>1, <1>3, <3>1, <3>2, StuckAfter
    <2> HIDE DEF s
    <2>3. Link' = Link
      BY <1>3, <2>1, <2>2 DEF Link
    <2>4. CASE Emitted(reader) = NoReply
      <3>1. returned' = returned
        BY <1>3, <2>4 DEF EndReply
      <3> QED
        BY <2>1, <2>3, <3>1, SameLink
    <2>5. CASE Emitted(reader) # NoReply
      <3>1. returned' = Append(returned, Emitted(reader))
        BY <1>3, <2>5 DEF EndReply, Return
      <3>2. /\ ~err /\ Len(answers) = Len(returned) + 1
            /\ Emitted(reader) = answers[Len(answers)]
        BY <1>1, <1>3, <2>5, Returns
      <3>3. sent = Len(returned) + 1 /\ Len(returned) \in Nat
        BY <1>1, <3>2, LenProperties DEF ClientInv, ClientTypes, InStep
      <3>4. Link = "good" /\ Len(returned) < sent /\ sent <= Len(answers)
            /\ returned' = Append(returned, answers[sent])
        BY <3>1, <3>2, <3>3 DEF Link
      <3>5. Promised!Answer
        BY <2>1, <2>3, <3>4 DEF Promised!Answer, Link
      <3> QED
        BY <3>5 DEF Promised!Next
    <2> QED
      BY <2>4, <2>5
  <1> QED
    BY <1>2, <1>3

LEMMA CommandStep ==
    ASSUME ClientInv, Command
    PROVE  [Promised!Next]_(Promised!linkVars)
  <1>1. /\ pc = "idle" /\ sent' = (IF err THEN sent ELSE sent + 1) /\ reader' = StartReply(reader)
        /\ err' = err /\ returned' = returned /\ welcome' = welcome /\ genuine' = genuine
        /\ answers' = answers
    BY DEF Command, serverVars
  <1>2. reader'.err = reader.err
    BY <1>1, StartReader DEF ClientInv, ClientTypes
  <1>3. Link' = Link
    BY <1>1, <1>2 DEF Link
  <1>4. CASE err
    BY <1>1, <1>3, <1>4, SameLink
  <1>5. CASE ~err
    <2>1. sent = Len(returned)
      <3>1. Len(returned) \in Nat
        BY LenProperties DEF ClientInv, ClientTypes
      <3> QED
        BY <1>1, <1>5, <3>1 DEF ClientInv, InStep
    <2>2. Link = "good"
      BY <1>5 DEF Link
    <2>3. Promised!Send
      BY <1>1, <1>3, <1>5, <2>1, <2>2 DEF Promised!Send, Link
    <2> QED
      BY <2>3 DEF Promised!Next
  <1> QED
    BY <1>4, <1>5

LEMMA ServerStep ==
    ASSUME ClientInv, Run \/ Garble \/ Close
    PROVE  [Promised!Next]_(Promised!linkVars)
  <1>1. /\ reader' = reader /\ err' = err /\ sent' = sent /\ returned' = returned /\ welcome' = welcome
        /\ Link' = Link
    BY DEF Run, Garble, Close, clientVars, Link
  <1>2. Run \/ Garble => welcome /\ Len(answers) < sent
    <2> SUFFICES ASSUME Run \/ Garble PROVE welcome /\ Len(answers) < sent
      OBVIOUS
    <2>1. welcome /\ Len(answers) = sent - 1
      BY Demanded DEF Run, Garble
    <2>2. sent \in Nat
      BY DEF ClientInv, ClientTypes
    <2> QED
      BY <2>1, <2>2
  <1>3. CASE Run
    <2>1. (\E a \in {Seen(b) : b \in Replies} : answers' = Append(answers, a)) /\ genuine' = genuine
      BY <1>3 DEF Run
    <2>2. Promised!Run
      BY <1>1, <1>2, <1>3, <2>1 DEF Promised!Run, Link
    <2> QED
      BY <2>2 DEF Promised!Next
  <1>4. CASE Garble
    <2>1. genuine' = FALSE /\ answers' = answers
      BY <1>4 DEF Garble
    <2>2. Promised!Disappoint
      BY <1>1, <1>2, <1>4, <2>1 DEF Promised!Disappoint, Link
    <2> QED
      BY <2>2 DEF Promised!Next
  <1>5. CASE Close
    BY <1>1, <1>5, SameLink DEF Close
  <1> QED
    BY <1>3, <1>4, <1>5

\* The steps between: a turn of the loop, bytes that go or come, a signal.
LEMMA SilentStep ==
    ASSUME ClientInv,
           \/ ProcessItem \/ Interrupt
           \/ \E n \in 1..Len(obuf) : Write(n)
           \/ \E n \in 1..Len(wire) : Read(n)
    PROVE  [Promised!Next]_(Promised!linkVars)
  <1>1. /\ err' = err /\ sent' = sent /\ returned' = returned /\ welcome' = welcome
        /\ genuine' = genuine /\ answers' = answers
    BY DEF ProcessItem, Interrupt, Write, Read, serverVars
  <1>2. ~err
    <2>1. CASE ProcessItem
      <3>1. Items(reader) # {}
        BY <2>1 DEF ProcessItem
      <3>2. reader.err => Items(reader) = {}
        BY DEF ClientInv, Misread, Items
      <3>3. err /\ ~reader.err => Items(reader) = {}
        BY StuckWaits DEF ClientInv, Quiescent
      <3> QED
        BY <3>1, <3>2, <3>3
    <2>2. CASE ~ProcessItem
      BY <2>2 DEF Interrupt, Write, Read, Usable
    <2> QED
      BY <2>1, <2>2
  <1>3. Link' = Link
    BY <1>1, <1>2 DEF Link
  <1> QED
    BY <1>1, <1>3, SameLink

\* Commands and answers stay in step for as long as the connection is good, however both
\* are cut on their way, no reply of Redis is taken for an error, and after the first NULL
\* no command reaches the server and each returns NULL (hiredis.c redisGetReply,
\* read.c redisReaderGetReply).
THEOREM ClientImplementsLink == Spec => ImplementsLink
  <1>1. Init => Promised!Init
    <2> SUFFICES ASSUME Init PROVE Promised!Init
      OBVIOUS
    <2>1. /\ err = FALSE /\ genuine = TRUE /\ welcome \in BOOLEAN /\ sent = 0 /\ returned = <<>>
          /\ answers = IF welcome THEN <<>> ELSE <<Seen(TooManyClients)>>
      BY DEF Init
    <2>2. Seen(TooManyClients) \in {Seen(a) : a \in Replies}
      BY NullAssumption
    <2> QED
      BY <2>1, <2>2 DEF Promised!Init
  <1>2. ClientInv /\ [Next]_vars => [Promised!Next]_(Promised!linkVars)
    <2> SUFFICES ASSUME ClientInv, [Next]_vars PROVE [Promised!Next]_(Promised!linkVars)
      OBVIOUS
    <2>1. CASE Command
      BY <2>1, CommandStep
    <2>2. CASE EndReply
      BY <2>2, EndReplyStep
    <2>3. CASE CallRefused \/ ConnectionFails
      <3>1. /\ pc # "idle" /\ ReturnError /\ reader' = reader /\ welcome' = welcome
            /\ genuine' = genuine /\ answers' = answers
        BY <2>3 DEF CallRefused, ConnectionFails, serverVars
      <3> QED
        BY <3>1, ErrorStep
    <2>4. CASE Run \/ Garble \/ Close
      BY <2>4, ServerStep
    <2>5. CASE \/ ProcessItem \/ Interrupt
               \/ \E n \in 1..Len(obuf) : Write(n)
               \/ \E n \in 1..Len(wire) : Read(n)
      BY <2>5, SilentStep
    <2>6. CASE UNCHANGED vars
      BY <2>6 DEF vars, clientVars, serverVars, Promised!linkVars
    <2> QED
      BY <2>1, <2>2, <2>3, <2>4, <2>5, <2>6 DEF Next, ClientStep
  <1> QED
    BY <1>1, <1>2, ClientStaysInStep, PTL DEF Spec, ImplementsLink, Promised!Spec
=============================================================================
