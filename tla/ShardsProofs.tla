----------------------------- MODULE ShardsProofs -----------------------------
(***************************************************************************)
(* Proofs about Shards for any plans, any number of processes, any sizes   *)
(* of the tensors and any number of steps, kills and trainings.            *)
(***************************************************************************)
EXTENDS Shards, GangsProofs, FiniteSetTheorems, TLAPS

-----------------------------------------------------------------------------
(***************************************************************************)
(* Tensors: what is cut and joined again.                                  *)
(***************************************************************************)
\* f joins the first sequences of s.
Joins(s, f) == f = [i \in DOMAIN f |-> IF i = 1 THEN s[i] ELSE f[i - 1] \o s[i]]

LEMMA JoinsUpTo ==
    ASSUME NEW s, NEW n \in Nat
    PROVE  \E f : DOMAIN f = 1..n /\ Joins(s, f)
  <1> DEFINE Bad == {k \in Nat : ~\E f : DOMAIN f = 1..k /\ Joins(s, f)}
  <1>1. SUFFICES ASSUME Bad # {} PROVE FALSE
    OBVIOUS
  <1>2. PICK k \in Bad : \A m \in Bad : k <= m
    <2>1. Bad \in SUBSET Nat
      OBVIOUS
    <2> HIDE DEF Bad
    <2> QED
      BY <1>1, <2>1, LeastNatural
  <1>3. k # 0
    <2> DEFINE f == [i \in 1..0 |-> 0]
    <2>1. DOMAIN f = 1..0 /\ \A i \in DOMAIN f : FALSE
      OBVIOUS
    <2>2. f = [i \in DOMAIN f |-> IF i = 1 THEN s[i] ELSE f[i - 1] \o s[i]]
      BY <2>1
    <2> QED
      BY <2>1, <2>2 DEF Joins
  <1>4. k - 1 \in Nat /\ k - 1 \notin Bad
    BY <1>2, <1>3
  <1>5. PICK f : DOMAIN f = 1..(k - 1) /\ Joins(s, f)
    BY <1>4
  <1> DEFINE g == [i \in 1..k |-> IF i = k THEN IF i = 1 THEN s[i] ELSE f[i - 1] \o s[i] ELSE f[i]]
  <1>6. \A i \in 1..k : g[i] = IF i = 1 THEN s[i] ELSE g[i - 1] \o s[i]
    <2> SUFFICES ASSUME NEW i \in 1..k PROVE g[i] = IF i = 1 THEN s[i] ELSE g[i - 1] \o s[i]
      OBVIOUS
    <2>1. CASE i = k /\ i # 1
      <3>1. i - 1 \in 1..k /\ i - 1 # k
        BY <2>1
      <3> QED
        BY <2>1, <3>1
    <2>2. CASE i = k /\ i = 1
      BY <2>2
    <2>3. CASE i # k
      <3>1. i \in DOMAIN f /\ g[i] = f[i]
        BY <2>3, <1>5
      <3>2. f[i] = IF i = 1 THEN s[i] ELSE f[i - 1] \o s[i]
        BY <1>5, <3>1 DEF Joins
      <3>3. i # 1 => g[i - 1] = f[i - 1]
        BY <2>3
      <3> QED
        BY <3>1, <3>2, <3>3
    <2> QED
      BY <2>1, <2>2, <2>3
  <1>7. DOMAIN g = 1..k /\ Joins(s, g)
    <2>1. DOMAIN g = 1..k /\ g = [i \in 1..k |-> g[i]]
      OBVIOUS
    <2> HIDE DEF g
    <2> QED
      BY <1>6, <2>1 DEF Joins
  <1> HIDE DEF g
  <1> QED
    BY <1>2, <1>7

LEMMA FlattenIs ==
    ASSUME NEW s, Len(s) \in Nat \ {0}
    PROVE  \E f : DOMAIN f = 1..Len(s) /\ Joins(s, f) /\ FlattenSeq(s) = f[Len(s)]
  <1> DEFINE n == Len(s)
             F == CHOOSE f : f = [i \in 1..n |-> IF i = 1 THEN s[i] ELSE f[i - 1] \o s[i]]
  <1>1. \E f : f = [i \in 1..n |-> IF i = 1 THEN s[i] ELSE f[i - 1] \o s[i]]
    <2>1. PICK f : DOMAIN f = 1..n /\ Joins(s, f)
      BY JoinsUpTo
    <2> QED
      BY <2>1 DEF Joins
  <1>2. F = [i \in 1..n |-> IF i = 1 THEN s[i] ELSE F[i - 1] \o s[i]]
    BY <1>1
  <1>3. FlattenSeq(s) = F[n]
    BY DEF FlattenSeq
  <1> HIDE DEF F
  <1>4. DOMAIN F = 1..n
    BY <1>2
  <1>5. Joins(s, F)
    BY <1>2, <1>4 DEF Joins
  <1> QED
    BY <1>3, <1>4, <1>5

\* Adjacent cuts of a sequence join.
LEMMA CutsJoin ==
    ASSUME NEW V, NEW t \in Seq(V), NEW a \in 0..Len(t), NEW b \in a..Len(t)
    PROVE  SubSeq(t, 1, a) \o SubSeq(t, a + 1, b) = SubSeq(t, 1, b)
  <1> DEFINE u == SubSeq(t, 1, a)
  <1> DEFINE v == SubSeq(t, a + 1, b)
  <1> DEFINE w == SubSeq(t, 1, b)
  <1>1. u \in Seq(V) /\ Len(u) = a /\ \A i \in 1..a : u[i] = t[i]
    OBVIOUS
  <1>2. v \in Seq(V) /\ Len(v) = b - a /\ \A i \in 1..(b - a) : v[i] = t[a + i]
    OBVIOUS
  <1>3. w \in Seq(V) /\ Len(w) = b /\ \A i \in 1..b : w[i] = t[i]
    OBVIOUS
  <1>0. a \in Nat /\ b \in Nat /\ a <= b
    OBVIOUS
  <1> HIDE DEF u, v, w
  <1>4. u \o v \in Seq(V) /\ Len(u \o v) = b
    <2>0. u \in Seq(V) /\ v \in Seq(V)
      BY <1>1, <1>2
    <2>1. u \o v \in Seq(V)
      BY <2>0
    <2>2. Len(u \o v) = Len(u) + Len(v)
      BY <2>0
    <2> QED
      BY <2>1, <2>2, <1>0, <1>1, <1>2
  <1>5. \A i \in 1..b : (u \o v)[i] = w[i]
    <2> TAKE i \in 1..b
    <2>1. CASE i <= a
      <3>1. (u \o v)[i] = u[i]
        BY <2>1, <1>0, <1>1, <1>2
      <3> QED
        BY <2>1, <3>1, <1>0, <1>1, <1>3
    <2>2. CASE i > a
      <3>1. i - a \in 1..(b - a) /\ a + (i - a) = i
        BY <2>2, <1>0
      <3>2. (u \o v)[i] = v[i - a]
        BY <2>2, <3>1, <1>0, <1>1, <1>2
      <3> QED
        BY <3>1, <3>2, <1>0, <1>2, <1>3
    <2>3. i <= a \/ i > a
      BY <1>0
    <2> HIDE DEF w
    <2> QED
      BY ONLY <2>1, <2>2, <2>3
  <1>6. u \o v = w
    BY <1>0, <1>3, <1>4, <1>5
  <1> QED
    BY <1>6 DEF u, v, w

\* The pieces of a sequence, cut at the places c, make it up.
LEMMA Pieces ==
    ASSUME NEW V, NEW t \in Seq(V), NEW n \in Nat \ {0}, NEW s, Len(s) = n,
           NEW c \in [0..n -> 0..Len(t)], c[0] = 0, c[n] = Len(t),
           \A i \in 1..n : c[i - 1] <= c[i] /\ s[i] = SubSeq(t, c[i - 1] + 1, c[i])
    PROVE  FlattenSeq(s) = t
  <1>1. PICK f : DOMAIN f = 1..n /\ Joins(s, f) /\ FlattenSeq(s) = f[n]
    BY FlattenIs
  <1>2. \A i \in 1..n : f[i] = IF i = 1 THEN s[i] ELSE f[i - 1] \o s[i]
    BY <1>1 DEF Joins
  <1> DEFINE Bad == {i \in 1..n : f[i] # SubSeq(t, 1, c[i])}
  <1>3. ASSUME Bad # {} PROVE FALSE
    <2>1. PICK i \in Bad : \A m \in Bad : i <= m
      <3>1. Bad \in SUBSET Nat
        OBVIOUS
      <3> HIDE DEF Bad
      <3> QED
        BY <1>3, <3>1, LeastNatural
    <2>2. i \in 1..n /\ f[i] # SubSeq(t, 1, c[i])
      OBVIOUS
    <2>3. c[i - 1] \in 0..Len(t) /\ c[i] \in c[i - 1]..Len(t) /\ Len(t) \in Nat
      BY <2>2
    <2>6. \A m \in 1..n : f[m] # SubSeq(t, 1, c[m]) => i <= m
      BY <2>1
    <2> HIDE DEF Bad
    <2>4. ASSUME i = 1 PROVE FALSE
      <3>1. f[1] = s[1] /\ s[1] = SubSeq(t, c[1 - 1] + 1, c[1])
        BY <2>2, <2>4, <1>2
      <3>2. c[1 - 1] + 1 = 1
        OBVIOUS
      <3> QED
        BY <2>2, <2>4, <3>1, <3>2
    <2>5. ASSUME i # 1 PROVE FALSE
      <3>1. i - 1 \in 1..n /\ ~(i <= i - 1)
        BY <2>2, <2>5
      <3>2. f[i - 1] = SubSeq(t, 1, c[i - 1])
        BY <2>6, <3>1
      <3>3. f[i] = SubSeq(t, 1, c[i - 1]) \o SubSeq(t, c[i - 1] + 1, c[i])
        BY <2>2, <2>5, <1>2, <3>2
      <3>4. f[i] = SubSeq(t, 1, c[i])
        BY <2>3, <3>3, CutsJoin
      <3> QED
        BY <2>2, <3>4
    <2> QED
      BY <2>4, <2>5
  <1>4. f[n] = SubSeq(t, 1, c[n])
    <2>1. n \in 1..n
      OBVIOUS
    <2> QED
      BY <1>3, <2>1
  <1>5. SubSeq(t, 1, Len(t)) = t
    OBVIOUS
  <1> QED
    BY <1>1, <1>4, <1>5

LEMMA MinOfTwo ==
    ASSUME NEW a \in Int, NEW b \in Int
    PROVE  Min({a, b}) = IF a <= b THEN a ELSE b
  <1> DEFINE m == IF a <= b THEN a ELSE b
  <1>1. m \in {a, b} /\ \A x \in {a, b} : m <= x
    OBVIOUS
  <1>2. \A y \in {a, b} : (\A x \in {a, b} : y <= x) => y = m
    OBVIOUS
  <1> HIDE DEF m
  <1>3. (CHOOSE x \in {a, b} : \A y \in {a, b} : x <= y) = m
    BY <1>1, <1>2
  <1> QED
    BY <1>3 DEF Min, m

LEMMA Division ==
    ASSUME NEW a \in Nat, NEW b \in Nat \ {0}
    PROVE  a = (a \div b) * b + (a % b) /\ (a % b) \in 0..(b - 1) /\ a \div b \in Nat
  BY Z3

\* n chunks of the least length that reaches the end do reach it.
LEMMA ChunksReach ==
    ASSUME NEW a \in Nat, NEW n \in Nat \ {0}
    PROVE  (a + n - 1) \div n \in Nat /\ n * ((a + n - 1) \div n) >= a
  <1> DEFINE v == a + n - 1
  <1> DEFINE q == v \div n
  <1>1. v \in Nat
    OBVIOUS
  <1>2. v = q * n + (v % n) /\ (v % n) \in 0..(n - 1) /\ q \in Nat
    <2> HIDE DEF v
    <2> QED
      BY <1>1, Division
  <1> DEFINE x == v % n
  <1>3. a + n - 1 = q * n + x /\ x \in 0..(n - 1) /\ q \in Nat
    BY <1>2
  <1> HIDE DEF q, x
  <1>4. q * n \in Nat /\ q * n = n * q
    BY <1>3
  <1>5. n * q >= a
    BY <1>3, <1>4
  <1> QED
    BY <1>3, <1>5 DEF q

\* The chunks of a sequence make it up.
LEMMA ChunksJoin ==
    ASSUME NEW V, NEW t \in Seq(V), NEW n \in Nat \ {0}, NEW s, Len(s) = n,
           \A i \in 1..n : s[i] = ChunkOf(t, n, i - 1)
    PROVE  FlattenSeq(s) = t
  <1> DEFINE len == (Len(t) + n - 1) \div n
  <1> DEFINE end == Len(t)
  <1>0. end \in Nat
    OBVIOUS
  <1>1. len \in Nat /\ n * len >= end
    BY <1>0, ChunksReach
  <1>2. \A i \in 1..n : s[i] = SubSeq(t, (i - 1) * len + 1, Min({i * len, end}))
    <2> TAKE i \in 1..n
    <2>1. s[i] = SubSeq(t, (i - 1) * len + 1, Min({(i - 1 + 1) * len, end}))
      BY DEF ChunkOf
    <2>2. i - 1 + 1 = i
      OBVIOUS
    <2> QED
      BY <2>1, <2>2
  <1> HIDE DEF len
  <1> DEFINE c == [i \in 0..n |-> IF i * len <= end THEN i * len ELSE end]
  <1>3. \A i \in 0..n : i * len \in Nat
    BY <1>1
  <1>4. c \in [0..n -> 0..end]
    <2>1. \A i \in 0..n : c[i] \in 0..end
      BY <1>0, <1>3
    <2> QED
      BY <2>1
  <1>5. c[0] = 0 /\ c[n] = end
    <2>1. 0 \in 0..n /\ n \in 0..n /\ 0 * len = 0
      BY <1>1
    <2>2. n * len \in Nat
      BY <1>3, <2>1
    <2> QED
      BY <2>1, <2>2, <1>0, <1>1
  <1>6. ASSUME NEW i \in 1..n
        PROVE  c[i - 1] <= c[i] /\ s[i] = SubSeq(t, c[i - 1] + 1, c[i])
    <2>1. i - 1 \in 0..n /\ i \in 0..n
      OBVIOUS
    <2>2. i * len = (i - 1) * len + len
      BY <1>1
    <2> DEFINE x == (i - 1) * len
    <2> DEFINE y == i * len
    <2>3. x \in Nat /\ y \in Nat /\ y = x + len
      BY <1>3, <2>1, <2>2
    <2>4. c[i - 1] = (IF x <= end THEN x ELSE end) /\ c[i] = (IF y <= end THEN y ELSE end)
      BY <2>1
    <2>5. s[i] = SubSeq(t, x + 1, Min({y, end}))
      BY <1>2
    <2> HIDE DEF x, y, c, end
    <2>6. Min({y, end}) = IF y <= end THEN y ELSE end
      BY <2>3, <1>0, MinOfTwo
    <2>7. c[i - 1] <= c[i]
      BY <1>0, <1>1, <2>3, <2>4
    <2>8. CASE x <= end
      BY <2>4, <2>5, <2>6, <2>7, <2>8
    <2>9. CASE x > end
      <3>1. c[i - 1] = end /\ c[i] = end /\ Min({y, end}) = end
        BY <1>0, <1>1, <2>3, <2>4, <2>6, <2>9
      <3>2. \A u \in Int, v \in Int : v < u => SubSeq(t, u, v) = <<>>
        OBVIOUS
      <3>3. SubSeq(t, x + 1, end) = <<>> /\ SubSeq(t, end + 1, end) = <<>>
        BY <3>2, <1>0, <2>3, <2>9
      <3> QED
        BY <2>5, <2>7, <3>1, <3>3
    <2>10. x <= end \/ x > end
      BY <2>3, <1>0
    <2> QED
      BY ONLY <2>8, <2>9, <2>10
  <1> HIDE DEF c
  <1> QED
    BY <1>4, <1>5, <1>6, Pieces

\* A cut of a cut.
LEMMA CutOfCut ==
    ASSUME NEW V, NEW t \in Seq(V), NEW a \in Nat, NEW b \in Nat, a <= b, b <= Len(t),
           NEW x \in Nat, NEW y \in Nat, x <= y, y <= b - a
    PROVE  SubSeq(SubSeq(t, a + 1, b), x + 1, y) = SubSeq(t, a + x + 1, a + y)
  <1> DEFINE u == SubSeq(t, a + 1, b)
  <1> DEFINE v == SubSeq(u, x + 1, y)
  <1> DEFINE w == SubSeq(t, a + x + 1, a + y)
  <1>1. u \in Seq(V) /\ Len(u) = b - a /\ \A i \in 1..(b - a) : u[i] = t[a + i]
    OBVIOUS
  <1>2. w \in Seq(V) /\ Len(w) = y - x /\ \A i \in 1..(y - x) : w[i] = t[a + x + i]
    OBVIOUS
  <1> HIDE DEF u, w
  <1>3. v \in Seq(V) /\ Len(v) = y - x /\ \A i \in 1..(y - x) : v[i] = u[x + i]
    BY <1>1
  <1> HIDE DEF v
  <1>4. \A i \in 1..(y - x) : x + i \in 1..(b - a) /\ a + (x + i) = a + x + i
    OBVIOUS
  <1>5. \A i \in 1..(y - x) : v[i] = w[i]
    BY <1>1, <1>2, <1>3, <1>4
  <1>6. v = w
    BY <1>2, <1>3, <1>5
  <1> QED
    BY <1>6 DEF u, v, w

\* Where slice k of n of a sequence of length len * n is among pieces of length here.
LEMMA WhereSliceIs ==
    ASSUME NEW s \in Nat \ {0}, NEW here \in Nat \ {0}, NEW n \in Nat \ {0}, NEW len \in Nat \ {0},
           s * here = n * len, NEW k \in 0..(n - 1),
           NEW first, first = k * len,
           NEW from, from = first \div here, NEW to, to = (first + len - 1) \div here
    PROVE  /\ first \in Nat /\ from \in Nat /\ to \in Nat /\ from <= to /\ to < s
           /\ from * here <= first /\ first + len <= (to + 1) * here
  <1>1. first \in Nat
    OBVIOUS
  <1>2. first = from * here + (first % here) /\ (first % here) \in 0..(here - 1) /\ from \in Nat
    BY <1>1, Division
  <1> DEFINE last == first + len - 1
  <1>3. last \in Nat
    BY <1>1
  <1>4. last = to * here + (last % here) /\ (last % here) \in 0..(here - 1) /\ to \in Nat
    <2>1. to = last \div here
      OBVIOUS
    <2> HIDE DEF last
    <2> QED
      BY <2>1, <1>3, Division
  <1> DEFINE x == first % here
  <1> DEFINE y == last % here
  <1>5. /\ first = from * here + x /\ x \in 0..(here - 1) /\ from \in Nat
        /\ first + len - 1 = to * here + y /\ y \in 0..(here - 1) /\ to \in Nat
    BY <1>2, <1>4
  <1> HIDE DEF x, y, last
  <1>6. from * here \in Nat /\ to * here \in Nat /\ (to + 1) * here = to * here + here
    BY <1>5
  <1>7. from * here <= first /\ first + len <= (to + 1) * here
    BY <1>1, <1>5, <1>6
  <1>8. \A u \in Nat, v \in Nat : u < v => u * here + here <= v * here
    <2> TAKE u \in Nat, v \in Nat
    <2> HAVE u < v
    <2>1. (v - u) * here >= here
      BY Z3
    <2>2. (v - u) * here = v * here - u * here
      BY Z3
    <2>3. u * here \in Nat /\ v * here \in Nat
      OBVIOUS
    <2> QED
      BY <2>1, <2>2, <2>3
  <1>9. from <= to
    <2>1. ASSUME to < from PROVE FALSE
      <3>1. to * here + here <= from * here
        BY <1>5, <1>8, <2>1
      <3> QED
        BY <3>1, <1>5, <1>6
    <2> QED
      BY <2>1, <1>5
  <1>10. to < s
    <2>1. k * len + len <= n * len
      <3>1. (n - k) * len >= len
        BY Z3
      <3>2. (n - k) * len = n * len - k * len
        BY Z3
      <3>3. n * len \in Nat /\ k * len \in Nat
        OBVIOUS
      <3> QED
        BY <3>1, <3>2, <3>3
    <2>2. first + len <= s * here
      BY <2>1
    <2>3. ASSUME s <= to PROVE FALSE
      <3>1. s * here <= to * here
        <4>1. CASE s = to
          BY <4>1, <1>6
        <4>2. CASE s < to
          <5>1. s * here + here <= to * here
            BY <4>2, <1>5, <1>8
          <5>2. s * here \in Nat
            OBVIOUS
          <5> QED
            BY <5>1, <5>2, <1>6
        <4> QED
          BY <4>1, <4>2, <2>3, <1>5
      <3>2. s * here \in Nat
        OBVIOUS
      <3> QED
        BY <2>2, <3>1, <3>2, <1>1, <1>5, <1>6
    <2> QED
      BY <2>3, <1>5
  <1> QED
    BY <1>1, <1>5, <1>7, <1>9, <1>10

\* The pieces that a slice is in, joined and narrowed, are the slice.
Slice(w, first, len) == SubSeq(w, first + 1, first + len)

Sliced(V, w, here, from, to, first, skip, len, u) ==
    /\ w \in Seq(V) /\ here \in Nat \ {0} /\ from \in Nat /\ to \in Nat /\ from <= to
    /\ (to + 1) * here <= Len(w)
    /\ first \in Nat /\ len \in Nat /\ from * here <= first /\ first + len <= (to + 1) * here
    /\ skip = first - from * here /\ Len(u) = to - from + 1
    /\ \A y \in (from + 1)..(to + 1) : u[y - from] = SubSeq(w, (y - 1) * here + 1, y * here)

LEMMA SliceOfPieces ==
    ASSUME NEW V, NEW w, NEW here, NEW from, NEW to, NEW first, NEW skip, NEW len, NEW u,
           Sliced(V, w, here, from, to, first, skip, len, u)
    PROVE  Slice(FlattenSeq(u), skip, len) = Slice(w, first, len)
  <1> DEFINE m == to - from + 1
  <1> DEFINE a == from * here
  <1> DEFINE b == (to + 1) * here
  <1> DEFINE t == SubSeq(w, a + 1, b)
  <1>a. /\ w \in Seq(V) /\ here \in Nat \ {0} /\ from \in Nat /\ to \in Nat /\ from <= to
        /\ b <= Len(w) /\ first \in Nat /\ len \in Nat /\ a <= first /\ first + len <= b
        /\ Len(u) = m /\ skip = first - a
        /\ \A y \in (from + 1)..(to + 1) : u[y - from] = SubSeq(w, (y - 1) * here + 1, y * here)
    BY DEF Sliced
  <1>0. m \in Nat \ {0} /\ Len(w) \in Nat
    BY <1>a
  <1>1. a \in Nat /\ b \in Nat /\ b = a + m * here /\ m * here \in Nat
    <2>1. to + 1 = from + m
      BY <1>a
    <2> HIDE DEF m
    <2>2. (from + m) * here = from * here + m * here
      BY <1>0, <1>a
    <2>3. from * here \in Nat /\ m * here \in Nat
      BY <1>0, <1>a
    <2> QED
      BY <2>1, <2>2, <2>3
  <1>2. b <= Len(w) /\ a <= first /\ first + len <= b
    BY <1>a
  <1> HIDE DEF m, a, b
  <1>3. t \in Seq(V) /\ Len(t) = m * here
    <2>1. a \in Nat /\ b \in Nat /\ a <= b /\ b <= Len(w)
      BY <1>1, <1>2, <1>a
    <2>2. t \in Seq(V) /\ Len(t) = b - a
      BY <2>1, <1>a
    <2> QED
      BY <1>1, <2>2
  <1> DEFINE c == [i \in 0..m |-> i * here]
  <1>4. \A i \in 0..m : i * here \in Nat /\ i * here <= m * here
    <2> TAKE i \in 0..m
    <2>1. (m - i) * here >= 0
      BY <1>0, <1>a, Z3
    <2>2. (m - i) * here = m * here - i * here
      BY <1>0, <1>a, Z3
    <2>3. i * here \in Nat
      BY <1>0, <1>a
    <2> QED
      BY <2>1, <2>2, <2>3, <1>1
  <1>5. c \in [0..m -> 0..Len(t)]
    BY <1>1, <1>3, <1>4
  <1>6. c[0] = 0 /\ c[m] = Len(t)
    BY <1>0, <1>a, <1>3
  <1>7. ASSUME NEW i \in 1..m PROVE c[i - 1] <= c[i] /\ u[i] = SubSeq(t, c[i - 1] + 1, c[i])
    <2>1. i - 1 \in 0..m /\ i \in 0..m
      BY <1>0
    <2> DEFINE x == (i - 1) * here
    <2> DEFINE y == i * here
    <2>2. x \in Nat /\ y \in Nat /\ x <= m * here /\ y <= m * here
      BY <1>4, <2>1
    <2>3. y = x + here
      BY <1>0, <1>a
    <2>4. c[i - 1] = x /\ c[i] = y
      BY <2>1
    <2> DEFINE z == from + i
    <2>9. z \in (from + 1)..(to + 1) /\ z - from = i /\ z - 1 = from + (i - 1) /\ i \in Int
      BY <1>a DEF m
    <2>5. u[i] = SubSeq(w, (z - 1) * here + 1, z * here)
      <3> HIDE DEF z
      <3> QED
        BY <1>a, <2>9
    <2>6. (z - 1) * here = a + x /\ z * here = a + y
      <3>1. (from + (i - 1)) * here = from * here + (i - 1) * here /\ (from + i) * here = from * here + i * here
        BY <2>9, <1>a
      <3> HIDE DEF z
      <3>2. (z - 1) * here = from * here + (i - 1) * here
        BY <3>1, <2>9
      <3> QED
        BY <3>1, <3>2 DEF a, z
    <2> HIDE DEF z
    <2> HIDE DEF x, y, c, t
    <2>7. SubSeq(SubSeq(w, a + 1, b), x + 1, y) = SubSeq(w, a + x + 1, a + y)
      BY <1>0, <1>a, <1>1, <1>2, <2>2, <2>3, CutOfCut
    <2>8. u[i] = SubSeq(t, x + 1, y)
      BY <2>5, <2>6, <2>7 DEF t
    <2> QED
      BY <1>a, <2>2, <2>3, <2>4, <2>8
  <1> HIDE DEF c
  <1>8. FlattenSeq(u) = t
    <2>1. Len(u) = m
      BY <1>a
    <2> HIDE DEF t
    <2> QED
      BY <2>1, <1>0, <1>3, <1>5, <1>6, <1>7, Pieces
  <1> DEFINE x == first - a
  <1> DEFINE y == x + len
  <1>9. x \in Nat /\ y \in Nat /\ x <= y /\ y <= b - a /\ a + x = first /\ a + y = first + len
    BY <1>1, <1>2, <1>a
  <1> HIDE DEF x, y
  <1>10. SubSeq(SubSeq(w, a + 1, b), x + 1, y) = SubSeq(w, a + x + 1, a + y)
    BY <1>0, <1>a, <1>1, <1>2, <1>9, CutOfCut
  <1>11. skip = x
    BY <1>a DEF x
  <1> QED
    BY <1>8, <1>9, <1>10, <1>11 DEF y, Slice

-----------------------------------------------------------------------------
\* A tensor of rows by cols values.
Tensor(V, rows, cols) == [1..rows -> [1..cols -> V]]

Regular(t, V, rows, cols) ==
    /\ t \in Seq(Seq(V)) /\ Len(t) = rows /\ DOMAIN t = 1..rows
    /\ \A i \in 1..rows : t[i] \in Seq(V) /\ Len(t[i]) = cols /\ DOMAIN t[i] = 1..cols

LEMMA TensorIs ==
    ASSUME NEW V, NEW R \in Nat \ {0}, NEW C \in Nat \ {0}, NEW t \in Tensor(V, R, C)
    PROVE  Regular(t, V, R, C)
  <1>1. \A x \in [1..C -> V] : x \in Seq(V) /\ Len(x) = C
    OBVIOUS
  <1>2. \A i \in 1..R : t[i] \in Seq(V) /\ Len(t[i]) = C /\ DOMAIN t[i] = 1..C
    BY <1>1 DEF Tensor
  <1>3. t \in [1..R -> Seq(V)]
    BY <1>2 DEF Tensor
  <1> QED
    BY <1>2, <1>3 DEF Regular

\* A slice of a sequence of whatever.
LEMMA MiddleIs ==
    ASSUME NEW n \in Nat, NEW j, DOMAIN j = 1..n, j = [i \in 1..n |-> j[i]],
           NEW a \in 1..n, NEW b \in a..n
    PROVE  /\ Len(SubSeq(j, a, b)) = b - a + 1 /\ DOMAIN SubSeq(j, a, b) = 1..(b - a + 1)
           /\ \A x \in 1..(b - a + 1) : SubSeq(j, a, b)[x] = j[a + x - 1]
  <1> DEFINE T == {j[i] : i \in 1..n}
  <1>1. j \in Seq(T) /\ Len(j) = n
    <2>1. j \in [1..n -> T]
      OBVIOUS
    <2> HIDE DEF T
    <2> QED
      BY <2>1
  <1> HIDE DEF T
  <1> QED
    BY <1>1

LEMMA LenOf ==
    ASSUME NEW n \in Nat, NEW j, DOMAIN j = 1..n, j = [i \in 1..n |-> j[i]]
    PROVE  Len(j) = n
  <1> DEFINE T == {j[i] : i \in 1..n}
  <1>1. j \in [1..n -> T]
    OBVIOUS
  <1> HIDE DEF T
  <1> QED
    BY <1>1

\* The rows that are split, or the row that is.
LEMMA Quotients ==
    ASSUME NEW a \in Nat \ {0}, NEW n \in Nat \ {0}, a % n = 0
    PROVE  a \div n \in Nat \ {0} /\ a = n * (a \div n)
  <1> DEFINE q == a \div n
  <1>1. a = q * n + (a % n) /\ q \in Nat
    BY Division
  <1> HIDE DEF q
  <1>2. q * n \in Nat /\ q * n = n * q
    BY <1>1
  <1>3. a = n * q
    BY <1>1, <1>2
  <1>4. q # 0
    BY <1>3
  <1> QED
    BY <1>1, <1>3, <1>4 DEF q

\* A split by columns.
Share(C, n, k, h, first) == h = C \div n /\ first = k * h

LEMMA SplitOfRows ==
    ASSUME NEW V, NEW R \in Nat \ {0}, NEW C \in Nat \ {0}, NEW t, Regular(t, V, R, C),
           NEW n, NEW h, NEW k, NEW first, Share(C, n, k, h, first)
    PROVE  SplitOf(t, 1, n, k) = [r \in 1..R |-> Slice(t[r], first, h)]
  <1>0. h = C \div n /\ first = k * h
    BY DEF Share
  <1>1. Extent(t, 1) = C /\ DOMAIN t = 1..R
    BY DEF Extent, Regular
  <1>2. SplitOf(t, 1, n, k) = Narrow(t, 1, first, h)
    BY <1>0, <1>1 DEF SplitOf, Replicated
  <1>3. Narrow(t, 1, first, h) = [r \in DOMAIN t |-> SubSeq(t[r], first + 1, first + h)]
    BY DEF Narrow
  <1>4. \A r : SubSeq(t[r], first + 1, first + h) = Slice(t[r], first, h)
    BY DEF Slice
  <1>5. Narrow(t, 1, first, h) = [r \in 1..R |-> SubSeq(t[r], first + 1, first + h)]
    BY ONLY <1>1, <1>3
  <1> QED
    BY ONLY <1>2, <1>4, <1>5

\* What resharding is given: the splits, whose pieces may be divided, of a tensor, as one
\* fact for the lemmas that only pass it on.
Resharded(V, R, C, t, dim, s, n, splits, k) ==
    /\ R \in Nat \ {0} /\ C \in Nat \ {0} /\ t \in Tensor(V, R, C)
    /\ dim \in {0, 1, Replicated} /\ s \in Nat \ {0} /\ n \in Nat \ {0} /\ k \in 0..(n - 1)
    /\ dim = 0 => R % s = 0 /\ R % n = 0
    /\ dim = 1 => C % s = 0 /\ C % n = 0
    /\ DOMAIN splits = 1..s /\ Len(splits) = s
    /\ \A i \in 1..s : Cat(splits[i], 0) = SplitOf(t, dim, s, i - 1)

\* reshard_tensor(): whatever the tensor parallel size a tensor was split with, and
\* however its splits were divided in turn, the split of a rank of any other tensor
\* parallel size is put together from them.
LEMMA ReshardJoined ==
    ASSUME NEW V, NEW R, NEW C, NEW t, NEW dim, NEW s, NEW n, NEW splits, NEW k,
           Resharded(V, R, C, t, dim, s, n, splits, k)
    PROVE  Reshard(splits, dim, n, k) = SplitOf(t, dim, n, k)
  <1>a. /\ R \in Nat \ {0} /\ C \in Nat \ {0} /\ t \in Tensor(V, R, C)
        /\ dim \in {0, 1, Replicated} /\ s \in Nat \ {0} /\ n \in Nat \ {0} /\ k \in 0..(n - 1)
        /\ dim = 0 => R % s = 0 /\ R % n = 0
        /\ dim = 1 => C % s = 0 /\ C % n = 0
        /\ DOMAIN splits = 1..s /\ Len(splits) = s
        /\ \A i \in 1..s : Cat(splits[i], 0) = SplitOf(t, dim, s, i - 1)
    BY DEF Resharded
  <1> USE <1>a
  <1> DEFINE joined == [i \in DOMAIN splits |-> Cat(splits[i], 0)]
  <1> DEFINE here == Extent(joined[1], dim)
  <1> DEFINE len == (here * Len(splits)) \div n
  <1> DEFINE first == k * len
  <1> DEFINE from == first \div here
  <1> DEFINE to == (first + len - 1) \div here
  <1> DEFINE u == SubSeq(joined, from + 1, to + 1)
  <1>0. /\ t \in Seq(Seq(V)) /\ Len(t) = R /\ DOMAIN t = 1..R
        /\ \A i \in 1..R : t[i] \in Seq(V) /\ Len(t[i]) = C /\ DOMAIN t[i] = 1..C
    <2>1. Regular(t, V, R, C)
      BY TensorIs
    <2> QED
      BY <2>1 DEF Regular
  <1>1. joined = [i \in 1..s |-> SplitOf(t, dim, s, i - 1)] /\ DOMAIN joined = 1..s
    OBVIOUS
  <1>2. Reshard(splits, dim, n, k) =
           IF s = n THEN joined[k + 1]
           ELSE IF dim = Replicated THEN joined[1]
           ELSE Narrow(Cat(u, dim), dim, first - from * here, len)
    BY DEF Reshard
  <1>3. CASE s = n
    <2>1. k + 1 \in 1..s /\ k + 1 - 1 = k
      BY <1>3
    <2> HIDE DEF u, joined
    <2> QED
      BY <1>1, <1>2, <1>3, <2>1
  <1>4. CASE s # n /\ dim = Replicated
    <2>1. 1 \in 1..s
      OBVIOUS
    <2> HIDE DEF u, joined
    <2> QED
      BY <1>1, <1>2, <1>4, <2>1 DEF SplitOf
  <1> HIDE DEF joined
  <1>5. CASE s # n /\ dim = 0
    <2> DEFINE h == R \div s
    <2> DEFINE e == R \div n
    <2>0. h \in Nat \ {0} /\ R = s * h /\ e \in Nat \ {0} /\ R = n * e
      BY <1>5, Quotients
    <2>1. \A i \in 1..s : joined[i] = SubSeq(t, (i - 1) * h + 1, (i - 1) * h + h)
      <3>1. \A i \in 1..s : joined[i] = SplitOf(t, dim, s, i - 1)
        BY <1>1
      <3>2. \A j : SplitOf(t, dim, s, j) = SubSeq(t, j * h + 1, j * h + h)
        BY <1>0, <1>5 DEF SplitOf, Extent, Narrow, Replicated
      <3> HIDE DEF h
      <3> QED
        BY <3>1, <3>2
    <2> HIDE DEF h, e
    <2>2. here = h
      <3>1. 1 \in 1..s /\ (1 - 1) * h + 1 = 1 /\ (1 - 1) * h + h = h
        BY <2>0
      <3>2. joined[1] = SubSeq(t, 1, h)
        BY <2>1, <3>1
      <3>3. h \in 0..R
        <4>1. (s - 1) * h >= 0
          BY <2>0, Z3
        <4>2. (s - 1) * h = s * h - h
          BY <2>0, Z3
        <4>3. s * h \in Nat
          BY <2>0
        <4> QED
          BY <4>1, <4>2, <4>3, <2>0
      <3>4. Len(joined[1]) = h
        BY <1>0, <3>2, <3>3
      <3> QED
        BY <1>5, <3>4 DEF Extent
    <2>3. len = e
      <3>1. here * Len(splits) = R
        BY <2>0, <2>2
      <3> HIDE DEF here
      <3> QED
        BY <3>1 DEF e
    <2> HIDE DEF here, len
    <2>4. /\ first \in Nat /\ from \in Nat /\ to \in Nat /\ from <= to /\ to < s
          /\ from * h <= first /\ first + e <= (to + 1) * h
      <3>1. first = k * e /\ from = first \div h /\ to = (first + e - 1) \div h
        BY <2>2, <2>3
      <3>2. s * h = n * e
        BY <2>0
      <3> HIDE DEF first, from, to
      <3> QED
        BY <2>0, <3>1, <3>2, WhereSliceIs
    <2> HIDE DEF first, from, to
    <2>5. (to + 1) * h <= Len(t)
      <3>1. (s - (to + 1)) * h >= 0
        BY <2>0, <2>4, Z3
      <3>2. (s - (to + 1)) * h = s * h - (to + 1) * h
        BY <2>0, <2>4, Z3
      <3>3. s * h \in Nat /\ (to + 1) * h \in Nat
        BY <2>0, <2>4
      <3> QED
        BY <3>1, <3>2, <3>3, <2>0, <1>0
    <2>6. Len(u) = to - from + 1 /\ \A x \in 1..(to - from + 1) : u[x] = joined[from + x]
      <3>1. /\ DOMAIN joined = 1..s /\ joined = [i \in 1..s |-> joined[i]]
            /\ from + 1 \in 1..s /\ to + 1 \in (from + 1)..s
            /\ (to + 1) - (from + 1) + 1 = to - from + 1
        BY <1>1, <2>4
      <3>2. /\ Len(u) = (to + 1) - (from + 1) + 1
            /\ \A x \in 1..((to + 1) - (from + 1) + 1) : u[x] = joined[from + 1 + x - 1]
        BY <3>1, MiddleIs
      <3>3. \A x \in 1..(to - from + 1) : from + 1 + x - 1 = from + x
        BY <2>4
      <3> HIDE DEF u
      <3> QED
        BY <3>1, <3>2, <3>3
    <2> HIDE DEF u
    <2>7. \A y \in (from + 1)..(to + 1) : u[y - from] = SubSeq(t, (y - 1) * h + 1, y * h)
      <3> TAKE y \in (from + 1)..(to + 1)
      <3>1. y \in 1..s /\ y - from \in 1..(to - from + 1) /\ from + (y - from) = y
        BY <2>4
      <3>2. (y - 1) * h + h = y * h
        BY <2>0, <3>1
      <3>3. u[y - from] = joined[y]
        BY <2>6, <3>1
      <3>4. joined[y] = SubSeq(t, (y - 1) * h + 1, (y - 1) * h + h)
        BY <2>1, <3>1
      <3> QED
        BY <3>2, <3>3, <3>4
    <2> DEFINE skip == first - from * h
    <2>8. Slice(FlattenSeq(u), skip, e) = Slice(t, first, e)
      <3>1. Sliced(Seq(V), t, h, from, to, first, skip, e, u)
        BY <1>0, <2>0, <2>4, <2>5, <2>6, <2>7 DEF Sliced
      <3> HIDE DEF skip
      <3> QED
        BY ONLY <3>1, SliceOfPieces
    <2>9. Reshard(splits, dim, n, k) = Slice(FlattenSeq(u), skip, e)
      <3>1. Reshard(splits, dim, n, k) = Narrow(Cat(u, dim), dim, first - from * here, len)
        BY <1>2, <1>5 DEF Replicated
      <3>2. first - from * here = skip
        BY <2>2
      <3> HIDE DEF skip
      <3>3. Reshard(splits, dim, n, k) = Narrow(Cat(u, 0), 0, skip, e)
        BY <3>1, <3>2, <1>5, <2>3
      <3> QED
        BY <3>3 DEF Narrow, Cat, Slice
    <2>10. SplitOf(t, dim, n, k) = Slice(t, first, e)
      BY <1>0, <1>5, <2>3 DEF SplitOf, Extent, Narrow, first, e, Replicated, Slice
    <2> QED
      BY <2>8, <2>9, <2>10
  <1>6. CASE s # n /\ dim = 1
    <2> DEFINE h == C \div s
    <2> DEFINE e == C \div n
    <2>0. h \in Nat \ {0} /\ C = s * h /\ e \in Nat \ {0} /\ C = n * e
      BY <1>6, Quotients
    <2>1. \A i \in 1..s : joined[i] = [r \in 1..R |-> Slice(t[r], (i - 1) * h, h)]
      <3> TAKE i \in 1..s
      <3> DEFINE j == i - 1
      <3>1. joined[i] = SplitOf(t, 1, s, j)
        BY <1>1, <1>6
      <3> DEFINE at == j * h
      <3>2. Regular(t, V, R, C)
        BY <1>0 DEF Regular
      <3>3. Share(C, s, j, h, at)
        BY DEF Share
      <3> HIDE DEF h, at, j
      <3>4. SplitOf(t, 1, s, j) = [r \in 1..R |-> Slice(t[r], at, h)]
        BY ONLY <3>2, <3>3, SplitOfRows, R \in Nat \ {0}, C \in Nat \ {0}
      <3> QED
        BY ONLY <3>1, <3>4 DEF at, j
    <2> HIDE DEF h, e
    <2>2. here = h
      <3>1. 1 \in 1..s /\ 1 \in 1..R /\ (1 - 1) * h + 1 = 1 /\ (1 - 1) * h + h = h
        BY <2>0
      <3>2. joined[1][1] = SubSeq(t[1], 1, h)
        <4>1. joined[1] = [r \in 1..R |-> Slice(t[r], (1 - 1) * h, h)]
          BY <2>1, <3>1
        <4>2. joined[1][1] = Slice(t[1], (1 - 1) * h, h)
          BY <4>1, <3>1
        <4> QED
          BY <4>2, <3>1 DEF Slice
      <3>3. h \in 0..C
        <4>1. (s - 1) * h >= 0
          BY <2>0, Z3
        <4>2. (s - 1) * h = s * h - h
          BY <2>0, Z3
        <4>3. s * h \in Nat
          BY <2>0
        <4> QED
          BY <4>1, <4>2, <4>3, <2>0
      <3>4. Len(joined[1][1]) = h
        <4>1. t[1] \in Seq(V) /\ Len(t[1]) = C
          BY <1>0, <3>1
        <4> QED
          BY <4>1, <3>2, <3>3
      <3> QED
        BY <1>6, <3>4 DEF Extent
    <2>3. len = e
      <3>1. here * Len(splits) = C
        BY <2>0, <2>2
      <3> HIDE DEF here
      <3> QED
        BY <3>1 DEF e
    <2> HIDE DEF here, len
    <2>4. /\ first \in Nat /\ from \in Nat /\ to \in Nat /\ from <= to /\ to < s
          /\ from * h <= first /\ first + e <= (to + 1) * h
      <3>1. first = k * e /\ from = first \div h /\ to = (first + e - 1) \div h
        BY <2>2, <2>3
      <3>2. s * h = n * e
        BY <2>0
      <3> HIDE DEF first, from, to
      <3> QED
        BY <2>0, <3>1, <3>2, WhereSliceIs
    <2> HIDE DEF first, from, to
    <2>5. (to + 1) * h <= C
      <3>1. (s - (to + 1)) * h >= 0
        BY <2>0, <2>4, Z3
      <3>2. (s - (to + 1)) * h = s * h - (to + 1) * h
        BY <2>0, <2>4, Z3
      <3>3. s * h \in Nat /\ (to + 1) * h \in Nat
        BY <2>0, <2>4
      <3> QED
        BY <3>1, <3>2, <3>3, <2>0
    <2> DEFINE m == to - from + 1
    <2>6. Len(u) = m /\ DOMAIN u = 1..m /\ \A x \in 1..m : u[x] = joined[from + x]
      <3> DEFINE a == from + 1
      <3> DEFINE b == to + 1
      <3>1. /\ DOMAIN joined = 1..s /\ joined = [i \in 1..s |-> joined[i]]
            /\ a \in 1..s /\ b \in a..s /\ b - a + 1 = m
        BY <1>1, <2>4
      <3>2. \A x \in 1..m : a + x - 1 = from + x
        BY <2>4
      <3> HIDE DEF a, b
      <3>3. /\ Len(SubSeq(joined, a, b)) = b - a + 1
            /\ DOMAIN SubSeq(joined, a, b) = 1..(b - a + 1)
            /\ \A x \in 1..(b - a + 1) : SubSeq(joined, a, b)[x] = joined[a + x - 1]
        <4> HIDE DEF joined
        <4> QED
          BY ONLY <3>1, MiddleIs, s \in Nat
      <3>4. u = SubSeq(joined, a, b)
        BY DEF a, b
      <3> HIDE DEF u, m
      <3> QED
        BY <3>1, <3>2, <3>3, <3>4
    <2> DEFINE skip == first - from * h
    <2> DEFINE Col(r) == [x \in 1..m |-> u[x][r]]
    <2>7. ASSUME NEW r \in 1..R PROVE Slice(FlattenSeq(Col(r)), skip, e) = Slice(t[r], first, e)
      <3> DEFINE c == Col(r)
      <3>1. Len(c) = m
        <4>1. m \in Nat /\ DOMAIN c = 1..m /\ c = [x \in 1..m |-> c[x]]
          BY <2>4
        <4> HIDE DEF c, m
        <4> QED
          BY <4>1, LenOf
      <3>2. \A y \in (from + 1)..(to + 1) : c[y - from] = SubSeq(t[r], (y - 1) * h + 1, y * h)
        <4> TAKE y \in (from + 1)..(to + 1)
        <4>1. y \in 1..s /\ y - from \in 1..m /\ from + (y - from) = y
          BY <2>4
        <4>2. (y - 1) * h + h = y * h
          BY <2>0, <4>1
        <4>3. c[y - from] = joined[y][r]
          BY <2>6, <4>1
        <4>4. joined[y][r] = Slice(t[r], (y - 1) * h, h)
          BY <2>1, <4>1, <2>7
        <4>5. Slice(t[r], (y - 1) * h, h) = SubSeq(t[r], (y - 1) * h + 1, y * h)
          BY <4>2 DEF Slice
        <4> HIDE DEF c
        <4> QED
          BY <4>3, <4>4, <4>5
      <3> HIDE DEF c
      <3>3. Sliced(V, t[r], h, from, to, first, skip, e, c)
        BY <1>0, <2>0, <2>4, <2>5, <2>7, <3>1, <3>2 DEF Sliced
      <3> HIDE DEF skip
      <3>4. Slice(FlattenSeq(c), skip, e) = Slice(t[r], first, e)
        BY ONLY <3>3, SliceOfPieces
      <3> QED
        BY <3>4 DEF c
    <2>8. Reshard(splits, dim, n, k) = [r \in 1..R |-> Slice(FlattenSeq(Col(r)), skip, e)]
      <3>1. Reshard(splits, dim, n, k) = Narrow(Cat(u, dim), dim, first - from * here, len)
        BY <1>2, <1>6 DEF Replicated
      <3>2. first - from * here = skip
        BY <2>2
      <3> HIDE DEF skip
      <3>3. Reshard(splits, dim, n, k) = Narrow(Cat(u, 1), 1, skip, e)
        BY <3>1, <3>2, <1>6, <2>3
      <3>4. DOMAIN u[1] = 1..R
        <4>1. 1 \in 1..m /\ from + 1 \in 1..s
          BY <2>4
        <4> HIDE DEF u, m
        <4>2. u[1] = joined[from + 1]
          BY <4>1, <2>6
        <4> DEFINE y == from + 1
        <4>3. y \in 1..s
          BY <4>1
        <4> HIDE DEF y
        <4>4. DOMAIN joined[y] = 1..R
          BY <4>3, <2>1
        <4> QED
          BY <4>2, <4>4 DEF y
      <3>5. Cat(u, 1) = [r \in 1..R |-> FlattenSeq(Col(r))]
        <4> HIDE DEF u, m
        <4> QED
          BY <2>6, <3>4 DEF Cat
      <3> HIDE DEF Col
      <3>6. Narrow(Cat(u, 1), 1, skip, e)
              = [r \in 1..R |-> SubSeq(FlattenSeq(Col(r)), skip + 1, skip + e)]
        <4> DEFINE w == Cat(u, 1)
        <4>1. DOMAIN w = 1..R /\ \A r \in 1..R : w[r] = FlattenSeq(Col(r))
          BY ONLY <3>5
        <4> HIDE DEF w
        <4>2. Narrow(w, 1, skip, e) = [r \in DOMAIN w |-> SubSeq(w[r], skip + 1, skip + e)]
          BY ONLY DEF Narrow
        <4>3. Narrow(w, 1, skip, e)
                = [r \in 1..R |-> SubSeq(FlattenSeq(Col(r)), skip + 1, skip + e)]
          BY ONLY <4>1, <4>2
        <4> QED
          BY ONLY <4>3 DEF w
      <3>7. \A r : SubSeq(FlattenSeq(Col(r)), skip + 1, skip + e) = Slice(FlattenSeq(Col(r)), skip, e)
        BY DEF Slice
      <3> QED
        BY <3>3, <3>6, <3>7
    <2>9. SplitOf(t, dim, n, k) = [r \in 1..R |-> Slice(t[r], first, e)]
      <3>1. Regular(t, V, R, C)
        BY <1>0 DEF Regular
      <3>2. Share(C, n, k, e, first)
        BY <2>3 DEF e, first, Share
      <3>3. SplitOf(t, 1, n, k) = [r \in 1..R |-> Slice(t[r], first, e)]
        BY ONLY <3>1, <3>2, SplitOfRows, R \in Nat \ {0}, C \in Nat \ {0}
      <3> QED
        BY <1>6, <3>3
    <2> HIDE DEF skip, Col
    <2> QED
      BY <2>7, <2>8, <2>9
  <1> QED
    BY <1>3, <1>4, <1>5, <1>6

-----------------------------------------------------------------------------
(***************************************************************************)
(* What the ranks hold.                                                    *)
(***************************************************************************)
\* The parts a model is made of.
NamesOf(b) == DOMAIN Parameters \cup (IF b THEN {"buffer"} ELSE {})

DivisibleBy(n) == \A x \in {Vocab, Dim, Inner} : x % n = 0

\* Of tensor p after v updates: split k of n, and chunk j of d of that.
Mine(p, v, n, k) == SplitOf(Whole(p, v), Shape(p).dim, n, k)

PartOf(p, v, n, k, d, j) ==
    IF d > 1 /\ p # "buffer" THEN ChunkOf(Mine(p, v, n, k), d, j) ELSE Mine(p, v, n, k)

\* The processes a model is sharded over in addition, and a rank's places in its gangs.
Shards(l) == CASE l.parallelism = "ddp"    -> 1
               [] l.parallelism = "fsdp"   -> Quotient(l.size, l.tp)
               [] l.parallelism = "hybrid" -> l.local

TpAt(l, r)  == Rest(r, l.tp)
DpAt(l, r)  == Quotient(r, l.tp)
SdpAt(l, r) == CASE l.parallelism = "ddp"    -> 0
                 [] l.parallelism = "fsdp"   -> Quotient(r, l.tp)
                 [] l.parallelism = "hybrid" -> Rest(r, l.local)
RdpAt(l, r) == CASE l.parallelism = "ddp"    -> Quotient(r, l.tp)
                 [] l.parallelism = "fsdp"   -> 0
                 [] l.parallelism = "hybrid" -> Quotient(r, l.local)

ModelOf(l, b, v, r) ==
    [p \in NamesOf(b) |-> PartOf(p, v, l.tp, TpAt(l, r), Shards(l), SdpAt(l, r))]

StateOf(l, b, s, v, r) ==
    [trainer   |-> s,
     model     |-> ModelOf(l, b, v, r),
     optimizer |-> [tp |-> TpAt(l, r), sdp |-> SdpAt(l, r), steps |-> s],
     reader    |-> [dp |-> DpAt(l, r), read |-> s]]

\* The files of a checkpoint of step s: every rank finds its own, and nothing is there
\* besides.  Those of one that is being written: what is there is right.
KindsOf(only) == IF only THEN {"model"} ELSE Kinds

PathFor(l, r, kind) == PathOf(GangsOf(l, r), r, kind)

PathsOf(l, kinds) == {PathFor(l, r, k) : r \in RanksOf(l), k \in kinds}

Right(files, l, b, kinds, s, v) ==
    /\ DOMAIN files \subseteq PathsOf(l, kinds)
    /\ \A r \in RanksOf(l), k \in kinds :
          PathFor(l, r, k) \in DOMAIN files => files[PathFor(l, r, k)] = StateOf(l, b, s, v, r)[k]

Complete(files, l, b, kinds, s, v) ==
    /\ Right(files, l, b, kinds, s, v)
    /\ PathsOf(l, kinds) \subseteq DOMAIN files

\* The checkpoint of a model alone, of whatever layout.
ModelPaths(n, d) == {<<"model", k, j>> : k \in 0..(n - 1), j \in 0..(d - 1)}

ModelFiles(files, b, n, d, v) ==
    /\ DOMAIN files = ModelPaths(n, d)
    /\ \A k \in 0..(n - 1), j \in 0..(d - 1) :
          files[<<"model", k, j>>] = [p \in NamesOf(b) |-> PartOf(p, v, n, k, d, j)]

SourceOK ==
    \/ source = None
    \/ /\ source.version \in Nat
       /\ \E n, d \in Nat \ {0} : DivisibleBy(n) /\ ModelFiles(source.files, plan.buffered, n, d, source.version)

\* The state of rank r at step s.
At(r, s) == StateOf(Layout, plan.buffered, s, source.version + s, r)

CheckpointsOK ==
    /\ DOMAIN ckpt = 1..MaxSteps
    /\ \A s \in 1..MaxSteps :
          \/ ckpt[s] = None
          \/ /\ ckpt[s] = [files |-> ckpt[s].files, version |-> source.version + s]
             /\ Complete(ckpt[s].files, Layout, plan.buffered, KindsOf(plan.modelOnly), s, source.version + s)

PhaseOK ==
    \/ \A r \in Ranks : pc[r] \in {"start", "built", "failed"}
    \/ \A r \in Ranks : pc[r] \in {"wrapped", "restored"}
    \/ \A r \in Ranks : pc[r] = "run"
    \/ \A r \in Ranks : pc[r] \in {"save", "saved"}

Running == {"run", "save", "saved"}

Resumed == IF FullCheckpoint = {} THEN 0 ELSE LastFull

RankOK(r) ==
    /\ pc[r] = "failed" => BufferRepeated
    /\ pc[r] = "built" =>
          /\ st[r] = [At(r, 0) EXCEPT !.model = st[r].model]
          /\ FullCheckpoint = {} /\ DpAt(Layout, r) = 0 =>
                st[r].model = [p \in Names |-> Mine(p, source.version, Layout.tp, TpAt(Layout, r))]
    /\ pc[r] = "wrapped" /\ FullCheckpoint = {} => st[r] = At(r, 0)
    /\ pc[r] = "restored" => st[r] = At(r, Resumed)
    /\ pc[r] \in Running => st[r] = At(r, step) /\ version = source.version + step

\* What is written of the step being saved.
SavingOK ==
    \A r \in Ranks :
        /\ pc[r] \in {"save", "saved"} =>
              /\ step \in 1..MaxSteps
              /\ Right(tmp[step].files, Layout, plan.buffered, KindsOf(plan.modelOnly), step, version)
        /\ pc[r] = "saved" =>
              /\ tmp[step] = [files |-> tmp[step].files, version |-> version]
              /\ \A k \in KindsOf(plan.modelOnly) :
                    Writes(Gang(r), r, k) => PathOf(Gang(r), r, k) \in DOMAIN tmp[step].files

ShardsInv ==
    /\ plan \in Plans /\ step \in 0..MaxSteps
    /\ DOMAIN pc = Ranks /\ DOMAIN st = Ranks /\ DOMAIN tmp = 1..MaxSteps
    /\ SourceOK /\ CheckpointsOK /\ PhaseOK /\ SavingOK
    /\ \A r \in Ranks : RankOK(r)

-----------------------------------------------------------------------------
(***************************************************************************)
(* The tensors of a model: shapes and updates.                             *)
(***************************************************************************)
AllNames == DOMAIN Parameters \cup {"buffer"}

LEMMA NamesAre ==
    /\ DOMAIN Parameters = {"vocab", "slice", "in", "inBias", "out", "outBias"}
    /\ Names = NamesOf(plan.buffered)
    /\ \A b : NamesOf(b) \subseteq AllNames
  BY DEF Parameters, Names, NamesOf, AllNames

\* Rows, columns and the dimension that is split are as whole numbers as the dimensions are.
LEMMA ShapeIs ==
    ASSUME NEW p \in AllNames
    PROVE  /\ Shape(p).rows \in Nat \ {0} /\ Shape(p).cols \in Nat \ {0}
           /\ Shape(p).dim \in {0, 1, Replicated} /\ Shape(p).first \in Nat
           /\ \A n : DivisibleBy(n) =>
                 /\ Shape(p).dim = 0 => Shape(p).rows % n = 0
                 /\ Shape(p).dim = 1 => Shape(p).cols % n = 0
  <1>1. {Vocab, Dim, Inner, Outer} \subseteq Nat \ {0}
    BY SizeAssumption
  <1>2. p \in {"vocab", "slice", "in", "inBias", "out", "outBias", "buffer"}
    BY NamesAre DEF AllNames
  <1> QED
    BY <1>1, <1>2 DEF Shape, Parameters, Buffer, DivisibleBy, Replicated

LEMMA WholeIs ==
    ASSUME NEW p \in AllNames, NEW v \in Nat
    PROVE  Whole(p, v) \in Tensor(Nat, Shape(p).rows, Shape(p).cols)
  <1> DEFINE R == Shape(p).rows
  <1> DEFINE C == Shape(p).cols
  <1> DEFINE f == Shape(p).first
  <1>1. R \in Nat \ {0} /\ C \in Nat \ {0} /\ f \in Nat
    BY ShapeIs
  <1>2. Whole(p, v) = [i \in 1..R |-> [j \in 1..C |-> v * Stride + f + (i - 1) * C + j]]
    BY DEF Whole
  <1> HIDE DEF R, C, f
  <1>3. ASSUME NEW i \in 1..R, NEW j \in 1..C
        PROVE  v * Stride + f + (i - 1) * C + j \in Nat
    <2>1. (i - 1) * C \in Nat /\ v * 1000 \in Nat
      BY <1>1
    <2> QED
      BY <1>1, <2>1 DEF Stride
  <1>4. Whole(p, v) \in [1..R -> [1..C -> Nat]]
    BY <1>2, <1>3
  <1> QED
    BY <1>4 DEF Tensor, R, C

\* The rows and columns of a split.
RowsOf(R, dim, n) == IF dim = 0 THEN Quotient(R, n) ELSE R

LEMMA ShareFits ==
    ASSUME NEW a \in Nat \ {0}, NEW n \in Nat \ {0}, a % n = 0, NEW k \in 0..(n - 1),
           NEW first, NEW len, Share(a, n, k, len, first)
    PROVE  len \in Nat \ {0} /\ first \in Nat /\ first + len <= a
  <1>1. len \in Nat \ {0} /\ a = n * len /\ first = k * len
    BY Quotients DEF Share
  <1>2. (n - (k + 1)) * len >= 0
    BY <1>1, Z3
  <1>3. (n - (k + 1)) * len = n * len - (k * len + len)
    BY <1>1, Z3
  <1>4. n * len \in Nat /\ k * len \in Nat
    BY <1>1
  <1> QED
    BY <1>1, <1>2, <1>3, <1>4

LEMMA SplitRows ==
    ASSUME NEW V, NEW t, NEW R \in Nat \ {0}, NEW C \in Nat \ {0}, Regular(t, V, R, C),
           NEW dim \in {0, 1, Replicated}, NEW n \in Nat \ {0}, NEW k \in 0..(n - 1),
           dim = 0 => R % n = 0, dim = 1 => C % n = 0
    PROVE  Regular(SplitOf(t, dim, n, k), V, RowsOf(R, dim, n), RowsOf(C, 1 - dim, n))
  <1>0. /\ t \in Seq(Seq(V)) /\ Len(t) = R /\ DOMAIN t = 1..R
        /\ \A i \in 1..R : t[i] \in Seq(V) /\ Len(t[i]) = C /\ DOMAIN t[i] = 1..C
    BY DEF Regular
  <1>1. CASE dim = Replicated
    BY <1>1 DEF SplitOf, RowsOf, Replicated
  <1>3. CASE dim = 0
    <2> DEFINE len == R \div n
    <2> DEFINE first == k * len
    <2>1. SplitOf(t, dim, n, k) = SubSeq(t, first + 1, first + len)
      BY <1>0, <1>3 DEF SplitOf, Extent, Narrow, Replicated
    <2>2. Share(R, n, k, len, first)
      BY DEF Share
    <2>3. RowsOf(R, dim, n) = len /\ RowsOf(C, 1 - dim, n) = C
      BY <1>3 DEF RowsOf, Quotient
    <2> HIDE DEF len, first
    <2>4. len \in Nat \ {0} /\ first \in Nat /\ first + len <= R
      BY <1>3, <2>2, ShareFits
    <2>5. /\ SubSeq(t, first + 1, first + len) \in Seq(Seq(V))
          /\ Len(SubSeq(t, first + 1, first + len)) = len
          /\ \A i \in 1..len : SubSeq(t, first + 1, first + len)[i] = t[first + i]
      BY ONLY <1>0, <2>4, R \in Nat
    <2>6. \A i \in 1..len : first + i \in 1..R
      BY <2>4
    <2> QED
      BY <1>0, <2>1, <2>3, <2>4, <2>5, <2>6 DEF Regular
  <1>4. CASE dim = 1
    <2> DEFINE len == C \div n
    <2> DEFINE first == k * len
    <2>1. Share(C, n, k, len, first)
      BY DEF Share
    <2>2. RowsOf(R, dim, n) = R /\ RowsOf(C, 1 - dim, n) = len
      BY <1>4 DEF RowsOf, Quotient
    <2> HIDE DEF len, first
    <2>3. SplitOf(t, 1, n, k) = [r \in 1..R |-> Slice(t[r], first, len)]
      BY <2>1, SplitOfRows
    <2>4. len \in Nat \ {0} /\ first \in Nat /\ first + len <= C
      BY <1>4, <2>1, ShareFits
    <2>5. ASSUME NEW r \in 1..R
          PROVE  Slice(t[r], first, len) \in Seq(V) /\ Len(Slice(t[r], first, len)) = len
      <3>1. t[r] \in Seq(V) /\ Len(t[r]) = C
        BY <1>0
      <3> QED
        BY <2>4, <3>1 DEF Slice
    <2> DEFINE u == SplitOf(t, dim, n, k)
    <2>6. u = [r \in 1..R |-> Slice(t[r], first, len)]
      BY <1>4, <2>3
    <2> HIDE DEF u
    <2>7. \A r \in 1..R : u[r] \in Seq(V) /\ Len(u[r]) = len /\ DOMAIN u[r] = 1..len
      BY <2>4, <2>5, <2>6
    <2>8. u \in [1..R -> Seq(V)]
      BY <2>6, <2>7
    <2>9. u \in Seq(Seq(V)) /\ Len(u) = R /\ DOMAIN u = 1..R
      BY ONLY <2>8, R \in Nat
    <2>10. Regular(u, V, R, len)
      BY ONLY <2>7, <2>9 DEF Regular
    <2> QED
      BY <2>2, <2>10 DEF u
  <1> QED
    BY <1>1, <1>3, <1>4 DEF Replicated

\* Sequences, as functions.
LEMMA AsSeq ==
    ASSUME NEW S, NEW n \in Nat, NEW f \in [1..n -> S]
    PROVE  f \in Seq(S) /\ Len(f) = n /\ DOMAIN f = 1..n
  OBVIOUS

LEMMA SameSeq ==
    ASSUME NEW S, NEW n \in Nat, NEW f \in Seq(S), NEW g \in Seq(S), Len(f) = n, Len(g) = n,
           \A i \in 1..n : f[i] = g[i]
    PROVE  f = g
  OBVIOUS

\* An update of the rows of a tensor.
UpdatedRow(w) == [j \in DOMAIN w |-> IF w[j] = Junk THEN Junk ELSE w[j] + Stride]

LEMMA UpdatedIs ==
    ASSUME NEW t \in Seq(Seq(Nat))
    PROVE  /\ Updated(t) \in Seq(Seq(Nat)) /\ Len(Updated(t)) = Len(t) /\ DOMAIN Updated(t) = DOMAIN t
           /\ \A i \in DOMAIN t : Updated(t)[i] = UpdatedRow(t[i])
  <1>1. \A w \in Seq(Nat) : UpdatedRow(w) \in Seq(Nat) /\ Len(UpdatedRow(w)) = Len(w)
    <2> TAKE w \in Seq(Nat)
    <2>1. DOMAIN w = 1..Len(w) /\ Len(w) \in Nat /\ \A j \in 1..Len(w) : w[j] \in Nat
      OBVIOUS
    <2>2. \A j \in 1..Len(w) : (IF w[j] = Junk THEN Junk ELSE w[j] + Stride) \in Nat
      BY <2>1 DEF Junk, Stride
    <2>3. UpdatedRow(w) \in [1..Len(w) -> Nat]
      BY <2>1, <2>2 DEF UpdatedRow
    <2> QED
      BY <2>1, <2>3, AsSeq
  <1>2. DOMAIN t = 1..Len(t) /\ Len(t) \in Nat /\ \A i \in 1..Len(t) : t[i] \in Seq(Nat)
    OBVIOUS
  <1>3. Updated(t) = [i \in 1..Len(t) |-> UpdatedRow(t[i])]
    BY <1>2 DEF Updated, UpdatedRow
  <1>4. Updated(t) \in [1..Len(t) -> Seq(Nat)]
    BY <1>1, <1>2, <1>3
  <1>5. Updated(t) \in Seq(Seq(Nat)) /\ Len(Updated(t)) = Len(t) /\ DOMAIN Updated(t) = 1..Len(t)
    BY <1>2, <1>4, AsSeq
  <1>6. \A i \in 1..Len(t) : Updated(t)[i] = UpdatedRow(t[i])
    BY <1>3
  <1> QED
    BY <1>2, <1>5, <1>6

LEMMA RowsCut ==
    ASSUME NEW t \in Seq(Seq(Nat)), NEW a \in Nat \ {0}, NEW b \in 0..Len(t)
    PROVE  Updated(SubSeq(t, a, b)) = SubSeq(Updated(t), a, b)
  <1> DEFINE u == Updated(t)
  <1> DEFINE v == SubSeq(t, a, b)
  <1>1. u \in Seq(Seq(Nat)) /\ Len(u) = Len(t) /\ \A i \in 1..Len(t) : u[i] = UpdatedRow(t[i])
    BY UpdatedIs
  <1>2. v \in Seq(Seq(Nat)) /\ (a <= b => Len(v) = b - a + 1) /\ (a > b => Len(v) = 0)
    OBVIOUS
  <1>3. a <= b => \A i \in 1..(b - a + 1) : v[i] = t[a + i - 1]
    OBVIOUS
  <1>4. Updated(v) \in Seq(Seq(Nat)) /\ Len(Updated(v)) = Len(v) /\ \A i \in 1..Len(v) : Updated(v)[i] = UpdatedRow(v[i])
    <2> HIDE DEF v
    <2> QED
      BY <1>2, UpdatedIs
  <1> DEFINE w == SubSeq(u, a, b)
  <1> HIDE DEF u, v
  <1>5. /\ w \in Seq(Seq(Nat)) /\ (a <= b => Len(w) = b - a + 1) /\ (a > b => Len(w) = 0)
        /\ a <= b => \A i \in 1..(b - a + 1) : w[i] = u[a + i - 1]
    BY <1>1
  <1> HIDE DEF w
  <1>6. \A i \in 1..Len(v) : Updated(v)[i] = w[i]
    <2> TAKE i \in 1..Len(v)
    <2> DEFINE j == a + i - 1
    <2>1. a <= b /\ i \in 1..(b - a + 1) /\ j \in 1..Len(t)
      BY <1>2
    <2>2. Updated(v)[i] = UpdatedRow(v[i])
      BY <1>4
    <2>3. v[i] = t[j] /\ w[i] = u[j]
      BY <1>3, <1>5, <2>1
    <2>4. u[j] = UpdatedRow(t[j])
      BY <1>1, <2>1
    <2> HIDE DEF j
    <2> QED
      BY <2>2, <2>3, <2>4
  <1>7. Updated(v) = w
    <2> DEFINE n == Len(v)
    <2>1. n \in Nat /\ Len(Updated(v)) = n /\ Len(w) = n
      BY <1>2, <1>4, <1>5
    <2> HIDE DEF n
    <2>2. \A i \in 1..n : Updated(v)[i] = w[i]
      BY <1>6 DEF n
    <2> QED
      BY <1>4, <1>5, <2>1, <2>2, SameSeq
  <1> QED
    BY <1>7 DEF u, v, w

LEMMA RowCut ==
    ASSUME NEW x \in Seq(Nat), NEW a \in Nat \ {0}, NEW b \in a..Len(x)
    PROVE  UpdatedRow(SubSeq(x, a, b)) = SubSeq(UpdatedRow(x), a, b)
  <1> DEFINE v == SubSeq(x, a, b)
  <1> DEFINE u == UpdatedRow(x)
  <1> DEFINE w == SubSeq(u, a, b)
  <1>1. \A y \in Seq(Nat) : UpdatedRow(y) \in Seq(Nat) /\ Len(UpdatedRow(y)) = Len(y)
                            /\ \A j \in 1..Len(y) : UpdatedRow(y)[j] = y[j] + Stride
    <2> TAKE y \in Seq(Nat)
    <2>1. DOMAIN y = 1..Len(y) /\ Len(y) \in Nat /\ \A j \in 1..Len(y) : y[j] \in Nat
      OBVIOUS
    <2>2. \A j \in 1..Len(y) : UpdatedRow(y)[j] = y[j] + Stride /\ y[j] + Stride \in Nat
      BY <2>1 DEF Junk, Stride, UpdatedRow
    <2>3. DOMAIN UpdatedRow(y) = 1..Len(y) /\ UpdatedRow(y) = [j \in 1..Len(y) |-> UpdatedRow(y)[j]]
      BY <2>1 DEF UpdatedRow
    <2>4. UpdatedRow(y) \in [1..Len(y) -> Nat]
      BY <2>2, <2>3
    <2>5. UpdatedRow(y) \in Seq(Nat) /\ Len(UpdatedRow(y)) = Len(y)
      BY <2>1, <2>4, AsSeq
    <2> QED
      BY <2>2, <2>5
  <1>2. v \in Seq(Nat) /\ Len(v) = b - a + 1 /\ \A i \in 1..(b - a + 1) : v[i] = x[a + i - 1]
    OBVIOUS
  <1>3. u \in Seq(Nat) /\ Len(u) = Len(x) /\ \A i \in 1..Len(x) : u[i] = x[i] + Stride
    BY <1>1
  <1> HIDE DEF v, u
  <1>4. w \in Seq(Nat) /\ Len(w) = b - a + 1 /\ \A i \in 1..(b - a + 1) : w[i] = u[a + i - 1]
    BY ONLY <1>3, a \in 1..Len(x), b \in a..Len(x)
  <1> HIDE DEF w
  <1>5. \A i \in 1..(b - a + 1) : a + i - 1 \in 1..Len(x)
    OBVIOUS
  <1>6. UpdatedRow(v) \in Seq(Nat) /\ Len(UpdatedRow(v)) = Len(v) /\ \A j \in 1..Len(v) : UpdatedRow(v)[j] = v[j] + Stride
    BY <1>1, <1>2
  <1> DEFINE n == b - a + 1
  <1>7. ASSUME NEW i \in 1..n PROVE UpdatedRow(v)[i] = w[i]
    <2> DEFINE j == a + i - 1
    <2>1. j \in 1..Len(x) /\ v[i] = x[j] /\ w[i] = u[j]
      BY <1>2, <1>4, <1>5
    <2>2. u[j] = x[j] + Stride
      BY <1>3, <2>1
    <2>3. UpdatedRow(v)[i] = v[i] + Stride
      BY <1>2, <1>6
    <2> HIDE DEF j
    <2> QED
      BY <2>1, <2>2, <2>3
  <1>8. UpdatedRow(v) = w
    <2>1. n \in Nat /\ Len(UpdatedRow(v)) = n /\ Len(w) = n
      BY <1>2, <1>4, <1>6
    <2> HIDE DEF n
    <2> QED
      BY <1>4, <1>6, <1>7, <2>1, SameSeq
  <1> QED
    BY <1>8 DEF u, v, w

LEMMA UpdatedWhole ==
    ASSUME NEW p \in AllNames, NEW v \in Nat
    PROVE  Updated(Whole(p, v)) = Whole(p, v + 1)
  <1> DEFINE R == Shape(p).rows
  <1> DEFINE C == Shape(p).cols
  <1> DEFINE f == Shape(p).first
  <1> DEFINE t == Whole(p, v)
  <1> DEFINE u == Whole(p, v + 1)
  <1>1. R \in Nat \ {0} /\ C \in Nat \ {0} /\ f \in Nat
    BY ShapeIs
  <1>2. t = [i \in 1..R |-> [j \in 1..C |-> v * Stride + f + (i - 1) * C + j]]
    BY DEF Whole
  <1>3. u = [i \in 1..R |-> [j \in 1..C |-> (v + 1) * Stride + f + (i - 1) * C + j]]
    BY DEF Whole
  <1>4. t \in Tensor(Nat, R, C)
    BY WholeIs
  <1> HIDE DEF R, C, f, t, u
  <1>5. ASSUME NEW i \in 1..R, NEW j \in 1..C
        PROVE  t[i][j] # Junk /\ t[i][j] + Stride = u[i][j]
    <2>1. t[i][j] = v * Stride + f + (i - 1) * C + j
      BY <1>2
    <2>2. u[i][j] = (v + 1) * Stride + f + (i - 1) * C + j
      BY <1>3
    <2>3. (i - 1) * C \in Nat /\ v * 1000 \in Nat /\ (v + 1) * 1000 = v * 1000 + 1000
      BY <1>1
    <2> QED
      BY <1>1, <2>1, <2>2, <2>3 DEF Stride, Junk
  <1>6. \A i \in 1..R : DOMAIN t[i] = 1..C
    BY <1>2
  <1>7. Updated(t) = [i \in 1..R |-> [j \in 1..C |-> IF t[i][j] = Junk THEN Junk ELSE t[i][j] + Stride]]
    <2>1. DOMAIN t = 1..R
      BY <1>2
    <2> QED
      BY <1>6, <2>1 DEF Updated
  <1>8. Updated(t) = [i \in 1..R |-> [j \in 1..C |-> u[i][j]]]
    BY <1>5, <1>7
  <1>9. u = [i \in 1..R |-> [j \in 1..C |-> u[i][j]]]
    BY <1>3
  <1> QED
    BY <1>8, <1>9 DEF t, u

LEMMA UpdatedRegular ==
    ASSUME NEW R \in Nat \ {0}, NEW C \in Nat \ {0}, NEW t, Regular(t, Nat, R, C)
    PROVE  Regular(Updated(t), Nat, R, C)
  <1>1. /\ t \in Seq(Seq(Nat)) /\ Len(t) = R /\ DOMAIN t = 1..R
        /\ \A i \in 1..R : t[i] \in Seq(Nat) /\ Len(t[i]) = C /\ DOMAIN t[i] = 1..C
    BY DEF Regular
  <1>2. /\ Updated(t) \in Seq(Seq(Nat)) /\ Len(Updated(t)) = R /\ DOMAIN Updated(t) = 1..R
        /\ \A i \in 1..R : Updated(t)[i] = UpdatedRow(t[i])
    BY <1>1, UpdatedIs
  <1>3. \A i \in 1..R : Updated(t)[i] \in Seq(Nat)
    BY <1>2
  <1>4. \A i \in 1..R : DOMAIN Updated(t)[i] = 1..C
    BY <1>1, <1>2 DEF UpdatedRow
  <1>5. \A i \in 1..R : Len(Updated(t)[i]) = C
    BY <1>3, <1>4
  <1> QED
    BY <1>2, <1>3, <1>4, <1>5 DEF Regular

LEMMA UpdatedSplit ==
    ASSUME NEW R \in Nat \ {0}, NEW C \in Nat \ {0}, NEW t, Regular(t, Nat, R, C),
           NEW dim \in {0, 1, Replicated}, NEW n \in Nat \ {0}, NEW k \in 0..(n - 1),
           dim = 0 => R % n = 0, dim = 1 => C % n = 0
    PROVE  Updated(SplitOf(t, dim, n, k)) = SplitOf(Updated(t), dim, n, k)
  <1> DEFINE u == Updated(t)
  <1>0. Regular(u, Nat, R, C)
    BY UpdatedRegular
  <1>1. /\ t \in Seq(Seq(Nat)) /\ Len(t) = R /\ DOMAIN t = 1..R
        /\ \A i \in 1..R : t[i] \in Seq(Nat) /\ Len(t[i]) = C
    BY DEF Regular
  <1>2. u \in Seq(Seq(Nat)) /\ Len(u) = R /\ \A i \in 1..R : u[i] = UpdatedRow(t[i])
    BY <1>1, UpdatedIs
  <1>3. CASE dim = Replicated
    BY <1>3 DEF SplitOf
  <1>4. CASE dim = 0
    <2> DEFINE len == R \div n
    <2> DEFINE first == k * len
    <2>1. Share(R, n, k, len, first)
      BY DEF Share
    <2>2. SplitOf(t, dim, n, k) = SubSeq(t, first + 1, first + len)
      BY <1>1, <1>4 DEF SplitOf, Extent, Narrow, Replicated
    <2> HIDE DEF u
    <2>3. SplitOf(u, dim, n, k) = SubSeq(u, first + 1, first + len)
      BY <1>2, <1>4 DEF SplitOf, Extent, Narrow, Replicated
    <2> HIDE DEF len, first
    <2>4. len \in Nat \ {0} /\ first \in Nat /\ first + len <= R
      BY <1>4, <2>1, ShareFits
    <2> DEFINE a == first + 1
    <2> DEFINE b == first + len
    <2>5. a \in Nat \ {0} /\ b \in 0..Len(t)
      BY <1>1, <2>4
    <2> HIDE DEF a, b
    <2>6. Updated(SubSeq(t, a, b)) = SubSeq(Updated(t), a, b)
      BY <1>1, <2>5, RowsCut
    <2> QED
      BY <2>2, <2>3, <2>6 DEF a, b, u
  <1>5. CASE dim = 1
    <2> DEFINE len == C \div n
    <2> DEFINE first == k * len
    <2>1. Share(C, n, k, len, first)
      BY DEF Share
    <2> HIDE DEF u, len, first
    <2>2. SplitOf(t, 1, n, k) = [r \in 1..R |-> Slice(t[r], first, len)]
      BY <2>1, SplitOfRows
    <2>3. SplitOf(u, 1, n, k) = [r \in 1..R |-> Slice(u[r], first, len)]
      BY <1>0, <2>1, SplitOfRows
    <2>4. len \in Nat \ {0} /\ first \in Nat /\ first + len <= C
      BY <1>5, <2>1, ShareFits
    <2>5. ASSUME NEW r \in 1..R
          PROVE  UpdatedRow(Slice(t[r], first, len)) = Slice(u[r], first, len)
      <3> DEFINE x == t[r]
      <3> DEFINE a == first + 1
      <3> DEFINE b == first + len
      <3>1. x \in Seq(Nat) /\ a \in Nat \ {0} /\ b \in a..Len(x)
        BY <1>1, <2>4
      <3> HIDE DEF x, a, b
      <3>2. UpdatedRow(SubSeq(x, a, b)) = SubSeq(UpdatedRow(x), a, b)
        BY <3>1, RowCut
      <3> QED
        BY <1>2, <3>2 DEF Slice, x, a, b
    <2> DEFINE v == SplitOf(t, 1, n, k)
    <2>6. DOMAIN v = 1..R /\ \A r \in 1..R : v[r] = Slice(t[r], first, len)
      BY <2>2
    <2> HIDE DEF v
    <2>7. Updated(v) = [r \in 1..R |-> UpdatedRow(v[r])]
      BY <2>6 DEF Updated, UpdatedRow
    <2>8. Updated(v) = [r \in 1..R |-> Slice(u[r], first, len)]
      BY <2>5, <2>6, <2>7
    <2> QED
      BY <1>5, <2>3, <2>8 DEF u, v
  <1> QED
    BY <1>3, <1>4, <1>5

LEMMA UpdatedChunk ==
    ASSUME NEW t \in Seq(Seq(Nat)), NEW n \in Nat \ {0}, NEW k \in Nat
    PROVE  Updated(ChunkOf(t, n, k)) = ChunkOf(Updated(t), n, k)
  <1> DEFINE len == (Len(t) + n - 1) \div n
  <1> DEFINE a == k * len + 1
  <1> DEFINE c == (k + 1) * len
  <1> DEFINE b == Min({c, Len(t)})
  <1>1. Len(Updated(t)) = Len(t)
    BY UpdatedIs
  <1>2. ChunkOf(t, n, k) = SubSeq(t, a, b) /\ ChunkOf(Updated(t), n, k) = SubSeq(Updated(t), a, b)
    BY <1>1 DEF ChunkOf
  <1>3. len \in Nat /\ Len(t) \in Nat
    <2> DEFINE e == Len(t)
    <2>1. e \in Nat
      OBVIOUS
    <2> HIDE DEF e
    <2>2. (e + n - 1) \div n \in Nat
      BY <2>1, ChunksReach
    <2> QED
      BY <2>1, <2>2 DEF e
  <1> HIDE DEF len
  <1>4. a \in Nat \ {0} /\ c \in Nat
    BY <1>3
  <1> HIDE DEF a, c
  <1>5. b \in 0..Len(t)
    <2> DEFINE e == Len(t)
    <2>1. e \in Nat /\ c \in Nat
      BY <1>3, <1>4
    <2> HIDE DEF e
    <2>2. Min({c, e}) = IF c <= e THEN c ELSE e
      BY <2>1, MinOfTwo
    <2>3. Min({c, e}) \in 0..e
      BY <2>1, <2>2
    <2> QED
      BY <2>3 DEF e
  <1> HIDE DEF b
  <1> QED
    BY <1>2, <1>4, <1>5, RowsCut

\* A part of the model after an update is the part of the updated model.
LEMMA UpdatedPart ==
    ASSUME NEW p \in AllNames, NEW v \in Nat, NEW n \in Nat \ {0}, DivisibleBy(n),
           NEW k \in 0..(n - 1), NEW d \in Nat \ {0}, NEW j \in 0..(d - 1)
    PROVE  Updated(PartOf(p, v, n, k, d, j)) = PartOf(p, v + 1, n, k, d, j)
  <1> DEFINE R == Shape(p).rows
  <1> DEFINE C == Shape(p).cols
  <1> DEFINE dim == Shape(p).dim
  <1>1. /\ R \in Nat \ {0} /\ C \in Nat \ {0} /\ dim \in {0, 1, Replicated}
        /\ dim = 0 => R % n = 0
        /\ dim = 1 => C % n = 0
    BY ShapeIs
  <1>2. Regular(Whole(p, v), Nat, R, C)
    BY <1>1, WholeIs, TensorIs
  <1>3. Updated(Whole(p, v)) = Whole(p, v + 1)
    BY UpdatedWhole
  <1>4. Mine(p, v, n, k) = SplitOf(Whole(p, v), dim, n, k) /\ Mine(p, v + 1, n, k) = SplitOf(Whole(p, v + 1), dim, n, k)
    BY DEF Mine
  <1> HIDE DEF R, C, dim
  <1>5. Updated(Mine(p, v, n, k)) = Mine(p, v + 1, n, k)
    BY <1>1, <1>2, <1>3, <1>4, UpdatedSplit
  <1>6. Mine(p, v, n, k) \in Seq(Seq(Nat))
    <2>1. Regular(SplitOf(Whole(p, v), dim, n, k), Nat, RowsOf(R, dim, n), RowsOf(C, 1 - dim, n))
      BY <1>1, <1>2, SplitRows
    <2> QED
      BY <1>4, <2>1 DEF Regular
  <1>7. Updated(ChunkOf(Mine(p, v, n, k), d, j)) = ChunkOf(Mine(p, v + 1, n, k), d, j)
    BY <1>5, <1>6, UpdatedChunk
  <1> QED
    BY <1>5, <1>7 DEF PartOf

LEMMA MineIs ==
    ASSUME NEW p \in AllNames, NEW v \in Nat, NEW n \in Nat \ {0}, DivisibleBy(n), NEW k \in 0..(n - 1)
    PROVE  /\ Mine(p, v, n, k) \in Seq(Seq(Nat))
           /\ Regular(Mine(p, v, n, k), Nat, RowsOf(Shape(p).rows, Shape(p).dim, n),
                      RowsOf(Shape(p).cols, 1 - Shape(p).dim, n))
  <1> DEFINE R == Shape(p).rows
  <1> DEFINE C == Shape(p).cols
  <1> DEFINE dim == Shape(p).dim
  <1>1. /\ R \in Nat \ {0} /\ C \in Nat \ {0} /\ dim \in {0, 1, Replicated}
        /\ dim = 0 => R % n = 0
        /\ dim = 1 => C % n = 0
    BY ShapeIs
  <1>2. Regular(Whole(p, v), Nat, R, C)
    BY <1>1, WholeIs, TensorIs
  <1>3. Mine(p, v, n, k) = SplitOf(Whole(p, v), dim, n, k)
    BY DEF Mine
  <1> HIDE DEF R, C, dim
  <1>4. Regular(SplitOf(Whole(p, v), dim, n, k), Nat, RowsOf(R, dim, n), RowsOf(C, 1 - dim, n))
    BY <1>1, <1>2, SplitRows
  <1> QED
    BY <1>3, <1>4 DEF R, C, dim, Regular

\* A part of the model fits into the part of a model on the meta device.
LEMMA PartFits ==
    ASSUME NEW p \in AllNames, NEW v \in Nat, NEW n \in Nat \ {0}, DivisibleBy(n), NEW k \in 0..(n - 1)
    PROVE  Fits(Mine(p, v, n, k), JunkOf(Mine(p, 0, n, k)))
  <1> DEFINE R == RowsOf(Shape(p).rows, Shape(p).dim, n)
  <1> DEFINE C == RowsOf(Shape(p).cols, 1 - Shape(p).dim, n)
  <1> DEFINE t == Mine(p, v, n, k)
  <1> DEFINE u == Mine(p, 0, n, k)
  <1>1. Regular(t, Nat, R, C) /\ Regular(u, Nat, R, C)
    BY MineIs
  <1> HIDE DEF R, C, t, u
  <1>2. /\ Len(t) = R /\ DOMAIN t = 1..R /\ \A i \in 1..R : Len(t[i]) = C
        /\ Len(u) = R /\ DOMAIN u = 1..R /\ R \in Nat
        /\ \A i \in 1..R : DOMAIN u[i] = 1..C /\ C \in Nat
    BY <1>1 DEF Regular
  <1> DEFINE w == JunkOf(u)
  <1>3. w = [i \in 1..R |-> [j \in DOMAIN u[i] |-> Junk]]
    BY <1>2 DEF JunkOf
  <1> HIDE DEF w
  <1>4. \A i \in 1..R : w[i] \in [1..C -> {Junk}]
    BY <1>2, <1>3
  <1>5. \A i \in 1..R : Len(w[i]) = C
    BY <1>2, <1>4, AsSeq
  <1>6. w \in [1..R -> {w[i] : i \in 1..R}]
    BY <1>3
  <1>7. Len(w) = R
    BY <1>2, <1>6, AsSeq
  <1> QED
    BY <1>2, <1>5, <1>7 DEF Fits, t, u, w

LEMMA SelfFits ==
    ASSUME NEW t
    PROVE  Fits(t, t)
  BY DEF Fits

\* What FSDP has divided is put together again.
LEMMA PartsJoin ==
    ASSUME NEW p \in AllNames, NEW v \in Nat, NEW n \in Nat \ {0}, DivisibleBy(n),
           NEW k \in 0..(n - 1), NEW d \in Nat \ {0}, p # "buffer" \/ d = 1
    PROVE  Cat([e \in 1..d |-> PartOf(p, v, n, k, d, e - 1)], 0) = Mine(p, v, n, k)
  <1> DEFINE s == [e \in 1..d |-> PartOf(p, v, n, k, d, e - 1)]
  <1> DEFINE t == Mine(p, v, n, k)
  <1>1. t \in Seq(Seq(Nat))
    BY MineIs
  <1>2. Len(s) = d /\ DOMAIN s = 1..d
    <2>1. DOMAIN s = 1..d /\ s = [i \in 1..d |-> s[i]]
      OBVIOUS
    <2> HIDE DEF s
    <2> QED
      BY <2>1, LenOf
  <1>3. CASE d > 1
    <2>1. \A i \in 1..d : s[i] = ChunkOf(t, d, i - 1)
      BY <1>3 DEF PartOf
    <2> HIDE DEF s, t
    <2>2. FlattenSeq(s) = t
      BY <1>1, <1>2, <2>1, ChunksJoin
    <2> QED
      BY <2>2 DEF Cat, s, t
  <1>4. CASE d = 1
    <2>1. s[1] = t
      BY <1>4 DEF PartOf
    <2> HIDE DEF s, t
    <2>2. PICK f : DOMAIN f = 1..Len(s) /\ Joins(s, f) /\ FlattenSeq(s) = f[Len(s)]
      BY <1>2, FlattenIs
    <2>3. f[1] = s[1]
      BY <1>2, <1>4, <2>2 DEF Joins
    <2> QED
      BY <1>2, <1>4, <2>1, <2>2, <2>3 DEF Cat, s, t
  <1> QED
    BY <1>3, <1>4

\* What a checkpoint of n by d files is to a loader.
LEMMA FilesAre ==
    ASSUME NEW n \in Nat \ {0}, NEW d \in Nat \ {0}, NEW files, DOMAIN files = ModelPaths(n, d)
    PROVE  /\ Cardinality({path[2] : path \in DOMAIN files}) = n
           /\ Cardinality({path[3] : path \in DOMAIN files}) = d
  <1>1. {path[2] : path \in DOMAIN files} = 0..(n - 1)
    <2>1. \A path \in ModelPaths(n, d) : path[2] \in 0..(n - 1)
      BY DEF ModelPaths
    <2>2. \A k \in 0..(n - 1) : <<"model", k, 0>> \in ModelPaths(n, d)
      BY DEF ModelPaths
    <2>3. \A k : <<"model", k, 0>>[2] = k
      OBVIOUS
    <2> QED
      BY <2>1, <2>2, <2>3
  <1>2. {path[3] : path \in DOMAIN files} = 0..(d - 1)
    <2>1. \A path \in ModelPaths(n, d) : path[3] \in 0..(d - 1)
      BY DEF ModelPaths
    <2>2. \A j \in 0..(d - 1) : <<"model", 0, j>> \in ModelPaths(n, d)
      BY DEF ModelPaths
    <2>3. \A j : <<"model", 0, j>>[3] = j
      OBVIOUS
    <2> QED
      BY <2>1, <2>2, <2>3
  <1>3. \A a \in Nat \ {0} : Cardinality(0..(a - 1)) = a
    BY FS_Interval
  <1> QED
    BY <1>1, <1>2, <1>3

\* lazy_load() of a model of any layout, by a rank of any other.
THEOREM AnyLayoutLoads ==
    ASSUME NEW b, NEW p \in NamesOf(b), NEW v \in Nat, NEW m \in Nat \ {0}, NEW d \in Nat \ {0},
           NEW files, ModelFiles(files, b, m, d, v), DivisibleBy(m), p # "buffer" \/ d = 1,
           NEW n \in Nat \ {0}, DivisibleBy(n), NEW k \in 0..(n - 1),
           NEW g, NEW r, Len(g.tp) = n, RankIn(g.tp, r) = k
    PROVE  Load(files, p, g, r) = Mine(p, v, n, k)
  <1> DEFINE tps == {path[2] : path \in DOMAIN files}
  <1> DEFINE sdps == {path[3] : path \in DOMAIN files}
  <1> DEFINE row(t) == [e \in 1..Cardinality(sdps) |-> files[<<"model", t, e - 1>>][p]]
  <1> DEFINE R == Shape(p).rows
  <1> DEFINE C == Shape(p).cols
  <1> DEFINE dim == Shape(p).dim
  <1>0. p \in AllNames
    BY NamesAre
  <1>1. Cardinality(tps) = m /\ Cardinality(sdps) = d
    BY FilesAre DEF ModelFiles
  <1>2. Load(files, p, g, r) = IF m = n THEN Reshard(<<row(k)>>, dim, 1, 0)
                               ELSE Reshard([t \in 1..m |-> row(t - 1)], dim, n, k)
    BY <1>1 DEF Load
  <1>3. ASSUME NEW t \in 0..(m - 1) PROVE Cat(row(t), 0) = Mine(p, v, m, t)
    <2>1. row(t) = [e \in 1..d |-> PartOf(p, v, m, t, d, e - 1)]
      <3>1. \A e \in 1..d : files[<<"model", t, e - 1>>][p] = PartOf(p, v, m, t, d, e - 1)
        <4> TAKE e \in 1..d
        <4> DEFINE j == e - 1
        <4>1. j \in 0..(d - 1)
          OBVIOUS
        <4> HIDE DEF j
        <4>2. files[<<"model", t, j>>] = [q \in NamesOf(b) |-> PartOf(q, v, m, t, d, j)]
          BY <4>1 DEF ModelFiles
        <4> QED
          BY <4>2 DEF j
      <3> HIDE DEF sdps
      <3> QED
        BY <1>1, <3>1
    <2> HIDE DEF row
    <2> QED
      BY <1>0, <2>1, PartsJoin
  <1>4. /\ R \in Nat \ {0} /\ C \in Nat \ {0} /\ dim \in {0, 1, Replicated}
        /\ dim = 0 => R % n = 0 /\ R % m = 0
        /\ dim = 1 => C % n = 0 /\ C % m = 0
    BY <1>0, ShapeIs
  <1>5. Whole(p, v) \in Tensor(Nat, R, C)
    BY <1>0, WholeIs
  <1> HIDE DEF row, tps, sdps
  <1>6. CASE m = n
    <2> DEFINE x == row(k)
    <2>1. Cat(x, 0) = Mine(p, v, n, k)
      BY <1>3, <1>6
    <2> HIDE DEF x
    <2>2. Reshard(<<x>>, dim, 1, 0) = Cat(x, 0)
      <3> DEFINE s == <<x>>
      <3>1. Len(s) = 1 /\ DOMAIN s = 1..1 /\ s[1] = x
        OBVIOUS
      <3> HIDE DEF s
      <3>2. Reshard(s, dim, 1, 0) = [i \in DOMAIN s |-> Cat(s[i], 0)][0 + 1]
        BY <3>1 DEF Reshard
      <3>3. [i \in DOMAIN s |-> Cat(s[i], 0)][0 + 1] = Cat(s[1], 0)
        BY <3>1
      <3> QED
        BY <3>1, <3>2, <3>3 DEF s
    <2> QED
      BY <1>2, <1>6, <2>1, <2>2 DEF x
  <1>7. CASE m # n
    <2> DEFINE s == [t \in 1..m |-> row(t - 1)]
    <2>1. DOMAIN s = 1..m /\ Len(s) = m
      <3>1. DOMAIN s = 1..m /\ s = [i \in 1..m |-> s[i]]
        OBVIOUS
      <3> HIDE DEF s
      <3> QED
        BY <3>1, LenOf
    <2>2. \A i \in 1..m : Cat(s[i], 0) = SplitOf(Whole(p, v), dim, m, i - 1)
      <3> TAKE i \in 1..m
      <3>1. i - 1 \in 0..(m - 1)
        OBVIOUS
      <3> QED
        BY <1>3, <3>1 DEF Mine
    <2> HIDE DEF s, R, C, dim
    <2>3. Reshard(s, dim, n, k) = SplitOf(Whole(p, v), dim, n, k)
      <3> DEFINE w == Whole(p, v)
      <3>1. w \in Tensor(Nat, R, C)
        BY <1>5
      <3>2. \A i \in 1..m : Cat(s[i], 0) = SplitOf(w, dim, m, i - 1)
        BY <2>2
      <3>3. Resharded(Nat, R, C, w, dim, m, n, s, k)
        BY <1>4, <2>1, <3>1, <3>2 DEF Resharded
      <3> HIDE DEF w
      <3>5. Reshard(s, dim, n, k) = SplitOf(w, dim, n, k)
        BY ONLY <3>3, ReshardJoined
      <3> QED
        BY <3>5 DEF w
    <2> QED
      BY <1>2, <1>7, <2>3 DEF Mine, s, dim
  <1> QED
    BY <1>6, <1>7

-----------------------------------------------------------------------------
(***************************************************************************)
(* Where a rank is in its gangs.                                           *)
(***************************************************************************)
\* A number by its quotient and its rest.
LEMMA Composed ==
    ASSUME NEW b \in Nat \ {0}, NEW c \in Nat, NEW x \in 0..(b - 1), NEW a, a = c * b + x
    PROVE  a \in Nat /\ Quotient(a, b) = c /\ Rest(a, b) = x
  BY PartsAre DEF Quotient, Rest

LEMMA Composes ==
    ASSUME NEW b \in Nat \ {0}, NEW a \in Nat
    PROVE  /\ Quotient(a, b) \in Nat /\ Rest(a, b) \in 0..(b - 1)
           /\ a = Quotient(a, b) * b + Rest(a, b)
  BY DivMod DEF Quotient, Rest

\* Ranks that a mesh has.
LEMMA InMesh ==
    ASSUME NEW n \in Nat \ {0}, NEW b \in Nat \ {0}, Rest(n, b) = 0
    PROVE  /\ Quotient(n, b) \in Nat \ {0}
           /\ \A r \in 0..(n - 1) : Quotient(r, b) \in 0..(Quotient(n, b) - 1) /\ Rest(r, b) \in 0..(b - 1)
           /\ \A c \in 0..(Quotient(n, b) - 1), x \in 0..(b - 1) : c * b + x \in 0..(n - 1)
  <1> DEFINE m == Quotient(n, b)
  <1>1. n = m * b /\ m \in Nat
    <2>1. m \in Nat /\ n = m * b + Rest(n, b)
      BY Composes
    <2> HIDE DEF m
    <2>2. m * b \in Nat
      BY <2>1
    <2> QED
      BY <2>1, <2>2
  <1> HIDE DEF m
  <1>2. m # 0
    BY <1>1
  <1>3. ASSUME NEW r \in 0..(n - 1) PROVE Quotient(r, b) \in 0..(m - 1) /\ Rest(r, b) \in 0..(b - 1)
    BY <1>1, <1>3, PartsBelow DEF Quotient, Rest
  <1>4. ASSUME NEW c \in 0..(m - 1), NEW x \in 0..(b - 1) PROVE c * b + x \in 0..(n - 1)
    <2>1. (m - 1 - c) * b >= 0
      BY <1>1, Z3
    <2>2. (m - 1 - c) * b = m * b - b - c * b
      BY <1>1, Z3
    <2>3. c * b \in Nat /\ m * b \in Nat
      BY <1>1
    <2> QED
      BY <1>1, <2>1, <2>2, <2>3
  <1> QED
    BY <1>1, <1>2, <1>3, <1>4 DEF m

\* What a layout says.
LEMMA LayoutIs ==
    ASSUME NEW l \in Layouts, Accepted(l)
    PROVE  /\ l.size \in Nat \ {0} /\ l.tp \in Nat \ {0} /\ l.local \in Nat \ {0}
           /\ l.parallelism \in {"ddp", "fsdp", "hybrid"} /\ RanksOf(l) = 0..(l.size - 1)
           /\ Rest(l.size, l.tp) = 0
           /\ l.parallelism = "hybrid" => l.tp = 1 /\ Rest(l.size, l.local) = 0
           /\ Shards(l) \in Nat \ {0}
  <1>1. /\ l.size \in Nat \ {0} /\ l.tp \in Nat \ {0} /\ l.local \in Nat \ {0}
        /\ l.parallelism \in {"ddp", "fsdp", "hybrid"} /\ RanksOf(l) = 0..(l.size - 1)
        /\ Rest(l.size, l.tp) = 0
        /\ l.parallelism = "hybrid" => l.tp = 1 /\ Rest(l.size, l.local) = 0
    BY DEF Layouts, Accepted, RanksOf, Rest
  <1>2. Quotient(l.size, l.tp) \in Nat \ {0}
    <2> DEFINE n == l.size
    <2> DEFINE b == l.tp
    <2>1. n \in Nat \ {0} /\ b \in Nat \ {0} /\ Rest(n, b) = 0
      BY <1>1
    <2> HIDE DEF n, b
    <2>2. Quotient(n, b) \in Nat \ {0}
      BY <2>1, InMesh
    <2> QED
      BY <2>2 DEF n, b
  <1>3. Shards(l) \in Nat \ {0}
    BY <1>1, <1>2 DEF Shards
  <1> QED
    BY <1>1, <1>3

LEMMA GangsAre ==
    ASSUME NEW l \in Layouts, Accepted(l), NEW r \in RanksOf(l), NEW n, n = l.size, NEW t, t = l.tp,
           NEW k, k = l.local, NEW g, g = GangsOf(l, r)
    PROVE  /\ DOMAIN g = {"root", "dp", "rdp", "sdp", "tp"}
           /\ g["dp"] = MeshColumn(n, t, Rest(r, t)) /\ g["tp"] = MeshRow(t, Quotient(r, t))
           /\ l.parallelism = "ddp" => g["rdp"] = g["dp"] /\ g["sdp"] = <<r>>
           /\ l.parallelism = "fsdp" => g["rdp"] = <<r>> /\ g["sdp"] = g["dp"]
           /\ l.parallelism = "hybrid" => /\ g["rdp"] = MeshColumn(n, k, Rest(r, k))
                                          /\ g["sdp"] = MeshRow(k, Quotient(r, k))
  <1>1. /\ g["dp"] = MeshColumn(n, t, r % t)
        /\ g["rdp"] = IF l.parallelism = "fsdp" THEN <<r>>
                      ELSE IF l.parallelism = "hybrid" THEN MeshColumn(n, k, r % k) ELSE g["dp"]
    BY GangIs
  <1>2. /\ DOMAIN g = {"root", "dp", "rdp", "sdp", "tp"} /\ g["tp"] = MeshRow(t, r \div t)
        /\ g["sdp"] = IF l.parallelism = "fsdp" THEN g["dp"]
                      ELSE IF l.parallelism = "hybrid" THEN MeshRow(k, r \div k) ELSE <<r>>
    BY SplitGangs
  <1> QED
    BY <1>1, <1>2 DEF Quotient, Rest

\* The places of a rank in its gangs, and their sizes.
LEMMA PlacesAre ==
    ASSUME NEW l \in Layouts, Accepted(l), NEW r \in RanksOf(l), NEW g, g = GangsOf(l, r)
    PROVE  /\ Len(g["tp"]) = l.tp /\ RankIn(g["tp"], r) = TpAt(l, r)
           /\ Len(g["sdp"]) = Shards(l) /\ RankIn(g["sdp"], r) = SdpAt(l, r)
           /\ RankIn(g["dp"], r) = DpAt(l, r) /\ RankIn(g["rdp"], r) = RdpAt(l, r)
           /\ TpAt(l, r) \in 0..(l.tp - 1) /\ SdpAt(l, r) \in 0..(Shards(l) - 1)
           /\ DpAt(l, r) \in Nat /\ RdpAt(l, r) \in Nat
  <1> DEFINE n == l.size
  <1> DEFINE t == l.tp
  <1> DEFINE k == l.local
  <1> DEFINE par == l.parallelism
  <1>1. /\ n \in Nat \ {0} /\ t \in Nat \ {0} /\ k \in Nat \ {0} /\ par \in {"ddp", "fsdp", "hybrid"}
        /\ r \in 0..(n - 1) /\ Rest(n, t) = 0
        /\ par = "hybrid" => t = 1 /\ Rest(n, k) = 0
    BY LayoutIs
  <1>2. /\ g["dp"] = MeshColumn(n, t, Rest(r, t)) /\ g["tp"] = MeshRow(t, Quotient(r, t))
        /\ par = "ddp" => g["rdp"] = g["dp"] /\ g["sdp"] = <<r>>
        /\ par = "fsdp" => g["rdp"] = <<r>> /\ g["sdp"] = g["dp"]
        /\ par = "hybrid" => g["rdp"] = MeshColumn(n, k, Rest(r, k)) /\ g["sdp"] = MeshRow(k, Quotient(r, k))
    BY GangsAre
  <1>3. /\ TpAt(l, r) = Rest(r, t) /\ DpAt(l, r) = Quotient(r, t)
        /\ par = "ddp" => SdpAt(l, r) = 0 /\ RdpAt(l, r) = Quotient(r, t) /\ Shards(l) = 1
        /\ par = "fsdp" => SdpAt(l, r) = Quotient(r, t) /\ RdpAt(l, r) = 0 /\ Shards(l) = Quotient(n, t)
        /\ par = "hybrid" => SdpAt(l, r) = Rest(r, k) /\ RdpAt(l, r) = Quotient(r, k) /\ Shards(l) = k
    BY DEF TpAt, DpAt, SdpAt, RdpAt, Shards
  <1> HIDE DEF n, t, k, par
  <1>4. /\ Len(g["dp"]) = Quotient(n, t) /\ RankIn(g["dp"], r) = Quotient(r, t)
    BY <1>1, <1>2, InColumn
  <1>5. Len(g["tp"]) = t /\ RankIn(g["tp"], r) = Rest(r, t)
    BY <1>1, <1>2, InRow
  <1>6. Len(<<r>>) = 1 /\ RankIn(<<r>>, r) = 0
    <2>1. r \in Nat
      BY <1>1
    <2> QED
      BY <2>1, InOwn
  <1>7. par = "hybrid" => /\ Len(g["sdp"]) = k /\ RankIn(g["sdp"], r) = Rest(r, k)
                          /\ RankIn(g["rdp"], r) = Quotient(r, k)
    <2> SUFFICES ASSUME par = "hybrid"
                 PROVE  /\ Len(g["sdp"]) = k /\ RankIn(g["sdp"], r) = Rest(r, k)
                        /\ RankIn(g["rdp"], r) = Quotient(r, k)
      OBVIOUS
    <2>1. Len(g["sdp"]) = k /\ RankIn(g["sdp"], r) = Rest(r, k)
      BY <1>1, <1>2, InRow
    <2>2. RankIn(g["rdp"], r) = Quotient(r, k)
      BY <1>1, <1>2, InColumn
    <2> QED
      BY <2>1, <2>2
  <1>8. /\ Quotient(r, t) \in 0..(Quotient(n, t) - 1) /\ Rest(r, t) \in 0..(t - 1) /\ Quotient(n, t) \in Nat \ {0}
        /\ par = "hybrid" => Quotient(r, k) \in 0..(Quotient(n, k) - 1) /\ Rest(r, k) \in 0..(k - 1) /\ Quotient(n, k) \in Nat \ {0}
    BY <1>1, InMesh
  <1>9. CASE par = "ddp"
    BY <1>2, <1>3, <1>4, <1>5, <1>6, <1>8, <1>9 DEF t
  <1>10. CASE par = "fsdp"
    BY <1>2, <1>3, <1>4, <1>5, <1>6, <1>8, <1>10 DEF t
  <1>11. CASE par = "hybrid"
    BY <1>2, <1>3, <1>4, <1>5, <1>7, <1>8, <1>11 DEF t
  <1> QED
    BY <1>1, <1>9, <1>10, <1>11

\* The first rank of a rank's column.
LEMMA FirstInColumn ==
    ASSUME NEW n \in Nat \ {0}, NEW t \in Nat \ {0}, Rest(n, t) = 0, NEW r \in 0..(n - 1),
           NEW w, w = MeshColumn(n, t, Rest(r, t))[1]
    PROVE  w \in 0..(n - 1) /\ Rest(w, t) = Rest(r, t) /\ Quotient(w, t) = 0
  <1> DEFINE m == n \div t
  <1> DEFINE x == Rest(r, t)
  <1>1. m \in Nat \ {0} /\ x \in 0..(t - 1)
    BY InMesh DEF Quotient
  <1>2. MeshColumn(n, t, x) = [c \in 1..m |-> (c - 1) * t + x]
    BY DEF MeshColumn
  <1>3. \A c \in 0..(m - 1), y \in 0..(t - 1) : c * t + y \in 0..(n - 1)
    BY InMesh DEF Quotient
  <1> HIDE DEF m, x
  <1>4. w = (1 - 1) * t + x
    BY <1>1, <1>2 DEF x
  <1>5. w = 0 * t + x /\ 0 \in 0..(m - 1)
    BY <1>1, <1>4
  <1>6. w \in 0..(n - 1)
    BY <1>1, <1>3, <1>5
  <1>7. Quotient(w, t) = 0 /\ Rest(w, t) = x
    <2>1. ASSUME NEW c \in Nat, w = c * t + x PROVE Quotient(w, t) = c /\ Rest(w, t) = x
      BY ONLY <1>1, <2>1, t \in Nat \ {0}, c \in Nat, Composed
    <2>2. PICK c \in Nat : c = 0
      OBVIOUS
    <2>3. w = c * t + x
      BY <1>5, <2>2
    <2> QED
      BY <2>1, <2>2, <2>3
  <1> QED
    BY <1>6, <1>7 DEF x

\* The first rank of a data parallel gang has the same split of the model.
LEMMA FirstOfDp ==
    ASSUME NEW l \in Layouts, Accepted(l), NEW r \in RanksOf(l), NEW w, w = GangsOf(l, r)["dp"][1]
    PROVE  w \in RanksOf(l) /\ TpAt(l, w) = TpAt(l, r) /\ DpAt(l, w) = 0
  <1> DEFINE n == l.size
  <1> DEFINE t == l.tp
  <1>1. n \in Nat \ {0} /\ t \in Nat \ {0} /\ r \in 0..(n - 1) /\ Rest(n, t) = 0 /\ RanksOf(l) = 0..(n - 1)
    BY LayoutIs
  <1>2. w = MeshColumn(n, t, Rest(r, t))[1]
    BY GangsAre
  <1>3. TpAt(l, w) = Rest(w, t) /\ TpAt(l, r) = Rest(r, t) /\ DpAt(l, w) = Quotient(w, t)
    BY DEF TpAt, DpAt
  <1> HIDE DEF n, t
  <1> QED
    BY <1>1, <1>2, <1>3, FirstInColumn

\* So does that of a replicated gang, if the model is not sharded.
LEMMA FirstOfRdp ==
    ASSUME NEW l \in Layouts, Accepted(l), NEW r \in RanksOf(l), NEW w, w = GangsOf(l, r)["rdp"][1], Shards(l) = 1
    PROVE  w \in RanksOf(l) /\ TpAt(l, w) = TpAt(l, r) /\ DpAt(l, w) = 0
  <1> DEFINE n == l.size
  <1> DEFINE t == l.tp
  <1> DEFINE k == l.local
  <1> DEFINE g == GangsOf(l, r)
  <1> DEFINE par == l.parallelism
  <1>1. /\ n \in Nat \ {0} /\ t \in Nat \ {0} /\ k \in Nat \ {0} /\ par \in {"ddp", "fsdp", "hybrid"}
        /\ r \in 0..(n - 1) /\ Rest(n, t) = 0 /\ RanksOf(l) = 0..(n - 1)
        /\ par = "hybrid" => t = 1 /\ Rest(n, k) = 0
    BY LayoutIs
  <1>2. /\ par = "ddp" => g["rdp"] = g["dp"]
        /\ par = "fsdp" => g["rdp"] = <<r>>
        /\ par = "hybrid" => g["rdp"] = MeshColumn(n, k, Rest(r, k))
    BY GangsAre
  <1>3. /\ TpAt(l, w) = Rest(w, t) /\ TpAt(l, r) = Rest(r, t) /\ DpAt(l, w) = Quotient(w, t)
        /\ par = "fsdp" => Shards(l) = Quotient(n, t)
        /\ par = "hybrid" => Shards(l) = k
    BY DEF TpAt, DpAt, Shards
  <1>4. CASE par = "ddp"
    <2>1. w = GangsOf(l, r)["dp"][1]
      BY <1>2, <1>4
    <2> QED
      BY <2>1, FirstOfDp
  <1>5. CASE par = "fsdp"
    <2>1. w = r
      BY <1>2, <1>5
    <2> HIDE DEF n, t
    <2>2. Quotient(r, t) \in 0..(Quotient(n, t) - 1) /\ Quotient(n, t) = 1
      BY <1>1, <1>3, <1>5, InMesh
    <2>3. Quotient(r, t) = 0
      BY <2>2
    <2> QED
      BY <1>1, <1>3, <2>1, <2>3
  <1>6. CASE par = "hybrid"
    <2> HIDE DEF n, t, k
    <2>1. w = MeshColumn(n, k, Rest(r, k))[1]
      BY <1>2, <1>6
    <2>2. k = 1 /\ t = 1 /\ Rest(n, k) = 0
      BY <1>1, <1>3, <1>6
    <2>3. w \in 0..(n - 1) /\ Rest(w, k) = Rest(r, k) /\ Quotient(w, k) = 0
      BY <1>1, <2>1, <2>2, FirstInColumn
    <2> QED
      BY <1>1, <1>3, <2>2, <2>3
  <1> QED
    BY <1>1, <1>4, <1>5, <1>6

\* Of the ranks with one part of the model, one is first of its replicated gang; of those
\* that read one part of the data, one is first of its tensor parallel gang; and there is
\* a rank for every part of the model.
LEMMA Places ==
    ASSUME NEW l \in Layouts, Accepted(l)
    PROVE  /\ \A r \in RanksOf(l) : \E w \in RanksOf(l) :
                 TpAt(l, w) = TpAt(l, r) /\ SdpAt(l, w) = SdpAt(l, r) /\ RdpAt(l, w) = 0
           /\ \A r \in RanksOf(l) : \E w \in RanksOf(l) : DpAt(l, w) = DpAt(l, r) /\ TpAt(l, w) = 0
           /\ \A x \in 0..(l.tp - 1), j \in 0..(Shards(l) - 1) : \E r \in RanksOf(l) : TpAt(l, r) = x /\ SdpAt(l, r) = j
  <1> DEFINE n == l.size
  <1> DEFINE t == l.tp
  <1> DEFINE k == l.local
  <1> DEFINE par == l.parallelism
  <1>1. /\ n \in Nat \ {0} /\ t \in Nat \ {0} /\ k \in Nat \ {0} /\ par \in {"ddp", "fsdp", "hybrid"}
        /\ RanksOf(l) = 0..(n - 1) /\ Rest(n, t) = 0
        /\ par = "hybrid" => t = 1 /\ Rest(n, k) = 0
    BY LayoutIs
  <1>2. \A r : /\ TpAt(l, r) = Rest(r, t) /\ DpAt(l, r) = Quotient(r, t)
               /\ par = "ddp" => SdpAt(l, r) = 0 /\ RdpAt(l, r) = Quotient(r, t) /\ Shards(l) = 1
               /\ par = "fsdp" => SdpAt(l, r) = Quotient(r, t) /\ RdpAt(l, r) = 0 /\ Shards(l) = Quotient(n, t)
               /\ par = "hybrid" => SdpAt(l, r) = Rest(r, k) /\ RdpAt(l, r) = Quotient(r, k) /\ Shards(l) = k
    BY DEF TpAt, DpAt, SdpAt, RdpAt, Shards
  <1> HIDE DEF n, t, k, par
  <1>3. ASSUME NEW b \in Nat \ {0}, Rest(n, b) = 0, NEW c \in 0..(Quotient(n, b) - 1), NEW x \in 0..(b - 1)
        PROVE  \E w \in 0..(n - 1) : Quotient(w, b) = c /\ Rest(w, b) = x
    <2> DEFINE w == c * b + x
    <2>1. w \in 0..(n - 1)
      BY <1>1, <1>3, InMesh
    <2>2. c \in Nat
      BY <1>1, <1>3, InMesh
    <2> HIDE DEF w
    <2>3. Quotient(w, b) = c /\ Rest(w, b) = x
      BY <2>2, Composed DEF w
    <2> QED
      BY <2>1, <2>3
  <1>4. \A b \in Nat \ {0} : Rest(n, b) = 0 =>
           /\ Quotient(n, b) \in Nat \ {0} /\ 0 \in 0..(Quotient(n, b) - 1) /\ 0 \in 0..(b - 1)
           /\ \A r \in 0..(n - 1) : Quotient(r, b) \in 0..(Quotient(n, b) - 1) /\ Rest(r, b) \in 0..(b - 1)
    BY <1>1, InMesh
  <1>z. ASSUME NEW b \in Nat \ {0}, Rest(n, b) = 0, NEW x \in 0..(b - 1)
        PROVE  \E w \in 0..(n - 1) : Quotient(w, b) = 0 /\ Rest(w, b) = x
    <2>1. PICK c : c = 0
      OBVIOUS
    <2>2. c \in 0..(Quotient(n, b) - 1)
      BY <1>4, <1>z, <2>1
    <2>3. \E w \in 0..(n - 1) : Quotient(w, b) = c /\ Rest(w, b) = x
      BY <1>3, <1>z, <2>2
    <2> QED
      BY <2>1, <2>3
  <1>5. ASSUME NEW r \in 0..(n - 1)
        PROVE  \E w \in 0..(n - 1) : Quotient(w, t) = 0 /\ Rest(w, t) = Rest(r, t)
    <2>1. PICK x : x = Rest(r, t)
      OBVIOUS
    <2>2. x \in 0..(t - 1)
      BY <1>1, <1>4, <2>1
    <2>3. \E w \in 0..(n - 1) : Quotient(w, t) = 0 /\ Rest(w, t) = x
      BY <1>1, <1>z, <2>2
    <2> QED
      BY <2>1, <2>3
  <1>6. ASSUME NEW r \in 0..(n - 1)
        PROVE  \E w \in 0..(n - 1) : Quotient(w, t) = Quotient(r, t) /\ Rest(w, t) = 0
    <2>1. PICK c, x : c = Quotient(r, t) /\ x = 0
      OBVIOUS
    <2>2. c \in 0..(Quotient(n, t) - 1) /\ x \in 0..(t - 1)
      BY <1>1, <1>4, <2>1
    <2>3. \E w \in 0..(n - 1) : Quotient(w, t) = c /\ Rest(w, t) = x
      BY <1>1, <1>3, <2>2
    <2> QED
      BY <2>1, <2>3
  <1>7. ASSUME NEW r \in RanksOf(l)
        PROVE  \E w \in RanksOf(l) : TpAt(l, w) = TpAt(l, r) /\ SdpAt(l, w) = SdpAt(l, r) /\ RdpAt(l, w) = 0
    <2>0. r \in 0..(n - 1)
      BY <1>1
    <2>1. CASE par = "ddp"
      <3>1. PICK w \in 0..(n - 1) : Quotient(w, t) = 0 /\ Rest(w, t) = Rest(r, t)
        BY <1>5, <2>0
      <3>2. TpAt(l, w) = TpAt(l, r) /\ SdpAt(l, w) = SdpAt(l, r) /\ RdpAt(l, w) = 0
        BY <1>2, <2>1, <3>1
      <3> QED
        BY <1>1, <3>2
    <2>2. CASE par = "fsdp"
      BY <1>2, <2>2
    <2>3. CASE par = "hybrid"
      <3>1. PICK w \in 0..(n - 1) : Quotient(w, k) = 0 /\ Rest(w, k) = Rest(r, k)
        <4>1. PICK x : x = Rest(r, k)
          OBVIOUS
        <4>2. x \in 0..(k - 1)
          BY <1>1, <1>4, <2>3, <4>1
        <4>3. \E w \in 0..(n - 1) : Quotient(w, k) = 0 /\ Rest(w, k) = x
          BY <1>1, <1>z, <2>3, <4>2
        <4> QED
          BY <4>1, <4>3
      <3>2. Rest(w, t) \in 0..(t - 1) /\ Rest(r, t) \in 0..(t - 1) /\ t = 1
        BY <1>1, <1>4, <2>3
      <3>3. Rest(w, t) = Rest(r, t)
        BY <3>2
      <3> QED
        BY <1>1, <1>2, <2>3, <3>1, <3>3
    <2> QED
      BY <1>1, <2>1, <2>2, <2>3
  <1>8. ASSUME NEW x \in 0..(t - 1), NEW j \in 0..(Shards(l) - 1)
        PROVE  \E r \in RanksOf(l) : TpAt(l, r) = x /\ SdpAt(l, r) = j
    <2>1. CASE par = "ddp"
      <3>1. j = 0
        BY <1>2, <2>1
      <3>2. PICK r \in 0..(n - 1) : Quotient(r, t) = 0 /\ Rest(r, t) = x
        BY <1>1, <1>z
      <3>3. TpAt(l, r) = x /\ SdpAt(l, r) = j
        BY <1>2, <2>1, <3>1, <3>2
      <3> QED
        BY <1>1, <3>3
    <2>2. CASE par = "fsdp"
      <3>1. j \in 0..(Quotient(n, t) - 1)
        BY <1>2, <2>2
      <3> QED
        BY <1>1, <1>2, <1>3, <2>2, <3>1
    <2>3. CASE par = "hybrid"
      <3>1. j \in 0..(k - 1)
        BY <1>2, <2>3
      <3>2. PICK r \in 0..(n - 1) : Quotient(r, k) = 0 /\ Rest(r, k) = j
        BY <1>1, <1>3, <1>4, <2>3, <3>1
      <3>3. Rest(r, t) \in 0..(t - 1) /\ t = 1
        BY <1>1, <1>4, <2>3
      <3>4. Rest(r, t) = x
        BY <3>3
      <3> QED
        BY <1>1, <1>2, <2>3, <3>2, <3>4
    <2> QED
      BY <1>1, <2>1, <2>2, <2>3
  <1>9. ASSUME NEW r \in RanksOf(l) PROVE \E w \in RanksOf(l) : DpAt(l, w) = DpAt(l, r) /\ TpAt(l, w) = 0
    <2>0. r \in 0..(n - 1)
      BY <1>1
    <2>1. PICK w \in 0..(n - 1) : Quotient(w, t) = Quotient(r, t) /\ Rest(w, t) = 0
      BY <1>6, <2>0
    <2>2. DpAt(l, w) = DpAt(l, r) /\ TpAt(l, w) = 0
      BY <1>2, <2>1
    <2> QED
      BY <1>1, <2>2
  <1> QED
    BY <1>7, <1>8, <1>9 DEF t

-----------------------------------------------------------------------------
(***************************************************************************)
(* What is loaded.                                                         *)
(***************************************************************************)
\* The only split of a tensor is the tensor.
LEMMA SplitAll ==
    ASSUME NEW R \in Nat \ {0}, NEW C \in Nat \ {0}, NEW t, Regular(t, Nat, R, C), NEW dim \in {0, 1, Replicated}
    PROVE  SplitOf(t, dim, 1, 0) = t
  <1>0. /\ t \in Seq(Seq(Nat)) /\ Len(t) = R /\ DOMAIN t = 1..R
        /\ \A i \in 1..R : t[i] \in Seq(Nat) /\ Len(t[i]) = C
    BY DEF Regular
  <1>1. ASSUME NEW S, NEW s \in Seq(S) PROVE SubSeq(s, 1, Len(s)) = s
    <2>1. SubSeq(s, 1, Len(s)) \in Seq(S) /\ Len(SubSeq(s, 1, Len(s))) = Len(s) /\ Len(s) \in Nat
      OBVIOUS
    <2>2. \A i \in 1..Len(s) : SubSeq(s, 1, Len(s))[i] = s[i]
      OBVIOUS
    <2> QED
      BY <2>1, <2>2, SameSeq
  <1>2. \A a \in Nat \ {0} : a \div 1 = a /\ 0 * a + 1 = 1 /\ 0 * a + a = a
    OBVIOUS
  <1>3. CASE dim = Replicated
    BY <1>3 DEF SplitOf
  <1>4. CASE dim = 0
    <2>1. SplitOf(t, dim, 1, 0) = SubSeq(t, 0 * (R \div 1) + 1, 0 * (R \div 1) + (R \div 1))
      BY <1>0, <1>4 DEF SplitOf, Extent, Narrow, Replicated
    <2>2. SplitOf(t, dim, 1, 0) = SubSeq(t, 1, R)
      BY <1>2, <2>1
    <2> QED
      BY <1>0, <1>1, <2>2
  <1>5. CASE dim = 1
    <2>1. Extent(t, 1) = C
      BY <1>0 DEF Extent
    <2>2. SplitOf(t, dim, 1, 0) = [i \in 1..R |-> SubSeq(t[i], 0 * (C \div 1) + 1, 0 * (C \div 1) + (C \div 1))]
      BY <1>0, <1>5, <2>1 DEF SplitOf, Narrow, Replicated
    <2>3. SplitOf(t, dim, 1, 0) = [i \in 1..R |-> SubSeq(t[i], 1, C)]
      BY <1>2, <2>2
    <2>4. \A i \in 1..R : SubSeq(t[i], 1, C) = t[i]
      BY <1>0, <1>1
    <2>5. t = [i \in 1..R |-> t[i]]
      BY <1>0
    <2>6. SplitOf(t, dim, 1, 0) = [i \in 1..R |-> t[i]]
      BY <2>3, <2>4
    <2> QED
      BY <2>5, <2>6
  <1> QED
    BY <1>3, <1>4, <1>5

LEMMA AllIsMine ==
    ASSUME NEW p \in AllNames, NEW v \in Nat
    PROVE  Mine(p, v, 1, 0) = Whole(p, v) /\ PartOf(p, v, 1, 0, 1, 0) = Whole(p, v)
  <1> DEFINE R == Shape(p).rows
  <1> DEFINE C == Shape(p).cols
  <1> DEFINE dim == Shape(p).dim
  <1>1. R \in Nat \ {0} /\ C \in Nat \ {0} /\ dim \in {0, 1, Replicated}
    BY ShapeIs
  <1>2. Regular(Whole(p, v), Nat, R, C)
    BY <1>1, WholeIs, TensorIs
  <1>3. Mine(p, v, 1, 0) = SplitOf(Whole(p, v), dim, 1, 0)
    BY DEF Mine
  <1> HIDE DEF R, C, dim
  <1>4. Mine(p, v, 1, 0) = Whole(p, v)
    BY <1>1, <1>2, <1>3, SplitAll
  <1> QED
    BY <1>4 DEF PartOf

\* The model that the first training may begin from.
LEMMA ReleasedIs ==
    ASSUME NEW b, Names = NamesOf(b)
    PROVE  Released.version = 0 /\ ModelFiles(Released.files, b, 1, 1, 0)
  <1> DEFINE m == [p \in Names |-> Whole(p, 0)]
  <1>1. Released.version = 0 /\ Released.files = [path \in {<<"model", 0, 0>>} |-> m]
    BY DEF Released
  <1>2. DOMAIN Released.files = {<<"model", 0, 0>>} /\ Released.files[<<"model", 0, 0>>] = m
    BY <1>1
  <1>3. 0..(1 - 1) = {0}
    OBVIOUS
  <1>4. ModelPaths(1, 1) = {<<"model", 0, 0>>}
    BY <1>3 DEF ModelPaths
  <1>5. m = [p \in NamesOf(b) |-> PartOf(p, 0, 1, 0, 1, 0)]
    <2>1. \A p \in NamesOf(b) : PartOf(p, 0, 1, 0, 1, 0) = Whole(p, 0)
      BY NamesAre, AllIsMine
    <2> QED
      BY <2>1
  <1> HIDE DEF m
  <1> QED
    BY <1>1, <1>2, <1>3, <1>4, <1>5 DEF ModelFiles

AtLeast(x, n) == x \in Seq(Seq(Nat)) /\ Len(x) >= n

LEMMA LenOfBoth ==
    ASSUME NEW S, NEW x \in Seq(S), NEW w \in Seq(S)
    PROVE  x \o w \in Seq(S) /\ Len(x \o w) = Len(x) + Len(w) /\ Len(x) \in Nat
  OBVIOUS

LEMMA Grows ==
    ASSUME NEW S, NEW x \in Seq(S), NEW w \in Seq(S), Len(w) = 2, Len(x) >= 2
    PROVE  x \o w \in Seq(S) /\ Len(x \o w) >= 3
  <1>1. x \o w \in Seq(S) /\ Len(x \o w) = Len(x) + Len(w) /\ Len(x) \in Nat
    BY LenOfBoth
  <1> QED
    BY <1>1

LEMMA Appended ==
    ASSUME NEW w, w \in Seq(Seq(Nat)), Len(w) = 2
    PROVE  AtLeast(w, 2) /\ \A x : AtLeast(x, 2) => AtLeast(x \o w, 3)
  <1>1. AtLeast(w, 2)
    BY DEF AtLeast
  <1>2. ASSUME NEW x, AtLeast(x, 2) PROVE AtLeast(x \o w, 3)
    <2>1. x \in Seq(Seq(Nat)) /\ Len(x) >= 2
      BY <1>2 DEF AtLeast
    <2>2. x \o w \in Seq(Seq(Nat)) /\ Len(x \o w) >= 3
      BY <2>1, Grows
    <2> QED
      BY <2>2 DEF AtLeast
  <1> QED
    BY <1>1, <1>2

\* A buffer that several ranks saved is loaded longer than it is.
LEMMA LoadBuffer ==
    ASSUME NEW b, "buffer" \in NamesOf(b), NEW v \in Nat, NEW m \in Nat \ {0}, NEW d \in Nat \ {0}, d > 1,
           NEW files, ModelFiles(files, b, m, d, v),
           NEW n \in Nat \ {0}, NEW k \in 0..(n - 1),
           NEW g, NEW r, Len(g.tp) = n, RankIn(g.tp, r) = k
    PROVE  Len(Load(files, "buffer", g, r)) \in Nat /\ Len(Load(files, "buffer", g, r)) > 2
  <1> DEFINE tps == {path[2] : path \in DOMAIN files}
  <1> DEFINE sdps == {path[3] : path \in DOMAIN files}
  <1> DEFINE row(t) == [e \in 1..Cardinality(sdps) |-> files[<<"model", t, e - 1>>]["buffer"]]
  <1> DEFINE w == Whole("buffer", v)
  <1>1. Cardinality(tps) = m /\ Cardinality(sdps) = d
    BY FilesAre DEF ModelFiles
  <1>2. Shape("buffer").dim = Replicated /\ Shape("buffer").rows = 2 /\ Shape("buffer").cols = 1
    BY DEF Shape, Buffer
  <1>3. Load(files, "buffer", g, r) = IF m = n THEN Reshard(<<row(k)>>, Replicated, 1, 0)
                                      ELSE Reshard([t \in 1..m |-> row(t - 1)], Replicated, n, k)
    BY <1>1, <1>2 DEF Load
  <1>4. w \in Seq(Seq(Nat)) /\ Len(w) = 2
    <2>1. "buffer" \in AllNames
      BY DEF AllNames
    <2>2. Whole("buffer", v) \in Tensor(Nat, 2, 1)
      BY <1>2, <2>1, WholeIs
    <2> HIDE DEF w
    <2>3. Regular(Whole("buffer", v), Nat, 2, 1)
      BY <2>2, TensorIs
    <2> QED
      BY <2>3 DEF Regular, w
  <1>5. ASSUME NEW t \in 0..(m - 1)
        PROVE  row(t) = [e \in 1..d |-> w]
    <2>1. \A e \in 1..d : files[<<"model", t, e - 1>>]["buffer"] = w
      <3> TAKE e \in 1..d
      <3> DEFINE j == e - 1
      <3>1. j \in 0..(d - 1)
        OBVIOUS
      <3> HIDE DEF j
      <3>2. files[<<"model", t, j>>] = [q \in NamesOf(b) |-> PartOf(q, v, m, t, d, j)]
        BY <3>1 DEF ModelFiles
      <3>3. PartOf("buffer", v, m, t, d, j) = w
        BY <1>2 DEF PartOf, Mine, SplitOf
      <3> HIDE DEF w
      <3> QED
        BY <3>2, <3>3 DEF j
    <2> HIDE DEF sdps
    <2> QED
      BY <1>1, <2>1
  <1> HIDE DEF row, tps, sdps
  <1> DEFINE s == [e \in 1..d |-> w]
  <1>6. Load(files, "buffer", g, r) = Cat(s, 0)
    <2> HIDE DEF s
    <2>1. CASE m = n
      <3> DEFINE x == row(k)
      <3>1. x = s
        BY <1>5, <2>1 DEF s
      <3> DEFINE y == <<x>>
      <3>2. Len(y) = 1 /\ DOMAIN y = 1..1 /\ y[1] = x
        OBVIOUS
      <3> HIDE DEF x, y
      <3>3. Reshard(y, Replicated, 1, 0) = [i \in DOMAIN y |-> Cat(y[i], 0)][0 + 1]
        BY <3>2 DEF Reshard
      <3>4. [i \in DOMAIN y |-> Cat(y[i], 0)][0 + 1] = Cat(y[1], 0)
        BY <3>2
      <3> QED
        BY <1>3, <2>1, <3>1, <3>2, <3>3, <3>4 DEF y, x
    <2>2. CASE m # n
      <3> DEFINE y == [t \in 1..m |-> row(t - 1)]
      <3>1. DOMAIN y = 1..m /\ y = [i \in 1..m |-> y[i]] /\ y[1] = row(1 - 1)
        OBVIOUS
      <3>2. y[1] = s
        BY <1>5, <3>1 DEF s
      <3> HIDE DEF y
      <3>3. Len(y) = m
        BY <3>1, LenOf
      <3>4. Reshard(y, Replicated, n, k) = [i \in DOMAIN y |-> Cat(y[i], 0)][1]
        BY <2>2, <3>3 DEF Reshard
      <3>5. [i \in DOMAIN y |-> Cat(y[i], 0)][1] = Cat(y[1], 0)
        BY <3>1
      <3> QED
        BY <1>3, <2>2, <3>2, <3>4, <3>5 DEF y
    <2> QED
      BY <2>1, <2>2
  <1>7. DOMAIN s = 1..d /\ Len(s) = d /\ \A i \in 1..d : s[i] = w
    <2>1. DOMAIN s = 1..d /\ s = [i \in 1..d |-> s[i]] /\ \A i \in 1..d : s[i] = w
      OBVIOUS
    <2> HIDE DEF s, w
    <2> QED
      BY <2>1, LenOf
  <1> HIDE DEF s, w
  <1>8. PICK f : DOMAIN f = 1..d /\ Joins(s, f) /\ FlattenSeq(s) = f[d]
    BY <1>7, FlattenIs
  <1> DEFINE Long(i) == AtLeast(f[i], 2)
  <1> DEFINE Bad == {i \in 1..d : ~Long(i)}
  <1>9. \A i \in 1..d : f[i] = IF i = 1 THEN w ELSE f[i - 1] \o w
    BY <1>7, <1>8 DEF Joins
  <1>a. f[1] = w /\ \A i \in 1..d : i # 1 => f[i] = f[i - 1] \o w
    <2>1. 1 \in 1..d
      OBVIOUS
    <2> QED
      BY ONLY <1>9, <2>1
  <1>b. Long(1)
    <2>1. AtLeast(w, 2)
      BY <1>4, Appended
    <2> QED
      BY <1>a, <2>1
  <1>c. \A x : AtLeast(x, 2) => AtLeast(x \o w, 3)
    BY <1>4, Appended
  <1>d. ASSUME NEW x, AtLeast(x, 3) PROVE AtLeast(x, 2)
    BY <1>d DEF AtLeast
  <1>10. Bad = {}
    <2> SUFFICES ASSUME Bad # {} PROVE FALSE
      OBVIOUS
    <2>1. Bad \in SUBSET Nat
      OBVIOUS
    <2>2. PICK i \in Bad : \A j \in Bad : i <= j
      <3> HIDE DEF Bad
      <3> QED
        BY <2>1, LeastNatural
    <2>3. i \in 1..d /\ ~Long(i)
      OBVIOUS
    <2>4. i # 1
      BY <1>b, <2>3
    <2>5. i - 1 \in 1..d /\ i - 1 \notin Bad
      BY <2>2, <2>3, <2>4
    <2>6. Long(i - 1)
      BY <2>5
    <2>7. f[i] = f[i - 1] \o w
      BY <1>a, <2>3, <2>4
    <2>8. AtLeast(f[i], 3)
      BY <1>c, <2>6, <2>7
    <2> QED
      BY <1>d, <2>3, <2>8
  <1>11. Long(d - 1) /\ f[d] = f[d - 1] \o w
    <2>1. d - 1 \in 1..d /\ d \in 1..d /\ d # 1
      OBVIOUS
    <2>2. d - 1 \notin Bad
      BY <1>10
    <2>3. Long(d - 1)
      BY <2>1, <2>2
    <2> QED
      BY <1>a, <2>1, <2>3
  <1>12. AtLeast(f[d], 3)
    BY <1>c, <1>11
  <1>13. Load(files, "buffer", g, r) = f[d]
    BY <1>6, <1>8 DEF Cat
  <1>14. \A x : AtLeast(x, 3) => Len(x) \in Nat /\ Len(x) > 2
    BY DEF AtLeast
  <1> QED
    BY <1>12, <1>13, <1>14

-----------------------------------------------------------------------------
(***************************************************************************)
(* What an action may rely on.                                             *)
(***************************************************************************)
LEMMA PlanIs ==
    ASSUME plan \in Plans
    PROVE  /\ Layout \in Layouts /\ Accepted(Layout) /\ DivisibleBy(Layout.tp)
           /\ Layout.tp \in Nat \ {0} /\ Ranks = RanksOf(Layout) /\ 0 \in Ranks
           /\ Shards(Layout) \in Nat \ {0}
           /\ plan.modelOnly \in BOOLEAN /\ plan.buffered \in BOOLEAN
           /\ Names = NamesOf(plan.buffered)
  <1>1. /\ Layout \in Layouts /\ Accepted(Layout) /\ DivisibleBy(Layout.tp)
        /\ plan.modelOnly \in BOOLEAN /\ plan.buffered \in BOOLEAN
    BY PlanAssumption DEF Layout, Layouts, DivisibleBy
  <1>2. /\ Layout.size \in Nat \ {0} /\ Layout.tp \in Nat \ {0} /\ RanksOf(Layout) = 0..(Layout.size - 1)
        /\ Shards(Layout) \in Nat \ {0}
    BY <1>1, LayoutIs
  <1> QED
    BY <1>1, <1>2, NamesAre DEF Ranks

LEMMA GangPlaces ==
    ASSUME plan \in Plans, NEW r \in Ranks, NEW g, g = Gang(r)
    PROVE  /\ Len(g.tp) = Layout.tp /\ RankIn(g.tp, r) = TpAt(Layout, r)
           /\ Len(g.sdp) = Shards(Layout) /\ RankIn(g.sdp, r) = SdpAt(Layout, r)
           /\ RankIn(g.dp, r) = DpAt(Layout, r) /\ RankIn(g.rdp, r) = RdpAt(Layout, r)
           /\ TpAt(Layout, r) \in 0..(Layout.tp - 1) /\ SdpAt(Layout, r) \in 0..(Shards(Layout) - 1)
           /\ DpAt(Layout, r) \in Nat /\ RdpAt(Layout, r) \in Nat
           /\ Sharded(g) <=> Shards(Layout) > 1
  <1>1. Layout \in Layouts /\ Accepted(Layout) /\ r \in RanksOf(Layout) /\ g = GangsOf(Layout, r)
    BY PlanIs DEF Gang
  <1>2. /\ Len(g["tp"]) = Layout.tp /\ RankIn(g["tp"], r) = TpAt(Layout, r)
        /\ Len(g["sdp"]) = Shards(Layout) /\ RankIn(g["sdp"], r) = SdpAt(Layout, r)
        /\ RankIn(g["dp"], r) = DpAt(Layout, r) /\ RankIn(g["rdp"], r) = RdpAt(Layout, r)
        /\ TpAt(Layout, r) \in 0..(Layout.tp - 1) /\ SdpAt(Layout, r) \in 0..(Shards(Layout) - 1)
        /\ DpAt(Layout, r) \in Nat /\ RdpAt(Layout, r) \in Nat
    BY <1>1, PlacesAre
  <1> QED
    BY ONLY <1>2 DEF Sharded

LEMMA VersionIs ==
    ASSUME SourceOK
    PROVE  source.version \in Nat
  BY DEF SourceOK, None

\* What does not change with the processes' states.
LEMMA Same ==
    ASSUME UNCHANGED <<plan, ckpt, source>>
    PROVE  /\ Layout' = Layout /\ Ranks' = Ranks /\ Names' = Names /\ \A r : Gang(r)' = Gang(r)
           /\ AnyCheckpoint' = AnyCheckpoint /\ FullCheckpoint' = FullCheckpoint
           /\ LastFull' = LastFull /\ Resumed' = Resumed /\ BufferRepeated' = BufferRepeated
           /\ CheckpointsOK' = CheckpointsOK /\ SourceOK' = SourceOK
           /\ \A r, s : At(r, s)' = At(r, s)
  <1>1. Layout' = Layout /\ Ranks' = Ranks /\ Names' = Names /\ \A r : Gang(r)' = Gang(r)
    BY DEF Layout, Ranks, Names, Gang
  <1>2. AnyCheckpoint' = AnyCheckpoint /\ FullCheckpoint' = FullCheckpoint
    BY <1>1 DEF AnyCheckpoint, FullCheckpoint
  <1>3. LastFull' = LastFull /\ Resumed' = Resumed /\ BufferRepeated' = BufferRepeated
    BY <1>2 DEF LastFull, Resumed, BufferRepeated
  <1>4. CheckpointsOK' = CheckpointsOK /\ SourceOK' = SourceOK
    BY <1>1 DEF CheckpointsOK, SourceOK
  <1>5. \A r, s : At(r, s)' = At(r, s)
    BY <1>1 DEF At
  <1> QED
    BY <1>1, <1>2, <1>3, <1>4, <1>5

LEMMA RankSame ==
    ASSUME UNCHANGED <<plan, ckpt, source, step, version>>, NEW r, pc'[r] = pc[r], st'[r] = st[r], RankOK(r)
    PROVE  RankOK(r)'
  <1>1. /\ Layout' = Layout /\ Names' = Names /\ FullCheckpoint' = FullCheckpoint
        /\ Resumed' = Resumed /\ BufferRepeated' = BufferRepeated /\ \A s : At(r, s)' = At(r, s)
    BY Same
  <1> QED
    BY <1>1 DEF RankOK, Running

\* The largest of numbers that have a bound.
LEMMA MaxIs ==
    ASSUME NEW n \in Nat, NEW S \in SUBSET (1..n), S # {}
    PROVE  Max(S) \in S /\ \A x \in S : x <= Max(S)
  <1> DEFINE T == {i \in Nat : \A x \in S : x <= i}
  <1>1. n \in T
    OBVIOUS
  <1>2. PICK m \in T : \A i \in T : m <= i
    <2>1. T \in SUBSET Nat /\ T # {}
      BY <1>1
    <2> HIDE DEF T
    <2> QED
      BY <2>1, LeastNatural
  <1>3. m \in S
    <2> SUFFICES ASSUME m \notin S PROVE FALSE
      OBVIOUS
    <2>1. \A x \in S : x <= m - 1 /\ x >= 1
      OBVIOUS
    <2>2. m - 1 \in Nat
      <3>1. PICK x \in S : TRUE
        OBVIOUS
      <3>2. x <= m - 1 /\ x >= 1 /\ x \in Nat /\ m \in Nat
        BY <2>1
      <3> QED
        BY <3>2
    <2>3. m - 1 \in T
      BY <2>1, <2>2
    <2> QED
      BY <1>2, <2>3
  <1>4. \E x \in S : \A y \in S : x >= y
    BY <1>3
  <1>5. Max(S) \in S /\ \A y \in S : Max(S) >= y
    BY <1>4 DEF Max
  <1> QED
    BY <1>5

\* The checkpoint to resume from is complete.
LEMMA CheckpointsAre ==
    ASSUME plan \in Plans, CheckpointsOK
    PROVE  /\ AnyCheckpoint \subseteq 1..MaxSteps
           /\ FullCheckpoint = IF plan.modelOnly THEN {} ELSE AnyCheckpoint
           /\ \A s \in AnyCheckpoint :
                 /\ ckpt[s] = [files |-> ckpt[s].files, version |-> source.version + s]
                 /\ ckpt[s].version = source.version + s
                 /\ Complete(ckpt[s].files, Layout, plan.buffered, KindsOf(plan.modelOnly), s, source.version + s)
           /\ FullCheckpoint # {} => LastFull \in FullCheckpoint
           /\ Resumed \in 0..MaxSteps
  <1>0. MaxSteps \in Nat \ {0}
    BY SizeAssumption
  <1>1. AnyCheckpoint \subseteq 1..MaxSteps
    BY DEF AnyCheckpoint
  <1>2. \A s \in AnyCheckpoint :
           /\ ckpt[s] = [files |-> ckpt[s].files, version |-> source.version + s]
           /\ Complete(ckpt[s].files, Layout, plan.buffered, KindsOf(plan.modelOnly), s, source.version + s)
    BY DEF CheckpointsOK, AnyCheckpoint
  <1>3. plan.modelOnly \in BOOLEAN /\ Ranks = RanksOf(Layout) /\ 0 \in Ranks
    BY PlanIs
  <1>4. FullCheckpoint = IF plan.modelOnly THEN {} ELSE AnyCheckpoint
    <2>1. ASSUME NEW s \in AnyCheckpoint, NEW r \in Ranks
          PROVE  <<"trainer", r, 0>> \in DOMAIN ckpt[s].files <=> ~plan.modelOnly
      <3> DEFINE path == <<"trainer", r, 0>>
      <3>1. DOMAIN ckpt[s].files = PathsOf(Layout, KindsOf(plan.modelOnly))
        BY <1>2 DEF Complete, Right
      <3>2. PathFor(Layout, r, "trainer") = path
        BY DEF PathFor, PathOf
      <3>3. CASE plan.modelOnly
        <4>1. \A q : PathFor(Layout, q, "model")[1] = "model"
          BY DEF PathFor, PathOf
        <4>2. \A x \in DOMAIN ckpt[s].files : x[1] = "model"
          BY <3>1, <3>3, <4>1 DEF PathsOf, KindsOf
        <4>3. path[1] = "trainer"
          OBVIOUS
        <4> QED
          BY <3>3, <4>2, <4>3
      <3>4. CASE ~plan.modelOnly
        BY <1>3, <3>1, <3>2, <3>4 DEF PathsOf, KindsOf, Kinds
      <3> QED
        BY <3>3, <3>4
    <2>2. FullCheckpoint = {s \in AnyCheckpoint : ~plan.modelOnly}
      BY <1>3, <2>1 DEF FullCheckpoint
    <2> QED
      BY <1>3, <2>2
  <1>5. FullCheckpoint # {} => LastFull \in FullCheckpoint
    <2>1. FullCheckpoint \subseteq 1..MaxSteps
      BY <1>1, <1>4
    <2> QED
      BY <1>0, <2>1, MaxIs DEF LastFull
  <1>6. Resumed \in 0..MaxSteps
    <2>1. FullCheckpoint # {} => LastFull \in 1..MaxSteps
      BY <1>1, <1>4, <1>5
    <2> DEFINE x == LastFull
    <2>2. Resumed = IF FullCheckpoint = {} THEN 0 ELSE x
      BY DEF Resumed
    <2> HIDE DEF x
    <2>3. FullCheckpoint # {} => x \in 1..MaxSteps
      BY <2>1 DEF x
    <2> QED
      BY <1>0, <2>2, <2>3
  <1> QED
    BY <1>1, <1>2, <1>4, <1>5, <1>6

-----------------------------------------------------------------------------
(***************************************************************************)
(* The first state.                                                        *)
(***************************************************************************)
LEMMA InitShards ==
    ASSUME Init
    PROVE  ShardsInv
  <1>0. MaxSteps \in Nat \ {0} /\ {Vocab, Dim, Inner} \subseteq Nat
    BY SizeAssumption
  <1>1. /\ plan \in Plans /\ step = 0 /\ tmp = NoCheckpoints /\ ckpt = NoCheckpoints
        /\ pc = [r \in Ranks |-> "start"] /\ st = [r \in Ranks |-> <<>>]
        /\ source \in {None, Released}
    BY DEF Init, Ranks, Layout
  <1>2. step \in 0..MaxSteps /\ DOMAIN pc = Ranks /\ DOMAIN st = Ranks /\ DOMAIN tmp = 1..MaxSteps
    BY <1>0, <1>1 DEF NoCheckpoints
  <1>3. \A r \in Ranks : pc[r] = "start"
    BY <1>1
  <1>4. CheckpointsOK
    BY <1>1 DEF CheckpointsOK, NoCheckpoints
  <1>5. SourceOK
    <2>1. CASE source = None
      BY <2>1 DEF SourceOK
    <2>2. CASE source = Released
      <3>1. source.version = 0 /\ ModelFiles(source.files, plan.buffered, 1, 1, 0)
        BY <1>1, <2>2, PlanIs, ReleasedIs
      <3>2. DivisibleBy(1)
        BY <1>0 DEF DivisibleBy
      <3>3. 1 \in Nat \ {0} /\ 0 \in Nat
        OBVIOUS
      <3>4. ModelFiles(source.files, plan.buffered, 1, 1, source.version)
        BY <3>1
      <3> QED
        BY <3>1, <3>2, <3>3, <3>4 DEF SourceOK
    <2> QED
      BY <1>1, <2>1, <2>2
  <1>6. PhaseOK
    BY <1>3 DEF PhaseOK
  <1>7. \A r \in Ranks : RankOK(r)
    BY <1>3 DEF RankOK, Running
  <1>8. SavingOK
    BY <1>3 DEF SavingOK
  <1> QED
    BY <1>1, <1>2, <1>4, <1>5, <1>6, <1>7, <1>8 DEF ShardsInv

-----------------------------------------------------------------------------
(***************************************************************************)
(* Building and wrapping the model.                                        *)
(***************************************************************************)
LEMMA JunkIs ==
    ASSUME plan \in Plans, NEW r \in Ranks, NEW p \in Names
    PROVE  /\ \A v : TpShard(p, Whole(p, v), Gang(r), r) = Mine(p, v, Layout.tp, TpAt(Layout, r))
           /\ Blank(Gang(r), r).model[p] = JunkOf(Mine(p, 0, Layout.tp, TpAt(Layout, r)))
  <1>1. Len(Gang(r).tp) = Layout.tp /\ RankIn(Gang(r).tp, r) = TpAt(Layout, r)
    BY GangPlaces
  <1>2. \A v : TpShard(p, Whole(p, v), Gang(r), r) = Mine(p, v, Layout.tp, TpAt(Layout, r))
    BY <1>1 DEF TpShard, Mine
  <1>3. Blank(Gang(r), r).model = [q \in Names |-> JunkOf(TpShard(q, Whole(q, 0), Gang(r), r))]
    BY DEF Blank
  <1> QED
    BY <1>2, <1>3

LEMMA BufferJunk ==
    ASSUME NEW n, NEW k
    PROVE  Len(JunkOf(Mine("buffer", 0, n, k))) = 2
  <1> DEFINE w == Whole("buffer", 0)
  <1>1. Mine("buffer", 0, n, k) = w
    BY DEF Mine, SplitOf, Shape, Buffer
  <1>2. DOMAIN w = 1..2
    BY DEF Whole, Shape, Buffer
  <1> HIDE DEF w
  <1> DEFINE u == JunkOf(w)
  <1>3. DOMAIN u = 1..2 /\ u = [i \in 1..2 |-> u[i]]
    BY <1>2 DEF JunkOf
  <1> HIDE DEF u
  <1>4. Len(u) = 2
    BY <1>3, LenOf
  <1> QED
    BY <1>1, <1>4 DEF u

LEMMA NewTensor ==
    ASSUME ShardsInv, NEW r \in Ranks, NEW p \in Names,
           NEW m, m = NewModel(Gang(r), r)[p], NEW u, u = Blank(Gang(r), r).model[p]
    PROVE  /\ Fits(m, u) \/ BufferRepeated
           /\ Fits(m, u) /\ FullCheckpoint = {} /\ DpAt(Layout, r) = 0 =>
                 m = Mine(p, source.version, Layout.tp, TpAt(Layout, r))
  <1> DEFINE g == Gang(r)
  <1> DEFINE n == Layout.tp
  <1> DEFINE k == TpAt(Layout, r)
  <1>0. plan \in Plans /\ SourceOK
    BY DEF ShardsInv
  <1>1. n \in Nat \ {0} /\ DivisibleBy(n) /\ Names = NamesOf(plan.buffered) /\ p \in AllNames
    BY <1>0, PlanIs, NamesAre
  <1>2. Len(g.tp) = n /\ RankIn(g.tp, r) = k /\ k \in 0..(n - 1) /\ RankIn(g.dp, r) = DpAt(Layout, r)
    BY <1>0, GangPlaces
  <1>3. u = JunkOf(Mine(p, 0, n, k)) /\ TpShard(p, Whole(p, 0), g, r) = Mine(p, 0, n, k)
    BY <1>0, JunkIs
  <1>4. m = IF DpAt(Layout, r) # 0 \/ FullCheckpoint # {} THEN u
            ELSE IF source = None THEN Mine(p, 0, n, k)
            ELSE Load(source.files, p, g, r)
    BY <1>2, <1>3 DEF NewModel
  <1> HIDE DEF n, k, g
  <1>5. \A v \in Nat : Fits(Mine(p, v, n, k), u)
    BY <1>1, <1>2, <1>3, PartFits
  <1>6. CASE DpAt(Layout, r) # 0 \/ FullCheckpoint # {}
    BY <1>4, <1>6, SelfFits
  <1>7. CASE ~(DpAt(Layout, r) # 0 \/ FullCheckpoint # {}) /\ source = None
    <2>1. source.version = 0
      BY <1>7 DEF None
    <2> QED
      BY <1>4, <1>5, <1>7, <2>1 DEF n, k
  <1>8. CASE ~(DpAt(Layout, r) # 0 \/ FullCheckpoint # {}) /\ source # None
    <2>1. m = Load(source.files, p, g, r)
      BY <1>4, <1>8
    <2> DEFINE v == source.version
    <2>2. PICK s, d \in Nat \ {0} : DivisibleBy(s) /\ ModelFiles(source.files, plan.buffered, s, d, v)
      BY <1>0, <1>8 DEF SourceOK
    <2>3. v \in Nat
      BY <1>0, VersionIs
    <2> HIDE DEF v
    <2>4. CASE p # "buffer" \/ d = 1
      <3> DEFINE b == plan.buffered
      <3> DEFINE files == source.files
      <3>1. p \in NamesOf(b) /\ ModelFiles(files, b, s, d, v)
        BY <1>1, <2>2
      <3> HIDE DEF b, files
      <3>2. Load(files, p, g, r) = Mine(p, v, n, k)
        BY <1>1, <1>2, <2>2, <2>3, <2>4, <3>1, AnyLayoutLoads
      <3> QED
        BY <1>5, <2>1, <2>3, <3>2 DEF n, k, v, files
    <2>5. CASE p = "buffer" /\ d # 1
      <3>1. BufferRepeated
        <4>1. plan.buffered
          BY <1>1, <2>5 DEF NamesOf, Parameters
        <4> DEFINE path == <<"model", 0, d - 1>>
        <4>2. 0 \in 0..(s - 1) /\ d - 1 \in 0..(d - 1) /\ d - 1 > 0
          BY <2>5
        <4>3. path \in DOMAIN source.files /\ path[3] > 0
          BY <2>2, <4>2 DEF ModelFiles, ModelPaths
        <4> QED
          BY <1>8, <4>1, <4>3 DEF BufferRepeated
      <3>2. Len(m) \in Nat /\ Len(m) > 2
        <4> DEFINE b == plan.buffered
        <4> DEFINE files == source.files
        <4>1. "buffer" \in NamesOf(b) /\ ModelFiles(files, b, s, d, v) /\ d > 1
          BY <1>1, <2>2, <2>5
        <4> HIDE DEF b, files
        <4>2. Len(Load(files, "buffer", g, r)) \in Nat /\ Len(Load(files, "buffer", g, r)) > 2
          BY <1>1, <1>2, <2>2, <2>3, <4>1, LoadBuffer
        <4> QED
          BY <2>1, <2>5, <4>2 DEF files
      <3>3. Len(u) = 2
        BY <1>3, <2>5, BufferJunk
      <3>4. ~Fits(m, u)
        <4>1. PICK x, y : x = Len(m) /\ y = Len(u)
          OBVIOUS
        <4>2. x \in Nat /\ x > 2 /\ y = 2
          BY <3>2, <3>3, <4>1
        <4>3. x # y
          BY ONLY <4>2
        <4> QED
          BY <4>1, <4>3 DEF Fits
      <3> QED
        BY <3>1, <3>4
    <2> QED
      BY <2>4, <2>5
  <1> QED
    BY <1>6, <1>7, <1>8

\* What a rank's state is made of.
OfKinds(x) == x = [k \in Kinds |-> x[k]]

LEMMA StateIs ==
    ASSUME NEW l, NEW b, NEW s, NEW v, NEW r, NEW x, x = StateOf(l, b, s, v, r)
    PROVE  /\ OfKinds(x) /\ x["model"] = ModelOf(l, b, v, r)
           /\ x["trainer"] = s /\ x["reader"] = [dp |-> DpAt(l, r), read |-> s]
           /\ x["optimizer"] = [tp |-> TpAt(l, r), sdp |-> SdpAt(l, r), steps |-> s]
  BY DEF StateOf, Kinds, OfKinds

LEMMA BootstrapStep ==
    ASSUME ShardsInv, NEW r \in Ranks, Bootstrap(r)
    PROVE  ShardsInv'
  <1> DEFINE g == Gang(r)
  <1> DEFINE m == NewModel(g, r)
  <1> DEFINE u == Blank(g, r)
  <1> DEFINE fits == \A p \in Names : Fits(m[p], u.model[p])
  <1>0. /\ plan \in Plans /\ step \in 0..MaxSteps /\ DOMAIN pc = Ranks /\ DOMAIN st = Ranks
        /\ DOMAIN tmp = 1..MaxSteps /\ SourceOK /\ CheckpointsOK /\ PhaseOK
        /\ \A q \in Ranks : RankOK(q)
    BY DEF ShardsInv
  <1>1. /\ pc[r] = "start" /\ UNCHANGED <<plan, step, version, tmp, ckpt, source>>
        /\ fits => pc' = [pc EXCEPT ![r] = "built"] /\ st' = [st EXCEPT ![r] = [u EXCEPT !.model = m]]
        /\ ~fits => pc' = [pc EXCEPT ![r] = "failed"] /\ st' = st
    BY DEF Bootstrap
  <1>2. /\ Layout' = Layout /\ Ranks' = Ranks /\ Names' = Names /\ FullCheckpoint' = FullCheckpoint
        /\ BufferRepeated' = BufferRepeated /\ CheckpointsOK' = CheckpointsOK /\ SourceOK' = SourceOK
        /\ \A s : At(r, s)' = At(r, s)
    BY <1>1, Same
  <1>3. u = [At(r, 0) EXCEPT !.model = u.model]
    <2>1. /\ RankIn(g.tp, r) = TpAt(Layout, r) /\ RankIn(g.sdp, r) = SdpAt(Layout, r)
          /\ RankIn(g.dp, r) = DpAt(Layout, r)
      BY <1>0, GangPlaces
    <2> HIDE DEF g
    <2>2. u = [trainer |-> 0, model |-> u.model,
               optimizer |-> [tp |-> TpAt(Layout, r), sdp |-> SdpAt(Layout, r), steps |-> 0],
               reader |-> [dp |-> DpAt(Layout, r), read |-> 0]]
      BY <2>1 DEF Blank
    <2> HIDE DEF u
    <2> QED
      BY <2>2 DEF At, StateOf
  <1>4. \A p \in Names : /\ Fits(m[p], u.model[p]) \/ BufferRepeated
                         /\ Fits(m[p], u.model[p]) /\ FullCheckpoint = {} /\ DpAt(Layout, r) = 0 =>
                               m[p] = Mine(p, source.version, Layout.tp, TpAt(Layout, r))
    BY NewTensor
  <1>5. m = [p \in Names |-> m[p]]
    BY DEF NewModel
  <1> HIDE DEF g, m, u
  <1>6. ~fits => BufferRepeated
    BY <1>4
  <1>7. fits /\ FullCheckpoint = {} /\ DpAt(Layout, r) = 0 =>
           m = [p \in Names |-> Mine(p, source.version, Layout.tp, TpAt(Layout, r))]
    BY <1>4, <1>5
  <1> HIDE DEF fits
  <1>8. RankOK(r)'
    <2>1. CASE fits
      <3>1. pc'[r] = "built" /\ st'[r] = [u EXCEPT !.model = m]
        BY <1>0, <1>1, <2>1
      <3>2. st'[r] = [At(r, 0) EXCEPT !.model = m]
        BY <1>3, <3>1 DEF At, StateOf
      <3>3. st'[r].model = m
        BY <3>2 DEF At, StateOf
      <3>4. st'[r] = [At(r, 0) EXCEPT !.model = st'[r].model]
        BY <3>2, <3>3
      <3> QED
        BY <1>1, <1>2, <1>7, <2>1, <3>1, <3>3, <3>4 DEF RankOK, Running
    <2>2. CASE ~fits
      <3>1. pc'[r] = "failed"
        BY <1>0, <1>1, <2>2
      <3> QED
        BY <1>2, <1>6, <2>2, <3>1 DEF RankOK, Running
    <2> QED
      BY <2>1, <2>2
  <1>9. ASSUME NEW q \in Ranks PROVE RankOK(q)'
    <2>1. CASE q # r
      <3>1. pc'[q] = pc[q] /\ st'[q] = st[q]
        BY <1>0, <1>1, <2>1
      <3> QED
        BY <1>0, <1>1, <3>1, RankSame
    <2> QED
      BY <1>8, <2>1
  <1>10. \A q \in Ranks : pc'[q] \in {"start", "built", "failed"}
    <2>1. \A q \in Ranks : pc[q] \in {"start", "built", "failed"}
      BY <1>0, <1>1 DEF PhaseOK
    <2> QED
      BY <1>0, <1>1, <2>1
  <1>11. PhaseOK' /\ SavingOK'
    BY <1>2, <1>10 DEF PhaseOK, SavingOK
  <1>12. DOMAIN pc' = Ranks' /\ DOMAIN st' = Ranks'
    BY <1>0, <1>1, <1>2
  <1> QED
    BY <1>0, <1>1, <1>2, <1>9, <1>11, <1>12 DEF ShardsInv

\* Where saves are of the model only, a model is not sharded in addition.
OnlyWhole ==
    \A p \in Plans : p.modelOnly => \A r \in RanksOf(p.layout) : ~Sharded(GangsOf(p.layout, r))

LEMMA WrappedIs ==
    ASSUME OnlyWhole, ShardsInv, \A q \in Ranks : pc[q] = "built", FullCheckpoint = {}, NEW r \in Ranks
    PROVE  Wrapped(r) = ModelOf(Layout, plan.buffered, source.version, r)
  <1> DEFINE g == Gang(r)
  <1> DEFINE v == source.version
  <1> DEFINE n == Layout.tp
  <1> DEFINE k == TpAt(Layout, r)
  <1>0. /\ plan \in Plans /\ CheckpointsOK /\ \A q \in Ranks : RankOK(q)
    BY DEF ShardsInv
  <1>1. /\ Names = NamesOf(plan.buffered) /\ Ranks = RanksOf(Layout) /\ Layout \in Layouts /\ Accepted(Layout)
        /\ Shards(Layout) \in Nat \ {0}
    BY <1>0, PlanIs
  <1>2. /\ Len(g.sdp) = Shards(Layout) /\ RankIn(g.sdp, r) = SdpAt(Layout, r)
        /\ Sharded(g) <=> Shards(Layout) > 1
    BY <1>0, GangPlaces
  <1>3. ASSUME NEW w \in Ranks, TpAt(Layout, w) = k, DpAt(Layout, w) = 0
        PROVE  st[w].model = [p \in Names |-> Mine(p, v, n, k)]
    <2>1. RankOK(w) /\ pc[w] = "built"
      BY <1>0, <1>3
    <2>2. st[w].model = [p \in Names |-> Mine(p, v, n, TpAt(Layout, w))]
      BY <1>3, <2>1 DEF RankOK
    <2> HIDE DEF k, n, v
    <2> QED
      BY <1>3, <2>2
  <1> DEFINE b == plan.buffered
  <1>4. ModelOf(Layout, b, v, r) = [p \in Names |-> PartOf(p, v, n, k, Shards(Layout), SdpAt(Layout, r))]
    BY <1>1 DEF ModelOf
  <1>5. CASE Sharded(g)
    <2>1. AnyCheckpoint = {}
      <3>1. ~plan.modelOnly
        BY <1>0, <1>1, <1>5 DEF OnlyWhole, Gang, Layout
      <3> QED
        BY <1>0, <3>1, CheckpointsAre
    <2> DEFINE w == g.dp[1]
    <2>2. w \in Ranks /\ TpAt(Layout, w) = k /\ DpAt(Layout, w) = 0
      <3>1. w = GangsOf(Layout, r)["dp"][1]
        BY DEF Gang
      <3> HIDE DEF w
      <3> QED
        BY <1>1, <3>1, FirstOfDp
    <2> DEFINE m == st[w].model
    <2>3. Wrapped(r) = [p \in Names |-> SdpShard(p, m[p], g, r)]
      BY <1>5, <2>1 DEF Wrapped
    <2> HIDE DEF w, v, n, k, g
    <2>4. m = [p \in Names |-> Mine(p, v, n, k)]
      BY <1>3, <2>2
    <2> HIDE DEF m
    <2>5. ASSUME NEW p \in Names
          PROVE  SdpShard(p, m[p], g, r) = PartOf(p, v, n, k, Shards(Layout), SdpAt(Layout, r))
      <3>1. m[p] = Mine(p, v, n, k)
        BY <2>4
      <3>2. Shards(Layout) > 1
        BY <1>2, <1>5
      <3> QED
        BY <1>2, <3>1, <3>2 DEF SdpShard, PartOf
    <2>6. Wrapped(r) = [p \in Names |-> PartOf(p, v, n, k, Shards(Layout), SdpAt(Layout, r))]
      BY <2>3, <2>5
    <2> QED
      BY <1>4, <2>6 DEF b, v
  <1>6. CASE ~Sharded(g)
    <2>1. Shards(Layout) = 1
      BY <1>1, <1>2, <1>6
    <2> DEFINE w == g.rdp[1]
    <2>2. w \in Ranks /\ TpAt(Layout, w) = k /\ DpAt(Layout, w) = 0
      <3>1. w = GangsOf(Layout, r)["rdp"][1]
        BY DEF Gang
      <3> HIDE DEF w
      <3> QED
        BY <1>1, <2>1, <3>1, FirstOfRdp
    <2>3. Wrapped(r) = st[w].model
      BY <1>6 DEF Wrapped
    <2> HIDE DEF w, v, n, k, g
    <2>4. Wrapped(r) = [p \in Names |-> Mine(p, v, n, k)]
      BY <1>3, <2>2, <2>3
    <2>5. \A p \in Names : PartOf(p, v, n, k, Shards(Layout), SdpAt(Layout, r)) = Mine(p, v, n, k)
      BY <2>1 DEF PartOf
    <2> QED
      BY <1>4, <2>4, <2>5 DEF b, v
  <1> QED
    BY <1>5, <1>6

LEMMA WrapStep ==
    ASSUME OnlyWhole, ShardsInv, Wrap
    PROVE  ShardsInv'
  <1>0. /\ plan \in Plans /\ step \in 0..MaxSteps /\ DOMAIN tmp = 1..MaxSteps /\ SourceOK /\ CheckpointsOK
        /\ \A q \in Ranks : RankOK(q)
    BY DEF ShardsInv
  <1>1. /\ \A r \in Ranks : pc[r] = "built"
        /\ st' = [r \in Ranks |-> [st[r] EXCEPT !.model = Wrapped(r)]]
        /\ pc' = [r \in Ranks |-> "wrapped"]
        /\ UNCHANGED <<plan, step, version, tmp, ckpt, source>>
    BY DEF Wrap
  <1>2. /\ Layout' = Layout /\ Ranks' = Ranks /\ Names' = Names /\ FullCheckpoint' = FullCheckpoint
        /\ BufferRepeated' = BufferRepeated /\ CheckpointsOK' = CheckpointsOK /\ SourceOK' = SourceOK
        /\ \A r, s : At(r, s)' = At(r, s)
    BY <1>1, Same
  <1>3. ASSUME NEW r \in Ranks PROVE RankOK(r)'
    <2>1. pc'[r] = "wrapped" /\ st'[r] = [st[r] EXCEPT !.model = Wrapped(r)]
      BY <1>1
    <2>2. ASSUME FullCheckpoint = {} PROVE st'[r] = At(r, 0)
      <3>1. st[r] = [At(r, 0) EXCEPT !.model = st[r].model]
        BY <1>0, <1>1 DEF RankOK
      <3>2. Wrapped(r) = ModelOf(Layout, plan.buffered, source.version, r)
        BY <1>1, <2>2, WrappedIs
      <3>3. source.version + 0 = source.version
        BY <1>0, VersionIs
      <3> DEFINE x == At(r, 0)
      <3>4. x = StateOf(Layout, plan.buffered, 0, source.version, r)
        BY <3>3 DEF At
      <3> HIDE DEF x
      <3>5. OfKinds(x) /\ x["model"] = Wrapped(r)
        <4>1. PICK l, b, v : l = Layout /\ b = plan.buffered /\ v = source.version
          OBVIOUS
        <4>2. x = StateOf(l, b, 0, v, r)
          BY <3>4, <4>1
        <4>3. OfKinds(x)
          BY ONLY <4>2, StateIs
        <4>4. x["model"] = ModelOf(l, b, v, r)
          BY ONLY <4>2 DEF StateOf
        <4> QED
          BY <3>2, <4>1, <4>3, <4>4
      <3> DEFINE y == st[r].model
      <3>6. st'[r] = [[x EXCEPT !["model"] = y] EXCEPT !["model"] = Wrapped(r)]
        BY <2>1, <3>1 DEF x
      <3> HIDE DEF y
      <3>7. [[x EXCEPT !["model"] = y] EXCEPT !["model"] = Wrapped(r)] = x
        BY <3>5 DEF OfKinds
      <3> QED
        BY <3>6, <3>7 DEF x
    <2> QED
      BY <1>2, <2>1, <2>2 DEF RankOK, Running
  <1>4. \A q \in Ranks : pc'[q] = "wrapped"
    BY <1>1
  <1>5. PhaseOK' /\ SavingOK'
    BY <1>2, <1>4 DEF PhaseOK, SavingOK
  <1>6. DOMAIN pc' = Ranks' /\ DOMAIN st' = Ranks'
    BY <1>1, <1>2
  <1> QED
    BY <1>0, <1>1, <1>2, <1>3, <1>5, <1>6 DEF ShardsInv

-----------------------------------------------------------------------------
(***************************************************************************)
(* Resuming and training.                                                  *)
(***************************************************************************)
LEMMA RestoreStep ==
    ASSUME ShardsInv, NEW r \in Ranks, Restore(r)
    PROVE  ShardsInv'
  <1> DEFINE found == \A k \in Kinds : PathOf(Gang(r), r, k) \in DOMAIN ckpt[LastFull].files
  <1> DEFINE read == [k \in Kinds |-> ckpt[LastFull].files[PathOf(Gang(r), r, k)]]
  <1>0. /\ plan \in Plans /\ step \in 0..MaxSteps /\ DOMAIN pc = Ranks /\ DOMAIN st = Ranks
        /\ DOMAIN tmp = 1..MaxSteps /\ SourceOK /\ CheckpointsOK /\ PhaseOK
        /\ \A q \in Ranks : RankOK(q)
    BY DEF ShardsInv
  <1>1. /\ pc[r] = "wrapped" /\ UNCHANGED <<plan, step, version, tmp, ckpt, source>>
        /\ FullCheckpoint = {} => pc' = [pc EXCEPT ![r] = "restored"] /\ st' = st
        /\ FullCheckpoint # {} /\ found => pc' = [pc EXCEPT ![r] = "restored"] /\ st' = [st EXCEPT ![r] = read]
    BY DEF Restore
  <1>2. /\ Layout' = Layout /\ Ranks' = Ranks /\ Names' = Names /\ FullCheckpoint' = FullCheckpoint
        /\ BufferRepeated' = BufferRepeated /\ CheckpointsOK' = CheckpointsOK /\ SourceOK' = SourceOK
        /\ Resumed' = Resumed /\ \A s : At(r, s)' = At(r, s)
    BY <1>1, Same
  <1>3. ASSUME FullCheckpoint # {} PROVE found /\ read = At(r, Resumed)
    <2>1. /\ ~plan.modelOnly
          /\ Complete(ckpt[LastFull].files, Layout, plan.buffered, Kinds, LastFull, source.version + LastFull)
      BY <1>0, <1>3, CheckpointsAre DEF KindsOf
    <2> DEFINE files == ckpt[LastFull].files
    <2> DEFINE x == StateOf(Layout, plan.buffered, LastFull, source.version + LastFull, r)
    <2>2. r \in RanksOf(Layout) /\ \A k : PathOf(Gang(r), r, k) = PathFor(Layout, r, k)
      BY <1>0, PlanIs DEF Gang, PathFor
    <2>3. \A k \in Kinds : PathFor(Layout, r, k) \in DOMAIN files /\ files[PathFor(Layout, r, k)] = x[k]
      <3>1. \A k \in Kinds : PathFor(Layout, r, k) \in PathsOf(Layout, Kinds)
        BY <2>2 DEF PathsOf
      <3> QED
        BY <2>1, <2>2, <3>1 DEF Complete, Right
    <2>4. At(r, Resumed) = x
      BY <1>3 DEF At, Resumed
    <2> HIDE DEF files, x
    <2>5. OfKinds(x)
      BY ONLY DEF x, StateOf, OfKinds, Kinds
    <2>6. found
      BY <2>2, <2>3 DEF files
    <2>7. read = [k \in Kinds |-> x[k]]
      BY <2>2, <2>3 DEF files
    <2> QED
      BY <2>4, <2>5, <2>6, <2>7 DEF OfKinds
  <1> HIDE DEF found, read
  <1>4. pc'[r] = "restored" /\ st'[r] = At(r, Resumed)
    <2>1. CASE FullCheckpoint = {}
      <3>1. st[r] = At(r, 0) /\ Resumed = 0
        BY <1>0, <1>1, <2>1 DEF RankOK, Resumed
      <3> QED
        BY <1>0, <1>1, <2>1, <3>1
    <2>2. CASE FullCheckpoint # {}
      BY <1>0, <1>1, <1>3, <2>2
    <2> QED
      BY <2>1, <2>2
  <1>5. \A q \in Ranks : q # r => pc'[q] = pc[q] /\ st'[q] = st[q]
    BY <1>0, <1>1, <1>3
  <1>6. RankOK(r)'
    BY <1>2, <1>4 DEF RankOK, Running
  <1>7. ASSUME NEW q \in Ranks PROVE RankOK(q)'
    <2>1. CASE q # r
      BY <1>0, <1>1, <1>5, <2>1, RankSame
    <2> QED
      BY <1>6, <2>1
  <1>8. \A q \in Ranks : pc'[q] \in {"wrapped", "restored"}
    <2>1. \A q \in Ranks : pc[q] \in {"wrapped", "restored"}
      BY <1>0, <1>1 DEF PhaseOK
    <2> QED
      BY <1>4, <1>5, <2>1
  <1>9. PhaseOK' /\ SavingOK'
    BY <1>2, <1>8 DEF PhaseOK, SavingOK
  <1>10. DOMAIN pc' = Ranks' /\ DOMAIN st' = Ranks'
    BY <1>0, <1>1, <1>2, <1>3
  <1> QED
    BY <1>0, <1>1, <1>2, <1>7, <1>9, <1>10 DEF ShardsInv

LEMMA BeginStep ==
    ASSUME ShardsInv, Begin
    PROVE  ShardsInv'
  <1>0. /\ plan \in Plans /\ DOMAIN st = Ranks
        /\ DOMAIN tmp = 1..MaxSteps /\ SourceOK /\ CheckpointsOK
        /\ \A q \in Ranks : RankOK(q)
    BY DEF ShardsInv
  <1>1. /\ \A r \in Ranks : pc[r] = "restored"
        /\ pc' = [r \in Ranks |-> "run"]
        /\ step' = Resumed
        /\ version' = IF FullCheckpoint = {} THEN source.version ELSE ckpt[LastFull].version
        /\ UNCHANGED <<plan, st, tmp, ckpt, source>>
    BY DEF Begin, Resumed
  <1>2. /\ Layout' = Layout /\ Ranks' = Ranks /\ Names' = Names /\ FullCheckpoint' = FullCheckpoint
        /\ BufferRepeated' = BufferRepeated /\ CheckpointsOK' = CheckpointsOK /\ SourceOK' = SourceOK
        /\ Resumed' = Resumed /\ \A r, s : At(r, s)' = At(r, s)
    BY <1>1, Same
  <1>3. /\ Resumed \in 0..MaxSteps
        /\ FullCheckpoint # {} => ckpt[LastFull].version = source.version + LastFull
    BY <1>0, CheckpointsAre
  <1>4. source.version' + step' = version'
    <2>1. source.version \in Nat
      BY <1>0, VersionIs
    <2>2. CASE FullCheckpoint = {}
      BY <1>1, <2>1, <2>2 DEF Resumed
    <2>3. CASE FullCheckpoint # {}
      BY <1>1, <1>3, <2>3 DEF Resumed
    <2> QED
      BY <2>2, <2>3
  <1>5. ASSUME NEW r \in Ranks PROVE RankOK(r)'
    <2>1. pc'[r] = "run" /\ st'[r] = At(r, step')
      BY <1>0, <1>1 DEF RankOK
    <2>2. st'[r] = At(r, step)'
      BY <1>1, <1>2, <2>1 DEF At
    <2> QED
      BY <1>4, <2>1, <2>2 DEF RankOK, Running
  <1>6. \A q \in Ranks : pc'[q] = "run"
    BY <1>1
  <1>7. PhaseOK' /\ SavingOK'
    BY <1>2, <1>6 DEF PhaseOK, SavingOK
  <1>8. DOMAIN pc' = Ranks' /\ DOMAIN st' = Ranks'
    BY <1>0, <1>1, <1>2
  <1> QED
    BY <1>0, <1>1, <1>2, <1>3, <1>5, <1>7, <1>8 DEF ShardsInv

LEMMA TrainStep ==
    ASSUME ShardsInv, Train
    PROVE  ShardsInv'
  <1>0. /\ plan \in Plans /\ step \in 0..MaxSteps
        /\ DOMAIN tmp = 1..MaxSteps /\ SourceOK /\ CheckpointsOK
        /\ \A q \in Ranks : RankOK(q)
    BY DEF ShardsInv
  <1>1. /\ \A r \in Ranks : pc[r] = "run"
        /\ step < MaxSteps /\ step' = step + 1 /\ version' = version + 1
        /\ st' = [r \in Ranks |->
                     [trainer   |-> st[r].trainer + 1,
                      model     |-> [p \in Names |-> Updated(st[r].model[p])],
                      optimizer |-> [st[r].optimizer EXCEPT !.steps = @ + 1],
                      reader    |-> [st[r].reader EXCEPT !.read = @ + 1]]]
        /\ UNCHANGED <<plan, pc, tmp, ckpt, source>>
    BY DEF Train
  <1>2. /\ Layout' = Layout /\ Ranks' = Ranks /\ Names' = Names /\ FullCheckpoint' = FullCheckpoint
        /\ BufferRepeated' = BufferRepeated /\ CheckpointsOK' = CheckpointsOK /\ SourceOK' = SourceOK
        /\ Resumed' = Resumed /\ \A r, s : At(r, s)' = At(r, s)
    BY <1>1, Same
  <1>3. /\ source.version \in Nat /\ step \in Nat /\ MaxSteps \in Nat /\ step' \in 0..MaxSteps
    BY <1>0, <1>1, VersionIs, SizeAssumption
  <1>4. /\ Names = NamesOf(plan.buffered) /\ Layout.tp \in Nat \ {0} /\ DivisibleBy(Layout.tp)
        /\ Shards(Layout) \in Nat \ {0}
    BY <1>0, PlanIs
  <1>5. ASSUME NEW r \in Ranks PROVE RankOK(r)'
    <2> DEFINE b == plan.buffered
    <2> DEFINE n == Layout.tp
    <2> DEFINE k == TpAt(Layout, r)
    <2> DEFINE d == Shards(Layout)
    <2> DEFINE j == SdpAt(Layout, r)
    <2>1. st[r] = At(r, step) /\ version = source.version + step /\ pc'[r] = "run"
      BY <1>0, <1>1 DEF RankOK, Running
    <2>2. /\ version \in Nat /\ version' = version + 1 /\ version' = source.version + step'
          /\ version + 1 = source.version + (step + 1)
      <3>1. PICK a : a = source.version
        OBVIOUS
      <3>2. a \in Nat /\ step \in Nat /\ version = a + step /\ step' = step + 1 /\ version' = version + 1
        BY <1>1, <1>3, <2>1, <3>1
      <3>3. version \in Nat /\ version' = a + step' /\ version + 1 = a + (step + 1)
        BY ONLY <3>2
      <3> QED
        BY <3>1, <3>2, <3>3
    <2>3. st[r] = StateOf(Layout, b, step, version, r)
      BY <2>1 DEF At
    <2>4. st[r] = [trainer |-> step, model |-> ModelOf(Layout, b, version, r),
                   optimizer |-> [tp |-> k, sdp |-> j, steps |-> step],
                   reader |-> [dp |-> DpAt(Layout, r), read |-> step]]
      BY <2>3 DEF StateOf
    <2>5. k \in 0..(n - 1) /\ j \in 0..(d - 1)
      BY <1>0, GangPlaces
    <2> DEFINE m == st[r].model
    <2>6. m = [p \in Names |-> PartOf(p, version, n, k, d, j)]
      BY <1>4, <2>4 DEF ModelOf
    <2>7. ModelOf(Layout, b, version + 1, r) = [p \in Names |-> PartOf(p, version + 1, n, k, d, j)]
      BY <1>4 DEF ModelOf
    <2>8. At(r, step)' = StateOf(Layout, b, step + 1, version + 1, r)
      BY <1>1, <1>2, <2>2 DEF At
    <2>9. st'[r] = [trainer   |-> st[r].trainer + 1,
                    model     |-> [p \in Names |-> Updated(m[p])],
                    optimizer |-> [st[r].optimizer EXCEPT !.steps = @ + 1],
                    reader    |-> [st[r].reader EXCEPT !.read = @ + 1]]
      BY <1>1
    <2> HIDE DEF n, k, d, j, m
    <2>10. ASSUME NEW p \in Names PROVE Updated(m[p]) = PartOf(p, version + 1, n, k, d, j)
      <3>1. p \in AllNames
        BY <1>4, NamesAre
      <3>2. m[p] = PartOf(p, version, n, k, d, j)
        BY <2>6
      <3>3. n \in Nat \ {0} /\ DivisibleBy(n) /\ d \in Nat \ {0}
        BY <1>4 DEF n, d
      <3> QED
        BY <2>2, <2>5, <3>1, <3>2, <3>3, UpdatedPart
    <2>11. [p \in Names |-> Updated(m[p])] = ModelOf(Layout, b, version + 1, r)
      BY <2>7, <2>10
    <2>12. /\ st[r].trainer = step /\ st[r].optimizer = [tp |-> k, sdp |-> j, steps |-> step]
           /\ st[r].reader = [dp |-> DpAt(Layout, r), read |-> step]
      BY <2>4
    <2>13. st'[r] = [trainer |-> step + 1, model |-> ModelOf(Layout, b, version + 1, r),
                     optimizer |-> [tp |-> k, sdp |-> j, steps |-> step + 1],
                     reader |-> [dp |-> DpAt(Layout, r), read |-> step + 1]]
      BY <2>9, <2>11, <2>12
    <2>14. st'[r] = At(r, step)'
      BY <2>8, <2>13 DEF StateOf, k, j
    <2> QED
      BY <1>1, <2>1, <2>2, <2>14 DEF RankOK, Running
  <1>6. PhaseOK' /\ SavingOK'
    BY <1>1, <1>2 DEF PhaseOK, SavingOK
  <1>7. DOMAIN pc' = Ranks' /\ DOMAIN st' = Ranks'
    BY <1>1, <1>2 DEF ShardsInv
  <1> QED
    BY <1>0, <1>1, <1>2, <1>3, <1>5, <1>6, <1>7 DEF ShardsInv

-----------------------------------------------------------------------------
(***************************************************************************)
(* Saving.                                                                 *)
(***************************************************************************)
\* Where a rank writes, by its places, and whether it does.
LEMMA PathIs ==
    ASSUME plan \in Plans, NEW r \in Ranks
    PROVE  /\ PathFor(Layout, r, "model") = <<"model", TpAt(Layout, r), SdpAt(Layout, r)>>
           /\ PathFor(Layout, r, "optimizer") = <<"optimizer", TpAt(Layout, r), SdpAt(Layout, r)>>
           /\ PathFor(Layout, r, "reader") = <<"reader", DpAt(Layout, r), 0>>
           /\ PathFor(Layout, r, "trainer") = <<"trainer", r, 0>>
           /\ \A k : PathOf(Gang(r), r, k) = PathFor(Layout, r, k)
           /\ Writes(Gang(r), r, "model") <=> RdpAt(Layout, r) = 0
           /\ Writes(Gang(r), r, "optimizer") <=> RdpAt(Layout, r) = 0
           /\ Writes(Gang(r), r, "reader") <=> TpAt(Layout, r) = 0
           /\ Writes(Gang(r), r, "trainer")
  <1> DEFINE g == Gang(r)
  <1>1. \A k : PathFor(Layout, r, k) = PathOf(g, r, k)
    BY DEF PathFor, Gang
  <1>2. /\ RankIn(g.tp, r) = TpAt(Layout, r) /\ RankIn(g.sdp, r) = SdpAt(Layout, r)
        /\ RankIn(g.dp, r) = DpAt(Layout, r) /\ RankIn(g.rdp, r) = RdpAt(Layout, r)
    BY GangPlaces
  <1> HIDE DEF g
  <1>3. /\ PathOf(g, r, "model") = <<"model", TpAt(Layout, r), SdpAt(Layout, r)>>
        /\ PathOf(g, r, "optimizer") = <<"optimizer", TpAt(Layout, r), SdpAt(Layout, r)>>
        /\ PathOf(g, r, "reader") = <<"reader", DpAt(Layout, r), 0>>
        /\ PathOf(g, r, "trainer") = <<"trainer", r, 0>>
    BY <1>2 DEF PathOf
  <1>4. /\ Writes(g, r, "model") <=> RdpAt(Layout, r) = 0
        /\ Writes(g, r, "optimizer") <=> RdpAt(Layout, r) = 0
        /\ Writes(g, r, "reader") <=> TpAt(Layout, r) = 0
        /\ Writes(g, r, "trainer")
    BY <1>2 DEF Writes
  <1> QED
    BY <1>1, <1>3, <1>4 DEF g

\* Ranks that write to one path have the same to write.
LEMMA SamePath ==
    ASSUME plan \in Plans, NEW q \in Ranks, NEW r \in Ranks, NEW k \in Kinds, NEW j \in Kinds,
           PathFor(Layout, q, k) = PathFor(Layout, r, j), NEW b, NEW s, NEW v
    PROVE  k = j /\ StateOf(Layout, b, s, v, q)[k] = StateOf(Layout, b, s, v, r)[k]
  <1>0. /\ \A w \in {q, r} :
              /\ PathFor(Layout, w, "model") = <<"model", TpAt(Layout, w), SdpAt(Layout, w)>>
              /\ PathFor(Layout, w, "optimizer") = <<"optimizer", TpAt(Layout, w), SdpAt(Layout, w)>>
              /\ PathFor(Layout, w, "reader") = <<"reader", DpAt(Layout, w), 0>>
              /\ PathFor(Layout, w, "trainer") = <<"trainer", w, 0>>
    BY PathIs
  <1>1. k = j
    <2>1. \A w \in {q, r}, x \in Kinds : PathFor(Layout, w, x)[1] = x
      BY <1>0 DEF Kinds
    <2> QED
      BY <2>1
  <1>2. CASE k = "model"
    <2>1. TpAt(Layout, q) = TpAt(Layout, r) /\ SdpAt(Layout, q) = SdpAt(Layout, r)
      BY <1>0, <1>1, <1>2
    <2>2. ModelOf(Layout, b, v, q) = ModelOf(Layout, b, v, r)
      BY <2>1 DEF ModelOf
    <2> QED
      BY <1>1, <1>2, <2>2 DEF StateOf
  <1>3. CASE k = "optimizer"
    <2>1. TpAt(Layout, q) = TpAt(Layout, r) /\ SdpAt(Layout, q) = SdpAt(Layout, r)
      BY <1>0, <1>1, <1>3
    <2> QED
      BY <1>1, <1>3, <2>1 DEF StateOf
  <1>4. CASE k = "reader"
    <2>1. DpAt(Layout, q) = DpAt(Layout, r)
      BY <1>0, <1>1, <1>4
    <2> QED
      BY <1>1, <1>4, <2>1 DEF StateOf
  <1>5. CASE k = "trainer"
    BY <1>1, <1>5 DEF StateOf
  <1> QED
    BY <1>2, <1>3, <1>4, <1>5 DEF Kinds

LEMMA BeginSaveStep ==
    ASSUME ShardsInv, BeginSave
    PROVE  ShardsInv'
  <1>0. /\ plan \in Plans /\ step \in 0..MaxSteps /\ DOMAIN st = Ranks
        /\ DOMAIN tmp = 1..MaxSteps /\ SourceOK /\ CheckpointsOK
        /\ \A q \in Ranks : RankOK(q)
    BY DEF ShardsInv
  <1>1. /\ \A r \in Ranks : pc[r] = "run"
        /\ ~Saved /\ tmp' = [tmp EXCEPT ![step] = None] /\ pc' = [r \in Ranks |-> "save"]
        /\ UNCHANGED <<plan, st, step, version, ckpt, source>>
    BY DEF BeginSave
  <1>2. /\ Layout' = Layout /\ Ranks' = Ranks /\ Names' = Names /\ FullCheckpoint' = FullCheckpoint
        /\ BufferRepeated' = BufferRepeated /\ CheckpointsOK' = CheckpointsOK /\ SourceOK' = SourceOK
        /\ Resumed' = Resumed /\ \A r, s : At(r, s)' = At(r, s)
    BY <1>1, Same
  <1>3. step \in 1..MaxSteps
    <2>1. step # 0
      BY <1>1 DEF Saved
    <2>2. MaxSteps \in Nat
      BY SizeAssumption
    <2> QED
      BY <1>0, <2>1, <2>2
  <1>4. ASSUME NEW r \in Ranks PROVE RankOK(r)'
    <2>1. st[r] = At(r, step) /\ version = source.version + step
      BY <1>0, <1>1 DEF RankOK, Running
    <2>2. At(r, step)' = At(r, step)
      BY <1>1, <1>2 DEF At
    <2>3. pc'[r] = "save"
      BY <1>1
    <2> QED
      BY <1>1, <2>1, <2>2, <2>3 DEF RankOK, Running
  <1>5. tmp'[step] = None /\ DOMAIN tmp' = 1..MaxSteps
    BY <1>0, <1>1, <1>3
  <1>6. Right(None.files, Layout, plan.buffered, KindsOf(plan.modelOnly), step, version)
    BY DEF Right, None
  <1>7. PhaseOK' /\ SavingOK'
    <2>1. \A r \in Ranks : pc'[r] = "save"
      BY <1>1
    <2> QED
      BY <1>1, <1>2, <1>3, <1>5, <1>6, <2>1 DEF PhaseOK, SavingOK
  <1>8. DOMAIN pc' = Ranks' /\ DOMAIN st' = Ranks'
    BY <1>0, <1>1, <1>2
  <1> QED
    BY <1>0, <1>1, <1>2, <1>4, <1>5, <1>7, <1>8 DEF ShardsInv

LEMMA WriteStep ==
    ASSUME ShardsInv, NEW r \in Ranks, WriteShards(r)
    PROVE  ShardsInv'
  <1> DEFINE old == tmp[step].files
  <1> DEFINE new == FilesOf(Gang(r), r)
  <1> DEFINE files == Overwritten(old, new)
  <1> DEFINE kinds == KindsOf(plan.modelOnly)
  <1> DEFINE mine == {k \in kinds : Writes(Gang(r), r, k)}
  <1> DEFINE b == plan.buffered
  <1>0. /\ plan \in Plans /\ step \in 0..MaxSteps /\ DOMAIN pc = Ranks /\ DOMAIN st = Ranks
        /\ DOMAIN tmp = 1..MaxSteps /\ SourceOK /\ CheckpointsOK /\ PhaseOK /\ SavingOK
        /\ \A q \in Ranks : RankOK(q)
    BY DEF ShardsInv
  <1>1. /\ pc[r] = "save" /\ pc' = [pc EXCEPT ![r] = "saved"]
        /\ tmp' = [tmp EXCEPT ![step] = [files |-> files, version |-> version]]
        /\ UNCHANGED <<plan, st, step, version, ckpt, source>>
    BY DEF WriteShards
  <1>2. /\ Layout' = Layout /\ Ranks' = Ranks /\ Names' = Names /\ FullCheckpoint' = FullCheckpoint
        /\ BufferRepeated' = BufferRepeated /\ CheckpointsOK' = CheckpointsOK /\ SourceOK' = SourceOK
        /\ Resumed' = Resumed /\ (\A q : Gang(q)' = Gang(q)) /\ \A q, s : At(q, s)' = At(q, s)
    BY <1>1, Same
  <1>3. \A q \in Ranks : pc[q] \in {"save", "saved"}
    BY <1>0, <1>1 DEF PhaseOK
  <1>4. /\ step \in 1..MaxSteps /\ Right(old, Layout, b, kinds, step, version)
        /\ \A q \in Ranks : pc[q] = "saved" =>
              /\ tmp[step] = [files |-> old, version |-> version]
              /\ \A k \in kinds : Writes(Gang(q), q, k) => PathOf(Gang(q), q, k) \in DOMAIN old
    BY <1>0, <1>3 DEF SavingOK
  <1>5. Ranks = RanksOf(Layout) /\ plan.modelOnly \in BOOLEAN /\ kinds \subseteq Kinds
    <2>1. Ranks = RanksOf(Layout) /\ plan.modelOnly \in BOOLEAN
      BY <1>0, PlanIs
    <2> QED
      BY <2>1 DEF KindsOf, Kinds
  <1>6. \A q \in Ranks : \A k : PathOf(Gang(q), q, k) = PathFor(Layout, q, k)
    BY <1>0, PathIs
  <1>7. /\ DOMAIN new = {PathFor(Layout, r, k) : k \in mine}
        /\ \A k \in mine : new[PathFor(Layout, r, k)] = st[r][k]
    <2>1. {k \in Kinds : Writes(Gang(r), r, k) /\ (plan.modelOnly => k = "model")} = mine
      BY <1>5 DEF KindsOf, Kinds
    <2>2. new = [path \in {PathOf(Gang(r), r, k) : k \in mine} |-> st[r][path[1]]]
      BY <2>1 DEF FilesOf
    <2>3. \A k \in mine : PathFor(Layout, r, k)[1] = k
      <3>1. \A k \in Kinds : PathFor(Layout, r, k)[1] = k
        BY <1>0, PathIs DEF Kinds
      <3> QED
        BY <1>5, <3>1
    <2> HIDE DEF mine, new
    <2> QED
      BY <1>6, <2>2, <2>3
  <1> HIDE DEF mine, kinds, old, new
  <1>8. DOMAIN files = DOMAIN old \cup DOMAIN new
        /\ \A path \in DOMAIN files : files[path] = IF path \in DOMAIN new THEN new[path] ELSE old[path]
    BY DEF Overwritten
  <1> HIDE DEF files, b
  <1>9. st[r] = StateOf(Layout, b, step, version, r)
    BY <1>0, <1>1 DEF RankOK, Running, At, b
  <1>10. mine \subseteq kinds /\ \A k \in kinds : Writes(Gang(r), r, k) => k \in mine
    BY DEF mine
  <1>11. Right(files, Layout, b, kinds, step, version)
    <2>1. DOMAIN files \subseteq PathsOf(Layout, kinds)
      <3>1. DOMAIN old \subseteq PathsOf(Layout, kinds)
        BY <1>4 DEF Right
      <3>2. DOMAIN new \subseteq PathsOf(Layout, kinds)
        BY <1>5, <1>7, <1>10 DEF PathsOf
      <3> QED
        BY <1>8, <3>1, <3>2
    <2>2. ASSUME NEW q \in RanksOf(Layout), NEW k \in kinds, PathFor(Layout, q, k) \in DOMAIN files
          PROVE  files[PathFor(Layout, q, k)] = StateOf(Layout, b, step, version, q)[k]
      <3> DEFINE path == PathFor(Layout, q, k)
      <3>1. CASE path \in DOMAIN new
        <4>1. PICK j \in mine : path = PathFor(Layout, r, j)
          BY <1>7, <3>1
        <4>2. files[path] = st[r][j]
          BY <1>7, <1>8, <2>2, <3>1, <4>1
        <4>3. q \in Ranks /\ k \in Kinds /\ j \in Kinds
          BY <1>5, <1>10
        <4>4. k = j /\ StateOf(Layout, b, step, version, q)[k] = StateOf(Layout, b, step, version, r)[k]
          BY <1>0, <4>1, <4>3, SamePath
        <4> QED
          BY <1>9, <4>2, <4>4
      <3>2. CASE path \notin DOMAIN new
        <4>1. path \in DOMAIN old /\ files[path] = old[path]
          BY <1>8, <2>2, <3>2
        <4> QED
          BY <1>4, <4>1 DEF Right
      <3> QED
        BY <3>1, <3>2
    <2> QED
      BY <2>1, <2>2 DEF Right
  <1>12. /\ tmp'[step] = [files |-> files, version |-> version] /\ DOMAIN tmp' = 1..MaxSteps
         /\ tmp'[step].files = files /\ tmp'[step].version = version
    BY <1>0, <1>1, <1>4
  <1>13. ASSUME NEW q \in Ranks, pc'[q] = "saved", NEW k \in kinds, Writes(Gang(q), q, k)
         PROVE  PathOf(Gang(q), q, k) \in DOMAIN files
    <2>1. CASE q = r
      BY <1>6, <1>7, <1>8, <1>10, <1>13, <2>1
    <2>2. CASE q # r
      <3>1. pc[q] = "saved"
        BY <1>0, <1>1, <1>13, <2>2
      <3> QED
        BY <1>4, <1>8, <1>13, <3>1
    <2> QED
      BY <2>1, <2>2
  <1>14. \A q \in Ranks : pc'[q] \in {"save", "saved"}
    BY <1>0, <1>1, <1>3
  <1>15. SavingOK'
    <2>1. \A q \in Ranks : \A k : Writes(Gang(q), q, k)' = Writes(Gang(q), q, k) /\ PathOf(Gang(q), q, k)' = PathOf(Gang(q), q, k)
      BY <1>2 DEF Writes, PathOf
    <2>2. kinds' = kinds /\ b' = b
      BY <1>1 DEF kinds, b
    <2> QED
      BY <1>1, <1>2, <1>4, <1>11, <1>12, <1>13, <2>1, <2>2 DEF SavingOK, kinds, b
  <1>16. ASSUME NEW q \in Ranks PROVE RankOK(q)'
    <2>1. CASE q = r
      <3>1. pc'[r] = "saved" /\ st[r] = At(r, step) /\ version = source.version + step
        BY <1>0, <1>1 DEF RankOK, Running
      <3>2. At(r, step)' = At(r, step)
        BY <1>1, <1>2 DEF At
      <3> QED
        BY <1>1, <2>1, <3>1, <3>2 DEF RankOK, Running
    <2>2. CASE q # r
      <3>1. pc'[q] = pc[q] /\ st'[q] = st[q]
        BY <1>0, <1>1, <2>2
      <3> QED
        BY <1>0, <1>1, <3>1, RankSame
    <2> QED
      BY <2>1, <2>2
  <1>17. PhaseOK'
    BY <1>2, <1>14 DEF PhaseOK
  <1>18. DOMAIN pc' = Ranks' /\ DOMAIN st' = Ranks'
    BY <1>0, <1>1, <1>2
  <1> QED
    BY <1>0, <1>1, <1>2, <1>12, <1>15, <1>16, <1>17, <1>18 DEF ShardsInv

\* Once every rank has written its files, there are all.
LEMMA AllWritten ==
    ASSUME plan \in Plans, NEW kinds \in SUBSET Kinds, NEW F,
           \A r \in Ranks : \A k \in kinds : Writes(Gang(r), r, k) => PathFor(Layout, r, k) \in F
    PROVE  PathsOf(Layout, kinds) \subseteq F
  <1>0. Layout \in Layouts /\ Accepted(Layout) /\ Ranks = RanksOf(Layout)
    BY PlanIs
  <1>1. SUFFICES ASSUME NEW r \in Ranks, NEW k \in kinds PROVE PathFor(Layout, r, k) \in F
    BY <1>0 DEF PathsOf
  <1>2. \E w \in Ranks : Writes(Gang(w), w, k) /\ PathFor(Layout, w, k) = PathFor(Layout, r, k)
    <2>1. CASE k \in {"model", "optimizer"}
      <3>1. PICK w \in Ranks : TpAt(Layout, w) = TpAt(Layout, r) /\ SdpAt(Layout, w) = SdpAt(Layout, r) /\ RdpAt(Layout, w) = 0
        BY <1>0, Places
      <3>2. PathFor(Layout, w, k) = <<k, TpAt(Layout, w), SdpAt(Layout, w)>> /\ Writes(Gang(w), w, k)
        BY <2>1, <3>1, PathIs
      <3>3. PathFor(Layout, r, k) = <<k, TpAt(Layout, r), SdpAt(Layout, r)>>
        BY <2>1, PathIs
      <3> QED
        BY <3>1, <3>2, <3>3
    <2>2. CASE k = "reader"
      <3>1. PICK w \in Ranks : DpAt(Layout, w) = DpAt(Layout, r) /\ TpAt(Layout, w) = 0
        BY <1>0, Places
      <3>2. PathFor(Layout, w, k) = <<"reader", DpAt(Layout, w), 0>> /\ Writes(Gang(w), w, k)
        BY <2>2, <3>1, PathIs
      <3>3. PathFor(Layout, r, k) = <<"reader", DpAt(Layout, r), 0>>
        BY <2>2, PathIs
      <3> QED
        BY <3>1, <3>2, <3>3
    <2>3. CASE k = "trainer"
      BY <2>3, PathIs
    <2> QED
      BY <2>1, <2>2, <2>3 DEF Kinds
  <1> QED
    BY <1>2

LEMMA CommitStep ==
    ASSUME ShardsInv, Commit
    PROVE  ShardsInv'
  <1> DEFINE files == tmp[step].files
  <1> DEFINE kinds == KindsOf(plan.modelOnly)
  <1>0. /\ plan \in Plans /\ step \in 0..MaxSteps /\ DOMAIN pc = Ranks /\ DOMAIN st = Ranks
        /\ DOMAIN tmp = 1..MaxSteps /\ SourceOK /\ CheckpointsOK /\ SavingOK
        /\ \A q \in Ranks : RankOK(q)
    BY DEF ShardsInv
  <1>1. /\ \A r \in Ranks : pc[r] = "saved"
        /\ pc' = [r \in Ranks |-> "run"]
        /\ ckpt' = [ckpt EXCEPT ![step] = tmp[step]]
        /\ tmp' = [tmp EXCEPT ![step] = None]
        /\ UNCHANGED <<plan, st, step, version, source>>
    BY DEF Commit
  <1>2. Layout' = Layout /\ Ranks' = Ranks /\ (\A r, s : At(r, s)' = At(r, s)) /\ SourceOK'
    <2>1. Layout' = Layout /\ Ranks' = Ranks
      BY <1>1 DEF Layout, Ranks
    <2>2. SourceOK'
      BY <1>0, <1>1, <2>1 DEF SourceOK
    <2> QED
      BY <1>1, <2>1, <2>2 DEF At
  <1>3. 0 \in Ranks /\ Ranks = RanksOf(Layout) /\ kinds \subseteq Kinds
    BY <1>0, PlanIs DEF KindsOf, Kinds
  <1>4. /\ step \in 1..MaxSteps /\ Right(files, Layout, plan.buffered, kinds, step, version)
        /\ tmp[step] = [files |-> files, version |-> version]
        /\ \A q \in Ranks : \A k \in kinds : Writes(Gang(q), q, k) => PathOf(Gang(q), q, k) \in DOMAIN files
    BY <1>0, <1>1, <1>3 DEF SavingOK
  <1>5. version = source.version + step
    BY <1>0, <1>1, <1>3 DEF RankOK, Running
  <1> HIDE DEF kinds, files
  <1>6. PathsOf(Layout, kinds) \subseteq DOMAIN files
    <2>1. \A q \in Ranks : \A k \in kinds : Writes(Gang(q), q, k) => PathFor(Layout, q, k) \in DOMAIN files
      BY <1>0, <1>4, PathIs
    <2> QED
      BY <1>0, <1>3, <2>1, AllWritten
  <1>7. Complete(files, Layout, plan.buffered, kinds, step, source.version + step)
    BY <1>4, <1>5, <1>6 DEF Complete
  <1>8. CheckpointsOK'
    <2>1. DOMAIN ckpt' = 1..MaxSteps
      BY <1>0, <1>1 DEF CheckpointsOK
    <2>2. ASSUME NEW s \in 1..MaxSteps, ckpt'[s] # None
          PROVE  /\ ckpt'[s] = [files |-> ckpt'[s].files, version |-> source.version + s]
                 /\ Complete(ckpt'[s].files, Layout, plan.buffered, kinds, s, source.version + s)
      <3>1. CASE s = step
        <4>1. ckpt'[s] = [files |-> files, version |-> source.version + s]
          BY <1>0, <1>1, <1>4, <1>5, <3>1 DEF CheckpointsOK
        <4>2. ckpt'[s].files = files
          BY <4>1
        <4> QED
          BY <1>7, <3>1, <4>1, <4>2
      <3>2. CASE s # step
        <4>1. ckpt'[s] = ckpt[s]
          BY <1>0, <1>1, <3>2 DEF CheckpointsOK
        <4> QED
          BY <1>0, <2>2, <4>1 DEF CheckpointsOK, kinds
      <3> QED
        BY <3>1, <3>2
    <2> QED
      BY <1>1, <1>2, <2>1, <2>2 DEF CheckpointsOK, kinds
  <1>9. ASSUME NEW r \in Ranks PROVE RankOK(r)'
    <2>1. pc'[r] = "run" /\ st[r] = At(r, step)
      BY <1>0, <1>1 DEF RankOK, Running
    <2>2. At(r, step)' = At(r, step)
      BY <1>1, <1>2 DEF At
    <2> QED
      BY <1>1, <1>5, <2>1, <2>2 DEF RankOK, Running
  <1>10. PhaseOK' /\ SavingOK'
    <2>1. \A r \in Ranks : pc'[r] = "run"
      BY <1>1
    <2> QED
      BY <1>2, <2>1 DEF PhaseOK, SavingOK
  <1>11. DOMAIN pc' = Ranks' /\ DOMAIN st' = Ranks' /\ DOMAIN tmp' = 1..MaxSteps
    BY <1>0, <1>1, <1>2
  <1> QED
    BY <1>0, <1>1, <1>2, <1>8, <1>9, <1>10, <1>11 DEF ShardsInv

-----------------------------------------------------------------------------
(***************************************************************************)
(* The next job, and the next training.                                    *)
(***************************************************************************)
\* What holds of a job that has not begun.
LEMMA BegunIs ==
    ASSUME plan' \in Plans, pc' = [r \in Ranks' |-> "start"], st' = [r \in Ranks' |-> <<>>]
    PROVE  /\ DOMAIN pc' = Ranks' /\ DOMAIN st' = Ranks'
           /\ PhaseOK' /\ SavingOK' /\ \A r \in Ranks' : RankOK(r)'
  <1>1. \A r \in Ranks' : pc'[r] = "start"
    OBVIOUS
  <1>2. PhaseOK'
    BY <1>1 DEF PhaseOK
  <1>3. SavingOK'
    BY <1>1 DEF SavingOK
  <1>4. \A r \in Ranks' : RankOK(r)'
    BY <1>1 DEF RankOK, Running
  <1> QED
    BY <1>2, <1>3, <1>4

LEMMA KillStep ==
    ASSUME ShardsInv, Kill
    PROVE  ShardsInv'
  <1>0. plan \in Plans /\ DOMAIN tmp = 1..MaxSteps /\ SourceOK /\ CheckpointsOK /\ MaxSteps \in Nat
    BY SizeAssumption DEF ShardsInv
  <1>1. /\ plan' = plan /\ pc' = [r \in RanksOf(plan.layout) |-> "start"]
        /\ st' = [r \in RanksOf(plan.layout) |-> <<>>]
        /\ step' = 0 /\ UNCHANGED <<tmp, ckpt, source>>
    BY DEF Kill, Starting
  <1>2. SourceOK' /\ CheckpointsOK'
    BY <1>0, <1>1, Same
  <1>3. Ranks' = RanksOf(plan.layout)
    BY <1>1 DEF Ranks, Layout
  <1>4. step' \in 0..MaxSteps
    BY <1>0, <1>1
  <1>5. /\ DOMAIN pc' = Ranks' /\ DOMAIN st' = Ranks'
        /\ PhaseOK' /\ SavingOK' /\ \A r \in Ranks' : RankOK(r)'
    BY <1>0, <1>1, <1>3, BegunIs
  <1> QED
    BY <1>0, <1>1, <1>2, <1>4, <1>5 DEF ShardsInv

\* A checkpoint's model is that of its layout.
LEMMA ModelSaved ==
    ASSUME plan \in Plans, NEW kinds \in SUBSET Kinds, "model" \in kinds, NEW files, NEW s, NEW v,
           Complete(files, Layout, plan.buffered, kinds, s, v)
    PROVE  ModelFiles(Restrict(files, {f \in DOMAIN files : f[1] = "model"}), plan.buffered,
                      Layout.tp, Shards(Layout), v)
  <1> DEFINE n == Layout.tp
  <1> DEFINE d == Shards(Layout)
  <1> DEFINE b == plan.buffered
  <1> DEFINE S == {f \in DOMAIN files : f[1] = "model"}
  <1>0. Layout \in Layouts /\ Accepted(Layout) /\ Ranks = RanksOf(Layout)
    BY PlanIs
  <1>1. DOMAIN files = PathsOf(Layout, kinds)
    BY DEF Complete, Right
  <1>2. \A r \in Ranks, k \in kinds : PathFor(Layout, r, k)[1] = k
    BY PathIs DEF Kinds
  <1>3. S = {PathFor(Layout, r, "model") : r \in Ranks}
    BY <1>0, <1>1, <1>2 DEF PathsOf
  <1>4. \A r \in Ranks : /\ PathFor(Layout, r, "model") = <<"model", TpAt(Layout, r), SdpAt(Layout, r)>>
                         /\ TpAt(Layout, r) \in 0..(n - 1) /\ SdpAt(Layout, r) \in 0..(d - 1)
    BY PathIs, GangPlaces
  <1>5. \A x \in 0..(n - 1), j \in 0..(d - 1) : \E r \in Ranks : TpAt(Layout, r) = x /\ SdpAt(Layout, r) = j
    BY <1>0, Places
  <1> HIDE DEF n, d, S
  <1>6. S = ModelPaths(n, d)
    <2>1. S \subseteq ModelPaths(n, d)
      BY <1>3, <1>4 DEF ModelPaths
    <2>2. ASSUME NEW x \in 0..(n - 1), NEW j \in 0..(d - 1) PROVE <<"model", x, j>> \in S
      <3>1. PICK r \in Ranks : TpAt(Layout, r) = x /\ SdpAt(Layout, r) = j
        BY <1>5
      <3>2. PathFor(Layout, r, "model") = <<"model", x, j>>
        BY <1>4, <3>1
      <3> QED
        BY <1>3, <3>2
    <2>3. ModelPaths(n, d) \subseteq S
      BY <2>2 DEF ModelPaths
    <2> QED
      BY <2>1, <2>3
  <1> DEFINE g == Restrict(files, S)
  <1>7. DOMAIN g = S /\ \A f \in S : g[f] = files[f]
    BY DEF Restrict
  <1> HIDE DEF g
  <1>8. ASSUME NEW x \in 0..(n - 1), NEW j \in 0..(d - 1)
        PROVE  g[<<"model", x, j>>] = [p \in NamesOf(b) |-> PartOf(p, v, n, x, d, j)]
    <2>1. PICK r \in Ranks : TpAt(Layout, r) = x /\ SdpAt(Layout, r) = j
      BY <1>5
    <2>2. PathFor(Layout, r, "model") = <<"model", x, j>>
      BY <1>4, <2>1
    <2>3. PathFor(Layout, r, "model") \in S
      BY <1>3
    <2>4. PathFor(Layout, r, "model") \in DOMAIN files
      BY <2>3 DEF S
    <2>5. files[PathFor(Layout, r, "model")] = StateOf(Layout, b, s, v, r)["model"]
      BY <1>0, <2>4 DEF Complete, Right
    <2>6. StateOf(Layout, b, s, v, r)["model"] = [p \in NamesOf(b) |-> PartOf(p, v, n, x, d, j)]
      BY <2>1 DEF StateOf, ModelOf, n, d
    <2> QED
      BY <1>7, <2>2, <2>3, <2>5, <2>6
  <1> QED
    BY <1>6, <1>7, <1>8 DEF ModelFiles, g, n, d, S, b

LEMMA NextTrainingStep ==
    ASSUME ShardsInv, NextTraining
    PROVE  ShardsInv'
  <1> DEFINE last == Max(AnyCheckpoint)
  <1> DEFINE files == ckpt[last].files
  <1> DEFINE S == {f \in DOMAIN files : f[1] = "model"}
  <1>0. plan \in Plans /\ SourceOK /\ CheckpointsOK /\ MaxSteps \in Nat \ {0}
    BY SizeAssumption DEF ShardsInv
  <1>1. /\ step = MaxSteps /\ Saved /\ step' = 0
        /\ tmp' = NoCheckpoints /\ ckpt' = NoCheckpoints
        /\ source' = [ckpt[last] EXCEPT !.files = Restrict(files, S)]
    BY DEF NextTraining
  <1>2. PICK p \in Plans : p.buffered = plan.buffered /\ Starting(p)
    BY DEF NextTraining
  <1>3. /\ plan' = p /\ plan' \in Plans /\ plan'.buffered = plan.buffered
        /\ pc' = [r \in Ranks' |-> "start"] /\ st' = [r \in Ranks' |-> <<>>]
    BY <1>2 DEF Starting, Ranks, Layout
  <1>4. last \in AnyCheckpoint
    <2>1. AnyCheckpoint \in SUBSET (1..MaxSteps) /\ AnyCheckpoint # {}
      BY <1>0, <1>1 DEF Saved, AnyCheckpoint
    <2> QED
      BY <1>0, <2>1, MaxIs
  <1>5. /\ ckpt[last] = [files |-> files, version |-> source.version + last] /\ last \in 1..MaxSteps
        /\ Complete(files, Layout, plan.buffered, KindsOf(plan.modelOnly), last, source.version + last)
    BY <1>0, <1>4, CheckpointsAre
  <1>6. /\ source.version \in Nat /\ DivisibleBy(Layout.tp) /\ Layout.tp \in Nat \ {0}
        /\ Shards(Layout) \in Nat \ {0}
    BY <1>0, PlanIs, VersionIs
  <1> HIDE DEF last, files, S
  <1>7. source' = [files |-> Restrict(files, S), version |-> source.version + last]
    BY <1>1, <1>5
  <1>8. source.version + last \in Nat
    BY <1>0, <1>5, <1>6
  <1>9. ModelFiles(Restrict(files, S), plan.buffered, Layout.tp, Shards(Layout), source.version + last)
    <2>1. KindsOf(plan.modelOnly) \in SUBSET Kinds /\ "model" \in KindsOf(plan.modelOnly)
      BY DEF KindsOf, Kinds
    <2> QED
      BY <1>0, <1>5, <2>1, ModelSaved DEF S
  <1>10. SourceOK'
    <2>1. /\ source'.version = source.version + last /\ source'.files = Restrict(files, S)
      BY <1>7
    <2>2. source'.version \in Nat
      BY <1>8, <2>1
    <2>3. ModelFiles(source'.files, plan'.buffered, Layout.tp, Shards(Layout), source'.version)
      BY <1>3, <1>9, <2>1
    <2>4. \E n, d \in Nat \ {0} : DivisibleBy(n) /\ ModelFiles(source'.files, plan'.buffered, n, d, source'.version)
      BY <1>6, <2>3
    <2> QED
      BY <2>2, <2>4 DEF SourceOK, DivisibleBy, ModelFiles, NamesOf, PartOf, Mine
  <1>11. CheckpointsOK' /\ DOMAIN tmp' = 1..MaxSteps /\ step' \in 0..MaxSteps
    <2>1. DOMAIN NoCheckpoints = 1..MaxSteps /\ \A s \in 1..MaxSteps : NoCheckpoints[s] = None
      BY DEF NoCheckpoints
    <2>2. CheckpointsOK'
      BY <1>1, <2>1 DEF CheckpointsOK
    <2> QED
      BY <1>0, <1>1, <2>1, <2>2
  <1>12. /\ DOMAIN pc' = Ranks' /\ DOMAIN st' = Ranks'
         /\ PhaseOK' /\ SavingOK' /\ \A r \in Ranks' : RankOK(r)'
    BY <1>3, BegunIs
  <1> QED
    BY <1>3, <1>10, <1>11, <1>12 DEF ShardsInv

LEMMA NextShards ==
    ASSUME OnlyWhole, ShardsInv, [Next]_vars
    PROVE  ShardsInv'
  <1>1. ASSUME NEW r \in Ranks, Bootstrap(r) PROVE ShardsInv'
    BY <1>1, BootstrapStep
  <1>2. ASSUME NEW r \in Ranks, Restore(r) PROVE ShardsInv'
    BY <1>2, RestoreStep
  <1>3. ASSUME NEW r \in Ranks, WriteShards(r) PROVE ShardsInv'
    BY <1>3, WriteStep
  <1>4. ASSUME UNCHANGED vars PROVE ShardsInv'
    <2>1. UNCHANGED <<plan, pc, st, step, version, tmp, ckpt, source>>
      BY <1>4 DEF vars
    <2>2. /\ Layout' = Layout /\ Ranks' = Ranks /\ CheckpointsOK' = CheckpointsOK /\ SourceOK' = SourceOK
          /\ \A r : Gang(r)' = Gang(r)
      BY <2>1, Same
    <2>3. \A r \in Ranks : RankOK(r)'
      BY <2>1, RankSame DEF ShardsInv
    <2>4. PhaseOK' /\ SavingOK'
      BY <2>1, <2>2 DEF ShardsInv, PhaseOK, SavingOK, Writes, PathOf
    <2> QED
      BY <2>1, <2>2, <2>3, <2>4 DEF ShardsInv
  <1>5. CASE Ended
    BY <1>4, <1>5 DEF Ended
  <1> QED
    BY <1>1, <1>2, <1>3, <1>4, <1>5, WrapStep, BeginStep, TrainStep, BeginSaveStep, CommitStep, KillStep,
       NextTrainingStep DEF Next

-----------------------------------------------------------------------------
(***************************************************************************)
(* The property.                                                           *)
(***************************************************************************)
LEMMA InvExact ==
    ASSUME ShardsInv
    PROVE  ShardsExact
  <1>0. plan \in Plans /\ SourceOK /\ \A r \in Ranks : RankOK(r)
    BY DEF ShardsInv
  <1>1. Grid(Layout)
    BY <1>0, PlanIs, AcceptedLayoutsAreGrids
  <1>2. ASSUME NEW r \in Ranks, pc[r] \in Running PROVE st[r] = Expected(r)
    <2> DEFINE g == Gang(r)
    <2> DEFINE n == Layout.tp
    <2> DEFINE k == TpAt(Layout, r)
    <2> DEFINE d == Shards(Layout)
    <2> DEFINE j == SdpAt(Layout, r)
    <2> DEFINE E(p) == TpShard(p, Whole(p, version), g, r)
    <2>1. st[r] = StateOf(Layout, plan.buffered, step, version, r)
      BY <1>0, <1>2 DEF RankOK, At
    <2>2. /\ RankIn(g.tp, r) = k /\ RankIn(g.sdp, r) = j /\ RankIn(g.dp, r) = DpAt(Layout, r)
          /\ Len(g.sdp) = d /\ (Sharded(g) <=> d > 1) /\ Names = NamesOf(plan.buffered)
      BY <1>0, GangPlaces, PlanIs
    <2>3. \A p \in Names : E(p) = Mine(p, version, n, k)
      BY <1>0, JunkIs
    <2> HIDE DEF g, n, k, d, j, E
    <2>4. ASSUME NEW p \in Names
          PROVE  (IF Sharded(g) THEN SdpShard(p, E(p), g, r) ELSE E(p)) = PartOf(p, version, n, k, d, j)
      BY <2>2, <2>3 DEF SdpShard, PartOf
    <2>5. [p \in Names |-> IF Sharded(g) THEN SdpShard(p, E(p), g, r) ELSE E(p)] = ModelOf(Layout, plan.buffered, version, r)
      BY <2>2, <2>4 DEF ModelOf, n, k, d, j
    <2>6. Expected(r) = [trainer   |-> step,
                         model     |-> [p \in Names |-> IF Sharded(g) THEN SdpShard(p, E(p), g, r) ELSE E(p)],
                         optimizer |-> [tp |-> RankIn(g.tp, r), sdp |-> RankIn(g.sdp, r), steps |-> step],
                         reader    |-> [dp |-> RankIn(g.dp, r), read |-> step]]
      BY DEF Expected, E, g
    <2> QED
      BY <2>1, <2>2, <2>5, <2>6 DEF StateOf, k, j
  <1>3. \A r \in Ranks : pc[r] = "failed" => BufferRepeated
    BY <1>0 DEF RankOK
  <1> QED
    BY <1>1, <1>2, <1>3 DEF ShardsExact, Running

\* Every rank of a training holds exactly its part of the model, and of the rest of the
\* state, of one process that had trained it all: through resharding, restores, kills and
\* trainings of other layouts, if saves of the model only are of unsharded models.
THEOREM HistoriesKeepShards == ASSUME OnlyWhole PROVE Spec => []ShardsExact
  <1>1. Init => ShardsInv
    BY InitShards
  <1>2. ShardsInv /\ [Next]_vars => ShardsInv'
    BY NextShards
  <1>3. ShardsInv => ShardsExact
    BY InvExact
  <1> QED
    BY <1>1, <1>2, <1>3, PTL DEF Spec

-----------------------------------------------------------------------------
(***************************************************************************)
(* The forward pass: sums modulo Prime.                                    *)
(***************************************************************************)
\* What holds at 0, and at every number after one it holds at, holds up to n.
LEMMA Climb ==
    ASSUME NEW n \in Nat, NEW S, 0 \in S, \A i \in 0..(n - 1) : i \in S => i + 1 \in S
    PROVE  \A i \in 0..n : i \in S
  <1> DEFINE Bad == {i \in 0..n : i \notin S}
  <1>1. SUFFICES ASSUME Bad # {} PROVE FALSE
    OBVIOUS
  <1>2. PICK k \in Bad : \A m \in Bad : k <= m
    <2>1. Bad \in SUBSET Nat
      OBVIOUS
    <2> HIDE DEF Bad
    <2> QED
      BY <1>1, <2>1, LeastNatural
  <1>3. k \in 0..n /\ k \notin S /\ k # 0
    OBVIOUS
  <1>4. k - 1 \in 0..(n - 1) /\ k - 1 \in 0..n /\ (k - 1) + 1 = k /\ ~(k <= k - 1)
    BY <1>3
  <1>5. k - 1 \in S
    BY <1>2, <1>4
  <1> QED
    BY <1>3, <1>4, <1>5

\* f is the sums of the beginnings of s, modulo Prime.
Sums(s, n, f) ==
    /\ f \in [0..n -> Nat] /\ f[0] = 0
    /\ \A i \in 1..n : f[i] = (f[i - 1] + s[i]) % Prime

LEMMA SumsUpTo ==
    ASSUME NEW n \in Nat, NEW s \in [1..n -> Nat]
    PROVE  \E f : Sums(s, n, f)
  <1> DEFINE S == {k \in 0..n : \E f : Sums(s, k, f)}
  <1>1. 0 \in S
    <2> DEFINE f == [i \in 0..0 |-> 0]
    <2>1. f \in [0..0 -> Nat] /\ f[0] = 0 /\ \A i \in 1..0 : FALSE
      OBVIOUS
    <2> HIDE DEF f
    <2>2. Sums(s, 0, f)
      BY <2>1 DEF Sums
    <2> QED
      BY <2>2
  <1>2. ASSUME NEW k \in 0..(n - 1), k \in S PROVE k + 1 \in S
    <2>1. PICK f : Sums(s, k, f)
      BY <1>2
    <2>2. f \in [0..k -> Nat] /\ f[0] = 0 /\ \A i \in 1..k : f[i] = (f[i - 1] + s[i]) % Prime
      BY <2>1 DEF Sums
    <2> DEFINE g == [i \in 0..(k + 1) |-> IF i = k + 1 THEN (f[k] + s[k + 1]) % Prime ELSE f[i]]
    <2>3. f[k] \in Nat /\ s[k + 1] \in Nat /\ k \in Nat /\ k + 1 \in 0..n
      BY <2>2
    <2>4. (f[k] + s[k + 1]) % Prime \in Nat
      BY <2>3 DEF Prime
    <2>5. g \in [0..(k + 1) -> Nat] /\ g[0] = 0
      BY <2>2, <2>3, <2>4
    <2>6. \A i \in 1..(k + 1) : g[i] = (g[i - 1] + s[i]) % Prime
      <3> TAKE i \in 1..(k + 1)
      <3>1. i = k + 1 => i - 1 = k /\ g[i - 1] = f[k] /\ g[i] = (f[k] + s[k + 1]) % Prime
        BY <2>3
      <3>2. i # k + 1 => i \in 1..k /\ g[i] = f[i] /\ g[i - 1] = f[i - 1]
        BY <2>3
      <3> HIDE DEF g
      <3> QED
        BY <3>1, <3>2, <2>2
    <2> HIDE DEF g
    <2>7. Sums(s, k + 1, g)
      BY <2>5, <2>6 DEF Sums
    <2> QED
      BY <2>3, <2>7
  <1> HIDE DEF S
  <1>3. n \in S
    <2>1. \A i \in 0..n : i \in S
      BY <1>1, <1>2, Climb
    <2> QED
      BY <2>1
  <1> QED
    BY <1>3 DEF S

LEMMA SumsAgree ==
    ASSUME NEW n \in Nat, NEW s, NEW f, NEW g, Sums(s, n, f), Sums(s, n, g)
    PROVE  \A i \in 0..n : f[i] = g[i]
  <1> DEFINE S == {i \in 0..n : f[i] = g[i]}
  <1>0. /\ f[0] = 0 /\ g[0] = 0
        /\ \A i \in 1..n : f[i] = (f[i - 1] + s[i]) % Prime /\ g[i] = (g[i - 1] + s[i]) % Prime
    BY DEF Sums
  <1>1. 0 \in S
    BY <1>0
  <1>2. \A i \in 0..(n - 1) : i \in S => i + 1 \in S
    <2> SUFFICES ASSUME NEW i \in 0..(n - 1), f[i] = g[i] PROVE i + 1 \in S
      OBVIOUS
    <2>1. i + 1 \in 1..n /\ (i + 1) - 1 = i /\ i + 1 \in 0..n
      OBVIOUS
    <2>2. f[i + 1] = (f[i] + s[i + 1]) % Prime /\ g[i + 1] = (g[i] + s[i + 1]) % Prime
      BY <1>0, <2>1
    <2> QED
      BY <2>1, <2>2
  <1>3. \A i \in 0..n : i \in S
    <2> HIDE DEF S
    <2> QED
      BY <1>1, <1>2, Climb
  <1> QED
    BY <1>3

LEMMA SumIs ==
    ASSUME NEW n \in Nat, NEW s \in [1..n -> Nat]
    PROVE  \E f : Sums(s, n, f) /\ Sum(s) = f[n]
  <1>0. Len(s) = n
    BY AsSeq
  <1> DEFINE F == CHOOSE f : f = [i \in 0..Len(s) |-> IF i = 0 THEN 0 ELSE (f[i - 1] + s[i]) % Prime]
  <1>1. PICK f : Sums(s, n, f)
    BY SumsUpTo
  <1>2. f \in [0..n -> Nat] /\ f[0] = 0 /\ \A i \in 1..n : f[i] = (f[i - 1] + s[i]) % Prime
    BY <1>1 DEF Sums
  <1>3. f = [i \in 0..Len(s) |-> IF i = 0 THEN 0 ELSE (f[i - 1] + s[i]) % Prime]
    <2>1. f = [i \in 0..n |-> f[i]]
      BY <1>2
    <2>2. \A i \in 0..n : f[i] = IF i = 0 THEN 0 ELSE (f[i - 1] + s[i]) % Prime
      BY <1>2
    <2> QED
      BY <1>0, <2>1, <2>2
  <1>4. F = [i \in 0..Len(s) |-> IF i = 0 THEN 0 ELSE (F[i - 1] + s[i]) % Prime]
    <2>1. \E h : h = [i \in 0..Len(s) |-> IF i = 0 THEN 0 ELSE (h[i - 1] + s[i]) % Prime]
      BY <1>3
    <2> QED
      BY <2>1
  <1>5. Sum(s) = F[n]
    BY <1>0 DEF Sum, SumUpTo
  <1> HIDE DEF F
  <1>6. DOMAIN F = 0..n /\ \A i \in 0..n : F[i] = IF i = 0 THEN 0 ELSE (F[i - 1] + s[i]) % Prime
    BY <1>0, <1>4
  <1> DEFINE S == {i \in 0..n : F[i] = f[i]}
  <1>7. 0 \in S
    BY <1>2, <1>6
  <1>8. \A i \in 0..(n - 1) : i \in S => i + 1 \in S
    <2> SUFFICES ASSUME NEW i \in 0..(n - 1), F[i] = f[i] PROVE i + 1 \in S
      OBVIOUS
    <2>1. i + 1 \in 1..n /\ (i + 1) - 1 = i /\ i + 1 \in 0..n /\ i + 1 # 0
      OBVIOUS
    <2>2. F[i + 1] = (F[i] + s[i + 1]) % Prime /\ f[i + 1] = (f[i] + s[i + 1]) % Prime
      BY <1>2, <1>6, <2>1
    <2> QED
      BY <2>1, <2>2
  <1>9. n \in S
    <2> HIDE DEF S
    <2>1. \A i \in 0..n : i \in S
      BY <1>7, <1>8, Climb
    <2> QED
      BY <2>1
  <1> QED
    BY <1>1, <1>5, <1>9

LEMMA SumAt ==
    ASSUME NEW n \in Nat, NEW s \in [1..n -> Nat], NEW f, Sums(s, n, f)
    PROVE  Sum(s) = f[n]
  <1>1. PICK g : Sums(s, n, g) /\ Sum(s) = g[n]
    BY SumIs
  <1>2. n \in 0..n
    OBVIOUS
  <1> QED
    BY <1>1, <1>2, SumsAgree

\* One number that is not zero.
LEMMA SumOfOne ==
    ASSUME NEW n \in Nat, NEW s \in [1..n -> Nat], NEW k \in 1..n, \A i \in 1..n : i # k => s[i] = 0
    PROVE  Sum(s) = s[k] % Prime
  <1> DEFINE a == s[k] % Prime
  <1>0. s[k] \in Nat /\ a \in Nat /\ a % Prime = a /\ (0 + s[k]) % Prime = a /\ (0 + 0) % Prime = 0
        /\ (a + 0) % Prime = a
    BY DEF Prime
  <1> DEFINE f == [i \in 0..n |-> IF i < k THEN 0 ELSE a]
  <1>1. f \in [0..n -> Nat] /\ f[0] = 0 /\ f[n] = a /\ \A i \in 0..n : f[i] = IF i < k THEN 0 ELSE a
    BY <1>0
  <1> HIDE DEF f, a
  <1>2. \A i \in 1..n : f[i] = (f[i - 1] + s[i]) % Prime
    <2> TAKE i \in 1..n
    <2>0. i - 1 \in 0..n /\ i \in 0..n
      OBVIOUS
    <2>1. CASE i < k
      <3>1. f[i] = 0 /\ f[i - 1] = 0 /\ s[i] = 0
        BY <1>1, <2>0, <2>1
      <3> QED
        BY <1>0, <3>1
    <2>2. CASE i = k
      <3>1. f[i] = a /\ f[i - 1] = 0
        BY <1>1, <2>0, <2>2
      <3> QED
        BY <1>0, <2>2, <3>1
    <2>3. CASE i > k
      <3>1. f[i] = a /\ f[i - 1] = a /\ s[i] = 0
        BY <1>1, <2>0, <2>3
      <3> QED
        BY <1>0, <3>1
    <2> QED
      BY <2>1, <2>2, <2>3
  <1>3. Sums(s, n, f)
    BY <1>1, <1>2 DEF Sums
  <1> QED
    BY <1>1, <1>3, SumAt DEF a

\* t is the sums of the n pieces of s that are of length h.
PieceSums(t, s, n, h) ==
    /\ DOMAIN t = 1..n /\ t = [k \in 1..n |-> t[k]]
    /\ \A k \in 1..n : \E x \in [1..h -> Nat] :
           t[k] = Sum(x) /\ \A j \in 1..h : x[j] = s[(k - 1) * h + j]

\* The sums of the pieces of a sequence add up to its sum.
LEMMA SumOfPieces ==
    ASSUME NEW n \in Nat \ {0}, NEW h \in Nat \ {0}, NEW m, m = n * h, NEW s, s \in [1..m -> Nat],
           NEW t, PieceSums(t, s, n, h)
    PROVE  t \in [1..n -> Nat] /\ Sum(t) = Sum(s)
  <1>0. m \in Nat
    OBVIOUS
  <1>a. /\ DOMAIN t = 1..n /\ t = [k \in 1..n |-> t[k]]
        /\ \A k \in 1..n : \E x \in [1..h -> Nat] :
              t[k] = Sum(x) /\ \A j \in 1..h : x[j] = s[(k - 1) * h + j]
    BY DEF PieceSums
  <1>1. PICK F : Sums(s, m, F) /\ Sum(s) = F[m]
    BY <1>0, SumIs
  <1>2. /\ F \in [0..m -> Nat] /\ F[0] = 0
        /\ \A i \in 1..m : F[i] = (F[i - 1] + s[i]) % Prime
    BY <1>1 DEF Sums
  <1>3. ASSUME NEW k \in 1..n
        PROVE  /\ t[k] \in Nat /\ (k - 1) * h \in 0..m /\ k * h \in 0..m
               /\ F[k * h] = (F[(k - 1) * h] + t[k]) % Prime
    <2>1. PICK x \in [1..h -> Nat] : t[k] = Sum(x) /\ \A j \in 1..h : x[j] = s[(k - 1) * h + j]
      BY <1>a
    <2>2. PICK g : Sums(x, h, g) /\ Sum(x) = g[h]
      BY SumIs
    <2>3. g \in [0..h -> Nat] /\ g[0] = 0 /\ \A j \in 1..h : g[j] = (g[j - 1] + x[j]) % Prime
      BY <2>2 DEF Sums
    <2>4. PICK o \in Nat : o = (k - 1) * h
      OBVIOUS
    <2>5. o + h = k * h /\ o + h <= m
      <3>1. o + h = k * h
        BY <2>4
      <3>2. k * h <= n * h
        OBVIOUS
      <3> QED
        BY <3>1, <3>2
    <2> DEFINE S == {j \in 0..h : F[o + j] = (F[o] + g[j]) % Prime}
    <2>6. 0 \in S
      <3>1. F[o] \in Nat /\ F[o] % Prime = F[o]
        <4>1. CASE o = 0
          BY <4>1, <1>2 DEF Prime
        <4>2. CASE o # 0
          <5>1. o \in 1..m /\ o - 1 \in 0..m
            BY <4>2, <2>5, <1>0
          <5>2. F[o] = (F[o - 1] + s[o]) % Prime /\ F[o - 1] \in Nat /\ s[o] \in Nat
            BY <5>1, <1>2
          <5> QED
            BY <5>2 DEF Prime
        <4> QED
          BY <4>1, <4>2
      <3>2. o + 0 = o /\ F[o] + 0 = F[o]
        BY <3>1
      <3> QED
        BY <2>3, <3>1, <3>2
    <2>7. \A j \in 0..(h - 1) : j \in S => j + 1 \in S
      <3> SUFFICES ASSUME NEW j \in 0..(h - 1), F[o + j] = (F[o] + g[j]) % Prime PROVE j + 1 \in S
        OBVIOUS
      <3>1. j + 1 \in 1..h /\ (j + 1) - 1 = j /\ o + j + 1 \in 1..m /\ (o + j + 1) - 1 = o + j
            /\ o + (j + 1) = o + j + 1 /\ j + 1 \in 0..h /\ o \in 0..m /\ j \in 0..h
        <4>1. /\ o \in Nat /\ m \in Nat /\ h \in Nat /\ o + h <= m
              /\ j \in Nat /\ j + 1 <= h
          BY <2>4, <2>5, <1>0
        <4> QED
          BY ONLY <4>1
      <3>2. F[o + j + 1] = (F[o + j] + s[o + j + 1]) % Prime /\ g[j + 1] = (g[j] + x[j + 1]) % Prime
        BY <3>1, <1>2, <2>3
      <3>3. x[j + 1] = s[o + j + 1] /\ x[j + 1] \in Nat /\ F[o] \in Nat /\ g[j] \in Nat
        BY <3>1, <2>1, <2>3, <2>4, <1>2
      <3>4. (F[o] + g[j + 1]) % Prime = (((F[o] + g[j]) % Prime) + x[j + 1]) % Prime
        <4>1. PICK a \in Nat, b \in Nat, c \in Nat : a = F[o] /\ b = g[j] /\ c = x[j + 1]
          BY <3>3
        <4>2. g[j + 1] = (b + c) % Prime
          BY <3>2, <4>1
        <4>a. PICK d : d = g[j + 1]
          OBVIOUS
        <4>3. (a + d) % Prime = (((a + b) % Prime) + c) % Prime
          <5>1. d = (b + c) % Prime
            BY <4>2, <4>a
          <5> QED
            BY ONLY <5>1, a \in Nat, b \in Nat, c \in Nat DEF Prime
        <4> QED
          BY <4>1, <4>a, <4>3
      <3> QED
        BY <3>1, <3>2, <3>3, <3>4
    <2>8. h \in S
      <3> HIDE DEF S
      <3>1. \A j \in 0..h : j \in S
        BY <2>6, <2>7, Climb
      <3> QED
        BY <3>1
    <2>9. F[k * h] = (F[o] + t[k]) % Prime /\ t[k] \in Nat
      <3>1. h \in 0..h /\ g[h] \in Nat
        BY <2>3
      <3>2. t[k] = g[h]
        BY <2>1, <2>2
      <3>3. F[o + h] = (F[o] + g[h]) % Prime
        BY <2>8
      <3> QED
        BY ONLY <2>5, <3>1, <3>2, <3>3
    <2> QED
      BY <2>4, <2>5, <2>9, <1>0
  <1>4. t \in [1..n -> Nat]
    BY <1>a, <1>3
  <1> DEFINE G == [k \in 0..n |-> F[k * h]]
  <1>5. Sums(t, n, G)
    <2>1. 0 * h = 0 /\ n \in Nat /\ 0 \in 0..n
      OBVIOUS
    <2>2. \A k \in 0..n : k * h \in 0..m
      BY <1>0, <1>3, <2>1
    <2>3. G \in [0..n -> Nat] /\ G[0] = 0
      BY <1>2, <2>1, <2>2
    <2>4. \A k \in 1..n : G[k] = (G[k - 1] + t[k]) % Prime
      <3> TAKE k \in 1..n
      <3>1. k \in 0..n /\ k - 1 \in 0..n
        OBVIOUS
      <3> QED
        BY <1>3, <3>1
    <2> HIDE DEF G
    <2> QED
      BY <2>3, <2>4 DEF Sums
  <1>6. G[n] = F[m]
    OBVIOUS
  <1> HIDE DEF G
  <1> QED
    BY <1>1, <1>4, <1>5, <1>6, SumAt

LEMMA Offsets ==
    ASSUME NEW n \in Nat \ {0}, NEW h \in Nat \ {0}, NEW m, m = n * h, NEW k \in 1..n,
           NEW o, o = (k - 1) * h
    PROVE  /\ m \in Nat \ {0} /\ o \in Nat /\ o + h <= m /\ o + h = k * h
           /\ \A j \in 1..h : o + j \in 1..m
  <1>1. o + h = k * h /\ o \in Nat
    OBVIOUS
  <1>2. k * h <= n * h
    OBVIOUS
  <1>3. m \in Nat /\ o + h <= m
    BY <1>1, <1>2
  <1>4. /\ m \in Nat /\ o \in Nat /\ h \in Nat \ {0} /\ o + h <= m
    BY <1>1, <1>3
  <1>5. m # 0 /\ \A j \in 1..h : o + j \in 1..m
    BY ONLY <1>4
  <1> QED
    BY <1>1, <1>4, <1>5

LEMMA SliceAt ==
    ASSUME NEW V, NEW w \in Seq(V), NEW o \in Nat, NEW h \in Nat, o + h <= Len(w)
    PROVE  /\ Slice(w, o, h) \in Seq(V) /\ Slice(w, o, h) \in [1..h -> V]
           /\ DOMAIN Slice(w, o, h) = 1..h /\ Len(Slice(w, o, h)) = h
           /\ \A j \in 1..h : Slice(w, o, h)[j] = w[o + j]
  <1> DEFINE u == SubSeq(w, o + 1, o + h)
  <1>1. u \in Seq(V) /\ Len(u) = h /\ \A j \in 1..h : u[j] = w[o + j]
    OBVIOUS
  <1> HIDE DEF u
  <1>2. DOMAIN u = 1..h /\ u \in [1..h -> V]
    BY <1>1
  <1> QED
    BY <1>1, <1>2 DEF Slice, u

\* Slices of equal length join.
LEMMA SlicesJoin ==
    ASSUME NEW V, NEW w \in Seq(V), NEW n \in Nat \ {0}, NEW h \in Nat \ {0}, Len(w) = n * h,
           NEW s, Len(s) = n, \A k \in 1..n : s[k] = Slice(w, (k - 1) * h, h)
    PROVE  FlattenSeq(s) = w
  <1> DEFINE c == [i \in 0..n |-> i * h]
  <1>1. \A i \in 0..n : i * h \in Nat /\ i * h <= n * h
    OBVIOUS
  <1>2. c \in [0..n -> 0..Len(w)]
    <2>1. \A i \in 0..n : i * h \in 0..Len(w)
      BY <1>1
    <2> QED
      BY <2>1
  <1>3. c[0] = 0 /\ c[n] = Len(w)
    OBVIOUS
  <1>4. ASSUME NEW i \in 1..n
        PROVE  c[i - 1] <= c[i] /\ s[i] = SubSeq(w, c[i - 1] + 1, c[i])
    <2>1. c[i - 1] = (i - 1) * h /\ c[i] = i * h
      OBVIOUS
    <2>2. (i - 1) * h + h = i * h /\ (i - 1) * h \in Nat
      OBVIOUS
    <2>3. s[i] = SubSeq(w, (i - 1) * h + 1, (i - 1) * h + h)
      BY DEF Slice
    <2> HIDE DEF c
    <2> QED
      BY <2>1, <2>2, <2>3
  <1> HIDE DEF c
  <1> QED
    BY <1>2, <1>3, <1>4, Pieces

-----------------------------------------------------------------------------
(***************************************************************************)
(* The forward pass of modules that are split n ways.                      *)
(***************************************************************************)
WholeModel(w) ==
    /\ Regular(w.vocab, Nat, Vocab, Dim) /\ Regular(w.slice, Nat, Vocab, Dim)
    /\ Regular(w.in, Nat, Inner, Dim) /\ Regular(w.inBias, Nat, Inner, 1)
    /\ Regular(w.out, Nat, Outer, Inner) /\ Regular(w.outBias, Nat, Outer, 1)

\* Its rows, or the columns of its rows.
RowsFrom(u, w, o, h) == DOMAIN u = 1..h /\ Len(u) = h /\ \A i \in 1..h : u[i] = w[o + i]
ColsFrom(u, w, o, h) == DOMAIN u = DOMAIN w /\ \A i \in DOMAIN w : u[i] = Slice(w[i], o, h)

SplitInto(ms, w, n) ==
    /\ DOMAIN ms = 1..n /\ Len(ms) = n
    /\ \A k \in 1..n :
          /\ RowsFrom(ms[k].vocab, w.vocab, (k - 1) * Quotient(Vocab, n), Quotient(Vocab, n))
          /\ ColsFrom(ms[k].slice, w.slice, (k - 1) * Quotient(Dim, n), Quotient(Dim, n))
          /\ RowsFrom(ms[k].in, w.in, (k - 1) * Quotient(Inner, n), Quotient(Inner, n))
          /\ RowsFrom(ms[k].inBias, w.inBias, (k - 1) * Quotient(Inner, n), Quotient(Inner, n))
          /\ ColsFrom(ms[k].out, w.out, (k - 1) * Quotient(Inner, n), Quotient(Inner, n))
          /\ ms[k].outBias = w.outBias

\* What undivided modules compute.
EmbeddingOf(w, token) ==
    [j \in 1..Dim |-> ((w.vocab[token + 1][j] % Prime) + w.slice[token + 1][j]) % Prime]
HiddenOf(w, x) == Plus(Linear(w.in, x), Bias(w.inBias))
ResultOf(w, y) == Plus(Linear(w.out, y), Bias(w.outBias))

LEMMA QuotientIs ==
    ASSUME NEW n \in Nat \ {0}, DivisibleBy(n), NEW a \in {Vocab, Dim, Inner}, NEW h, h = Quotient(a, n)
    PROVE  a \in Nat \ {0} /\ h \in Nat \ {0} /\ a = n * h
  <1>1. a \in Nat \ {0} /\ a % n = 0
    BY SizeAssumption DEF DivisibleBy
  <1> QED
    BY <1>1, Quotients DEF Quotient

LEMMA EmbedHereIs ==
    ASSUME NEW n \in Nat \ {0}, DivisibleBy(n), NEW h, h = Quotient(Vocab, n), NEW k \in 1..n,
           NEW t, NEW u, Regular(t, Nat, Vocab, Dim), RowsFrom(u, t, (k - 1) * h, h),
           NEW token \in 0..(Vocab - 1)
    PROVE  EmbedHere(u, k - 1, token) = IF Quotient(token, h) = k - 1 THEN t[token + 1] ELSE [j \in 1..Dim |-> 0]
  <1>0. Vocab \in Nat \ {0} /\ h \in Nat \ {0} /\ Vocab = n * h
    BY QuotientIs
  <1>1. Len(u) = h /\ \A i \in 1..h : u[i] = t[(k - 1) * h + i]
    BY DEF RowsFrom
  <1>2. PICK q \in Nat, x \in 0..(h - 1) : token = q * h + x /\ Quotient(token, h) = q
    <2>1. token \in Nat
      BY <1>0
    <2> QED
      BY <1>0, <2>1, Composes
  <1>3. PICK o \in Nat : o = (k - 1) * h /\ k * h = o + h
    BY <1>0, Offsets
  <1>4. CASE q = k - 1
    <2>1. token = o + x
      BY <1>2, <1>3, <1>4
    <2>2. ~(token < o \/ token >= o + h)
      BY <1>0, <1>3, <2>1
    <2>3. token - o + 1 \in 1..h /\ o + (token - o + 1) = token + 1
      BY <1>0, <1>3, <2>1
    <2>4. u[token - o + 1] = t[token + 1]
      BY <1>1, <1>3, <2>3
    <2>5. EmbedHere(u, k - 1, token) = u[token - o + 1]
      <3>1. (k - 1 + 1) * h = o + h
        BY <1>3
      <3> QED
        BY <1>1, <1>3, <2>2, <3>1 DEF EmbedHere
    <2> QED
      BY <1>2, <1>4, <2>4, <2>5
  <1>5. CASE q # k - 1
    <2>1. token < o \/ token >= o + h
      <3>1. CASE q < k - 1
        <4>1. (q + 1) * h <= (k - 1) * h
          BY <1>0, <3>1
        <4>2. PICK z \in Nat : z = q * h /\ (q + 1) * h = z + h
          BY <1>0
        <4>3. z + h <= o /\ token = z + x /\ h \in Nat
          BY <1>0, <1>2, <1>3, <4>1, <4>2
        <4>4. token < o
          BY ONLY <4>3, z \in Nat, o \in Nat, x \in 0..(h - 1)
        <4> QED
          BY <4>4
      <3>2. CASE q > k - 1
        <4>1. k * h <= q * h
          BY <1>0, <3>2
        <4>2. PICK z \in Nat : z = q * h
          BY <1>0
        <4>3. o + h <= z /\ token = z + x /\ h \in Nat
          BY <1>0, <1>2, <1>3, <4>1, <4>2
        <4>4. token >= o + h
          BY ONLY <4>3, z \in Nat, o \in Nat, x \in 0..(h - 1)
        <4> QED
          BY <4>4
      <3> QED
        BY <1>5, <3>1, <3>2
    <2>2. (k - 1 + 1) * h = o + h
      BY <1>3
    <2>3. EmbedHere(u, k - 1, token) = [j \in 1..Dim |-> 0]
      BY <1>1, <1>3, <2>1, <2>2 DEF EmbedHere
    <2> QED
      BY <1>2, <1>5, <2>3
  <1> QED
    BY <1>4, <1>5

LEMMA EmbeddingIs ==
    ASSUME NEW n \in Nat \ {0}, DivisibleBy(n), NEW w, WholeModel(w), NEW ms, SplitInto(ms, w, n),
           NEW token \in 0..(Vocab - 1)
    PROVE  /\ Plus(Reduce([k \in 1..n |-> EmbedHere(ms[k].vocab, k - 1, token)]),
                   Gather([k \in 1..n |-> ms[k].slice[token + 1]])) = EmbeddingOf(w, token)
           /\ EmbeddingOf(w, token) \in [1..Dim -> Nat]
  <1> DEFINE t == w.vocab
  <1> DEFINE s == w.slice
  <1> DEFINE xs == [k \in 1..n |-> EmbedHere(ms[k].vocab, k - 1, token)]
  <1> DEFINE ys == [k \in 1..n |-> ms[k].slice[token + 1]]
  <1>0. PICK h \in Nat \ {0} : h = Quotient(Vocab, n) /\ Vocab \in Nat \ {0} /\ Vocab = n * h
    BY QuotientIs
  <1>1. PICK i \in Nat \ {0} : i = Quotient(Dim, n) /\ Dim \in Nat \ {0} /\ Dim = n * i
    BY QuotientIs
  <1>2. token + 1 \in 1..Vocab /\ token \in Nat
    BY <1>0
  <1>3. /\ t[token + 1] \in Seq(Nat) /\ Len(t[token + 1]) = Dim /\ DOMAIN t[token + 1] = 1..Dim
        /\ s[token + 1] \in Seq(Nat) /\ Len(s[token + 1]) = Dim /\ DOMAIN s[token + 1] = 1..Dim
        /\ DOMAIN s = 1..Vocab
    BY <1>2 DEF WholeModel, Regular
  <1>4. \A j \in 1..Dim : t[token + 1][j] \in Nat /\ s[token + 1][j] \in Nat
    <2>1. \A u \in Seq(Nat) : Len(u) = Dim => \A j \in 1..Dim : u[j] \in Nat
      OBVIOUS
    <2> HIDE DEF s, t
    <2> QED
      BY <1>3, <2>1
  <1>5. Quotient(token, h) \in Nat /\ Quotient(token, h) + 1 \in 1..n
    <2>1. Quotient(token, h) \in 0..(n - 1)
      <3>1. token \in 0..(n * h - 1)
        BY <1>0
      <3> QED
        BY <1>0, <3>1, PartsBelow DEF Quotient
    <2> HIDE DEF t, s
    <2> QED
      BY <2>1
  <1>6. PICK q \in 1..n : q - 1 = Quotient(token, h)
    BY <1>5
  <1>7. \A k \in 1..n : xs[k] = IF k = q THEN t[token + 1] ELSE [j \in 1..Dim |-> 0]
    <2> SUFFICES ASSUME NEW k \in 1..n
                 PROVE  EmbedHere(ms[k].vocab, k - 1, token) = IF k = q THEN t[token + 1] ELSE [j \in 1..Dim |-> 0]
      OBVIOUS
    <2>1. PICK u : u = ms[k].vocab
      OBVIOUS
    <2>2. Regular(t, Nat, Vocab, Dim) /\ RowsFrom(u, t, (k - 1) * h, h)
      BY <1>0, <2>1 DEF WholeModel, SplitInto
    <2>3. EmbedHere(u, k - 1, token) = IF Quotient(token, h) = k - 1 THEN t[token + 1] ELSE [j \in 1..Dim |-> 0]
      <3> HIDE DEF t
      <3> QED
        BY <1>0, <2>2, EmbedHereIs
    <2>4. Quotient(token, h) = k - 1 <=> k = q
      BY <1>5, <1>6
    <2> QED
      BY <2>1, <2>3, <2>4
  <1>8. \A k \in 1..n : \A j \in 1..Dim : xs[k][j] = IF k = q THEN t[token + 1][j] ELSE 0
    <2> HIDE DEF xs, t
    <2> QED
      BY <1>7
  <1>9. DOMAIN xs = 1..n /\ DOMAIN xs[1] = 1..Dim
    <2>1. DOMAIN xs = 1..n /\ 1 \in 1..n
      OBVIOUS
    <2> HIDE DEF xs, t
    <2>2. 1 = q => DOMAIN xs[1] = 1..Dim
      BY <1>3, <1>7, <2>1 DEF t
    <2>3. 1 # q => DOMAIN xs[1] = 1..Dim
      BY <1>7, <2>1
    <2> QED
      BY <2>1, <2>2, <2>3
  <1>10. \A j \in 1..Dim : Sum([k \in 1..n |-> xs[k][j]]) = t[token + 1][j] % Prime
    <2> TAKE j \in 1..Dim
    <2>1. PICK a \in Nat : a = t[token + 1][j]
      BY <1>4
    <2>2. PICK f : f = [k \in 1..n |-> xs[k][j]]
      OBVIOUS
    <2>3. \A k \in 1..n : f[k] = IF k = q THEN a ELSE 0
      <3> HIDE DEF xs, t
      <3> QED
        BY <1>8, <2>1, <2>2
    <2>4. f \in [1..n -> Nat]
      <3>1. DOMAIN f = 1..n /\ f = [k \in 1..n |-> f[k]]
        <4> HIDE DEF xs
        <4> QED
          BY <2>2
      <3> QED
        BY <2>3, <3>1
    <2>5. Sum(f) = f[q] % Prime /\ f[q] = a
      BY <2>3, <2>4, SumOfOne
    <2> QED
      BY <2>1, <2>2, <2>5
  <1>11. Reduce(xs) = [j \in 1..Dim |-> t[token + 1][j] % Prime]
    <2>1. Reduce(xs) = [j \in 1..Dim |-> Sum([k \in 1..n |-> xs[k][j]])]
      <3> HIDE DEF xs
      <3> QED
        BY <1>9 DEF Reduce
    <2> HIDE DEF xs, t
    <2> QED
      BY <1>10, <2>1
  <1>12. Gather(ys) = s[token + 1]
    <2>1. Len(ys) = n
      <3>1. DOMAIN ys = 1..n /\ ys = [k \in 1..n |-> ys[k]]
        OBVIOUS
      <3> HIDE DEF ys
      <3> QED
        BY <3>1, LenOf
    <2>2. \A k \in 1..n : ys[k] = Slice(s[token + 1], (k - 1) * i, i)
      <3> TAKE k \in 1..n
      <3>1. ColsFrom(ms[k].slice, s, (k - 1) * i, i)
        BY <1>1 DEF SplitInto
      <3> QED
        BY <1>2, <1>3, <3>1 DEF ColsFrom
    <2>3. PICK u \in Seq(Nat) : u = s[token + 1] /\ Len(u) = n * i
      BY <1>1, <1>3
    <2>4. PICK f : f = ys
      OBVIOUS
    <2>5. Len(f) = n /\ \A k \in 1..n : f[k] = Slice(u, (k - 1) * i, i)
      <3> HIDE DEF ys, s
      <3> QED
        BY <2>1, <2>2, <2>3, <2>4
    <2>6. FlattenSeq(f) = u
      BY ONLY SlicesJoin, <2>3, <2>5, n \in Nat \ {0}, i \in Nat \ {0}, u \in Seq(Nat)
    <2> HIDE DEF ys, s
    <2> QED
      BY <2>3, <2>4, <2>6 DEF Gather
  <1>13. Plus(Reduce(xs), Gather(ys)) = EmbeddingOf(w, token)
    <2> DEFINE e == [j \in 1..Dim |-> t[token + 1][j] % Prime]
    <2>1. Plus(e, s[token + 1]) = [j \in 1..Dim |-> (e[j] + s[token + 1][j]) % Prime]
      BY DEF Plus
    <2>2. \A j \in 1..Dim : e[j] = t[token + 1][j] % Prime
      OBVIOUS
    <2>3. EmbeddingOf(w, token) = [j \in 1..Dim |-> (e[j] + s[token + 1][j]) % Prime]
      BY <2>2 DEF EmbeddingOf
    <2>4. Reduce(xs) = e
      BY <1>11
    <2> HIDE DEF e, xs, ys, s, t
    <2> QED
      BY <1>12, <2>1, <2>3, <2>4
  <1>14. EmbeddingOf(w, token) \in [1..Dim -> Nat]
    <2>1. \A j \in 1..Dim : ((w.vocab[token + 1][j] % Prime) + w.slice[token + 1][j]) % Prime \in Nat
      <3> TAKE j \in 1..Dim
      <3>1. PICK a \in Nat, b \in Nat : a = w.vocab[token + 1][j] /\ b = w.slice[token + 1][j]
        BY <1>4
      <3>2. ((a % Prime) + b) % Prime \in Nat
        BY DEF Prime
      <3> QED
        BY <3>1, <3>2
    <2> QED
      BY <2>1 DEF EmbeddingOf
  <1> QED
    BY <1>13, <1>14
Products(a, b, m) == [j \in 1..m |-> (a[j] * b[j]) % Prime]

LEMMA ProductsAre ==
    ASSUME NEW m \in Nat, NEW a, NEW b, \A j \in 1..m : a[j] \in Nat /\ b[j] \in Nat
    PROVE  Products(a, b, m) \in [1..m -> Nat] /\ Sum(Products(a, b, m)) \in Nat
  <1>1. \A y \in Nat, z \in Nat : (y * z) % Prime \in Nat
    <2> TAKE y \in Nat, z \in Nat
    <2>1. PICK p \in Nat : p = y * z
      OBVIOUS
    <2> QED
      BY <2>1 DEF Prime
  <1>2. Products(a, b, m) \in [1..m -> Nat]
    BY <1>1 DEF Products
  <1>3. PICK s \in [1..m -> Nat] : s = Products(a, b, m)
    BY <1>2
  <1>4. PICK f : Sums(s, m, f) /\ Sum(s) = f[m]
    BY SumIs
  <1>5. f[m] \in Nat
    BY <1>4 DEF Sums
  <1> QED
    BY <1>2, <1>3, <1>4, <1>5

LEMMA LinearIs ==
    ASSUME NEW t, NEW x, NEW m \in Nat, NEW r \in Nat, DOMAIN t = 1..r, DOMAIN x = 1..m
    PROVE  /\ DOMAIN Linear(t, x) = 1..r
           /\ \A i \in 1..r : Linear(t, x)[i] = Sum(Products(t[i], x, m))
  BY DEF Linear, Products

LEMMA PlusIs ==
    ASSUME NEW f, NEW g, NEW r \in Nat, DOMAIN f = 1..r
    PROVE  /\ DOMAIN Plus(f, g) = 1..r /\ Plus(f, g) = [i \in 1..r |-> Plus(f, g)[i]]
           /\ \A i \in 1..r : Plus(f, g)[i] = (f[i] + g[i]) % Prime
  BY DEF Plus

\* A linear layer with a bias.
Layer(t, b, x) == Plus(Linear(t, x), Bias(b))

LEMMA LayerIs ==
    ASSUME NEW t, NEW b, NEW x, NEW m \in Nat, NEW r \in Nat, DOMAIN t = 1..r, DOMAIN b = 1..r, DOMAIN x = 1..m
    PROVE  /\ DOMAIN Layer(t, b, x) = 1..r /\ Layer(t, b, x) = [i \in 1..r |-> Layer(t, b, x)[i]]
           /\ \A i \in 1..r : Layer(t, b, x)[i] = (Sum(Products(t[i], x, m)) + b[i][1]) % Prime
  <1>1. DOMAIN Linear(t, x) = 1..r /\ \A i \in 1..r : Linear(t, x)[i] = Sum(Products(t[i], x, m))
    BY LinearIs
  <1>2. \A i \in 1..r : Bias(b)[i] = b[i][1]
    BY DEF Bias
  <1>3. PICK f : f = Linear(t, x)
    OBVIOUS
  <1>4. PICK g : g = Bias(b)
    OBVIOUS
  <1>5. /\ DOMAIN Plus(f, g) = 1..r /\ Plus(f, g) = [i \in 1..r |-> Plus(f, g)[i]]
        /\ \A i \in 1..r : Plus(f, g)[i] = (f[i] + g[i]) % Prime
    BY <1>1, <1>3, PlusIs
  <1>6. Layer(t, b, x) = Plus(f, g)
    BY <1>3, <1>4 DEF Layer
  <1>7. \A i \in 1..r : f[i] = Sum(Products(t[i], x, m)) /\ g[i] = b[i][1]
    BY <1>1, <1>2, <1>3, <1>4
  <1> QED
    BY <1>5, <1>6, <1>7

LEMMA LayerNumbers ==
    ASSUME NEW t, NEW b, NEW x, NEW m \in Nat \ {0}, NEW r \in Nat \ {0}, Regular(t, Nat, r, m), Regular(b, Nat, r, 1),
           x \in [1..m -> Nat]
    PROVE  /\ Layer(t, b, x) \in [1..r -> Nat] /\ Layer(t, b, x) \in Seq(Nat) /\ Len(Layer(t, b, x)) = r
           /\ \A i \in 1..r : Products(t[i], x, m) \in [1..m -> Nat]
  <1>1. /\ DOMAIN t = 1..r /\ DOMAIN b = 1..r /\ DOMAIN x = 1..m
        /\ \A i \in 1..r : t[i] \in Seq(Nat) /\ Len(t[i]) = m /\ b[i] \in Seq(Nat) /\ Len(b[i]) = 1
    BY DEF Regular
  <1>2. PICK f : f = Layer(t, b, x)
    OBVIOUS
  <1>3. /\ f = [i \in 1..r |-> f[i]]
        /\ \A i \in 1..r : f[i] = (Sum(Products(t[i], x, m)) + b[i][1]) % Prime
    BY <1>1, <1>2, LayerIs
  <1>4. ASSUME NEW i \in 1..r
        PROVE  Products(t[i], x, m) \in [1..m -> Nat] /\ f[i] \in Nat
    <2>1. PICK u \in Seq(Nat) : u = t[i] /\ Len(u) = m
      BY <1>1
    <2>2. \A j \in 1..m : u[j] \in Nat /\ x[j] \in Nat
      BY <2>1
    <2>3. Products(u, x, m) \in [1..m -> Nat] /\ Sum(Products(u, x, m)) \in Nat
      BY <2>2, ProductsAre
    <2>4. b[i][1] \in Nat
      <3>1. PICK c \in Seq(Nat) : c = b[i] /\ Len(c) = 1
        BY <1>1
      <3>2. c[1] \in Nat
        BY ONLY <3>1
      <3> QED
        BY <3>1, <3>2
    <2>5. PICK y \in Nat, z \in Nat : y = Sum(Products(u, x, m)) /\ z = b[i][1]
      BY <2>3, <2>4
    <2>6. (y + z) % Prime \in Nat
      BY DEF Prime
    <2> QED
      BY <1>3, <2>1, <2>3, <2>5, <2>6
  <1>5. f \in [1..r -> Nat]
    BY <1>3, <1>4
  <1>6. f \in Seq(Nat) /\ Len(f) = r
    BY <1>5, AsSeq
  <1> QED
    BY <1>2, <1>4, <1>5, <1>6

LEMMA ColumnIs ==
    ASSUME NEW n \in Nat \ {0}, DivisibleBy(n), NEW w, WholeModel(w), NEW ms, SplitInto(ms, w, n),
           NEW x \in [1..Dim -> Nat], NEW k \in 1..n
    PROVE  ColumnSharded(ms[k], x) = Slice(HiddenOf(w, x), (k - 1) * Quotient(Inner, n), Quotient(Inner, n))
  <1>0. PICK h \in Nat \ {0} : h = Quotient(Inner, n) /\ Inner \in Nat \ {0} /\ Inner = n * h
    BY QuotientIs
  <1>1. PICK o \in Nat : o = (k - 1) * h /\ o + h <= Inner /\ \A j \in 1..h : o + j \in 1..Inner
    <2>1. Inner = n * h
      BY <1>0
    <2> QED
      BY ONLY <2>1, Offsets, n \in Nat \ {0}, h \in Nat \ {0}, k \in 1..n
  <1>2. Dim \in Nat \ {0}
    BY SizeAssumption
  <1>3. PICK t, b : t = w.in /\ b = w.inBias
    OBVIOUS
  <1>4. PICK u, c : u = ms[k].in /\ c = ms[k].inBias
    OBVIOUS
  <1>5. RowsFrom(u, t, o, h) /\ RowsFrom(c, b, o, h)
    BY <1>0, <1>1, <1>3, <1>4 DEF SplitInto
  <1>6. Regular(t, Nat, Inner, Dim) /\ Regular(b, Nat, Inner, 1)
    BY <1>3 DEF WholeModel
  <1>7. PICK y : y = Layer(t, b, x)
    OBVIOUS
  <1>8. PICK f : f = Layer(u, c, x)
    OBVIOUS
  <1>9. y \in Seq(Nat) /\ Len(y) = Inner
    BY <1>0, <1>2, <1>6, <1>7, LayerNumbers
  <1>10. DOMAIN t = 1..Inner /\ DOMAIN b = 1..Inner /\ DOMAIN x = 1..Dim
    BY <1>6 DEF Regular
  <1>11. \A i \in 1..Inner : y[i] = (Sum(Products(t[i], x, Dim)) + b[i][1]) % Prime
    BY <1>0, <1>2, <1>7, <1>10, LayerIs
  <1>12. /\ DOMAIN u = 1..h /\ DOMAIN c = 1..h
         /\ \A i \in 1..h : u[i] = t[o + i] /\ c[i] = b[o + i]
    BY <1>5 DEF RowsFrom
  <1>13. /\ DOMAIN f = 1..h /\ f = [i \in 1..h |-> f[i]]
         /\ \A i \in 1..h : f[i] = (Sum(Products(u[i], x, Dim)) + c[i][1]) % Prime
    BY <1>2, <1>8, <1>10, <1>12, LayerIs
  <1>14. \A i \in 1..h : f[i] = y[o + i]
    BY <1>1, <1>11, <1>12, <1>13
  <1>15. f = Slice(y, o, h)
    <2>1. y \in Seq(Nat) /\ o + h <= Len(y)
      BY <1>1, <1>9
    <2>2. DOMAIN f = 1..h /\ f = [i \in 1..h |-> f[i]] /\ h \in Nat
      BY <1>13
    <2>3. PICK s : s = Slice(y, o, h)
      OBVIOUS
    <2>4. s \in [1..h -> Nat] /\ \A j \in 1..h : s[j] = y[o + j]
      <3>1. h \in Nat
        BY <2>2
      <3>2. s \in [1..h -> Nat]
        BY ONLY <2>1, <2>3, <3>1, o \in Nat, SliceAt
      <3>3. \A j \in 1..h : s[j] = y[o + j]
        BY ONLY <2>1, <2>3, <3>1, o \in Nat, SliceAt
      <3> QED
        BY <3>2, <3>3
    <2>5. s = [i \in 1..h |-> s[i]] /\ \A i \in 1..h : f[i] = s[i]
      BY <1>14, <2>4
    <2> QED
      BY ONLY <2>2, <2>3, <2>5
  <1>16. HiddenOf(w, x) = y
    BY <1>3, <1>7 DEF HiddenOf, Layer
  <1>17. ColumnSharded(ms[k], x) = f
    BY <1>4, <1>8 DEF ColumnSharded, Layer
  <1> QED
    BY <1>0, <1>1, <1>15, <1>16, <1>17

\* f is the n slices of y that are of length h.
SlicesOf(f, y, n, h) ==
    /\ DOMAIN f = 1..n /\ f = [k \in 1..n |-> f[k]]
    /\ y \in Seq(Nat) /\ Len(y) = n * h
    /\ \A k \in 1..n : f[k] = Slice(y, (k - 1) * h, h)

\* A column sharded projection's outputs stay split, or are gathered and scattered.
LEMMA ScatterIs ==
    ASSUME NEW n \in Nat \ {0}, NEW h \in Nat \ {0}, NEW y, NEW f, SlicesOf(f, y, n, h), NEW k \in 1..n
    PROVE  Scatter(Gather(f), n, k - 1) = f[k]
  <1>0. /\ DOMAIN f = 1..n /\ f = [i \in 1..n |-> f[i]]
        /\ y \in Seq(Nat) /\ Len(y) = n * h
        /\ \A i \in 1..n : f[i] = Slice(y, (i - 1) * h, h)
    BY DEF SlicesOf
  <1>1. Len(f) = n
    BY <1>0, LenOf
  <1>2. Gather(f) = y
    BY <1>0, <1>1, SlicesJoin DEF Gather
  <1>3. Len(y) \div n = h
    <2>1. (h * n + 0) \div n = h
      BY PartsAre
    <2>2. h * n + 0 = n * h
      OBVIOUS
    <2> QED
      BY <1>0, <2>1, <2>2
  <1>4. Scatter(y, n, k - 1) = SubSeq(y, (k - 1) * h + 1, (k - 1) * h + h)
    BY <1>3 DEF Scatter, Narrow
  <1> QED
    BY <1>0, <1>2, <1>4 DEF Slice

\* a is the piece of u from o on that is of length h.
PieceOf(a, u, m, o, h) ==
    /\ u \in Seq(Nat) /\ Len(u) = m /\ o + h <= m
    /\ a = Slice(u, o, h)

LEMMA PieceIs ==
    ASSUME NEW m \in Nat, NEW o \in Nat, NEW h \in Nat, NEW a, NEW u, PieceOf(a, u, m, o, h)
    PROVE  /\ a \in [1..h -> Nat]
           /\ \A j \in 1..h : a[j] = u[o + j] /\ o + j \in 1..m
  <1>1. u \in Seq(Nat) /\ o + h <= Len(u) /\ o + h <= m /\ a = Slice(u, o, h)
    BY DEF PieceOf
  <1>2. a \in [1..h -> Nat] /\ \A j \in 1..h : a[j] = u[o + j]
    <2>1. o + h <= Len(u)
      BY <1>1
    <2>2. u \in Seq(Nat)
      BY <1>1
    <2>3. a = Slice(u, o, h)
      BY <1>1
    <2>4. a \in [1..h -> Nat]
      BY ONLY <2>1, <2>2, <2>3, o \in Nat, h \in Nat, SliceAt
    <2>5. \A j \in 1..h : a[j] = u[o + j]
      BY ONLY <2>1, <2>2, <2>3, o \in Nat, h \in Nat, SliceAt
    <2> QED
      BY <2>4, <2>5
  <1>3. \A j \in 1..h : o + j \in 1..m
    BY <1>1
  <1> QED
    BY <1>2, <1>3

\* A piece of a row times the same piece of the activations.
LEMMA PieceOfProducts ==
    ASSUME NEW m \in Nat, NEW o \in Nat, NEW h \in Nat, NEW a, NEW u, NEW x, NEW y, PieceOf(a, u, m, o, h), PieceOf(x, y, m, o, h)
    PROVE  /\ Products(a, x, h) \in [1..h -> Nat]
           /\ \A j \in 1..h : Products(a, x, h)[j] = Products(u, y, m)[o + j]
  <1>1. a \in [1..h -> Nat] /\ \A j \in 1..h : a[j] = u[o + j] /\ o + j \in 1..m
    BY PieceIs
  <1>2. x \in [1..h -> Nat] /\ \A j \in 1..h : x[j] = y[o + j]
    BY PieceIs
  <1>3. Products(a, x, h) \in [1..h -> Nat]
    <2>1. \A j \in 1..h : a[j] \in Nat /\ x[j] \in Nat
      BY <1>1, <1>2
    <2> QED
      BY <2>1, ProductsAre
  <1>4. \A j \in 1..h : Products(a, x, h)[j] = Products(u, y, m)[o + j]
    BY <1>1, <1>2 DEF Products
  <1> QED
    BY <1>3, <1>4

LEMMA RowIs ==
    ASSUME NEW n \in Nat \ {0}, DivisibleBy(n), NEW w, WholeModel(w), NEW ms, SplitInto(ms, w, n),
           NEW h, h = Quotient(Inner, n), NEW y, y \in [1..Inner -> Nat], NEW xs, SlicesOf(xs, y, n, h)
    PROVE  RowSharded(ms, xs) = ResultOf(w, y)
  <1>0. h \in Nat \ {0} /\ Inner \in Nat \ {0} /\ Inner = n * h
    BY QuotientIs
  <1>a. DOMAIN xs = 1..n /\ \A k \in 1..n : xs[k] = Slice(y, (k - 1) * h, h)
    BY DEF SlicesOf
  <1>1. Outer \in Nat \ {0}
    BY SizeAssumption
  <1>2. PICK t : t = w.out
    OBVIOUS
  <1>3. /\ DOMAIN t = 1..Outer
        /\ \A i \in 1..Outer : t[i] \in Seq(Nat) /\ Len(t[i]) = Inner
    BY <1>2 DEF WholeModel, Regular
  <1>4. DOMAIN ms = 1..n /\ \A k \in 1..n : ColsFrom(ms[k].out, t, (k - 1) * h, h) /\ ms[k].outBias = w.outBias
    BY <1>2 DEF SplitInto
  <1> DEFINE ls == [k \in 1..n |-> Linear(ms[k].out, xs[k])]
  <1>5. ASSUME NEW k \in 1..n
        PROVE  /\ DOMAIN ls[k] = 1..Outer
               /\ \A i \in 1..Outer :
                     \E x \in [1..h -> Nat] :
                        /\ ls[k][i] = Sum(x)
                        /\ \A j \in 1..h : x[j] = Products(t[i], y, Inner)[(k - 1) * h + j]
    <2>1. PICK o \in Nat : o = (k - 1) * h /\ o + h <= Inner
      <3>1. Inner = n * h /\ h \in Nat \ {0}
        BY <1>0
      <3> QED
        BY ONLY <3>1, Offsets, n \in Nat \ {0}, k \in 1..n
    <2>2. PICK u : u = ms[k].out
      OBVIOUS
    <2>3. DOMAIN u = 1..Outer /\ \A i \in 1..Outer : u[i] = Slice(t[i], o, h)
      BY <1>3, <1>4, <2>1, <2>2 DEF ColsFrom
    <2>4. PICK x : x = xs[k] /\ x = Slice(y, o, h)
      BY <1>a, <2>1
    <2>5. DOMAIN x = 1..h
      <3>1. y \in Seq(Nat) /\ Len(y) = Inner
        BY <1>0, AsSeq
      <3>2. o + h <= Len(y) /\ h \in Nat
        BY <1>0, <2>1, <3>1
      <3> QED
        BY ONLY <2>4, <3>1, <3>2, o \in Nat, SliceAt
    <2>6. PICK l : l = Linear(u, x)
      OBVIOUS
    <2>7. DOMAIN l = 1..Outer /\ \A i \in 1..Outer : l[i] = Sum(Products(u[i], x, h))
      <3>1. Outer \in Nat /\ h \in Nat
        BY <1>0, <1>1
      <3> QED
        BY ONLY <2>3, <2>5, <2>6, <3>1, LinearIs
    <2>8. ls[k] = l
      BY <2>2, <2>4, <2>6
    <2>9. ASSUME NEW i \in 1..Outer
          PROVE  \E z \in [1..h -> Nat] :
                    l[i] = Sum(z) /\ \A j \in 1..h : z[j] = Products(t[i], y, Inner)[o + j]
      <3>1. PICK v : v \in Seq(Nat) /\ v = t[i] /\ Len(v) = Inner
        BY <1>3
      <3>2. PICK a : a = u[i] /\ a = Slice(v, o, h)
        BY <2>3, <3>1
      <3>3. PICK z : z = Products(a, x, h)
        OBVIOUS
      <3>4. z \in [1..h -> Nat] /\ \A j \in 1..h : z[j] = Products(v, y, Inner)[o + j]
        <4>1. Inner \in Nat /\ h \in Nat \ {0} /\ o + h <= Inner
          BY <1>0, <2>1
        <4>a. y \in Seq(Nat) /\ Len(y) = Inner
          BY <4>1, AsSeq
        <4>2. PieceOf(a, v, Inner, o, h)
          BY ONLY <3>1, <3>2, <4>1, o \in Nat DEF PieceOf
        <4>3. PieceOf(x, y, Inner, o, h)
          BY ONLY <2>4, <4>1, <4>a, o \in Nat DEF PieceOf
        <4>4. /\ Products(a, x, h) \in [1..h -> Nat]
              /\ \A j \in 1..h : Products(a, x, h)[j] = Products(v, y, Inner)[o + j]
          <5>1. Inner \in Nat
            BY <4>1
          <5>2. h \in Nat
            BY <4>1
          <5>3. Products(a, x, h) \in [1..h -> Nat]
            BY ONLY <4>2, <4>3, <5>1, <5>2, o \in Nat, PieceOfProducts
          <5>4. \A j \in 1..h : Products(a, x, h)[j] = Products(v, y, Inner)[o + j]
            BY ONLY <4>2, <4>3, <5>1, <5>2, o \in Nat, PieceOfProducts
          <5> QED
            BY ONLY <5>3, <5>4
        <4> QED
          BY <3>3, <4>4
      <3>5. l[i] = Sum(z)
        BY <2>7, <3>2, <3>3
      <3> QED
        BY <3>1, <3>4, <3>5
    <2> HIDE DEF ls
    <2> QED
      BY <2>1, <2>7, <2>8, <2>9
  <1>6. DOMAIN ls = 1..n /\ DOMAIN ls[1] = 1..Outer
    <2>1. 1 \in 1..n /\ DOMAIN ls = 1..n
      OBVIOUS
    <2> HIDE DEF ls
    <2> QED
      BY <1>5, <2>1
  <1>7. PICK l : l = Linear(t, y)
    OBVIOUS
  <1>8. DOMAIN l = 1..Outer /\ \A i \in 1..Outer : l[i] = Sum(Products(t[i], y, Inner))
    <2>1. Outer \in Nat /\ Inner \in Nat /\ DOMAIN y = 1..Inner
      BY <1>0, <1>1
    <2> QED
      BY ONLY <1>3, <1>7, <2>1, LinearIs
  <1>9. ASSUME NEW i \in 1..Outer
        PROVE  Sum([k \in 1..n |-> ls[k][i]]) = l[i]
    <2>1. PICK f : f = [k \in 1..n |-> ls[k][i]]
      OBVIOUS
    <2>2. DOMAIN f = 1..n /\ f = [k \in 1..n |-> f[k]] /\ \A k \in 1..n : f[k] = ls[k][i]
      <3> HIDE DEF ls
      <3> QED
        BY <2>1
    <2>3. PICK s : s = Products(t[i], y, Inner)
      OBVIOUS
    <2>4. s \in [1..Inner -> Nat]
      <3>1. PICK v : v \in Seq(Nat) /\ v = t[i] /\ Len(v) = Inner
        BY <1>3
      <3>2. \A j \in 1..Inner : v[j] \in Nat /\ y[j] \in Nat
        <4>1. \A j \in 1..Inner : v[j] \in Nat
          BY ONLY <3>1
        <4>2. \A j \in 1..Inner : y[j] \in Nat
          BY ONLY y \in [1..Inner -> Nat]
        <4> QED
          BY ONLY <4>1, <4>2
      <3>3. Inner \in Nat
        BY <1>0
      <3> QED
        BY ONLY <2>3, <3>1, <3>2, <3>3, ProductsAre
    <2>5. \A k \in 1..n : \E x \in [1..h -> Nat] :
             f[k] = Sum(x) /\ \A j \in 1..h : x[j] = s[(k - 1) * h + j]
      <3> TAKE k \in 1..n
      <3>1. PICK x \in [1..h -> Nat] :
               ls[k][i] = Sum(x) /\ \A j \in 1..h : x[j] = Products(t[i], y, Inner)[(k - 1) * h + j]
        <4> HIDE DEF ls
        <4> QED
          BY <1>5
      <3> WITNESS x \in [1..h -> Nat]
      <3> HIDE DEF ls
      <3> QED
        BY <2>2, <2>3, <3>1
    <2>6. Sum(f) = Sum(s)
      <3>1. h \in Nat \ {0} /\ Inner = n * h
        BY <1>0
      <3>2. PieceSums(f, s, n, h)
        <4> HIDE DEF ls
        <4> QED
          BY ONLY <2>2, <2>5 DEF PieceSums
      <3> QED
        BY ONLY <2>4, <3>1, <3>2, n \in Nat \ {0}, SumOfPieces
    <2> HIDE DEF ls
    <2> QED
      BY <1>8, <2>1, <2>3, <2>6
  <1>10. Reduce(ls) = l
    <2>1. Reduce(ls) = [i \in 1..Outer |-> Sum([k \in 1..n |-> ls[k][i]])]
      <3> HIDE DEF ls
      <3> QED
        BY <1>6 DEF Reduce
    <2>2. l = [i \in 1..Outer |-> l[i]]
      BY <1>7, <1>8 DEF Linear
    <2> HIDE DEF ls
    <2> QED
      BY <1>9, <2>1, <2>2
  <1>11. RowSharded(ms, xs) = Plus(Reduce(ls), Bias(ms[1].outBias))
    BY <1>a, <1>4 DEF RowSharded
  <1>12. ms[1].outBias = w.outBias
    BY <1>4
  <1> HIDE DEF ls
  <1> QED
    BY <1>2, <1>7, <1>10, <1>11, <1>12 DEF ResultOf

\* What undivided modules compute of all tokens.
OutputOf(w, token) == ResultOf(w, HiddenOf(w, EmbeddingOf(w, token)))

LEMMA OutputsAre ==
    ASSUME NEW n \in Nat \ {0}, DivisibleBy(n), NEW w, WholeModel(w), NEW ms, SplitInto(ms, w, n), NEW stay
    PROVE  Outputs(ms, stay) = [token \in 0..(Vocab - 1) |-> OutputOf(w, token)]
  <1> DEFINE Emb(token) == Plus(Reduce([k \in 1..n |-> EmbedHere(ms[k].vocab, k - 1, token)]),
                                Gather([k \in 1..n |-> ms[k].slice[token + 1]]))
  <1> DEFINE x == [token \in 0..(Vocab - 1) |-> Emb(token)]
  <1> DEFINE Split(token) == [k \in 1..n |-> ColumnSharded(ms[k], x[token])]
  <1> DEFINE Inputs(token) == IF stay THEN Split(token)
                              ELSE [k \in 1..n |-> Scatter(Gather(Split(token)), n, k - 1)]
  <1>0. Len(ms) = n
    BY DEF SplitInto
  <1>1. Outputs(ms, stay) = [token \in 0..(Vocab - 1) |-> RowSharded(ms, Inputs(token))]
    BY <1>0 DEF Outputs
  <1>2. PICK h \in Nat \ {0} : h = Quotient(Inner, n) /\ Inner \in Nat \ {0} /\ Inner = n * h
    BY QuotientIs
  <1>3. ASSUME NEW token \in 0..(Vocab - 1)
        PROVE  RowSharded(ms, Inputs(token)) = OutputOf(w, token)
    <2>1. PICK e : e = EmbeddingOf(w, token)
      OBVIOUS
    <2>2. e \in [1..Dim -> Nat]
      BY <2>1, EmbeddingIs
    <2>3. x[token] = e
      <3>1. Emb(token) = EmbeddingOf(w, token)
        BY EmbeddingIs
      <3> HIDE DEF Emb
      <3> QED
        BY <2>1, <3>1
    <2> HIDE DEF x, Emb
    <2>4. PICK y : y = HiddenOf(w, e)
      OBVIOUS
    <2>5. y \in [1..Inner -> Nat] /\ y \in Seq(Nat) /\ Len(y) = n * h
      <3>1. PICK t, b : t = w.in /\ b = w.inBias
        OBVIOUS
      <3>2. Regular(t, Nat, Inner, Dim) /\ Regular(b, Nat, Inner, 1)
        BY <3>1 DEF WholeModel
      <3>3. y = Layer(t, b, e)
        BY <2>4, <3>1 DEF HiddenOf, Layer
      <3>4. Dim \in Nat \ {0} /\ Inner \in Nat \ {0}
        BY SizeAssumption
      <3>5. Layer(t, b, e) \in [1..Inner -> Nat]
        BY ONLY <2>2, <3>2, <3>4, LayerNumbers
      <3>6. Layer(t, b, e) \in Seq(Nat)
        BY ONLY <2>2, <3>2, <3>4, LayerNumbers
      <3>7. Len(Layer(t, b, e)) = Inner
        BY ONLY <2>2, <3>2, <3>4, LayerNumbers
      <3> QED
        BY <1>2, <3>3, <3>5, <3>6, <3>7
    <2>6. PICK f : f = Split(token)
      OBVIOUS
    <2>7. DOMAIN f = 1..n /\ f = [k \in 1..n |-> f[k]]
      BY <2>6
    <2>8. ASSUME NEW k \in 1..n PROVE f[k] = Slice(y, (k - 1) * h, h)
      <3>1. f[k] = ColumnSharded(ms[k], e)
        BY <2>3, <2>6
      <3>2. ColumnSharded(ms[k], e) = Slice(HiddenOf(w, e), (k - 1) * Quotient(Inner, n), Quotient(Inner, n))
        BY <2>2, ColumnIs
      <3> QED
        BY <1>2, <2>4, <3>1, <3>2
    <2>a. SlicesOf(f, y, n, h)
      BY ONLY <2>5, <2>7, <2>8 DEF SlicesOf
    <2>9. ASSUME NEW k \in 1..n PROVE Scatter(Gather(f), n, k - 1) = f[k]
      BY <2>a, ScatterIs
    <2>10. PICK xs : xs = Inputs(token)
      OBVIOUS
    <2>11. DOMAIN xs = 1..n /\ xs = [k \in 1..n |-> xs[k]] /\ \A k \in 1..n : xs[k] = Slice(y, (k - 1) * h, h)
      <3>1. CASE stay
        <4>1. xs = f
          BY <2>6, <2>10, <3>1
        <4> QED
          BY <2>7, <2>8, <4>1
      <3>2. CASE ~stay
        <4>1. xs = [k \in 1..n |-> Scatter(Gather(f), n, k - 1)]
          BY <2>6, <2>10, <3>2
        <4> HIDE DEF Inputs, Split
        <4> QED
          BY <2>8, <2>9, <4>1
      <3> QED
        BY <3>1, <3>2
    <2>12. RowSharded(ms, xs) = ResultOf(w, y)
      <3>1. h = Quotient(Inner, n) /\ y \in [1..Inner -> Nat]
        BY <1>2, <2>5
      <3>2. SlicesOf(xs, y, n, h)
        BY ONLY <2>5, <2>11 DEF SlicesOf
      <3> HIDE DEF Inputs, Split
      <3> QED
        BY <3>1, <3>2, RowIs
    <2> QED
      BY <2>1, <2>4, <2>10, <2>12 DEF OutputOf
  <1> HIDE DEF Inputs, Split, x, Emb
  <1> QED
    BY <1>1, <1>3
-----------------------------------------------------------------------------
(***************************************************************************)
(* What the ranks of a tensor parallel gang hold is the model, split.      *)
(***************************************************************************)
LEMMA TpMembers ==
    ASSUME NEW l \in Layouts, Accepted(l), NEW r \in RanksOf(l), NEW g, g = GangsOf(l, r)["tp"],
           NEW c \in 1..l.tp
    PROVE  DOMAIN g = 1..l.tp /\ Len(g) = l.tp /\ g[c] \in RanksOf(l) /\ TpAt(l, g[c]) = c - 1
  <1> DEFINE n == l.size
  <1> DEFINE t == l.tp
  <1>1. /\ n \in Nat \ {0} /\ t \in Nat \ {0} /\ r \in 0..(n - 1)
        /\ Rest(n, t) = 0 /\ RanksOf(l) = 0..(n - 1)
    BY LayoutIs
  <1>2. g = MeshRow(t, Quotient(r, t))
    BY GangsAre
  <1>3. TpAt(l, g[c]) = Rest(g[c], t) /\ c \in 1..t
    BY DEF TpAt
  <1> HIDE DEF n, t
  <1>4. PICK q : q = Quotient(r, t)
    OBVIOUS
  <1>5. q \in 0..(Quotient(n, t) - 1) /\ Quotient(n, t) \in Nat
    BY <1>1, <1>4, InMesh
  <1>6. g = [i \in 1..t |-> q * t + i - 1]
    BY <1>2, <1>4 DEF MeshRow
  <1>7. PICK x : x = c - 1 /\ x \in 0..(t - 1)
    BY <1>1, <1>3
  <1>8. g[c] = q * t + x
    <2>1. g[c] = q * t + c - 1
      BY <1>3, <1>6
    <2>2. PICK z \in Int : z = q * t
      BY <1>1, <1>5
    <2> QED
      BY <1>3, <1>7, <2>1, <2>2
  <1>9. g[c] \in 0..(n - 1)
    BY <1>1, <1>5, <1>7, <1>8, InMesh
  <1>10. Rest(g[c], t) = x
    <2>1. PICK y \in Nat : y = q
      BY <1>5
    <2>2. PICK w : w = g[c] /\ w = y * t + x
      BY <1>8, <2>1
    <2>3. t \in Nat \ {0} /\ x \in 0..(t - 1)
      BY <1>1, <1>7
    <2>4. Rest(w, t) = x
      BY ONLY <2>2, <2>3, y \in Nat, Composed
    <2> QED
      BY <2>2, <2>4
  <1>11. DOMAIN g = 1..t /\ Len(g) = t
    <2>1. t \in Nat /\ q \in Int
      BY <1>1, <1>5
    <2> QED
      BY <1>2, <1>4, <2>1, Lengths
  <1> QED
    BY <1>1, <1>3, <1>7, <1>9, <1>10, <1>11 DEF t

LEMMA SdpMembers ==
    ASSUME NEW l \in Layouts, Accepted(l), NEW r \in RanksOf(l), NEW g, g = GangsOf(l, r)["sdp"],
           Shards(l) > 1, NEW c \in 1..Shards(l)
    PROVE  /\ DOMAIN g = 1..Shards(l) /\ g[c] \in RanksOf(l) /\ TpAt(l, g[c]) = TpAt(l, r)
           /\ SdpAt(l, g[c]) = c - 1
  <1> DEFINE n == l.size
  <1> DEFINE t == l.tp
  <1> DEFINE k == l.local
  <1> DEFINE par == l.parallelism
  <1>1. /\ n \in Nat \ {0} /\ t \in Nat \ {0} /\ k \in Nat \ {0} /\ par \in {"ddp", "fsdp", "hybrid"}
        /\ r \in 0..(n - 1) /\ Rest(n, t) = 0 /\ RanksOf(l) = 0..(n - 1)
        /\ par = "hybrid" => t = 1 /\ Rest(n, k) = 0
    BY LayoutIs
  <1>2. /\ par = "fsdp" => g = MeshColumn(n, t, Rest(r, t))
        /\ par = "hybrid" => g = MeshRow(k, Quotient(r, k))
    BY GangsAre
  <1>3. /\ TpAt(l, g[c]) = Rest(g[c], t) /\ TpAt(l, r) = Rest(r, t)
        /\ par = "ddp" => Shards(l) = 1
        /\ par = "fsdp" => SdpAt(l, g[c]) = Quotient(g[c], t) /\ Shards(l) = Quotient(n, t)
        /\ par = "hybrid" => SdpAt(l, g[c]) = Rest(g[c], k) /\ Shards(l) = k
    BY DEF TpAt, SdpAt, Shards
  <1>4. PICK d : d = Shards(l) /\ d > 1 /\ c \in 1..d
    OBVIOUS
  <1> HIDE DEF n, t, k, par
  <1>5. par # "ddp"
    BY <1>3, <1>4
  <1>6. CASE par = "fsdp"
    <2>1. PICK x : x = Rest(r, t)
      OBVIOUS
    <2>2. d = Quotient(n, t) /\ d \in Nat \ {0} /\ x \in 0..(t - 1)
      BY <1>1, <1>3, <1>4, <1>6, <2>1, InMesh
    <2>3. g = [i \in 1..d |-> (i - 1) * t + x]
      BY <1>2, <1>6, <2>1, <2>2 DEF MeshColumn, Quotient
    <2>4. PICK q : q = c - 1 /\ q \in 0..(d - 1) /\ q \in Nat
      BY <1>4, <2>2
    <2>5. DOMAIN g = 1..d /\ g[c] = q * t + x
      BY <1>4, <2>3, <2>4
    <2>6. g[c] \in 0..(n - 1)
      BY <1>1, <2>2, <2>4, <2>5, InMesh
    <2>9. PICK y \in Nat : y = q
      BY <2>4
    <2>10. PICK w : w = g[c] /\ w = y * t + x
      BY <2>5, <2>9
    <2>11. t \in Nat \ {0} /\ x \in 0..(t - 1)
      BY <1>1, <2>2
    <2>12. Quotient(w, t) = y
      BY ONLY <2>10, <2>11, y \in Nat, Composed
    <2>13. Rest(w, t) = x
      BY ONLY <2>10, <2>11, y \in Nat, Composed
    <2>7. Quotient(g[c], t) = q
      BY <2>9, <2>10, <2>12
    <2>8. Rest(g[c], t) = x
      BY <2>10, <2>13
    <2> QED
      BY <1>1, <1>3, <1>4, <1>6, <2>1, <2>4, <2>5, <2>6, <2>7, <2>8
  <1>7. CASE par = "hybrid"
    <2>1. PICK q : q = Quotient(r, k)
      OBVIOUS
    <2>2. d = k /\ q \in 0..(Quotient(n, k) - 1) /\ Quotient(n, k) \in Nat
      BY <1>1, <1>3, <1>4, <1>7, <2>1, InMesh
    <2>3. g = [i \in 1..k |-> q * k + i - 1]
      BY <1>2, <1>7, <2>1 DEF MeshRow
    <2>4. PICK x : x = c - 1 /\ x \in 0..(k - 1)
      BY <1>1, <1>4, <2>2
    <2>5. DOMAIN g = 1..k /\ g[c] = q * k + x
      <3>1. DOMAIN g = 1..k /\ g[c] = q * k + c - 1
        BY <1>4, <2>2, <2>3
      <3>2. PICK z \in Int : z = q * k
        BY <1>1, <2>2
      <3> QED
        BY <1>1, <1>4, <2>2, <2>4, <3>1, <3>2
    <2>6. g[c] \in 0..(n - 1)
      BY <1>1, <1>7, <2>2, <2>4, <2>5, InMesh
    <2>7. Rest(g[c], k) = x
      <3>1. PICK y \in Nat : y = q
        BY <2>2
      <3>2. PICK w : w = g[c] /\ w = y * k + x
        BY <2>5, <3>1
      <3>3. k \in Nat \ {0} /\ x \in 0..(k - 1)
        BY <1>1, <2>4
      <3>4. Rest(w, k) = x
        BY ONLY <3>2, <3>3, y \in Nat, Composed
      <3> QED
        BY <3>2, <3>4
    <2>8. Rest(g[c], t) = 0 /\ Rest(r, t) = 0
      <3>1. \A a \in Nat : Rest(a, 1) = 0
        BY DEF Rest
      <3>2. g[c] \in Nat /\ r \in Nat /\ t = 1
        BY <1>1, <1>7, <2>6
      <3> QED
        BY <3>1, <3>2
    <2> QED
      BY <1>1, <1>3, <1>4, <1>7, <2>2, <2>4, <2>5, <2>6, <2>7, <2>8
  <1> QED
    BY <1>1, <1>5, <1>6, <1>7

\* A rank of a training, after its parameters have been gathered.
LEMMA GatheredIs ==
    ASSUME ShardsInv, \A q \in Ranks : pc[q] = "run", NEW r \in Ranks, NEW p \in Names
    PROVE  version \in Nat /\ Gathered(r)[p] = Mine(p, version, Layout.tp, TpAt(Layout, r))
  <1> DEFINE n == Layout.tp
  <1> DEFINE k == TpAt(Layout, r)
  <1> DEFINE d == Shards(Layout)
  <1> DEFINE g == Gang(r).sdp
  <1>0. plan \in Plans /\ SourceOK /\ step \in 0..MaxSteps /\ \A q \in Ranks : RankOK(q)
    BY DEF ShardsInv
  <1>1. /\ Layout \in Layouts /\ Accepted(Layout) /\ DivisibleBy(n) /\ n \in Nat \ {0}
        /\ Ranks = RanksOf(Layout) /\ d \in Nat \ {0} /\ Names = NamesOf(plan.buffered)
    BY <1>0, PlanIs
  <1>2. k \in 0..(n - 1) /\ (Sharded(Gang(r)) <=> d > 1)
    BY <1>0, GangPlaces
  <1>3. \A q \in Ranks : st[q] = StateOf(Layout, plan.buffered, step, version, q) /\ version = source.version + step
    BY <1>0 DEF RankOK, At, Running
  <1>4. version \in Nat
    <2>1. source.version \in Nat /\ step \in Nat
      BY <1>0, VersionIs
    <2> QED
      BY <1>3, <2>1
  <1>5. \A q \in Ranks : st[q].model[p] = PartOf(p, version, n, TpAt(Layout, q), d, SdpAt(Layout, q))
    <2> TAKE q \in Ranks
    <2>1. PICK x : x = st[q] /\ x = StateOf(Layout, plan.buffered, step, version, q)
      BY <1>3
    <2>2. x["model"] = ModelOf(Layout, plan.buffered, version, q)
      BY ONLY <2>1 DEF StateOf
    <2>3. ModelOf(Layout, plan.buffered, version, q)[p] = PartOf(p, version, n, TpAt(Layout, q), d, SdpAt(Layout, q))
      BY <1>1 DEF ModelOf
    <2> QED
      BY <2>1, <2>2, <2>3
  <1>6. p \in AllNames
    BY <1>1, NamesAre
  <1>7. CASE p = "buffer" \/ ~(d > 1)
    <2>1. Gathered(r)[p] = st[r].model[p]
      BY <1>2, <1>7 DEF Gathered
    <2> QED
      BY <1>4, <1>5, <1>7, <2>1 DEF PartOf
  <1>8. CASE p # "buffer" /\ d > 1
    <2>1. Gathered(r)[p] = Cat([i \in DOMAIN g |-> st[g[i]].model[p]], 0)
      BY <1>2, <1>8 DEF Gathered
    <2>2. \A c \in 1..d : DOMAIN g = 1..d /\ g[c] \in Ranks /\ TpAt(Layout, g[c]) = k /\ SdpAt(Layout, g[c]) = c - 1
      <3> TAKE c \in 1..d
      <3>1. r \in RanksOf(Layout) /\ g = GangsOf(Layout, r)["sdp"]
        BY <1>1 DEF Gang
      <3> HIDE DEF g
      <3> QED
        BY <1>1, <1>8, <3>1, SdpMembers
    <2> HIDE DEF g, n, k, d
    <2>3. DOMAIN g = 1..d
      <3>1. 1 \in 1..d
        BY <1>1
      <3> QED
        BY <2>2, <3>1
    <2>4. \A c \in 1..d : st[g[c]].model[p] = PartOf(p, version, n, k, d, c - 1)
      BY <1>5, <2>2
    <2>5. [i \in DOMAIN g |-> st[g[i]].model[p]] = [c \in 1..d |-> PartOf(p, version, n, k, d, c - 1)]
      BY <2>3, <2>4
    <2>6. Cat([c \in 1..d |-> PartOf(p, version, n, k, d, c - 1)], 0) = Mine(p, version, n, k)
      BY <1>1, <1>2, <1>4, <1>6, <1>8, PartsJoin
    <2> QED
      BY <1>4, <2>1, <2>5, <2>6 DEF n, k
  <1> QED
    BY <1>7, <1>8

\* The splits of the tensors of a model.
LEMMA RowsOfMine ==
    ASSUME NEW p \in AllNames, Shape(p).dim = 0, NEW v \in Nat, NEW n \in Nat \ {0}, DivisibleBy(n),
           NEW R, R = Shape(p).rows, NEW k \in 1..n
    PROVE  RowsFrom(Mine(p, v, n, k - 1), Whole(p, v), (k - 1) * Quotient(R, n), Quotient(R, n))
  <1> DEFINE C == Shape(p).cols
  <1>1. R \in Nat \ {0} /\ C \in Nat \ {0} /\ R % n = 0
    BY ShapeIs
  <1>2. PICK w : w = Whole(p, v)
    OBVIOUS
  <1>3. w \in Tensor(Nat, R, C)
    BY <1>2, WholeIs
  <1> HIDE DEF C
  <1>4. w \in Seq(Seq(Nat)) /\ Len(w) = R
    <2>1. Regular(w, Nat, R, C)
      BY <1>1, <1>3, TensorIs
    <2> QED
      BY <2>1 DEF Regular
  <1>5. PICK h \in Nat : h = Quotient(R, n) /\ h # 0 /\ R = n * h
    <2>1. R \in Nat \ {0} /\ R % n = 0
      BY <1>1
    <2>2. R \div n \in Nat \ {0} /\ R = n * (R \div n)
      BY ONLY <2>1, n \in Nat \ {0}, Quotients
    <2> QED
      BY <2>2 DEF Quotient
  <1>6. PICK o \in Nat : o = (k - 1) * h /\ o + h <= R
    <2>1. h \in Nat \ {0} /\ R = n * h
      BY <1>5
    <2> QED
      BY ONLY <2>1, Offsets, n \in Nat \ {0}, k \in 1..n
  <1>7. Mine(p, v, n, k - 1) = Slice(w, o, h)
    <2>1. Mine(p, v, n, k - 1) = SplitOf(w, 0, n, k - 1)
      BY <1>2 DEF Mine
    <2>2. Extent(w, 0) \div n = h
      BY <1>4, <1>5 DEF Extent, Quotient
    <2>3. SplitOf(w, 0, n, k - 1) = Narrow(w, 0, (k - 1) * h, h)
      BY <2>2 DEF SplitOf, Replicated
    <2>4. Narrow(w, 0, (k - 1) * h, h) = SubSeq(w, o + 1, o + h)
      BY <1>6 DEF Narrow
    <2> QED
      BY <2>1, <2>3, <2>4 DEF Slice
  <1>8. PICK u : u = Slice(w, o, h)
    OBVIOUS
  <1>9. DOMAIN u = 1..h /\ Len(u) = h /\ \A j \in 1..h : u[j] = w[o + j]
    <2>1. w \in Seq(Seq(Nat)) /\ o + h <= Len(w)
      BY <1>4, <1>6
    <2>2. DOMAIN u = 1..h
      BY ONLY <1>8, <2>1, o \in Nat, h \in Nat, SliceAt
    <2>3. Len(u) = h
      BY ONLY <1>8, <2>1, o \in Nat, h \in Nat, SliceAt
    <2>4. \A j \in 1..h : u[j] = w[o + j]
      BY ONLY <1>8, <2>1, o \in Nat, h \in Nat, SliceAt
    <2> QED
      BY <2>2, <2>3, <2>4
  <1>10. RowsFrom(u, w, o, h)
    BY <1>9 DEF RowsFrom
  <1> QED
    BY <1>2, <1>5, <1>6, <1>7, <1>8, <1>10

LEMMA ColsOfMine ==
    ASSUME NEW p \in AllNames, Shape(p).dim = 1, NEW v \in Nat, NEW n \in Nat \ {0}, DivisibleBy(n),
           NEW C, C = Shape(p).cols, NEW k \in 1..n
    PROVE  ColsFrom(Mine(p, v, n, k - 1), Whole(p, v), (k - 1) * Quotient(C, n), Quotient(C, n))
  <1> DEFINE R == Shape(p).rows
  <1>1. R \in Nat \ {0} /\ C \in Nat \ {0}
    BY ShapeIs
  <1>2. PICK w : w = Whole(p, v)
    OBVIOUS
  <1>3. w \in Tensor(Nat, R, C)
    BY <1>2, WholeIs
  <1> HIDE DEF R
  <1>4. Regular(w, Nat, R, C)
    BY <1>1, <1>3, TensorIs
  <1>5. PICK h, o : h = Quotient(C, n) /\ o = (k - 1) * h
    OBVIOUS
  <1>6. DOMAIN w = 1..R /\ Extent(w, 1) = C
    BY <1>1, <1>4 DEF Regular, Extent
  <1>7. SplitOf(w, 1, n, k - 1) = Narrow(w, 1, o, h)
    BY <1>5, <1>6 DEF SplitOf, Replicated, Quotient
  <1>8. Narrow(w, 1, o, h) = [r \in 1..R |-> Slice(w[r], o, h)]
    BY <1>6 DEF Narrow, Slice
  <1>9. Mine(p, v, n, k - 1) = [r \in 1..R |-> Slice(w[r], o, h)]
    BY <1>2, <1>7, <1>8 DEF Mine
  <1> QED
    BY <1>2, <1>5, <1>6, <1>9 DEF ColsFrom

LEMMA ShapesAre ==
    /\ Shape("vocab").rows = Vocab /\ Shape("vocab").cols = Dim /\ Shape("vocab").dim = 0
    /\ Shape("slice").rows = Vocab /\ Shape("slice").cols = Dim /\ Shape("slice").dim = 1
    /\ Shape("in").rows = Inner /\ Shape("in").cols = Dim /\ Shape("in").dim = 0
    /\ Shape("inBias").rows = Inner /\ Shape("inBias").cols = 1 /\ Shape("inBias").dim = 0
    /\ Shape("out").rows = Outer /\ Shape("out").cols = Inner /\ Shape("out").dim = 1
    /\ Shape("outBias").rows = Outer /\ Shape("outBias").cols = 1 /\ Shape("outBias").dim = Replicated
  BY DEF Shape, Parameters

\* A model, whatever of its tensors w has as fields.
IsModel(w, v) ==
    /\ w.vocab = Whole("vocab", v) /\ w.slice = Whole("slice", v) /\ w.in = Whole("in", v)
    /\ w.inBias = Whole("inBias", v) /\ w.out = Whole("out", v) /\ w.outBias = Whole("outBias", v)

LEMMA ModelIsWhole ==
    ASSUME NEW v \in Nat, NEW w, IsModel(w, v)
    PROVE  WholeModel(w)
  <1>1. ASSUME NEW p \in AllNames PROVE Regular(Whole(p, v), Nat, Shape(p).rows, Shape(p).cols)
    <2>1. Shape(p).rows \in Nat \ {0} /\ Shape(p).cols \in Nat \ {0}
      BY ShapeIs
    <2>2. Whole(p, v) \in Tensor(Nat, Shape(p).rows, Shape(p).cols)
      BY WholeIs
    <2> QED
      BY <2>1, <2>2, TensorIs
  <1>2. {"vocab", "slice", "in", "inBias", "out", "outBias"} \subseteq AllNames
    BY NamesAre DEF AllNames
  <1>3. /\ Regular(Whole("vocab", v), Nat, Vocab, Dim) /\ Regular(Whole("slice", v), Nat, Vocab, Dim)
        /\ Regular(Whole("in", v), Nat, Inner, Dim) /\ Regular(Whole("inBias", v), Nat, Inner, 1)
        /\ Regular(Whole("out", v), Nat, Outer, Inner) /\ Regular(Whole("outBias", v), Nat, Outer, 1)
    BY <1>1, <1>2, ShapesAre
  <1> QED
    BY <1>3 DEF IsModel, WholeModel

LEMMA ModelsAreSplit ==
    ASSUME NEW v \in Nat, NEW w, IsModel(w, v), NEW n \in Nat \ {0}, DivisibleBy(n),
           NEW ms, DOMAIN ms = 1..n, Len(ms) = n,
           \A k \in 1..n : \A p \in {"vocab", "slice", "in", "inBias", "out", "outBias"} : ms[k][p] = Mine(p, v, n, k - 1)
    PROVE  SplitInto(ms, w, n)
  <1>1. {"vocab", "slice", "in", "inBias", "out", "outBias"} \subseteq AllNames
    BY NamesAre DEF AllNames
  <1>2. ASSUME NEW k \in 1..n
        PROVE  /\ RowsFrom(ms[k].vocab, w.vocab, (k - 1) * Quotient(Vocab, n), Quotient(Vocab, n))
               /\ ColsFrom(ms[k].slice, w.slice, (k - 1) * Quotient(Dim, n), Quotient(Dim, n))
               /\ RowsFrom(ms[k].in, w.in, (k - 1) * Quotient(Inner, n), Quotient(Inner, n))
               /\ RowsFrom(ms[k].inBias, w.inBias, (k - 1) * Quotient(Inner, n), Quotient(Inner, n))
               /\ ColsFrom(ms[k].out, w.out, (k - 1) * Quotient(Inner, n), Quotient(Inner, n))
               /\ ms[k].outBias = w.outBias
    <2>1. RowsFrom(Mine("vocab", v, n, k - 1), Whole("vocab", v), (k - 1) * Quotient(Vocab, n), Quotient(Vocab, n))
      BY <1>1, ShapesAre, RowsOfMine
    <2>2. ColsFrom(Mine("slice", v, n, k - 1), Whole("slice", v), (k - 1) * Quotient(Dim, n), Quotient(Dim, n))
      BY <1>1, ShapesAre, ColsOfMine
    <2>3. RowsFrom(Mine("in", v, n, k - 1), Whole("in", v), (k - 1) * Quotient(Inner, n), Quotient(Inner, n))
      BY <1>1, ShapesAre, RowsOfMine
    <2>4. RowsFrom(Mine("inBias", v, n, k - 1), Whole("inBias", v), (k - 1) * Quotient(Inner, n), Quotient(Inner, n))
      BY <1>1, ShapesAre, RowsOfMine
    <2>5. ColsFrom(Mine("out", v, n, k - 1), Whole("out", v), (k - 1) * Quotient(Inner, n), Quotient(Inner, n))
      BY <1>1, ShapesAre, ColsOfMine
    <2>6. Mine("outBias", v, n, k - 1) = Whole("outBias", v)
      BY ShapesAre DEF Mine, SplitOf
    <2> QED
      BY <2>1, <2>2, <2>3, <2>4, <2>5, <2>6 DEF IsModel
  <1> QED
    BY <1>2 DEF SplitInto

\* Split modules compute what undivided ones with the same parameters do.
LEMMA InvForward ==
    ASSUME ShardsInv
    PROVE  ForwardAgrees
  <1> DEFINE six == {"vocab", "slice", "in", "inBias", "out", "outBias"}
  <1> DEFINE n == Layout.tp
  <1> DEFINE w == [p \in Names |-> Whole(p, version)]
  <1> DEFINE ref == [token \in 0..(Vocab - 1) |-> OutputOf(w, token)]
  <1>1. SUFFICES ASSUME \A r \in Ranks : pc[r] = "run", NEW stay \in BOOLEAN,
                        NEW mine \in {[k \in DOMAIN g |-> Gathered(g[k])] : g \in {Gang(r).tp : r \in Ranks}}
                 PROVE  Outputs(mine, stay) = Outputs(<<[p \in Names |-> Whole(p, version)]>>, TRUE)
    BY Zenon DEF ForwardAgrees
  <1>2. plan \in Plans
    BY DEF ShardsInv
  <1>3. /\ Layout \in Layouts /\ Accepted(Layout) /\ DivisibleBy(n) /\ n \in Nat \ {0}
        /\ Ranks = RanksOf(Layout) /\ 0 \in Ranks
        /\ Names = NamesOf(plan.buffered) /\ six \subseteq Names
    BY <1>2, PlanIs, NamesAre DEF NamesOf
  <1>4. version \in Nat
    <2>1. "vocab" \in Names
      BY <1>3
    <2> QED
      BY <1>1, <1>3, <2>1, GatheredIs
  <1>5. IsModel(w, version)
    BY <1>3 DEF IsModel
  <1> HIDE DEF w
  <1>6. WholeModel(w)
    BY <1>4, <1>5, ModelIsWhole
  <1>7. Outputs(<<w>>, TRUE) = ref
    <2>1. PICK ms : ms = <<w>>
      OBVIOUS
    <2>2. DOMAIN ms = 1..1 /\ Len(ms) = 1 /\ ms[1] = w
      BY <2>1
    <2>3. DivisibleBy(1)
      BY SizeAssumption DEF DivisibleBy
    <2>4. \A k \in 1..1 : \A p \in six : ms[k][p] = Mine(p, version, 1, k - 1)
      <3> TAKE k \in 1..1
      <3> TAKE p \in six
      <3>1. k = 1 /\ k - 1 = 0
        OBVIOUS
      <3>2. p \in AllNames
        BY NamesAre DEF AllNames
      <3>3. Mine(p, version, 1, 0) = Whole(p, version)
        BY <1>4, <3>2, AllIsMine
      <3>4. w[p] = Whole(p, version)
        BY <1>3 DEF w
      <3> QED
        BY <2>2, <3>1, <3>3, <3>4
    <2>5. SplitInto(ms, w, 1)
      <3>1. 1 \in Nat \ {0}
        OBVIOUS
      <3> QED
        BY ONLY <1>4, <1>5, <2>2, <2>3, <2>4, <3>1, ModelsAreSplit
    <2>6. Outputs(ms, TRUE) = ref
      <3>1. 1 \in Nat \ {0}
        OBVIOUS
      <3>2. PICK kept : kept = TRUE
        OBVIOUS
      <3> HIDE DEF ref
      <3>3. Outputs(ms, kept) = ref
        BY ONLY <1>6, <2>3, <2>5, <3>1, OutputsAre DEF ref
      <3> QED
        BY <3>2, <3>3
    <2> QED
      BY <2>1, <2>6
  <1>8. ASSUME NEW r \in Ranks, NEW ms, ms = [k \in DOMAIN Gang(r).tp |-> Gathered(Gang(r).tp[k])]
        PROVE  Outputs(ms, stay) = ref
    <2>1. PICK h : h = Gang(r).tp /\ h = GangsOf(Layout, r)["tp"]
      BY DEF Gang
    <2>2. ASSUME NEW c \in 1..n
          PROVE  DOMAIN h = 1..n /\ h[c] \in Ranks /\ TpAt(Layout, h[c]) = c - 1
      <3>1. r \in RanksOf(Layout)
        BY <1>3
      <3> QED
        BY <1>3, <2>1, <3>1, TpMembers
    <2>3. DOMAIN h = 1..n
      <3>1. 1 \in 1..n
        BY <1>3
      <3> HIDE DEF n
      <3> QED
        BY <2>2, <3>1
    <2>4. ms = [k \in 1..n |-> Gathered(h[k])]
      BY <1>8, <2>1, <2>3
    <2>5. DOMAIN ms = 1..n /\ ms = [k \in 1..n |-> ms[k]]
      BY <2>4
    <2>6. Len(ms) = n
      <3>1. n \in Nat
        BY <1>3
      <3> HIDE DEF n
      <3> QED
        BY ONLY <2>5, <3>1, LenOf
    <2>7. \A k \in 1..n : \A p \in six : ms[k][p] = Mine(p, version, n, k - 1)
      <3> TAKE k \in 1..n
      <3> TAKE p \in six
      <3>1. PICK q : q = h[k] /\ q \in Ranks /\ TpAt(Layout, q) = k - 1
        BY <2>2
      <3>2. p \in Names
        BY <1>3
      <3>3. Gathered(q)[p] = Mine(p, version, n, TpAt(Layout, q))
        BY <1>1, <3>1, <3>2, GatheredIs
      <3> HIDE DEF n
      <3> QED
        BY <2>4, <3>1, <3>3
    <2> HIDE DEF n, ref
    <2>8. SplitInto(ms, w, n)
      BY ONLY <1>3, <1>4, <1>5, <2>5, <2>6, <2>7, ModelsAreSplit
    <2> QED
      BY ONLY <1>3, <1>6, <2>8, OutputsAre DEF ref
  <1> QED
    <2>1. PICK q \in Ranks : mine = [k \in DOMAIN Gang(q).tp |-> Gathered(Gang(q).tp[k])]
      OBVIOUS
    <2> QED
      BY <1>7, <1>8, <2>1 DEF w

\* Whatever the layout, and whatever jobs, trainings and layouts a model has been through:
\* its linear layers and embeddings, split over a tensor parallel gang and sharded over a
\* data parallel one, give the outputs of the undivided model, whether activations stay
\* split between them or not.
THEOREM SplitModelsAgree == ASSUME OnlyWhole PROVE Spec => []ForwardAgrees
  <1>1. Init => ShardsInv
    BY InitShards
  <1>2. ShardsInv /\ [Next]_vars => ShardsInv'
    BY NextShards
  <1>3. ShardsInv => ForwardAgrees
    BY InvForward
  <1> QED
    BY <1>1, <1>2, <1>3, PTL DEF Spec
===============================================================================
