------------------------------ MODULE GangsProofs -----------------------------
(***************************************************************************)
(* Proofs about Gangs, for any number of processes and any layout that is  *)
(* accepted: which ranks make up a gang, a rank's place in it, and that    *)
(* the gangs of a job make up a grid.                                      *)
(***************************************************************************)
EXTENDS Gangs, NaturalsInduction, WellFoundedInduction, TLAPS

\* Induction over numbers: where something fails, there is a first place.
LEMMA LeastNatural ==
    ASSUME NEW T \in SUBSET Nat, T # {}
    PROVE  \E n \in T : \A m \in T : n <= m
  <1> DEFINE R == OpToRel(<, Nat)
  <1>1. IsWellFoundedOn(R, Nat)
    BY NatLessThanWellFounded
  <1>2. PICK n \in T : \A m \in T : ~(<<m, n>> \in R)
    BY <1>1, WFMin
  <1>3. \A m \in T : ~(m < n)
    BY <1>2 DEF OpToRel
  <1> QED
    BY <1>3

LEMMA DivMod ==
    ASSUME NEW a \in Nat, NEW b \in Nat \ {0}
    PROVE  a = (a \div b) * b + (a % b) /\ (a % b) \in 0..(b - 1) /\ a \div b \in Nat
  BY Z3

LEMMA OneQuotient ==
    ASSUME NEW c \in Int, NEW d \in Int, NEW b \in Nat \ {0},
           NEW x \in 0..(b - 1), NEW y \in 0..(b - 1), c * b + x = d * b + y
    PROVE  c = d /\ x = y
  <1>1. \A u \in Int, v \in Int : u < v => u * b + b <= v * b
    <2> TAKE u \in Int, v \in Int
    <2> HAVE u < v
    <2>1. (v - u) * b >= b
      BY Z3
    <2>2. (v - u) * b = v * b - u * b
      BY Z3
    <2>3. u * b \in Int /\ v * b \in Int
      OBVIOUS
    <2> QED
      BY <2>1, <2>2, <2>3
  <1>2. c * b \in Int /\ d * b \in Int
    OBVIOUS
  <1>3. ~(c < d) /\ ~(d < c)
    BY <1>1, <1>2
  <1> QED
    BY <1>3

\* What a number is divided into, when it is given by its parts.
LEMMA PartsAre ==
    ASSUME NEW c \in Nat, NEW b \in Nat \ {0}, NEW x \in 0..(b - 1)
    PROVE  c * b + x \in Nat /\ (c * b + x) \div b = c /\ (c * b + x) % b = x
  <1> DEFINE a == c * b + x
  <1>1. c * b \in Nat
    OBVIOUS
  <1>2. a \in Nat
    BY <1>1
  <1> HIDE DEF a
  <1>3. a = (a \div b) * b + (a % b) /\ (a % b) \in 0..(b - 1) /\ a \div b \in Nat
    BY <1>2, DivMod
  <1> DEFINE q == a \div b
             y == a % b
  <1>4. c * b + x = q * b + y /\ q \in Int /\ y \in 0..(b - 1)
    BY <1>3 DEF a
  <1> HIDE DEF q, y
  <1>5. c = q /\ x = y
    BY <1>4, OneQuotient
  <1> QED
    BY <1>2, <1>5 DEF a, q, y

\* How a number below m * b divides.
LEMMA PartsBelow ==
    ASSUME NEW m \in Nat, NEW b \in Nat \ {0}, NEW a \in 0..(m * b - 1)
    PROVE  a \div b \in 0..(m - 1) /\ a % b \in 0..(b - 1) /\ a = (a \div b) * b + (a % b)
  <1>1. m * b \in Nat
    OBVIOUS
  <1>2. a \in Nat /\ a < m * b
    BY <1>1
  <1>3. a = (a \div b) * b + (a % b) /\ (a % b) \in 0..(b - 1) /\ a \div b \in Nat
    BY <1>2, DivMod
  <1> DEFINE q == a \div b
             y == a % b
  <1>4. a = q * b + y /\ q \in Nat /\ y \in 0..(b - 1)
    BY <1>3
  <1> HIDE DEF q, y
  <1>5. ASSUME m <= q PROVE FALSE
    <2>1. (q - m) * b >= 0
      BY <1>4, <1>5, Z3
    <2>2. (q - m) * b = q * b - m * b
      BY <1>4, Z3
    <2>3. q * b \in Nat
      BY <1>4
    <2> QED
      BY <2>1, <2>2, <2>3, <1>1, <1>2, <1>4
  <1>6. q \in 0..(m - 1)
    BY <1>4, <1>5
  <1> QED
    BY <1>3, <1>6 DEF q, y

\* A column of a mesh: its members leave one remainder.
LEMMA Column ==
    ASSUME NEW n \in Nat \ {0}, NEW k \in Nat \ {0}, n % k = 0, NEW r \in 0..(n - 1)
    PROVE  LET g == MeshColumn(n, k, r % k)
           IN  /\ n \div k \in Nat \ {0} /\ DOMAIN g = 1..(n \div k)
               /\ \A c \in DOMAIN g : g[c] \in 0..(n - 1) /\ g[c] % k = r % k
               /\ \E c \in DOMAIN g : g[c] = r
               /\ \A c, d \in DOMAIN g : g[c] = g[d] => c = d
  <1> DEFINE j == r % k
  <1> DEFINE m == n \div k
  <1> DEFINE g == MeshColumn(n, k, j)
  <1>1. n = m * k /\ m \in Nat
    BY DivMod
  <1>2. j \in 0..(k - 1) /\ r = (r \div k) * k + j /\ r \div k \in Nat
    <2>1. r \in Nat
      OBVIOUS
    <2> QED
      BY <2>1, DivMod
  <1>3. DOMAIN g = 1..m /\ \A c \in 1..m : g[c] = (c - 1) * k + j
    BY DEF MeshColumn
  <1> HIDE DEF g, j, m
  <1>4. ASSUME NEW u \in Nat, NEW v \in Nat, u < v PROVE u * k + k <= v * k
    <2>1. (v - u) * k >= k
      BY <1>4, Z3
    <2>2. (v - u) * k = v * k - u * k
      BY Z3
    <2>3. u * k \in Nat /\ v * k \in Nat
      OBVIOUS
    <2> QED
      BY <2>1, <2>2, <2>3
  <1>5. r \div k < m
    <2> DEFINE e == r \div k
    <2>1. e \in Nat /\ m \in Nat /\ r = e * k + j /\ n = m * k
      BY <1>1, <1>2
    <2> HIDE DEF e
    <2>2. ASSUME m <= e PROVE FALSE
      <3>1. m * k <= e * k
        <4>1. CASE m = e
          BY <4>1, <2>1
        <4>2. CASE m < e
          <5>1. m * k + k <= e * k
            BY <4>2, <2>1, <1>4
          <5>2. m * k \in Nat /\ e * k \in Nat
            BY <2>1
          <5> QED
            BY <5>1, <5>2
        <4> QED
          BY <4>1, <4>2, <2>1, <2>2
      <3>2. m * k \in Nat /\ e * k \in Nat
        BY <2>1
      <3> QED
        BY <3>1, <3>2, <2>1, <1>2
    <2> QED
      BY <2>1, <2>2 DEF e
  <1>6. m # 0
    BY <1>1, <1>2, <1>5
  <1>7. ASSUME NEW c \in 1..m PROVE g[c] \in 0..(n - 1) /\ g[c] % k = j
    <2>1. c - 1 \in Nat /\ c - 1 < m /\ g[c] = (c - 1) * k + j
      BY <1>3, <1>1
    <2> DEFINE e == c - 1
    <2> HIDE DEF e
    <2>2. e \in Nat /\ e < m /\ g[c] = e * k + j
      BY <2>1 DEF e
    <2>3. e * k + k <= m * k /\ e * k \in Nat
      BY <2>2, <1>1, <1>4
    <2>4. g[c] \in 0..(n - 1)
      BY <2>2, <2>3, <1>1, <1>2
    <2>5. g[c] = (g[c] \div k) * k + (g[c] % k) /\ (g[c] % k) \in 0..(k - 1) /\ g[c] \div k \in Nat
      <3> DEFINE v == g[c]
      <3>1. v \in Nat
        BY <2>4
      <3> HIDE DEF v
      <3>2. v = (v \div k) * k + (v % k) /\ (v % k) \in 0..(k - 1) /\ v \div k \in Nat
        BY <3>1, DivMod
      <3> QED
        BY <3>2 DEF v
    <2> DEFINE q == g[c] \div k
    <2> DEFINE x == g[c] % k
    <2>6. e * k + j = q * k + x /\ x \in 0..(k - 1) /\ q \in Nat
      BY <2>2, <2>5
    <2> HIDE DEF q, x
    <2>7. x = j
      BY <2>2, <2>6, <1>2, OneQuotient
    <2> QED
      BY <2>4, <2>7 DEF x
  <1>8. (r \div k) + 1 \in 1..m /\ g[(r \div k) + 1] = r
    <2>1. (r \div k) + 1 \in 1..m
      BY <1>1, <1>2, <1>5
    <2>2. g[(r \div k) + 1] = ((r \div k) + 1 - 1) * k + j
      BY <2>1, <1>3
    <2>3. (r \div k) + 1 - 1 = r \div k
      BY <1>2
    <2> QED
      BY <2>1, <2>2, <2>3, <1>2
  <1>9. ASSUME NEW c \in 1..m, NEW d \in 1..m, g[c] = g[d] PROVE c = d
    <2>1. (c - 1) * k + j = (d - 1) * k + j
      BY <1>3, <1>9
    <2>2. c - 1 \in Int /\ d - 1 \in Int
      OBVIOUS
    <2>3. c - 1 = d - 1
      BY <2>1, <2>2, <1>2, OneQuotient
    <2> QED
      BY <2>3
  <1> QED
    BY <1>1, <1>3, <1>6, <1>7, <1>8, <1>9 DEF g, m, j

Layouts == [size : Nat \ {0}, tp : Nat \ {0}, local : Nat \ {0},
            parallelism : {"ddp", "fsdp", "hybrid"}]

\* The gangs that meet, for each rank.
LEMMA GangIs ==
    ASSUME NEW l \in Layouts, Accepted(l), NEW r \in RanksOf(l)
    PROVE  LET g == GangsOf(l, r)
           IN  /\ g["root"] = MeshRow(l.size, 0)
               /\ g["dp"] = MeshColumn(l.size, l.tp, r % l.tp)
               /\ g["rdp"] = IF l.parallelism = "fsdp" THEN <<r>>
                             ELSE IF l.parallelism = "hybrid" THEN MeshColumn(l.size, l.local, r % l.local)
                             ELSE g["dp"]
               /\ l.parallelism = "fsdp" => g["sdp"] = g["dp"]
               /\ l.parallelism = "hybrid" /\ l.local # 1 => Len(g["sdp"]) = l.local
  <1> DEFINE h == ParallelGangs(l, r)
  <1> DEFINE g == GangsOf(l, r)
  <1> DEFINE dp == MeshColumn(l.size, l.tp, r % l.tp)
  <1>0. /\ l.size \in Nat \ {0} /\ l.tp \in Nat \ {0} /\ l.local \in Nat \ {0}
        /\ l.parallelism \in {"ddp", "fsdp", "hybrid"} /\ r \in 0..(l.size - 1)
    BY DEF Layouts, RanksOf
  <1>1. /\ h = [root |-> MeshRow(l.size, 0), dp |-> dp, rdp |-> dp, sdp |-> <<r>>,
                tp |-> MeshRow(l.tp, r \div l.tp)]
    BY DEF ParallelGangs
  <1>2. CASE l.parallelism = "ddp"
    <2>1. g = h
      BY <1>2 DEF GangsOf
    <2> HIDE DEF g, h, dp
    <2> QED
      BY <1>1, <1>2, <2>1 DEF g, dp
  <1>3. CASE l.parallelism = "fsdp"
    <2>1. g = [h EXCEPT !.rdp = <<r>>, !.sdp = h.dp]
      BY <1>3 DEF GangsOf, FullyShardedGangs
    <2> HIDE DEF g, h, dp
    <2> QED
      BY <1>1, <1>3, <2>1 DEF g, dp
  <1>4. CASE l.parallelism = "hybrid" /\ l.local = 1
    <2>1. g = h
      BY <1>4 DEF GangsOf
    <2>2. l.tp = 1
      BY <1>4 DEF Accepted
    <2> HIDE DEF g, h, dp
    <2>3. g["root"] = MeshRow(l.size, 0) /\ g["dp"] = dp /\ g["rdp"] = dp
      BY <1>1, <2>1
    <2> QED
      BY <1>4, <2>2, <2>3 DEF g, dp
  <1>5. CASE l.parallelism = "hybrid" /\ l.local # 1
    <2> DEFINE d == RankIn(dp, r)
    <2> DEFINE R == Members(dp, MeshColumn(Len(dp), l.local, d % l.local))
    <2> DEFINE S == Members(dp, MeshRow(l.local, d \div l.local))
    <2>0. l.tp = 1
      BY <1>5 DEF Accepted
    <2>1. g = [h EXCEPT !.rdp = R, !.sdp = S]
      <3>1. g = HybridGangs(h, r, l.local)
        BY <1>5 DEF GangsOf
      <3>2. h.dp = dp
        BY <1>1
      <3> HIDE DEF g, h
      <3>3. HybridGangs(h, r, l.local)
              = [h EXCEPT !.rdp = Members(h.dp, MeshColumn(Len(h.dp), l.local, RankIn(h.dp, r) % l.local)),
                          !.sdp = Members(h.dp, MeshRow(l.local, RankIn(h.dp, r) \div l.local))]
        BY DEF HybridGangs
      <3> QED
        BY <3>1, <3>2, <3>3
    <2>2. DOMAIN dp = 1..l.size /\ \A c \in 1..l.size : dp[c] = c - 1
      <3>1. l.size \div 1 = l.size /\ r % 1 = 0
        BY <1>0
      <3>2. dp = [c \in 1..l.size |-> (c - 1) * 1 + 0]
        BY <2>0, <3>1 DEF MeshColumn
      <3>3. \A c \in 1..l.size : (c - 1) * 1 + 0 = c - 1
        BY <1>0
      <3> HIDE DEF dp
      <3> QED
        BY <3>2, <3>3
    <2>3. Len(dp) = l.size
      <3>0. dp = [c \in 1..l.size |-> dp[c]]
        BY ONLY <2>2 DEF MeshColumn
      <3> HIDE DEF dp
      <3>1. \A c \in 1..l.size : dp[c] \in Int
        BY ONLY <1>0, <2>2
      <3>2. dp \in [1..l.size -> Int]
        BY ONLY <3>0, <3>1
      <3>3. dp \in Seq(Int)
        BY ONLY <1>0, <3>2
      <3> QED
        BY ONLY <3>3, <2>2, <1>0
    <2>4. d = r
      <3>1. r + 1 \in DOMAIN dp /\ dp[r + 1] = r
        BY <2>2, <1>0
      <3>2. \A i \in DOMAIN dp : dp[i] = r => i = r + 1
        BY <2>2, <1>0
      <3> HIDE DEF dp
      <3> QED
        BY <3>1, <3>2, <1>0 DEF RankIn
    <2> HIDE DEF dp, d
    <2>5. R = MeshColumn(l.size, l.local, r % l.local)
      <3> DEFINE col == MeshColumn(l.size, l.local, r % l.local)
      <3>1. R = [i \in DOMAIN col |-> dp[col[i] + 1]]
        BY <2>3, <2>4 DEF Members
      <3>2. l.size % l.local = 0
        BY <1>5 DEF Accepted
      <3>3. \A i \in DOMAIN col : col[i] \in 0..(l.size - 1)
        BY <1>0, <3>2, Column
      <3>4. \A i \in DOMAIN col : dp[col[i] + 1] = col[i]
        BY <3>3, <2>2, <1>0
      <3>5. col = [i \in DOMAIN col |-> col[i]]
        BY DEF MeshColumn
      <3> HIDE DEF col, R
      <3> QED
        BY <3>1, <3>4, <3>5 DEF col
    <2>6. Len(S) = l.local
      <3> DEFINE row == MeshRow(l.local, d \div l.local)
      <3>1. S = [i \in 1..l.local |-> dp[row[i] + 1]]
        BY DEF Members, MeshRow
      <3> HIDE DEF S, row
      <3> QED
        BY <3>1, <1>0
    <2> HIDE DEF R, S, h, g
    <2> QED
      BY <1>1, <1>5, <2>1, <2>5, <2>6 DEF g, dp
  <1> QED
    BY <1>0, <1>2, <1>3, <1>4, <1>5

-----------------------------------------------------------------------------
(***************************************************************************)
(* The gangs of a layout make up a grid.                                   *)
(***************************************************************************)
\* The position of a member that is in a gang once.
LEMMA Position ==
    ASSUME NEW g, NEW n \in Nat, DOMAIN g = 1..n, NEW i \in 1..n, NEW r, g[i] = r,
           \A j \in 1..n : g[j] = r => j = i
    PROVE  RankIn(g, r) = i - 1
  <1>1. (CHOOSE j \in DOMAIN g : g[j] = r) = i
    OBVIOUS
  <1> QED
    BY <1>1 DEF RankIn

\* Gangs are sequences of ranks.
LEMMA Lengths ==
    ASSUME NEW n \in Nat, NEW k \in Nat, NEW j \in Int
    PROVE  /\ DOMAIN MeshRow(n, j) = 1..n /\ Len(MeshRow(n, j)) = n
           /\ n \div k \in Nat =>
                /\ DOMAIN MeshColumn(n, k, j) = 1..(n \div k)
                /\ Len(MeshColumn(n, k, j)) = n \div k
  <1>1. MeshRow(n, j) \in Seq(Int) /\ DOMAIN MeshRow(n, j) = 1..n
    <2>1. \A c \in 1..n : j * n + c - 1 \in Int
      OBVIOUS
    <2>2. MeshRow(n, j) \in [1..n -> Int]
      BY <2>1 DEF MeshRow
    <2> QED
      BY <2>2
  <1>2. ASSUME n \div k \in Nat
        PROVE  /\ MeshColumn(n, k, j) \in Seq(Int)
               /\ DOMAIN MeshColumn(n, k, j) = 1..(n \div k)
    <2> DEFINE m == n \div k
    <2>1. \A c \in 1..m : (c - 1) * k + j \in Int
      BY <1>2
    <2>2. MeshColumn(n, k, j) = [c \in 1..m |-> (c - 1) * k + j]
      BY DEF MeshColumn
    <2>3. m \in Nat
      BY <1>2
    <2> HIDE DEF m
    <2>4. MeshColumn(n, k, j) \in [1..m -> Int]
      BY <2>1, <2>2
    <2>5. MeshColumn(n, k, j) \in Seq(Int) /\ DOMAIN MeshColumn(n, k, j) = 1..m
      BY <2>3, <2>4
    <2> QED
      BY <2>5 DEF m
  <1>3. \A s \in Seq(Int) : Len(s) \in Nat /\ DOMAIN s = 1..Len(s)
    OBVIOUS
  <1>4. \A a \in Nat, b \in Nat : 1..a = 1..b => a = b
    OBVIOUS
  <1>5. Len(MeshRow(n, j)) = n
    BY <1>1, <1>3, <1>4
  <1>6. n \div k \in Nat => Len(MeshColumn(n, k, j)) = n \div k
    <2> DEFINE m == n \div k
    <2> DEFINE s == MeshColumn(n, k, j)
    <2>1. m \in Nat => s \in Seq(Int) /\ DOMAIN s = 1..m
      BY <1>2
    <2> HIDE DEF m, s
    <2>2. m \in Nat => Len(s) = m
      BY <2>1, <1>3, <1>4
    <2> QED
      BY <2>2 DEF m, s
  <1> QED
    BY <1>1, <1>2, <1>5, <1>6

\* What a rank's row and its place in the row are, for the lemmas that only pass them on.
Quotient(a, b) == a \div b
Rest(a, b)     == a % b

\* A row of a mesh: its members are adjacent.
LEMMA Row ==
    ASSUME NEW n \in Nat \ {0}, NEW k \in Nat \ {0}, Rest(n, k) = 0, NEW r \in 0..(n - 1),
           NEW g, g = MeshRow(k, Quotient(r, k))
    PROVE  /\ \A c \in 1..k : g[c] \in 0..(n - 1) /\ Quotient(g[c], k) = Quotient(r, k)
           /\ Rest(r, k) + 1 \in 1..k /\ g[Rest(r, k) + 1] = r
           /\ \A c, d \in 1..k : g[c] = g[d] => c = d
  <1> USE DEF Quotient, Rest
  <1> DEFINE m == n \div k
  <1> DEFINE i == r \div k
  <1> DEFINE x == r % k
  <1>0. n % k = 0
    OBVIOUS
  <1>1. n = m * k /\ m \in Nat
    <2>1. n = m * k + (n % k) /\ m \in Nat
      BY DivMod
    <2> HIDE DEF m
    <2>2. m * k \in Nat
      BY <2>1
    <2> QED
      BY <1>0, <2>1, <2>2
  <1>2. r \in Nat
    OBVIOUS
  <1>3. r = i * k + x /\ x \in 0..(k - 1) /\ i \in Nat
    BY <1>2, DivMod
  <1>4. \A c \in 1..k : g[c] = i * k + c - 1
    BY DEF MeshRow
  <1>5. \A c \in Nat, d \in 0..(k - 1) : (c * k + d) \div k = c
    <2> TAKE c \in Nat, d \in 0..(k - 1)
    <2> DEFINE v == c * k + d
    <2>1. c * k \in Nat
      OBVIOUS
    <2>2. v \in Nat
      BY <2>1
    <2>3. v = (v \div k) * k + (v % k) /\ (v % k) \in 0..(k - 1) /\ v \div k \in Nat
      <3> HIDE DEF v
      <3> QED
        BY <2>2, DivMod
    <2> DEFINE q == v \div k
    <2> DEFINE y == v % k
    <2>4. c * k + d = q * k + y /\ y \in 0..(k - 1) /\ q \in Nat
      BY <2>3
    <2> HIDE DEF q, y
    <2>5. c = q
      BY <2>4, OneQuotient
    <2> QED
      BY <2>5 DEF q
  <1> HIDE DEF i, x, m
  <1>6. i * k \in Nat /\ i * k + k <= m * k /\ m * k \in Nat
    <2>1. i < m
      <3>1. ASSUME m <= i PROVE FALSE
        <4>1. (i - m) * k >= 0
          BY <1>1, <1>3, <3>1, Z3
        <4>2. (i - m) * k = i * k - m * k
          BY <1>1, <1>3, Z3
        <4>3. i * k \in Int /\ m * k \in Int
          BY <1>1, <1>3
        <4> QED
          BY <4>1, <4>2, <4>3, <1>1, <1>3
      <3> QED
        BY <3>1, <1>1, <1>3
    <2>2. (m - i) * k >= k
      BY <2>1, <1>1, <1>3, Z3
    <2>3. (m - i) * k = m * k - i * k
      BY <1>1, <1>3, Z3
    <2>4. i * k \in Nat /\ m * k \in Nat
      BY <1>1, <1>3
    <2> QED
      BY <2>2, <2>3, <2>4
  <1>7. ASSUME NEW c \in 1..k PROVE g[c] \in 0..(n - 1) /\ g[c] \div k = i
    <2>1. c - 1 \in 0..(k - 1) /\ g[c] = i * k + (c - 1)
      BY <1>4, <1>6
    <2>2. g[c] \in 0..(n - 1)
      BY <2>1, <1>1, <1>6
    <2>3. (i * k + (c - 1)) \div k = i
      BY <2>1, <1>3, <1>5
    <2> QED
      BY <2>1, <2>2, <2>3
  <1>8. x + 1 \in 1..k /\ g[x + 1] = r
    <2>1. x + 1 \in 1..k
      BY <1>3
    <2> QED
      BY <2>1, <1>3, <1>4, <1>6
  <1>9. \A c, d \in 1..k : g[c] = g[d] => c = d
    BY <1>4, <1>6
  <1> QED
    BY <1>7, <1>8, <1>9 DEF i, x

\* Where a rank is in its column.
LEMMA ColumnPlace ==
    ASSUME NEW n \in Nat \ {0}, NEW k \in Nat \ {0}, n % k = 0, NEW r \in 0..(n - 1)
    PROVE  RankIn(MeshColumn(n, k, r % k), r) = r \div k
  <1> DEFINE g == MeshColumn(n, k, r % k)
  <1> DEFINE m == n \div k
  <1>1. /\ m \in Nat \ {0} /\ DOMAIN g = 1..m /\ \E c \in DOMAIN g : g[c] = r
        /\ \A c, d \in DOMAIN g : g[c] = g[d] => c = d
    <2>1. /\ m \in Nat \ {0} /\ DOMAIN g = 1..m
          /\ \A c \in DOMAIN g : g[c] \in 0..(n - 1) /\ g[c] % k = r % k
          /\ \E c \in DOMAIN g : g[c] = r
          /\ \A c, d \in DOMAIN g : g[c] = g[d] => c = d
      BY Column
    <2> HIDE DEF g, m
    <2> QED
      BY <2>1
  <1>2. \A c \in 1..m : g[c] = (c - 1) * k + (r % k)
    BY DEF MeshColumn
  <1>3. r \in Nat
    OBVIOUS
  <1>4. r = (r \div k) * k + (r % k) /\ (r % k) \in 0..(k - 1) /\ r \div k \in Nat
    BY <1>3, DivMod
  <1> HIDE DEF g, m
  <1>5. PICK c \in 1..m : g[c] = r
    BY <1>1
  <1>6. (c - 1) * k + (r % k) = (r \div k) * k + (r % k) /\ c - 1 \in Int
    BY <1>2, <1>4, <1>5
  <1> DEFINE q == r \div k
  <1> DEFINE x == r % k
  <1> DEFINE e == c - 1
  <1>7. e * k + x = q * k + x /\ e \in Int /\ q \in Int /\ x \in 0..(k - 1)
    BY <1>4, <1>6
  <1> HIDE DEF q, x, e
  <1>8. e = q
    BY <1>7, OneQuotient
  <1>9. \A d \in 1..m : g[d] = r => d = c
    BY <1>1, <1>5
  <1>10. RankIn(g, r) = c - 1
    BY <1>1, <1>5, <1>9, Position
  <1> QED
    BY <1>8, <1>10 DEF e, q, g

\* A row and a column of one mesh cross once.
LEMMA Crossing ==
    ASSUME NEW k \in Nat \ {0}, NEW r \in Nat, NEW m \in Nat,
           Rest(m, k) = Rest(r, k), Quotient(m, k) = Quotient(r, k)
    PROVE  m = r
  BY DivMod DEF Rest, Quotient

\* The gangs that GangIs leaves out.
LEMMA SplitGangs ==
    ASSUME NEW l \in Layouts, Accepted(l), NEW r \in RanksOf(l)
    PROVE  LET g == GangsOf(l, r)
           IN  /\ DOMAIN g = {"root", "dp", "rdp", "sdp", "tp"}
               /\ g["tp"] = MeshRow(l.tp, r \div l.tp)
               /\ g["sdp"] = IF l.parallelism = "fsdp" THEN g["dp"]
                             ELSE IF l.parallelism = "hybrid"
                               THEN MeshRow(l.local, r \div l.local) ELSE <<r>>
  <1> DEFINE dp == MeshColumn(l.size, l.tp, r % l.tp)
  <1> DEFINE h == ParallelGangs(l, r)
  <1> DEFINE g == GangsOf(l, r)
  <1>0. /\ l.size \in Nat \ {0} /\ l.tp \in Nat \ {0} /\ l.local \in Nat \ {0}
        /\ l.parallelism \in {"ddp", "fsdp", "hybrid"} /\ r \in 0..(l.size - 1) /\ r \in Nat
    BY DEF Layouts, RanksOf
  <1>1. h = [root |-> MeshRow(l.size, 0), dp |-> dp, rdp |-> dp, sdp |-> <<r>>,
             tp |-> MeshRow(l.tp, r \div l.tp)]
    BY DEF ParallelGangs
  <1>2. CASE l.parallelism = "ddp"
    <2>1. g = h
      BY <1>2 DEF GangsOf
    <2> HIDE DEF g, h, dp
    <2> QED
      BY <1>1, <1>2, <2>1 DEF g
  <1>3. CASE l.parallelism = "fsdp"
    <2>1. g = [h EXCEPT !.rdp = <<r>>, !.sdp = h.dp]
      BY <1>3 DEF GangsOf, FullyShardedGangs
    <2> HIDE DEF g, h, dp
    <2> QED
      BY <1>1, <1>3, <2>1 DEF g
  <1>4. CASE l.parallelism = "hybrid" /\ l.local = 1
    <2>1. g = h
      BY <1>4 DEF GangsOf
    <2>2. MeshRow(1, r \div 1) = <<r>>
      <3>1. r \div 1 = r /\ 1..1 = {1} /\ r * 1 + 1 - 1 = r
        BY <1>0
      <3>2. MeshRow(1, r) = [c \in 1..1 |-> r * 1 + c - 1]
        BY DEF MeshRow
      <3>3. MeshRow(1, r) = <<r>>
        BY <3>1, <3>2
      <3> QED
        BY <3>1, <3>3
    <2> HIDE DEF g, h, dp
    <2> QED
      BY <1>1, <1>4, <2>1, <2>2 DEF g
  <1>5. CASE l.parallelism = "hybrid" /\ l.local # 1
    <2> DEFINE d == RankIn(dp, r)
    <2> DEFINE R == Members(dp, MeshColumn(Len(dp), l.local, d % l.local))
    <2> DEFINE S == Members(dp, MeshRow(l.local, d \div l.local))
    <2>0. l.tp = 1 /\ l.size % 1 = 0 /\ l.size % l.local = 0
      BY <1>0, <1>5 DEF Accepted
    <2>1. g = [h EXCEPT !.rdp = R, !.sdp = S]
      <3>1. g = HybridGangs(h, r, l.local)
        BY <1>5 DEF GangsOf
      <3>2. h.dp = dp
        BY <1>1
      <3> HIDE DEF g, h
      <3>3. HybridGangs(h, r, l.local)
              = [h EXCEPT !.rdp = Members(h.dp, MeshColumn(Len(h.dp), l.local, RankIn(h.dp, r) % l.local)),
                          !.sdp = Members(h.dp, MeshRow(l.local, RankIn(h.dp, r) \div l.local))]
        BY DEF HybridGangs
      <3> QED
        BY <3>1, <3>2, <3>3
    <2>2. d = r
      <3> DEFINE n == l.size
      <3>1. n \in Nat \ {0} /\ n % 1 = 0 /\ 1 \in Nat \ {0} /\ r \in 0..(n - 1)
        BY <1>0, <2>0
      <3>2. dp = MeshColumn(n, 1, r % 1)
        BY <2>0
      <3> HIDE DEF n, dp
      <3>3. RankIn(MeshColumn(n, 1, r % 1), r) = r \div 1
        BY <3>1, ColumnPlace
      <3>4. r \div 1 = r
        BY <1>0
      <3> QED
        BY <3>2, <3>3, <3>4
    <2>3. \A c \in 0..(l.size - 1) : dp[c + 1] = c
      <3>1. l.size \div 1 = l.size /\ r % 1 = 0
        BY <1>0
      <3>2. dp = [c \in 1..l.size |-> (c - 1) * 1 + 0]
        BY <2>0, <3>1 DEF MeshColumn
      <3>3. \A c \in 0..(l.size - 1) : c + 1 \in 1..l.size /\ (c + 1 - 1) * 1 + 0 = c
        BY <1>0
      <3> HIDE DEF dp
      <3> QED
        BY <3>2, <3>3
    <2>4. S = MeshRow(l.local, r \div l.local)
      <3> DEFINE k == l.local
      <3> DEFINE row == MeshRow(k, r \div k)
      <3>1. DOMAIN row = 1..k /\ row = [i \in 1..k |-> row[i]]
        BY DEF MeshRow
      <3>2. S = [i \in 1..k |-> dp[row[i] + 1]]
        BY <2>2, <3>1 DEF Members
      <3> DEFINE n == l.size
      <3>3. n \in Nat \ {0} /\ n % k = 0 /\ k \in Nat \ {0} /\ r \in 0..(n - 1)
        BY <1>0, <2>0
      <3>7. row = MeshRow(k, Quotient(r, k)) /\ Rest(n, k) = 0
        BY <3>3 DEF Quotient, Rest
      <3> HIDE DEF n, k, dp, S, row
      <3>4. \A c \in 1..k : row[c] \in 0..(n - 1)
        BY <3>3, <3>7, Row
      <3>5. \A c \in 1..k : dp[row[c] + 1] = row[c]
        BY <3>4, <2>3 DEF n
      <3>6. S = row
        BY <3>1, <3>2, <3>5
      <3> QED
        BY <3>6 DEF row, k
    <2> HIDE DEF R, S, h, g, dp
    <2> QED
      BY <1>1, <1>5, <2>1, <2>4 DEF g
  <1> QED
    BY <1>0, <1>2, <1>3, <1>4, <1>5

\* What a rank knows of its column, of its row and of the whole mesh.
LEMMA InColumn ==
    ASSUME NEW n \in Nat \ {0}, NEW k \in Nat \ {0}, Rest(n, k) = 0, NEW r \in 0..(n - 1),
           NEW g, g = MeshColumn(n, k, Rest(r, k))
    PROVE  /\ Len(g) = Quotient(n, k) /\ Range(g) \subseteq 0..(n - 1) /\ r \in Range(g)
           /\ RankIn(g, r) = Quotient(r, k) /\ \A m \in Range(g) : Rest(m, k) = Rest(r, k)
  <1> USE DEF Quotient, Rest
  <1>1. /\ n \div k \in Nat \ {0} /\ DOMAIN g = 1..(n \div k)
        /\ \A c \in DOMAIN g : g[c] \in 0..(n - 1) /\ g[c] % k = r % k
        /\ \E c \in DOMAIN g : g[c] = r
        /\ \A c, d \in DOMAIN g : g[c] = g[d] => c = d
    <2> DEFINE h == MeshColumn(n, k, r % k)
    <2>1. /\ n \div k \in Nat \ {0} /\ DOMAIN h = 1..(n \div k)
          /\ \A c \in DOMAIN h : h[c] \in 0..(n - 1) /\ h[c] % k = r % k
          /\ \E c \in DOMAIN h : h[c] = r
          /\ \A c, d \in DOMAIN h : h[c] = h[d] => c = d
      BY Column
    <2>2. g = h
      OBVIOUS
    <2> HIDE DEF h
    <2> QED
      BY <2>1, <2>2
  <1>2. RankIn(g, r) = r \div k
    BY ColumnPlace
  <1>3. r % k \in Int
    OBVIOUS
  <1>4. Len(g) = n \div k
    BY <1>1, <1>3, Lengths
  <1>5. Range(g) \subseteq 0..(n - 1) /\ r \in Range(g) /\ \A m \in Range(g) : m % k = r % k
    BY <1>1 DEF Range
  <1> QED
    BY <1>2, <1>4, <1>5

LEMMA InRow ==
    ASSUME NEW n \in Nat \ {0}, NEW k \in Nat \ {0}, Rest(n, k) = 0, NEW r \in 0..(n - 1),
           NEW g, g = MeshRow(k, Quotient(r, k))
    PROVE  /\ Len(g) = k /\ Range(g) \subseteq 0..(n - 1) /\ r \in Range(g)
           /\ RankIn(g, r) = Rest(r, k) /\ \A m \in Range(g) : Quotient(m, k) = Quotient(r, k)
  <1>0. r \in Nat
    OBVIOUS
  <1>1. Quotient(r, k) \in Int /\ Rest(r, k) \in Nat
    BY <1>0, DivMod DEF Quotient, Rest
  <1>2. DOMAIN g = 1..k /\ Len(g) = k
    BY <1>1, Lengths
  <1>3. /\ \A c \in 1..k : g[c] \in 0..(n - 1) /\ Quotient(g[c], k) = Quotient(r, k)
        /\ Rest(r, k) + 1 \in 1..k /\ g[Rest(r, k) + 1] = r
        /\ \A c, d \in 1..k : g[c] = g[d] => c = d
    BY Row
  <1> DEFINE i == Rest(r, k) + 1
  <1>4. i \in 1..k /\ g[i] = r /\ i - 1 = Rest(r, k)
    BY <1>1, <1>3
  <1> HIDE DEF i
  <1>5. \A c \in 1..k : g[c] = r => c = i
    BY <1>3, <1>4
  <1>6. RankIn(g, r) = i - 1
    BY <1>2, <1>4, <1>5, Position
  <1>7. Range(g) \subseteq 0..(n - 1) /\ r \in Range(g)
    BY <1>2, <1>3, <1>4 DEF Range
  <1>8. \A m \in Range(g) : Quotient(m, k) = Quotient(r, k)
    BY <1>2, <1>3 DEF Range
  <1> QED
    BY <1>2, <1>4, <1>6, <1>7, <1>8

LEMMA InAll ==
    ASSUME NEW n \in Nat \ {0}, NEW r \in 0..(n - 1)
    PROVE  LET g == MeshRow(n, 0)
           IN  Len(g) = n /\ Range(g) = 0..(n - 1) /\ RankIn(g, r) = r
  <1> DEFINE g == MeshRow(n, 0)
  <1>1. DOMAIN g = 1..n /\ Len(g) = n
    BY Lengths
  <1>2. \A c \in 1..n : g[c] = c - 1
    <2>1. \A c \in 1..n : g[c] = 0 * n + c - 1
      BY DEF MeshRow
    <2>2. \A c \in 1..n : 0 * n + c - 1 = c - 1
      OBVIOUS
    <2> HIDE DEF g
    <2> QED
      BY <2>1, <2>2
  <1> HIDE DEF g
  <1>3. \A q \in 0..(n - 1) : q + 1 \in DOMAIN g /\ g[q + 1] = q
    BY <1>1, <1>2
  <1>4. Range(g) = 0..(n - 1)
    <2>1. \A c \in DOMAIN g : g[c] \in 0..(n - 1)
      BY <1>1, <1>2
    <2> QED
      BY <2>1, <1>3 DEF Range
  <1>5. r + 1 \in 1..n /\ g[r + 1] = r /\ \A c \in 1..n : g[c] = r => c = r + 1
    BY <1>1, <1>2, <1>3
  <1>6. RankIn(g, r) = (r + 1) - 1
    BY <1>1, <1>5, Position
  <1> QED
    BY <1>1, <1>4, <1>6 DEF g

LEMMA InOwn ==
    ASSUME NEW r \in Nat
    PROVE  Len(<<r>>) = 1 /\ Range(<<r>>) = {r} /\ RankIn(<<r>>, r) = 0
  <1> DEFINE g == <<r>>
  <1>1. DOMAIN g = 1..1 /\ g[1] = r /\ Len(g) = 1
    OBVIOUS
  <1> HIDE DEF g
  <1>2. \A j \in 1..1 : g[j] = r => j = 1
    OBVIOUS
  <1>3. RankIn(g, r) = 1 - 1
    <2>1. 1 \in Nat
      OBVIOUS
    <2>2. \A i \in 1..1 : g[i] = r => RankIn(g, r) = i - 1
      BY <2>1, <1>1, <1>2, Position
    <2> QED
      BY <2>2, <1>1
  <1>4. Range(g) = {r}
    BY <1>1 DEF Range
  <1> QED
    BY <1>1, <1>3, <1>4 DEF g

\* A gang and the process alone are a way to divide the gang.
LEMMA DividedOff ==
    ASSUME NEW r \in Nat, NEW g, NEW n \in Nat, Len(g) = n, r \in Range(g)
    PROVE  Cross(r, g, <<r>>, g) /\ Cross(r, <<r>>, g, g)
  <1>1. Len(<<r>>) = 1 /\ Range(<<r>>) = {r}
    BY InOwn
  <1>2. n * 1 = n /\ 1 * n = n
    OBVIOUS
  <1>3. Range(g) \cap {r} = {r} /\ Range(g) \cup {r} \subseteq Range(g)
    OBVIOUS
  <1> QED
    BY <1>1, <1>2, <1>3 DEF Cross

\* The gangs that a layout which is accepted divides a job into make up a grid: each
\* process is in one gang of each kind, which the members agree on; the data parallel and
\* the tensor parallel gangs cross, and so do the replicated and the sharded ones within a
\* data parallel gang; the gangs that shall stay on a host are of adjacent processes.
THEOREM AcceptedLayoutsAreGrids ==
    ASSUME NEW l \in Layouts, Accepted(l)
    PROVE  Grid(l)
  <1> DEFINE n == l.size
  <1> DEFINE tp == l.tp
  <1> DEFINE k == l.local
  <1>0. /\ n \in Nat \ {0} /\ tp \in Nat \ {0} /\ k \in Nat \ {0} /\ Rest(n, tp) = 0
        /\ l.parallelism \in {"ddp", "fsdp", "hybrid"} /\ RanksOf(l) = 0..(n - 1)
        /\ l.parallelism = "hybrid" => tp = 1 /\ Rest(n, k) = 0
    BY DEF Layouts, Accepted, RanksOf, Rest
  <1> DEFINE Root == MeshRow(n, 0)
  <1> DEFINE Col(w, q) == MeshColumn(n, w, Rest(q, w))
  <1> DEFINE Adj(w, q) == MeshRow(w, Quotient(q, w))
  <1>1. ASSUME NEW q \in 0..(n - 1)
        PROVE  LET g == GangsOf(l, q)
               IN  /\ DOMAIN g = {"root", "dp", "rdp", "sdp", "tp"}
                   /\ g["root"] = Root /\ g["dp"] = Col(tp, q) /\ g["tp"] = Adj(tp, q)
                   /\ l.parallelism = "ddp" => g["rdp"] = Col(tp, q) /\ g["sdp"] = <<q>>
                   /\ l.parallelism = "fsdp" => g["rdp"] = <<q>> /\ g["sdp"] = Col(tp, q)
                   /\ l.parallelism = "hybrid" => g["rdp"] = Col(k, q) /\ g["sdp"] = Adj(k, q)
    <2> DEFINE g == GangsOf(l, q)
    <2>1. q \in RanksOf(l)
      BY <1>0, <1>1
    <2>2. /\ g["root"] = MeshRow(l.size, 0)
          /\ g["dp"] = MeshColumn(l.size, l.tp, q % l.tp)
          /\ g["rdp"] = IF l.parallelism = "fsdp" THEN <<q>>
                        ELSE IF l.parallelism = "hybrid" THEN MeshColumn(l.size, l.local, q % l.local)
                        ELSE g["dp"]
      BY <2>1, GangIs
    <2>3. /\ DOMAIN g = {"root", "dp", "rdp", "sdp", "tp"}
          /\ g["tp"] = MeshRow(l.tp, q \div l.tp)
          /\ g["sdp"] = IF l.parallelism = "fsdp" THEN g["dp"]
                        ELSE IF l.parallelism = "hybrid"
                          THEN MeshRow(l.local, q \div l.local) ELSE <<q>>
      BY <2>1, SplitGangs
    <2>4. /\ MeshColumn(n, tp, q % tp) = Col(tp, q) /\ MeshColumn(n, k, q % k) = Col(k, q)
          /\ MeshRow(tp, q \div tp) = Adj(tp, q) /\ MeshRow(k, q \div k) = Adj(k, q)
      BY DEF Rest, Quotient
    <2> HIDE DEF g, Col, Adj
    <2> QED
      BY <2>2, <2>3, <2>4 DEF g
  <1> HIDE DEF n, tp, k
  <1>2. ASSUME NEW w \in Nat \ {0}, Rest(n, w) = 0, NEW q \in 0..(n - 1)
        PROVE  LET c == Col(w, q)
                   a == Adj(w, q)
               IN  /\ Len(c) = Quotient(n, w) /\ Range(c) \subseteq 0..(n - 1) /\ q \in Range(c)
                   /\ RankIn(c, q) = Quotient(q, w) /\ \A m \in Range(c) : Col(w, m) = c
                   /\ Len(a) = w /\ Range(a) \subseteq 0..(n - 1) /\ q \in Range(a)
                   /\ RankIn(a, q) = Rest(q, w) /\ \A m \in Range(a) : Adj(w, m) = a
                   /\ \A m \in Range(a) : Quotient(m, w) = Quotient(q, w)
    <2> DEFINE c == Col(w, q)
    <2> DEFINE a == Adj(w, q)
    <2>1. /\ Len(c) = Quotient(n, w) /\ Range(c) \subseteq 0..(n - 1) /\ q \in Range(c)
          /\ RankIn(c, q) = Quotient(q, w) /\ \A m \in Range(c) : Rest(m, w) = Rest(q, w)
      <3>1. c = MeshColumn(n, w, Rest(q, w))
        OBVIOUS
      <3> HIDE DEF c
      <3> QED
        BY <3>1, <1>0, <1>2, InColumn
    <2>2. /\ Len(a) = w /\ Range(a) \subseteq 0..(n - 1) /\ q \in Range(a)
          /\ RankIn(a, q) = Rest(q, w) /\ \A m \in Range(a) : Quotient(m, w) = Quotient(q, w)
      <3>1. a = MeshRow(w, Quotient(q, w))
        OBVIOUS
      <3> HIDE DEF a
      <3> QED
        BY <3>1, <1>0, <1>2, InRow
    <2>3. \A m \in Range(c) : Col(w, m) = c
      BY <2>1
    <2>4. \A m \in Range(a) : Adj(w, m) = a
      BY <2>2
    <2> HIDE DEF c, a, Col, Adj
    <2> QED
      BY <2>1, <2>2, <2>3, <2>4 DEF c, a
  <1> SUFFICES ASSUME NEW r \in 0..(n - 1)
      PROVE  LET g == GangsOf(l, r)
             IN  /\ \A kind \in DOMAIN g : r \in Range(g[kind]) /\ Agreed(l, r, kind)
                 /\ Cross(r, g.dp, g.tp, g.root)
                 /\ Cross(r, g.rdp, g.sdp, g.dp)
                 /\ \A m \in Range(g.tp) : m \div l.tp = r \div l.tp
                 /\ l.parallelism = "hybrid" =>
                      \A m \in Range(g.sdp) : m \div l.local = r \div l.local
                 /\ RankIn(g.dp, r) = RankIn(g.rdp, r) * Len(g.sdp) + RankIn(g.sdp, r)
                 /\ \A kind \in DOMAIN g : r = 0 => RankIn(g[kind], r) = 0
    BY <1>0 DEF Grid
  <1> DEFINE g == GangsOf(l, r)
  <1>3. /\ DOMAIN g = {"root", "dp", "rdp", "sdp", "tp"}
        /\ g["root"] = Root /\ g["dp"] = Col(tp, r) /\ g["tp"] = Adj(tp, r)
        /\ l.parallelism = "ddp" => g["rdp"] = Col(tp, r) /\ g["sdp"] = <<r>>
        /\ l.parallelism = "fsdp" => g["rdp"] = <<r>> /\ g["sdp"] = Col(tp, r)
        /\ l.parallelism = "hybrid" => g["rdp"] = Col(k, r) /\ g["sdp"] = Adj(k, r)
    BY <1>1
  <1>4. r \in Nat /\ Len(<<r>>) = 1 /\ Range(<<r>>) = {r} /\ RankIn(<<r>>, r) = 0
    BY InOwn
  <1>5. Len(Root) = n /\ Range(Root) = 0..(n - 1) /\ RankIn(Root, r) = r
    <2>1. n \in Nat \ {0}
      BY <1>0
    <2> QED
      BY <2>1, InAll
  \* A gang of one kind: what there is to show of it.
  <1> DEFINE Kind(kind) ==
        /\ r \in Range(g[kind]) /\ Range(g[kind]) \subseteq 0..(n - 1)
        /\ \A m \in Range(g[kind]) : GangsOf(l, m)[kind] = g[kind]
        /\ r = 0 => RankIn(g[kind], r) = 0
  <1>6. \A w \in Nat \ {0} : Quotient(0, w) = 0 /\ Rest(0, w) = 0
    BY Z3 DEF Quotient, Rest
  <1> HIDE DEF g, Root, Col, Adj
  <1>7. Kind("root")
    BY <1>1, <1>3, <1>5
  <1>8. Kind("dp")
    <2>1. /\ r \in Range(Col(tp, r)) /\ Range(Col(tp, r)) \subseteq 0..(n - 1)
          /\ RankIn(Col(tp, r), r) = Quotient(r, tp)
          /\ \A m \in Range(Col(tp, r)) : Col(tp, m) = Col(tp, r)
      BY <1>0, <1>2
    <2> QED
      BY <1>0, <1>1, <1>3, <1>6, <2>1
  <1>9. Kind("tp")
    <2>1. /\ r \in Range(Adj(tp, r)) /\ Range(Adj(tp, r)) \subseteq 0..(n - 1)
          /\ RankIn(Adj(tp, r), r) = Rest(r, tp)
          /\ \A m \in Range(Adj(tp, r)) : Adj(tp, m) = Adj(tp, r)
      BY <1>0, <1>2
    <2> QED
      BY <1>0, <1>1, <1>3, <1>6, <2>1
  \* A row and a column of one mesh are a way to divide it.
  <1>10. ASSUME NEW w \in Nat \ {0}, Rest(n, w) = 0,
                NEW whole, Len(whole) = n, Range(whole) = 0..(n - 1)
         PROVE  /\ Cross(r, Col(w, r), Adj(w, r), whole)
                /\ r = RankIn(Col(w, r), r) * Len(Adj(w, r)) + RankIn(Adj(w, r), r)
    <2> DEFINE c == Col(w, r)
    <2> DEFINE a == Adj(w, r)
    <2>1. /\ Len(c) = Quotient(n, w) /\ Range(c) \subseteq 0..(n - 1) /\ r \in Range(c)
          /\ RankIn(c, r) = Quotient(r, w)
          /\ Len(a) = w /\ Range(a) \subseteq 0..(n - 1) /\ r \in Range(a)
          /\ RankIn(a, r) = Rest(r, w) /\ \A m \in Range(a) : Quotient(m, w) = Quotient(r, w)
      BY <1>2, <1>10
    <2>2. \A m \in Range(c) : Rest(m, w) = Rest(r, w)
      <3>1. c = MeshColumn(n, w, Rest(r, w)) /\ n \in Nat \ {0}
        BY <1>0 DEF Col
      <3> HIDE DEF c
      <3> QED
        BY <1>10, <3>1, InColumn
    <2> HIDE DEF c, a
    <2>3. \A m \in Range(c) \cap Range(a) : m = r
      <3> TAKE m \in Range(c) \cap Range(a)
      <3>1. Rest(m, w) = Rest(r, w) /\ Quotient(m, w) = Quotient(r, w)
        BY <2>1, <2>2
      <3>2. m \in Nat
        BY <2>1, <1>0
      <3> QED
        BY <3>1, <3>2, <1>4, Crossing
    <2>4. Quotient(n, w) \in Nat /\ n = Quotient(n, w) * w + Rest(n, w)
      BY <1>0, DivMod DEF Quotient, Rest
    <2>5. n = Quotient(n, w) * w
      <3>1. Quotient(n, w) * w \in Nat
        BY <2>4
      <3> QED
        BY <2>4, <3>1, <1>10
    <2>6. Cross(r, c, a, whole)
      BY <1>10, <2>1, <2>3, <2>5 DEF Cross
    <2>7. r = Quotient(r, w) * w + Rest(r, w)
      BY <1>4, DivMod DEF Quotient, Rest
    <2> QED
      BY <2>1, <2>6, <2>7 DEF c, a
  <1>11. Len(Col(tp, r)) \in Nat /\ RankIn(Col(tp, r), r) \in Nat
    <2>1. Len(Col(tp, r)) = Quotient(n, tp) /\ RankIn(Col(tp, r), r) = Quotient(r, tp)
      BY <1>0, <1>2
    <2>2. Quotient(n, tp) \in Nat /\ Quotient(r, tp) \in Nat
      BY <1>0, <1>4, DivMod DEF Quotient
    <2> QED
      BY <2>1, <2>2
  \* The replicated and the sharded gangs.
  <1> DEFINE Halves ==
        /\ Kind("rdp") /\ Kind("sdp") /\ Cross(r, g["rdp"], g["sdp"], g["dp"])
        /\ RankIn(g["dp"], r) = RankIn(g["rdp"], r) * Len(g["sdp"]) + RankIn(g["sdp"], r)
        /\ l.parallelism = "hybrid" => \A m \in Range(g["sdp"]) : Quotient(m, k) = Quotient(r, k)
  <1>12. ASSUME l.parallelism # "hybrid" PROVE Halves
    <2> DEFINE dp == Col(tp, r)
    <2>1. Cross(r, dp, <<r>>, dp) /\ Cross(r, <<r>>, dp, dp)
      <3>1. r \in Range(dp)
        BY <1>3, <1>8
      <3>2. Len(dp) \in Nat
        BY <1>11
      <3> HIDE DEF dp
      <3> QED
        BY <1>4, <3>1, <3>2, DividedOff
    <2>2. /\ RankIn(dp, r) = RankIn(dp, r) * Len(<<r>>) + RankIn(<<r>>, r)
          /\ RankIn(dp, r) = RankIn(<<r>>, r) * Len(dp) + RankIn(dp, r)
      <3> DEFINE at == RankIn(dp, r)
      <3> DEFINE len == Len(dp)
      <3>1. at \in Nat /\ len \in Nat
        BY <1>11
      <3> HIDE DEF at, len
      <3>2. at = at * 1 + 0 /\ at = 0 * len + at
        BY <3>1
      <3> QED
        BY <3>2, <1>4 DEF at, len
    <2> HIDE DEF dp
    <2>3. CASE l.parallelism = "ddp"
      <3>1. Kind("rdp")
        BY <1>1, <1>3, <1>8, <2>3
      <3>2. Kind("sdp")
        BY <1>1, <1>3, <1>4, <2>3
      <3>3. g["dp"] = dp /\ g["rdp"] = dp /\ g["sdp"] = <<r>>
        BY <1>3, <2>3 DEF dp
      <3> HIDE DEF Kind
      <3> QED
        BY <1>12, <2>1, <2>2, <3>1, <3>2, <3>3
    <2>4. CASE l.parallelism = "fsdp"
      <3>1. Kind("sdp")
        BY <1>1, <1>3, <1>8, <2>4
      <3>2. Kind("rdp")
        BY <1>1, <1>3, <1>4, <2>4
      <3>3. g["dp"] = dp /\ g["rdp"] = <<r>> /\ g["sdp"] = dp
        BY <1>3, <2>4 DEF dp
      <3> HIDE DEF Kind
      <3> QED
        BY <1>12, <2>1, <2>2, <3>1, <3>2, <3>3
    <2> QED
      BY <1>0, <1>12, <2>3, <2>4
  <1>13. ASSUME l.parallelism = "hybrid" PROVE Halves
    <2>0. tp = 1 /\ Rest(n, k) = 0 /\ Rest(n, 1) = 0 /\ 1 \in Nat \ {0}
      BY <1>0, <1>13
    <2>1. g["dp"] = Col(1, r) /\ g["rdp"] = Col(k, r) /\ g["sdp"] = Adj(k, r)
      BY <1>3, <1>13, <2>0
    <2>2. Quotient(n, 1) = n /\ Quotient(r, 1) = r
      BY <1>0, <1>4 DEF Quotient
    <2>3. Len(Col(1, r)) = n /\ RankIn(Col(1, r), r) = r
      <3>1. Len(Col(1, r)) = Quotient(n, 1) /\ RankIn(Col(1, r), r) = Quotient(r, 1)
        BY <1>2, <2>0
      <3> QED
        BY <2>2, <3>1
    <2>4. Range(Col(1, r)) = 0..(n - 1)
      <3>1. \A q \in 0..(n - 1) : q \in Range(Col(1, q)) /\ Range(Col(1, q)) \subseteq 0..(n - 1)
        BY <1>2, <2>0
      <3>2. \A q \in 0..(n - 1) : Col(1, q) = Col(1, r)
        <4>1. \A q \in Nat : q % 1 = 0
          BY Z3
        <4>2. n \in Nat
          BY <1>0
        <4>3. \A q \in 0..(n - 1) : Rest(q, 1) = 0
          BY <4>1, <4>2 DEF Rest
        <4> QED
          BY <4>3 DEF Col
      <3> QED
        BY <3>1, <3>2
    <2>5. Cross(r, Col(k, r), Adj(k, r), Col(1, r))
          /\ r = RankIn(Col(k, r), r) * Len(Adj(k, r)) + RankIn(Adj(k, r), r)
      BY <1>10, <1>0, <2>0, <2>3, <2>4
    <2>6. /\ r \in Range(Col(k, r)) /\ Range(Col(k, r)) \subseteq 0..(n - 1)
          /\ RankIn(Col(k, r), r) = Quotient(r, k)
          /\ \A m \in Range(Col(k, r)) : Col(k, m) = Col(k, r)
          /\ r \in Range(Adj(k, r)) /\ Range(Adj(k, r)) \subseteq 0..(n - 1)
          /\ RankIn(Adj(k, r), r) = Rest(r, k)
          /\ \A m \in Range(Adj(k, r)) : Adj(k, m) = Adj(k, r)
          /\ \A m \in Range(Adj(k, r)) : Quotient(m, k) = Quotient(r, k)
      BY <1>0, <1>2, <2>0
    <2>7. Kind("rdp")
      BY <1>0, <1>1, <1>6, <1>13, <2>1, <2>6
    <2>8. Kind("sdp")
      BY <1>0, <1>1, <1>6, <1>13, <2>1, <2>6
    <2> HIDE DEF Kind
    <2> QED
      BY <2>1, <2>3, <2>5, <2>6, <2>7, <2>8
  <1>14. Halves
    <2> HIDE DEF Halves
    <2> QED
      BY <1>12, <1>13
  <1>15. Cross(r, g["dp"], g["tp"], g["root"])
    BY <1>10, <1>0, <1>3, <1>5
  <1>16. \A m \in Range(g["tp"]) : Quotient(m, tp) = Quotient(r, tp)
    BY <1>0, <1>2, <1>3
  <1>17. \A kind \in {"root", "dp", "rdp", "sdp", "tp"} :
            r \in Range(g[kind]) /\ Agreed(l, r, kind) /\ (r = 0 => RankIn(g[kind], r) = 0)
    <2>1. \A kind \in {"root", "dp", "rdp", "sdp", "tp"} : Kind(kind)
      BY <1>7, <1>8, <1>9, <1>14
    <2>2. ASSUME NEW kind, Kind(kind) PROVE Agreed(l, r, kind)
      BY <2>2 DEF Agreed, g
    <2> QED
      BY <2>1, <2>2
  <1> QED
    BY <1>3, <1>14, <1>15, <1>16, <1>17 DEF g, tp, k, Quotient
===============================================================================
