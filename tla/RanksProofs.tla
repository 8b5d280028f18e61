----------------------------- MODULE RanksProofs ------------------------------
(***************************************************************************)
(* Proofs about what the ranks of a job do together.                       *)
(*                                                                         *)
(* Evaluation, for any layout of processes, any units and shards and any   *)
(* number of validations: what a rank does to its objects, by itself or in *)
(* a collective, is stated once for each step, field by field (Effect).    *)
(* The invariants about one rank (Undisturbed, Counts) are then proved of  *)
(* the effects; those that relate ranks (Abreast) or what is recorded      *)
(* (Filed) need to know who is in a collective besides.                    *)
(*                                                                         *)
(* Bringup, for any tasks, any layouts of any number of ranks over gangs   *)
(* and any number of failures: the flow of the programs is stated first,   *)
(* which of a program's steps come before which others.                    *)
(***************************************************************************)
EXTENDS Evaluation, Bringup, GangsProofs, FiniteSetTheorems, TLAPS

-----------------------------------------------------------------------------
(***************************************************************************)
(* Evaluation.                                                             *)
(***************************************************************************)
\* The tasks of a job: the steps of the ranks and stop requests.
EvalSpec == EvalInit /\ [][EvalNext]_evalVars

\* The places where a rank has the random numbers of the training, and those where it has
\* put them aside for a task, which it reads batches for in some.
Outside == {"training", "earlyStop", "loadScores", "begin", "score", "saveScore", "reset", "stopFlag"}
Reading == {"poll", "read", "batch"}
Closing == {"metrics", "record", "barrier"}
Inside  == Reading \cup Closing

\* Those where nothing is left of the last validation.
Given == {"training", "earlyStop", "stopFlag"}

\* The objects of a rank: a record of these fields.
Fields ==
    {"run", "unit", "read", "hand", "bag", "rng", "kept", "training", "hasRun", "best",
     "inFlight", "score"}

Objects(s) == s = [f \in Fields |-> s[f]]

\* The units of task e, and the batches of rank d of the data parallel gang in unit u.
Units(e)       == 1..Len(e.units)
Shard(e, u, d) == e.units[u].shards[d + 1]
DPSize(e)      == e.layout.size \div e.layout.tp

\* Readers of task e at the start of their data.
AtStart(e) == [u \in Units(e) |-> 0]

\* Random numbers of a task after n draws.
Drawn(n) == [seed |-> "eval", draws |-> n]

\* The random numbers of the training of a rank in state s: one draw for each step.
TrainingDraws(s) == [seed |-> "train", draws |-> s.run]

-----------------------------------------------------------------------------
(***************************************************************************)
(* The invariants.                                                         *)
(***************************************************************************)
\* Where a rank is at `where' with its objects in state s, what it has taken over for a
\* task and not given back.
Undisturbed(where, s, e) ==
    /\ where \in Outside => s.rng = TrainingDraws(s)
    /\ where \in Inside => s.kept = TrainingDraws(s) /\ ~s.training
    /\ where \in Given => s.training /\ ~s.hasRun /\ s.read = AtStart(e)

\* How far it is in task e, as rank d of its data parallel gang: which batches it has read
\* and counted, and how many random numbers it has drawn.
Counts(where, s, e, d) ==
    /\ s.run \in Nat /\ s.unit \in Units(e) /\ s.read \in [Units(e) -> Nat]
    /\ \A u \in Units(e) : s.read[u] <= Shard(e, u, d) /\ (u # s.unit => s.read[u] = 0)
    /\ where \in Outside => s.unit = 1 /\ s.bag = {}
    /\ where \in Outside \cup Closing => s.read = AtStart(e)
    /\ where \in Outside \cup Inside =>
         /\ s.hand \in {0, 1} /\ (where # "batch" => s.hand = 0)
    /\ where \in Reading =>
         /\ s.hand <= s.read[s.unit]
         /\ s.bag = Tally(e, s.unit, d, s.read[s.unit] - s.hand)
         /\ s.rng = Drawn(DrawsBefore(e, s.unit, d) + s.read[s.unit] - s.hand)
    /\ where = "metrics" => s.bag = Tally(e, s.unit, d, BatchesOf(e, s.unit, d))
    /\ where \in Closing => s.rng = Drawn(DrawsBefore(e, s.unit + 1, d))

\* The ranks of a data parallel gang read side by side until the shortest shard has ended.
Abreast(a, s, b, t, e) ==
    /\ a \in Reading /\ s.read[s.unit] > 0 /\ e.units[s.unit].mode = "UNTIL_FIRST"
    => \/ b \in Gone
       \/ b \in Reading /\ t.unit = s.unit /\ t.read[t.unit] = s.read[s.unit]

\* The records made before the run of rank 0 in state s, and those made when it is at
\* `where'.
Prior(s, e) == IF e.task = "validation" THEN (s.run - 1) * Len(e.units) ELSE 0

NumFiled(where, s, e) ==
    CASE where \in {"loadScores", "begin"} -> Prior(s, e)
      [] where \in Inside \ {"barrier"}    -> Prior(s, e) + s.unit - 1
      [] where = "barrier"                 -> Prior(s, e) + s.unit
      [] OTHER                             -> s.run * Len(e.units)

\* What rank 0 has recorded and scored where it is at `where' with its objects in state s.
Filed(where, s, e, filed) ==
    /\ where \in Outside \ {"begin"} => e.task = "validation"
    /\ e.task = "validation" /\ where \in (Outside \cup Inside) \ {"training", "earlyStop"} => s.run > 0
    /\ where \in Outside \cup Inside => Len(filed) = NumFiled(where, s, e)
    /\ where = "record" => s.bag = Recordable(e, s.unit)
    /\ where \in Inside /\ e.scored => s.score.of = 1..(s.unit - 1)
    /\ where \in {"score", "saveScore"} /\ e.scored => s.score.of = Units(e)
    /\ where = "saveScore" => e.scored

\* Records of units, each with what it should count, in the order of the units, validation
\* by validation.
Records(e) == [run : Nat, unit : Units(e), values : {Recordable(e, u) : u \in Units(e)}]

InOrder(e, filed) ==
    /\ filed \in Seq(Records(e))
    /\ \A i \in DOMAIN filed :
         /\ filed[i].values = Recordable(e, filed[i].unit)
         /\ filed[i].unit = ((i - 1) % Len(e.units)) + 1
         /\ e.task = "validation" => filed[i].run = ((i - 1) \div Len(e.units)) + 1

Placed ==
    /\ eval \in Evals
    /\ gangs = [r \in RanksOf(eval.layout) |-> GangsOf(eval.layout, r)]

Functional == /\ at = [r \in EvalRanks |-> at[r]]
              /\ rank = [r \in EvalRanks |-> rank[r]]

RanksInv ==
    /\ Placed /\ Functional
    /\ \A r \in EvalRanks :
         /\ Objects(rank[r])
         /\ Undisturbed(at[r], rank[r], eval)
         /\ Counts(at[r], rank[r], eval, DPRank(r))

AbreastInv ==
    \A q \in EvalRanks : \A r \in Range(DP(q)) : Abreast(at[q], rank[q], at[r], rank[r], eval)

FiledInv ==
    /\ Filed(at[0], rank[0], eval, recorded)
    /\ InOrder(eval, recorded)
    /\ \A s \in scores : s.units = Units(eval)

EvalInv == RanksInv /\ AbreastInv /\ FiledInv

-----------------------------------------------------------------------------
(***************************************************************************)
(* Numbers.                                                                *)
(***************************************************************************)
-----------------------------------------------------------------------------
(***************************************************************************)
(* The data of a task.                                                     *)
(***************************************************************************)
DPRanks(e) == 0..(DPSize(e) - 1)

LEMMA TaskIs ==
    ASSUME NEW e \in Evals
    PROVE  /\ e.task \in {"validation", "evaluation", "generation"}
           /\ e.layout.size \in Nat \ {0} /\ e.layout.tp \in Nat \ {0} /\ Accepted(e.layout)
           /\ Len(e.units) \in Nat \ {0} /\ Units(e) = DOMAIN e.units
           /\ \A u \in Units(e) :
                /\ e.units[u].mode \in {"UNTIL_FIRST", "UNTIL_LAST"}
                /\ e.units[u].shards \in Seq(Nat) /\ Len(e.units[u].shards) = DPSize(e)
  <1> DEFINE U == [mode : {"UNTIL_FIRST", "UNTIL_LAST"}, shards : Seq(Nat)]
  <1>1. /\ e.task \in {"validation", "evaluation", "generation"}
        /\ {e.layout.size, e.layout.tp} \subseteq Nat \ {0} /\ Accepted(e.layout)
        /\ e.units \in Seq(U) \ {<<>>}
        /\ \A u \in DOMAIN e.units : Len(e.units[u].shards) = e.layout.size \div e.layout.tp
    BY EvaluationAssumption DEF EvaluationAssumption
  <1>2. \A x \in U : x.mode \in {"UNTIL_FIRST", "UNTIL_LAST"} /\ x.shards \in Seq(Nat)
    OBVIOUS
  <1> HIDE DEF U
  <1>3. Len(e.units) \in Nat \ {0} /\ DOMAIN e.units = 1..Len(e.units) /\ \A u \in DOMAIN e.units : e.units[u] \in U
    BY <1>1
  <1> QED
    BY <1>1, <1>2, <1>3 DEF Units, DPSize

LEMMA DPSizeIs ==
    ASSUME NEW e \in Evals
    PROVE  DPSize(e) \in Nat \ {0} /\ e.layout.size = DPSize(e) * e.layout.tp
  <1> DEFINE n == e.layout.size
             k == e.layout.tp
  <1>1. n \in Nat \ {0} /\ k \in Nat \ {0} /\ n % k = 0
    BY TaskIs DEF Accepted
  <1> HIDE DEF n, k
  <1>2. n = (n \div k) * k /\ n \div k \in Nat
    BY <1>1, DivMod
  <1>3. n \div k # 0
    BY <1>1, <1>2
  <1> QED
    BY <1>2, <1>3 DEF DPSize, n, k

LEMMA ShardIs ==
    ASSUME NEW e \in Evals, NEW u \in Units(e), NEW d \in DPRanks(e)
    PROVE  Shard(e, u, d) \in Nat
  <1>1. e.units[u].shards \in Seq(Nat) /\ d + 1 \in 1..Len(e.units[u].shards)
    BY TaskIs, DPSizeIs DEF DPRanks
  <1> QED
    BY <1>1 DEF Shard

\* What a rank runs of a unit: all of its shard, or as much as there is of the shortest.
LEMMA BatchesAre ==
    ASSUME NEW e \in Evals, NEW u \in Units(e), NEW d \in DPRanks(e)
    PROVE  /\ BatchesOf(e, u, d) \in Nat
           /\ e.units[u].mode = "UNTIL_LAST" => BatchesOf(e, u, d) = Shard(e, u, d)
           /\ e.units[u].mode = "UNTIL_FIRST" =>
                /\ \E c \in DPRanks(e) : BatchesOf(e, u, d) = Shard(e, u, c)
                /\ \A c \in DPRanks(e) : BatchesOf(e, u, d) <= Shard(e, u, c)
  <1>1. Shard(e, u, d) \in Nat
    BY ShardIs
  <1>2. ASSUME e.units[u].mode = "UNTIL_LAST" PROVE BatchesOf(e, u, d) = Shard(e, u, d)
    BY <1>2 DEF BatchesOf, Shard
  <1>3. ASSUME e.units[u].mode = "UNTIL_FIRST"
        PROVE  /\ \E c \in DPRanks(e) : BatchesOf(e, u, d) = Shard(e, u, c)
               /\ \A c \in DPRanks(e) : BatchesOf(e, u, d) <= Shard(e, u, c)
    <2> DEFINE S == {Shard(e, u, c) : c \in DPRanks(e)}
    <2>1. BatchesOf(e, u, d) = Min(S)
      BY <1>3, TaskIs DEF BatchesOf, Shard, DPRanks
    <2>2. S \in SUBSET Nat /\ S # {}
      BY ShardIs
    <2>3. \E n \in S : \A m \in S : n <= m
      <3> HIDE DEF S
      <3> QED
        BY <2>2, LeastNatural
    <2>4. Min(S) \in S /\ \A m \in S : Min(S) <= m
      <3> HIDE DEF S
      <3> QED
        BY <2>3 DEF Min
    <2>5. \A c \in DPRanks(e) : Shard(e, u, c) \in S
      OBVIOUS
    <2> DEFINE m == Min(S)
    <2>6. m \in S /\ \A x \in S : m <= x
      BY <2>4
    <2>7. \E c \in DPRanks(e) : m = Shard(e, u, c)
      <3> HIDE DEF m
      <3> QED
        BY <2>6
    <2> HIDE DEF S, m
    <2> QED
      BY <2>1, <2>5, <2>6, <2>7 DEF m
  <1>4. e.units[u].mode \in {"UNTIL_FIRST", "UNTIL_LAST"}
    BY TaskIs
  <1>5. BatchesOf(e, u, d) \in Nat
    BY <1>1, <1>2, <1>3, <1>4, ShardIs
  <1> QED
    BY <1>2, <1>3, <1>5

\* A unit adds a draw for each batch.
LEMMA DrawsAdd ==
    ASSUME NEW e \in Evals, NEW u \in Units(e), NEW d \in DPRanks(e)
    PROVE  /\ DrawsBefore(e, u, d) \in Nat
           /\ DrawsBefore(e, u + 1, d) = DrawsBefore(e, u, d) + BatchesOf(e, u, d)
  <1> DEFINE F(v) == {v} \X (1..BatchesOf(e, v, d))
             S == {F(v) : v \in 1..(u - 1)}
             T == UNION S
  <1>1. u \in Nat /\ u \in 1..Len(e.units) /\ Len(e.units) \in Nat
    BY TaskIs DEF Units
  <1>2. \A v \in 1..(u - 1) : v \in Units(e)
    BY <1>1 DEF Units
  <1>3. \A v \in Units(e) : IsFiniteSet(F(v)) /\ Cardinality(F(v)) = BatchesOf(e, v, d)
    <2> TAKE v \in Units(e)
    <2> DEFINE n == BatchesOf(e, v, d)
    <2>1. n \in Nat
      BY BatchesAre
    <2> HIDE DEF n
    <2>2. IsFiniteSet(1..n) /\ Cardinality(1..n) = n
      BY <2>1, FS_Interval
    <2>3. IsFiniteSet({v}) /\ Cardinality({v}) = 1
      BY FS_Singleton
    <2> DEFINE V == {v}
               N == 1..n
    <2> HIDE DEF V, N
    <2>4. IsFiniteSet(V \X N) /\ Cardinality(V \X N) = 1 * n
      <3>1. IsFiniteSet(V) /\ IsFiniteSet(N) /\ Cardinality(V) = 1 /\ Cardinality(N) = n
        BY <2>2, <2>3 DEF V, N
      <3>2. IsFiniteSet(V \X N) /\ Cardinality(V \X N) = Cardinality(V) * Cardinality(N)
        BY ONLY <3>1, FS_Product
      <3> QED
        BY ONLY <3>1, <3>2
    <2>5. 1 * n = n
      BY <2>1
    <2>6. IsFiniteSet(F(v)) /\ Cardinality(F(v)) = n
      BY ONLY <2>4, <2>5 DEF V, N, n
    <2> QED
      BY <2>6 DEF n
  <1>4. IsFiniteSet(S)
    <2> DEFINE f == [v \in 1..(u - 1) |-> F(v)]
    <2>1. f \in Surjection(1..(u - 1), S)
      <3> DEFINE D == 1..(u - 1)
      <3> HIDE DEF F, D
      <3>1. /\ f = [v \in D |-> F(v)] /\ S = {F(v) : v \in D}
        BY DEF D
      <3> HIDE DEF f, S
      <3>2. f \in [D -> S]
        BY ONLY <3>1
      <3>3. \A X \in S : \E v \in D : f[v] = X
        BY ONLY <3>1
      <3>4. f \in Surjection(D, S)
        BY ONLY <3>2, <3>3 DEF Surjection
      <3> QED
        BY <3>4 DEF D
    <2>2. IsFiniteSet(1..(u - 1))
      BY <1>1, FS_Interval
    <2> HIDE DEF f, S
    <2> QED
      BY <2>1, <2>2, FS_Surjection
  <1>5. \A X \in S : IsFiniteSet(X)
    <2> HIDE DEF F
    <2> QED
      BY <1>2, <1>3
  <1>6. IsFiniteSet(T)
    <2> HIDE DEF S
    <2> QED
      BY <1>4, <1>5, FS_UNION
  <1>7. DrawsBefore(e, u, d) = Cardinality(T)
    BY DEF DrawsBefore
  <1>8. DrawsBefore(e, u + 1, d) = Cardinality(T \cup F(u))
    <2>1. 1..((u + 1) - 1) = (1..(u - 1)) \cup {u}
      BY <1>1
    <2> DEFINE W == UNION {F(v) : v \in 1..((u + 1) - 1)}
    <2>2. W = T \cup F(u)
      <3> HIDE DEF F
      <3> QED
        BY <2>1
    <2>3. DrawsBefore(e, u + 1, d) = Cardinality(W)
      BY DEF DrawsBefore
    <2> HIDE DEF W, T, F
    <2> QED
      BY <2>2, <2>3
  <1>9. T \cap F(u) = {}
    <2>1. \A v \in 1..(u - 1) : v # u
      BY <1>1
    <2>2. \A v : \A x \in F(v) : x[1] = v
      OBVIOUS
    <2> HIDE DEF F
    <2> QED
      BY <2>1, <2>2
  <1> HIDE DEF T, F
  <1>10. Cardinality(T) \in Nat
    BY <1>6, FS_CardinalityType
  <1>11. Cardinality(T \cup F(u)) = Cardinality(T) + Cardinality(F(u)) - Cardinality(T \cap F(u))
    BY <1>3, <1>6, FS_Union
  <1>12. Cardinality(T \cap F(u)) = 0
    BY <1>9, FS_EmptySet
  <1>13. BatchesOf(e, u, d) \in Nat
    BY BatchesAre
  <1> QED
    BY <1>3, <1>7, <1>8, <1>10, <1>11, <1>12, <1>13

LEMMA NoDrawsBefore == \A e, d : DrawsBefore(e, 1, d) = 0
  <1> TAKE e, d
  <1>1. 1..(1 - 1) = {}
    OBVIOUS
  <1>2. UNION {{v} \X (1..BatchesOf(e, v, d)) : v \in 1..(1 - 1)} = {}
    BY <1>1
  <1> QED
    BY <1>2, FS_EmptySet DEF DrawsBefore

\* Nothing is counted of no batches, and one batch more counts one more.
LEMMA TallyNone == \A e, u, d : Tally(e, u, d, 0) = {}
  BY DEF Tally

LEMMA TallyMore ==
    ASSUME NEW e, NEW u, NEW d, NEW n \in Nat, DrawsBefore(e, u, d) \in Nat
    PROVE  Tally(e, u, d, n) \cup {<<d, n + 1, Drawn(DrawsBefore(e, u, d) + n)>>} = Tally(e, u, d, n + 1)
  <1> DEFINE b == DrawsBefore(e, u, d)
             C(i) == <<d, i, [seed |-> "eval", draws |-> b + i - 1]>>
  <1>1. 1..(n + 1) = (1..n) \cup {n + 1}
    OBVIOUS
  <1>2. b + n = b + (n + 1) - 1
    OBVIOUS
  <1>3. <<d, n + 1, Drawn(b + n)>> = C(n + 1)
    BY <1>2 DEF Drawn
  <1>4. \A k : Tally(e, u, d, k) = {C(i) : i \in 1..k}
    BY DEF Tally
  <1> HIDE DEF b, C
  <1> QED
    BY <1>1, <1>3, <1>4 DEF b

-----------------------------------------------------------------------------
(***************************************************************************)
(* The gangs.                                                              *)
(***************************************************************************)
\* In any layout the data parallel gangs are the columns of the mesh of processes.
LEMMA GangsAre ==
    ASSUME NEW e \in Evals, NEW r
    PROVE  LET g == GangsOf(e.layout, r)
           IN  /\ g.root = MeshRow(e.layout.size, 0)
               /\ g.dp = MeshColumn(e.layout.size, e.layout.tp, r % e.layout.tp)
               /\ g.tp = MeshRow(e.layout.tp, r \div e.layout.tp)
  <1> DEFINE l == e.layout
             h == ParallelGangs(l, r)
             g == GangsOf(l, r)
             dp == MeshColumn(l.size, l.tp, r % l.tp)
  <1>1. h = [root |-> MeshRow(l.size, 0), dp |-> dp, rdp |-> dp, sdp |-> <<r>>,
             tp |-> MeshRow(l.tp, r \div l.tp)]
    BY DEF ParallelGangs
  <1>2. CASE l.parallelism = "fsdp"
    <2>1. g = [h EXCEPT !.rdp = <<r>>, !.sdp = h.dp]
      BY <1>2 DEF GangsOf, FullyShardedGangs
    <2> HIDE DEF g, h, dp
    <2> QED
      BY <1>1, <2>1 DEF g, dp
  <1>3. CASE l.parallelism = "hybrid" /\ l.local # 1
    <2> DEFINE x == Members(h.dp, MeshColumn(Len(h.dp), l.local, RankIn(h.dp, r) % l.local))
               y == Members(h.dp, MeshRow(l.local, RankIn(h.dp, r) \div l.local))
    <2>1. g = [h EXCEPT !.rdp = x, !.sdp = y]
      BY <1>3 DEF GangsOf, HybridGangs
    <2> HIDE DEF g, h, dp, x, y
    <2> QED
      BY <1>1, <2>1 DEF g, dp
  <1>4. CASE ~(l.parallelism = "fsdp") /\ ~(l.parallelism = "hybrid" /\ l.local # 1)
    <2>1. g = h
      BY <1>4 DEF GangsOf
    <2> HIDE DEF g, h, dp
    <2> QED
      BY <1>1, <2>1 DEF g, dp
  <1> QED
    BY <1>2, <1>3, <1>4

\* The ranks, the data parallel rank of each, and who is in its gang.
LEMMA RanksAre ==
    ASSUME Placed
    PROVE  /\ EvalRanks = 0..(eval.layout.size - 1) /\ 0 \in EvalRanks
           /\ \A r \in EvalRanks :
                /\ DPRank(r) = r \div eval.layout.tp /\ DPRank(r) \in DPRanks(eval)
                /\ r % eval.layout.tp \in 0..(eval.layout.tp - 1)
                /\ r = DPRank(r) * eval.layout.tp + (r % eval.layout.tp)
                /\ DOMAIN DP(r) = 1..DPSize(eval)
                /\ \A c \in 1..DPSize(eval) :
                     DP(r)[c] = (c - 1) * eval.layout.tp + (r % eval.layout.tp)
  <1> DEFINE n == eval.layout.size
             k == eval.layout.tp
             m == DPSize(eval)
  <1>1. n \in Nat \ {0} /\ k \in Nat \ {0} /\ m \in Nat \ {0} /\ n = m * k
    BY TaskIs, DPSizeIs DEF Placed
  <1>2. EvalRanks = 0..(n - 1) /\ \A r \in EvalRanks : gangs[r] = GangsOf(eval.layout, r)
    BY DEF Placed, EvalRanks, RanksOf
  <1>3. 0 \in EvalRanks
    BY <1>1, <1>2
  <1>4. ASSUME NEW r \in EvalRanks
        PROVE  /\ DPRank(r) = r \div k /\ DPRank(r) \in 0..(m - 1) /\ r % k \in 0..(k - 1)
               /\ r = DPRank(r) * k + (r % k)
               /\ DOMAIN DP(r) = 1..m /\ \A c \in 1..m : DP(r)[c] = (c - 1) * k + (r % k)
    <2>1. DP(r) = MeshColumn(n, k, r % k)
      BY <1>2, <1>4, GangsAre DEF DP, Placed
    <2>2. DOMAIN DP(r) = 1..m /\ \A c \in 1..m : DP(r)[c] = (c - 1) * k + (r % k)
      BY <2>1 DEF MeshColumn, DPSize
    <2> DEFINE q == r \div k
               y == r % k
    <2> HIDE DEF n, k, m
    <2>3. q \in 0..(m - 1) /\ y \in 0..(k - 1) /\ r = q * k + y
      BY <1>1, <1>2, PartsBelow
    <2> HIDE DEF q, y
    <2>4. q + 1 \in 1..m /\ (q + 1) - 1 = q
      BY <1>1, <2>3
    <2>5. DP(r)[q + 1] = r
      BY <2>2, <2>3, <2>4 DEF y
    <2>6. ASSUME NEW c \in 1..m, DP(r)[c] = r PROVE c = q + 1
      <3>1. (c - 1) * k + y = q * k + y /\ c - 1 \in Int /\ q \in Int
        BY <2>2, <2>3, <2>6 DEF y
      <3>2. c - 1 = q
        BY <1>1, <2>3, <3>1, OneQuotient
      <3> QED
        BY <3>2, <1>1
    <2> DEFINE x == CHOOSE i \in DOMAIN DP(r) : DP(r)[i] = r
    <2>7. x = q + 1
      BY <2>2, <2>4, <2>5, <2>6
    <2>8. DPRank(r) = x - 1
      BY DEF DPRank, RankIn
    <2> HIDE DEF x
    <2>9. DPRank(r) = q
      BY <2>3, <2>7, <2>8
    <2> QED
      BY <2>2, <2>3, <2>9 DEF q, y
  <1> QED
    BY <1>2, <1>3, <1>4 DEF DPRanks

\* A data parallel gang: its members agree on it, and each has a rank of its own in it.
LEMMA DPIs ==
    ASSUME Placed, NEW r \in EvalRanks
    PROVE  /\ r \in Range(DP(r)) /\ Range(DP(r)) \subseteq EvalRanks
           /\ \A q \in Range(DP(r)) : DP(q) = DP(r)
           /\ \A d \in DPRanks(eval) : \E q \in Range(DP(r)) : DPRank(q) = d
           /\ DP(r)[1] \in Range(DP(r)) /\ (0 \in Range(DP(r)) => DP(r)[1] = 0)
  <1> DEFINE n == eval.layout.size
             k == eval.layout.tp
             m == DPSize(eval)
             j == r % k
  <1>1. n \in Nat \ {0} /\ k \in Nat \ {0} /\ m \in Nat \ {0} /\ n = m * k
    BY TaskIs, DPSizeIs DEF Placed
  <1>2. /\ EvalRanks = 0..(n - 1) /\ j \in 0..(k - 1)
        /\ DPRank(r) \in 0..(m - 1) /\ r = DPRank(r) * k + j
        /\ DOMAIN DP(r) = 1..m /\ \A c \in 1..m : DP(r)[c] = (c - 1) * k + j
    BY RanksAre DEF DPRanks
  <1>3. \A q \in EvalRanks : DPRank(q) = q \div k
    BY RanksAre
  <1>4. ASSUME NEW q \in EvalRanks, q % k = j PROVE DP(q) = DP(r)
    <2>1. \A x \in EvalRanks : gangs[x] = GangsOf(eval.layout, x)
      BY DEF Placed, EvalRanks
    <2>2. \A x \in EvalRanks : DP(x) = MeshColumn(n, k, x % k)
      BY <2>1, GangsAre DEF DP, Placed
    <2> QED
      BY <1>4, <2>2
  <1> HIDE DEF n, k, m, j
  <1>5. ASSUME NEW c \in 1..m
        PROVE  DP(r)[c] \in EvalRanks /\ DP(r)[c] \div k = c - 1 /\ DP(r)[c] % k = j
    <2> DEFINE b == c - 1
               a == b * k + j
    <2>1. b \in Nat /\ b < m /\ DP(r)[c] = a
      BY <1>1, <1>2
    <2> HIDE DEF b
    <2>2. a \in Nat /\ a \div k = b /\ a % k = j
      BY <1>1, <1>2, <2>1, PartsAre
    <2>3. a < m * k
      <3>1. (m - b - 1) * k >= 0
        BY <1>1, <2>1, Z3
      <3>2. (m - b - 1) * k = m * k - b * k - k
        BY <1>1, <2>1, Z3
      <3>3. b * k \in Nat /\ m * k \in Nat
        BY <1>1, <2>1
      <3> QED
        BY <3>1, <3>2, <3>3, <1>1, <1>2
    <2>4. a \in EvalRanks
      BY <1>1, <1>2, <2>2, <2>3
    <2> HIDE DEF a
    <2> QED
      BY <2>1, <2>2, <2>4 DEF b
  <1>6. \A q \in Range(DP(r)) : \E c \in 1..m : q = DP(r)[c]
    BY <1>2 DEF Range
  <1>7. \A c \in 1..m : DP(r)[c] \in Range(DP(r))
    BY <1>2 DEF Range
  <1>8. Range(DP(r)) \subseteq EvalRanks /\ \A q \in Range(DP(r)) : q % k = j
    BY <1>5, <1>6
  <1>9. \A q \in Range(DP(r)) : DP(q) = DP(r)
    BY <1>4, <1>8
  <1>10. r \in Range(DP(r))
    <2>1. DPRank(r) + 1 \in 1..m /\ (DPRank(r) + 1) - 1 = DPRank(r)
      BY <1>1, <1>2
    <2> QED
      BY <1>2, <1>7, <2>1
  <1>11. ASSUME NEW d \in 0..(m - 1) PROVE \E q \in Range(DP(r)) : DPRank(q) = d
    <2>1. d + 1 \in 1..m /\ (d + 1) - 1 = d
      BY <1>1
    <2>2. DPRank(DP(r)[d + 1]) = d
      BY <1>3, <1>5, <2>1
    <2> QED
      BY <1>7, <2>1, <2>2
  <1>12. 1 \in 1..m
    BY <1>1
  <1>13. ASSUME 0 \in Range(DP(r)) PROVE DP(r)[1] = 0
    <2>1. 0 % k = j
      BY <1>8, <1>13
    <2>2. 0 % k = 0
      BY <1>1
    <2>3. DP(r)[1] = (1 - 1) * k + j
      BY <1>2, <1>12
    <2>4. (1 - 1) * k = 0
      BY <1>1
    <2> QED
      BY <2>1, <2>2, <2>3, <2>4
  <1> QED
    BY <1>7, <1>8, <1>9, <1>10, <1>11, <1>12, <1>13 DEF DPRanks, m

\* The root gang is all ranks, and rank 0 is the first in its tensor parallel gang.
LEMMA RootIs ==
    ASSUME Placed
    PROVE  /\ \A r \in EvalRanks : Range(Root(r)) = EvalRanks /\ Root(r)[1] = 0
           /\ TPRank(0) = 0
  <1> DEFINE n == eval.layout.size
             k == eval.layout.tp
  <1>1. n \in Nat \ {0} /\ k \in Nat \ {0}
    BY TaskIs DEF Placed
  <1>2. EvalRanks = 0..(n - 1) /\ 0 \in EvalRanks
    BY RanksAre
  <1>3. \A r \in EvalRanks : gangs[r] = GangsOf(eval.layout, r)
    BY DEF Placed, EvalRanks
  <1>4. ASSUME NEW r \in EvalRanks PROVE Range(Root(r)) = EvalRanks /\ Root(r)[1] = 0
    <2>1. Root(r) = MeshRow(n, 0)
      BY <1>3, GangsAre DEF Root, Placed
    <2>2. DOMAIN Root(r) = 1..n /\ \A c \in 1..n : Root(r)[c] = 0 * n + c - 1
      BY <2>1 DEF MeshRow
    <2> HIDE DEF n
    <2>3. \A c \in 1..n : Root(r)[c] = c - 1
      BY <2>2, <1>1
    <2>4. \A q \in 0..(n - 1) : q + 1 \in 1..n /\ Root(r)[q + 1] = q
      BY <2>3, <1>1
    <2>5. \A q \in Range(Root(r)) : q \in 0..(n - 1)
      BY <2>2, <2>3, <1>1 DEF Range
    <2>6. \A q \in 0..(n - 1) : q \in Range(Root(r))
      BY <2>2, <2>4 DEF Range
    <2>7. Range(Root(r)) = 0..(n - 1)
      BY <2>5, <2>6
    <2>8. 1 \in 1..n /\ 1 - 1 = 0
      BY <1>1
    <2>9. Root(r)[1] = 0
      BY <2>3, <2>8
    <2> QED
      BY <1>2, <2>7, <2>9 DEF n
  <1>5. TPRank(0) = 0
    <2> DEFINE g == gangs[0].tp
    <2>1. g = MeshRow(k, 0 \div k)
      BY <1>2, <1>3, GangsAre DEF Placed
    <2>2. 0 \div k = 0
      BY <1>1
    <2>3. DOMAIN g = 1..k /\ \A c \in 1..k : g[c] = 0 * k + c - 1
      BY <2>1, <2>2 DEF MeshRow
    <2> HIDE DEF g, k
    <2>4. \A c \in 1..k : g[c] = c - 1
      BY <2>3, <1>1
    <2>5. 1 \in 1..k /\ g[1] = 0 /\ \A c \in 1..k : g[c] = 0 => c = 1
      BY <2>4, <1>1
    <2>6. (CHOOSE i \in DOMAIN g : g[i] = 0) = 1
      BY <2>3, <2>5
    <2> QED
      BY <2>6 DEF TPRank, RankIn, g
  <1> QED
    BY <1>4, <1>5

-----------------------------------------------------------------------------
(***************************************************************************)
(* What a step does to rank r, of rank d in its data parallel gang: from a *)
(* to w with its objects going from s to t.                                *)
(***************************************************************************)
\* What a task leaves alone of the training, and what it has in hand.
SameTask(s, t) == t.run = s.run /\ t.kept = s.kept /\ t.training = s.training
SameData(s, t) == t.unit = s.unit /\ t.read = s.read /\ t.hand = s.hand /\ t.bag = s.bag

ValidateEffect(a, s, w, t) ==
    /\ a = "training" /\ w \in {"loadScores", "begin"}
    /\ t.run = s.run + 1 /\ t.rng = Draw(s.rng) /\ SameData(s, t)

LoadEffect(a, s, w, t) ==
    a = "loadScores" /\ w = "begin" /\ t.run = s.run /\ t.rng = s.rng /\ SameData(s, t)

BeginEffect(a, s, w, t) ==
    /\ a = "begin" /\ w = "poll" /\ SameData(s, t)
    /\ t.run = s.run /\ t.kept = s.rng /\ t.rng = Seeded("eval") /\ ~t.training /\ t.score = NoScore

PollEffect(a, s, w, t) ==
    a = "poll" /\ w = "read" /\ SameTask(s, t) /\ SameData(s, t) /\ t.rng = s.rng /\ t.score = s.score

StepEffect(a, s, w, t, d) ==
    /\ a = "batch" /\ w = "poll" /\ SameTask(s, t)
    /\ t.unit = s.unit /\ t.read = s.read /\ t.hand = 0 /\ t.score = s.score
    /\ s.hand = 0 => t.bag = s.bag /\ t.rng = s.rng
    /\ s.hand # 0 => t.bag = s.bag \cup {<<d, s.read[s.unit], s.rng>>} /\ t.rng = Draw(s.rng)

SyncEffect(a, s, w, t, e, r) ==
    /\ a = "metrics" /\ w = "record" /\ SameTask(s, t)
    /\ t.unit = s.unit /\ t.read = s.read /\ t.hand = s.hand /\ t.rng = s.rng /\ t.score = s.score
    /\ r = 0 => t.bag = Recordable(e, s.unit)

NextEffect(a, s, w, t, e, r) ==
    /\ a = "barrier" /\ SameTask(s, t) /\ t.read = s.read /\ t.hand = s.hand /\ t.bag = {}
    /\ r = 0 /\ e.scored => t.score.of = s.score.of \cup {s.unit}
    /\ s.unit = Len(e.units) =>
         t.unit = 1 /\ t.rng = s.kept /\ w = (IF e.task = "validation" THEN "score" ELSE "done")
    /\ s.unit # Len(e.units) => t.unit = s.unit + 1 /\ t.rng = s.rng /\ w = "poll"

ScoreEffect(a, s, w, t, e, r) ==
    /\ a = "score" /\ w \in {"saveScore", "reset"}
    /\ t.run = s.run /\ t.rng = s.rng /\ SameData(s, t)
    /\ w = "saveScore" => e.scored
    /\ r = 0 /\ e.scored => t.score = s.score

SaveEffect(a, s, w, t) == a = "saveScore" /\ w = "reset" /\ t = s

ResetEffect(a, s, w, t, e) ==
    /\ a = "reset" /\ w \in {"stopFlag", "training"}
    /\ t.run = s.run /\ t.rng = s.rng /\ t.unit = s.unit /\ t.hand = s.hand /\ t.bag = s.bag
    /\ t.read = AtStart(e) /\ t.training /\ ~t.hasRun

AskEffect(a, s, w, t) == a = "stopFlag" /\ w \in {"earlyStop", "training"} /\ t = s

GoneEffect(s, w, t) == w \in Gone /\ t.run = s.run /\ t.unit = s.unit /\ t.read = s.read

\* Those that neither read nor record.
Effect(r, d, e, a, s, w, t) ==
    \/ ValidateEffect(a, s, w, t) \/ LoadEffect(a, s, w, t) \/ BeginEffect(a, s, w, t)
    \/ PollEffect(a, s, w, t) \/ StepEffect(a, s, w, t, d) \/ SyncEffect(a, s, w, t, e, r)
    \/ NextEffect(a, s, w, t, e, r) \/ ScoreEffect(a, s, w, t, e, r) \/ SaveEffect(a, s, w, t)
    \/ ResetEffect(a, s, w, t, e) \/ AskEffect(a, s, w, t) \/ GoneEffect(s, w, t)

RecordEffect(a, s, w, t) ==
    /\ a = "record" /\ w = "barrier" /\ SameTask(s, t) /\ SameData(s, t)
    /\ t.rng = s.rng /\ t.score = s.score

\* Reading: a batch, unless the shard has ended, or the end of the data.
Yielded(s, e, d) == IF s.read[s.unit] = Shard(e, s.unit, d) THEN 0 ELSE 1

ReadEffect(a, s, w, t, e, d) ==
    /\ a = "read" /\ w = "batch" /\ SameTask(s, t)
    /\ t.unit = s.unit /\ t.bag = s.bag /\ t.rng = s.rng /\ t.score = s.score
    /\ t.hand = Yielded(s, e, d)
    /\ t.read = [s.read EXCEPT ![s.unit] = @ + Yielded(s, e, d)]

EndEffect(a, s, w, t, e, d) ==
    /\ a = "read" /\ w = "metrics" /\ SameTask(s, t)
    /\ t.unit = s.unit /\ t.bag = s.bag /\ t.rng = s.rng /\ t.score = s.score
    /\ t.hand = 0 /\ t.read = [s.read EXCEPT ![s.unit] = 0]
    /\ s.read[s.unit] = BatchesOf(e, s.unit, d)

AnyEffect(r, d, e, a, s, w, t) ==
    \/ Effect(r, d, e, a, s, w, t) \/ RecordEffect(a, s, w, t)
    \/ ReadEffect(a, s, w, t, e, d) \/ EndEffect(a, s, w, t, e, d)

-----------------------------------------------------------------------------
(***************************************************************************)
(* Every effect keeps what is said of one rank.                            *)
(***************************************************************************)
LEMMA StaysUndisturbed ==
    ASSUME NEW r, NEW d, NEW e, NEW a, NEW s, NEW w, NEW t,
           AnyEffect(r, d, e, a, s, w, t), Undisturbed(a, s, e)
    PROVE  Undisturbed(w, t, e)
  <1> USE DEF Undisturbed, TrainingDraws, Outside, Inside, Reading, Closing, Given, SameTask
  <1>1. CASE ValidateEffect(a, s, w, t)
    BY <1>1 DEF ValidateEffect, Draw
  <1>2. CASE LoadEffect(a, s, w, t)
    BY <1>2 DEF LoadEffect
  <1>3. CASE BeginEffect(a, s, w, t)
    BY <1>3 DEF BeginEffect
  <1>4. CASE PollEffect(a, s, w, t)
    BY <1>4 DEF PollEffect
  <1>5. CASE StepEffect(a, s, w, t, d)
    BY <1>5 DEF StepEffect
  <1>6. CASE SyncEffect(a, s, w, t, e, r)
    BY <1>6 DEF SyncEffect
  <1>7. CASE NextEffect(a, s, w, t, e, r)
    BY <1>7 DEF NextEffect
  <1>8. CASE ScoreEffect(a, s, w, t, e, r)
    BY <1>8 DEF ScoreEffect
  <1>9. CASE SaveEffect(a, s, w, t)
    BY <1>9 DEF SaveEffect
  <1>10. CASE ResetEffect(a, s, w, t, e)
    BY <1>10 DEF ResetEffect
  <1>11. CASE AskEffect(a, s, w, t)
    BY <1>11 DEF AskEffect
  <1>12. CASE GoneEffect(s, w, t)
    BY <1>12 DEF GoneEffect, Gone
  <1>13. CASE RecordEffect(a, s, w, t)
    BY <1>13 DEF RecordEffect
  <1>14. CASE ReadEffect(a, s, w, t, e, d)
    BY <1>14 DEF ReadEffect
  <1>15. CASE EndEffect(a, s, w, t, e, d)
    BY <1>15 DEF EndEffect
  <1> QED
    BY <1>1, <1>2, <1>3, <1>4, <1>5, <1>6, <1>7, <1>8, <1>9, <1>10, <1>11, <1>12, <1>13,
       <1>14, <1>15 DEF AnyEffect, Effect

\* The parts of Counts that hold anywhere.
Ranges(s, e, d) ==
    /\ s.run \in Nat /\ s.unit \in Units(e) /\ s.read \in [Units(e) -> Nat]
    /\ \A u \in Units(e) : s.read[u] <= Shard(e, u, d) /\ (u # s.unit => s.read[u] = 0)

LEMMA StaysCounted ==
    ASSUME NEW r, NEW e \in Evals, NEW d \in DPRanks(e), NEW a, NEW s, NEW w, NEW t,
           AnyEffect(r, d, e, a, s, w, t), Undisturbed(a, s, e), Counts(a, s, e, d)
    PROVE  Counts(w, t, e, d)
  <1>1. Ranges(s, e, d)
    BY DEF Counts, Ranges
  <1>2. ASSUME SameData(s, t), t.run = s.run \/ t.run = s.run + 1 PROVE Ranges(t, e, d)
    BY <1>1, <1>2 DEF Ranges, SameData
  <1>3. ASSUME Ranges(t, e, d), w \in Outside, t.unit = 1, t.bag = {}, t.read = AtStart(e), t.hand = 0
        PROVE  Counts(w, t, e, d)
    BY <1>3 DEF Counts, Ranges, Outside, Reading, Closing, Inside
  <1>4. ASSUME a \in Outside
        PROVE  s.unit = 1 /\ s.bag = {} /\ s.read = AtStart(e) /\ s.hand = 0
    BY <1>4 DEF Counts, Outside
  <1>5. /\ DrawsBefore(e, s.unit, d) \in Nat /\ BatchesOf(e, s.unit, d) \in Nat
        /\ DrawsBefore(e, s.unit + 1, d) = DrawsBefore(e, s.unit, d) + BatchesOf(e, s.unit, d)
        /\ Shard(e, s.unit, d) \in Nat /\ s.unit \in Nat /\ Len(e.units) \in Nat \ {0}
        /\ s.read[s.unit] \in Nat /\ s.read[s.unit] <= Shard(e, s.unit, d)
    BY <1>1, DrawsAdd, BatchesAre, ShardIs, TaskIs DEF Ranges, Units
  <1>6. AtStart(e) \in [Units(e) -> Nat] /\ \A u \in Units(e) : AtStart(e)[u] = 0
    BY DEF AtStart
  <1>7. CASE ValidateEffect(a, s, w, t)
    <2>1. a \in Outside /\ w \in Outside /\ SameData(s, t) /\ t.run = s.run + 1
      BY <1>7 DEF ValidateEffect, Outside
    <2> QED
      BY <2>1, <1>2, <1>3, <1>4 DEF SameData
  <1>8. CASE LoadEffect(a, s, w, t)
    <2>1. a \in Outside /\ w \in Outside /\ SameData(s, t) /\ t.run = s.run
      BY <1>8 DEF LoadEffect, Outside
    <2> QED
      BY <2>1, <1>2, <1>3, <1>4 DEF SameData
  <1>9. CASE BeginEffect(a, s, w, t)
    <2>1. /\ a \in Outside /\ w = "poll" /\ SameData(s, t) /\ t.run = s.run
          /\ t.rng = Drawn(0)
      BY <1>9 DEF BeginEffect, Outside, Seeded, Drawn
    <2>2. Ranges(t, e, d)
      BY <2>1, <1>2
    <2>3. t.unit = 1 /\ t.bag = {} /\ t.read = AtStart(e) /\ t.hand = 0
      BY <2>1, <1>4 DEF SameData
    <2>4. t.read[t.unit] = 0
      BY <2>2, <2>3, <1>6 DEF Ranges
    <2>5. /\ t.bag = Tally(e, t.unit, d, t.read[t.unit] - t.hand)
          /\ t.rng = Drawn(DrawsBefore(e, t.unit, d) + t.read[t.unit] - t.hand)
      BY <2>1, <2>3, <2>4, TallyNone, NoDrawsBefore
    <2> QED
      BY <2>1, <2>2, <2>3, <2>4, <2>5 DEF Counts, Ranges, Outside, Reading, Closing, Inside
  <1>10. CASE PollEffect(a, s, w, t)
    <2>1. /\ a = "poll" /\ w = "read" /\ SameData(s, t) /\ t.run = s.run /\ t.rng = s.rng
      BY <1>10 DEF PollEffect, SameTask
    <2>2. Ranges(t, e, d)
      BY <2>1, <1>2
    <2> QED
      BY <2>1, <2>2 DEF Counts, Ranges, SameData, Outside, Reading, Closing, Inside
  <1>11. CASE StepEffect(a, s, w, t, d)
    <2> DEFINE n == s.read[s.unit]
               b == DrawsBefore(e, s.unit, d)
    <2>1. /\ a = "batch" /\ w = "poll" /\ t.run = s.run /\ t.unit = s.unit /\ t.read = s.read /\ t.hand = 0
          /\ s.hand \in {0, 1} /\ s.hand <= n
          /\ s.bag = Tally(e, s.unit, d, n - s.hand) /\ s.rng = Drawn(b + n - s.hand)
      BY <1>11 DEF StepEffect, SameTask, Counts, Outside, Inside, Reading
    <2>2. Ranges(t, e, d)
      BY <2>1, <1>1 DEF Ranges
    <2>3. t.bag = Tally(e, t.unit, d, n - 0) /\ t.rng = Drawn(b + n - 0)
      <3>1. CASE s.hand = 0
        BY <1>11, <2>1, <3>1 DEF StepEffect
      <3>2. CASE s.hand = 1
        <4> DEFINE k == n - 1
        <4>1. k \in Nat /\ n = k + 1 /\ n - s.hand = k /\ b + n - s.hand = b + k /\ n - 0 = k + 1
              /\ b + n - 0 = (b + k) + 1
          BY <1>5, <2>1, <3>2
        <4>2. s.bag = Tally(e, s.unit, d, k) /\ s.rng = Drawn(b + k)
          BY <2>1, <4>1
        <4>3. t.bag = s.bag \cup {<<d, n, s.rng>>} /\ t.rng = Draw(s.rng)
          BY <1>11, <3>2 DEF StepEffect
        <4>4. Draw(Drawn(b + k)) = Drawn((b + k) + 1)
          BY DEF Draw, Drawn
        <4> HIDE DEF k, n
        <4>5. Tally(e, s.unit, d, k) \cup {<<d, k + 1, Drawn(b + k)>>} = Tally(e, s.unit, d, k + 1)
          <5>1. k \in Nat /\ DrawsBefore(e, s.unit, d) \in Nat
            BY <1>5, <4>1
          <5> QED
            BY ONLY <5>1, TallyMore
        <4> HIDE DEF b
        <4> QED
          BY <2>1, <4>1, <4>2, <4>3, <4>4, <4>5
      <3> QED
        BY <2>1, <3>1, <3>2
    <2>4. t.read[t.unit] = n /\ t.hand = 0 /\ 0 <= n
      BY <1>5, <2>1
    <2> HIDE DEF n
    <2>5. /\ t.bag = Tally(e, t.unit, d, t.read[t.unit] - t.hand)
          /\ t.rng = Drawn(DrawsBefore(e, t.unit, d) + t.read[t.unit] - t.hand)
      BY <2>1, <2>3, <2>4
    <2> QED
      BY <2>1, <2>2, <2>4, <2>5 DEF Counts, Ranges, Outside, Reading, Closing, Inside
  <1>12. CASE SyncEffect(a, s, w, t, e, r)
    <2>1. /\ a = "metrics" /\ w = "record" /\ t.run = s.run
          /\ t.unit = s.unit /\ t.read = s.read /\ t.hand = s.hand /\ t.rng = s.rng
      BY <1>12 DEF SyncEffect, SameTask
    <2>2. Ranges(t, e, d)
      BY <2>1, <1>1 DEF Ranges
    <2> QED
      BY <2>1, <2>2 DEF Counts, Ranges, Outside, Reading, Closing, Inside
  <1>13. CASE NextEffect(a, s, w, t, e, r)
    <2>1. /\ a = "barrier" /\ t.run = s.run /\ t.read = s.read /\ t.hand = s.hand /\ t.bag = {}
          /\ s.read = AtStart(e) /\ s.hand = 0 /\ s.rng = Drawn(DrawsBefore(e, s.unit + 1, d))
      BY <1>13 DEF NextEffect, SameTask, Counts, Outside, Inside, Closing
    <2>2. CASE s.unit = Len(e.units)
      <3>1. t.unit = 1 /\ w \in {"score", "done"}
        BY <1>13, <2>2 DEF NextEffect
      <3>2. t.unit \in Units(e)
        BY <1>5, <3>1 DEF Units
      <3>3. Ranges(t, e, d)
        <4>1. \A u \in Units(e) : t.read[u] = 0 /\ Shard(e, u, d) \in Nat
          BY <1>6, <2>1, ShardIs
        <4> QED
          BY <1>1, <1>6, <2>1, <3>2, <4>1 DEF Ranges
      <3>4. CASE w = "score"
        BY <1>3, <2>1, <3>1, <3>3, <3>4 DEF Outside
      <3>5. CASE w = "done"
        BY <3>3, <3>5 DEF Counts, Ranges, Outside, Reading, Closing, Inside
      <3> QED
        BY <3>1, <3>4, <3>5
    <2>3. CASE s.unit # Len(e.units)
      <3>1. t.unit = s.unit + 1 /\ w = "poll" /\ t.rng = s.rng
        BY <1>13, <2>3 DEF NextEffect
      <3>2. t.unit \in Units(e)
        BY <1>1, <1>5, <2>3, <3>1 DEF Units, Ranges
      <3>3. Ranges(t, e, d)
        <4>1. \A u \in Units(e) : t.read[u] = 0 /\ Shard(e, u, d) \in Nat
          BY <1>6, <2>1, ShardIs
        <4> QED
          BY <1>1, <1>6, <2>1, <3>2, <4>1 DEF Ranges
      <3>4. t.read[t.unit] = 0 /\ t.hand = 0 /\ DrawsBefore(e, t.unit, d) \in Nat
        BY <1>6, <2>1, <3>2, DrawsAdd
      <3>5. /\ t.bag = Tally(e, t.unit, d, t.read[t.unit] - t.hand)
            /\ t.rng = Drawn(DrawsBefore(e, t.unit, d) + t.read[t.unit] - t.hand)
        <4>1. t.read[t.unit] - t.hand = 0
          BY <3>4
        <4>2. DrawsBefore(e, t.unit, d) + t.read[t.unit] - t.hand = DrawsBefore(e, t.unit, d)
          BY <3>4
        <4> QED
          BY <2>1, <3>1, <4>1, <4>2, TallyNone
      <3> QED
        BY <3>1, <3>3, <3>4, <3>5 DEF Counts, Ranges, Outside, Reading, Closing, Inside
    <2> QED
      BY <2>2, <2>3
  <1>14. CASE ScoreEffect(a, s, w, t, e, r)
    <2>1. a \in Outside /\ w \in Outside /\ SameData(s, t) /\ t.run = s.run
      BY <1>14 DEF ScoreEffect, Outside
    <2> QED
      BY <2>1, <1>2, <1>3, <1>4 DEF SameData
  <1>15. CASE SaveEffect(a, s, w, t)
    <2>1. a \in Outside /\ w \in Outside /\ t = s
      BY <1>15 DEF SaveEffect, Outside
    <2> QED
      BY <2>1, <1>1, <1>3, <1>4
  <1>16. CASE ResetEffect(a, s, w, t, e)
    <2>1. /\ a \in Outside /\ w \in Outside /\ t.run = s.run /\ t.unit = s.unit
          /\ t.hand = s.hand /\ t.bag = s.bag /\ t.read = AtStart(e)
      BY <1>16 DEF ResetEffect, Outside
    <2>2. SameData(s, t)
      BY <2>1, <1>4 DEF SameData
    <2> QED
      BY <2>1, <2>2, <1>2, <1>3, <1>4 DEF SameData
  <1>17. CASE AskEffect(a, s, w, t)
    <2>1. a \in Outside /\ w \in Outside /\ t = s
      BY <1>17 DEF AskEffect, Outside
    <2> QED
      BY <2>1, <1>1, <1>3, <1>4
  <1>18. CASE GoneEffect(s, w, t)
    <2>1. Ranges(t, e, d)
      BY <1>1, <1>18 DEF GoneEffect, Ranges
    <2>2. w \in {"stopped", "failed"}
      BY <1>18 DEF GoneEffect, Gone
    <2> QED
      BY <2>1, <2>2 DEF Counts, Ranges, Outside, Reading, Closing, Inside
  <1>19. CASE RecordEffect(a, s, w, t)
    <2>1. /\ a = "record" /\ w = "barrier" /\ SameData(s, t) /\ t.run = s.run /\ t.rng = s.rng
      BY <1>19 DEF RecordEffect, SameTask
    <2>2. Ranges(t, e, d)
      BY <2>1, <1>2
    <2> QED
      BY <2>1, <2>2 DEF Counts, Ranges, SameData, Outside, Reading, Closing, Inside
  <1>20. CASE ReadEffect(a, s, w, t, e, d)
    <2> DEFINE n == s.read[s.unit]
               y == Yielded(s, e, d)
               b == DrawsBefore(e, s.unit, d)
    <2>1. /\ a = "read" /\ w = "batch" /\ t.run = s.run /\ t.unit = s.unit /\ t.bag = s.bag /\ t.rng = s.rng
          /\ t.hand = y /\ t.read = [s.read EXCEPT ![s.unit] = n + y]
      BY <1>20 DEF ReadEffect, SameTask
    <2>2. y \in {0, 1} /\ n + y <= Shard(e, s.unit, d)
      BY <1>5 DEF Yielded
    <2>3. /\ s.hand = 0 /\ s.bag = Tally(e, s.unit, d, n - s.hand) /\ s.rng = Drawn(b + n - s.hand)
      BY <2>1 DEF Counts, Outside, Inside, Reading
    <2>4. n \in Nat /\ b \in Nat /\ n + y \in Nat
      BY <1>5, <2>2
    <2> HIDE DEF y
    <2>5. /\ t.read \in [Units(e) -> Nat] /\ t.read[t.unit] = n + y
          /\ \A u \in Units(e) : u # s.unit => t.read[u] = s.read[u]
      BY <1>1, <2>1, <2>4 DEF Ranges
    <2>6. Ranges(t, e, d)
      BY <1>1, <2>1, <2>2, <2>5 DEF Ranges
    <2> HIDE DEF n, b
    <2>7. (n + y) - y = n - 0 /\ b + (n + y) - y = b + n - 0 /\ y <= n + y
      BY <2>2, <2>4
    <2>8. /\ t.bag = Tally(e, t.unit, d, t.read[t.unit] - t.hand)
          /\ t.rng = Drawn(DrawsBefore(e, t.unit, d) + t.read[t.unit] - t.hand)
      BY <2>1, <2>3, <2>5, <2>7 DEF b
    <2>9. t.hand \in {0, 1} /\ t.hand <= t.read[t.unit]
      BY <2>1, <2>2, <2>5, <2>7
    <2> QED
      BY <2>1, <2>6, <2>8, <2>9 DEF Counts, Ranges, Outside, Reading, Closing, Inside
  <1>21. CASE EndEffect(a, s, w, t, e, d)
    <2> DEFINE n == s.read[s.unit]
    <2>1. /\ a = "read" /\ w = "metrics" /\ t.run = s.run /\ t.unit = s.unit /\ t.bag = s.bag /\ t.rng = s.rng
          /\ t.hand = 0 /\ t.read = [s.read EXCEPT ![s.unit] = 0] /\ n = BatchesOf(e, s.unit, d)
      BY <1>21 DEF EndEffect, SameTask
    <2>2. /\ s.hand = 0 /\ s.bag = Tally(e, s.unit, d, n - s.hand)
          /\ s.rng = Drawn(DrawsBefore(e, s.unit, d) + n - s.hand)
      BY <2>1 DEF Counts, Outside, Inside, Reading
    <2>3. t.read \in [Units(e) -> Nat] /\ \A u \in Units(e) : t.read[u] = 0
      BY <1>1, <2>1 DEF Ranges
    <2>4. t.read = AtStart(e)
      BY <2>3 DEF AtStart
    <2>5. Ranges(t, e, d)
      <3>1. \A u \in Units(e) : Shard(e, u, d) \in Nat
        BY ShardIs
      <3> QED
        BY <1>1, <2>1, <2>3, <3>1 DEF Ranges
    <2>6. n - 0 = n /\ DrawsBefore(e, s.unit, d) + n - 0 = DrawsBefore(e, s.unit + 1, d)
      BY <1>5, <2>1
    <2> HIDE DEF n
    <2>7. t.bag = Tally(e, t.unit, d, BatchesOf(e, t.unit, d)) /\ t.rng = Drawn(DrawsBefore(e, t.unit + 1, d))
      BY <2>1, <2>2, <2>6
    <2> QED
      BY <2>1, <2>4, <2>5, <2>7 DEF Counts, Ranges, Outside, Reading, Closing, Inside
  <1> QED
    BY <1>7, <1>8, <1>9, <1>10, <1>11, <1>12, <1>13, <1>14, <1>15, <1>16, <1>17, <1>18,
       <1>19, <1>20, <1>21 DEF AnyEffect, Effect

-----------------------------------------------------------------------------
(***************************************************************************)
(* The ranks of a data parallel gang read side by side.                    *)
(***************************************************************************)
\* A rank that does not read, if anything, in this step.
NoRead(r, d, e, a, s, w, t) ==
    \/ w = a /\ t = s
    \/ Effect(r, d, e, a, s, w, t)
    \/ RecordEffect(a, s, w, t)

\* A rank that has read of its unit, and does not read now, had read as much before.
LEMMA HadRead ==
    ASSUME NEW r, NEW d, NEW e, NEW a, NEW s, NEW w, NEW t, NoRead(r, d, e, a, s, w, t),
           Counts(a, s, e, d), Counts(w, t, e, d), w \in Reading, t.read[t.unit] > 0
    PROVE  a \in Reading /\ s.unit = t.unit /\ s.read = t.read
  <1>1. t.unit \in Units(e) /\ AtStart(e)[t.unit] = 0
    BY DEF Counts, AtStart
  <1>2. w \in {"poll", "read", "batch"}
    BY DEF Reading
  <1>3. CASE w = a /\ t = s
    BY <1>3
  <1>4. CASE BeginEffect(a, s, w, t)
    <2>1. t.read = AtStart(e)
      BY <1>4 DEF BeginEffect, SameData, Counts, Outside
    <2> QED
      BY <1>1, <2>1
  <1>5. CASE PollEffect(a, s, w, t)
    BY <1>5 DEF PollEffect, SameData, Reading
  <1>6. CASE StepEffect(a, s, w, t, d)
    BY <1>6 DEF StepEffect, Reading
  <1>7. CASE NextEffect(a, s, w, t, e, r)
    <2>1. t.read = AtStart(e)
      BY <1>7 DEF NextEffect, Counts, Closing
    <2> QED
      BY <1>1, <2>1
  <1>8. ~ValidateEffect(a, s, w, t) /\ ~LoadEffect(a, s, w, t) /\ ~SyncEffect(a, s, w, t, e, r)
    BY <1>2 DEF ValidateEffect, LoadEffect, SyncEffect
  <1>9. /\ ~ScoreEffect(a, s, w, t, e, r) /\ ~SaveEffect(a, s, w, t) /\ ~ResetEffect(a, s, w, t, e)
    BY <1>2 DEF ScoreEffect, SaveEffect, ResetEffect
  <1>10. ~AskEffect(a, s, w, t) /\ ~GoneEffect(s, w, t) /\ ~RecordEffect(a, s, w, t)
    BY <1>2 DEF AskEffect, GoneEffect, Gone, RecordEffect
  <1> QED
    BY <1>3, <1>4, <1>5, <1>6, <1>7, <1>8, <1>9, <1>10 DEF NoRead, Effect

\* A rank that is reading goes on to read as much, unless it is lost, as it is where it is.
LEMMA GoesOnReading ==
    ASSUME NEW r, NEW d, NEW e, NEW a, NEW s, NEW w, NEW t, NoRead(r, d, e, a, s, w, t),
           a \in Gone \cup Reading
    PROVE  w \in Gone \/ (a \in Reading /\ w \in Reading /\ t.unit = s.unit /\ t.read = s.read)
  <1>1. a \in {"poll", "read", "batch", "stopped", "failed"}
    BY DEF Gone, Reading
  <1>2. CASE w = a /\ t = s
    BY <1>2
  <1>3. CASE PollEffect(a, s, w, t)
    BY <1>3 DEF PollEffect, SameData, Reading
  <1>4. CASE StepEffect(a, s, w, t, d)
    BY <1>4 DEF StepEffect, Reading
  <1>5. CASE GoneEffect(s, w, t)
    BY <1>5 DEF GoneEffect
  <1>6. ~ValidateEffect(a, s, w, t) /\ ~LoadEffect(a, s, w, t) /\ ~BeginEffect(a, s, w, t)
    BY <1>1 DEF ValidateEffect, LoadEffect, BeginEffect
  <1>7. ~SyncEffect(a, s, w, t, e, r) /\ ~NextEffect(a, s, w, t, e, r) /\ ~ScoreEffect(a, s, w, t, e, r)
    BY <1>1 DEF SyncEffect, NextEffect, ScoreEffect
  <1>8. ~SaveEffect(a, s, w, t) /\ ~ResetEffect(a, s, w, t, e) /\ ~AskEffect(a, s, w, t)
    BY <1>1 DEF SaveEffect, ResetEffect, AskEffect
  <1>9. ~RecordEffect(a, s, w, t)
    BY <1>1 DEF RecordEffect
  <1> QED
    BY <1>2, <1>3, <1>4, <1>5, <1>6, <1>7, <1>8, <1>9 DEF NoRead, Effect

LEMMA StayAbreast ==
    ASSUME NEW e, NEW q, NEW c, NEW a, NEW s, NEW w, NEW t, NoRead(q, c, e, a, s, w, t),
           Counts(a, s, e, c), Counts(w, t, e, c),
           NEW r, NEW d, NEW b, NEW o, NEW x, NEW p, NoRead(r, d, e, b, o, x, p),
           Abreast(a, s, b, o, e)
    PROVE  Abreast(w, t, x, p, e)
  <1> SUFFICES ASSUME w \in Reading, t.read[t.unit] > 0, e.units[t.unit].mode = "UNTIL_FIRST"
               PROVE  x \in Gone \/ (x \in Reading /\ p.unit = t.unit /\ p.read[p.unit] = t.read[t.unit])
    BY DEF Abreast
  <1>1. a \in Reading /\ s.unit = t.unit /\ s.read = t.read
    BY HadRead
  <1>2. b \in Gone \/ (b \in Reading /\ o.unit = s.unit /\ o.read[o.unit] = s.read[s.unit])
    BY <1>1 DEF Abreast
  <1>3. Gone \cap Reading = {}
    BY DEF Gone, Reading
  <1>4. x \in Gone \/ (b \in Reading /\ x \in Reading /\ p.unit = o.unit /\ p.read = o.read)
    BY <1>2, GoesOnReading
  <1> QED
    BY <1>1, <1>2, <1>3, <1>4

\* At a collective where they read, two ranks have read as much.
LEMMA EquallyFar ==
    ASSUME NEW e, NEW s, NEW o, Abreast("read", s, "read", o, e), Abreast("read", o, "read", s, e),
           s.unit = o.unit, e.units[s.unit].mode = "UNTIL_FIRST",
           s.read[s.unit] \in Nat, o.read[o.unit] \in Nat
    PROVE  s.read[s.unit] = o.read[o.unit]
  BY DEF Abreast, Gone, Reading

-----------------------------------------------------------------------------
(***************************************************************************)
(* What rank 0 records.                                                    *)
(***************************************************************************)
LEMMA NumFiledIs ==
    ASSUME NEW s, NEW e
    PROVE  /\ \A where \in {"loadScores", "begin"} : NumFiled(where, s, e) = Prior(s, e)
           /\ \A where \in {"poll", "read", "batch", "metrics", "record"} :
                NumFiled(where, s, e) = Prior(s, e) + s.unit - 1
           /\ NumFiled("barrier", s, e) = Prior(s, e) + s.unit
           /\ \A where \in {"training", "earlyStop", "score", "saveScore", "reset", "stopFlag"} :
                NumFiled(where, s, e) = s.run * Len(e.units)
  BY DEF NumFiled, Inside, Reading, Closing

LEMMA PriorIs ==
    ASSUME NEW e \in Evals, NEW s, s.run \in Nat
    PROVE  /\ Prior(s, e) \in Int
           /\ e.task = "validation" => Prior(s, e) + Len(e.units) = s.run * Len(e.units)
  <1> DEFINE n == Len(e.units)
             k == s.run
  <1>1. n \in Nat /\ k \in Nat
    BY TaskIs
  <1> HIDE DEF n, k
  <1>2. (k - 1) * n \in Int /\ (k - 1) * n + n = k * n
    BY <1>1, Z3
  <1> QED
    BY <1>2 DEF Prior, n, k

\* Of the same run a rank has the same records before it.
LEMMA SamePrior == \A e, s, t : t.run = s.run => Prior(t, e) = Prior(s, e)
  BY DEF Prior

LEMMA StaysFiled ==
    ASSUME NEW e \in Evals, NEW d, NEW a, NEW s, NEW w, NEW t, NEW filed,
           \/ Effect(0, d, e, a, s, w, t)
           \/ ReadEffect(a, s, w, t, e, d) \/ EndEffect(a, s, w, t, e, d),
           Counts(a, s, e, d), Filed(a, s, e, filed)
    PROVE  Filed(w, t, e, filed)
  <1> DEFINE n == Len(e.units)
             L == Len(filed)
  <1>1. s.run \in Nat /\ s.unit \in 1..n /\ n \in Nat \ {0} /\ Units(e) = 1..n
    BY TaskIs DEF Counts, Units
  <1>2. Prior(s, e) \in Int /\ (e.task = "validation" => Prior(s, e) + n = s.run * n)
    BY <1>1, PriorIs
  <1> HIDE DEF n, L
  <1>3. /\ (a \in Outside \ {"begin"} => e.task = "validation")
        /\ (e.task = "validation" /\ a \in (Outside \cup Inside) \ {"training", "earlyStop"} => s.run > 0)
        /\ (a \in Outside \cup Inside => L = NumFiled(a, s, e))
        /\ (a \in Inside /\ e.scored => s.score.of = 1..(s.unit - 1))
        /\ (a \in {"score", "saveScore"} /\ e.scored => s.score.of = Units(e))
        /\ (a = "saveScore" => e.scored)
        /\ (a = "record" => s.bag = Recordable(e, s.unit))
    BY DEF Filed, L
  <1>4. CASE ValidateEffect(a, s, w, t)
    <2>1. a = "training" /\ w \in {"loadScores", "begin"} /\ t.run = s.run + 1
      BY <1>4 DEF ValidateEffect
    <2>2. e.task = "validation" /\ L = s.run * n
      BY <1>3, <2>1, NumFiledIs DEF Outside, n
    <2>3. t.run - 1 = s.run /\ t.run > 0
      BY <1>1, <2>1
    <2>4. NumFiled(w, t, e) = s.run * n
      BY <2>1, <2>2, <2>3, NumFiledIs DEF Prior, n
    <2> QED
      BY <2>1, <2>2, <2>3, <2>4 DEF Filed, Outside, Inside, Reading, Closing, L
  <1>5. CASE LoadEffect(a, s, w, t)
    <2>1. a = "loadScores" /\ w = "begin" /\ t.run = s.run
      BY <1>5 DEF LoadEffect
    <2>2. L = NumFiled(w, t, e)
      BY <1>3, <2>1, NumFiledIs, SamePrior DEF Outside
    <2>3. e.task = "validation" => s.run > 0
      BY <1>3, <2>1 DEF Outside
    <2> QED
      BY <2>1, <2>2, <2>3 DEF Filed, Outside, Inside, Reading, Closing, L
  <1>6. CASE BeginEffect(a, s, w, t)
    <2>1. a = "begin" /\ w = "poll" /\ t.run = s.run /\ t.unit = s.unit /\ t.score = NoScore
      BY <1>6 DEF BeginEffect, SameData
    <2>2. t.unit = 1
      BY <2>1 DEF Counts, Outside
    <2>3. L = NumFiled(w, t, e)
      <3>1. L = Prior(s, e)
        BY <1>3, <2>1, NumFiledIs DEF Outside
      <3>2. NumFiled(w, t, e) = Prior(s, e) + 1 - 1
        BY <2>1, <2>2, NumFiledIs, SamePrior
      <3> QED
        BY <1>2, <3>1, <3>2
    <2>4. e.task = "validation" => s.run > 0
      BY <1>3, <2>1 DEF Outside
    <2>5. t.score.of = 1..(t.unit - 1)
      <3>1. 1..(1 - 1) = {}
        OBVIOUS
      <3> QED
        BY <2>1, <2>2, <3>1 DEF NoScore
    <2> QED
      BY <2>1, <2>3, <2>4, <2>5 DEF Filed, Outside, Inside, Reading, Closing, L
  <1>7. ASSUME a \in {"poll", "read", "batch", "metrics"}, w \in {"poll", "read", "batch", "metrics", "record"},
               t.run = s.run, t.unit = s.unit, t.score = s.score,
               w = "record" => t.bag = Recordable(e, t.unit)
        PROVE  Filed(w, t, e, filed)
    <2>1. L = NumFiled(w, t, e)
      <3>1. L = Prior(s, e) + s.unit - 1
        BY <1>3, <1>7, NumFiledIs DEF Inside, Reading, Closing
      <3>2. NumFiled(w, t, e) = Prior(t, e) + t.unit - 1
        BY <1>7, NumFiledIs
      <3> QED
        BY <1>7, <3>1, <3>2, SamePrior
    <2>2. e.task = "validation" => s.run > 0
      BY <1>3, <1>7 DEF Inside, Reading, Closing
    <2>3. e.scored => s.score.of = 1..(s.unit - 1)
      BY <1>3, <1>7 DEF Inside, Reading, Closing
    <2> QED
      BY <1>7, <2>1, <2>2, <2>3 DEF Filed, Outside, Inside, Reading, Closing, L
  <1>8. CASE PollEffect(a, s, w, t)
    BY <1>7, <1>8 DEF PollEffect, SameTask, SameData
  <1>9. CASE StepEffect(a, s, w, t, d)
    BY <1>7, <1>9 DEF StepEffect, SameTask
  <1>10. CASE SyncEffect(a, s, w, t, e, 0)
    BY <1>7, <1>10 DEF SyncEffect, SameTask
  <1>11. CASE ReadEffect(a, s, w, t, e, d)
    BY <1>7, <1>11 DEF ReadEffect, SameTask
  <1>12. CASE EndEffect(a, s, w, t, e, d)
    BY <1>7, <1>12 DEF EndEffect, SameTask
  <1>13. CASE NextEffect(a, s, w, t, e, 0)
    <2>1. a = "barrier" /\ t.run = s.run
      BY <1>13 DEF NextEffect, SameTask
    <2>2. L = Prior(s, e) + s.unit
      BY <1>3, <2>1, NumFiledIs DEF Inside, Closing
    <2>3. e.task = "validation" => s.run > 0
      BY <1>3, <2>1 DEF Inside, Closing
    <2>4. e.scored => t.score.of = 1..s.unit
      <3>1. e.scored => t.score.of = s.score.of \cup {s.unit}
        BY <1>13 DEF NextEffect
      <3>2. e.scored => s.score.of = 1..(s.unit - 1)
        BY <1>3, <2>1 DEF Inside, Closing
      <3>3. (1..(s.unit - 1)) \cup {s.unit} = 1..s.unit
        BY <1>1
      <3> QED
        BY <3>1, <3>2, <3>3
    <2>5. CASE s.unit = n
      <3>1. w = IF e.task = "validation" THEN "score" ELSE "done"
        BY <1>13, <2>5 DEF NextEffect, n
      <3>2. CASE e.task = "validation"
        <4>1. L = NumFiled(w, t, e)
          BY <1>2, <2>1, <2>2, <2>5, <3>1, <3>2, NumFiledIs DEF n
        <4> QED
          BY <1>1, <2>1, <2>3, <2>4, <2>5, <3>1, <3>2, <4>1 DEF Filed, Outside, Inside, Reading, Closing, L
      <3>3. CASE e.task # "validation"
        BY <3>1, <3>3 DEF Filed, Outside, Inside, Reading, Closing
      <3> QED
        BY <3>2, <3>3
    <2>6. CASE s.unit # n
      <3>1. w = "poll" /\ t.unit = s.unit + 1
        BY <1>13, <2>6 DEF NextEffect, n
      <3>2. L = NumFiled(w, t, e)
        <4>1. NumFiled(w, t, e) = Prior(s, e) + (s.unit + 1) - 1
          BY <2>1, <3>1, NumFiledIs, SamePrior
        <4> QED
          BY <1>1, <1>2, <2>2, <4>1
      <3>3. t.unit - 1 = s.unit
        BY <1>1, <3>1
      <3> QED
        BY <2>1, <2>3, <2>4, <3>1, <3>2, <3>3 DEF Filed, Outside, Inside, Reading, Closing, L
    <2> QED
      BY <2>5, <2>6
  <1>14. ASSUME a \in {"score", "saveScore", "reset", "stopFlag"}, t.run = s.run,
                w \in {"saveScore", "reset", "stopFlag", "training", "earlyStop"},
                w = "saveScore" => a = "score" /\ e.scored /\ t.score = s.score
         PROVE  Filed(w, t, e, filed)
    <2>1. L = NumFiled(w, t, e)
      BY <1>3, <1>14, NumFiledIs DEF Outside
    <2>2. e.task = "validation" /\ s.run > 0
      BY <1>3, <1>14 DEF Outside
    <2>3. w = "saveScore" => t.score.of = Units(e) /\ e.scored
      BY <1>3, <1>14
    <2> QED
      BY <1>14, <2>1, <2>2, <2>3 DEF Filed, Outside, Inside, Reading, Closing, L
  <1>15. CASE ScoreEffect(a, s, w, t, e, 0)
    BY <1>14, <1>15 DEF ScoreEffect
  <1>16. CASE SaveEffect(a, s, w, t)
    BY <1>14, <1>16 DEF SaveEffect
  <1>17. CASE ResetEffect(a, s, w, t, e)
    BY <1>14, <1>17 DEF ResetEffect
  <1>18. CASE AskEffect(a, s, w, t)
    BY <1>14, <1>18 DEF AskEffect
  <1>19. CASE GoneEffect(s, w, t)
    BY <1>19 DEF GoneEffect, Gone, Filed, Outside, Inside, Reading, Closing
  <1> QED
    BY <1>4, <1>5, <1>6, <1>8, <1>9, <1>10, <1>11, <1>12, <1>13, <1>15, <1>16, <1>17, <1>18, <1>19
       DEF Effect

\* A record is made in its place in the order of the units.
LEMMA RecordIsFiled ==
    ASSUME NEW e \in Evals, NEW d, NEW a, NEW s, NEW w, NEW t, NEW filed, RecordEffect(a, s, w, t),
           Counts(a, s, e, d), Filed(a, s, e, filed), InOrder(e, filed)
    PROVE  LET more == Append(filed, [run |-> s.run, unit |-> s.unit, values |-> s.bag])
           IN  Filed(w, t, e, more) /\ InOrder(e, more)
  <1> DEFINE n == Len(e.units)
             L == Len(filed)
             x == [run |-> s.run, unit |-> s.unit, values |-> s.bag]
             more == Append(filed, x)
             k == IF e.task = "validation" THEN s.run - 1 ELSE 0
  <1>1. s.run \in Nat /\ s.unit \in 1..n /\ n \in Nat \ {0} /\ Units(e) = 1..n
    BY TaskIs DEF Counts, Units
  <1>2. a = "record" /\ w = "barrier" /\ t.run = s.run /\ t.unit = s.unit /\ t.score = s.score
    BY DEF RecordEffect, SameTask, SameData
  <1>3. /\ e.task = "validation" => s.run > 0
        /\ L = NumFiled(a, s, e) /\ s.bag = Recordable(e, s.unit)
        /\ e.scored => s.score.of = 1..(s.unit - 1)
    BY <1>2 DEF Filed, Outside, Inside, Closing
  <1>4. Prior(s, e) = k * n /\ k \in Nat /\ (e.task = "validation" => s.run = k + 1)
    BY <1>1, <1>3 DEF Prior
  <1>5. x \in Records(e) /\ filed \in Seq(Records(e))
    BY <1>1, <1>3 DEF Records, InOrder
  <1> HIDE DEF n, k
  <1>6. k * n \in Nat
    BY <1>1, <1>4
  <1>7. L = k * n + (s.unit - 1) /\ s.unit - 1 \in 0..(n - 1)
    <2>1. L = Prior(s, e) + s.unit - 1
      BY <1>2, <1>3, NumFiledIs
    <2> QED
      BY <1>1, <1>4, <1>6, <2>1
  <1>8. L % n = s.unit - 1 /\ L \div n = k
    <2> DEFINE y == s.unit - 1
    <2>1. y \in 0..(n - 1) /\ L = k * n + y
      BY <1>7
    <2> HIDE DEF y, L
    <2>2. (k * n + y) \div n = k /\ (k * n + y) % n = y
      BY <1>1, <1>4, <2>1, PartsAre
    <2> QED
      BY <2>1, <2>2 DEF y
  <1>9. /\ more \in Seq(Records(e)) /\ Len(more) = L + 1 /\ L \in Nat /\ more[L + 1] = x
        /\ DOMAIN more = 1..(L + 1) /\ DOMAIN filed = 1..L
        /\ \A i \in 1..L : more[i] = filed[i]
    <2> HIDE DEF x
    <2> QED
      BY <1>5
  <1> HIDE DEF L, more
  <1>10. Filed(w, t, e, more)
    <2>1. Len(more) = NumFiled(w, t, e)
      <3>1. NumFiled(w, t, e) = k * n + s.unit
        BY <1>2, <1>4, NumFiledIs, SamePrior
      <3> QED
        BY <1>1, <1>6, <1>7, <1>9, <3>1
    <2> QED
      BY <1>2, <1>3, <2>1 DEF Filed, Outside, Inside, Reading, Closing
  <1>11. InOrder(e, more)
    <2>1. ASSUME NEW i \in DOMAIN more
          PROVE  /\ more[i].values = Recordable(e, more[i].unit)
                 /\ more[i].unit = ((i - 1) % n) + 1
                 /\ e.task = "validation" => more[i].run = ((i - 1) \div n) + 1
      <3>1. CASE i \in 1..L
        BY <1>9, <3>1 DEF InOrder, n
      <3>2. CASE i = L + 1
        <4>1. i - 1 = L
          BY <1>9, <3>2
        <4>2. (s.unit - 1) + 1 = s.unit
          BY <1>1
        <4>3. more[i].unit = s.unit /\ more[i].run = s.run /\ more[i].values = s.bag
          BY <1>9, <3>2
        <4> QED
          BY <1>3, <1>4, <1>8, <4>1, <4>2, <4>3
      <3>3. i \in 1..L \/ i = L + 1
        BY <1>9, <2>1
      <3> QED
        BY <3>1, <3>2, <3>3
    <2> QED
      BY <1>9, <2>1 DEF InOrder, n
  <1> QED
    BY <1>10, <1>11 DEF more

-----------------------------------------------------------------------------
(***************************************************************************)
(* The actions.  Each rank stays as it is or moves by one effect.          *)
(***************************************************************************)
Stays(r)    == at'[r] = at[r] /\ rank'[r] = rank[r]
Advances(r) == Effect(r, DPRank(r), eval, at[r], rank[r], at'[r], rank'[r])
Reads(r)    == ReadEffect(at[r], rank[r], at'[r], rank'[r], eval, DPRank(r))
Ends(r)     == EndEffect(at[r], rank[r], at'[r], rank'[r], eval, DPRank(r))
Files(r)    == RecordEffect(at[r], rank[r], at'[r], rank'[r])

\* The ranks move, and are still ranks.
RanksMove ==
    /\ UNCHANGED <<eval, gangs>>
    /\ at' = [r \in EvalRanks |-> at'[r]] /\ rank' = [r \in EvalRanks |-> rank'[r]]
    /\ \A r \in EvalRanks : Objects(rank'[r])

\* A step that is not for reading or recording.
MostDo ==
    /\ RanksMove /\ \A r \in EvalRanks : Stays(r) \/ Advances(r)
    /\ UNCHANGED recorded
    /\ \/ UNCHANGED scores
       \/ /\ at[0] = "saveScore"
          /\ scores' = scores \cup {[run |-> rank[0].run, units |-> rank[0].score.of]}

\* One of the collectives for reading.
ReadingDoes ==
    /\ RanksMove
    /\ \E g \in EvalRanks :
         /\ \A r \in EvalRanks \ Range(DP(g)) : Stays(r)
         /\ \/ /\ \A r \in Range(DP(g)) : Reads(r)
               /\ \A r \in Range(DP(g)) : rank[r].unit = rank[g].unit
               /\ Unit(g).mode = "UNTIL_FIRST" =>
                    \A r \in Range(DP(g)) : rank[r].read[rank[r].unit] # Shard(eval, rank[r].unit, DPRank(r))
            \/ \A r \in Range(DP(g)) : Ends(r)
    /\ UNCHANGED <<recorded, scores>>

\* A rank that records, if it is rank 0.
RecordDoes ==
    /\ RanksMove
    /\ \E g \in EvalRanks : Files(g) /\ \A r \in EvalRanks \ {g} : Stays(r)
    /\ recorded' = IF Files(0) THEN Append(recorded, [run |-> rank[0].run, unit |-> rank[0].unit,
                                                      values |-> rank[0].bag])
                   ELSE recorded
    /\ UNCHANGED scores

LEMMA AreFields ==
    /\ "run" \in Fields /\ "unit" \in Fields /\ "read" \in Fields /\ "hand" \in Fields
    /\ "bag" \in Fields /\ "rng" \in Fields /\ "kept" \in Fields /\ "training" \in Fields
    /\ "hasRun" \in Fields /\ "best" \in Fields /\ "inFlight" \in Fields /\ "score" \in Fields
  BY DEF Fields

\* A rank that moves by itself.
LEMMA OneMoves ==
    ASSUME RanksInv, NEW g \in EvalRanks, NEW w, NEW t, Moves(g, w, t), UNCHANGED <<eval, gangs>>, Objects(t)
    PROVE  /\ RanksMove /\ at'[g] = w /\ rank'[g] = t
           /\ \A r \in EvalRanks \ {g} : Stays(r)
  <1>1. /\ at' = [r \in EvalRanks |-> IF r = g THEN w ELSE at[r]]
        /\ rank' = [r \in EvalRanks |-> IF r = g THEN t ELSE rank[r]]
    <2>1. Functional
      BY DEF RanksInv
    <2> QED
      BY <2>1 DEF Moves, Functional
  <1>2. at'[g] = w /\ rank'[g] = t /\ \A r \in EvalRanks \ {g} : Stays(r)
    BY <1>1 DEF Stays
  <1>3. \A r \in EvalRanks : Objects(rank'[r])
    BY <1>2 DEF Stays, RanksInv
  <1> QED
    BY <1>1, <1>2, <1>3 DEF RanksMove

LEMMA OneAdvances ==
    ASSUME RanksInv, NEW g \in EvalRanks, NEW w, NEW t, Moves(g, w, t), Still, Objects(t),
           Effect(g, DPRank(g), eval, at[g], rank[g], w, t)
    PROVE  MostDo
  BY OneMoves DEF MostDo, Still, Advances

\* A gang that moves, with where its members move to and their objects as functions.
GangMoves(g, where, after) ==
    /\ at' = [r \in EvalRanks |-> IF r \in Range(g) THEN where[r] ELSE at[r]]
    /\ rank' = [r \in EvalRanks |-> IF r \in Range(g) THEN after[r] ELSE rank[r]]

LEMMA GangAdvances ==
    ASSUME RanksInv, NEW g, NEW where, NEW after, GangMoves(g, where, after),
           UNCHANGED <<eval, gangs>>, \A r \in EvalRanks : r \in Range(g) => Objects(after[r])
    PROVE  /\ RanksMove
           /\ \A r \in EvalRanks : r \notin Range(g) => Stays(r)
           /\ \A r \in EvalRanks : r \in Range(g) => at'[r] = where[r] /\ rank'[r] = after[r]
  <1>1. /\ \A r \in EvalRanks : r \notin Range(g) => Stays(r)
        /\ \A r \in EvalRanks : r \in Range(g) => at'[r] = where[r] /\ rank'[r] = after[r]
    BY DEF GangMoves, Stays
  <1>2. \A r \in EvalRanks : Objects(rank'[r])
    BY <1>1 DEF Stays, RanksInv
  <1>3. at' = [r \in EvalRanks |-> at'[r]] /\ rank' = [r \in EvalRanks |-> rank'[r]]
    BY DEF GangMoves
  <1> QED
    BY <1>1, <1>2, <1>3 DEF RanksMove

\* The steps a rank makes by itself, but for recording.
LEMMA OwnSteps ==
    ASSUME RanksInv, NEW r \in EvalRanks, OwnStep(r), ~Record(r)
    PROVE  MostDo
  <1> DEFINE s == rank[r]
             E(w, t) == Effect(r, DPRank(r), eval, at[r], s, w, t)
  <1>1. Objects(s)
    BY DEF RanksInv
  <1>2. CASE Validate(r)
    <2>1. CASE s.hasRun
      <3>1. GoneEffect(s, "failed", s)
        BY DEF GoneEffect, Gone
      <3> QED
        BY <1>1, <1>2, <2>1, <3>1, OneAdvances DEF Validate, Effect
    <2>2. CASE ~s.hasRun
      <3> DEFINE t == [s EXCEPT !.run = @ + 1, !.rng = Draw(@), !.training = FALSE,
                                !.inFlight = eval.saving, !.hasRun = TRUE]
                 w == IF eval.scored /\ s.best < 0 THEN "loadScores" ELSE "begin"
      <3>1. Objects(t) /\ t.run = s.run + 1 /\ t.rng = Draw(s.rng) /\ SameData(s, t)
        BY <1>1, AreFields DEF Objects, SameData
      <3>2. w \in {"loadScores", "begin"} /\ Moves(r, w, t) /\ at[r] = "training"
        BY <1>2, <2>2 DEF Validate
      <3> HIDE DEF t, w
      <3>3. Effect(r, DPRank(r), eval, at[r], s, w, t)
        BY <3>1, <3>2 DEF ValidateEffect, Effect
      <3> QED
        BY <1>2, <3>1, <3>2, <3>3, OneAdvances DEF Validate
    <2> QED
      BY <2>1, <2>2
  <1>3. CASE BeginTask(r)
    <2> DEFINE t == [s EXCEPT !.kept = s.rng, !.rng = Seeded("eval"), !.training = FALSE,
                              !.score = NoScore]
    <2>1. /\ Objects(t) /\ t.run = s.run /\ t.kept = s.rng /\ t.rng = Seeded("eval") /\ ~t.training
          /\ t.score = NoScore /\ SameData(s, t)
      BY <1>1, AreFields DEF Objects, SameData
    <2>2. Moves(r, "poll", t) /\ at[r] = "begin"
      BY <1>3 DEF BeginTask
    <2> HIDE DEF t
    <2>3. Effect(r, DPRank(r), eval, at[r], s, "poll", t)
      BY <2>1, <2>2 DEF BeginEffect, Effect
    <2> QED
      BY <1>3, <2>1, <2>2, <2>3, OneAdvances DEF BeginTask
  <1>4. CASE PollStop(r)
    <2>1. CASE told[r]
      <3> DEFINE t == [s EXCEPT !.rng = s.kept]
      <3>1. Objects(t) /\ t.run = s.run /\ t.unit = s.unit /\ t.read = s.read
        BY <1>1, AreFields DEF Objects
      <3>2. Moves(r, "stopped", t)
        BY <1>4, <2>1 DEF PollStop
      <3> HIDE DEF t
      <3>3. Effect(r, DPRank(r), eval, at[r], s, "stopped", t)
        BY <3>1 DEF GoneEffect, Gone, Effect
      <3> QED
        BY <1>4, <3>1, <3>2, <3>3, OneAdvances DEF PollStop
    <2>2. CASE ~told[r]
      <3>1. Moves(r, "read", s) /\ at[r] = "poll"
        BY <1>4, <2>2 DEF PollStop
      <3>2. Effect(r, DPRank(r), eval, at[r], s, "read", s)
        BY <3>1 DEF PollEffect, SameTask, SameData, Effect
      <3> QED
        BY <1>1, <1>4, <3>1, <3>2, OneAdvances DEF PollStop
    <2> QED
      BY <2>1, <2>2
  <1>5. CASE EvalStep(r)
    <2>1. CASE s.hand = 0
      <3>1. Moves(r, "poll", s) /\ at[r] = "batch"
        BY <1>5, <2>1 DEF EvalStep
      <3>2. Effect(r, DPRank(r), eval, at[r], s, "poll", s)
        BY <2>1, <3>1 DEF StepEffect, SameTask, Effect
      <3> QED
        BY <1>1, <1>5, <3>1, <3>2, OneAdvances DEF EvalStep
    <2>2. CASE s.hand # 0
      <3> DEFINE b == s.bag \cup {<<DPRank(r), s.read[s.unit], s.rng>>}
                 t == [s EXCEPT !.bag = b, !.rng = Draw(@), !.hand = 0]
      <3>1. Moves(r, "poll", t) /\ at[r] = "batch"
        BY <1>5, <2>2 DEF EvalStep
      <3> HIDE DEF b
      <3>2. /\ Objects(t) /\ SameTask(s, t) /\ t.unit = s.unit /\ t.read = s.read /\ t.hand = 0
            /\ t.score = s.score /\ t.bag = b /\ t.rng = Draw(s.rng)
        BY <1>1, AreFields DEF Objects, SameTask
      <3> HIDE DEF t
      <3>3. Effect(r, DPRank(r), eval, at[r], s, "poll", t)
        BY <2>2, <3>1, <3>2 DEF StepEffect, Effect, b
      <3> QED
        BY <1>5, <3>1, <3>2, <3>3, OneAdvances DEF EvalStep
    <2> QED
      BY <2>1, <2>2
  <1>6. CASE SkipSync(r)
    <2>1. Moves(r, "record", s) /\ at[r] = "metrics" /\ r # 0
      BY <1>6, RootIs DEF SkipSync, RanksInv
    <2>2. Effect(r, DPRank(r), eval, at[r], s, "record", s)
      BY <2>1 DEF SyncEffect, SameTask, Effect
    <2> QED
      BY <1>1, <1>6, <2>1, <2>2, OneAdvances DEF SkipSync
  <1>7. CASE Score(r)
    <2> DEFINE t == [s EXCEPT !.score = Aggregate(r)]
               w == IF Aggregate(r).given /\ eval.saving THEN "saveScore" ELSE "reset"
    <2>1. Objects(t) /\ t.run = s.run /\ t.rng = s.rng /\ SameData(s, t) /\ t.score = Aggregate(r)
      BY <1>1, AreFields DEF Objects, SameData
    <2>2. w \in {"saveScore", "reset"} /\ Moves(r, w, t) /\ at[r] = "score"
      BY <1>7 DEF Score
    <2>3. w = "saveScore" => eval.scored
      BY DEF Aggregate, NoScore
    <2>4. r = 0 /\ eval.scored => Aggregate(r) = s.score
      BY DEF Aggregate
    <2> HIDE DEF t, w
    <2>5. Effect(r, DPRank(r), eval, at[r], s, w, t)
      BY <2>1, <2>2, <2>3, <2>4 DEF ScoreEffect, Effect
    <2> QED
      BY <1>7, <2>1, <2>2, <2>5, OneAdvances DEF Score
  <1>8. CASE ResetTask(r)
    <2> DEFINE t == [s EXCEPT !.read = AtStart(eval), !.hasRun = FALSE, !.training = TRUE]
               w == IF s.score.given /\ eval.stopper THEN "stopFlag" ELSE "training"
    <2>1. /\ Objects(t) /\ t.run = s.run /\ t.rng = s.rng /\ t.unit = s.unit /\ t.hand = s.hand
          /\ t.bag = s.bag /\ t.read = AtStart(eval) /\ t.training /\ ~t.hasRun
      BY <1>1, AreFields DEF Objects
    <2>2. w \in {"stopFlag", "training"} /\ Moves(r, w, t) /\ at[r] = "reset"
      BY <1>8 DEF ResetTask, AtStart, Units, NumUnits
    <2> HIDE DEF t, w
    <2>3. Effect(r, DPRank(r), eval, at[r], s, w, t)
      BY <2>1, <2>2 DEF ResetEffect, Effect
    <2> QED
      BY <1>8, <2>1, <2>2, <2>3, OneAdvances DEF ResetTask
  <1>9. CASE GiveUp(r)
    <2> DEFINE t == [s EXCEPT !.rng = s.kept]
    <2>1. Objects(t) /\ t.run = s.run /\ t.unit = s.unit /\ t.read = s.read
      BY <1>1, AreFields DEF Objects
    <2>2. Moves(r, "failed", t)
      BY <1>9 DEF GiveUp
    <2> HIDE DEF t
    <2>3. Effect(r, DPRank(r), eval, at[r], s, "failed", t)
      BY <2>1 DEF GoneEffect, Gone, Effect
    <2> QED
      BY <1>9, <2>1, <2>2, <2>3, OneAdvances DEF GiveUp
  <1> QED
    BY <1>2, <1>3, <1>4, <1>5, <1>6, <1>7, <1>8, <1>9 DEF OwnStep

LEMMA RecordSteps ==
    ASSUME RanksInv, NEW r \in EvalRanks, Record(r)
    PROVE  RecordDoes
  <1>1. Objects(rank[r]) /\ Moves(r, "barrier", rank[r]) /\ at[r] = "record" /\ UNCHANGED <<eval, gangs>>
    BY DEF RanksInv, Record
  <1>2. /\ RanksMove /\ at'[r] = "barrier" /\ rank'[r] = rank[r]
        /\ \A q \in EvalRanks \ {r} : Stays(q)
    BY <1>1, OneMoves
  <1>3. Files(r)
    BY <1>1, <1>2 DEF Files, RecordEffect, SameTask, SameData
  <1>4. r # 0 => ~Files(0)
    <2>1. r # 0 => Stays(0)
      BY <1>2, RanksAre DEF RanksInv
    <2> QED
      BY <2>1 DEF Stays, Files, RecordEffect
  <1> QED
    BY <1>2, <1>3, <1>4 DEF RecordDoes, Record

\* Who is in a collective has come to it.
LEMMA GatheredAre ==
    ASSUME RanksInv, NEW g, NEW c, Gathered(g, c), NEW r \in EvalRanks, r \in Range(g)
    PROVE  at[r] = c /\ rank[r].unit = rank[g[1]].unit /\ Objects(rank[r])
  BY DEF Gathered, RanksInv

\* The collectives of all ranks.
LEMMA RootSteps ==
    ASSUME RanksInv, NEW q \in EvalRanks, OnRoot(Root(q))
    PROVE  MostDo
  <1> DEFINE g == Root(q)
  <1>1. Range(g) = EvalRanks /\ 0 \in EvalRanks
    BY RootIs, RanksAre DEF RanksInv
  <1> HIDE DEF g
  <1>2. ASSUME NEW where, NEW after, GangMoves(g, where, after), UNCHANGED <<eval, gangs, recorded>>,
               \/ UNCHANGED scores
               \/ /\ at[0] = "saveScore"
                  /\ scores' = scores \cup {[run |-> rank[0].run, units |-> rank[0].score.of]},
               \A r \in EvalRanks : /\ Objects(after[r])
                                    /\ Effect(r, DPRank(r), eval, at[r], rank[r], where[r], after[r])
        PROVE  MostDo
    BY <1>1, <1>2, GangAdvances DEF MostDo, Advances
  <1>3. CASE LoadScores(g)
    <2> DEFINE Best(r) == IF r = 0 /\ scores # {} THEN Max({s.run : s \in scores}) ELSE 0
               where == [r \in EvalRanks |-> "begin"]
               after == [r \in EvalRanks |-> [rank[r] EXCEPT !.best = Best(r)]]
    <2>1. GangMoves(g, where, after)
      BY <1>3 DEF LoadScores, AllMove, GangMoves
    <2>2. ASSUME NEW r \in EvalRanks
          PROVE  /\ Objects(after[r])
                 /\ Effect(r, DPRank(r), eval, at[r], rank[r], where[r], after[r])
      <3> DEFINE s == rank[r]
                 t == [s EXCEPT !.best = Best(r)]
      <3>0. Gathered(g, "loadScores") /\ r \in Range(g) /\ RanksInv
        BY <1>1, <1>3 DEF LoadScores
      <3>1. at[r] = "loadScores" /\ Objects(s)
        BY ONLY <3>0, r \in EvalRanks, GatheredAre
      <3>2. where[r] = "begin" /\ after[r] = t
        OBVIOUS
      <3> HIDE DEF Best, where, after
      <3>3. Objects(t) /\ t.run = s.run /\ t.rng = s.rng /\ SameData(s, t)
        BY <3>1, AreFields DEF Objects, SameData
      <3> HIDE DEF t
      <3> QED
        BY <3>1, <3>2, <3>3 DEF LoadEffect, Effect
    <2> HIDE DEF where, after
    <2> QED
      BY <1>2, <1>3, <2>1, <2>2 DEF LoadScores, Still
  <1>4. CASE PollSave(g)
    <2>0. PICK pending \in BOOLEAN :
            AllMove(g, LAMBDA r : "read", LAMBDA r : [rank[r] EXCEPT !.inFlight = pending])
      BY <1>4 DEF PollSave
    <2> DEFINE where == [r \in EvalRanks |-> "read"]
               after == [r \in EvalRanks |-> [rank[r] EXCEPT !.inFlight = pending]]
    <2>1. GangMoves(g, where, after)
      BY <2>0 DEF AllMove, GangMoves
    <2>2. ASSUME NEW r \in EvalRanks
          PROVE  /\ Objects(after[r])
                 /\ Effect(r, DPRank(r), eval, at[r], rank[r], where[r], after[r])
      <3> DEFINE s == rank[r]
                 t == [s EXCEPT !.inFlight = pending]
      <3>0. Gathered(g, "poll") /\ r \in Range(g) /\ RanksInv
        BY <1>1, <1>4 DEF PollSave
      <3>1. at[r] = "poll" /\ Objects(s)
        BY ONLY <3>0, r \in EvalRanks, GatheredAre
      <3>2. where[r] = "read" /\ after[r] = t
        OBVIOUS
      <3> HIDE DEF where, after
      <3>3. Objects(t) /\ SameTask(s, t) /\ t.rng = s.rng /\ t.score = s.score /\ SameData(s, t)
        BY <3>1, AreFields DEF Objects, SameData, SameTask
      <3> HIDE DEF t
      <3> QED
        BY <3>1, <3>2, <3>3 DEF PollEffect, Effect
    <2> HIDE DEF where, after
    <2> QED
      BY <1>2, <1>4, <2>1, <2>2 DEF PollSave, Still
  <1>5. CASE NextUnit(g)
    <2> DEFINE last == rank[g[1]].unit = NumUnits
               Place == IF ~last THEN "poll" ELSE IF Validates THEN "score" ELSE "done"
               where == [r \in EvalRanks |-> Place]
               after == [r \in EvalRanks |->
                          [rank[r] EXCEPT !.score = WithUnit(r), !.bag = {},
                                          !.unit = IF last THEN 1 ELSE @ + 1,
                                          !.rng = IF last THEN rank[r].kept ELSE @]]
    <2>1. GangMoves(g, where, after)
      BY <1>5 DEF NextUnit, AllMove, GangMoves
    <2>2. ASSUME NEW r \in EvalRanks
          PROVE  /\ Objects(after[r])
                 /\ Effect(r, DPRank(r), eval, at[r], rank[r], where[r], after[r])
      <3> DEFINE s == rank[r]
                 u == IF last THEN 1 ELSE s.unit + 1
                 n == IF last THEN s.kept ELSE s.rng
                 t == [s EXCEPT !.score = WithUnit(r), !.bag = {}, !.unit = u, !.rng = n]
      <3>0. Gathered(g, "barrier") /\ r \in Range(g) /\ RanksInv
        BY <1>1, <1>5 DEF NextUnit
      <3>1. at[r] = "barrier" /\ Objects(s) /\ s.unit = rank[g[1]].unit
        BY ONLY <3>0, r \in EvalRanks, GatheredAre
      <3>2. where[r] = Place /\ after[r] = t
        OBVIOUS
      <3>3. /\ s.unit = Len(eval.units) =>
                 u = 1 /\ n = s.kept /\ Place = (IF eval.task = "validation" THEN "score" ELSE "done")
            /\ s.unit # Len(eval.units) => u = s.unit + 1 /\ n = s.rng /\ Place = "poll"
        BY <3>1 DEF NumUnits, Validates
      <3>4. r = 0 /\ eval.scored => WithUnit(r).of = s.score.of \cup {s.unit}
        BY DEF WithUnit, ScoreOf
      <3> HIDE DEF last, Place, where, after, u, n
      <3>5. /\ Objects(t) /\ SameTask(s, t) /\ t.read = s.read /\ t.hand = s.hand
            /\ t.bag = {} /\ t.rng = n /\ t.unit = u /\ t.score = WithUnit(r)
        BY <3>1, AreFields DEF Objects, SameTask
      <3> HIDE DEF t
      <3>6. NextEffect("barrier", s, Place, t, eval, r)
        BY <3>3, <3>4, <3>5 DEF NextEffect
      <3> QED
        BY <3>1, <3>2, <3>5, <3>6 DEF Effect
    <2> HIDE DEF where, after
    <2> QED
      BY <1>2, <1>5, <2>1, <2>2 DEF NextUnit, Still
  <1>6. CASE SaveScore(g)
    <2> DEFINE where == [r \in EvalRanks |-> "reset"]
               after == [r \in EvalRanks |-> rank[r]]
    <2>1. GangMoves(g, where, after)
      BY <1>6 DEF SaveScore, AllMove, GangMoves
    <2>2. \A r \in EvalRanks : at[r] = "saveScore" /\ Objects(rank[r])
      BY <1>1, <1>6, GatheredAre DEF SaveScore
    <2>3. ASSUME NEW r \in EvalRanks
          PROVE  /\ Objects(after[r])
                 /\ Effect(r, DPRank(r), eval, at[r], rank[r], where[r], after[r])
      BY <2>2 DEF SaveEffect, Effect
    <2> HIDE DEF where, after
    <2> QED
      BY <1>1, <1>2, <1>6, <2>1, <2>2, <2>3 DEF SaveScore
  <1>7. CASE AskStopper(g)
    <2>0. PICK stops \in BOOLEAN :
            AllMove(g, LAMBDA r : IF stops THEN "earlyStop" ELSE "training", LAMBDA r : rank[r])
      BY <1>7 DEF AskStopper
    <2> DEFINE where == [r \in EvalRanks |-> IF stops THEN "earlyStop" ELSE "training"]
               after == [r \in EvalRanks |-> rank[r]]
    <2>1. GangMoves(g, where, after)
      BY <2>0 DEF AllMove, GangMoves
    <2>2. \A r \in EvalRanks : at[r] = "stopFlag" /\ Objects(rank[r])
      BY <1>1, <1>7, GatheredAre DEF AskStopper
    <2>3. ASSUME NEW r \in EvalRanks
          PROVE  /\ Objects(after[r])
                 /\ Effect(r, DPRank(r), eval, at[r], rank[r], where[r], after[r])
      BY <2>2 DEF AskEffect, Effect
    <2> HIDE DEF where, after
    <2> QED
      BY <1>2, <1>7, <2>1, <2>2, <2>3 DEF AskStopper, Still
  <1> QED
    BY <1>3, <1>4, <1>5, <1>6, <1>7 DEF OnRoot, g

\* The sum of the metrics of a data parallel gang, as its first rank gets it.
LEMMA SumIs ==
    ASSUME RanksInv, NEW q \in EvalRanks, Gathered(DP(q), "metrics"), 0 \in Range(DP(q))
    PROVE  UNION {rank[r].bag : r \in Range(DP(q))} = Recordable(eval, rank[0].unit)
  <1> DEFINE G == Range(DP(q))
             u == rank[0].unit
             C(d) == Tally(eval, u, d, BatchesOf(eval, u, d))
  <1>1. /\ G \subseteq EvalRanks /\ 0 \in EvalRanks /\ (\A r \in G : DPRank(r) \in DPRanks(eval))
        /\ \A d \in DPRanks(eval) : \E r \in G : DPRank(r) = d
    BY DPIs, RanksAre DEF RanksInv
  <1>2. ASSUME NEW r \in G PROVE rank[r].bag = C(DPRank(r))
    <2>1. at[r] = "metrics" /\ rank[r].unit = u
      <3>1. \A x \in G : at[x] = "metrics" /\ rank[x].unit = rank[DP(q)[1]].unit
        BY <1>1, GatheredAre
      <3> QED
        BY <1>2, <3>1
    <2>2. Counts(at[r], rank[r], eval, DPRank(r))
      BY <1>1, <1>2 DEF RanksInv
    <2> QED
      BY <2>1, <2>2 DEF Counts
  <1>3. Recordable(eval, u) = UNION {C(d) : d \in DPRanks(eval)}
    <2>1. u \in Units(eval)
      BY <1>1 DEF RanksInv, Counts
    <2>2. Len(eval.units[u].shards) = DPSize(eval)
      BY <2>1, TaskIs DEF RanksInv, Placed
    <2> QED
      BY <2>2 DEF Recordable, DPRanks
  <1> HIDE DEF G, u, C
  <1>4. UNION {rank[r].bag : r \in G} = UNION {C(d) : d \in DPRanks(eval)}
    <2>1. ASSUME NEW x \in UNION {rank[r].bag : r \in G} PROVE x \in UNION {C(d) : d \in DPRanks(eval)}
      BY <1>1, <1>2, <2>1
    <2>2. ASSUME NEW x \in UNION {C(d) : d \in DPRanks(eval)} PROVE x \in UNION {rank[r].bag : r \in G}
      <3>1. PICK d \in DPRanks(eval) : x \in C(d)
        BY <2>2
      <3>2. PICK r \in G : DPRank(r) = d
        BY <1>1
      <3> QED
        BY <1>2, <3>1, <3>2
    <2> QED
      BY <2>1, <2>2
  <1> QED
    BY <1>3, <1>4 DEF G, u

LEMMA SyncSteps ==
    ASSUME RanksInv, NEW q \in EvalRanks, SyncMetrics(DP(q))
    PROVE  MostDo
  <1> DEFINE g == DP(q)
             Sum(r) == IF r = g[1] THEN UNION {rank[x].bag : x \in Range(g)} ELSE rank[r].bag
             where == [r \in EvalRanks |-> "record"]
             after == [r \in EvalRanks |-> [rank[r] EXCEPT !.bag = Sum(r)]]
  <1>1. GangMoves(g, where, after)
    BY DEF SyncMetrics, AllMove, GangMoves
  <1>2. ASSUME NEW r \in EvalRanks, r \in Range(g)
        PROVE  /\ Objects(after[r])
               /\ Effect(r, DPRank(r), eval, at[r], rank[r], where[r], after[r])
    <2> DEFINE s == rank[r]
               t == [s EXCEPT !.bag = Sum(r)]
    <2>1. at[r] = "metrics" /\ Objects(s)
      BY <1>2, GatheredAre DEF SyncMetrics
    <2>2. where[r] = "record" /\ after[r] = t
      OBVIOUS
    <2>3. r = 0 => Sum(r) = Recordable(eval, s.unit)
      BY <1>2, SumIs, DPIs DEF SyncMetrics, RanksInv
    <2> HIDE DEF Sum, where, after
    <2>4. /\ Objects(t) /\ SameTask(s, t) /\ t.unit = s.unit /\ t.read = s.read /\ t.hand = s.hand
          /\ t.rng = s.rng /\ t.score = s.score /\ t.bag = Sum(r)
      BY <2>1, AreFields DEF Objects, SameTask
    <2> HIDE DEF t
    <2> QED
      BY <2>1, <2>2, <2>3, <2>4 DEF SyncEffect, Effect
  <1>3. UNCHANGED <<eval, gangs, recorded, scores>>
    BY DEF SyncMetrics, Still
  <1> HIDE DEF g, where, after
  <1>4. /\ RanksMove
        /\ \A r \in EvalRanks : r \notin Range(g) => Stays(r)
        /\ \A r \in EvalRanks : r \in Range(g) => at'[r] = where[r] /\ rank'[r] = after[r]
    BY <1>1, <1>2, <1>3, GangAdvances
  <1> QED
    BY <1>2, <1>3, <1>4 DEF MostDo, Advances

\* At the end of the data each rank has run what it should of its shard.
LEMMA EndIsRight ==
    ASSUME RanksInv, AbreastInv, NEW q \in EvalRanks, Gathered(DP(q), "read"),
           NEW r \in Range(DP(q)), NEW x \in Range(DP(q)),
           rank[x].read[rank[x].unit] = Shard(eval, rank[x].unit, DPRank(x)),
           Unit(q).mode = "UNTIL_LAST" => x = r
    PROVE  rank[r].read[rank[r].unit] = BatchesOf(eval, rank[r].unit, DPRank(r))
  <1> DEFINE u == rank[q].unit
             n(p) == rank[p].read[u]
  <1>1. /\ eval \in Evals /\ r \in EvalRanks /\ x \in EvalRanks /\ DP(r) = DP(q) /\ DP(x) = DP(q)
        /\ q \in Range(DP(q))
    BY DPIs DEF RanksInv, Placed
  <1>2. at[r] = "read" /\ at[x] = "read" /\ rank[r].unit = u /\ rank[x].unit = u
    BY <1>1, GatheredAre
  <1>3. /\ DPRank(r) \in DPRanks(eval) /\ DPRank(x) \in DPRanks(eval)
        /\ Counts(at[r], rank[r], eval, DPRank(r)) /\ Counts(at[x], rank[x], eval, DPRank(x))
    BY <1>1, RanksAre DEF RanksInv
  <1>4. u \in Units(eval) /\ n(r) \in Nat /\ n(x) \in Nat /\ n(r) <= Shard(eval, u, DPRank(r))
    BY <1>2, <1>3 DEF Counts
  <1>5. n(x) = Shard(eval, u, DPRank(x))
    BY <1>2
  <1>6. CASE Unit(q).mode = "UNTIL_LAST"
    <2>1. x = r /\ eval.units[u].mode = "UNTIL_LAST"
      BY <1>6 DEF Unit
    <2> QED
      BY <1>1, <1>2, <1>3, <1>4, <1>5, <2>1, BatchesAre
  <1>7. CASE Unit(q).mode = "UNTIL_FIRST"
    <2>1. eval.units[u].mode = "UNTIL_FIRST"
      BY <1>7 DEF Unit
    <2>2. Abreast("read", rank[r], "read", rank[x], eval) /\ Abreast("read", rank[x], "read", rank[r], eval)
      BY <1>1, <1>2 DEF AbreastInv
    <2>3. n(r) = n(x)
      BY <1>2, <1>4, <2>1, <2>2, EquallyFar
    <2> DEFINE b == BatchesOf(eval, u, DPRank(r))
    <2>4. PICK c \in DPRanks(eval) : b = Shard(eval, u, c)
      BY <1>1, <1>3, <1>4, <2>1, BatchesAre
    <2>5. b <= Shard(eval, u, DPRank(x)) /\ b \in Nat
      BY <1>1, <1>3, <1>4, <2>1, BatchesAre
    <2>6. PICK y \in Range(DP(q)) : DPRank(y) = c
      BY DPIs DEF RanksInv
    <2>7. n(y) = n(r) /\ n(y) <= Shard(eval, u, c)
      <3>1. y \in EvalRanks /\ DP(y) = DP(q)
        BY <2>6, DPIs DEF RanksInv
      <3>2. at[y] = "read" /\ rank[y].unit = u
        BY <1>1, <3>1, GatheredAre
      <3>3. Counts(at[y], rank[y], eval, DPRank(y))
        BY <3>1 DEF RanksInv
      <3>4. Abreast("read", rank[r], "read", rank[y], eval) /\ Abreast("read", rank[y], "read", rank[r], eval)
        BY <1>1, <1>2, <3>1, <3>2 DEF AbreastInv
      <3>5. n(y) \in Nat /\ n(y) <= Shard(eval, u, DPRank(y))
        BY <1>4, <3>2, <3>3 DEF Counts
      <3> QED
        BY <1>2, <1>4, <2>1, <2>6, <3>2, <3>4, <3>5, EquallyFar
    <2> HIDE DEF n, b
    <2>8. n(r) = b
      BY <1>4, <1>5, <2>3, <2>4, <2>5, <2>7
    <2> QED
      BY <1>2, <2>8 DEF n, b
  <1>8. Unit(q).mode \in {"UNTIL_FIRST", "UNTIL_LAST"}
    BY <1>1, <1>4, TaskIs DEF Unit
  <1> QED
    BY <1>6, <1>7, <1>8

LEMMA ReadSteps ==
    ASSUME RanksInv, AbreastInv, NEW q \in EvalRanks, ReadBatches(DP(q))
    PROVE  ReadingDoes
  <1> DEFINE g == DP(q)
             Yields(r) == IF Left(r) = 0 THEN 0 ELSE 1
             yields    == {Yields(r) : r \in Range(g)}
             eod       == IF Unit(g[1]).mode = "UNTIL_LAST" THEN yields = {0} ELSE 0 \in yields
             where == [r \in EvalRanks |-> IF eod THEN "metrics" ELSE "batch"]
             after == [r \in EvalRanks |->
                        [rank[r] EXCEPT !.read[rank[r].unit] = IF eod THEN 0 ELSE @ + Yields(r),
                                        !.hand = IF eod THEN 0 ELSE Yields(r)]]
             had(r) == rank[r].read[rank[r].unit]
             all(r) == Shard(eval, rank[r].unit, DPRank(r))
  <1>1. GangMoves(g, where, after)
    BY DEF ReadBatches, AllMove, GangMoves
  <1>2. UNCHANGED <<eval, gangs, recorded, scores>>
    BY DEF ReadBatches, Still
  <1>3. Range(g) \subseteq EvalRanks /\ q \in Range(g) /\ g[1] \in Range(g)
    BY DPIs DEF RanksInv
  <1>4. \A r \in Range(g) : at[r] = "read" /\ Objects(rank[r]) /\ rank[r].unit = rank[g[1]].unit
    BY <1>3, GatheredAre DEF ReadBatches
  <1>5. Unit(g[1]).mode = Unit(q).mode
    BY <1>3, <1>4 DEF Unit
  <1>6. ASSUME NEW r \in Range(g)
        PROVE  /\ had(r) \in Nat /\ all(r) \in Nat /\ Left(r) = all(r) - had(r)
               /\ Yields(r) = Yielded(rank[r], eval, DPRank(r))
    <2>1. r \in EvalRanks
      BY <1>3
    <2>2. Counts(at[r], rank[r], eval, DPRank(r)) /\ DPRank(r) \in DPRanks(eval) /\ eval \in Evals
      BY <2>1, RanksAre DEF RanksInv, Placed
    <2>3. had(r) \in Nat /\ all(r) \in Nat
      BY <2>2, ShardIs DEF Counts
    <2>4. Left(r) = all(r) - had(r)
      BY DEF Left, Unit, Shard
    <2>5. Left(r) = 0 <=> had(r) = all(r)
      BY <2>3, <2>4
    <2> QED
      BY <2>3, <2>4, <2>5 DEF Yielded
  <1>7. \A r \in Range(g) : Yields(r) \in {0, 1} /\ (Yields(r) = 0 <=> had(r) = all(r))
    BY <1>6
  <1>8. ASSUME NEW r \in EvalRanks, r \in Range(g)
        PROVE  /\ Objects(after[r])
               /\ IF eod THEN EndEffect(at[r], rank[r], where[r], after[r], eval, DPRank(r))
                  ELSE ReadEffect(at[r], rank[r], where[r], after[r], eval, DPRank(r))
    <2> DEFINE s == rank[r]
               h == IF eod THEN 0 ELSE Yields(r)
               p == IF eod THEN 0 ELSE s.read[s.unit] + Yields(r)
               t == [s EXCEPT !.read[s.unit] = p, !.hand = h]
    <2>1. at[r] = "read" /\ Objects(s)
      BY <1>4, <1>8
    <2>2. after[r] = t /\ where[r] = IF eod THEN "metrics" ELSE "batch"
      OBVIOUS
    <2>3. eod => s.read[s.unit] = BatchesOf(eval, s.unit, DPRank(r))
      <3> SUFFICES ASSUME eod PROVE s.read[s.unit] = BatchesOf(eval, s.unit, DPRank(r))
        OBVIOUS
      <3> HIDE DEF Yields
      <3>1. \E x \in Range(g) : Yields(x) = 0 /\ (Unit(q).mode = "UNTIL_LAST" => x = r)
        <4>1. CASE Unit(q).mode = "UNTIL_LAST"
          <5>1. Yields(r) = 0
            BY <1>5, <1>8, <4>1
          <5> QED
            BY <1>8, <5>1
        <4>2. CASE Unit(q).mode # "UNTIL_LAST"
          BY <1>5, <4>2
        <4> QED
          BY <4>1, <4>2
      <3>2. PICK x \in Range(g) : Yields(x) = 0 /\ (Unit(q).mode = "UNTIL_LAST" => x = r)
        BY <3>1
      <3>3. had(x) = all(x)
        BY <1>7, <3>2
      <3> QED
        BY <1>8, <3>2, <3>3, EndIsRight DEF ReadBatches
    <2>4. Yields(r) = Yielded(s, eval, DPRank(r))
      BY <1>6, <1>8
    <2>5. /\ eod => h = 0 /\ p = 0
          /\ ~eod => h = Yielded(s, eval, DPRank(r)) /\ p = s.read[s.unit] + Yielded(s, eval, DPRank(r))
      BY <2>4
    <2> HIDE DEF Yields, yields, eod, where, after, h, p
    <2>6. /\ Objects(t) /\ SameTask(s, t) /\ t.unit = s.unit /\ t.bag = s.bag /\ t.rng = s.rng
          /\ t.score = s.score /\ t.hand = h /\ t.read = [s.read EXCEPT ![s.unit] = p]
      BY <2>1, AreFields DEF Objects, SameTask
    <2> HIDE DEF t
    <2>7. CASE eod
      BY <2>1, <2>2, <2>3, <2>5, <2>6, <2>7 DEF EndEffect
    <2>8. CASE ~eod
      BY <2>1, <2>2, <2>5, <2>6, <2>8 DEF ReadEffect
    <2> QED
      BY <2>7, <2>8
  <1>9. ASSUME ~eod, Unit(q).mode = "UNTIL_FIRST" PROVE \A r \in Range(g) : had(r) # all(r)
    <2>1. 0 \notin yields
      BY <1>5, <1>9
    <2> HIDE DEF Yields
    <2> QED
      BY <1>7, <2>1
  <1> HIDE DEF Yields, yields, eod, where, after
  <1>10. /\ RanksMove
         /\ \A r \in EvalRanks : r \notin Range(g) => Stays(r)
         /\ \A r \in EvalRanks : r \in Range(g) => at'[r] = where[r] /\ rank'[r] = after[r]
    <2> HIDE DEF g
    <2> QED
      BY <1>1, <1>2, <1>8, GangAdvances
  <1>11. CASE eod
    <2>1. \A r \in Range(g) : Ends(r)
      BY <1>3, <1>8, <1>10, <1>11 DEF Ends
    <2> QED
      BY <1>2, <1>10, <2>1 DEF ReadingDoes
  <1>12. CASE ~eod
    <2>1. \A r \in Range(g) : Reads(r)
      BY <1>3, <1>8, <1>10, <1>12 DEF Reads
    <2>2. \A r \in Range(g) : rank[r].unit = rank[q].unit
      BY <1>3, <1>4
    <2> QED
      BY <1>2, <1>9, <1>10, <1>12, <2>1, <2>2 DEF ReadingDoes
  <1> QED
    BY <1>11, <1>12

\* Every step is one of these.
LEMMA StepsDo ==
    ASSUME RanksInv, AbreastInv, EvalNext
    PROVE  MostDo \/ ReadingDoes \/ RecordDoes
  <1>1. ASSUME NEW r \in EvalRanks, TellStop(r) PROVE MostDo
    <2>1. UNCHANGED <<eval, gangs, at, rank, recorded, scores>>
      BY <1>1 DEF TellStop
    <2> QED
      BY <2>1 DEF MostDo, RanksMove, Stays, RanksInv, Functional
  <1> QED
    BY <1>1, OwnSteps, RecordSteps, RootSteps, SyncSteps, ReadSteps DEF EvalNext, Runs, OnDP

-----------------------------------------------------------------------------
(***************************************************************************)
(* The invariants hold of every state.                                     *)
(***************************************************************************)
LEMMA EvalStarts == EvalInit => EvalInv
  <1> SUFFICES ASSUME EvalInit PROVE EvalInv
    OBVIOUS
  <1>1. Placed /\ eval \in Evals
    BY DEF EvalInit, Placed
  <1>2. EvalRanks = 0..(eval.layout.size - 1) /\ 0 \in EvalRanks
    BY <1>1, RanksAre
  <1>3. \A r \in EvalRanks : DPRank(r) \in DPRanks(eval)
    BY <1>1, RanksAre
  <1>4. Functional
    BY DEF EvalInit, Functional
  <1>5. \A r \in EvalRanks : rank[r] = Idle(r) /\ at[r] = IF Validates THEN "training" ELSE "begin"
    BY DEF EvalInit
  <1>6. Len(eval.units) \in Nat \ {0} /\ 1 \in Units(eval) /\ eval.task \in {"validation", "evaluation", "generation"}
    BY <1>1, TaskIs DEF Units
  <1>7. ASSUME NEW r \in EvalRanks
        PROVE  /\ Objects(rank[r])
               /\ rank[r].run = 0 /\ rank[r].unit = 1 /\ rank[r].read = AtStart(eval)
               /\ rank[r].hand = 0 /\ rank[r].bag = {} /\ rank[r].rng = TrainingDraws(rank[r])
               /\ rank[r].training = Validates /\ ~rank[r].hasRun
    BY <1>5, <1>7 DEF Idle, Objects, Fields, AtStart, Units, NumUnits, Seeded, TrainingDraws
  <1>8. ASSUME NEW r \in EvalRanks PROVE Undisturbed(at[r], rank[r], eval)
    BY <1>5, <1>7, <1>8 DEF Undisturbed, Outside, Inside, Reading, Closing, Given
  <1>9. ASSUME NEW r \in EvalRanks PROVE Counts(at[r], rank[r], eval, DPRank(r))
    <2>1. AtStart(eval) \in [Units(eval) -> Nat] /\ \A u \in Units(eval) : AtStart(eval)[u] = 0
      BY DEF AtStart
    <2>2. \A u \in Units(eval) : Shard(eval, u, DPRank(r)) \in Nat
      BY <1>1, <1>3, ShardIs
    <2>3. \A u \in Units(eval) : rank[r].read[u] <= Shard(eval, u, DPRank(r)) /\ rank[r].read[u] = 0
      BY <1>7, <2>1, <2>2
    <2>4. at[r] \in {"training", "begin"}
      BY <1>5
    <2> QED
      BY <1>6, <1>7, <2>1, <2>3, <2>4 DEF Counts, Outside, Inside, Reading, Closing
  <1>10. AbreastInv
    <2> SUFFICES ASSUME NEW q \in EvalRanks, NEW r \in Range(DP(q))
                 PROVE  Abreast(at[q], rank[q], at[r], rank[r], eval)
      BY DEF AbreastInv
    <2> QED
      BY <1>5 DEF Abreast, Reading
  <1>11. FiledInv
    <2>1. recorded = <<>> /\ Len(recorded) = 0 /\ DOMAIN recorded = {}
      BY DEF EvalInit
    <2>2. InOrder(eval, recorded)
      BY <2>1 DEF InOrder
    <2>3. \A s \in scores : s.units = Units(eval)
      BY DEF EvalInit, Units, NumUnits
    <2>4. Filed(at[0], rank[0], eval, recorded)
      <3>1. rank[0].run * Len(eval.units) = 0
        BY <1>2, <1>6, <1>7
      <3>2. CASE Validates
        <4>1. at[0] = "training" /\ eval.task = "validation"
          BY <1>2, <1>5, <3>2 DEF Validates
        <4> QED
          BY <2>1, <3>1, <4>1, NumFiledIs DEF Filed, Outside, Inside, Reading, Closing
      <3>3. CASE ~Validates
        <4>1. at[0] = "begin" /\ eval.task # "validation"
          BY <1>2, <1>5, <3>3 DEF Validates
        <4>2. NumFiled(at[0], rank[0], eval) = 0
          BY <4>1, NumFiledIs DEF Prior
        <4> QED
          BY <2>1, <4>1, <4>2 DEF Filed, Outside, Inside, Reading, Closing
      <3> QED
        BY <3>2, <3>3
    <2> QED
      BY <2>2, <2>3, <2>4 DEF FiledInv
  <1> QED
    BY <1>1, <1>4, <1>7, <1>8, <1>9, <1>10, <1>11 DEF EvalInv, RanksInv

\* The ranks and their gangs stay.
LEMMA SameGangs ==
    ASSUME RanksMove
    PROVE  /\ eval' = eval /\ EvalRanks' = EvalRanks
           /\ \A r : DP(r)' = DP(r) /\ DPRank(r)' = DPRank(r)
  BY DEF RanksMove, EvalRanks, DP, DPRank, RankIn

\* What is said of one rank is kept where each rank stays or moves by an effect.
LEMMA RanksStay ==
    ASSUME RanksInv, MostDo \/ ReadingDoes \/ RecordDoes
    PROVE  RanksInv'
  <1>1. RanksMove
    BY DEF MostDo, ReadingDoes, RecordDoes
  <1>2. ASSUME NEW r \in EvalRanks
        PROVE  Stays(r) \/ AnyEffect(r, DPRank(r), eval, at[r], rank[r], at'[r], rank'[r])
    <2>1. CASE MostDo
      BY <2>1 DEF MostDo, Advances, AnyEffect
    <2>2. CASE ReadingDoes
      BY <2>2 DEF ReadingDoes, Reads, Ends, AnyEffect
    <2>3. CASE RecordDoes
      BY <2>3 DEF RecordDoes, Files, AnyEffect
    <2> QED
      BY <2>1, <2>2, <2>3
  <1>3. eval' = eval /\ EvalRanks' = EvalRanks /\ \A r : DPRank(r)' = DPRank(r)
    BY <1>1, SameGangs
  <1>4. Placed'
    BY <1>1 DEF RanksMove, RanksInv, Placed
  <1>5. Functional'
    BY <1>1, <1>3 DEF RanksMove, Functional
  <1>6. ASSUME NEW r \in EvalRanks
        PROVE  Undisturbed(at'[r], rank'[r], eval) /\ Counts(at'[r], rank'[r], eval, DPRank(r))
    <2>1. Undisturbed(at[r], rank[r], eval) /\ Counts(at[r], rank[r], eval, DPRank(r))
      BY DEF RanksInv
    <2>2. eval \in Evals /\ DPRank(r) \in DPRanks(eval)
      BY RanksAre DEF RanksInv, Placed
    <2>3. CASE Stays(r)
      BY <2>1, <2>3 DEF Stays
    <2>4. CASE AnyEffect(r, DPRank(r), eval, at[r], rank[r], at'[r], rank'[r])
      BY <2>1, <2>2, <2>4, StaysUndisturbed, StaysCounted
    <2> QED
      BY <1>2, <2>3, <2>4
  <1>7. \A r \in EvalRanks : Objects(rank'[r])
    BY <1>1 DEF RanksMove
  <1> QED
    BY <1>3, <1>4, <1>5, <1>6, <1>7 DEF RanksInv

\* Two ranks that read the same number of batches and get one more each are abreast.
LEMMA ReadAbreast ==
    ASSUME NEW e, NEW a, NEW s, NEW w, NEW t, NEW c, ReadEffect(a, s, w, t, e, c), Counts(a, s, e, c),
           NEW b, NEW o, NEW x, NEW p, NEW d, ReadEffect(b, o, x, p, e, d), Counts(b, o, e, d),
           s.unit = o.unit, Abreast(a, s, b, o, e), Abreast(b, o, a, s, e),
           e.units[s.unit].mode = "UNTIL_FIRST" =>
             s.read[s.unit] # Shard(e, s.unit, c) /\ o.read[o.unit] # Shard(e, o.unit, d)
    PROVE  Abreast(w, t, x, p, e)
  <1> SUFFICES ASSUME e.units[t.unit].mode = "UNTIL_FIRST"
               PROVE  x \in Reading /\ p.unit = t.unit /\ p.read[p.unit] = t.read[t.unit]
    BY DEF Abreast
  <1>1. a = "read" /\ b = "read" /\ x = "batch" /\ t.unit = s.unit /\ p.unit = o.unit
    BY DEF ReadEffect
  <1>2. Yielded(s, e, c) = 1 /\ Yielded(o, e, d) = 1
    BY <1>1 DEF Yielded
  <1>3. s.unit \in Units(e) /\ s.read \in [Units(e) -> Nat] /\ o.read \in [Units(e) -> Nat]
    BY DEF Counts
  <1>4. s.read[s.unit] = o.read[o.unit]
    BY <1>1, <1>3, EquallyFar
  <1>5. /\ t.read = [s.read EXCEPT ![s.unit] = s.read[s.unit] + 1]
        /\ p.read = [o.read EXCEPT ![o.unit] = o.read[o.unit] + 1]
    BY <1>2 DEF ReadEffect
  <1>6. t.read[t.unit] = s.read[s.unit] + 1 /\ p.read[p.unit] = o.read[o.unit] + 1
    BY <1>1, <1>3, <1>5
  <1> QED
    BY <1>1, <1>4, <1>6 DEF Reading

LEMMA AllStayAbreast ==
    ASSUME RanksInv, RanksInv', AbreastInv, MostDo \/ ReadingDoes \/ RecordDoes
    PROVE  AbreastInv'
  <1>1. RanksMove
    BY DEF MostDo, ReadingDoes, RecordDoes
  <1>2. eval' = eval /\ EvalRanks' = EvalRanks /\ \A r : DP(r)' = DP(r) /\ DPRank(r)' = DPRank(r)
    BY <1>1, SameGangs
  <1>3. SUFFICES ASSUME NEW q \in EvalRanks, NEW r \in Range(DP(q))
                 PROVE  Abreast(at'[q], rank'[q], at'[r], rank'[r], eval)
    BY <1>2 DEF AbreastInv
  <1>4. r \in EvalRanks /\ q \in Range(DP(q)) /\ DP(r) = DP(q) /\ q \in Range(DP(r))
    BY DPIs DEF RanksInv
  <1>5. /\ Abreast(at[q], rank[q], at[r], rank[r], eval)
        /\ Abreast(at[r], rank[r], at[q], rank[q], eval)
    BY <1>4 DEF AbreastInv
  <1>6. ASSUME NEW y \in EvalRanks PROVE Counts(at[y], rank[y], eval, DPRank(y))
    BY DEF RanksInv
  <1>7. ASSUME NEW y \in EvalRanks PROVE Counts(at'[y], rank'[y], eval, DPRank(y))
    BY <1>2 DEF RanksInv
  <1> DEFINE Quiet(y) == NoRead(y, DPRank(y), eval, at[y], rank[y], at'[y], rank'[y])
  <1>8. ASSUME NEW y \in EvalRanks, Stays(y) \/ Advances(y) \/ Files(y) PROVE Quiet(y)
    BY <1>8 DEF Stays, Advances, Files, NoRead
  <1>9. ASSUME Quiet(q), Quiet(r) PROVE Abreast(at'[q], rank'[q], at'[r], rank'[r], eval)
    BY <1>4, <1>5, <1>6, <1>7, <1>9, StayAbreast
  <1>10. CASE MostDo
    BY <1>4, <1>8, <1>9, <1>10 DEF MostDo
  <1>11. CASE RecordDoes
    BY <1>4, <1>8, <1>9, <1>11 DEF RecordDoes
  <1>12. CASE ReadingDoes
    <2>1. PICK g \in EvalRanks :
            /\ \A y \in EvalRanks \ Range(DP(g)) : Stays(y)
            /\ \/ /\ \A y \in Range(DP(g)) : Reads(y)
                  /\ \A y \in Range(DP(g)) : rank[y].unit = rank[g].unit
                  /\ Unit(g).mode = "UNTIL_FIRST" =>
                       \A y \in Range(DP(g)) : rank[y].read[rank[y].unit] # Shard(eval, rank[y].unit, DPRank(y))
               \/ \A y \in Range(DP(g)) : Ends(y)
      BY <1>12 DEF ReadingDoes
    <2>2. CASE q \in Range(DP(g))
      <3>1. r \in Range(DP(g))
        BY <2>2, DPIs DEF RanksInv
      <3>2. CASE \A y \in Range(DP(g)) : Ends(y)
        <4>1. at'[q] = "metrics"
          BY <2>2, <3>2 DEF Ends, EndEffect
        <4> QED
          BY <4>1 DEF Abreast, Reading
      <3>3. CASE ~ \A y \in Range(DP(g)) : Ends(y)
        <4>1. Reads(q) /\ Reads(r) /\ rank[q].unit = rank[g].unit /\ rank[r].unit = rank[g].unit
          BY <2>1, <2>2, <3>1, <3>3
        <4>2. eval.units[rank[q].unit].mode = "UNTIL_FIRST" =>
                /\ rank[q].read[rank[q].unit] # Shard(eval, rank[q].unit, DPRank(q))
                /\ rank[r].read[rank[r].unit] # Shard(eval, rank[r].unit, DPRank(r))
          BY <2>1, <2>2, <3>1, <3>3, <4>1 DEF Unit
        <4>3. Counts(at[q], rank[q], eval, DPRank(q)) /\ Counts(at[r], rank[r], eval, DPRank(r))
          BY <1>4, <1>6
        <4> QED
          BY <1>5, <4>1, <4>2, <4>3, ReadAbreast DEF Reads
      <3> QED
        BY <3>2, <3>3
    <2>3. CASE q \notin Range(DP(g))
      <3>1. r \notin Range(DP(g))
        <4>1. ASSUME r \in Range(DP(g)) PROVE FALSE
          <5>1. DP(r) = DP(g)
            BY <4>1, DPIs DEF RanksInv
          <5> QED
            BY <1>4, <2>3, <5>1
        <4> QED
          BY <4>1
      <3> QED
        BY <1>4, <1>8, <1>9, <2>1, <2>3, <3>1
    <2> QED
      BY <2>2, <2>3
  <1> QED
    BY <1>10, <1>11, <1>12

LEMMA AllStaysFiled ==
    ASSUME RanksInv, FiledInv, MostDo \/ ReadingDoes \/ RecordDoes
    PROVE  FiledInv'
  <1>1. eval \in Evals /\ 0 \in EvalRanks /\ Counts(at[0], rank[0], eval, DPRank(0))
    BY RanksAre DEF RanksInv, Placed
  <1>2. eval' = eval
    BY SameGangs DEF MostDo, ReadingDoes, RecordDoes
  <1>3. /\ Filed(at[0], rank[0], eval, recorded) /\ InOrder(eval, recorded)
        /\ \A s \in scores : s.units = Units(eval)
    BY DEF FiledInv
  <1>4. ASSUME Stays(0) \/ Advances(0) \/ Reads(0) \/ Ends(0)
        PROVE  Filed(at'[0], rank'[0], eval, recorded)
    <2>1. CASE Stays(0)
      BY <1>3, <2>1 DEF Stays
    <2>2. CASE Advances(0) \/ Reads(0) \/ Ends(0)
      BY <1>1, <1>3, <2>2, StaysFiled DEF Advances, Reads, Ends
    <2> QED
      BY <1>4, <2>1, <2>2
  <1>5. CASE MostDo
    <2>1. Filed(at'[0], rank'[0], eval, recorded) /\ recorded' = recorded
      BY <1>1, <1>4, <1>5 DEF MostDo
    <2>2. \A s \in scores' : s.units = Units(eval)
      <3>1. CASE UNCHANGED scores
        BY <1>3, <3>1
      <3>2. CASE at[0] = "saveScore" /\ scores' = scores \cup {[run |-> rank[0].run, units |-> rank[0].score.of]}
        <4>1. rank[0].score.of = Units(eval)
          BY <1>3, <3>2 DEF Filed
        <4> QED
          BY <1>3, <3>2, <4>1
      <3> QED
        BY <1>5, <3>1, <3>2 DEF MostDo
    <2> QED
      BY <1>2, <1>3, <2>1, <2>2 DEF FiledInv
  <1>6. CASE ReadingDoes
    <2>1. Stays(0) \/ Reads(0) \/ Ends(0)
      BY <1>1, <1>6 DEF ReadingDoes
    <2>2. recorded' = recorded /\ scores' = scores
      BY <1>6 DEF ReadingDoes
    <2> QED
      BY <1>2, <1>3, <1>4, <2>1, <2>2 DEF FiledInv
  <1>7. CASE RecordDoes
    <2>1. scores' = scores
      BY <1>7 DEF RecordDoes
    <2>2. CASE Files(0)
      <3>1. recorded' = Append(recorded, [run |-> rank[0].run, unit |-> rank[0].unit,
                                          values |-> rank[0].bag])
        BY <1>7, <2>2 DEF RecordDoes
      <3>2. Filed(at'[0], rank'[0], eval, recorded') /\ InOrder(eval, recorded')
        BY <1>1, <1>3, <2>2, <3>1, RecordIsFiled DEF Files
      <3> QED
        BY <1>2, <1>3, <2>1, <3>2 DEF FiledInv
    <2>3. CASE ~Files(0)
      <3>1. recorded' = recorded /\ Stays(0)
        BY <1>1, <1>7, <2>3 DEF RecordDoes
      <3> QED
        BY <1>2, <1>3, <1>4, <2>1, <3>1 DEF FiledInv
    <2> QED
      BY <2>2, <2>3
  <1> QED
    BY <1>5, <1>6, <1>7

LEMMA StaysInv == EvalInv /\ [EvalNext]_evalVars => EvalInv'
  <1> SUFFICES ASSUME EvalInv, [EvalNext]_evalVars PROVE EvalInv'
    OBVIOUS
  <1>1. CASE EvalNext
    <2>1. MostDo \/ ReadingDoes \/ RecordDoes
      BY <1>1, StepsDo DEF EvalInv
    <2>2. RanksInv'
      BY <2>1, RanksStay DEF EvalInv
    <2>3. AbreastInv'
      BY <2>1, <2>2, AllStayAbreast DEF EvalInv
    <2>4. FiledInv'
      BY <2>1, AllStaysFiled DEF EvalInv
    <2> QED
      BY <2>2, <2>3, <2>4 DEF EvalInv
  <1>2. CASE UNCHANGED evalVars
    <2>1. UNCHANGED <<eval, gangs, at, rank, recorded, scores>>
      BY <1>2 DEF evalVars
    <2>2. EvalRanks' = EvalRanks /\ \A r : DP(r)' = DP(r) /\ DPRank(r)' = DPRank(r)
      BY <2>1 DEF EvalRanks, DP, DPRank, RankIn
    <2>3. RanksInv'
      BY <2>1, <2>2 DEF EvalInv, RanksInv, Placed, Functional
    <2>4. AbreastInv'
      BY <2>1, <2>2 DEF EvalInv, AbreastInv
    <2>5. FiledInv'
      BY <2>1 DEF EvalInv, FiledInv
    <2> QED
      BY <2>3, <2>4, <2>5 DEF EvalInv
  <1> QED
    BY <1>1, <1>2

LEMMA AlwaysEvalInv == EvalSpec => []EvalInv
  BY EvalStarts, StaysInv, PTL DEF EvalSpec
-----------------------------------------------------------------------------
\* The training does not notice a validation: on every rank the random numbers go on where
\* they were, the model is in training mode again, the validator may run again from the
\* start of its data, and no batch of a task is run in training mode.
THEOREM TrainingGoesOn == EvalSpec => []TrainingUndisturbed
  <1>1. EvalInv => TrainingUndisturbed
    BY DEF EvalInv, RanksInv, Undisturbed, TrainingUndisturbed, TrainingDraws, AtStart, Units,
           NumUnits, Outside, Inside, Given, Reading
  <1> QED
    BY <1>1, AlwaysEvalInv, PTL

\* What a task records is comparable with what others record: each record counts every batch
\* its readers yield, once and of every rank, under the random numbers that any run of the
\* task has there; the records are in the order of the units, run by run; and a saved score
\* is of all units.
THEOREM RecordsAreComparable == EvalSpec => []RecordsComparable
  <1>1. EvalInv => RecordsComparable
    <2> SUFFICES ASSUME EvalInv PROVE RecordsComparable
      OBVIOUS
    <2>1. InOrder(eval, recorded) /\ \A s \in scores : s.units = Units(eval)
      BY DEF EvalInv, FiledInv
    <2> QED
      BY <2>1 DEF RecordsComparable, InOrder, Units, NumUnits, Validates
  <1> QED
    BY <1>1, AlwaysEvalInv, PTL

-----------------------------------------------------------------------------
(***************************************************************************)
(* Bringup.                                                                *)
(***************************************************************************)
BringupSpec == BringupInit /\ [][BringupNext]_bringupVars

-----------------------------------------------------------------------------
(***************************************************************************)
(* The flow of a program: which of its steps come before which others.     *)
(***************************************************************************)
Kinds == {"lookup", "open", "download", "findCached", "build", "loadState", "create",
          "createOnMeta", "resetOthers", "metadata", "toDevice", "prepareDDP", "initialize",
          "restore", "barrier", "broadcast", "broadcastDDP"}

Instructions == [do : Kinds, on : (SUBSET Parts) \ {{}}]

\* A step that does one of W to part p.
Hits(st, W, p) == st.do \in W /\ p \in st.on

Has(s, W, p) == \E i \in DOMAIN s : Hits(s[i], W, p)

\* Before position n the program has done one of W to p, and none of C since.
EndsBefore(s, n, W, C, p) ==
    \E i \in DOMAIN s : /\ i < n /\ Hits(s[i], W, p)
                        /\ \A k \in DOMAIN s : i < k /\ k < n => ~Hits(s[k], C, p)

EndsWith(s, W, C, p) == EndsBefore(s, Len(s) + 1, W, C, p)

\* After each A there is a B.
Followed(s, A, B, p) ==
    \A i \in DOMAIN s : Hits(s[i], A, p) => \E j \in DOMAIN s : j > i /\ Hits(s[j], B, p)

\* Where A is done, W was done, and no C since; and that, if it was done before s.
Prepared(s, A, W, C, p) ==
    \A i \in DOMAIN s : Hits(s[i], A, p) => EndsBefore(s, i, W, C, p)

Relies(s, A, W, C, p) ==
    \A i \in DOMAIN s : Hits(s[i], A, p) =>
        \/ EndsBefore(s, i, W, C, p)
        \/ \A k \in DOMAIN s : k < i => ~Hits(s[k], C, p)

\* Concatenation.
LEMMA Joined ==
    ASSUME NEW s \in Seq(Instructions), NEW t \in Seq(Instructions)
    PROVE  /\ s \o t \in Seq(Instructions)
           /\ DOMAIN s = 1..Len(s) /\ DOMAIN t = 1..Len(t) /\ DOMAIN (s \o t) = 1..(Len(s) + Len(t))
           /\ Len(s \o t) = Len(s) + Len(t)
           /\ Len(s) \in Nat /\ Len(t) \in Nat
           /\ \A i \in DOMAIN s : i \in DOMAIN (s \o t) /\ (s \o t)[i] = s[i]
           /\ \A i \in DOMAIN t : Len(s) + i \in DOMAIN (s \o t) /\ (s \o t)[Len(s) + i] = t[i]
           /\ \A i \in DOMAIN (s \o t) : i \in DOMAIN s \/ (i - Len(s) \in DOMAIN t /\ i > Len(s))
  OBVIOUS

LEMMA JoinedHas ==
    ASSUME NEW s \in Seq(Instructions), NEW t \in Seq(Instructions), NEW W, NEW p
    PROVE  Has(s \o t, W, p) <=> Has(s, W, p) \/ Has(t, W, p)
  <1>1. ASSUME Has(s \o t, W, p) PROVE Has(s, W, p) \/ Has(t, W, p)
    <2>1. PICK i \in DOMAIN (s \o t) : Hits((s \o t)[i], W, p)
      BY <1>1 DEF Has
    <2>2. CASE i \in DOMAIN s
      BY <2>1, <2>2, Joined DEF Has
    <2>3. CASE i - Len(s) \in DOMAIN t
      <3>1. (s \o t)[Len(s) + (i - Len(s))] = t[i - Len(s)] /\ Len(s) + (i - Len(s)) = i
        BY <2>3, Joined
      <3> QED
        BY <2>1, <2>3, <3>1 DEF Has
    <2> QED
      BY <2>2, <2>3, Joined
  <1>2. ASSUME Has(s, W, p) PROVE Has(s \o t, W, p)
    BY <1>2, Joined DEF Has
  <1>3. ASSUME Has(t, W, p) PROVE Has(s \o t, W, p)
    <2>1. PICK i \in DOMAIN t : Hits(t[i], W, p)
      BY <1>3 DEF Has
    <2>2. Len(s) + i \in DOMAIN (s \o t) /\ (s \o t)[Len(s) + i] = t[i]
      BY <2>1, Joined
    <2> QED
      BY <2>1, <2>2 DEF Has
  <1> QED
    BY <1>1, <1>2, <1>3

\* Positions in the first and in the second part.
LEMMA JoinedBefore ==
    ASSUME NEW s \in Seq(Instructions), NEW t \in Seq(Instructions), NEW W, NEW C, NEW p
    PROVE  /\ \A n \in 1..(Len(s) + 1) :
                EndsBefore(s \o t, n, W, C, p) <=> EndsBefore(s, n, W, C, p)
           /\ \A n \in 1..(Len(t) + 1) :
                EndsBefore(s \o t, Len(s) + n, W, C, p) <=>
                    \/ EndsBefore(t, n, W, C, p)
                    \/ /\ EndsWith(s, W, C, p)
                       /\ \A k \in DOMAIN t : k < n => ~Hits(t[k], C, p)
  <1> DEFINE u == s \o t
  <1> DEFINE m == Len(s)
  <1>0. /\ DOMAIN s = 1..m /\ DOMAIN t = 1..Len(t) /\ DOMAIN u = 1..(m + Len(t))
        /\ m \in Nat /\ Len(t) \in Nat
        /\ \A i \in 1..m : u[i] = s[i]
        /\ \A i \in 1..Len(t) : u[m + i] = t[i]
    BY Joined
  <1> HIDE DEF u, m
  <1>1. ASSUME NEW n \in 1..(m + 1)
        PROVE  EndsBefore(u, n, W, C, p) <=> EndsBefore(s, n, W, C, p)
    <2>1. ASSUME EndsBefore(u, n, W, C, p) PROVE EndsBefore(s, n, W, C, p)
      <3>1. PICK i \in 1..(m + Len(t)) : /\ i < n /\ Hits(u[i], W, p)
                  /\ \A k \in 1..(m + Len(t)) : i < k /\ k < n => ~Hits(u[k], C, p)
        BY <2>1, <1>0 DEF EndsBefore
      <3>2. i \in 1..m
        BY <1>0, <3>1
      <3>3. \A k \in 1..m : k \in 1..(m + Len(t))
        BY <1>0
      <3> QED
        BY <3>1, <3>2, <3>3, <1>0 DEF EndsBefore
    <2>2. ASSUME EndsBefore(s, n, W, C, p) PROVE EndsBefore(u, n, W, C, p)
      <3>1. PICK i \in 1..m : /\ i < n /\ Hits(s[i], W, p)
                  /\ \A k \in 1..m : i < k /\ k < n => ~Hits(s[k], C, p)
        BY <2>2, <1>0 DEF EndsBefore
      <3>2. i \in 1..(m + Len(t)) /\ Hits(u[i], W, p)
        BY <1>0, <3>1
      <3>3. \A k \in 1..(m + Len(t)) : k < n => k \in 1..m
        BY <1>0
      <3> QED
        BY <3>1, <3>2, <3>3, <1>0 DEF EndsBefore
    <2> QED
      BY <2>1, <2>2
  <1>2. ASSUME NEW n \in 1..(Len(t) + 1)
        PROVE  EndsBefore(u, m + n, W, C, p) <=>
                    \/ EndsBefore(t, n, W, C, p)
                    \/ EndsBefore(s, m + 1, W, C, p) /\ \A k \in 1..Len(t) : k < n => ~Hits(t[k], C, p)
    <2>1. ASSUME EndsBefore(u, m + n, W, C, p)
          PROVE  \/ EndsBefore(t, n, W, C, p)
                 \/ EndsBefore(s, m + 1, W, C, p) /\ \A k \in 1..Len(t) : k < n => ~Hits(t[k], C, p)
      <3>1. PICK i \in 1..(m + Len(t)) : /\ i < m + n /\ Hits(u[i], W, p)
                  /\ \A k \in 1..(m + Len(t)) : i < k /\ k < m + n => ~Hits(u[k], C, p)
        BY <2>1, <1>0 DEF EndsBefore
      <3>2. CASE i \in 1..m
        <4>1. \A k \in 1..m : i < k => ~Hits(s[k], C, p)
          BY <3>1, <1>0
        <4>2. \A k \in 1..Len(t) : k < n => ~Hits(t[k], C, p)
          <5> SUFFICES ASSUME NEW k \in 1..Len(t), k < n PROVE ~Hits(t[k], C, p)
            OBVIOUS
          <5>1. m + k \in 1..(m + Len(t)) /\ i < m + k /\ m + k < m + n
            BY <3>2, <1>0
          <5> QED
            BY <5>1, <3>1, <1>0
        <4>3. Hits(s[i], W, p) /\ i < m + 1
          BY <3>1, <3>2, <1>0
        <4>4. EndsBefore(s, m + 1, W, C, p)
          BY <4>1, <4>3, <3>2, <1>0 DEF EndsBefore
        <4> QED
          BY <4>2, <4>4
      <3>3. CASE i \notin 1..m
        <4> DEFINE j == i - m
        <4>1. j \in 1..Len(t) /\ i = m + j /\ j < n
          BY <3>1, <3>3, <1>0
        <4>2. Hits(t[j], W, p)
          BY <4>1, <3>1, <1>0
        <4>3. \A k \in 1..Len(t) : j < k /\ k < n => ~Hits(t[k], C, p)
          <5> SUFFICES ASSUME NEW k \in 1..Len(t), j < k, k < n PROVE ~Hits(t[k], C, p)
            OBVIOUS
          <5>1. m + k \in 1..(m + Len(t)) /\ i < m + k /\ m + k < m + n
            BY <4>1, <1>0
          <5> QED
            BY <5>1, <3>1, <1>0
        <4> HIDE DEF j
        <4> QED
          BY <4>1, <4>2, <4>3, <1>0 DEF EndsBefore
      <3> QED
        BY <3>2, <3>3
    <2>2. ASSUME EndsBefore(t, n, W, C, p) PROVE EndsBefore(u, m + n, W, C, p)
      <3>1. PICK i \in 1..Len(t) : /\ i < n /\ Hits(t[i], W, p)
                  /\ \A k \in 1..Len(t) : i < k /\ k < n => ~Hits(t[k], C, p)
        BY <2>2, <1>0 DEF EndsBefore
      <3>2. m + i \in 1..(m + Len(t)) /\ m + i < m + n /\ Hits(u[m + i], W, p)
        BY <1>0, <3>1
      <3>3. \A k \in 1..(m + Len(t)) : m + i < k /\ k < m + n => ~Hits(u[k], C, p)
        <4> SUFFICES ASSUME NEW k \in 1..(m + Len(t)), m + i < k, k < m + n
                     PROVE  ~Hits(u[k], C, p)
          OBVIOUS
        <4>1. (k - m) \in 1..Len(t) /\ i < k - m /\ k - m < n /\ m + (k - m) = k
          BY <1>0, <3>1
        <4> QED
          BY <4>1, <3>1, <1>0
      <3> QED
        BY <3>2, <3>3, <1>0 DEF EndsBefore
    <2>3. ASSUME EndsBefore(s, m + 1, W, C, p), \A k \in 1..Len(t) : k < n => ~Hits(t[k], C, p)
          PROVE  EndsBefore(u, m + n, W, C, p)
      <3>1. PICK i \in 1..m : /\ i < m + 1 /\ Hits(s[i], W, p)
                  /\ \A k \in 1..m : i < k /\ k < m + 1 => ~Hits(s[k], C, p)
        BY <2>3, <1>0 DEF EndsBefore
      <3>2. i \in 1..(m + Len(t)) /\ i < m + n /\ Hits(u[i], W, p)
        BY <1>0, <3>1
      <3>3. \A k \in 1..(m + Len(t)) : i < k /\ k < m + n => ~Hits(u[k], C, p)
        <4> SUFFICES ASSUME NEW k \in 1..(m + Len(t)), i < k, k < m + n
                     PROVE  ~Hits(u[k], C, p)
          OBVIOUS
        <4>1. CASE k \in 1..m
          BY <4>1, <3>1, <1>0
        <4>2. CASE k \notin 1..m
          <5>1. (k - m) \in 1..Len(t) /\ k - m < n /\ m + (k - m) = k
            BY <1>0, <4>2
          <5> QED
            BY <5>1, <2>3, <1>0
        <4> QED
          BY <4>1, <4>2
      <3> QED
        BY <3>2, <3>3, <1>0 DEF EndsBefore
    <2> QED
      BY <2>1, <2>2, <2>3
  <1> QED
    BY <1>0, <1>1, <1>2 DEF u, m, EndsWith

LEMMA JoinedEnds ==
    ASSUME NEW s \in Seq(Instructions), NEW t \in Seq(Instructions), NEW W, NEW C, NEW p
    PROVE  EndsWith(s \o t, W, C, p) <=> EndsWith(t, W, C, p) \/ (EndsWith(s, W, C, p) /\ ~Has(t, C, p))
  <1>0. /\ Len(s) \in Nat /\ Len(t) \in Nat /\ DOMAIN t = 1..Len(t)
        /\ Len(s \o t) + 1 = Len(s) + (Len(t) + 1)
    BY Joined
  <1>1. EndsWith(s \o t, W, C, p) <=>
            \/ EndsWith(t, W, C, p)
            \/ EndsWith(s, W, C, p) /\ \A k \in DOMAIN t : k < Len(t) + 1 => ~Hits(t[k], C, p)
    <2>1. EndsBefore(s \o t, Len(s) + (Len(t) + 1), W, C, p) <=>
              \/ EndsBefore(t, Len(t) + 1, W, C, p)
              \/ EndsWith(s, W, C, p) /\ \A k \in DOMAIN t : k < Len(t) + 1 => ~Hits(t[k], C, p)
      <3>1. Len(t) + 1 \in 1..(Len(t) + 1)
        BY <1>0
      <3> QED
        BY <3>1, JoinedBefore
    <2> QED
      BY <1>0, <2>1 DEF EndsWith
  <1>2. (\A k \in DOMAIN t : k < Len(t) + 1 => ~Hits(t[k], C, p)) <=> ~Has(t, C, p)
    BY <1>0 DEF Has
  <1> QED
    BY <1>1, <1>2

LEMMA JoinedFollowed ==
    ASSUME NEW s \in Seq(Instructions), NEW t \in Seq(Instructions), NEW A, NEW B, NEW p,
           Followed(t, A, B, p), Has(t, B, p) \/ Followed(s, A, B, p)
    PROVE  Followed(s \o t, A, B, p)
  <1> DEFINE u == s \o t
  <1> SUFFICES ASSUME NEW i \in DOMAIN u, Hits(u[i], A, p)
               PROVE  \E j \in DOMAIN u : j > i /\ Hits(u[j], B, p)
    BY DEF Followed
  <1>1. CASE i \in DOMAIN s
    <2>1. CASE Has(t, B, p)
      <3>1. PICK j \in DOMAIN t : Hits(t[j], B, p)
        BY <2>1 DEF Has
      <3>2. Len(s) + j \in DOMAIN u /\ u[Len(s) + j] = t[j] /\ Len(s) + j > i
        BY <1>1, Joined
      <3> QED
        BY <3>1, <3>2
    <2>2. CASE Followed(s, A, B, p)
      <3>1. u[i] = s[i]
        BY <1>1, Joined
      <3>2. PICK j \in DOMAIN s : j > i /\ Hits(s[j], B, p)
        BY <1>1, <2>2, <3>1 DEF Followed
      <3> QED
        BY <3>2, Joined
    <2> QED
      BY <2>1, <2>2
  <1>2. CASE i \notin DOMAIN s
    <2>1. i - Len(s) \in DOMAIN t /\ u[Len(s) + (i - Len(s))] = t[i - Len(s)]
          /\ Len(s) + (i - Len(s)) = i /\ Len(s) \in Nat
      BY <1>2, Joined
    <2>2. Hits(t[i - Len(s)], A, p)
      BY <2>1
    <2>3. PICK j \in DOMAIN t : j > i - Len(s) /\ Hits(t[j], B, p)
      BY <2>1, <2>2 DEF Followed
    <2>4. Len(s) + j \in DOMAIN u /\ u[Len(s) + j] = t[j] /\ Len(s) + j > i
      BY <2>1, <2>3, Joined
    <2> QED
      BY <2>3, <2>4
  <1> QED
    BY <1>1, <1>2

\* A position of a concatenation, and what comes before it.
LEMMA JoinedPlaces ==
    ASSUME NEW s \in Seq(Instructions), NEW t \in Seq(Instructions), NEW A, NEW W, NEW C, NEW p,
           NEW i \in DOMAIN (s \o t), Hits((s \o t)[i], A, p)
    PROVE  \/ /\ i \in DOMAIN s /\ Hits(s[i], A, p)
              /\ EndsBefore(s, i, W, C, p) => EndsBefore(s \o t, i, W, C, p)
              /\ (\A k \in DOMAIN s : k < i => ~Hits(s[k], C, p)) =>
                    \A k \in DOMAIN (s \o t) : k < i => ~Hits((s \o t)[k], C, p)
           \/ \E j \in DOMAIN t :
                 /\ Hits(t[j], A, p)
                 /\ EndsBefore(t, j, W, C, p) => EndsBefore(s \o t, i, W, C, p)
                 /\ EndsWith(s, W, C, p) /\ (\A k \in DOMAIN t : k < j => ~Hits(t[k], C, p)) =>
                        EndsBefore(s \o t, i, W, C, p)
                 /\ ~Has(s, C, p) /\ (\A k \in DOMAIN t : k < j => ~Hits(t[k], C, p)) =>
                        \A k \in DOMAIN (s \o t) : k < i => ~Hits((s \o t)[k], C, p)
  <1> DEFINE u == s \o t
  <1> DEFINE m == Len(s)
  <1>0. /\ DOMAIN s = 1..m /\ DOMAIN t = 1..Len(t) /\ DOMAIN u = 1..(m + Len(t))
        /\ m \in Nat /\ Len(t) \in Nat
        /\ \A k \in 1..m : u[k] = s[k]
        /\ \A k \in 1..Len(t) : u[m + k] = t[k]
    BY Joined
  <1>b. /\ \A n \in 1..(m + 1) : EndsBefore(u, n, W, C, p) <=> EndsBefore(s, n, W, C, p)
        /\ \A n \in 1..(Len(t) + 1) :
                EndsBefore(u, m + n, W, C, p) <=>
                    \/ EndsBefore(t, n, W, C, p)
                    \/ /\ EndsWith(s, W, C, p)
                       /\ \A k \in DOMAIN t : k < n => ~Hits(t[k], C, p)
    BY JoinedBefore
  <1>h. i \in DOMAIN u /\ Hits(u[i], A, p)
    OBVIOUS
  <1> HIDE DEF u, m
  <1>1. CASE i \in 1..m
    <2>1. u[i] = s[i] /\ i \in 1..(m + 1) /\ i \in DOMAIN s
      BY <1>1, <1>0
    <2>2. EndsBefore(s, i, W, C, p) => EndsBefore(u, i, W, C, p)
      BY <2>1, <1>b
    <2>3. \A k \in DOMAIN u : k < i => k \in DOMAIN s /\ u[k] = s[k]
      BY <1>0, <1>1
    <2> QED
      BY <2>1, <2>2, <2>3, <1>h DEF u
  <1>2. CASE i \notin 1..m
    <2> DEFINE j == i - m
    <2>1. j \in DOMAIN t /\ i = m + j /\ j \in 1..(Len(t) + 1)
      BY <1>0, <1>2, <1>h
    <2>2. Hits(t[j], A, p)
      BY <1>0, <1>h, <2>1
    <2> HIDE DEF j
    <2>3. EndsBefore(u, i, W, C, p) <=>
             \/ EndsBefore(t, j, W, C, p)
             \/ EndsWith(s, W, C, p) /\ \A k \in DOMAIN t : k < j => ~Hits(t[k], C, p)
      BY <1>b, <2>1
    <2>4. ASSUME ~Has(s, C, p), \A k \in DOMAIN t : k < j => ~Hits(t[k], C, p), NEW k \in DOMAIN u, k < i
          PROVE  ~Hits(u[k], C, p)
      <3>1. CASE k \in 1..m
        BY <3>1, <1>0, <2>4 DEF Has
      <3>2. CASE k \notin 1..m
        <4>0. k \in 1..(m + Len(t)) /\ k < m + j /\ j \in 1..Len(t)
          BY <1>0, <2>4, <2>1
        <4>1. (k - m) \in 1..Len(t) /\ k - m < j /\ m + (k - m) = k
          BY <1>0, <3>2, <4>0
        <4> QED
          BY <4>1, <2>4, <1>0
      <3> QED
        BY <3>1, <3>2
    <2> QED
      BY <2>1, <2>2, <2>3, <2>4 DEF u
  <1> QED
    BY <1>1, <1>2

LEMMA JoinedPrepared ==
    ASSUME NEW s \in Seq(Instructions), NEW t \in Seq(Instructions), NEW A, NEW W, NEW C, NEW p,
           Prepared(s, A, W, C, p),
           Prepared(t, A, W, C, p) \/ (EndsWith(s, W, C, p) /\ Relies(t, A, W, C, p))
    PROVE  Prepared(s \o t, A, W, C, p)
  <1> SUFFICES ASSUME NEW i \in DOMAIN (s \o t), Hits((s \o t)[i], A, p)
               PROVE  EndsBefore(s \o t, i, W, C, p)
    BY DEF Prepared
  <1> DEFINE early == EndsBefore(s \o t, i, W, C, p)
             clean == \A k \in DOMAIN (s \o t) : k < i => ~Hits((s \o t)[k], C, p)
  <1>1. \/ /\ i \in DOMAIN s /\ Hits(s[i], A, p)
           /\ EndsBefore(s, i, W, C, p) => early
           /\ (\A k \in DOMAIN s : k < i => ~Hits(s[k], C, p)) => clean
        \/ \E j \in DOMAIN t :
              /\ Hits(t[j], A, p)
              /\ EndsBefore(t, j, W, C, p) => early
              /\ EndsWith(s, W, C, p) /\ (\A k \in DOMAIN t : k < j => ~Hits(t[k], C, p)) => early
              /\ ~Has(s, C, p) /\ (\A k \in DOMAIN t : k < j => ~Hits(t[k], C, p)) => clean
    BY JoinedPlaces
  <1> HIDE DEF early, clean
  <1>2. ASSUME i \in DOMAIN s, Hits(s[i], A, p), EndsBefore(s, i, W, C, p) => early
        PROVE  early
    BY <1>2 DEF Prepared
  <1>3. ASSUME NEW j \in DOMAIN t, Hits(t[j], A, p), EndsBefore(t, j, W, C, p) => early,
               EndsWith(s, W, C, p) /\ (\A k \in DOMAIN t : k < j => ~Hits(t[k], C, p)) => early
        PROVE  early
    BY <1>3 DEF Prepared, Relies
  <1>4. early
    BY <1>1, <1>2, <1>3
  <1> QED
    BY <1>4 DEF early

LEMMA JoinedRelies ==
    ASSUME NEW s \in Seq(Instructions), NEW t \in Seq(Instructions), NEW A, NEW W, NEW C, NEW p,
           Relies(s, A, W, C, p),
           \/ Prepared(t, A, W, C, p)
           \/ (EndsWith(s, W, C, p) \/ ~Has(s, C, p)) /\ Relies(t, A, W, C, p)
    PROVE  Relies(s \o t, A, W, C, p)
  <1> SUFFICES ASSUME NEW i \in DOMAIN (s \o t), Hits((s \o t)[i], A, p)
               PROVE  \/ EndsBefore(s \o t, i, W, C, p)
                      \/ \A k \in DOMAIN (s \o t) : k < i => ~Hits((s \o t)[k], C, p)
    BY DEF Relies
  <1> DEFINE early == EndsBefore(s \o t, i, W, C, p)
             clean == \A k \in DOMAIN (s \o t) : k < i => ~Hits((s \o t)[k], C, p)
  <1>1. \/ /\ i \in DOMAIN s /\ Hits(s[i], A, p)
           /\ EndsBefore(s, i, W, C, p) => early
           /\ (\A k \in DOMAIN s : k < i => ~Hits(s[k], C, p)) => clean
        \/ \E j \in DOMAIN t :
              /\ Hits(t[j], A, p)
              /\ EndsBefore(t, j, W, C, p) => early
              /\ EndsWith(s, W, C, p) /\ (\A k \in DOMAIN t : k < j => ~Hits(t[k], C, p)) => early
              /\ ~Has(s, C, p) /\ (\A k \in DOMAIN t : k < j => ~Hits(t[k], C, p)) => clean
    BY JoinedPlaces
  <1> HIDE DEF early, clean
  <1>2. CASE /\ i \in DOMAIN s /\ Hits(s[i], A, p)
             /\ EndsBefore(s, i, W, C, p) => early
             /\ (\A k \in DOMAIN s : k < i => ~Hits(s[k], C, p)) => clean
    <2>1. early \/ clean
      BY <1>2 DEF Relies
    <2> QED
      BY <2>1 DEF early, clean
  <1>3. ASSUME NEW j \in DOMAIN t, Hits(t[j], A, p), EndsBefore(t, j, W, C, p) => early,
               EndsWith(s, W, C, p) /\ (\A k \in DOMAIN t : k < j => ~Hits(t[k], C, p)) => early,
               ~Has(s, C, p) /\ (\A k \in DOMAIN t : k < j => ~Hits(t[k], C, p)) => clean
        PROVE  early \/ clean
    BY <1>3 DEF Prepared, Relies
  <1> QED
    BY <1>1, <1>2, <1>3 DEF early, clean

\* What is known of a program of two parts, of a single step, and of an option.
Cat(u, s, t, p) ==
    /\ u \in Seq(Instructions)
    /\ \A W : Has(u, W, p) <=> Has(s, W, p) \/ Has(t, W, p)
    /\ \A W, C : EndsWith(u, W, C, p) <=> EndsWith(t, W, C, p) \/ (EndsWith(s, W, C, p) /\ ~Has(t, C, p))
    /\ \A A, B : Followed(t, A, B, p) /\ (Has(t, B, p) \/ Followed(s, A, B, p))
                   => Followed(u, A, B, p)
    /\ \A A, W, C : /\ Prepared(s, A, W, C, p)
                    /\ Prepared(t, A, W, C, p) \/ (EndsWith(s, W, C, p) /\ Relies(t, A, W, C, p))
                    => Prepared(u, A, W, C, p)
    /\ \A A, W, C : /\ Relies(s, A, W, C, p)
                    /\ \/ Prepared(t, A, W, C, p)
                       \/ (EndsWith(s, W, C, p) \/ ~Has(s, C, p)) /\ Relies(t, A, W, C, p)
                    => Relies(u, A, W, C, p)

One(s, x, p) ==
    /\ s \in Seq(Instructions)
    /\ \A W : Has(s, W, p) <=> x \in W
    /\ \A W, C : EndsWith(s, W, C, p) <=> x \in W
    /\ \A A, B : Followed(s, A, B, p) <=> x \notin A
    /\ \A A, W, C : Prepared(s, A, W, C, p) <=> x \notin A
    /\ \A A, W, C : Relies(s, A, W, C, p)

Option(u, c, s, p) ==
    /\ u \in Seq(Instructions)
    /\ \A W : Has(u, W, p) <=> c /\ Has(s, W, p)
    /\ \A W, C : EndsWith(u, W, C, p) <=> c /\ EndsWith(s, W, C, p)
    /\ \A A, B : Followed(u, A, B, p) <=> (c => Followed(s, A, B, p))
    /\ \A A, W, C : Prepared(u, A, W, C, p) <=> (c => Prepared(s, A, W, C, p))
    /\ \A A, W, C : Relies(u, A, W, C, p) <=> (c => Relies(s, A, W, C, p))

LEMMA OnLaw ==
    ASSUME NEW x \in Kinds, NEW q \in (SUBSET Parts) \ {{}}, NEW p \in q
    PROVE  One(On(x, q), x, p)
  <1> DEFINE s == On(x, q)
  <1>1. s \in Seq(Instructions) /\ Len(s) = 1 /\ DOMAIN s = {1} /\ s[1].do = x /\ s[1].on = q
    BY DEF On, Instructions
  <1> HIDE DEF s
  <1>2. \A W : Hits(s[1], W, p) <=> x \in W
    BY <1>1 DEF Hits
  <1>3. \A W, C : EndsBefore(s, 1, W, C, p) <=> FALSE
    BY <1>1 DEF EndsBefore
  <1>4. \A W, C : EndsWith(s, W, C, p) <=> x \in W
    BY <1>1, <1>2 DEF EndsWith, EndsBefore
  <1>5. \A W : Has(s, W, p) <=> x \in W
    BY <1>1, <1>2 DEF Has
  <1>6. \A A, B : Followed(s, A, B, p) <=> x \notin A
    BY <1>1, <1>2 DEF Followed
  <1>7. \A A, W, C : Prepared(s, A, W, C, p) <=> x \notin A
    BY <1>1, <1>2, <1>3 DEF Prepared
  <1>8. \A A, W, C : Relies(s, A, W, C, p)
    BY <1>1 DEF Relies
  <1> QED
    BY <1>1, <1>4, <1>5, <1>6, <1>7, <1>8 DEF s, One

\* A step on other parts.
LEMMA OnOthers ==
    ASSUME NEW x \in Kinds, NEW q \in (SUBSET Parts) \ {{}}, NEW p, p \notin q
    PROVE  Option(On(x, q), FALSE, On(x, q), p)
  <1> DEFINE s == On(x, q)
  <1>1. s \in Seq(Instructions) /\ DOMAIN s = {1} /\ s[1].on = q
    BY DEF On, Instructions
  <1> HIDE DEF s
  <1>2. \A W : ~Hits(s[1], W, p)
    BY <1>1 DEF Hits
  <1> QED
    <2>1. Option(s, FALSE, s, p)
      BY <1>1, <1>2 DEF Option, Has, EndsWith, EndsBefore, Followed, Prepared, Relies
    <2> QED
      BY <2>1 DEF s

LEMMA DoLaw ==
    ASSUME NEW x \in Kinds, NEW p \in Parts
    PROVE  One(Do(x), x, p)
  <1>1. Do(x) = On(x, Parts)
    BY DEF Do, On
  <1>2. Parts \in (SUBSET Parts) \ {{}}
    BY DEF Parts
  <1>3. One(On(x, Parts), x, p)
    BY <1>2, OnLaw
  <1> QED
    BY <1>1, <1>3

LEMMA IfLaw ==
    ASSUME NEW c \in BOOLEAN, NEW s \in Seq(Instructions), NEW p
    PROVE  Option(If(c, s), c, s, p)
  <1>1. CASE c
    <2>1. If(c, s) = s
      BY <1>1 DEF If
    <2> QED
      BY <1>1, <2>1 DEF Option
  <1>2. CASE ~c
    <2>1. If(c, s) = <<>>
      BY <1>2 DEF If
    <2>2. <<>> \in Seq(Instructions) /\ DOMAIN <<>> = {}
      OBVIOUS
    <2>3. /\ \A W : ~Has(<<>>, W, p)
          /\ \A W, C : ~EndsWith(<<>>, W, C, p)
          /\ \A A, B : Followed(<<>>, A, B, p)
          /\ \A A, W, C : Prepared(<<>>, A, W, C, p)
          /\ \A A, W, C : Relies(<<>>, A, W, C, p)
      BY <2>2 DEF Has, EndsWith, EndsBefore, Followed, Prepared, Relies
    <2> QED
      BY <1>2, <2>1, <2>2, <2>3 DEF Option
  <1> QED
    BY <1>1, <1>2

LEMMA CatLaw ==
    ASSUME NEW s \in Seq(Instructions), NEW t \in Seq(Instructions), NEW p
    PROVE  Cat(s \o t, s, t, p)
  <1>1. s \o t \in Seq(Instructions)
    OBVIOUS
  <1>2. \A W : Has(s \o t, W, p) <=> Has(s, W, p) \/ Has(t, W, p)
    BY JoinedHas
  <1>3. \A W, C : EndsWith(s \o t, W, C, p) <=>
                             EndsWith(t, W, C, p) \/ (EndsWith(s, W, C, p) /\ ~Has(t, C, p))
    BY JoinedEnds
  <1>4. \A A, B : Followed(t, A, B, p) /\ (Has(t, B, p) \/ Followed(s, A, B, p))
                    => Followed(s \o t, A, B, p)
    BY JoinedFollowed
  <1>5. \A A, W, C :
                  /\ Prepared(s, A, W, C, p)
                  /\ Prepared(t, A, W, C, p) \/ (EndsWith(s, W, C, p) /\ Relies(t, A, W, C, p))
                  => Prepared(s \o t, A, W, C, p)
    BY JoinedPrepared
  <1>6. \A A, W, C :
                  /\ Relies(s, A, W, C, p)
                  /\ \/ Prepared(t, A, W, C, p)
                     \/ (EndsWith(s, W, C, p) \/ ~Has(s, C, p)) /\ Relies(t, A, W, C, p)
                  => Relies(s \o t, A, W, C, p)
    BY JoinedRelies
  <1> QED
    BY <1>1, <1>2, <1>3, <1>4, <1>5, <1>6 DEF Cat

-----------------------------------------------------------------------------
(***************************************************************************)
(* The programs.                                                           *)
(***************************************************************************)
Builders    == {"build", "create", "createOnMeta"}
Writers     == {"build", "create", "createOnMeta", "loadState", "restore"}
Broadcasts  == {"broadcast", "broadcastDDP"}
Wraps       == {"initialize", "prepareDDP", "toDevice"}
Fallibles   == {"build", "create", "createOnMeta", "download", "findCached", "loadState", "lookup",
                "metadata", "open", "restore"}
WriteSends  == {"broadcast", "broadcastDDP", "build", "create", "createOnMeta", "loadState", "restore"}
Nothings    == {}
Downloads   == {"download"}
Finds       == {"findCached"}
Barriers    == {"barrier"}
Loads       == {"loadState"}
Builds      == {"build"}
Creates     == {"create"}
Sources     == {"create", "loadState"}
Initializes == {"initialize"}
Restores    == {"restore"}
DDPs        == {"broadcastDDP"}

\* What a program lacks needs no preparation, and what it never does it does not undo.
LEMMA Lacking ==
    ASSUME NEW s, NEW p
    PROVE  /\ \A A, B, W, C : ~Has(s, A, p) =>
                Followed(s, A, B, p) /\ Prepared(s, A, W, C, p) /\ Relies(s, A, W, C, p)
           /\ \A A, W, C : ~Has(s, C, p) => Relies(s, A, W, C, p)
           /\ \A A, W, C : Prepared(s, A, W, C, p) => Relies(s, A, W, C, p)
           /\ \A W, C : EndsWith(s, W, C, p) => Has(s, W, p)
  BY DEF Has, Followed, Prepared, Relies, EndsWith, EndsBefore

\* What is needed of any program, but that a barrier follows what may fail.
Sane(s, p) ==
    /\ s \in Seq(Instructions)
    /\ Prepared(s, Finds, Downloads, Nothings, p)
    /\ Prepared(s, Finds, Barriers, Downloads, p)
    /\ Prepared(s, Loads, Builds, Builders, p)

\* A piece that leaves its model as the source x makes it.
Brings(s, X, p) ==
    /\ Sane(s, p)
    /\ ~Has(s, Initializes, p) /\ ~Has(s, Restores, p) /\ ~Has(s, DDPs, p)
    /\ EndsWith(s, X, Writers, p)

LEMMA DownloadFlow ==
    ASSUME NEW t \in Tasks, NEW p \in Parts
    PROVE  /\ Sane(Download(t), p)
           /\ \A W : Has(Download(t), W, p) <=>
                t.remote /\ ("download" \in W \/ "barrier" \in W \/ "findCached" \in W)
  <1>0. t.remote \in BOOLEAN
    BY TaskAssumption
  <1> DEFINE dDownload == Do("download")
  <1>dDownload. One(dDownload, "download", p)
    BY DoLaw DEF Kinds
  <1> HIDE DEF dDownload
  <1> DEFINE dBarrier == Do("barrier")
  <1>dBarrier. One(dBarrier, "barrier", p)
    BY DoLaw DEF Kinds
  <1> HIDE DEF dBarrier
  <1> DEFINE dFindCached == Do("findCached")
  <1>dFindCached. One(dFindCached, "findCached", p)
    BY DoLaw DEF Kinds
  <1> HIDE DEF dFindCached
  <1> DEFINE a == dDownload \o dBarrier
  <1>a. Cat(a, dDownload, dBarrier, p)
    BY <1>dDownload, <1>dBarrier, CatLaw DEF One
  <1> HIDE DEF a
  <1> DEFINE b == a \o dFindCached
  <1>b. Cat(b, a, dFindCached, p)
    BY <1>a, <1>dFindCached, CatLaw DEF Cat, One
  <1> HIDE DEF b
  <1> DEFINE c == If(t.remote, b)
  <1>c. Option(c, t.remote, b, p)
    BY <1>0, <1>b, IfLaw DEF Cat
  <1> HIDE DEF c
  <1>m. /\ "download" \in Downloads /\ "barrier" \notin Downloads /\ "findCached" \notin Downloads
          /\ "download" \notin Finds /\ "barrier" \notin Finds /\ "findCached" \in Finds
          /\ "download" \notin Barriers /\ "barrier" \in Barriers /\ "findCached" \notin Barriers
          /\ "download" \notin Nothings /\ "barrier" \notin Nothings /\ "findCached" \notin Nothings
          /\ "download" \notin Loads /\ "barrier" \notin Loads /\ "findCached" \notin Loads
    BY DEF Downloads, Finds, Barriers, Nothings, Loads
  <1>h. \A W : Has(c, W, p) <=> t.remote /\ ("download" \in W \/ "barrier" \in W \/ "findCached" \in W)
    BY <1>0, <1>dDownload, <1>dBarrier, <1>dFindCached, <1>a, <1>b, <1>c DEF One, Cat, Option
  <1>1. Sane(c, p)
     BY <1>0, <1>m, <1>dDownload, <1>dBarrier, <1>dFindCached, <1>a, <1>b, <1>c DEF One, Cat,
       Option, Sane
  <1>2. Download(t) = c
    BY DEF Download, dDownload, dBarrier, dFindCached, a, b, c
  <1> QED
    BY <1>1, <1>2, <1>h

LEMMA DoLoadFlow ==
    ASSUME NEW t \in Tasks, NEW first \in BOOLEAN, NEW p \in Parts
    PROVE  /\ Brings(DoLoad(t, first), Loads, p)
           /\ Followed(DoLoad(t, first), Fallibles, Barriers, p)
           /\ ~Has(DoLoad(t, first), Finds, p)
           /\ ~first => EndsWith(DoLoad(t, first), Broadcasts, Writers, p)
  <1>0. t.meta \in BOOLEAN /\ (~first) \in BOOLEAN
    BY TaskAssumption
  <1> DEFINE dBuild == Do("build")
  <1>dBuild. One(dBuild, "build", p)
    BY DoLaw DEF Kinds
  <1> HIDE DEF dBuild
  <1> DEFINE dLoadState == Do("loadState")
  <1>dLoadState. One(dLoadState, "loadState", p)
    BY DoLaw DEF Kinds
  <1> HIDE DEF dLoadState
  <1> DEFINE dBarrier == Do("barrier")
  <1>dBarrier. One(dBarrier, "barrier", p)
    BY DoLaw DEF Kinds
  <1> HIDE DEF dBarrier
  <1> DEFINE dBroadcast == Do("broadcast")
  <1>dBroadcast. One(dBroadcast, "broadcast", p)
    BY DoLaw DEF Kinds
  <1> HIDE DEF dBroadcast
  <1> DEFINE dResetOthers == Do("resetOthers")
  <1>dResetOthers. One(dResetOthers, "resetOthers", p)
    BY DoLaw DEF Kinds
  <1> HIDE DEF dResetOthers
  <1> DEFINE a == dBuild \o dLoadState
  <1>a. Cat(a, dBuild, dLoadState, p)
    BY <1>dBuild, <1>dLoadState, CatLaw DEF One
  <1> HIDE DEF a
  <1> DEFINE b == a \o dBarrier
  <1>b. Cat(b, a, dBarrier, p)
    BY <1>a, <1>dBarrier, CatLaw DEF Cat, One
  <1> HIDE DEF b
  <1> DEFINE c == dResetOthers \o dBarrier
  <1>c. Cat(c, dResetOthers, dBarrier, p)
    BY <1>dResetOthers, <1>dBarrier, CatLaw DEF One
  <1> HIDE DEF c
  <1> DEFINE d == If(t.meta, c)
  <1>d. Option(d, t.meta, c, p)
    BY <1>0, <1>c, IfLaw DEF Cat
  <1> HIDE DEF d
  <1> DEFINE e == dBroadcast \o d
  <1>e. Cat(e, dBroadcast, d, p)
    BY <1>dBroadcast, <1>d, CatLaw DEF One, Option
  <1> HIDE DEF e
  <1> DEFINE f == If(~first, e)
  <1>f. Option(f, ~first, e, p)
    BY <1>0, <1>e, IfLaw DEF Cat
  <1> HIDE DEF f
  <1> DEFINE g == b \o f
  <1>g. Cat(g, b, f, p)
    BY <1>b, <1>f, CatLaw DEF Cat, Option
  <1> HIDE DEF g
  <1>m. /\ "build" \notin Finds /\ "loadState" \notin Finds /\ "barrier" \notin Finds
          /\ "broadcast" \notin Finds /\ "resetOthers" \notin Finds /\ "build" \notin Initializes
          /\ "loadState" \notin Initializes /\ "barrier" \notin Initializes /\ "broadcast" \notin Initializes
          /\ "resetOthers" \notin Initializes /\ "build" \notin Restores /\ "loadState" \notin Restores
          /\ "barrier" \notin Restores /\ "broadcast" \notin Restores /\ "resetOthers" \notin Restores
          /\ "build" \notin DDPs /\ "loadState" \notin DDPs /\ "barrier" \notin DDPs
          /\ "broadcast" \notin DDPs /\ "resetOthers" \notin DDPs /\ "build" \notin Downloads
          /\ "loadState" \notin Downloads /\ "barrier" \notin Downloads /\ "broadcast" \notin Downloads
          /\ "resetOthers" \notin Downloads /\ "build" \notin Barriers /\ "loadState" \notin Barriers
          /\ "barrier" \in Barriers /\ "broadcast" \notin Barriers /\ "resetOthers" \notin Barriers
          /\ "build" \notin Nothings /\ "loadState" \notin Nothings /\ "barrier" \notin Nothings
          /\ "broadcast" \notin Nothings /\ "resetOthers" \notin Nothings /\ "build" \notin Loads
          /\ "loadState" \in Loads /\ "barrier" \notin Loads /\ "broadcast" \notin Loads
          /\ "resetOthers" \notin Loads /\ "build" \in Builds /\ "loadState" \notin Builds
          /\ "barrier" \notin Builds /\ "broadcast" \notin Builds /\ "resetOthers" \notin Builds
          /\ "build" \in Builders /\ "loadState" \notin Builders /\ "barrier" \notin Builders
          /\ "broadcast" \notin Builders /\ "resetOthers" \notin Builders /\ "build" \in Writers
          /\ "loadState" \in Writers /\ "barrier" \notin Writers /\ "broadcast" \notin Writers
          /\ "resetOthers" \notin Writers /\ "build" \notin Broadcasts /\ "loadState" \notin Broadcasts
          /\ "barrier" \notin Broadcasts /\ "broadcast" \in Broadcasts /\ "resetOthers" \notin Broadcasts
          /\ "build" \in Fallibles /\ "loadState" \in Fallibles /\ "barrier" \notin Fallibles
          /\ "broadcast" \notin Fallibles /\ "resetOthers" \notin Fallibles
     BY DEF Finds, Initializes, Restores, DDPs, Downloads, Barriers, Nothings, Loads, Builds,
       Builders, Writers, Broadcasts, Fallibles
  <1>2. ~Has(g, Initializes, p) /\ ~Has(g, Restores, p) /\ ~Has(g, DDPs, p)
        /\ ~Has(g, Finds, p)
     BY <1>0, <1>m, <1>dBuild, <1>dLoadState, <1>dBarrier, <1>dBroadcast, <1>dResetOthers, <1>a,
       <1>b, <1>c, <1>d, <1>e, <1>f, <1>g DEF One, Cat, Option
  <1>1. Sane(g, p)
    <2>1. Prepared(a, Loads, Builds, Builders, p)
      BY ONLY <1>m, <1>dBuild, <1>dLoadState, <1>a DEF One, Cat
    <2>2. Prepared(b, Loads, Builds, Builders, p)
      BY ONLY <1>m, <2>1, <1>dBarrier, <1>b DEF One, Cat
    <2>3. ~Has(c, Loads, p)
      BY ONLY <1>m, <1>dResetOthers, <1>dBarrier, <1>c DEF One, Cat
    <2>4. ~Has(f, Loads, p)
      BY ONLY <1>m, <2>3, <1>dBroadcast, <1>d, <1>e, <1>f DEF One, Cat, Option
    <2>5. Prepared(f, Loads, Builds, Builders, p)
      BY ONLY <2>4, Lacking
    <2>6. Prepared(g, Loads, Builds, Builders, p)
      BY ONLY <2>2, <2>5, <1>g DEF Cat
    <2>7. /\ Prepared(g, Finds, Downloads, Nothings, p)
          /\ Prepared(g, Finds, Barriers, Downloads, p)
      BY ONLY <1>2, Lacking
    <2>8. g \in Seq(Instructions)
      BY ONLY <1>g DEF Cat
    <2> QED
      BY ONLY <2>6, <2>7, <2>8 DEF Sane
  <1>3. EndsWith(g, Loads, Writers, p)
     BY <1>0, <1>m, <1>dBuild, <1>dLoadState, <1>dBarrier, <1>dBroadcast, <1>dResetOthers, <1>a,
       <1>b, <1>c, <1>d, <1>e, <1>f, <1>g DEF One, Cat, Option
  <1>4. ~first => EndsWith(g, Broadcasts, Writers, p)
     BY <1>0, <1>m, <1>dBuild, <1>dLoadState, <1>dBarrier, <1>dBroadcast, <1>dResetOthers, <1>a,
       <1>b, <1>c, <1>d, <1>e, <1>f, <1>g DEF One, Cat, Option
  <1>5. Followed(g, Fallibles, Barriers, p)
     BY <1>0, <1>m, <1>dBuild, <1>dLoadState, <1>dBarrier, <1>dBroadcast, <1>dResetOthers, <1>a,
       <1>b, <1>c, <1>d, <1>e, <1>f, <1>g DEF One, Cat, Option
  <1>6. DoLoad(t, first) = g
    BY DEF DoLoad, dBuild, dLoadState, dBarrier, dBroadcast, dResetOthers, a, b, c, d, e, f, g
  <1> QED
    BY <1>1, <1>2, <1>3, <1>4, <1>5, <1>6 DEF Brings

LEMMA LoadsToBarrier ==
    ASSUME NEW s, NEW p, EndsWith(s, Loads, Writers, p), Followed(s, Fallibles, Barriers, p)
    PROVE  Has(s, Barriers, p) /\ Has(s, Fallibles, p)
  <1>1. Has(s, Loads, p)
    BY Lacking
  <1> QED
    BY <1>1 DEF Followed, Has, Hits, Fallibles, Loads

LEMMA CreateFlow ==
    ASSUME NEW t \in Tasks, NEW onMeta \in BOOLEAN, NEW first \in BOOLEAN, NEW p \in Parts, ~onMeta
    PROVE  LET u == CreateNewModel(t, onMeta, first)
           IN  /\ Brings(u, Creates, p) /\ ~Has(u, Finds, p) /\ ~Has(u, Loads, p)
               /\ Followed(u, Fallibles, Barriers, p)
               /\ ~first /\ t.meta => EndsWith(u, Broadcasts, Writers, p)
               /\ first \/ ~t.meta => EndsWith(u, Creates, WriteSends, p)
  <1>0. t.meta \in BOOLEAN /\ (~first /\ t.meta) \in BOOLEAN /\ (~onMeta) \in BOOLEAN /\ ~onMeta
    BY TaskAssumption
  <1> DEFINE dCreate == Do("create")
  <1>dCreate. One(dCreate, "create", p)
    BY DoLaw DEF Kinds
  <1> HIDE DEF dCreate
  <1> DEFINE dBarrier == Do("barrier")
  <1>dBarrier. One(dBarrier, "barrier", p)
    BY DoLaw DEF Kinds
  <1> HIDE DEF dBarrier
  <1> DEFINE dBroadcast == Do("broadcast")
  <1>dBroadcast. One(dBroadcast, "broadcast", p)
    BY DoLaw DEF Kinds
  <1> HIDE DEF dBroadcast
  <1> DEFINE dResetOthers == Do("resetOthers")
  <1>dResetOthers. One(dResetOthers, "resetOthers", p)
    BY DoLaw DEF Kinds
  <1> HIDE DEF dResetOthers
  <1> DEFINE a == dBroadcast \o dResetOthers
  <1>a. Cat(a, dBroadcast, dResetOthers, p)
    BY <1>dBroadcast, <1>dResetOthers, CatLaw DEF One
  <1> HIDE DEF a
  <1> DEFINE b == a \o dBarrier
  <1>b. Cat(b, a, dBarrier, p)
    BY <1>a, <1>dBarrier, CatLaw DEF Cat, One
  <1> HIDE DEF b
  <1> DEFINE c == If((~first /\ t.meta), b)
  <1>c. Option(c, (~first /\ t.meta), b, p)
    BY <1>0, <1>b, IfLaw DEF Cat
  <1> HIDE DEF c
  <1> DEFINE d == dBarrier \o c
  <1>d. Cat(d, dBarrier, c, p)
    BY <1>dBarrier, <1>c, CatLaw DEF One, Option
  <1> HIDE DEF d
  <1> DEFINE e == If((~onMeta), d)
  <1>e. Option(e, (~onMeta), d, p)
    BY <1>0, <1>d, IfLaw DEF Cat
  <1> HIDE DEF e
  <1> DEFINE f == dCreate \o e
  <1>f. Cat(f, dCreate, e, p)
    BY <1>dCreate, <1>e, CatLaw DEF One, Option
  <1> HIDE DEF f
  <1>m. /\ "create" \notin Finds /\ "barrier" \notin Finds /\ "broadcast" \notin Finds
          /\ "resetOthers" \notin Finds /\ "create" \notin Initializes /\ "barrier" \notin Initializes
          /\ "broadcast" \notin Initializes /\ "resetOthers" \notin Initializes /\ "create" \notin Restores
          /\ "barrier" \notin Restores /\ "broadcast" \notin Restores /\ "resetOthers" \notin Restores
          /\ "create" \notin DDPs /\ "barrier" \notin DDPs /\ "broadcast" \notin DDPs
          /\ "resetOthers" \notin DDPs /\ "create" \notin Loads /\ "barrier" \notin Loads
          /\ "broadcast" \notin Loads /\ "resetOthers" \notin Loads /\ "create" \notin Downloads
          /\ "barrier" \notin Downloads /\ "broadcast" \notin Downloads /\ "resetOthers" \notin Downloads
          /\ "create" \notin Barriers /\ "barrier" \in Barriers /\ "broadcast" \notin Barriers
          /\ "resetOthers" \notin Barriers /\ "create" \notin Nothings /\ "barrier" \notin Nothings
          /\ "broadcast" \notin Nothings /\ "resetOthers" \notin Nothings /\ "create" \notin Builds
          /\ "barrier" \notin Builds /\ "broadcast" \notin Builds /\ "resetOthers" \notin Builds
          /\ "create" \in Builders /\ "barrier" \notin Builders /\ "broadcast" \notin Builders
          /\ "resetOthers" \notin Builders /\ "create" \in Creates /\ "barrier" \notin Creates
          /\ "broadcast" \notin Creates /\ "resetOthers" \notin Creates /\ "create" \in Writers
          /\ "barrier" \notin Writers /\ "broadcast" \notin Writers /\ "resetOthers" \notin Writers
          /\ "create" \in WriteSends /\ "barrier" \notin WriteSends /\ "broadcast" \in WriteSends
          /\ "resetOthers" \notin WriteSends /\ "create" \notin Broadcasts /\ "barrier" \notin Broadcasts
          /\ "broadcast" \in Broadcasts /\ "resetOthers" \notin Broadcasts /\ "create" \in Fallibles
          /\ "barrier" \notin Fallibles /\ "broadcast" \notin Fallibles /\ "resetOthers" \notin Fallibles
     BY DEF Finds, Initializes, Restores, DDPs, Loads, Downloads, Barriers, Nothings, Builds,
       Builders, Creates, Writers, WriteSends, Broadcasts, Fallibles
  <1>h. ~Has(f, Finds, p) /\ ~Has(f, Initializes, p) /\ ~Has(f, Restores, p) /\ ~Has(f, DDPs, p) /\ ~Has(f, Loads, p)
     BY <1>0, <1>m, <1>dCreate, <1>dBarrier, <1>dBroadcast, <1>dResetOthers, <1>a, <1>b, <1>c, <1>d,
       <1>e, <1>f DEF One, Cat, Option
  <1>1. Sane(f, p)
     BY <1>0, <1>h, Lacking, <1>m, <1>dCreate, <1>dBarrier, <1>dBroadcast, <1>dResetOthers, <1>a,
       <1>b, <1>c, <1>d, <1>e, <1>f DEF One, Cat, Option, Sane
  <1>3. EndsWith(f, Creates, Writers, p)
     BY <1>0, <1>m, <1>dCreate, <1>dBarrier, <1>dBroadcast, <1>dResetOthers, <1>a, <1>b, <1>c, <1>d,
       <1>e, <1>f DEF One, Cat, Option
  <1>4. ~first /\ t.meta => EndsWith(f, Broadcasts, Writers, p)
     BY <1>0, <1>m, <1>dCreate, <1>dBarrier, <1>dBroadcast, <1>dResetOthers, <1>a, <1>b, <1>c, <1>d,
       <1>e, <1>f DEF One, Cat, Option
  <1>7. first \/ ~t.meta => EndsWith(f, Creates, WriteSends, p)
     BY <1>0, <1>m, <1>dCreate, <1>dBarrier, <1>dBroadcast, <1>dResetOthers, <1>a, <1>b, <1>c, <1>d,
       <1>e, <1>f DEF One, Cat, Option
  <1>5. Followed(f, Fallibles, Barriers, p)
     BY <1>0, <1>m, <1>dCreate, <1>dBarrier, <1>dBroadcast, <1>dResetOthers, <1>a, <1>b, <1>c, <1>d,
       <1>e, <1>f DEF One, Cat, Option
  <1>6. CreateNewModel(t, onMeta, first) = f
    BY <1>0 DEF CreateNewModel, dCreate, dBarrier, dBroadcast, dResetOthers, a, b, c, d, e, f
  <1> QED
    BY <1>1, <1>3, <1>4, <1>5, <1>6, <1>7, <1>h DEF Brings

\* A model that is created on the meta device is not brought by anyone.
LEMMA CreateOnMetaFlow ==
    ASSUME NEW t \in Tasks, NEW first \in BOOLEAN, NEW p \in Parts
    PROVE  LET u == CreateNewModel(t, TRUE, first)
           IN  /\ u = Do("createOnMeta")
               /\ Sane(u, p) /\ ~Has(u, Finds, p) /\ ~Has(u, Initializes, p) /\ ~Has(u, Restores, p) /\ ~Has(u, DDPs, p) /\ ~Has(u, Loads, p)
  <1>1. CreateNewModel(t, TRUE, first) = Do("createOnMeta")
    <2>1. Do("createOnMeta") \in Seq(Instructions)
      BY DoLaw DEF Kinds, One, Parts
    <2> DEFINE d == Do("createOnMeta")
    <2> HIDE DEF d
    <2>2. d \o <<>> = d
      BY <2>1 DEF d
    <2> QED
      BY <2>2 DEF CreateNewModel, If, d
  <1> DEFINE dCreateOnMeta == Do("createOnMeta")
  <1>dCreateOnMeta. One(dCreateOnMeta, "createOnMeta", p)
    BY DoLaw DEF Kinds
  <1> HIDE DEF dCreateOnMeta
  <1>m. /\ "createOnMeta" \notin Finds /\ "createOnMeta" \notin Initializes /\ "createOnMeta" \notin Restores
          /\ "createOnMeta" \notin DDPs /\ "createOnMeta" \notin Loads
    BY DEF Finds, Initializes, Restores, DDPs, Loads
  <1>h. ~Has(dCreateOnMeta, Finds, p) /\ ~Has(dCreateOnMeta, Initializes, p) /\ ~Has(dCreateOnMeta, Restores, p) /\ ~Has(dCreateOnMeta, DDPs, p) /\ ~Has(dCreateOnMeta, Loads, p)
    BY <1>m, <1>dCreateOnMeta DEF One
  <1>s. Sane(dCreateOnMeta, p)
    BY <1>h, <1>dCreateOnMeta, Lacking DEF One, Sane
  <1> QED
    BY <1>1, <1>h, <1>s DEF dCreateOnMeta

LEMMA LoadFlow ==
    ASSUME NEW t \in Tasks, NEW first \in BOOLEAN, NEW p \in Parts
    PROVE  LET u == LoadModel(t, first)
           IN  /\ Brings(u, Loads, p)
               /\ Followed(u, Fallibles, Barriers, p)
               /\ ~first => EndsWith(u, Broadcasts, Writers, p)
  <1> DEFINE a == Download(t)
  <1> DEFINE b == DoLoad(t, first)
  <1> DEFINE u == a \o b
  <1>1. /\ Sane(a, p)
        /\ \A W : Has(a, W, p) <=> t.remote /\ ("download" \in W \/ "barrier" \in W \/ "findCached" \in W)
    BY DownloadFlow
  <1>2. /\ Brings(b, Loads, p) /\ Followed(b, Fallibles, Barriers, p)
        /\ ~Has(b, Finds, p) /\ (~first => EndsWith(b, Broadcasts, Writers, p))
    BY DoLoadFlow
  <1>b. Has(b, Barriers, p)
    BY <1>2, LoadsToBarrier DEF Brings
  <1> HIDE DEF a, b
  <1>3. Cat(u, a, b, p)
    BY <1>1, <1>2, CatLaw DEF Sane, Brings
  <1> HIDE DEF u
  <1>m. /\ "download" \notin Initializes /\ "barrier" \notin Initializes /\ "findCached" \notin Initializes
          /\ "download" \notin Restores /\ "barrier" \notin Restores /\ "findCached" \notin Restores
          /\ "download" \notin DDPs /\ "barrier" \notin DDPs /\ "findCached" \notin DDPs
          /\ "download" \notin Builders /\ "barrier" \notin Builders /\ "findCached" \notin Builders
          /\ "download" \notin Writers /\ "barrier" \notin Writers /\ "findCached" \notin Writers
          /\ "download" \notin Broadcasts /\ "barrier" \notin Broadcasts /\ "findCached" \notin Broadcasts
          /\ "download" \notin Loads /\ "barrier" \notin Loads /\ "findCached" \notin Loads
    BY DEF Initializes, Restores, DDPs, Builders, Writers, Broadcasts, Loads
  <1>4. ~Has(a, Initializes, p) /\ ~Has(a, Restores, p) /\ ~Has(a, DDPs, p) /\ ~Has(a, Loads, p)
    BY <1>1, <1>m
  <1>5. ~Has(u, Initializes, p) /\ ~Has(u, Restores, p) /\ ~Has(u, DDPs, p)
    BY <1>2, <1>3, <1>4 DEF Brings, Cat
  <1>6. Sane(u, p)
    BY <1>1, <1>2, <1>3 DEF Sane, Brings, Cat
  <1>7. /\ EndsWith(u, Loads, Writers, p) /\ (~first => EndsWith(u, Broadcasts, Writers, p))
        /\ Followed(u, Fallibles, Barriers, p)
    BY <1>2, <1>3, <1>b DEF Brings, Cat
  <1>8. LoadModel(t, first) = u
    BY DEF LoadModel, u, a, b
  <1> QED
    BY <1>5, <1>6, <1>7, <1>8 DEF Brings

\* What the trained model is before it is wrapped.
LEMMA TrainModelFlow ==
    ASSUME NEW t \in Tasks, NEW p \in Parts
    PROVE  LET u == TrainModel(t)
           IN  /\ Sane(u, p) /\ ~Has(u, Initializes, p) /\ ~Has(u, Restores, p) /\ ~Has(u, DDPs, p)
               /\ Followed(u, Fallibles, Barriers, p) /\ Has(u, Fallibles, p)
               /\ t.kept = "none" => IF Origin(t.section) = "family" THEN EndsWith(u, Creates, Writers, p)
                                     ELSE EndsWith(u, Loads, Writers, p)
  <1>0. t.meta \in BOOLEAN /\ t.kept \in {"none", "full"}
    BY TaskAssumption
  <1> DEFINE dLookup == Do("lookup")
  <1>dLookup. One(dLookup, "lookup", p)
    BY DoLaw DEF Kinds
  <1> HIDE DEF dLookup
  <1> DEFINE dMetadata == Do("metadata")
  <1>dMetadata. One(dMetadata, "metadata", p)
    BY DoLaw DEF Kinds
  <1> HIDE DEF dMetadata
  <1> DEFINE dBarrier == Do("barrier")
  <1>dBarrier. One(dBarrier, "barrier", p)
    BY DoLaw DEF Kinds
  <1> HIDE DEF dBarrier
  <1> DEFINE core == (IF t.kept = "full" THEN CreateNewModel(t, t.meta, TRUE)
        ELSE CASE Origin(t.section) = "path"   -> LoadCustomModel(t, TRUE)
               [] Origin(t.section) = "name"   -> LoadModel(t, TRUE)
               [] Origin(t.section) = "family" -> CreateNewModel(t, FALSE, TRUE))
  <1>core. /\ Sane(core, p) /\ ~Has(core, Initializes, p) /\ ~Has(core, Restores, p) /\ ~Has(core, DDPs, p)
           /\ t.kept = "none" => IF Origin(t.section) = "family" THEN EndsWith(core, Creates, Writers, p)
                                 ELSE EndsWith(core, Loads, Writers, p)
    <2>1. CASE t.kept = "full"
      <3>1. core = CreateNewModel(t, t.meta, TRUE)
        BY <2>1
      <3>2. CASE t.meta
        <4>1. core = CreateNewModel(t, TRUE, TRUE)
          BY <3>1, <3>2, <1>0
        <4> HIDE DEF core
        <4> QED
          BY <2>1, <4>1, CreateOnMetaFlow
      <3>3. CASE ~t.meta
        <4>1. core = CreateNewModel(t, FALSE, TRUE)
          BY <3>1, <3>3, <1>0
        <4> HIDE DEF core
        <4> QED
          BY <2>1, <4>1, CreateFlow DEF Brings
      <3> QED
        BY <3>2, <3>3
    <2>2. CASE t.kept # "full" /\ Origin(t.section) = "path"
      <3>1. core = DoLoad(t, TRUE)
        BY <2>2 DEF LoadCustomModel
      <3> HIDE DEF core
      <3> QED
        BY <2>2, <3>1, DoLoadFlow DEF Brings
    <2>3. CASE t.kept # "full" /\ Origin(t.section) = "name"
      <3>1. core = LoadModel(t, TRUE)
        BY <2>3
      <3> HIDE DEF core
      <3> QED
        BY <2>3, <3>1, LoadFlow DEF Brings
    <2>4. CASE t.kept # "full" /\ Origin(t.section) = "family"
      <3>1. core = CreateNewModel(t, FALSE, TRUE)
        BY <2>4
      <3> HIDE DEF core
      <3> QED
        BY <2>4, <3>1, CreateFlow DEF Brings
    <2> QED
      BY <2>1, <2>2, <2>3, <2>4 DEF Origin
  <1> HIDE DEF core
  <1> DEFINE a == dLookup \o core
  <1>a. Cat(a, dLookup, core, p)
    BY <1>dLookup, <1>core, CatLaw DEF One, Sane
  <1> HIDE DEF a
  <1> DEFINE b == dMetadata \o dBarrier
  <1>b. Cat(b, dMetadata, dBarrier, p)
    BY <1>dMetadata, <1>dBarrier, CatLaw DEF One
  <1> HIDE DEF b
  <1> DEFINE c == a \o b
  <1>c. Cat(c, a, b, p)
    BY <1>a, <1>b, CatLaw DEF Cat
  <1> HIDE DEF c
  <1>m. /\ "lookup" \notin Initializes /\ "metadata" \notin Initializes /\ "barrier" \notin Initializes
          /\ "lookup" \notin Restores /\ "metadata" \notin Restores /\ "barrier" \notin Restores
          /\ "lookup" \notin DDPs /\ "metadata" \notin DDPs /\ "barrier" \notin DDPs
          /\ "lookup" \notin Downloads /\ "metadata" \notin Downloads /\ "barrier" \notin Downloads
          /\ "lookup" \notin Barriers /\ "metadata" \notin Barriers /\ "barrier" \in Barriers
          /\ "lookup" \notin Nothings /\ "metadata" \notin Nothings /\ "barrier" \notin Nothings
          /\ "lookup" \notin Builds /\ "metadata" \notin Builds /\ "barrier" \notin Builds
          /\ "lookup" \notin Builders /\ "metadata" \notin Builders /\ "barrier" \notin Builders
          /\ "lookup" \notin Loads /\ "metadata" \notin Loads /\ "barrier" \notin Loads
          /\ "lookup" \notin Finds /\ "metadata" \notin Finds /\ "barrier" \notin Finds
          /\ "lookup" \notin Creates /\ "metadata" \notin Creates /\ "barrier" \notin Creates
          /\ "lookup" \notin Writers /\ "metadata" \notin Writers /\ "barrier" \notin Writers
          /\ "lookup" \in Fallibles /\ "metadata" \in Fallibles /\ "barrier" \notin Fallibles
     BY DEF Initializes, Restores, DDPs, Downloads, Barriers, Nothings, Builds, Builders, Loads,
       Finds, Creates, Writers, Fallibles
  <1>h. ~Has(c, Initializes, p) /\ ~Has(c, Restores, p) /\ ~Has(c, DDPs, p)
    BY <1>m, <1>dLookup, <1>dMetadata, <1>dBarrier, <1>core, <1>a, <1>b, <1>c DEF One, Sane, Cat
  <1>1. Sane(c, p)
     BY Lacking, <1>m, <1>dLookup, <1>dMetadata, <1>dBarrier, <1>core, <1>a, <1>b, <1>c DEF One,
       Sane, Cat
  <1>2. t.kept = "none" => IF Origin(t.section) = "family" THEN EndsWith(c, Creates, Writers, p)
                               ELSE EndsWith(c, Loads, Writers, p)
     BY <1>0, <1>m, <1>dLookup, <1>dMetadata, <1>dBarrier, <1>core, <1>a, <1>b, <1>c DEF One, Sane,
       Cat
  <1>3. Followed(c, Fallibles, Barriers, p)
    BY <1>m, <1>dLookup, <1>dMetadata, <1>dBarrier, <1>core, <1>a, <1>b, <1>c DEF One, Sane, Cat
  <1>4. Has(c, Fallibles, p)
    BY <1>m, <1>dLookup, <1>dMetadata, <1>dBarrier, <1>core, <1>a, <1>b, <1>c DEF One, Sane, Cat
  <1>6. TrainModel(t) = c
    BY DEF TrainModel, SaveMetadata, dLookup, dMetadata, dBarrier, core, a, b, c
  <1> QED
    BY <1>1, <1>2, <1>3, <1>4, <1>6, <1>h

\* Wrapping writes nothing of its own, and leaves no part on the meta device.
LEMMA ShardFlow ==
    ASSUME NEW t \in Tasks, NEW q \in (SUBSET Parts) \ {{}}, NEW p \in Parts
    PROVE  LET u == ShardParts(t, q)
           IN  /\ u \in Seq(Instructions)
               /\ \A W : "initialize" \notin W /\ "broadcast" \notin W => ~Has(u, W, p)
               /\ p \in q => EndsWith(u, Wraps, Builders, p)
               /\ p \in q /\ t.kept = "none" => EndsWith(u, Broadcasts, Writers, p)
               /\ p \notin q => \A W : ~Has(u, W, p)
  <1>0. (t.kept = "none") \in BOOLEAN
    OBVIOUS
  <1> DEFINE a == On("initialize", q)
  <1> DEFINE b == On("broadcast", q)
  <1>a. IF p \in q THEN One(a, "initialize", p) ELSE Option(a, FALSE, a, p)
    BY OnLaw, OnOthers DEF Kinds
  <1>b. IF p \in q THEN One(b, "broadcast", p) ELSE Option(b, FALSE, b, p)
    BY OnLaw, OnOthers DEF Kinds
  <1> HIDE DEF a, b
  <1> DEFINE c == If(t.kept = "none", b)
  <1>c. Option(c, t.kept = "none", b, p)
    BY <1>0, <1>b, IfLaw DEF One, Option
  <1> HIDE DEF c
  <1> DEFINE u == a \o c
  <1>u. Cat(u, a, c, p)
    BY <1>a, <1>c, CatLaw DEF One, Option
  <1> HIDE DEF u
  <1>m. /\ "initialize" \in Wraps /\ "broadcast" \notin Wraps /\ "broadcast" \notin Builders
        /\ "broadcast" \in Broadcasts
    BY DEF Wraps, Builders, Broadcasts
  <1>1. \A W : "initialize" \notin W /\ "broadcast" \notin W => ~Has(u, W, p)
    BY <1>a, <1>b, <1>c, <1>u DEF One, Option, Cat
  <1>2. p \notin q => \A W : ~Has(u, W, p)
    BY <1>a, <1>b, <1>c, <1>u DEF One, Option, Cat
  <1>3. p \in q => EndsWith(u, Wraps, Builders, p)
    BY <1>a, <1>b, <1>c, <1>u, <1>m DEF One, Option, Cat
  <1>4. p \in q /\ t.kept = "none" => EndsWith(u, Broadcasts, Writers, p)
    BY <1>a, <1>b, <1>c, <1>u, <1>m DEF One, Option, Cat
  <1>5. ShardParts(t, q) = u
    BY DEF ShardParts, u, a, b, c
  <1> QED
    BY <1>1, <1>2, <1>3, <1>4, <1>5, <1>u DEF Cat

\* Where replicas are wrapped by DDP.
Replicated(t) == SizeOf(t, "dp") # 1 /\ (t.layout.parallelism = "ddp" \/ SizeOf(t, "sdp") = 1)

Wrapping(u, t, p) ==
    /\ u \in Seq(Instructions)
    /\ \A W : {"toDevice", "prepareDDP", "broadcastDDP", "initialize", "broadcast"} \cap W = {}
                  => ~Has(u, W, p)
    /\ EndsWith(u, Wraps, Builders, p)
    /\ t.kept = "none" /\ SizeOf(t, "dp") # 1 => EndsWith(u, Broadcasts, Writers, p)
    /\ Has(u, DDPs, p) => Replicated(t)

LEMMA WrapFlow ==
    ASSUME NEW t \in Tasks, NEW p \in Parts
    PROVE  Wrapping(WrapModel(t), t, p)
  <1> DEFINE u == WrapModel(t)
  <1> SUFFICES Wrapping(u, t, p)
    OBVIOUS
  <1>m. /\ "toDevice" \in Wraps /\ "prepareDDP" \in Wraps /\ "broadcastDDP" \notin Builders
        /\ "broadcastDDP" \in Broadcasts /\ "toDevice" \notin DDPs
        /\ "initialize" \notin Builders /\ "broadcast" \notin Builders
        /\ "initialize" \notin Writers /\ "broadcast" \notin Writers
        /\ "initialize" \notin DDPs /\ "broadcast" \notin DDPs
    BY DEF Wraps, Builders, Broadcasts, DDPs, Writers
  <1>1. CASE SizeOf(t, "dp") = 1
    <2>1. u = Do("toDevice")
      BY <1>1 DEF WrapModel
    <2> HIDE DEF u
    <2>2. One(u, "toDevice", p)
      BY <2>1, DoLaw DEF Kinds
    <2>c1. u \in Seq(Instructions)
      BY <1>1, <2>2, <1>m DEF One
    <2>c2. ASSUME NEW W,
                  {"toDevice", "prepareDDP", "broadcastDDP", "initialize", "broadcast"} \cap W = {}
           PROVE  ~Has(u, W, p)
      BY <2>c2, <1>1, <2>2, <1>m DEF One
    <2>c3. EndsWith(u, Wraps, Builders, p)
      BY <1>1, <2>2, <1>m DEF One
    <2>c4. t.kept = "none" /\ SizeOf(t, "dp") # 1 => EndsWith(u, Broadcasts, Writers, p)
      BY <1>1, <2>2, <1>m DEF One
    <2>c5. Has(u, DDPs, p) => Replicated(t)
      BY <1>1, <2>2, <1>m DEF One
    <2> QED
      BY <2>c1, <2>c2, <2>c3, <2>c4, <2>c5 DEF Wrapping
  <1>2. CASE Replicated(t)
    <2> DEFINE a == Do("prepareDDP")
    <2> DEFINE b == Do("broadcastDDP")
    <2>1. u = a \o b
      BY <1>2 DEF WrapModel, WithDDP, Replicated
    <2>2. One(a, "prepareDDP", p) /\ One(b, "broadcastDDP", p)
      BY DoLaw DEF Kinds
    <2> HIDE DEF u, a, b
    <2>3. Cat(u, a, b, p)
      BY <2>1, <2>2, CatLaw DEF One
    <2>c1. u \in Seq(Instructions)
      BY <1>2, <2>2, <2>3, <1>m DEF One, Cat
    <2>c2. ASSUME NEW W,
                  {"toDevice", "prepareDDP", "broadcastDDP", "initialize", "broadcast"} \cap W = {}
           PROVE  ~Has(u, W, p)
      BY <2>c2, <1>2, <2>2, <2>3, <1>m DEF One, Cat
    <2>c3. EndsWith(u, Wraps, Builders, p)
      BY <1>2, <2>2, <2>3, <1>m DEF One, Cat
    <2>c4. t.kept = "none" /\ SizeOf(t, "dp") # 1 => EndsWith(u, Broadcasts, Writers, p)
      BY <1>2, <2>2, <2>3, <1>m DEF One, Cat
    <2>c5. Has(u, DDPs, p) => Replicated(t)
      BY <1>2, <2>2, <2>3, <1>m DEF One, Cat
    <2> QED
      BY <2>c1, <2>c2, <2>c3, <2>c4, <2>c5 DEF Wrapping
  <1>3. CASE SizeOf(t, "dp") # 1 /\ ~Replicated(t) /\ t.whole
    <2>1. u = ShardParts(t, Parts)
      BY <1>3 DEF WrapModel, WithFSDP, Replicated
    <2> HIDE DEF u
    <2>2. Parts \in (SUBSET Parts) \ {{}}
      BY DEF Parts
    <2> DEFINE q == Parts
    <2>4. q \in (SUBSET Parts) \ {{}} /\ p \in q /\ u = ShardParts(t, q)
      BY <2>1, <2>2
    <2> HIDE DEF q
    <2>3. /\ u \in Seq(Instructions)
          /\ \A W : "initialize" \notin W /\ "broadcast" \notin W => ~Has(u, W, p)
          /\ EndsWith(u, Wraps, Builders, p)
          /\ t.kept = "none" => EndsWith(u, Broadcasts, Writers, p)
      BY <2>4, ShardFlow
    <2>c1. u \in Seq(Instructions)
      BY <1>3, <2>3, <1>m
    <2>c2. ASSUME NEW W,
                  {"toDevice", "prepareDDP", "broadcastDDP", "initialize", "broadcast"} \cap W = {}
           PROVE  ~Has(u, W, p)
      BY <2>c2, <1>3, <2>3, <1>m
    <2>c3. EndsWith(u, Wraps, Builders, p)
      BY <1>3, <2>3, <1>m
    <2>c4. t.kept = "none" /\ SizeOf(t, "dp") # 1 => EndsWith(u, Broadcasts, Writers, p)
      BY <1>3, <2>3, <1>m
    <2>c5. Has(u, DDPs, p) => Replicated(t)
      BY <1>3, <2>3, <1>m
    <2> QED
      BY <2>c1, <2>c2, <2>c3, <2>c4, <2>c5 DEF Wrapping
  <1>4. CASE SizeOf(t, "dp") # 1 /\ ~Replicated(t) /\ ~t.whole
    <2> DEFINE a == ShardParts(t, {"layers"})
    <2> DEFINE b == ShardParts(t, {"root"})
    <2>1. u = a \o b
      BY <1>4 DEF WrapModel, WithFSDP, Replicated
    <2>2. {"layers"} \in (SUBSET Parts) \ {{}} /\ {"root"} \in (SUBSET Parts) \ {{}}
      BY DEF Parts
    <2>3. p \in {"layers"} \/ p \in {"root"}
      BY DEF Parts
    <2>4. p \in {"layers"} => p \notin {"root"}
      OBVIOUS
    <2>5. /\ a \in Seq(Instructions)
          /\ \A W : "initialize" \notin W /\ "broadcast" \notin W => ~Has(a, W, p)
          /\ p \in {"layers"} => EndsWith(a, Wraps, Builders, p)
          /\ p \in {"layers"} /\ t.kept = "none" => EndsWith(a, Broadcasts, Writers, p)
          /\ p \notin {"layers"} => \A W : ~Has(a, W, p)
      BY <2>2, ShardFlow
    <2>6. /\ b \in Seq(Instructions)
          /\ \A W : "initialize" \notin W /\ "broadcast" \notin W => ~Has(b, W, p)
          /\ p \in {"root"} => EndsWith(b, Wraps, Builders, p)
          /\ p \in {"root"} /\ t.kept = "none" => EndsWith(b, Broadcasts, Writers, p)
          /\ p \notin {"root"} => \A W : ~Has(b, W, p)
      BY <2>2, ShardFlow
    <2> HIDE DEF u, a, b
    <2>7. Cat(u, a, b, p)
      BY <2>1, <2>5, <2>6, CatLaw
    <2>8. EndsWith(u, Wraps, Builders, p)
      BY <2>3, <2>4, <2>5, <2>6, <2>7, <1>m DEF Cat
    <2>9. t.kept = "none" => EndsWith(u, Broadcasts, Writers, p)
      BY <2>3, <2>4, <2>5, <2>6, <2>7, <1>m DEF Cat
    <2>10. \A W : "initialize" \notin W /\ "broadcast" \notin W => ~Has(u, W, p)
      BY <2>5, <2>6, <2>7 DEF Cat
    <2>c1. u \in Seq(Instructions)
      BY <1>4, <2>7, <2>8, <2>9, <2>10, <1>m DEF Cat
    <2>c2. ASSUME NEW W,
                  {"toDevice", "prepareDDP", "broadcastDDP", "initialize", "broadcast"} \cap W = {}
           PROVE  ~Has(u, W, p)
      BY <2>c2, <1>4, <2>7, <2>8, <2>9, <2>10, <1>m DEF Cat
    <2>c3. EndsWith(u, Wraps, Builders, p)
      BY <1>4, <2>7, <2>8, <2>9, <2>10, <1>m DEF Cat
    <2>c4. t.kept = "none" /\ SizeOf(t, "dp") # 1 => EndsWith(u, Broadcasts, Writers, p)
      BY <1>4, <2>7, <2>8, <2>9, <2>10, <1>m DEF Cat
    <2>c5. Has(u, DDPs, p) => Replicated(t)
      BY <1>4, <2>7, <2>8, <2>9, <2>10, <1>m DEF Cat
    <2> QED
      BY <2>c1, <2>c2, <2>c3, <2>c4, <2>c5 DEF Wrapping
  <1> QED
    BY <1>1, <1>2, <1>3, <1>4 DEF Replicated

\* What holds of every program, part by part.
Safe(P, t, p) ==
    /\ Sane(P, p) /\ Has(P, Fallibles, p)
    /\ ~t.onMeta => Followed(P, Fallibles, Barriers, p)
    /\ t.kept = "none" => Prepared(P, Initializes, Sources, Writers, p)
    /\ Prepared(P, Restores, Wraps, Builders, p)
    /\ Has(P, DDPs, p) => t.task = "train" /\ Replicated(t)

\* What a program ends with.
Finished(P, t, p) ==
    /\ t.task = "train" /\ t.kept = "full" => EndsWith(P, Restores, WriteSends, p)
    /\ t.task = "train" /\ t.kept = "none" =>
          /\ IF Origin(t.section) = "family" THEN EndsWith(P, Creates, Writers, p) ELSE EndsWith(P, Loads, Writers, p)
          /\ SizeOf(t, "dp") # 1 => EndsWith(P, Broadcasts, Writers, p)
    /\ t.task = "reference" =>
          /\ EndsWith(P, Loads, Writers, p)
          /\ SizeOf(t, "dp") > 1 => EndsWith(P, Broadcasts, Writers, p)
    /\ t.task \in {"load", "custom"} =>
          /\ EndsWith(P, Loads, Writers, p)
          /\ ~t.rank0only => EndsWith(P, Broadcasts, Writers, p)
    /\ t.task = "create" =>
          IF t.onMeta THEN P = Do("createOnMeta")
          ELSE /\ EndsWith(P, Creates, Writers, p)
               /\ ~t.meta => EndsWith(P, Creates, WriteSends, p)
               /\ t.meta /\ ~t.rank0only => EndsWith(P, Broadcasts, Writers, p)

LEMMA TrainFlow ==
    ASSUME NEW t \in Tasks, t.task = "train", NEW p \in Parts
    PROVE  Safe(Program(t), t, p) /\ Finished(Program(t), t, p)
  <1>0. (t.kept = "full") \in BOOLEAN /\ t.kept \in {"none", "full"}
    BY TaskAssumption
  <1> DEFINE k == TrainModel(t)
  <1> DEFINE x == WrapModel(t)
  <1>k. /\ Sane(k, p) /\ ~Has(k, Initializes, p) /\ ~Has(k, Restores, p) /\ ~Has(k, DDPs, p)
        /\ Followed(k, Fallibles, Barriers, p) /\ Has(k, Fallibles, p)
        /\ t.kept = "none" => IF Origin(t.section) = "family" THEN EndsWith(k, Creates, Writers, p)
                              ELSE EndsWith(k, Loads, Writers, p)
    BY TrainModelFlow
  <1>x. Wrapping(x, t, p)
    BY WrapFlow
  <1> HIDE DEF k, x
  <1> DEFINE dRestore == Do("restore")
  <1>dRestore. One(dRestore, "restore", p)
    BY DoLaw DEF Kinds
  <1> HIDE DEF dRestore
  <1> DEFINE dBarrier == Do("barrier")
  <1>dBarrier. One(dBarrier, "barrier", p)
    BY DoLaw DEF Kinds
  <1> HIDE DEF dBarrier
  <1> DEFINE a == dRestore \o dBarrier
  <1>a. Cat(a, dRestore, dBarrier, p)
    BY <1>dRestore, <1>dBarrier, CatLaw DEF One
  <1> HIDE DEF a
  <1> DEFINE b == If((t.kept = "full"), a)
  <1>b. Option(b, (t.kept = "full"), a, p)
    BY <1>0, <1>a, IfLaw DEF Cat
  <1> HIDE DEF b
  <1>l. ~Has(x, Finds, p) /\ ~Has(x, Fallibles, p) /\ ~Has(x, Loads, p) /\ ~Has(x, Restores, p) /\ ~Has(x, Writers, p)
        /\ ~Has(x, Downloads, p) /\ ~Has(x, Builds, p) /\ ~Has(x, Creates, p) /\ ~Has(x, Sources, p) /\ ~Has(x, Nothings, p)
     BY <1>x DEF Wrapping, Finds, Fallibles, Loads, Restores, Writers, Downloads, Builds, Creates,
       Sources, Nothings
  <1> DEFINE y == k \o x
  <1>y. Cat(y, k, x, p)
    BY <1>k, <1>x, CatLaw DEF Sane, Wrapping
  <1> HIDE DEF y
  <1> DEFINE P == y \o b
  <1>p. Cat(P, y, b, p)
    BY <1>y, <1>b, CatLaw DEF Cat, Option
  <1> HIDE DEF P
  <1>m. /\ "restore" \notin Finds /\ "barrier" \notin Finds /\ "restore" \notin Downloads
          /\ "barrier" \notin Downloads /\ "restore" \notin Nothings /\ "barrier" \notin Nothings
          /\ "restore" \notin Barriers /\ "barrier" \in Barriers /\ "restore" \notin Loads
          /\ "barrier" \notin Loads /\ "restore" \notin Builds /\ "barrier" \notin Builds
          /\ "restore" \notin Builders /\ "barrier" \notin Builders /\ "restore" \in Fallibles
          /\ "barrier" \notin Fallibles /\ "restore" \notin Initializes /\ "barrier" \notin Initializes
          /\ "restore" \notin Sources /\ "barrier" \notin Sources /\ "restore" \in Writers
          /\ "barrier" \notin Writers /\ "restore" \in Restores /\ "barrier" \notin Restores
          /\ "restore" \notin Wraps /\ "barrier" \notin Wraps /\ "restore" \notin DDPs
          /\ "barrier" \notin DDPs /\ "restore" \in WriteSends /\ "barrier" \notin WriteSends
          /\ "restore" \notin Broadcasts /\ "barrier" \notin Broadcasts /\ "restore" \notin Creates
          /\ "barrier" \notin Creates
     BY DEF Finds, Downloads, Nothings, Barriers, Loads, Builds, Builders, Fallibles, Initializes,
       Sources, Writers, Restores, Wraps, DDPs, WriteSends, Broadcasts, Creates
  <1>1. Sane(P, p)
     BY <1>x, Lacking, <1>m, <1>dRestore, <1>dBarrier, <1>a, <1>b, <1>k, <1>l, <1>y, <1>p DEF One,
       Cat, Option, Sane
  <1>2. Has(P, Fallibles, p)
    BY <1>m, <1>dRestore, <1>dBarrier, <1>a, <1>b, <1>k, <1>l, <1>y, <1>p DEF One, Cat, Option
  <1>3a. Followed(y, Fallibles, Barriers, p)
     BY Lacking, <1>m, <1>dRestore, <1>dBarrier, <1>a, <1>b, <1>k, <1>l, <1>y, <1>p DEF One, Cat,
       Option
  <1>3b. Followed(b, Fallibles, Barriers, p)
    BY <1>m, <1>dRestore, <1>dBarrier, <1>a, <1>b, <1>k, <1>l, <1>y, <1>p DEF One, Cat, Option
  <1>3. Followed(P, Fallibles, Barriers, p)
     BY <1>3a, <1>3b, <1>m, <1>dRestore, <1>dBarrier, <1>a, <1>b, <1>k, <1>l, <1>y, <1>p DEF One,
       Cat, Option
  <1>4. ASSUME t.kept = "none" PROVE Prepared(P, Initializes, Sources, Writers, p)
    <2>1. EndsWith(k, Sources, Writers, p)
      BY <1>4, <1>k DEF Sources, Creates, Loads, EndsWith, EndsBefore, Hits
    <2>2. Relies(x, Initializes, Sources, Writers, p)
      BY <1>l, Lacking
    <2>3. Prepared(k, Initializes, Sources, Writers, p)
      BY <1>k, Lacking
    <2>4. Prepared(y, Initializes, Sources, Writers, p)
      BY <2>1, <2>2, <2>3, <1>y DEF Cat
    <2>5. Prepared(b, Initializes, Sources, Writers, p)
      BY <1>b, <1>4 DEF Option
    <2> QED
      BY <2>4, <2>5, <1>p DEF Cat
  <1>5. Prepared(P, Restores, Wraps, Builders, p)
    <2>1. Prepared(y, Restores, Wraps, Builders, p)
      BY <1>k, <1>l, <1>y, Lacking DEF Cat
    <2>2. EndsWith(y, Wraps, Builders, p)
      BY <1>x, <1>y DEF Cat, Wrapping
    <2>3. Relies(b, Restores, Wraps, Builders, p)
      BY <1>m, <1>dRestore, <1>dBarrier, <1>a, <1>b DEF One, Cat, Option
    <2> QED
      BY <2>1, <2>2, <2>3, <1>p DEF Cat
  <1>6. Has(P, DDPs, p) => Replicated(t)
     BY <1>m, <1>x, <1>k, <1>y, <1>p, <1>dRestore, <1>dBarrier, <1>a, <1>b DEF One, Cat, Option,
       Wrapping
  <1>7. t.kept = "full" => EndsWith(P, Restores, WriteSends, p)
    BY <1>m, <1>p, <1>dRestore, <1>dBarrier, <1>a, <1>b DEF One, Cat, Option
  <1>8. ~Has(b, Writers, p) \/ t.kept = "full"
    BY <1>b DEF Option
  <1>9. t.kept = "none" /\ Origin(t.section) = "family" => EndsWith(P, Creates, Writers, p)
    BY <1>k, <1>l, <1>y, <1>p, <1>8 DEF Cat
  <1>10. t.kept = "none" /\ Origin(t.section) # "family" => EndsWith(P, Loads, Writers, p)
    BY <1>k, <1>l, <1>y, <1>p, <1>8 DEF Cat
  <1>11. t.kept = "none" /\ SizeOf(t, "dp") # 1 => EndsWith(P, Broadcasts, Writers, p)
    BY <1>x, <1>l, <1>y, <1>p, <1>8 DEF Cat, Wrapping
  <1>12. Program(t) = P
    BY DEF Program, RestoreModel, dRestore, dBarrier, a, b, k, x, y, P
  <1>13. Safe(P, t, p)
    BY <1>1, <1>2, <1>3, <1>4, <1>5, <1>6 DEF Safe
  <1>14. Finished(P, t, p)
    BY <1>7, <1>9, <1>10, <1>11 DEF Finished
  <1> QED
    BY <1>12, <1>13, <1>14

LEMMA ReferenceFlow ==
    ASSUME NEW t \in Tasks, t.task = "reference", NEW p \in Parts
    PROVE  Safe(Program(t), t, p) /\ Finished(Program(t), t, p)
  <1>0. (SizeOf(t, "dp") > 1) \in BOOLEAN
    OBVIOUS
  <1> DEFINE dLookup == Do("lookup")
  <1>dLookup. One(dLookup, "lookup", p)
    BY DoLaw DEF Kinds
  <1> HIDE DEF dLookup
  <1> DEFINE dBarrier == Do("barrier")
  <1>dBarrier. One(dBarrier, "barrier", p)
    BY DoLaw DEF Kinds
  <1> HIDE DEF dBarrier
  <1> DEFINE dBroadcast == Do("broadcast")
  <1>dBroadcast. One(dBroadcast, "broadcast", p)
    BY DoLaw DEF Kinds
  <1> HIDE DEF dBroadcast
  <1> DEFINE a == If((SizeOf(t, "dp") > 1), dBroadcast)
  <1>a. Option(a, (SizeOf(t, "dp") > 1), dBroadcast, p)
    BY <1>0, <1>dBroadcast, IfLaw DEF One
  <1> HIDE DEF a
  <1> DEFINE core == (IF Origin(t.section) = "path" THEN LoadCustomModel(t, TRUE) \o dBarrier
                     ELSE LoadModel(t, TRUE))
  <1>core0. Brings(core, Loads, p) /\ Followed(core, Fallibles, Barriers, p)
    <2>1. CASE Origin(t.section) = "path"
      <3> DEFINE e == DoLoad(t, TRUE)
      <3>1. Brings(e, Loads, p) /\ Followed(e, Fallibles, Barriers, p)
        BY DoLoadFlow
      <3>2. core = e \o dBarrier
        BY <2>1 DEF LoadCustomModel
      <3> HIDE DEF e, core
      <3>3. Cat(core, e, dBarrier, p)
        BY <3>1, <3>2, <1>dBarrier, CatLaw DEF Brings, Sane, One
      <3>m. /\ "barrier" \notin Finds /\ "barrier" \notin Loads /\ "barrier" \notin Initializes
            /\ "barrier" \notin Restores /\ "barrier" \notin DDPs /\ "barrier" \notin Writers
            /\ "barrier" \notin Fallibles
        BY DEF Finds, Loads, Initializes, Restores, DDPs, Writers, Fallibles
      <3>4. Sane(core, p)
        BY <3>1, <3>3, <3>m, <1>dBarrier DEF Sane, Brings, Cat, One
      <3>5. ~Has(core, Initializes, p) /\ ~Has(core, Restores, p) /\ ~Has(core, DDPs, p)
        BY <3>1, <3>3, <3>m, <1>dBarrier DEF Brings, Cat, One
      <3>6. EndsWith(core, Loads, Writers, p) /\ Followed(core, Fallibles, Barriers, p)
        BY <3>1, <3>3, <3>m, <1>dBarrier DEF Brings, Cat, One
      <3> QED
        BY <3>4, <3>5, <3>6 DEF Brings
    <2>2. CASE Origin(t.section) # "path"
      <3>1. core = LoadModel(t, TRUE)
        BY <2>2
      <3> HIDE DEF core
      <3> QED
        BY <3>1, LoadFlow
    <2> QED
      BY <2>1, <2>2
  <1>core. Brings(core, Loads, p) /\ Followed(core, Fallibles, Barriers, p) /\ Has(core, Barriers, p)
    BY <1>core0, LoadsToBarrier DEF Brings
  <1> HIDE DEF core
  <1> DEFINE b == dLookup \o core
  <1>b. Cat(b, dLookup, core, p)
    BY <1>dLookup, <1>core, CatLaw DEF One, Brings, Sane
  <1> HIDE DEF b
  <1> DEFINE c == b \o a
  <1>c. Cat(c, b, a, p)
    BY <1>b, <1>a, CatLaw DEF Cat, Option
  <1> HIDE DEF c
  <1>m. /\ "lookup" \notin Initializes /\ "barrier" \notin Initializes /\ "broadcast" \notin Initializes
          /\ "lookup" \notin Restores /\ "barrier" \notin Restores /\ "broadcast" \notin Restores
          /\ "lookup" \notin DDPs /\ "barrier" \notin DDPs /\ "broadcast" \notin DDPs
          /\ "lookup" \notin Downloads /\ "barrier" \notin Downloads /\ "broadcast" \notin Downloads
          /\ "lookup" \notin Barriers /\ "barrier" \in Barriers /\ "broadcast" \notin Barriers
          /\ "lookup" \notin Nothings /\ "barrier" \notin Nothings /\ "broadcast" \notin Nothings
          /\ "lookup" \notin Builds /\ "barrier" \notin Builds /\ "broadcast" \notin Builds
          /\ "lookup" \notin Builders /\ "barrier" \notin Builders /\ "broadcast" \notin Builders
          /\ "lookup" \notin Loads /\ "barrier" \notin Loads /\ "broadcast" \notin Loads
          /\ "lookup" \notin Finds /\ "barrier" \notin Finds /\ "broadcast" \notin Finds
          /\ "lookup" \notin Writers /\ "barrier" \notin Writers /\ "broadcast" \notin Writers
          /\ "lookup" \in Fallibles /\ "barrier" \notin Fallibles /\ "broadcast" \notin Fallibles
          /\ "lookup" \notin Broadcasts /\ "barrier" \notin Broadcasts /\ "broadcast" \in Broadcasts
     BY DEF Initializes, Restores, DDPs, Downloads, Barriers, Nothings, Builds, Builders, Loads,
       Finds, Writers, Fallibles, Broadcasts
  <1>h. ~Has(c, Initializes, p) /\ ~Has(c, Restores, p) /\ ~Has(c, DDPs, p)
     BY <1>0, <1>m, <1>dLookup, <1>dBarrier, <1>dBroadcast, <1>a, <1>core, <1>b, <1>c DEF One,
       Option, Brings, Cat
  <1>1. Sane(c, p)
     BY Lacking, <1>0, <1>m, <1>dLookup, <1>dBarrier, <1>dBroadcast, <1>a, <1>core, <1>b, <1>c DEF
       One, Option, Brings, Cat, Sane
  <1>2. Has(c, Fallibles, p)
     BY <1>0, Lacking, <1>m, <1>dLookup, <1>dBarrier, <1>dBroadcast, <1>a, <1>core, <1>b, <1>c DEF
       One, Option, Brings, Cat
  <1>3. Followed(c, Fallibles, Barriers, p)
     BY <1>0, Lacking, <1>m, <1>dLookup, <1>dBarrier, <1>dBroadcast, <1>a, <1>core, <1>b, <1>c DEF
       One, Option, Brings, Cat
  <1>6. Safe(c, t, p)
    BY <1>1, <1>2, <1>3, <1>h, Lacking DEF Safe
  <1>7. Program(t) = c
    BY DEF Program, ReferenceModel, dLookup, dBarrier, dBroadcast, a, core, b, c
  <1>4. EndsWith(c, Loads, Writers, p)
     BY <1>0, <1>m, <1>dLookup, <1>dBarrier, <1>dBroadcast, <1>a, <1>core, <1>b, <1>c DEF One,
       Option, Brings, Cat
  <1>5. SizeOf(t, "dp") > 1 => EndsWith(c, Broadcasts, Writers, p)
     BY <1>0, <1>m, <1>dLookup, <1>dBarrier, <1>dBroadcast, <1>a, <1>core, <1>b, <1>c DEF One,
       Option, Brings, Cat
  <1>8. Finished(c, t, p)
    BY <1>4, <1>5 DEF Finished
  <1> QED
    BY <1>6, <1>7, <1>8

LEMMA DatasetFlow ==
    ASSUME NEW t \in Tasks, t.task = "dataset", NEW p \in Parts
    PROVE  Safe(Program(t), t, p) /\ Finished(Program(t), t, p)
  <1> DEFINE dLookup == Do("lookup")
  <1>dLookup. One(dLookup, "lookup", p)
    BY DoLaw DEF Kinds
  <1> HIDE DEF dLookup
  <1> DEFINE dOpen == Do("open")
  <1>dOpen. One(dOpen, "open", p)
    BY DoLaw DEF Kinds
  <1> HIDE DEF dOpen
  <1> DEFINE dBarrier == Do("barrier")
  <1>dBarrier. One(dBarrier, "barrier", p)
    BY DoLaw DEF Kinds
  <1> HIDE DEF dBarrier
  <1> DEFINE a == dLookup \o dOpen
  <1>a. Cat(a, dLookup, dOpen, p)
    BY <1>dLookup, <1>dOpen, CatLaw DEF One
  <1> HIDE DEF a
  <1> DEFINE b == a \o dBarrier
  <1>b. Cat(b, a, dBarrier, p)
    BY <1>a, <1>dBarrier, CatLaw DEF Cat, One
  <1> HIDE DEF b
  <1>m. /\ "lookup" \notin Initializes /\ "open" \notin Initializes /\ "barrier" \notin Initializes
          /\ "lookup" \notin Restores /\ "open" \notin Restores /\ "barrier" \notin Restores
          /\ "lookup" \notin DDPs /\ "open" \notin DDPs /\ "barrier" \notin DDPs
          /\ "lookup" \notin Downloads /\ "open" \notin Downloads /\ "barrier" \notin Downloads
          /\ "lookup" \notin Barriers /\ "open" \notin Barriers /\ "barrier" \in Barriers
          /\ "lookup" \notin Nothings /\ "open" \notin Nothings /\ "barrier" \notin Nothings
          /\ "lookup" \notin Builds /\ "open" \notin Builds /\ "barrier" \notin Builds
          /\ "lookup" \notin Builders /\ "open" \notin Builders /\ "barrier" \notin Builders
          /\ "lookup" \notin Loads /\ "open" \notin Loads /\ "barrier" \notin Loads
          /\ "lookup" \notin Finds /\ "open" \notin Finds /\ "barrier" \notin Finds
          /\ "lookup" \notin Writers /\ "open" \notin Writers /\ "barrier" \notin Writers
          /\ "lookup" \in Fallibles /\ "open" \in Fallibles /\ "barrier" \notin Fallibles
          /\ "lookup" \notin Broadcasts /\ "open" \notin Broadcasts /\ "barrier" \notin Broadcasts
     BY DEF Initializes, Restores, DDPs, Downloads, Barriers, Nothings, Builds, Builders, Loads,
       Finds, Writers, Fallibles, Broadcasts
  <1>h. ~Has(b, Initializes, p) /\ ~Has(b, Restores, p) /\ ~Has(b, DDPs, p)
    BY <1>m, <1>dLookup, <1>dOpen, <1>dBarrier, <1>a, <1>b DEF One, Cat
  <1>1. Sane(b, p)
    BY Lacking, <1>m, <1>dLookup, <1>dOpen, <1>dBarrier, <1>a, <1>b DEF One, Cat, Sane
  <1>2. Has(b, Fallibles, p)
    BY Lacking, <1>m, <1>dLookup, <1>dOpen, <1>dBarrier, <1>a, <1>b DEF One, Cat
  <1>3. Followed(b, Fallibles, Barriers, p)
    BY Lacking, <1>m, <1>dLookup, <1>dOpen, <1>dBarrier, <1>a, <1>b DEF One, Cat
  <1>6. Safe(b, t, p)
    BY <1>1, <1>2, <1>3, <1>h, Lacking DEF Safe
  <1>7. Program(t) = b
    BY DEF Program, OpenDataset, dLookup, dOpen, dBarrier, a, b
  <1>8. Finished(b, t, p)
    BY DEF Finished
  <1> QED
    BY <1>6, <1>7, <1>8

\* A family loads a model with or without looking it up first.
LEMMA BroughtFlow ==
    ASSUME NEW t \in Tasks, t.task \in {"load", "custom"}, NEW p \in Parts, NEW u,
           Brings(u, Loads, p), Followed(u, Fallibles, Barriers, p),
           ~t.rank0only => EndsWith(u, Broadcasts, Writers, p)
    PROVE  Safe(u, t, p) /\ Finished(u, t, p)
  <1>1. Has(u, Fallibles, p)
    BY LoadsToBarrier DEF Brings
  <1>2. Safe(u, t, p)
    BY <1>1, Lacking DEF Safe, Brings
  <1>3. Finished(u, t, p)
    BY DEF Finished, Brings
  <1> QED
    BY <1>2, <1>3

LEMMA HubFlow ==
    ASSUME NEW t \in Tasks, t.task \in {"load", "custom"}, NEW p \in Parts
    PROVE  Safe(Program(t), t, p) /\ Finished(Program(t), t, p)
  <1>0. t.rank0only \in BOOLEAN
    BY TaskAssumption
  <1>1. CASE t.task = "custom"
    <2> DEFINE u == DoLoad(t, t.rank0only)
    <2>1. Program(t) = u
      BY <1>1 DEF Program, HubLoadCustom, LoadCustomModel
    <2>2. /\ Brings(u, Loads, p) /\ Followed(u, Fallibles, Barriers, p)
          /\ ~t.rank0only => EndsWith(u, Broadcasts, Writers, p)
      BY <1>0, DoLoadFlow
    <2> HIDE DEF u
    <2> QED
      BY <2>1, <2>2, BroughtFlow
  <1>2. CASE t.task = "load"
    <2> DEFINE a == Do("lookup")
    <2> DEFINE b == LoadModel(t, t.rank0only)
    <2> DEFINE u == a \o b
    <2>1. Program(t) = u
      BY <1>2 DEF Program, HubLoad, GlobalLoad
    <2>2. /\ Brings(b, Loads, p) /\ Followed(b, Fallibles, Barriers, p)
          /\ ~t.rank0only => EndsWith(b, Broadcasts, Writers, p)
      BY <1>0, LoadFlow
    <2>3. One(a, "lookup", p)
      BY DoLaw DEF Kinds
    <2>m. /\ "lookup" \notin Finds /\ "lookup" \notin Loads /\ "lookup" \notin Initializes
          /\ "lookup" \notin Restores /\ "lookup" \notin DDPs
      BY DEF Finds, Loads, Initializes, Restores, DDPs
    <2> HIDE DEF a, b
    <2>4. Cat(u, a, b, p)
      BY <2>2, <2>3, CatLaw DEF Brings, Sane, One
    <2>b. Has(b, Barriers, p)
      BY <2>2, LoadsToBarrier DEF Brings
    <2> HIDE DEF u
    <2>5. Sane(u, p)
      BY <2>2, <2>3, <2>4, <2>m DEF Sane, Brings, Cat, One
    <2>6. ~Has(u, Initializes, p) /\ ~Has(u, Restores, p) /\ ~Has(u, DDPs, p)
      BY <2>2, <2>3, <2>4, <2>m DEF Brings, Cat, One
    <2>7. /\ EndsWith(u, Loads, Writers, p) /\ Followed(u, Fallibles, Barriers, p)
          /\ ~t.rank0only => EndsWith(u, Broadcasts, Writers, p)
      BY <2>2, <2>3, <2>4, <2>b DEF Brings, Cat
    <2>8. Brings(u, Loads, p)
      BY <2>5, <2>6, <2>7 DEF Brings
    <2> QED
      BY <2>1, <2>7, <2>8, BroughtFlow
  <1> QED
    BY <1>1, <1>2

LEMMA CreatedFlow ==
    ASSUME NEW t \in Tasks, t.task = "create", NEW p \in Parts
    PROVE  Safe(Program(t), t, p) /\ Finished(Program(t), t, p)
  <1>0. t.rank0only \in BOOLEAN /\ t.meta \in BOOLEAN /\ t.onMeta \in BOOLEAN
    BY TaskAssumption
  <1> DEFINE u == CreateNewModel(t, t.onMeta, t.rank0only)
  <1>1. Program(t) = u
    BY DEF Program, HubCreate
  <1>2. CASE t.onMeta
    <2>1. u = CreateNewModel(t, TRUE, t.rank0only)
      BY <1>0, <1>2
    <2> HIDE DEF u
    <2>2. /\ u = Do("createOnMeta") /\ Sane(u, p) /\ ~Has(u, Initializes, p) /\ ~Has(u, Restores, p) /\ ~Has(u, DDPs, p)
      BY <2>1, <1>0, CreateOnMetaFlow
    <2>3. Has(u, Fallibles, p)
      BY <2>2, DoLaw DEF One, Kinds, Fallibles
    <2>4. Safe(u, t, p)
      BY <1>2, <2>2, <2>3, Lacking DEF Safe
    <2>5. Finished(u, t, p)
      BY <1>2, <2>2 DEF Finished
    <2> QED
      BY <1>1, <2>4, <2>5
  <1>3. CASE ~t.onMeta
    <2>1. u = CreateNewModel(t, FALSE, t.rank0only)
      BY <1>0, <1>3
    <2> HIDE DEF u
    <2>2. /\ Brings(u, Creates, p) /\ ~Has(u, Finds, p) /\ ~Has(u, Loads, p)
          /\ Followed(u, Fallibles, Barriers, p)
          /\ ~t.rank0only /\ t.meta => EndsWith(u, Broadcasts, Writers, p)
          /\ t.rank0only \/ ~t.meta => EndsWith(u, Creates, WriteSends, p)
      BY <2>1, <1>0, CreateFlow
    <2>3. Has(u, Fallibles, p)
      <3>1. Has(u, Creates, p)
        BY <2>2, Lacking DEF Brings
      <3> QED
        BY <3>1 DEF Has, Hits, Creates, Fallibles
    <2>4. Safe(u, t, p)
      BY <1>3, <2>2, <2>3, Lacking DEF Safe, Brings
    <2>5. Finished(u, t, p)
      BY <1>3, <2>2 DEF Finished, Brings
    <2> QED
      BY <1>1, <2>4, <2>5
  <1> QED
    BY <1>0, <1>2, <1>3

\* Every program of every task.
LEMMA Programs ==
    ASSUME NEW t \in Tasks, NEW p \in Parts
    PROVE  Safe(Program(t), t, p) /\ Finished(Program(t), t, p)
  <1>1. t.task \in {"train", "reference", "load", "custom", "create", "dataset"}
    BY TaskAssumption
  <1> QED
    BY <1>1, TrainFlow, ReferenceFlow, HubFlow, CreatedFlow, DatasetFlow

-----------------------------------------------------------------------------
(***************************************************************************)
(* The gangs.                                                              *)
(***************************************************************************)
Team(t) == RanksOf(EffectiveLayout(t))
GangAt(t, kind, r) == AllGangs[EffectiveLayout(t)][r][kind]
Meetings == {"root", "dp", "rdp"}

LEMMA LayoutOK ==
    ASSUME NEW t \in Tasks
    PROVE  /\ EffectiveLayout(t) \in Layouts /\ Accepted(EffectiveLayout(t))
           /\ \A kind : \A r \in Team(t) : GangAt(t, kind, r) = GangsOf(EffectiveLayout(t), r)[kind]
           /\ 0 \in Team(t) /\ Team(t) \subseteq Nat
  <1> DEFINE l == EffectiveLayout(t)
  <1>1. l \in Layouts /\ Accepted(l)
    <2>1. CASE t.gangs
      BY <2>1, TaskAssumption DEF EffectiveLayout, Layouts
    <2>2. CASE ~t.gangs
      <3>1. l = [size |-> 1, tp |-> 1, parallelism |-> "ddp", local |-> 1]
        BY <2>2 DEF EffectiveLayout, Alone
      <3> HIDE DEF l
      <3>2. l \in Layouts /\ l.size = 1 /\ l.tp = 1 /\ l.parallelism = "ddp"
        BY <3>1 DEF Layouts
      <3>3. 1 % 1 = 0
        OBVIOUS
      <3> QED
        BY <3>2, <3>3 DEF Accepted
    <2> QED
      BY <2>1, <2>2
  <1>2. l \in {u.layout : u \in Tasks} \cup {Alone}
    BY DEF EffectiveLayout
  <1>3. \A r \in RanksOf(l) : AllGangs[l][r] = GangsOf(l, r)
    BY <1>2 DEF AllGangs
  <1>4. l.size \in Nat \ {0}
    BY <1>1 DEF Layouts
  <1> HIDE DEF l
  <1>5. 0 \in RanksOf(l) /\ RanksOf(l) \subseteq Nat
    BY <1>4 DEF RanksOf
  <1> QED
    BY <1>1, <1>3, <1>5 DEF l, Team, GangAt

\* Every member of a gang has the same one, and its first member is the one of rank 0.
GangLike(g, r, t, kind) ==
    /\ \E n \in Nat \ {0} : DOMAIN g = 1..n
    /\ Range(g) \subseteq Team(t) /\ r \in Range(g) /\ g[1] \in Range(g)
    /\ \A q \in Range(g) : GangAt(t, kind, q) = g
    /\ \A i, j \in DOMAIN g : g[i] = g[j] => i = j
    /\ kind = "root" => Range(g) = Team(t)

LEMMA GangFacts ==
    ASSUME NEW t \in Tasks, NEW kind \in Meetings, NEW r \in Team(t)
    PROVE  GangLike(GangAt(t, kind, r), r, t, kind)
  <1> DEFINE l == EffectiveLayout(t)
  <1> DEFINE g == GangAt(t, kind, r)
  <1>0. /\ l \in Layouts /\ Accepted(l) /\ r \in RanksOf(l) /\ RanksOf(l) = 0..(l.size - 1)
        /\ \A q \in RanksOf(l) : GangAt(t, kind, q) = GangsOf(l, q)[kind]
        /\ l.size \in Nat \ {0} /\ l.tp \in Nat \ {0} /\ l.local \in Nat \ {0}
        /\ l.size % l.tp = 0 /\ (l.parallelism = "hybrid" => l.size % l.local = 0)
        /\ Team(t) = RanksOf(l)
    <2>1. l \in Layouts /\ Accepted(l)
      BY LayoutOK
    <2>2. \A q \in Team(t) : GangAt(t, kind, q) = GangsOf(l, q)[kind]
      BY LayoutOK
    <2> HIDE DEF l
    <2>3. Team(t) = RanksOf(l)
      BY DEF Team, l
    <2> QED
      BY <2>1, <2>2, <2>3 DEF Layouts, Accepted, RanksOf
  <1> HIDE DEF l
  <1>1. ASSUME NEW k \in Nat \ {0}, l.size % k = 0,
               \A q \in RanksOf(l) : GangAt(t, kind, q) = MeshColumn(l.size, k, q % k), kind # "root"
        PROVE  GangLike(g, r, t, kind)
    <2>1. g = MeshColumn(l.size, k, r % k)
      BY <1>0, <1>1
    <2> HIDE DEF g
    <2>2. /\ l.size \div k \in Nat \ {0} /\ DOMAIN g = 1..(l.size \div k)
          /\ \A c \in DOMAIN g : g[c] \in 0..(l.size - 1) /\ g[c] % k = r % k
          /\ \E c \in DOMAIN g : g[c] = r
          /\ \A c, d \in DOMAIN g : g[c] = g[d] => c = d
      <3> DEFINE n == l.size
      <3>1. n \in Nat \ {0} /\ n % k = 0 /\ r \in 0..(n - 1) /\ g = MeshColumn(n, k, r % k)
        BY <1>0, <1>1, <2>1
      <3> HIDE DEF n
      <3> DEFINE h == MeshColumn(n, k, r % k)
      <3>2. /\ n \div k \in Nat \ {0} /\ DOMAIN h = 1..(n \div k)
            /\ \A c \in DOMAIN h : h[c] \in 0..(n - 1) /\ h[c] % k = r % k
            /\ \E c \in DOMAIN h : h[c] = r
            /\ \A c, d \in DOMAIN h : h[c] = h[d] => c = d
        BY <3>1, Column
      <3>3. g = h
        BY <3>1
      <3> HIDE DEF h
      <3> QED
        BY <3>2, <3>3 DEF n
    <2>3. Range(g) \subseteq Team(t) /\ r \in Range(g) /\ g[1] \in Range(g)
      <3>1. 1 \in DOMAIN g
        BY <2>2
      <3>2. \A c \in DOMAIN g : g[c] \in Team(t)
        BY <2>2, <1>0
      <3>3. \E c \in DOMAIN g : g[c] = r
        BY <2>2
      <3> QED
        BY <3>1, <3>2, <3>3 DEF Range
    <2>4. ASSUME NEW q \in Range(g) PROVE GangAt(t, kind, q) = g
      <3>1. q \in RanksOf(l) /\ q % k = r % k
        BY <1>0, <2>2 DEF Range
      <3> QED
        BY <1>1, <2>1, <3>1
    <2> QED
      BY <1>1, <2>2, <2>3, <2>4 DEF GangLike
  <1>2. CASE kind = "root"
    <2>1. \A q \in RanksOf(l) : GangAt(t, kind, q) = MeshRow(l.size, 0)
      BY <1>0, <1>2, GangIs
    <2>2. g = MeshRow(l.size, 0)
      BY <1>0, <2>1
    <2>3. DOMAIN g = 1..l.size /\ \A c \in 1..l.size : g[c] = c - 1
      <3>1. \A c \in 1..l.size : 0 * l.size + c - 1 = c - 1
        BY <1>0
      <3> HIDE DEF g
      <3> QED
        BY <2>2, <3>1, <1>0 DEF MeshRow
    <2> HIDE DEF g
    <2>4. Range(g) = RanksOf(l)
      <3>1. \A q \in 0..(l.size - 1) : q + 1 \in 1..l.size /\ g[q + 1] = q
        BY <1>0, <2>3
      <3>2. \A c \in 1..l.size : g[c] \in 0..(l.size - 1)
        BY <1>0, <2>3
      <3>3. \A q \in RanksOf(l) : \E c \in DOMAIN g : g[c] = q
        BY <1>0, <2>3, <3>1
      <3>4. \A c \in DOMAIN g : g[c] \in RanksOf(l)
        BY <1>0, <2>3, <3>2
      <3> QED
        BY <3>3, <3>4 DEF Range
    <2>5. 1 \in DOMAIN g /\ \A i, j \in DOMAIN g : g[i] = g[j] => i = j
      BY <1>0, <2>3
    <2>6. g[1] \in Range(g)
      BY <2>5 DEF Range
    <2>7. \A q \in Range(g) : GangAt(t, kind, q) = g
      BY <2>1, <2>2, <2>4
    <2> QED
      BY <1>0, <2>3, <2>4, <2>5, <2>6, <2>7 DEF GangLike, g
  <1>3. CASE kind = "dp"
    <2>1. \A q \in RanksOf(l) : GangAt(t, kind, q) = MeshColumn(l.size, l.tp, q % l.tp)
      BY <1>0, <1>3, GangIs
    <2> QED
      BY <1>0, <1>1, <1>3, <2>1
  <1>4. CASE kind = "rdp" /\ l.parallelism = "fsdp"
    <2>1. \A q \in RanksOf(l) : GangAt(t, kind, q) = <<q>>
      BY <1>0, <1>4, GangIs
    <2>2. g = <<r>>
      BY <1>0, <2>1
    <2> HIDE DEF g
    <2>3. DOMAIN g = 1..1 /\ g[1] = r
      BY <2>2
    <2>4. Range(g) = {r}
      BY <2>3 DEF Range
    <2>5. (\E n \in Nat \ {0} : DOMAIN g = 1..n) /\ \A i, j \in DOMAIN g : g[i] = g[j] => i = j
      BY <2>3
    <2>6. \A q \in Range(g) : GangAt(t, kind, q) = g
      BY <2>1, <2>2, <2>4, <1>0
    <2> QED
      BY <1>0, <1>4, <2>3, <2>4, <2>5, <2>6 DEF GangLike, g
  <1>5. CASE kind = "rdp" /\ l.parallelism = "hybrid"
    <2>1. \A q \in RanksOf(l) : GangAt(t, kind, q) = MeshColumn(l.size, l.local, q % l.local)
      BY <1>0, <1>5, GangIs
    <2> QED
      BY <1>0, <1>1, <1>5, <2>1
  <1>6. CASE kind = "rdp" /\ l.parallelism \notin {"fsdp", "hybrid"}
    <2>1. \A q \in RanksOf(l) : GangAt(t, kind, q) = MeshColumn(l.size, l.tp, q % l.tp)
      BY <1>0, <1>6, GangIs
    <2> QED
      BY <1>0, <1>1, <1>6, <2>1
  <1>7. CASE kind = "rdp"
    BY <1>4, <1>5, <1>6, <1>7
  <1> QED
    BY <1>2, <1>3, <1>7 DEF Meetings

\* The rank of a member is its position less one.
LEMMA FirstRank ==
    ASSUME NEW t \in Tasks, NEW kind \in Meetings, NEW r \in Team(t)
    PROVE  RankIn(GangAt(t, kind, r), r) = 0 <=> GangAt(t, kind, r)[1] = r
  <1> DEFINE g == GangAt(t, kind, r)
  <1>1. GangLike(g, r, t, kind)
    BY GangFacts
  <1> HIDE DEF g
  <1>2. PICK i \in DOMAIN g : g[i] = r
    BY <1>1 DEF GangLike, Range
  <1>3. \A j \in DOMAIN g : g[j] = r => j = i
    BY <1>1, <1>2 DEF GangLike
  <1>4. RankIn(g, r) = i - 1
    BY <1>2, <1>3 DEF RankIn
  <1>5. i \in Nat /\ 1 \in DOMAIN g
    BY <1>1, <1>2 DEF GangLike
  <1>6. i - 1 = 0 <=> i = 1
    BY <1>5
  <1> QED
    BY <1>2, <1>3, <1>4, <1>5, <1>6 DEF g

\* DDP's own gang is the data parallel gang.
LEMMA DDPGang ==
    ASSUME NEW t \in Tasks, NEW r \in Team(t), Replicated(t)
    PROVE  GangAt(t, "rdp", r) = GangAt(t, "dp", r)
  <1> DEFINE l == EffectiveLayout(t)
  <1>0. l \in Layouts /\ Accepted(l) /\ 0 \in RanksOf(l) /\ r \in RanksOf(l)
        /\ \A kind : \A q \in RanksOf(l) : GangAt(t, kind, q) = GangsOf(l, q)[kind]
    BY LayoutOK DEF Team
  <1>1. SizeOf(t, "dp") = Len(GangsOf(l, 0)["dp"]) /\ SizeOf(t, "sdp") = Len(GangsOf(l, 0)["sdp"])
    BY <1>0 DEF SizeOf, GangAt
  <1>2. CASE ~t.gangs
    <2>1. l.parallelism = "ddp"
      BY <1>2 DEF EffectiveLayout, Alone
    <2> HIDE DEF l
    <2> QED
      BY <1>0, <2>1, GangIs
  <1>3. CASE t.gangs
    <2>0. l = t.layout
      BY <1>3 DEF EffectiveLayout
    <2> HIDE DEF l
    <2>5. /\ GangAt(t, "rdp", r) = GangsOf(l, r)["rdp"]
          /\ GangAt(t, "dp", r) = GangsOf(l, r)["dp"]
      BY ONLY <1>0
    <2>6. /\ GangsOf(l, r)["dp"] = MeshColumn(l.size, l.tp, r % l.tp)
          /\ l.parallelism = "ddp" => GangsOf(l, r)["rdp"] = GangsOf(l, r)["dp"]
          /\ l.parallelism = "hybrid" =>
                GangsOf(l, r)["rdp"] = MeshColumn(l.size, l.local, r % l.local)
      BY ONLY <1>0, GangIs
    <2>1. CASE l.parallelism = "ddp"
      BY ONLY <2>1, <2>5, <2>6
    <2>2. CASE l.parallelism = "fsdp"
      <3>1. SizeOf(t, "sdp") = SizeOf(t, "dp")
        BY <1>0, <1>1, <2>2, GangIs
      <3> QED
        BY <2>0, <2>2, <3>1 DEF Replicated
    <2>3. CASE l.parallelism = "hybrid" /\ l.local = 1
      <3>1. l.tp = 1
        BY <1>0, <2>3 DEF Accepted
      <3>2. MeshColumn(l.size, l.local, r % l.local) = MeshColumn(l.size, l.tp, r % l.tp)
        BY ONLY <2>3, <3>1
      <3> QED
        BY ONLY <2>3, <2>5, <2>6, <3>2
    <2>4. CASE l.parallelism = "hybrid" /\ l.local # 1
      <3>1. SizeOf(t, "sdp") = l.local
        BY <1>0, <1>1, <2>4, GangIs
      <3> QED
        BY <2>0, <2>4, <3>1 DEF Replicated
    <2> QED
      BY <1>0, <2>1, <2>2, <2>3, <2>4 DEF Layouts
  <1>4. t.gangs \in BOOLEAN
    BY TaskAssumption
  <1> QED
    BY <1>2, <1>3, <1>4
-----------------------------------------------------------------------------
(***************************************************************************)
(* Where the ranks are in their program.                                   *)
(***************************************************************************)
\* The position in program P of which s is left.
At(P, s) == Len(P) - Len(s) + 1

Suffix(P, s) ==
    /\ s \in Seq(Instructions) /\ Len(s) <= Len(P)
    /\ \A i \in 1..Len(s) : s[i] = P[At(P, s) + i - 1]

Outcomes == {"running", "ready", "failed"}

\* A rank that is ready has nothing left to do, any other has.
PlaceOK ==
    /\ task \in Tasks /\ failures \in Nat
    /\ todo \in [Team(task) -> Seq(Instructions)] /\ outcome \in [Team(task) -> Outcomes]
    /\ \A r \in Team(task) : Suffix(Program(task), todo[r]) /\ (outcome[r] = "ready" <=> Len(todo[r]) = 0)

\* A rank is beyond a collective only if its gang is.
SyncOK ==
    \A r, q \in Team(task), i \in DOMAIN Program(task) :
        /\ Program(task)[i].do \in DOMAIN Collectives
        /\ q \in Range(GangAt(task, Collectives[Program(task)[i].do], r))
        /\ At(Program(task), todo[r]) > i
        => At(Program(task), todo[q]) > i

\* What has been downloaded is in the cache.
CacheOK ==
    \A i \in DOMAIN Program(task) :
        Program(task)[i].do = "download" /\ At(Program(task), todo[0]) > i => cached

\* Some rank that failed stands before a barrier, for good.
StuckOK ==
    (\E q \in Team(task) : outcome[q] = "failed") =>
        /\ failures > 0
        /\ ~task.onMeta =>
              \E q \in Team(task), j \in DOMAIN Program(task) :
                  /\ outcome[q] = "failed" /\ Program(task)[j].do = "barrier"
                  /\ At(Program(task), todo[q]) <= j

LEMMA ProgramIs ==
    ASSUME NEW t \in Tasks
    PROVE  /\ Program(t) \in Seq(Instructions) /\ Len(Program(t)) \in Nat \ {0}
           /\ DOMAIN Program(t) = 1..Len(Program(t))
           /\ \A i \in DOMAIN Program(t) :
                 /\ Program(t)[i].do \in Kinds
                 /\ \E p \in Parts : p \in Program(t)[i].on
  <1> DEFINE P == Program(t)
  <1>1. "root" \in Parts
    BY DEF Parts
  <1>2. P \in Seq(Instructions) /\ Has(P, Fallibles, "root")
    BY <1>1, Programs DEF Safe, Sane
  <1> HIDE DEF P
  <1>3. Len(P) \in Nat /\ DOMAIN P = 1..Len(P) /\ \A i \in DOMAIN P : P[i] \in Instructions
    BY <1>2
  <1>4. Len(P) # 0
    BY <1>2, <1>3 DEF Has
  <1>5. \A x \in Instructions : x.do \in Kinds /\ x.on \in (SUBSET Parts) \ {{}}
    BY DEF Instructions
  <1>6. \A i \in DOMAIN P : P[i].do \in Kinds /\ \E p \in Parts : p \in P[i].on
    <2> SUFFICES ASSUME NEW i \in DOMAIN P PROVE P[i].do \in Kinds /\ \E p \in Parts : p \in P[i].on
      OBVIOUS
    <2>1. P[i].do \in Kinds /\ P[i].on \in (SUBSET Parts) \ {{}}
      BY <1>3, <1>5
    <2> QED
      BY <2>1
  <1> QED
    BY <1>2, <1>3, <1>4, <1>6 DEF P

\* The next step of a suffix, and what is left after it.
LEMMA NextStep ==
    ASSUME NEW P \in Seq(Instructions), NEW s, Suffix(P, s), Len(s) > 0
    PROVE  /\ Len(s) \in Nat /\ Len(P) \in Nat /\ At(P, s) \in DOMAIN P
           /\ Head(s) = P[At(P, s)] /\ Head(s).do \in Kinds
           /\ Suffix(P, Tail(s)) /\ Len(Tail(s)) = Len(s) - 1
           /\ At(P, Tail(s)) = At(P, s) + 1
  <1> DEFINE n == At(P, s)
  <1>1. /\ s \in Seq(Instructions) /\ Len(s) <= Len(P) /\ Len(s) \in Nat /\ Len(P) \in Nat
        /\ \A i \in 1..Len(s) : s[i] = P[n + i - 1]
    BY DEF Suffix
  <1>2. n = Len(P) - Len(s) + 1
    BY DEF At
  <1>3. n \in DOMAIN P
    BY <1>1, <1>2
  <1>4. Head(s) = P[n]
    <2>1. Head(s) = s[1] /\ 1 \in 1..Len(s)
      BY <1>1
    <2>2. s[1] = P[n + 1 - 1] /\ n + 1 - 1 = n
      BY <1>1, <1>2, <2>1
    <2> QED
      BY <2>1, <2>2
  <1>5. P[n] \in Instructions
    BY <1>3
  <1>6. P[n].do \in Kinds
    BY <1>5 DEF Instructions
  <1>7. /\ Tail(s) \in Seq(Instructions) /\ Len(Tail(s)) = Len(s) - 1
        /\ \A i \in 1..(Len(s) - 1) : Tail(s)[i] = s[i + 1]
    BY <1>1
  <1>8. At(P, Tail(s)) = n + 1
    BY <1>1, <1>2, <1>7 DEF At
  <1>9. ASSUME NEW i \in 1..(Len(s) - 1) PROVE Tail(s)[i] = P[(n + 1) + i - 1]
    <2>1. i + 1 \in 1..Len(s) /\ n + (i + 1) - 1 = (n + 1) + i - 1
      BY <1>1, <1>2
    <2>2. s[i + 1] = P[n + (i + 1) - 1]
      BY <1>1, <2>1
    <2> QED
      BY <1>7, <2>1, <2>2
  <1> HIDE DEF n
  <1>10. Suffix(P, Tail(s))
    BY <1>1, <1>7, <1>8, <1>9 DEF Suffix
  <1> QED
    BY <1>1, <1>3, <1>4, <1>6, <1>7, <1>8, <1>10 DEF n

\* All of S make the step at position n.
Passes(S, n) ==
    /\ S \subseteq Team(task) /\ S # {} /\ n \in DOMAIN Program(task)
    /\ task' = task /\ failures' = failures
    /\ \A q \in S : outcome[q] = "running" /\ At(Program(task), todo[q]) = n
    /\ todo' = [r \in Team(task) |-> IF r \in S THEN Tail(todo[r]) ELSE todo[r]]
    /\ outcome' = [r \in Team(task) |->
                      IF r \in S /\ Len(todo[r]) = 1 THEN "ready" ELSE outcome[r]]
    /\ Program(task)[n].do \in DOMAIN Collectives =>
          \A r \in S : S = Range(GangAt(task, Collectives[Program(task)[n].do], r))

\* r fails.
Fails(r) ==
    /\ r \in Team(task) /\ outcome[r] = "running"
    /\ task' = task /\ todo' = todo
    /\ outcome' = [outcome EXCEPT ![r] = "failed"]

LEMMA MovesAt ==
    ASSUME PlaceOK, NEW S, NEW n, Passes(S, n)
    PROVE  /\ PlaceOK'
           /\ n \in Nat
           /\ \A r \in Team(task) :
                /\ At(Program(task), todo[r]) \in Nat
                /\ At(Program(task), todo'[r]) = IF r \in S THEN n + 1 ELSE At(Program(task), todo[r])
                /\ outcome'[r] = "failed" <=> outcome[r] = "failed"
  <1> DEFINE P == Program(task)
  <1> DEFINE T == Team(task)
  <1>0. /\ task \in Tasks /\ P \in Seq(Instructions) /\ n \in DOMAIN P /\ S \subseteq T
        /\ DOMAIN P = 1..Len(P) /\ Len(P) \in Nat
    BY ProgramIs DEF PlaceOK, Passes
  <1>1. /\ \A r \in T : Suffix(P, todo[r]) /\ (outcome[r] = "ready" <=> Len(todo[r]) = 0)
        /\ \A r \in T : outcome[r] \in Outcomes /\ todo[r] \in Seq(Instructions)
    BY DEF PlaceOK
  <1>2. \A q \in S : outcome[q] = "running" /\ At(P, todo[q]) = n
    BY DEF Passes
  <1>3. /\ \A r \in T : todo'[r] = IF r \in S THEN Tail(todo[r]) ELSE todo[r]
        /\ \A r \in T : outcome'[r] = IF r \in S /\ Len(todo[r]) = 1 THEN "ready" ELSE outcome[r]
        /\ task' = task /\ failures' = failures
        /\ DOMAIN todo' = T /\ DOMAIN outcome' = T
        /\ todo' = [r \in T |-> todo'[r]] /\ outcome' = [r \in T |-> outcome'[r]]
    BY DEF Passes
  <1> HIDE DEF P, T
  <1>4. ASSUME NEW r \in T, r \in S
        PROVE  /\ Suffix(P, todo'[r]) /\ At(P, todo'[r]) = n + 1
               /\ (outcome'[r] = "ready" <=> Len(todo'[r]) = 0)
               /\ outcome'[r] \in Outcomes /\ todo'[r] \in Seq(Instructions)
               /\ (outcome'[r] = "failed" <=> outcome[r] = "failed")
    <2>1. Len(todo[r]) # 0 /\ Len(todo[r]) \in Nat
      <3>1. Len(todo[r]) \in Nat
        BY <1>1
      <3> QED
        BY <1>1, <1>2, <1>4, <3>1
    <2>2. /\ Suffix(P, Tail(todo[r])) /\ Len(Tail(todo[r])) = Len(todo[r]) - 1
          /\ At(P, Tail(todo[r])) = At(P, todo[r]) + 1
      BY <1>0, <1>1, <2>1, NextStep
    <2>3. todo'[r] = Tail(todo[r]) /\ outcome[r] = "running"
          /\ outcome'[r] = IF Len(todo[r]) = 1 THEN "ready" ELSE "running"
      BY <1>2, <1>3, <1>4
    <2>4. outcome'[r] = "ready" <=> Len(todo'[r]) = 0
      BY <2>1, <2>2, <2>3
    <2>5. Tail(todo[r]) \in Seq(Instructions)
      BY <2>2 DEF Suffix
    <2>6. At(P, todo[r]) = n
      BY <1>2, <1>4
    <2>7. outcome'[r] \in Outcomes /\ outcome'[r] # "failed"
      BY <2>3 DEF Outcomes
    <2> QED
      BY <2>2, <2>3, <2>4, <2>5, <2>6, <2>7
  <1>5. ASSUME NEW r \in T, r \notin S
        PROVE  todo'[r] = todo[r] /\ outcome'[r] = outcome[r]
    BY <1>3, <1>5
  <1>6. n \in Nat /\ \A r \in T : At(P, todo[r]) \in Nat
    <2>1. \A r \in T : Len(todo[r]) \in Nat /\ Len(todo[r]) <= Len(P)
      BY <1>1 DEF Suffix
    <2> QED
      BY <1>0, <2>1 DEF At
  <1>7. PlaceOK'
    <2>1. task' \in Tasks /\ failures' \in Nat
      BY <1>3 DEF PlaceOK
    <2>2. Team(task') = T /\ Program(task') = P
      BY <1>3 DEF T, P
    <2>3. \A r \in T : todo'[r] \in Seq(Instructions) /\ outcome'[r] \in Outcomes
      BY <1>1, <1>4, <1>5
    <2>4. todo' \in [T -> Seq(Instructions)] /\ outcome' \in [T -> Outcomes]
      BY <1>3, <2>3
    <2>5. \A r \in T : Suffix(P, todo'[r]) /\ (outcome'[r] = "ready" <=> Len(todo'[r]) = 0)
      BY <1>1, <1>4, <1>5
    <2> QED
      BY <2>1, <2>2, <2>4, <2>5 DEF PlaceOK
  <1>8. \A r \in T : At(P, todo'[r]) = IF r \in S THEN n + 1 ELSE At(P, todo[r])
    BY <1>4, <1>5
  <1>9. \A r \in T : outcome'[r] = "failed" <=> outcome[r] = "failed"
    BY <1>4, <1>5
  <1> QED
    BY <1>6, <1>7, <1>8, <1>9 DEF P, T

LEMMA MovesKeep ==
    ASSUME PlaceOK, SyncOK, StuckOK, NEW S, NEW n, Passes(S, n)
    PROVE  SyncOK' /\ StuckOK'
  <1> DEFINE P == Program(task)
  <1> DEFINE T == Team(task)
  <1> DEFINE a(r) == At(P, todo[r])
  <1>0. /\ task \in Tasks /\ DOMAIN P = 1..Len(P) /\ Len(P) \in Nat
        /\ \A i \in DOMAIN P : P[i].do \in Kinds
    BY ProgramIs DEF PlaceOK
  <1>1. /\ n \in Nat /\ \A r \in T : a(r) \in Nat
        /\ \A r \in T : At(P, todo'[r]) = IF r \in S THEN n + 1 ELSE a(r)
        /\ \A r \in T : outcome'[r] = "failed" <=> outcome[r] = "failed"
    BY MovesAt
  <1>2. /\ task' = task /\ failures' = failures /\ S \subseteq T
        /\ \A q \in S : a(q) = n /\ outcome[q] = "running"
        /\ P[n].do \in DOMAIN Collectives =>
              \A r \in S : S = Range(GangAt(task, Collectives[P[n].do], r))
    BY DEF Passes
  <1>3. SyncOK'
    <2> SUFFICES ASSUME NEW r \in T, NEW q \in T, NEW i \in DOMAIN P,
                        P[i].do \in DOMAIN Collectives,
                        q \in Range(GangAt(task, Collectives[P[i].do], r)),
                        At(P, todo'[r]) > i
                 PROVE  At(P, todo'[q]) > i
      BY <1>2 DEF SyncOK
    <2> DEFINE g == GangAt(task, Collectives[P[i].do], r)
    <2>0. i \in Nat /\ q \in Range(g)
      BY <1>0
    <2>1. ASSUME a(r) > i PROVE At(P, todo'[q]) > i
      <3>1. a(q) > i
        BY <2>1 DEF SyncOK
      <3> HIDE DEF a
      <3> QED
        BY <3>1, <1>1, <1>2, <2>0
    <2>2. ASSUME ~(a(r) > i) PROVE At(P, todo'[q]) > i
      <3>1. r \in S /\ n + 1 > i /\ a(r) = n
        <4> HIDE DEF a
        <4> QED
          BY <2>2, <1>1, <1>2, <2>0
      <3>2. i = n
        <4> HIDE DEF a
        <4> QED
          BY <3>1, <2>0, <1>1, <2>2
      <3>3. S = Range(g)
        BY <1>2, <3>1, <3>2
      <3>4. q \in S
        BY <3>3
      <3> HIDE DEF a, g
      <3> QED
        BY <3>2, <3>4, <1>1, <2>0
    <2> QED
      BY <2>1, <2>2
  <1>4. StuckOK'
    <2> SUFFICES ASSUME NEW q \in T, outcome'[q] = "failed"
                 PROVE  /\ failures' > 0
                        /\ ~task.onMeta => \E x \in T, j \in DOMAIN P :
                              outcome'[x] = "failed" /\ P[j].do = "barrier" /\ At(P, todo'[x]) <= j
      BY <1>2 DEF StuckOK
    <2>1. outcome[q] = "failed"
      BY <1>1
    <2>2. failures > 0
      BY <2>1 DEF StuckOK
    <2>3. ASSUME ~task.onMeta
          PROVE  \E x \in T, j \in DOMAIN P :
                              outcome'[x] = "failed" /\ P[j].do = "barrier" /\ At(P, todo'[x]) <= j
      <3>1. PICK x \in T, j \in DOMAIN P : outcome[x] = "failed" /\ P[j].do = "barrier" /\ a(x) <= j
        BY <2>1, <2>3 DEF StuckOK
      <3>2. outcome'[x] = "failed" /\ x \notin S
        BY <1>1, <1>2, <3>1
      <3>3. At(P, todo'[x]) = a(x)
        BY <1>1, <3>2
      <3> QED
        BY <3>1, <3>2, <3>3
    <2> QED
      BY <2>2, <2>3, <1>2
  <1> QED
    BY <1>3, <1>4

-----------------------------------------------------------------------------
(***************************************************************************)
(* What the ranks hold.                                                    *)
(***************************************************************************)
\* r is the first of its data parallel gang.
IsFirst(t, r) == RankIn(GangAt(t, "dp", r), r) = 0

\* What m, part p of the model of rank r, is when r has come to position n of its
\* program: who wrote it, from what was done to it.
Right(t, r, n, m, p) ==
    /\ m = Part(m.weights, m.table)
    /\ m.weights # Meta => m.table = Set
    /\ ~t.meta /\ EndsBefore(Program(t), n, Builds, Builders, p) => m.weights # Meta
    /\ EndsBefore(Program(t), n, Wraps, Builders, p) => m.weights # Meta
    /\ IsFirst(t, r) \/ EndsBefore(Program(t), n, Broadcasts, Writers, p) =>
          /\ EndsBefore(Program(t), n, Loads, Writers, p) => m.weights = Pretrained
          /\ EndsBefore(Program(t), n, Creates, Writers, p) =>
                m.weights = Own(GangAt(t, "dp", r)[1])
    /\ ~t.meta /\ EndsBefore(Program(t), n, Creates, WriteSends, p) => m.weights = Own(r)
    /\ EndsBefore(Program(t), n, Restores, WriteSends, p) => m.weights = Kept
    /\ Program(t) = Do("createOnMeta") => m = Part(Meta, Meta)

HeldOK ==
    /\ DOMAIN held = Team(task)
    /\ \A r \in Team(task), p \in Parts :
          Right(task, r, At(Program(task), todo[r]), held[r][p], p)

LEMMA Distinct ==
    /\ \A w, x : Part(w, x).weights = w /\ Part(w, x).table = x
    /\ Meta # Junk0 /\ Meta # Pretrained /\ Meta # Kept
    /\ \A r : Own(r) # Meta
  BY DEF Part, Meta, Junk0, Pretrained, Kept, Own

\* One step further.
LEMMA EndsNext ==
    ASSUME NEW P \in Seq(Instructions), NEW n \in DOMAIN P, NEW W, NEW C, NEW p
    PROVE  EndsBefore(P, n + 1, W, C, p) <=>
               Hits(P[n], W, p) \/ (EndsBefore(P, n, W, C, p) /\ ~Hits(P[n], C, p))
  <1>0. DOMAIN P = 1..Len(P) /\ Len(P) \in Nat /\ n \in Nat
    OBVIOUS
  <1>1. ASSUME EndsBefore(P, n + 1, W, C, p), ~Hits(P[n], W, p)
        PROVE  EndsBefore(P, n, W, C, p) /\ ~Hits(P[n], C, p)
    <2>1. PICK i \in DOMAIN P : /\ i < n + 1 /\ Hits(P[i], W, p)
                                /\ \A k \in DOMAIN P : i < k /\ k < n + 1 => ~Hits(P[k], C, p)
      BY <1>1 DEF EndsBefore
    <2>2. i # n
      BY <1>1, <2>1
    <2>3. i < n /\ n < n + 1
      BY <1>0, <2>1, <2>2
    <2>4. \A k \in DOMAIN P : k < n => k < n + 1
      BY <1>0
    <2> QED
      BY <2>1, <2>3, <2>4 DEF EndsBefore
  <1>2. ASSUME Hits(P[n], W, p) PROVE EndsBefore(P, n + 1, W, C, p)
    <2>1. n < n + 1 /\ \A k \in DOMAIN P : ~(n < k /\ k < n + 1)
      BY <1>0
    <2> QED
      BY <1>2, <2>1 DEF EndsBefore
  <1>3. ASSUME EndsBefore(P, n, W, C, p), ~Hits(P[n], C, p)
        PROVE  EndsBefore(P, n + 1, W, C, p)
    <2>1. PICK i \in DOMAIN P : /\ i < n /\ Hits(P[i], W, p)
                                /\ \A k \in DOMAIN P : i < k /\ k < n => ~Hits(P[k], C, p)
      BY <1>3 DEF EndsBefore
    <2>2. i < n + 1
      BY <1>0, <2>1
    <2>3. \A k \in DOMAIN P : k < n + 1 => k < n \/ k = n
      BY <1>0
    <2> QED
      BY <1>3, <2>1, <2>2, <2>3 DEF EndsBefore
  <1> QED
    BY <1>1, <1>2, <1>3

\* What Right asks after a step of kind x on part p.
Stage(t, r, n, x, m, p) ==
    /\ m = Part(m.weights, m.table)
    /\ m.weights # Meta => m.table = Set
    /\ ~t.meta /\ (\/ x \in Builds
                   \/ x \notin Builders /\ EndsBefore(Program(t), n, Builds, Builders, p))
          => m.weights # Meta
    /\ (\/ x \in Wraps
        \/ x \notin Builders /\ EndsBefore(Program(t), n, Wraps, Builders, p))
          => m.weights # Meta
    /\ \/ IsFirst(t, r)
       \/ x \in Broadcasts
       \/ x \notin Writers /\ EndsBefore(Program(t), n, Broadcasts, Writers, p)
       => /\ (\/ x \in Loads
              \/ x \notin Writers /\ EndsBefore(Program(t), n, Loads, Writers, p))
                => m.weights = Pretrained
          /\ (\/ x \in Creates
              \/ x \notin Writers /\ EndsBefore(Program(t), n, Creates, Writers, p))
                => m.weights = Own(GangAt(t, "dp", r)[1])
    /\ ~t.meta /\ (\/ x \in Creates
                   \/ x \notin WriteSends /\ EndsBefore(Program(t), n, Creates, WriteSends, p))
          => m.weights = Own(r)
    /\ (\/ x \in Restores
        \/ x \notin WriteSends /\ EndsBefore(Program(t), n, Restores, WriteSends, p))
          => m.weights = Kept
    /\ Program(t) = Do("createOnMeta") => m = Part(Meta, Meta)

LEMMA StageIsRight ==
    ASSUME NEW t \in Tasks, NEW r, NEW n \in DOMAIN Program(t), NEW m, NEW p \in Program(t)[n].on,
           Stage(t, r, n, Program(t)[n].do, m, p)
    PROVE  Right(t, r, n + 1, m, p)
  <1> DEFINE P == Program(t)
  <1>1. P \in Seq(Instructions)
    BY ProgramIs
  <1> DEFINE E(k, W, C) == EndsBefore(P, k, W, C, p)
  <1>2. \A W, C : E(n + 1, W, C) <=> P[n].do \in W \/ (E(n, W, C) /\ P[n].do \notin C)
    <2> SUFFICES ASSUME NEW W, NEW C
                 PROVE  E(n + 1, W, C) <=> P[n].do \in W \/ (E(n, W, C) /\ P[n].do \notin C)
      OBVIOUS
    <2>1. EndsBefore(P, n + 1, W, C, p) <=>
               Hits(P[n], W, p) \/ (EndsBefore(P, n, W, C, p) /\ ~Hits(P[n], C, p))
      BY <1>1, EndsNext
    <2> QED
      BY <2>1 DEF Hits
  <1> DEFINE x == P[n].do
  <1>3. /\ E(n + 1, Builds, Builders) <=> x \in Builds \/ (x \notin Builders /\ E(n, Builds, Builders))
        /\ E(n + 1, Wraps, Builders) <=> x \in Wraps \/ (x \notin Builders /\ E(n, Wraps, Builders))
        /\ E(n + 1, Broadcasts, Writers) <=>
              x \in Broadcasts \/ (x \notin Writers /\ E(n, Broadcasts, Writers))
        /\ E(n + 1, Loads, Writers) <=> x \in Loads \/ (x \notin Writers /\ E(n, Loads, Writers))
        /\ E(n + 1, Creates, Writers) <=> x \in Creates \/ (x \notin Writers /\ E(n, Creates, Writers))
        /\ E(n + 1, Creates, WriteSends) <=>
              x \in Creates \/ (x \notin WriteSends /\ E(n, Creates, WriteSends))
        /\ E(n + 1, Restores, WriteSends) <=>
              x \in Restores \/ (x \notin WriteSends /\ E(n, Restores, WriteSends))
    BY <1>2
  <1>4. Stage(t, r, n, x, m, p)
    OBVIOUS
  <1> QED
    BY <1>3, <1>4 DEF Stage, Right

\* What a step leaves alone.
LEMMA Untouched ==
    ASSUME NEW t \in Tasks, NEW r, NEW n \in DOMAIN Program(t), NEW m, NEW p,
           Right(t, r, n, m, p),
           \A x \in Wraps \cup WriteSends : ~(x = Program(t)[n].do /\ p \in Program(t)[n].on)
    PROVE  Right(t, r, n + 1, m, p)
  <1> DEFINE P == Program(t)
  <1> DEFINE E(k, W, C) == EndsBefore(P, k, W, C, p)
  <1>1. P \in Seq(Instructions)
    BY ProgramIs
  <1>2. \A C : \A W \in SUBSET (Wraps \cup WriteSends) : E(n + 1, W, C) => E(n, W, C)
    <2> SUFFICES ASSUME NEW W \in SUBSET (Wraps \cup WriteSends), NEW C, E(n + 1, W, C)
                 PROVE  E(n, W, C)
      OBVIOUS
    <2>1. ~Hits(P[n], W, p)
      BY DEF Hits
    <2>2. EndsBefore(P, n + 1, W, C, p) <=>
               Hits(P[n], W, p) \/ (EndsBefore(P, n, W, C, p) /\ ~Hits(P[n], C, p))
      BY <1>1, EndsNext
    <2> QED
      BY <2>1, <2>2
  <1>3. {Builds, Wraps, Broadcasts, Loads, Creates, Restores} \subseteq SUBSET (Wraps \cup WriteSends)
    BY DEF Builds, Wraps, Broadcasts, Loads, Creates, Restores, WriteSends
  <1>4. /\ E(n + 1, Builds, Builders) => E(n, Builds, Builders)
        /\ E(n + 1, Wraps, Builders) => E(n, Wraps, Builders)
        /\ E(n + 1, Broadcasts, Writers) => E(n, Broadcasts, Writers)
        /\ E(n + 1, Loads, Writers) => E(n, Loads, Writers)
        /\ E(n + 1, Creates, Writers) => E(n, Creates, Writers)
        /\ E(n + 1, Creates, WriteSends) => E(n, Creates, WriteSends)
        /\ E(n + 1, Restores, WriteSends) => E(n, Restores, WriteSends)
    <2> HIDE DEF E
    <2> QED
      BY <1>2, <1>3
  <1> QED
    BY <1>4 DEF Right

\* A program with another step is not the one that creates on the meta device.
LEMMA NotOnMeta ==
    ASSUME NEW t \in Tasks, NEW n \in DOMAIN Program(t), Program(t)[n].do # "createOnMeta"
    PROVE  Program(t) # Do("createOnMeta")
  <1> SUFFICES ASSUME Program(t) = Do("createOnMeta") PROVE FALSE
    OBVIOUS
  <1>1. \A i \in DOMAIN Do("createOnMeta") : Do("createOnMeta")[i].do = "createOnMeta"
    BY DEF Do
  <1> QED
    BY <1>1

LEMMA BuildIsRight ==
    ASSUME NEW t \in Tasks, NEW r, NEW n \in DOMAIN Program(t), NEW p \in Program(t)[n].on,
           p \in Parts, Program(t)[n].do = "build"
    PROVE  Right(t, r, n + 1, Created(t.meta, r)[p], p)
  <1> DEFINE m == Created(t.meta, r)[p]
  <1>1. /\ "build" \notin Wraps /\ "build" \in Builders /\ "build" \notin Broadcasts
        /\ "build" \in Writers /\ "build" \notin Loads /\ "build" \notin Creates
        /\ "build" \in WriteSends /\ "build" \notin Restores
    BY DEF Wraps, Builders, Broadcasts, Writers, Loads, Creates, WriteSends, Restores
  <1>2. m = IF t.meta THEN Part(Meta, Meta) ELSE Part(Own(r), Set)
    BY DEF Created
  <1>3. Program(t) # Do("createOnMeta")
    BY NotOnMeta
  <1> HIDE DEF m
  <1>4. /\ m = Part(m.weights, m.table) /\ (m.weights # Meta => m.table = Set)
        /\ (~t.meta => m.weights # Meta)
    BY <1>2, Distinct
  <1>5. Stage(t, r, n, Program(t)[n].do, m, p)
    BY <1>1, <1>3, <1>4 DEF Stage
  <1> QED
    BY <1>5, StageIsRight DEF m

\* _do_load_model loads a state into what it built.
LEMMA LoadIsRight ==
    ASSUME NEW t \in Tasks, NEW r, NEW n \in DOMAIN Program(t), NEW p \in Program(t)[n].on,
           p \in Parts, Program(t)[n].do = "loadState", NEW m, Right(t, r, n, m, p),
           NEW new,
           ~IsFirst(t, r) => new = m,
           IsFirst(t, r) => new = Part(Pretrained, IF t.meta THEN Set ELSE m.table)
    PROVE  Right(t, r, n + 1, new, p)
  <1>1. /\ "loadState" \notin Wraps /\ "loadState" \notin Builders /\ "loadState" \notin Broadcasts
        /\ "loadState" \in Writers /\ "loadState" \in Loads /\ "loadState" \notin Creates
        /\ "loadState" \in WriteSends /\ "loadState" \notin Restores /\ "loadState" \notin Builds
    BY DEF Wraps, Builders, Broadcasts, Writers, Loads, Creates, WriteSends, Restores, Builds
  <1>2. EndsBefore(Program(t), n, Builds, Builders, p)
    BY <1>1, Programs DEF Safe, Sane, Prepared, Hits
  <1>3. Program(t) # Do("createOnMeta")
    BY NotOnMeta
  <1>4. ~t.meta => m.table = Set
    BY <1>2 DEF Right
  <1>5. CASE IsFirst(t, r)
    <2>1. new = Part(Pretrained, Set)
      BY <1>4, <1>5
    <2>2. new.weights = Pretrained /\ new.table = Set /\ new = Part(new.weights, new.table)
      BY <2>1, Distinct
    <2>3. Stage(t, r, n, Program(t)[n].do, new, p)
      BY <1>1, <1>3, <2>2, Distinct DEF Stage
    <2> QED
      BY <2>3, StageIsRight
  <1>6. CASE ~IsFirst(t, r)
    <2>1. Stage(t, r, n, Program(t)[n].do, m, p)
      BY <1>1, <1>3, <1>6 DEF Stage, Right
    <2> QED
      BY <1>6, <2>1, StageIsRight
  <1> QED
    BY <1>5, <1>6

LEMMA CreateIsRight ==
    ASSUME NEW t \in Tasks, NEW r \in Team(t), NEW n \in DOMAIN Program(t),
           NEW p \in Program(t)[n].on, p \in Parts, Program(t)[n].do = "create"
    PROVE  Right(t, r, n + 1, Created(~IsFirst(t, r) /\ t.meta, r)[p], p)
  <1> DEFINE m == Created(~IsFirst(t, r) /\ t.meta, r)[p]
  <1>1. /\ "create" \notin Wraps /\ "create" \in Builders /\ "create" \notin Broadcasts
        /\ "create" \in Writers /\ "create" \notin Loads /\ "create" \in Creates
        /\ "create" \in WriteSends /\ "create" \notin Restores /\ "create" \notin Builds
    BY DEF Wraps, Builders, Broadcasts, Writers, Loads, Creates, WriteSends, Restores, Builds
  <1>2. m = IF ~IsFirst(t, r) /\ t.meta THEN Part(Meta, Meta) ELSE Part(Own(r), Set)
    BY DEF Created
  <1>3. Program(t) # Do("createOnMeta")
    BY NotOnMeta
  <1>4. IsFirst(t, r) => GangAt(t, "dp", r)[1] = r
    BY FirstRank DEF IsFirst, Meetings
  <1> HIDE DEF m
  <1>5. CASE ~IsFirst(t, r) /\ t.meta
    <2>1. m = Part(m.weights, m.table) /\ m.weights = Meta
      BY <1>2, <1>5, Distinct
    <2>2. Stage(t, r, n, Program(t)[n].do, m, p)
      BY <1>1, <1>3, <1>5, <2>1 DEF Stage
    <2> QED
      BY <2>2, StageIsRight DEF m
  <1>6. CASE ~(~IsFirst(t, r) /\ t.meta)
    <2>1. m = Part(m.weights, m.table) /\ m.weights = Own(r) /\ m.table = Set /\ Own(r) # Meta
      BY <1>2, <1>6, Distinct
    <2>2. Stage(t, r, n, Program(t)[n].do, m, p)
      BY <1>1, <1>3, <1>4, <1>6, <2>1 DEF Stage
    <2> QED
      BY <2>2, StageIsRight DEF m
  <1> QED
    BY <1>5, <1>6

LEMMA MetaIsRight ==
    ASSUME NEW t \in Tasks, NEW r, NEW n \in DOMAIN Program(t), NEW p \in Program(t)[n].on,
           p \in Parts, Program(t)[n].do = "createOnMeta"
    PROVE  Right(t, r, n + 1, Created(TRUE, r)[p], p)
  <1> DEFINE m == Created(TRUE, r)[p]
  <1> DEFINE x == "createOnMeta"
  <1>1. /\ x \notin Wraps /\ x \in Builders /\ x \notin Broadcasts
        /\ x \in Writers /\ x \notin Loads /\ x \notin Creates
        /\ x \in WriteSends /\ x \notin Restores /\ x \notin Builds
    BY DEF Wraps, Builders, Broadcasts, Writers, Loads, Creates, WriteSends, Restores, Builds
  <1>2. m = Part(Meta, Meta)
    BY DEF Created
  <1> HIDE DEF m
  <1>3. m = Part(m.weights, m.table) /\ m.weights = Meta
    BY <1>2, Distinct
  <1>4. Stage(t, r, n, Program(t)[n].do, m, p)
    BY <1>1, <1>2, <1>3 DEF Stage
  <1> QED
    BY <1>4, StageIsRight DEF m

LEMMA ResetIsRight ==
    ASSUME NEW t \in Tasks, NEW r, NEW n \in DOMAIN Program(t), NEW p \in Program(t)[n].on,
           p \in Parts, Program(t)[n].do = "resetOthers", NEW m, Right(t, r, n, m, p),
           NEW new, new = m \/ new = ResetTables(m)
    PROVE  Right(t, r, n + 1, new, p)
  <1> DEFINE x == "resetOthers"
  <1>1. /\ x \notin Wraps /\ x \notin Builders /\ x \notin Broadcasts
        /\ x \notin Writers /\ x \notin Loads /\ x \notin Creates
        /\ x \notin WriteSends /\ x \notin Restores /\ x \notin Builds
    BY DEF Wraps, Builders, Broadcasts, Writers, Loads, Creates, WriteSends, Restores, Builds
  <1>2. new = Part(new.weights, new.table) /\ new.weights = m.weights /\ (m.weights # Meta => new.table = Set)
    BY Distinct DEF ResetTables, Right
  <1>3. Program(t) # Do("createOnMeta")
    BY NotOnMeta
  <1>4. Stage(t, r, n, Program(t)[n].do, new, p)
    BY <1>1, <1>2, <1>3 DEF Stage, Right
  <1> QED
    BY <1>4, StageIsRight

\* What wraps a model leaves it alone but on the meta device.
LEMMA WrapIsRight ==
    ASSUME NEW t \in Tasks, NEW r, NEW n \in DOMAIN Program(t), NEW p \in Program(t)[n].on,
           p \in Parts, Program(t)[n].do \in Wraps, NEW m, Right(t, r, n, m, p),
           NEW new,
           m.weights # Meta => new = m,
           m.weights = Meta => \E w : w # Meta /\ new = Part(w, Set)
    PROVE  Right(t, r, n + 1, new, p)
  <1> DEFINE x == Program(t)[n].do
  <1>1. /\ x \notin Builders /\ x \notin Broadcasts
        /\ x \notin Writers /\ x \notin Loads /\ x \notin Creates
        /\ x \notin WriteSends /\ x \notin Restores /\ x \notin Builds
    BY DEF Wraps, Builders, Broadcasts, Writers, Loads, Creates, WriteSends, Restores, Builds
  <1>2. Program(t) # Do("createOnMeta")
    <2>1. x # "createOnMeta"
      BY DEF Wraps
    <2> QED
      BY <2>1, NotOnMeta
  <1> HIDE DEF x
  <1>3. CASE m.weights # Meta
    <2>1. Stage(t, r, n, x, m, p)
      BY <1>1, <1>2, <1>3 DEF Stage, Right
    <2> QED
      BY <1>3, <2>1, StageIsRight DEF x
  <1>4. CASE m.weights = Meta
    <2>1. new = Part(new.weights, new.table) /\ new.weights # Meta /\ new.table = Set
      BY <1>4, Distinct
    <2>2. Meta # Pretrained /\ Meta # Kept /\ \A q : Own(q) # Meta
      BY Distinct
    <2>3. Stage(t, r, n, x, new, p)
      BY <1>1, <1>2, <1>4, <2>1, <2>2 DEF Stage, Right
    <2> QED
      BY <2>3, StageIsRight DEF x
  <1> QED
    BY <1>3, <1>4

\* load_model_state copies into allocated parameters.
LEMMA RestoreIsRight ==
    ASSUME NEW t \in Tasks, NEW r, NEW n \in DOMAIN Program(t), NEW p \in Program(t)[n].on,
           p \in Parts, Program(t)[n].do = "restore", NEW m, Right(t, r, n, m, p)
    PROVE  Right(t, r, n + 1, Part(Kept, m.table), p)
  <1> DEFINE x == "restore"
  <1> DEFINE new == Part(Kept, m.table)
  <1>1. /\ x \notin Wraps /\ x \notin Builders /\ x \notin Broadcasts
        /\ x \in Writers /\ x \notin Loads /\ x \notin Creates
        /\ x \in WriteSends /\ x \in Restores /\ x \notin Builds
    BY DEF Wraps, Builders, Broadcasts, Writers, Loads, Creates, WriteSends, Restores, Builds
  <1>2. EndsBefore(Program(t), n, Wraps, Builders, p)
    BY <1>1, Programs DEF Safe, Prepared, Hits
  <1>3. m.table = Set
    BY <1>2 DEF Right
  <1>4. new = Part(new.weights, new.table) /\ new.weights = Kept /\ new.table = Set /\ Meta # Kept
    BY <1>3, Distinct
  <1>5. Program(t) # Do("createOnMeta")
    BY NotOnMeta
  <1> HIDE DEF new
  <1>6. Stage(t, r, n, Program(t)[n].do, new, p)
    BY <1>1, <1>4, <1>5 DEF Stage
  <1> QED
    BY <1>6, StageIsRight DEF new

\* The first member of a gang sends what it holds.
LEMMA SendIsRight ==
    ASSUME NEW t \in Tasks, NEW r \in Team(t), NEW n \in DOMAIN Program(t),
           NEW p \in Program(t)[n].on, p \in Parts, Program(t)[n].do \in Broadcasts,
           NEW g, g = GangAt(t, "dp", r),
           NEW m, Right(t, r, n, m, p), NEW m1, Right(t, g[1], n, m1, p)
    PROVE  Right(t, r, n + 1, Part(ToDevice(m1, g[1]).weights, ToDevice(m, r).table), p)
  <1> DEFINE x == Program(t)[n].do
  <1> DEFINE new == Part(ToDevice(m1, g[1]).weights, ToDevice(m, r).table)
  <1>1. /\ x \notin Wraps /\ x \notin Builders
        /\ x \notin Writers /\ x \notin Loads /\ x \notin Creates
        /\ x \in WriteSends /\ x \notin Restores /\ x \notin Builds
    BY DEF Wraps, Builders, Broadcasts, Writers, Loads, Creates, WriteSends, Restores, Builds
  <1>2. Program(t) # Do("createOnMeta")
    <2>1. x # "createOnMeta"
      BY DEF Broadcasts
    <2> QED
      BY <2>1, NotOnMeta
  <1>3. GangLike(g, r, t, "dp")
    BY GangFacts DEF Meetings
  <1>4. g[1] \in Team(t) /\ GangAt(t, "dp", g[1]) = g
    BY <1>3 DEF GangLike
  <1>5. IsFirst(t, g[1])
    BY <1>4, FirstRank DEF IsFirst, Meetings
  <1>6. /\ EndsBefore(Program(t), n, Loads, Writers, p) => m1.weights = Pretrained
        /\ EndsBefore(Program(t), n, Creates, Writers, p) => m1.weights = Own(g[1])
    BY <1>4, <1>5 DEF Right
  <1>7. /\ ToDevice(m1, g[1]).weights # Meta
        /\ m1.weights # Meta => ToDevice(m1, g[1]).weights = m1.weights
        /\ ToDevice(m, r).table = Set
    BY Distinct DEF ToDevice, OnMeta, ResetParameters, Right
  <1>8. new = Part(new.weights, new.table) /\ new.weights = ToDevice(m1, g[1]).weights /\ new.table = Set
    BY <1>7, Distinct
  <1> HIDE DEF new, x
  <1>9. Meta # Pretrained /\ \A q : Own(q) # Meta
    BY Distinct
  <1>10. /\ EndsBefore(Program(t), n, Loads, Writers, p) => new.weights = Pretrained
         /\ EndsBefore(Program(t), n, Creates, Writers, p) => new.weights = Own(g[1])
         /\ new.weights # Meta
    BY <1>6, <1>7, <1>8, <1>9
  <1>11. Stage(t, r, n, x, new, p)
    BY <1>1, <1>2, <1>8, <1>10 DEF Stage
  <1> QED
    BY <1>11, StageIsRight DEF new, x

-----------------------------------------------------------------------------
(***************************************************************************)
(* The inductive invariant, step by step.                                  *)
(***************************************************************************)
BringupInv == PlaceOK /\ SyncOK /\ CacheOK /\ StuckOK /\ HeldOK

LEMMA NamesAreOnes == JobRanks = Team(task) /\ \A kind, r : GangOf(kind, r) = GangAt(task, kind, r)
  BY DEF JobRanks, Team, GangOf, GangAt

LEMMA StepIs ==
    ASSUME PlaceOK, NEW r \in Team(task), Running(r)
    PROVE  /\ At(Program(task), todo[r]) \in DOMAIN Program(task)
           /\ Step(r) = Program(task)[At(Program(task), todo[r])]
           /\ Step(r).do \in Kinds
           /\ \E p \in Parts : p \in Step(r).on
  <1> DEFINE P == Program(task)
  <1>1. P \in Seq(Instructions) /\ \A i \in DOMAIN P : \E p \in Parts : p \in P[i].on
    BY ProgramIs DEF PlaceOK
  <1>2. Suffix(P, todo[r]) /\ (outcome[r] = "ready" <=> Len(todo[r]) = 0) /\ outcome[r] = "running"
    BY DEF PlaceOK, Running
  <1>3. Len(todo[r]) \in Nat
    BY <1>2 DEF Suffix
  <1> HIDE DEF P
  <1>4. Len(todo[r]) > 0
    BY <1>2, <1>3
  <1> QED
    BY <1>1, <1>2, <1>4, NextStep DEF Step, P

\* What is held after a step at n: the parts the step is on are as Right asks, the
\* others as they were.
LEMMA HeldMoves ==
    ASSUME PlaceOK, HeldOK, NEW S, NEW n, Passes(S, n), DOMAIN held' = Team(task),
           \A r \in Team(task) \ S : held'[r] = held[r],
           \A r \in S, p \in Parts :
              \/ Right(task, r, n + 1, held'[r][p], p)
              \/ /\ held'[r][p] = held[r][p]
                 /\ \A x \in Wraps \cup WriteSends :
                        ~(x = Program(task)[n].do /\ p \in Program(task)[n].on)
    PROVE  HeldOK'
  <1> DEFINE P == Program(task)
  <1> DEFINE T == Team(task)
  <1>1. \A r \in T : At(P, todo'[r]) = IF r \in S THEN n + 1 ELSE At(P, todo[r])
    BY MovesAt
  <1>2. task' = task /\ n \in DOMAIN P /\ \A r \in S : At(P, todo[r]) = n
    BY DEF Passes
  <1>3. task \in Tasks
    BY DEF PlaceOK
  <1>4. \A r \in T, p \in Parts : Right(task, r, At(P, todo[r]), held[r][p], p)
    BY DEF HeldOK
  <1>5. ASSUME NEW r \in T, NEW p \in Parts
        PROVE  Right(task, r, At(P, todo'[r]), held'[r][p], p)
    <2>1. CASE r \notin S
      <3>1. At(P, todo'[r]) = At(P, todo[r]) /\ held'[r] = held[r]
        BY <1>1, <2>1
      <3>2. Right(task, r, At(P, todo[r]), held[r][p], p)
        BY <1>4
      <3> QED
        BY <3>1, <3>2
    <2>2. CASE r \in S
      <3>1. At(P, todo'[r]) = n + 1 /\ Right(task, r, n, held[r][p], p)
        BY <1>1, <1>2, <1>4, <2>2
      <3>2. Right(task, r, n + 1, held'[r][p], p)
        BY <1>2, <1>3, <2>2, <3>1, Untouched
      <3> QED
        BY <3>1, <3>2
    <2> QED
      BY <2>1, <2>2
  <1>6. Program(task') = P /\ Team(task') = T
    BY <1>2
  <1> HIDE DEF P, T
  <1>7. \A r \in Team(task'), p \in Parts : Right(task', r, At(Program(task'), todo'[r]), held'[r][p], p)
    BY <1>2, <1>5, <1>6
  <1> QED
    BY <1>6, <1>7 DEF HeldOK, T

LEMMA CacheMoves ==
    ASSUME PlaceOK, CacheOK, NEW S, NEW n, Passes(S, n), cached => cached',
           0 \in S /\ Program(task)[n].do = "download" => cached'
    PROVE  CacheOK'
  <1> DEFINE P == Program(task)
  <1>1. 0 \in Team(task) /\ task \in Tasks
    BY LayoutOK DEF PlaceOK
  <1>2. /\ At(P, todo'[0]) = IF 0 \in S THEN n + 1 ELSE At(P, todo[0])
        /\ n \in Nat
    BY <1>1, MovesAt
  <1>3. task' = task /\ (0 \in S => At(P, todo[0]) = n)
    BY DEF Passes
  <1>4. DOMAIN P = 1..Len(P) /\ Len(P) \in Nat
    BY <1>1, ProgramIs
  <1> SUFFICES ASSUME NEW i \in DOMAIN P, P[i].do = "download", At(P, todo'[0]) > i
               PROVE  cached'
    BY <1>3 DEF CacheOK
  <1>5. CASE 0 \in S /\ i = n
    BY <1>5
  <1>6. CASE ~(0 \in S /\ i = n)
    <2> DEFINE a == At(P, todo[0])
    <2>0. a > i => cached
      BY DEF CacheOK
    <2>1. At(P, todo'[0]) = IF 0 \in S THEN n + 1 ELSE a
      BY <1>2
    <2>2. 0 \in S => a = n
      BY <1>3
    <2> HIDE DEF a
    <2>3. i \in Nat
      BY <1>4
    <2>4. CASE 0 \in S
      <3>1. n + 1 > i /\ a = n /\ i # n
        BY <1>6, <2>1, <2>2, <2>4
      <3>2. a > i
        BY <3>1, <2>3, <1>2
      <3> QED
        BY <2>0, <3>2
    <2>5. CASE 0 \notin S
      BY <2>0, <2>1, <2>5
    <2> QED
      BY <2>4, <2>5
  <1> QED
    BY <1>5, <1>6

\* A step of r by itself, and of the members of a gang.
LEMMA AloneMoves ==
    ASSUME PlaceOK, NEW r \in Team(task), Running(r), Step(r).do \notin DOMAIN Collectives,
           Advance({r}), task' = task, failures' = failures
    PROVE  Passes({r}, At(Program(task), todo[r]))
  <1> DEFINE n == At(Program(task), todo[r])
  <1>1. n \in DOMAIN Program(task) /\ Step(r) = Program(task)[n]
    BY StepIs
  <1>2. /\ todo' = [q \in Team(task) |-> IF q \in {r} THEN Tail(todo[q]) ELSE todo[q]]
        /\ outcome' = [q \in Team(task) |-> IF q \in {r} /\ Len(todo[q]) = 1 THEN "ready" ELSE outcome[q]]
    BY NamesAreOnes DEF Advance
  <1>3. outcome[r] = "running"
    BY DEF Running
  <1>4. \A q \in {r} : outcome[q] = "running" /\ At(Program(task), todo[q]) = n
    BY <1>3
  <1> HIDE DEF n
  <1> QED
    BY <1>1, <1>2, <1>4 DEF Passes, n

LEMMA GangPasses ==
    ASSUME PlaceOK, NEW r \in Team(task), Running(r), NEW what \in DOMAIN Collectives,
           NEW g, g = GangAt(task, Collectives[what], r), Step(r).do = what,
           Together(g, what), Advance(Range(g)), task' = task, failures' = failures
    PROVE  /\ Passes(Range(g), At(Program(task), todo[r]))
           /\ GangLike(g, r, task, Collectives[what])
           /\ \A q \in Range(g) : Step(q) = Program(task)[At(Program(task), todo[r])]
  <1> DEFINE P == Program(task)
  <1> DEFINE n == At(P, todo[r])
  <1>1. n \in DOMAIN P /\ Step(r) = P[n]
    BY StepIs
  <1>2. Collectives[what] \in Meetings
    BY DEF Collectives, Meetings
  <1>3. GangLike(g, r, task, Collectives[what])
    BY <1>2, GangFacts DEF PlaceOK
  <1>4. /\ Range(g) \subseteq Team(task) /\ r \in Range(g)
        /\ \A q \in Range(g) : GangAt(task, Collectives[what], q) = g
    BY <1>3 DEF GangLike
  <1>5. \A q \in Range(g) : Running(q) /\ At(P, todo[q]) = n
    BY <1>4 DEF Together, Doing, At
  <1>6. \A q \in Range(g) : Step(q) = P[n]
    BY <1>4, <1>5, StepIs
  <1>7. /\ todo' = [q \in Team(task) |-> IF q \in Range(g) THEN Tail(todo[q]) ELSE todo[q]]
        /\ outcome' = [q \in Team(task) |->
                          IF q \in Range(g) /\ Len(todo[q]) = 1 THEN "ready" ELSE outcome[q]]
    BY NamesAreOnes DEF Advance
  <1>8. P[n].do = what
    BY <1>1
  <1>9. \A q \in Range(g) : outcome[q] = "running"
    BY <1>5 DEF Running
  <1> HIDE DEF n, P
  <1>10. P[n].do \in DOMAIN Collectives => \A q \in Range(g) : Range(g) = Range(GangAt(task, Collectives[P[n].do], q))
    BY <1>4, <1>8
  <1> QED
    BY <1>1, <1>3, <1>4, <1>5, <1>6, <1>7, <1>9, <1>10 DEF Passes, n, P

LEMMA ChangeKeeps ==
    ASSUME PlaceOK, HeldOK, CacheOK, NEW r \in Team(task), Running(r),
           Step(r).do \notin DOMAIN Collectives, Step(r).do # "download",
           NEW new, Change(r, new),
           \A p \in Parts : p \in Step(r).on =>
               Right(task, r, At(Program(task), todo[r]) + 1, new[p], p)
    PROVE  Passes({r}, At(Program(task), todo[r])) /\ HeldOK' /\ CacheOK'
  <1> DEFINE n == At(Program(task), todo[r])
  <1> DEFINE m == [part \in Parts |-> IF part \in Step(r).on THEN new[part] ELSE held[r][part]]
  <1>0. n \in DOMAIN Program(task) /\ Step(r) = Program(task)[n]
    BY StepIs
  <1>1. Advance({r}) /\ held' = [held EXCEPT ![r] = m] /\ UNCHANGED <<task, cached, failures>>
    BY DEF Change, Leaves
  <1>2. Passes({r}, n)
    BY <1>1, AloneMoves
  <1>3. DOMAIN held = Team(task)
    BY DEF HeldOK
  <1>4. DOMAIN held' = Team(task) /\ held'[r] = m /\ \A q \in Team(task) \ {r} : held'[q] = held[q]
    BY <1>1, <1>3
  <1>5. \A p \in Parts : \/ Right(task, r, n + 1, m[p], p)
                         \/ m[p] = held[r][p] /\ p \notin Step(r).on
    OBVIOUS
  <1> HIDE DEF m, n
  <1>6. \A q \in {r}, p \in Parts :
              \/ Right(task, q, n + 1, held'[q][p], p)
              \/ /\ held'[q][p] = held[q][p]
                 /\ \A x \in Wraps \cup WriteSends :
                        ~(x = Program(task)[n].do /\ p \in Program(task)[n].on)
    BY <1>0, <1>4, <1>5
  <1>7. HeldOK'
    BY <1>2, <1>4, <1>6, HeldMoves
  <1>8. CacheOK'
    BY <1>0, <1>1, <1>2, CacheMoves
  <1> QED
    BY <1>2, <1>7, <1>8 DEF n

LEMMA NothingKeeps ==
    ASSUME PlaceOK, HeldOK, CacheOK, NEW r \in Team(task), Running(r),
           Step(r).do \in {"lookup", "open", "findCached", "metadata", "download"},
           Advance({r}), UNCHANGED <<task, failures>>,
           held' = held \/ held' = [held EXCEPT ![r] = held[r]],
           cached => cached', Step(r).do = "download" /\ r = 0 => cached'
    PROVE  Passes({r}, At(Program(task), todo[r])) /\ HeldOK' /\ CacheOK'
  <1> DEFINE n == At(Program(task), todo[r])
  <1>0. n \in DOMAIN Program(task) /\ Step(r) = Program(task)[n]
    BY StepIs
  <1>1. Step(r).do \notin DOMAIN Collectives
    BY DEF Collectives
  <1>2. Passes({r}, n)
    BY <1>1, AloneMoves
  <1>3. DOMAIN held = Team(task)
    BY DEF HeldOK
  <1>4. DOMAIN held' = Team(task) /\ \A q \in Team(task) : held'[q] = held[q]
    BY <1>3
  <1>5. \A x \in Wraps \cup WriteSends : x # Step(r).do
    BY DEF Wraps, WriteSends
  <1> HIDE DEF n
  <1>6. \A q \in {r}, p \in Parts :
              \/ Right(task, q, n + 1, held'[q][p], p)
              \/ /\ held'[q][p] = held[q][p]
                 /\ \A x \in Wraps \cup WriteSends :
                        ~(x = Program(task)[n].do /\ p \in Program(task)[n].on)
    BY <1>0, <1>4, <1>5
  <1>7. HeldOK'
    BY <1>2, <1>4, <1>6, HeldMoves
  <1>8. 0 \in {r} /\ Program(task)[n].do = "download" => cached'
    BY <1>0
  <1>9. CacheOK'
    BY <1>2, <1>8, CacheMoves
  <1> QED
    BY <1>2, <1>7, <1>9 DEF n

\* Every local step.
LEMMA LocalKeeps ==
    ASSUME PlaceOK, HeldOK, CacheOK, NEW r \in Team(task), LocalStep(r)
    PROVE  Passes({r}, At(Program(task), todo[r])) /\ HeldOK' /\ CacheOK'
  <1> DEFINE P == Program(task)
  <1> DEFINE n == At(P, todo[r])
  <1> DEFINE Keeps == Passes({r}, n) /\ HeldOK' /\ CacheOK'
  <1>0. /\ task \in Tasks
        /\ Running(r) => n \in DOMAIN P /\ Step(r) = P[n]
    BY StepIs DEF PlaceOK
  <1>r. \A p \in Parts : Right(task, r, n, held[r][p], p)
    BY DEF HeldOK
  <1>f. RankOf("dp", r) = 0 <=> IsFirst(task, r)
    BY NamesAreOnes DEF RankOf, IsFirst
  <1> HIDE DEF P, n
  <1>1. ASSUME Lookup(r) \/ FindCached(r) \/ SaveModelMetadata(r) PROVE Keeps
    <2>1. /\ Running(r) /\ Step(r).do \in {"lookup", "open", "findCached", "metadata"} /\ Nothing(r)
      BY <1>1 DEF Lookup, FindCached, SaveModelMetadata, Doing
    <2>2. /\ Advance({r}) /\ UNCHANGED <<task, failures>> /\ cached' = cached
          /\ held' = [held EXCEPT ![r] = held[r]]
      BY <2>1 DEF Nothing, Leaves
    <2>3. /\ Step(r).do \in {"lookup", "open", "findCached", "metadata", "download"}
          /\ Step(r).do # "download"
      BY <2>1
    <2> QED
      BY <2>1, <2>2, <2>3, NothingKeeps DEF n, P
  <1>2. ASSUME DownloadOnFirst(r) PROVE Keeps
    <2>1. /\ Running(r) /\ Step(r).do = "download" /\ Advance({r}) /\ UNCHANGED <<task, failures>>
          /\ held' = held /\ cached' = (cached \/ r = 0)
      BY <1>2 DEF DownloadOnFirst, Doing
    <2>2. /\ Step(r).do \in {"lookup", "open", "findCached", "metadata", "download"}
          /\ (cached => cached') /\ (r = 0 => cached')
      BY <2>1
    <2> QED
      BY <2>1, <2>2, NothingKeeps DEF n, P
  <1>3. ASSUME NEW new, Running(r), Change(r, new),
               Step(r).do \in {"build", "loadState", "create", "createOnMeta", "resetOthers",
                               "toDevice", "prepareDDP", "initialize", "restore"},
               \A p \in Parts : p \in Step(r).on => Right(task, r, n + 1, new[p], p)
        PROVE  Keeps
    <2>1. Step(r).do \notin DOMAIN Collectives /\ Step(r).do # "download"
      BY <1>3 DEF Collectives
    <2> QED
      BY <1>3, <2>1, ChangeKeeps DEF n, P
  <1>4. ASSUME Build(r) PROVE Keeps
    <2>1. Running(r) /\ Step(r).do = "build" /\ Change(r, Created(task.meta, r))
      BY <1>4 DEF Build, Doing
    <2>2. \A p \in Parts : p \in Step(r).on => Right(task, r, n + 1, Created(task.meta, r)[p], p)
      BY <1>0, <2>1, BuildIsRight DEF P
    <2> QED
      BY <2>1, <2>2, <1>3
  <1>5. ASSUME Create(r) PROVE Keeps
    <2>1. CASE Doing(r, "createOnMeta") /\ Change(r, Created(TRUE, r))
      <3>1. Running(r) /\ Step(r).do = "createOnMeta" /\ Change(r, Created(TRUE, r))
        BY <2>1 DEF Doing
      <3>2. \A p \in Parts : p \in Step(r).on => Right(task, r, n + 1, Created(TRUE, r)[p], p)
        BY <1>0, <3>1, MetaIsRight DEF P
      <3> QED
        BY <3>1, <3>2, <1>3
    <2>2. CASE Doing(r, "create") /\ Change(r, Created(RankOf("dp", r) # 0 /\ task.meta, r))
      <3>1. Running(r) /\ Step(r).do = "create" /\ Change(r, Created(RankOf("dp", r) # 0 /\ task.meta, r))
        BY <2>2 DEF Doing
      <3>2. Created(RankOf("dp", r) # 0 /\ task.meta, r) = Created(~IsFirst(task, r) /\ task.meta, r)
        BY <1>f DEF Created
      <3>3. \A p \in Parts : p \in Step(r).on =>
                Right(task, r, n + 1, Created(~IsFirst(task, r) /\ task.meta, r)[p], p)
        BY <1>0, <3>1, CreateIsRight DEF P
      <3> QED
        BY <3>1, <3>2, <3>3, <1>3
    <2> QED
      BY <1>5, <2>1, <2>2 DEF Create
  <1>6. ASSUME LoadState(r) PROVE Keeps
    <2> DEFINE new == [part \in Step(r).on |->
         LET p == held[r][part] IN IF RankOf("dp", r) # 0 THEN p
         ELSE LET empty == IF task.meta THEN ToEmpty(p) ELSE p
                  full  == Part(Pretrained, empty.table)
              IN  IF task.meta THEN ResetTables(full) ELSE full]
    <2>1. Running(r) /\ Step(r).do = "loadState" /\ Change(r, new)
      BY <1>6 DEF LoadState, Doing
    <2>2. ASSUME NEW p \in Step(r).on
          PROVE  /\ ~IsFirst(task, r) => new[p] = held[r][p]
                 /\ IsFirst(task, r) =>
                       new[p] = Part(Pretrained, IF task.meta THEN Set ELSE held[r][p].table)
      BY <1>f, Distinct DEF ResetTables
    <2> HIDE DEF new
    <2>3. \A p \in Parts : p \in Step(r).on => Right(task, r, n + 1, new[p], p)
      <3> SUFFICES ASSUME NEW p \in Step(r).on, p \in Parts PROVE Right(task, r, n + 1, new[p], p)
        OBVIOUS
      <3>1. Right(task, r, n, held[r][p], p) /\ n \in DOMAIN Program(task)
            /\ Step(r) = Program(task)[n]
        BY <1>r, <1>0, <2>1 DEF P
      <3> QED
        BY <1>0, <2>1, <2>2, <3>1, LoadIsRight
    <2> QED
      BY <2>1, <2>3, <1>3
  <1>7. ASSUME ResetOthers(r) PROVE Keeps
    <2> DEFINE new == [part \in Step(r).on |->
         LET p == held[r][part] IN IF RankOf("dp", r) # 0 THEN ResetTables(p) ELSE p]
    <2>1. Running(r) /\ Step(r).do = "resetOthers" /\ Change(r, new)
      BY <1>7 DEF ResetOthers, Doing
    <2>2. \A p \in Step(r).on : new[p] = held[r][p] \/ new[p] = ResetTables(held[r][p])
      OBVIOUS
    <2> HIDE DEF new
    <2>3. \A p \in Parts : p \in Step(r).on => Right(task, r, n + 1, new[p], p)
      BY <1>0, <1>r, <2>1, <2>2, ResetIsRight DEF P
    <2> QED
      BY <2>1, <2>3, <1>3
  <1>8. ASSUME NEW new, Running(r), Step(r).do \in Wraps, Change(r, new),
               \A p \in Step(r).on : held[r][p].weights # Meta => new[p] = held[r][p],
               \A p \in Step(r).on : held[r][p].weights = Meta =>
                                        \E w : w # Meta /\ new[p] = Part(w, Set)
        PROVE  Keeps
    <2>1. \A p \in Parts : p \in Step(r).on => Right(task, r, n + 1, new[p], p)
      <3> SUFFICES ASSUME NEW p \in Step(r).on, p \in Parts PROVE Right(task, r, n + 1, new[p], p)
        OBVIOUS
      <3>1. Right(task, r, n, held[r][p], p) /\ n \in DOMAIN Program(task)
            /\ Step(r) = Program(task)[n]
        BY <1>r, <1>0, <1>8 DEF P
      <3> QED
        BY <1>0, <1>8, <3>1, WrapIsRight
    <2>2. Step(r).do \in {"build", "loadState", "create", "createOnMeta", "resetOthers",
                          "toDevice", "prepareDDP", "initialize", "restore"}
      BY <1>8 DEF Wraps
    <2> QED
      BY <1>3, <1>8, <2>1, <2>2
  <1>9. ASSUME WrapAlone(r) PROVE Keeps
    <2> DEFINE new == [part \in Step(r).on |-> ToDevice(held[r][part], r)]
    <2>1. Running(r) /\ Step(r).do = "toDevice" /\ Change(r, new)
      BY <1>9 DEF WrapAlone, Doing
    <2>2. \A p \in Step(r).on : /\ held[r][p].weights # Meta => new[p] = held[r][p]
                                /\ held[r][p].weights = Meta => new[p] = Part(Own(r), Set)
      BY DEF ToDevice, OnMeta, ResetParameters
    <2> HIDE DEF new
    <2>3. Step(r).do \in Wraps
      BY <2>1 DEF Wraps
    <2>4. \A p \in Step(r).on : held[r][p].weights = Meta => \E w : w # Meta /\ new[p] = Part(w, Set)
      BY <2>2, Distinct
    <2> QED
      BY <2>1, <2>2, <2>3, <2>4, <1>8
  <1>10. ASSUME PrepareDDP(r) PROVE Keeps
    <2> DEFINE new == [part \in Step(r).on |->
         LET p == held[r][part] IN IF ~OnMeta(p) THEN p
         ELSE IF RankOf("rdp", r) = 0 THEN ToDevice(p, r) ELSE ResetTables(ToEmpty(p))]
    <2>1. Running(r) /\ Step(r).do = "prepareDDP" /\ Change(r, new)
      BY <1>10 DEF PrepareDDP, Doing
    <2>2. \A p \in Step(r).on :
             /\ held[r][p].weights # Meta => new[p] = held[r][p]
             /\ held[r][p].weights = Meta => new[p] = Part(Own(r), Set) \/ new[p] = Part(Junk0, Set)
      <3>1. \A q : ToEmpty(q).weights = Junk0
        BY Distinct DEF ToEmpty
      <3> QED
        BY <3>1 DEF ToDevice, OnMeta, ResetParameters, ResetTables
    <2> HIDE DEF new
    <2>3. Step(r).do \in Wraps
      BY <2>1 DEF Wraps
    <2>4. \A p \in Step(r).on : held[r][p].weights = Meta => \E w : w # Meta /\ new[p] = Part(w, Set)
      BY <2>2, Distinct
    <2> QED
      BY <2>1, <2>2, <2>3, <2>4, <1>8
  <1>11. ASSUME Initialize(r) PROVE Keeps
    <2> DEFINE new == [part \in Step(r).on |->
         LET p == held[r][part] IN IF ~OnMeta(p) THEN p
         ELSE IF task.kept = "none" THEN ResetTables(ToEmpty(p))
         ELSE ResetParameters(ToEmpty(p), r)]
    <2>1. Running(r) /\ Step(r).do = "initialize" /\ Change(r, new)
      BY <1>11 DEF Initialize, Doing
    <2>2. \A p \in Step(r).on :
             /\ held[r][p].weights # Meta => new[p] = held[r][p]
             /\ held[r][p].weights = Meta => new[p] = Part(Own(r), Set) \/ new[p] = Part(Junk0, Set)
      <3>1. \A q : ToEmpty(q).weights = Junk0
        BY Distinct DEF ToEmpty
      <3> QED
        BY <3>1 DEF OnMeta, ResetParameters, ResetTables
    <2> HIDE DEF new
    <2>3. Step(r).do \in Wraps
      BY <2>1 DEF Wraps
    <2>4. \A p \in Step(r).on : held[r][p].weights = Meta => \E w : w # Meta /\ new[p] = Part(w, Set)
      BY <2>2, Distinct
    <2> QED
      BY <2>1, <2>2, <2>3, <2>4, <1>8
  <1>12. ASSUME RestoreState(r) PROVE Keeps
    <2> DEFINE new == [part \in Step(r).on |-> Part(Kept, held[r][part].table)]
    <2>1. Running(r) /\ Step(r).do = "restore" /\ Change(r, new)
      BY <1>12 DEF RestoreState, Doing
    <2>2. \A p \in Step(r).on : new[p] = Part(Kept, held[r][p].table)
      OBVIOUS
    <2> HIDE DEF new
    <2>3. \A p \in Parts : p \in Step(r).on => Right(task, r, n + 1, new[p], p)
      BY <1>0, <1>r, <2>1, <2>2, RestoreIsRight DEF P
    <2> QED
      BY <2>1, <2>3, <1>3
  <1>13. Keeps
    BY <1>1, <1>2, <1>4, <1>5, <1>6, <1>7, <1>9, <1>10, <1>11, <1>12 DEF LocalStep
  <1> QED
    BY <1>13 DEF n, P

\* A gang that meets.
LEMMA MeetingKeeps ==
    ASSUME PlaceOK, HeldOK, CacheOK, NEW r \in Team(task), MeetOthers(r)
    PROVE  \E S, n : Passes(S, n) /\ HeldOK' /\ CacheOK'
  <1> DEFINE P == Program(task)
  <1> DEFINE n == At(P, todo[r])
  <1> DEFINE x == Step(r).do
  <1> DEFINE g == GangAt(task, Collectives[x], r)
  <1>0. /\ task \in Tasks /\ Running(r) /\ x \in DOMAIN Collectives
        /\ MeetInBarrier(g) \/ Broadcast(g)
    BY NamesAreOnes DEF MeetOthers, PlaceOK
  <1>1. n \in DOMAIN P /\ Step(r) = P[n]
    BY <1>0, StepIs
  <1>2. x \in {"barrier", "broadcast", "broadcastDDP"}
    BY <1>0 DEF Collectives
  <1>3. r \in Range(g)
    <2>1. Collectives[x] \in Meetings
      BY <1>2 DEF Collectives, Meetings
    <2> QED
      BY <1>0, <2>1, GangFacts DEF GangLike
  <1>4. \A what : Together(g, what) => what = x
    BY <1>3 DEF Together, Doing
  <1>h. /\ DOMAIN held = Team(task)
        /\ \A q \in Team(task), p \in Parts : Right(task, q, At(P, todo[q]), held[q][p], p)
    BY DEF HeldOK
  <1>5. ASSUME Together(g, x), Advance(Range(g)), task' = task, failures' = failures
        PROVE  /\ Passes(Range(g), n) /\ GangLike(g, r, task, Collectives[x])
               /\ \A q \in Range(g) : Step(q) = P[n]
    BY <1>0, <1>5, GangPasses
  <1> HIDE DEF P, n, x, g
  <1>x. x = P[n].do
    BY <1>1 DEF x
  <1>6. CASE MeetInBarrier(g)
    <2>1. Together(g, "barrier") /\ Advance(Range(g)) /\ UNCHANGED <<task, held, cached, failures>>
      BY <1>6 DEF MeetInBarrier
    <2>2. x = "barrier" /\ Passes(Range(g), n)
      BY <1>4, <1>5, <2>1
    <2>3. \A y \in Wraps \cup WriteSends : y # "barrier"
      BY DEF Wraps, WriteSends
    <2>4. /\ \A q \in Range(g), p \in Parts :
              \/ Right(task, q, n + 1, held'[q][p], p)
              \/ /\ held'[q][p] = held[q][p]
                 /\ \A y \in Wraps \cup WriteSends :
                        ~(y = Program(task)[n].do /\ p \in Program(task)[n].on)
          /\ DOMAIN held' = Team(task)
          /\ \A q \in Team(task) \ Range(g) : held'[q] = held[q]
      BY <2>1, <2>2, <2>3, <1>x, <1>h DEF P
    <2>5. HeldOK'
      BY <2>2, <2>4, HeldMoves
    <2>6. Program(task)[n].do # "download" /\ cached' = cached
      BY <1>x, <2>1, <2>2 DEF P
    <2>7. CacheOK'
      BY <2>2, <2>6, CacheMoves
    <2> QED
      BY <2>2, <2>5, <2>7
  <1>7. CASE Broadcast(g)
    <2> DEFINE Here(q) == [part \in Parts |-> IF part \in Step(q).on THEN ToDevice(held[q][part], q)
                                         ELSE held[q][part]]
    <2> DEFINE From(q) == [part \in Parts |->
                          IF part \in Step(q).on
                          THEN Part(Here(g[1])[part].weights, Here(q)[part].table)
                          ELSE held[q][part]]
    <2>1. /\ Together(g, "broadcast") \/ Together(g, "broadcastDDP")
          /\ Advance(Range(g)) /\ task' = task /\ cached' = cached /\ failures' = failures
          /\ held' = [q \in JobRanks |-> IF q \in Range(g) THEN From(q) ELSE held[q]]
      BY <1>7 DEF Broadcast
    <2>2. x \in Broadcasts /\ Together(g, x)
      BY <1>4, <2>1 DEF Broadcasts
    <2>3. /\ Passes(Range(g), n) /\ GangLike(g, r, task, Collectives[x])
          /\ \A q \in Range(g) : Step(q) = P[n]
      BY <1>5, <2>1, <2>2
    <2>4. Range(g) \subseteq Team(task) /\ g[1] \in Range(g)
          /\ \A q \in Range(g) : At(P, todo[q]) = n
      BY <2>3 DEF GangLike, Passes, P
    <2>5. ASSUME NEW q \in Range(g), NEW p \in Parts, p \in P[n].on
          PROVE  /\ From(q)[p] = Part(ToDevice(held[g[1]][p], g[1]).weights, ToDevice(held[q][p], q).table)
                 /\ Right(task, q, n + 1, From(q)[p], p)
      <3>1. p \in Step(q).on /\ p \in Step(g[1]).on
        BY <2>3, <2>4, <2>5
      <3>2. Here(q)[p] = ToDevice(held[q][p], q) /\ Here(g[1])[p] = ToDevice(held[g[1]][p], g[1])
        BY <3>1
      <3>3. From(q)[p] = Part(ToDevice(held[g[1]][p], g[1]).weights, ToDevice(held[q][p], q).table)
        BY <3>1, <3>2
      <3> HIDE DEF From, Here
      <3>4. Right(task, q, n, held[q][p], p) /\ Right(task, g[1], n, held[g[1]][p], p)
        BY <1>h, <2>4
      <3>5. GangAt(task, "dp", q) = g
        <4>1. CASE x = "broadcast"
          <5>1. Collectives[x] = "dp"
            BY <4>1 DEF Collectives
          <5> QED
            BY <2>3, <5>1 DEF GangLike
        <4>2. CASE x = "broadcastDDP"
          <5>1. Collectives[x] = "rdp"
            BY <4>2 DEF Collectives
          <5>2. Has(P, DDPs, p)
            BY <1>1, <1>x, <2>5, <4>2 DEF Has, Hits, DDPs
          <5>3. Replicated(task)
            BY <1>0, <5>2, Programs DEF Safe, P
          <5> QED
            BY <1>0, <2>3, <2>4, <5>1, <5>3, DDPGang DEF GangLike
        <4> QED
          BY <2>2, <4>1, <4>2 DEF Broadcasts
      <3>6. q \in Team(task) /\ n \in DOMAIN Program(task) /\ p \in Program(task)[n].on
            /\ Program(task)[n].do \in Broadcasts
        BY <1>1, <1>x, <2>2, <2>4, <2>5 DEF P
      <3>7. Right(task, q, n + 1, Part(ToDevice(held[g[1]][p], g[1]).weights, ToDevice(held[q][p], q).table), p)
        BY <1>0, <3>4, <3>5, <3>6, SendIsRight
      <3> QED
        BY <3>3, <3>7
    <2>6. ASSUME NEW q \in Range(g), NEW p \in Parts, p \notin P[n].on
          PROVE  From(q)[p] = held[q][p]
      BY <2>3, <2>6
    <2> HIDE DEF From, Here
    <2>7. /\ DOMAIN held' = Team(task)
          /\ \A q \in Team(task) : held'[q] = IF q \in Range(g) THEN From(q) ELSE held[q]
      BY <2>1, NamesAreOnes
    <2>8. /\ \A q \in Team(task) \ Range(g) : held'[q] = held[q]
          /\ \A q \in Range(g) : held'[q] = From(q)
      BY <2>4, <2>7
    <2>9. \A q \in Range(g), p \in Parts :
              \/ Right(task, q, n + 1, held'[q][p], p)
              \/ /\ held'[q][p] = held[q][p]
                 /\ \A y \in Wraps \cup WriteSends :
                        ~(y = Program(task)[n].do /\ p \in Program(task)[n].on)
      BY <2>5, <2>6, <2>8 DEF P
    <2>10. HeldOK'
      BY <2>3, <2>7, <2>8, <2>9, HeldMoves
    <2>11. Program(task)[n].do # "download"
      BY <1>x, <2>2 DEF P, Broadcasts
    <2>12. CacheOK'
      BY <2>1, <2>3, <2>11, CacheMoves
    <2> QED
      BY <2>3, <2>10, <2>12
  <1> QED
    BY <1>0, <1>6, <1>7 DEF g

\* No rank is refused anything.
LEMMA NoneRefused ==
    ASSUME BringupInv, NEW r \in Team(task), Running(r)
    PROVE  ~Refused(r)
  <1> DEFINE P == Program(task)
  <1> DEFINE n == At(P, todo[r])
  <1>0. /\ task \in Tasks /\ n \in DOMAIN P /\ Step(r) = P[n] /\ \E p \in Parts : p \in P[n].on
    BY StepIs DEF BringupInv, PlaceOK
  <1>1. /\ DOMAIN P = 1..Len(P) /\ Len(P) \in Nat /\ \A i \in DOMAIN P : P[i].on \subseteq Parts
    <2>1. P \in Seq(Instructions) /\ DOMAIN P = 1..Len(P) /\ Len(P) \in Nat
      BY <1>0, ProgramIs
    <2> HIDE DEF P
    <2>2. \A i \in DOMAIN P : P[i] \in Instructions
      BY <2>1
    <2> QED
      BY <2>1, <2>2 DEF Instructions
  <1>2. \A p \in Parts : Right(task, r, n, held[r][p], p)
    BY DEF BringupInv, HeldOK
  <1>3. \A p \in Parts : Safe(P, task, p)
    BY <1>0, Programs
  <1> HIDE DEF P
  <1>4. ~(Step(r).do = "findCached" /\ ~cached)
    <2> SUFFICES ASSUME P[n].do = "findCached" PROVE cached
      BY <1>0
    <2>1. PICK p \in Parts : p \in P[n].on
      BY <1>0
    <2>2. Hits(P[n], Finds, p)
      BY <2>1 DEF Hits, Finds
    <2>3. EndsBefore(P, n, Downloads, Nothings, p) /\ EndsBefore(P, n, Barriers, Downloads, p)
      BY <1>0, <1>3, <2>2 DEF Safe, Sane, Prepared
    <2>4. PICK j \in DOMAIN P : j < n /\ Hits(P[j], Downloads, p)
      BY <2>3 DEF EndsBefore
    <2>5. PICK i \in DOMAIN P : /\ i < n /\ Hits(P[i], Barriers, p)
                                /\ \A k \in DOMAIN P : i < k /\ k < n => ~Hits(P[k], Downloads, p)
      BY <2>3 DEF EndsBefore
    <2>6. P[j].do = "download" /\ P[i].do = "barrier" /\ i # j
      BY <2>4, <2>5 DEF Hits, Downloads, Barriers
    <2>7. ~(i < j) /\ i \in Nat /\ j \in Nat /\ n \in Nat
      BY <1>0, <1>1, <2>4, <2>5
    <2>8. P[i].do \in DOMAIN Collectives /\ Collectives[P[i].do] = "root"
      BY <2>6 DEF Collectives
    <2>9. 0 \in Team(task) /\ 0 \in Range(GangAt(task, "root", r))
      <3>1. GangLike(GangAt(task, "root", r), r, task, "root")
        BY <1>0, GangFacts DEF Meetings
      <3> QED
        BY <1>0, <3>1, LayoutOK DEF GangLike
    <2> DEFINE a == At(P, todo[0])
    <2>10. a > i
      BY <2>5, <2>8, <2>9 DEF BringupInv, SyncOK, P
    <2>11. a \in Int
      <3>1. Suffix(P, todo[0])
        BY <2>9 DEF BringupInv, PlaceOK, P
      <3> QED
        BY <3>1, <1>1 DEF Suffix, At
    <2>12. a > j
      <3> HIDE DEF a, n
      <3> QED
        BY <2>6, <2>7, <2>10, <2>11
    <2> QED
      BY <2>6, <2>12 DEF BringupInv, CacheOK, P
  <1>5. ASSUME Step(r).do = "initialize", task.kept = "none", RankOf("dp", r) = 0,
               NEW part \in Step(r).on, OnMeta(held[r][part])
        PROVE  FALSE
    <2>1. part \in Parts /\ Hits(P[n], Initializes, part)
      BY <1>0, <1>1, <1>5 DEF Hits, Initializes
    <2>2. EndsBefore(P, n, Sources, Writers, part)
      BY <1>0, <1>3, <1>5, <2>1 DEF Safe, Prepared
    <2>3. EndsBefore(P, n, Loads, Writers, part) \/ EndsBefore(P, n, Creates, Writers, part)
      <3>1. \A st : Hits(st, Sources, part) => Hits(st, Loads, part) \/ Hits(st, Creates, part)
        BY DEF Hits, Sources, Loads, Creates
      <3> QED
        BY <2>2, <3>1 DEF EndsBefore
    <2>4. IsFirst(task, r)
      BY <1>5, NamesAreOnes DEF RankOf, IsFirst
    <2>5. held[r][part].weights = Pretrained \/ \E q : held[r][part].weights = Own(q)
      BY <1>2, <2>1, <2>3, <2>4 DEF Right, P
    <2> QED
      BY <1>5, <2>5, Distinct DEF OnMeta
  <1>6. ASSUME Step(r).do = "restore", NEW part \in Step(r).on, OnMeta(held[r][part])
        PROVE  FALSE
    <2>1. part \in Parts /\ Hits(P[n], Restores, part)
      BY <1>0, <1>1, <1>6 DEF Hits, Restores
    <2>2. EndsBefore(P, n, Wraps, Builders, part)
      BY <1>0, <1>3, <2>1 DEF Safe, Prepared
    <2> QED
      BY <1>2, <1>6, <2>1, <2>2 DEF Right, OnMeta, P
  <1> QED
    BY <1>4, <1>5, <1>6 DEF Refused

\* A rank that fails, for its own reason or because it waits for one that did.
LEMMA FailsKeep ==
    ASSUME BringupInv, NEW r \in Team(task), Fails(r), held' = held, cached' = cached,
           failures' \in Nat, failures' > 0,
           ~task.onMeta => \E q \in Team(task), j \in DOMAIN Program(task) :
                              /\ q = r \/ outcome[q] = "failed"
                              /\ Program(task)[j].do = "barrier"
                              /\ At(Program(task), todo[q]) <= j
    PROVE  BringupInv'
  <1> DEFINE T == Team(task)
  <1> DEFINE P == Program(task)
  <1>0. /\ task \in Tasks /\ failures \in Nat
        /\ todo \in [T -> Seq(Instructions)] /\ outcome \in [T -> Outcomes]
        /\ \A q \in T : Suffix(P, todo[q]) /\ (outcome[q] = "ready" <=> Len(todo[q]) = 0)
    BY DEF BringupInv, PlaceOK
  <1>1. task' = task /\ todo' = todo /\ outcome' = [outcome EXCEPT ![r] = "failed"] /\ outcome[r] = "running"
    BY DEF Fails
  <1>2. Team(task') = T /\ Program(task') = P
    BY <1>1
  <1> HIDE DEF T, P
  <1>3. /\ outcome' \in [T -> Outcomes] /\ outcome'[r] = "failed"
        /\ \A q \in T : q # r => outcome'[q] = outcome[q]
    BY <1>0, <1>1 DEF T, Outcomes
  <1>4. PlaceOK'
    <2>1. \A q \in T : outcome'[q] = "ready" <=> outcome[q] = "ready"
      BY <1>1, <1>3
    <2> QED
      BY <1>0, <1>1, <1>2, <1>3, <2>1 DEF PlaceOK
  <1>5. SyncOK'
    BY <1>1, <1>2 DEF BringupInv, SyncOK, T, P
  <1>6. CacheOK'
    BY <1>1, <1>2 DEF BringupInv, CacheOK, P
  <1>7. HeldOK'
    BY <1>1, <1>2 DEF BringupInv, HeldOK, T, P
  <1>8. StuckOK'
    <2>1. ASSUME ~task.onMeta
          PROVE  \E q \in T, j \in DOMAIN P :
                    outcome'[q] = "failed" /\ P[j].do = "barrier" /\ At(P, todo'[q]) <= j
      <3>1. PICK q \in T, j \in DOMAIN P : /\ q = r \/ outcome[q] = "failed"
                                           /\ P[j].do = "barrier" /\ At(P, todo[q]) <= j
        BY <2>1 DEF T, P
      <3>2. outcome'[q] = "failed"
        BY <1>3, <3>1
      <3> QED
        BY <1>1, <3>1, <3>2
    <2> QED
      BY <1>1, <1>2, <2>1 DEF StuckOK
  <1> QED
    BY <1>4, <1>5, <1>6, <1>7, <1>8 DEF BringupInv

LEMMA FaultKeeps ==
    ASSUME BringupInv, NEW r \in Team(task), Fault(r)
    PROVE  BringupInv'
  <1> DEFINE P == Program(task)
  <1> DEFINE n == At(P, todo[r])
  <1>1. Running(r) /\ Fallible(r) /\ Fail(r) /\ failures' = failures + 1
    BY DEF Fault
  <1>2. PlaceOK
    BY DEF BringupInv
  <1>3. /\ n \in DOMAIN P /\ Step(r) = P[n] /\ \E p \in Parts : p \in P[n].on
    BY <1>1, <1>2, StepIs
  <1>4. Fails(r) /\ held' = held /\ cached' = cached
    BY <1>1 DEF Fail, Fails, Running
  <1>5. task \in Tasks /\ failures \in Nat
    BY <1>2 DEF PlaceOK
  <1>6. failures' \in Nat /\ failures' > 0
    BY <1>1, <1>5
  <1>7. P[n].do \in Fallibles
    BY <1>1, <1>3 DEF Fallible, Fallibles
  <1>8. ASSUME ~task.onMeta
        PROVE  \E j \in DOMAIN P : P[j].do = "barrier" /\ n <= j
    <2>1. PICK p \in Parts : p \in P[n].on
      BY <1>3
    <2>2. Followed(P, Fallibles, Barriers, p)
      BY <1>5, <1>8, Programs DEF Safe
    <2>3. PICK j \in DOMAIN P : j > n /\ Hits(P[j], Barriers, p)
      BY <1>3, <1>7, <2>1, <2>2 DEF Followed, Hits
    <2>4. DOMAIN P = 1..Len(P) /\ Len(P) \in Nat
      BY <1>5, ProgramIs
    <2> HIDE DEF P, n
    <2>5. n <= j
      BY <1>3, <2>3, <2>4
    <2> QED
      BY <2>3, <2>5 DEF Hits, Barriers
  <1> QED
    BY <1>4, <1>6, <1>8, FailsKeep

\* A member of a gang that is not running and has not passed the collective has failed.
LEMMA TimeOutKeeps ==
    ASSUME BringupInv, NEW r \in Team(task), TimeOut(r)
    PROVE  BringupInv'
  <1> DEFINE P == Program(task)
  <1> DEFINE n == At(P, todo[r])
  <1> DEFINE kind == Collectives[Step(r).do]
  <1>1. /\ Running(r) /\ Step(r).do \in DOMAIN Collectives /\ Fail(r) /\ failures' = failures
        /\ \E q \in Range(GangAt(task, kind, r)) : outcome[q] # "running"
    BY NamesAreOnes DEF TimeOut
  <1>2. PlaceOK
    BY DEF BringupInv
  <1>3. n \in DOMAIN P /\ Step(r) = P[n]
    BY <1>1, <1>2, StepIs
  <1>4. Fails(r) /\ held' = held /\ cached' = cached
    BY <1>1 DEF Fail, Fails, Running
  <1>5. task \in Tasks /\ failures \in Nat
    BY <1>2 DEF PlaceOK
  <1>6. kind \in Meetings
    BY <1>1 DEF Collectives, Meetings
  <1>7. GangLike(GangAt(task, kind, r), r, task, kind)
    BY <1>5, <1>6, GangFacts
  <1>8. PICK q \in Range(GangAt(task, kind, r)) : outcome[q] # "running"
    BY <1>1
  <1>9. q \in Team(task) /\ GangAt(task, kind, q) = GangAt(task, kind, r) /\ r \in Range(GangAt(task, kind, r))
    BY <1>7 DEF GangLike
  <1>10. outcome[q] = "failed"
    <2> SUFFICES ASSUME outcome[q] = "ready" PROVE FALSE
      BY <1>2, <1>8, <1>9 DEF PlaceOK, Outcomes
    <2>1. Len(todo[q]) = 0 /\ DOMAIN P = 1..Len(P) /\ Len(P) \in Nat
      BY <1>2, <1>5, <1>9, ProgramIs DEF PlaceOK
    <2>2. At(P, todo[q]) = Len(P) + 1
      <3> HIDE DEF P
      <3> QED
        BY <2>1 DEF At
    <2>3. At(P, todo[q]) > n /\ n \in Nat
      <3> HIDE DEF P, n
      <3> QED
        BY <1>3, <2>1, <2>2
    <2>4. P[n].do \in DOMAIN Collectives /\ r \in Range(GangAt(task, Collectives[P[n].do], q))
      BY <1>1, <1>3, <1>9
    <2>5. At(P, todo[r]) > n
      BY <1>3, <1>9, <2>3, <2>4 DEF BringupInv, SyncOK
    <2> HIDE DEF P
    <2> QED
      BY <2>3, <2>5
  <1>11. /\ failures > 0
         /\ ~task.onMeta => \E y \in Team(task), j \in DOMAIN P :
               outcome[y] = "failed" /\ P[j].do = "barrier" /\ At(P, todo[y]) <= j
    BY <1>9, <1>10 DEF BringupInv, StuckOK
  <1>12. failures' \in Nat /\ failures' > 0
    BY <1>1, <1>5, <1>11
  <1> QED
    BY <1>4, <1>11, <1>12, FailsKeep

LEMMA BringupStarts ==
    ASSUME BringupInit
    PROVE  BringupInv
  <1> DEFINE T == Team(task)
  <1> DEFINE P == Program(task)
  <1>0. /\ task \in Tasks /\ failures = 0 /\ cached = FALSE
        /\ todo = [r \in T |-> P] /\ outcome = [r \in T |-> "running"]
        /\ held = [r \in T |-> Created(TRUE, r)]
    BY NamesAreOnes DEF BringupInit
  <1>1. P \in Seq(Instructions) /\ Len(P) \in Nat \ {0} /\ DOMAIN P = 1..Len(P) /\ 0 \in T
    BY <1>0, ProgramIs, LayoutOK
  <1> HIDE DEF T, P
  <1>2. At(P, P) = 1 /\ Suffix(P, P)
    <2>1. At(P, P) = 1
      BY <1>1 DEF At
    <2>2. \A i \in 1..Len(P) : P[i] = P[1 + i - 1]
      BY <1>1
    <2> QED
      BY <1>1, <2>1, <2>2 DEF Suffix
  <1>3. \A r \in T : todo[r] = P /\ outcome[r] = "running" /\ At(P, todo[r]) = 1
    BY <1>0, <1>2
  <1>4. \A i \in DOMAIN P : ~(1 > i)
    BY <1>1
  <1>5. PlaceOK
    <2>1. todo \in [T -> Seq(Instructions)] /\ outcome \in [T -> Outcomes]
      BY <1>0, <1>1 DEF Outcomes
    <2>2. \A r \in T : Suffix(P, todo[r]) /\ (outcome[r] = "ready" <=> Len(todo[r]) = 0)
      BY <1>1, <1>2, <1>3
    <2> QED
      BY <1>0, <2>1, <2>2 DEF PlaceOK, T, P
  <1>6. SyncOK
    BY <1>3, <1>4 DEF SyncOK, T, P
  <1>7. CacheOK
    BY <1>1, <1>3, <1>4 DEF CacheOK, P
  <1>8. StuckOK
    BY <1>3 DEF StuckOK, T
  <1>9. HeldOK
    <2>1. \A W, C, p : ~EndsBefore(P, 1, W, C, p)
      BY <1>1 DEF EndsBefore
    <2>2. \A r \in T, p \in Parts : held[r][p] = Part(Meta, Meta)
      BY <1>0 DEF Created
    <2>3. ASSUME NEW r \in T, NEW p \in Parts PROVE Right(task, r, 1, held[r][p], p)
      <3>1. Part(Meta, Meta).weights = Meta /\ Part(Meta, Meta).table = Meta
        BY Distinct
      <3> QED
        BY <2>1, <2>2, <3>1 DEF Right, P
    <2>4. DOMAIN held = T
      BY <1>0
    <2> QED
      BY <1>3, <2>3, <2>4 DEF HeldOK, T, P
  <1> QED
    BY <1>5, <1>6, <1>7, <1>8, <1>9 DEF BringupInv

LEMMA NextKeeps ==
    ASSUME BringupInv, [BringupNext]_bringupVars
    PROVE  BringupInv'
  <1>0. PlaceOK /\ SyncOK /\ CacheOK /\ StuckOK /\ HeldOK
    BY DEF BringupInv
  <1>1. ASSUME NEW S, NEW n, Passes(S, n), HeldOK', CacheOK' PROVE BringupInv'
    <2>1. PlaceOK' /\ SyncOK' /\ StuckOK'
      BY <1>0, <1>1, MovesAt, MovesKeep
    <2> QED
      BY <1>1, <2>1 DEF BringupInv
  <1>2. ASSUME NEW r \in Team(task), RankStep(r) PROVE BringupInv'
    <2>1. CASE ~Refused(r) /\ LocalStep(r)
      BY <1>0, <1>1, <2>1, LocalKeeps
    <2>2. CASE MeetOthers(r)
      BY <1>0, <1>1, <2>2, MeetingKeeps
    <2>3. CASE Refuse(r)
      BY <2>3, NoneRefused DEF Refuse
    <2>4. CASE TimeOut(r)
      BY <2>4, TimeOutKeeps
    <2> QED
      BY <1>2, <2>1, <2>2, <2>3, <2>4 DEF RankStep
  <1>3. ASSUME NEW r \in Team(task), Fault(r) PROVE BringupInv'
    BY <1>3, FaultKeeps
  <1>4. CASE UNCHANGED bringupVars
    BY <1>4 DEF bringupVars, BringupInv, PlaceOK, SyncOK, CacheOK, StuckOK, HeldOK
  <1> QED
    BY <1>2, <1>3, <1>4, NamesAreOnes DEF BringupNext

LEMMA AlwaysBringupInv == BringupSpec => []BringupInv
  <1>1. BringupInit => BringupInv
    BY BringupStarts
  <1>2. BringupInv /\ [BringupNext]_bringupVars => BringupInv'
    BY NextKeeps
  <1> QED
    BY <1>1, <1>2, PTL DEF BringupSpec

\* A rank that is ready has come to the end.
LEMMA ReadyIsEnd ==
    ASSUME PlaceOK, NEW r \in Team(task), outcome[r] = "ready"
    PROVE  /\ At(Program(task), todo[r]) = Len(Program(task)) + 1
           /\ \A i \in DOMAIN Program(task) : At(Program(task), todo[r]) > i
  <1> DEFINE P == Program(task)
  <1>1. Len(todo[r]) = 0 /\ DOMAIN P = 1..Len(P) /\ Len(P) \in Nat
    BY ProgramIs DEF PlaceOK
  <1> HIDE DEF P
  <1>2. At(P, todo[r]) = Len(P) + 1
    BY <1>1 DEF At
  <1>3. \A i \in DOMAIN P : Len(P) + 1 > i
    BY <1>1
  <1> QED
    BY <1>2, <1>3 DEF P

(***************************************************************************)
(* A rank fails only if some rank fails by itself: nothing is refused for  *)
(* what another rank did not do in time.  And if one rank is ready none    *)
(* failed, whatever the task and the layout: some barrier of the root gang *)
(* follows all that may fail in bootstrap(), wrap(), the hubs and          *)
(* open_dataset(), a rank that failed stands before it for good, and one   *)
(* that is ready is beyond it.                                             *)
(***************************************************************************)
THEOREM NoneAlone == BringupSpec => []AllOrNone
  <1>1. BringupInv => AllOrNone
    <2> SUFFICES ASSUME BringupInv PROVE AllOrNone
      OBVIOUS
    <2>0. PlaceOK /\ SyncOK /\ StuckOK /\ task \in Tasks
      BY DEF BringupInv, PlaceOK
    <2>1. (\E r \in Team(task) : outcome[r] = "failed") => failures > 0
      BY <2>0 DEF StuckOK
    <2>2. ASSUME NEW r \in Team(task), outcome[r] = "ready", ~task.onMeta,
                 NEW q \in Team(task), outcome[q] = "failed"
          PROVE  FALSE
      <3>1. PICK x \in Team(task), j \in DOMAIN Program(task) :
                Program(task)[j].do = "barrier" /\ At(Program(task), todo[x]) <= j
        BY <2>0, <2>2 DEF StuckOK
      <3>2. At(Program(task), todo[r]) > j
        BY <2>0, <2>2, ReadyIsEnd
      <3>3. GangLike(GangAt(task, "root", r), r, task, "root")
        BY <2>0, GangFacts DEF Meetings
      <3>4. x \in Range(GangAt(task, "root", r))
        BY <3>3 DEF GangLike
      <3>5. Program(task)[j].do \in DOMAIN Collectives /\ Collectives[Program(task)[j].do] = "root"
        BY <3>1 DEF Collectives
      <3>6. At(Program(task), todo[x]) > j
        BY <2>0, <3>2, <3>4, <3>5 DEF SyncOK
      <3>7. At(Program(task), todo[x]) \in Int /\ j \in Int
        <4>1. Suffix(Program(task), todo[x]) /\ Len(Program(task)) \in Nat
              /\ DOMAIN Program(task) = 1..Len(Program(task))
          BY <2>0, ProgramIs DEF PlaceOK
        <4>2. Len(todo[x]) \in Nat
          BY <4>1 DEF Suffix
        <4> QED
          BY <4>1, <4>2 DEF At
      <3> QED
        BY <3>1, <3>6, <3>7
    <2> QED
      BY <2>1, <2>2, NamesAreOnes DEF AllOrNone
  <1> QED
    BY <1>1, AlwaysBringupInv, PTL

\* A data parallel gang of one is one everywhere.
LEMMA FirstAlone ==
    ASSUME NEW t \in Tasks, NEW r \in Team(t), ~(SizeOf(t, "dp") > 1)
    PROVE  IsFirst(t, r) /\ SizeOf(t, "dp") = 1
  <1> DEFINE l == EffectiveLayout(t)
  <1>0. /\ l \in Layouts /\ Accepted(l) /\ 0 \in RanksOf(l) /\ 0 \in Team(t) /\ r \in RanksOf(l)
        /\ \A kind : \A q \in RanksOf(l) : GangAt(t, kind, q) = GangsOf(l, q)[kind]
    BY LayoutOK DEF Team
  <1> DEFINE g == GangAt(t, "dp", r)
  <1> DEFINE h == GangAt(t, "dp", 0)
  <1>1. SizeOf(t, "dp") = Len(h)
    BY DEF SizeOf, GangAt
  <1>2. g = MeshColumn(l.size, l.tp, r % l.tp) /\ h = MeshColumn(l.size, l.tp, 0 % l.tp)
    BY <1>0, GangIs
  <1>3. DOMAIN g = DOMAIN h
    <2> HIDE DEF l
    <2> QED
      BY <1>2 DEF MeshColumn
  <1>4. GangLike(g, r, t, "dp") /\ GangLike(h, 0, t, "dp")
    BY <1>0, GangFacts DEF Meetings
  <1>5. PICK n \in Nat \ {0} : DOMAIN h = 1..n
    BY <1>4 DEF GangLike
  <1>6. \E f : h = [c \in 1..(l.size \div l.tp) |-> f[c]]
    <2> HIDE DEF l
    <2>1. h = [c \in 1..(l.size \div l.tp) |-> h[c]]
      BY <1>2 DEF MeshColumn
    <2> QED
      BY <2>1
  <1>7. l.size \div l.tp \in Nat
    BY <1>0, DivMod DEF Layouts
  <1> HIDE DEF g, h, l
  <1>8. Len(h) = l.size \div l.tp /\ DOMAIN h = 1..(l.size \div l.tp)
    BY <1>6, <1>7
  <1>9. Len(h) = 1 /\ DOMAIN h = 1..1
    <2>1. 1 \in 1..n
      BY <1>5
    <2>2. l.size \div l.tp >= 1
      BY <1>5, <1>7, <1>8, <2>1
    <2> QED
      BY <1>1, <1>7, <1>8, <2>2
  <1>10. g[1] = r
    <2>1. PICK i \in DOMAIN g : g[i] = r
      BY <1>4 DEF GangLike, Range
    <2>2. i = 1
      BY <1>3, <1>9, <2>1
    <2> QED
      BY <2>1, <2>2
  <1> QED
    BY <1>1, <1>9, <1>10, FirstRank DEF IsFirst, Meetings, g

(***************************************************************************)
(* A rank that is ready holds the weights that were asked for, and its     *)
(* tables, in all the ways a model is brought up: whether it was created,  *)
(* read from a file, or restored from the job's checkpoint, by the rank    *)
(* itself or by the first of its gang, on the meta device or off it,       *)
(* wrapped by DDP, by FSDP or not at all, under any accepted layout of any *)
(* number of processes.                                                    *)
(***************************************************************************)
THEOREM ReadyIsRight == BringupSpec => []ModelsReady
  <1>1. ASSUME BringupInv, NEW r \in Team(task), outcome[r] = "ready", Delivered(r), NEW p \in Parts
        PROVE  held[r][p] = Part(Intended(r), IF Intended(r) = Meta THEN Meta ELSE Set)
    <2> DEFINE P == Program(task)
    <2> DEFINE N == Len(P) + 1
    <2> DEFINE m == held[r][p]
    <2> DEFINE I == Intended(r)
    <2>0. /\ PlaceOK /\ HeldOK /\ task \in Tasks
      BY <1>1 DEF BringupInv, PlaceOK
    <2>1. At(P, todo[r]) = N
      BY <1>1, <2>0, ReadyIsEnd
    <2>2. Right(task, r, N, m, p)
      BY <2>0, <2>1 DEF HeldOK
    <2>3. Finished(P, task, p)
      BY <2>0, Programs
    <2> HIDE DEF P
    <2>4. /\ IsFirst(task, r) \/ EndsWith(P, Broadcasts, Writers, p) =>
               /\ EndsWith(P, Loads, Writers, p) => m.weights = Pretrained
               /\ EndsWith(P, Creates, Writers, p) => m.weights = Own(GangAt(task, "dp", r)[1])
          /\ ~task.meta /\ EndsWith(P, Creates, WriteSends, p) => m.weights = Own(r)
          /\ EndsWith(P, Restores, WriteSends, p) => m.weights = Kept
          /\ P = Do("createOnMeta") => m = Part(Meta, Meta)
          /\ m = Part(m.weights, m.table) /\ (m.weights # Meta => m.table = Set)
      BY <2>2 DEF Right, EndsWith, P
    <2>5. ~(SizeOf(task, "dp") > 1) => IsFirst(task, r) /\ SizeOf(task, "dp") = 1
      BY <2>0, FirstAlone
    <2>6. RankOf("dp", r) = 0 <=> IsFirst(task, r)
      BY NamesAreOnes DEF RankOf, IsFirst
    <2>7. GangOf("dp", r) = GangAt(task, "dp", r)
      BY NamesAreOnes
    <2>8. /\ task.task \in {"train", "reference", "load", "custom", "create", "dataset"}
          /\ task.kept \in {"none", "full"}
          /\ task.meta \in BOOLEAN /\ task.onMeta \in BOOLEAN /\ task.rank0only \in BOOLEAN
      BY <2>0, TaskAssumption
    <2>d. /\ Meta # Pretrained /\ Meta # Kept /\ \A q : Own(q) # Meta
      BY Distinct
    <2> HIDE DEF m, N, I
    <2>9. ASSUME m.weights = I, I # Meta
          PROVE  m = Part(I, IF I = Meta THEN Meta ELSE Set)
      BY <2>4, <2>9
    <2>10. CASE task.task = "train" /\ task.kept = "full"
      <3>1. I = Kept
        BY <2>10 DEF I, Intended
      <3>2. m.weights = Kept
        BY <2>3, <2>4, <2>10 DEF Finished
      <3> QED
        BY <2>9, <2>d, <3>1, <3>2 DEF m, I
    <2>11. CASE task.task = "train" /\ task.kept = "none"
      <3>1. I = IF Origin(task.section) = "family" THEN Own(GangAt(task, "dp", r)[1]) ELSE Pretrained
        BY <2>7, <2>11 DEF I, Intended
      <3>2. SizeOf(task, "dp") # 1 => EndsWith(P, Broadcasts, Writers, p)
        BY <2>3, <2>11 DEF Finished
      <3>3. IsFirst(task, r) \/ EndsWith(P, Broadcasts, Writers, p)
        <4>1. CASE SizeOf(task, "dp") = 1
          BY <2>5, <4>1
        <4>2. CASE SizeOf(task, "dp") # 1
          BY <3>2, <4>2
        <4> QED
          BY <4>1, <4>2
      <3>4. IF Origin(task.section) = "family" THEN EndsWith(P, Creates, Writers, p) ELSE EndsWith(P, Loads, Writers, p)
        BY <2>3, <2>11 DEF Finished
      <3>5. m.weights = I /\ I # Meta
        BY <2>4, <2>d, <3>1, <3>3, <3>4
      <3> QED
        BY <2>9, <3>5 DEF m, I
    <2>12. CASE task.task = "reference"
      <3>1. I = Pretrained
        BY <2>12 DEF I, Intended
      <3>2. /\ EndsWith(P, Loads, Writers, p)
            /\ SizeOf(task, "dp") > 1 => EndsWith(P, Broadcasts, Writers, p)
        BY <2>3, <2>12 DEF Finished
      <3>3. m.weights = Pretrained
        BY <2>4, <2>5, <3>2
      <3> QED
        BY <2>9, <2>d, <3>1, <3>3 DEF m, I
    <2>13. CASE task.task \in {"load", "custom"}
      <3>1. I = Pretrained
        BY <2>13 DEF I, Intended
      <3>2. EndsWith(P, Loads, Writers, p) /\ (~task.rank0only => EndsWith(P, Broadcasts, Writers, p))
        BY <2>3, <2>13 DEF Finished
      <3>3. ~task.rank0only \/ IsFirst(task, r)
        BY <1>1, <2>6, <2>13 DEF Delivered
      <3>4. m.weights = Pretrained
        BY <2>4, <3>2, <3>3
      <3> QED
        BY <2>9, <2>d, <3>1, <3>4 DEF m, I
    <2>14. CASE task.task = "create" /\ task.onMeta
      <3>1. I = Meta
        BY <2>14 DEF I, Intended
      <3>2. P = Do("createOnMeta")
        BY <2>3, <2>14 DEF Finished
      <3>3. m = Part(Meta, Meta)
        BY <2>4, <3>2
      <3> QED
        BY <3>1, <3>3 DEF m, I
    <2>15. CASE task.task = "create" /\ ~task.onMeta
      <3>1. I = IF task.meta THEN Own(GangAt(task, "dp", r)[1]) ELSE Own(r)
        BY <2>7, <2>15 DEF I, Intended
      <3>2. /\ EndsWith(P, Creates, Writers, p)
            /\ ~task.meta => EndsWith(P, Creates, WriteSends, p)
            /\ task.meta /\ ~task.rank0only => EndsWith(P, Broadcasts, Writers, p)
        BY <2>3, <2>15 DEF Finished
      <3>3. ~task.rank0only \/ IsFirst(task, r)
        BY <1>1, <2>6, <2>15 DEF Delivered
      <3>4. m.weights = I /\ I # Meta
        BY <2>4, <2>d, <3>1, <3>2, <3>3
      <3> QED
        BY <2>9, <3>4 DEF m, I
    <2>16. CASE task.task = "dataset"
      BY <1>1, <2>16 DEF Delivered
    <2> QED
      BY <2>8, <2>10, <2>11, <2>12, <2>13, <2>14, <2>15, <2>16
  <1>2. BringupInv => ModelsReady
    BY <1>1, NamesAreOnes DEF ModelsReady
  <1> QED
    BY <1>2, AlwaysBringupInv, PTL
===============================================================================
