------------------------------- MODULE Shards --------------------------------
(***************************************************************************)
(* A model that is divided over the processes of a job: built or loaded on *)
(* the first rank of every data parallel gang, broadcast and sharded, run  *)
(* with its linear layers and embeddings split, saved in pieces, restored  *)
(* by the next job of the same training, and loaded from its checkpoint by *)
(* a training of any other layout.                                         *)
(*                                                                         *)
(* The model has an embedding divided by its vocabulary, one divided by    *)
(* its dimension, a projection divided by its output, one by its input,    *)
(* and possibly a buffer.  A tensor is a sequence of rows; every element   *)
(* of the whole model has an integer of its own, which an update increases *)
(* by Stride.  How a step's gradients are made equal is the subject of     *)
(* Steps, how files become a checkpoint that of Checkpoint; here a save    *)
(* takes all ranks from a step to its commit.                              *)
(***************************************************************************)
EXTENDS Gangs, SequencesExt

CONSTANTS
    Plans,              \* layout, whether saves are of the model only, whether
                        \* the model has a buffer
    Begun,              \* how the first training begins: "new" or "loaded" models
    Vocab, Dim, Inner, Outer,  \* num_embeddings, embed_dim, the dimensions of the projections
    MaxSteps,           \* bound on the steps of a training
    MaxKills,           \* bound on killed and resubmitted jobs
    MaxTrainings        \* bound on trainings, each begun from the previous model

ASSUME PlanAssumption ==
    \A p \in Plans :
        /\ p.layout \in [size : Nat \ {0}, tp : Nat \ {0}, local : Nat \ {0},
                         parallelism : {"ddp", "fsdp", "hybrid"}]
        /\ Accepted(p.layout)
        /\ \A n \in {Vocab, Dim, Inner} : n % p.layout.tp = 0
        /\ p.modelOnly \in BOOLEAN /\ p.buffered \in BOOLEAN

ASSUME BegunAssumption == Begun \subseteq {"new", "loaded"}

ASSUME SizeAssumption ==
    /\ {Vocab, Dim, Inner, Outer, MaxSteps} \subseteq Nat \ {0}
    /\ MaxKills \in Nat /\ MaxTrainings \in Nat

VARIABLES
    plan,
    pc,       \* per rank: where it is
    st,       \* per rank: what it would save, by kind
    step,     \* steps of this training
    version,  \* updates of the model, in all trainings
    tmp,      \* step_N.tmp by step: files by path
    ckpt,     \* step_N by step: files by path, and their version
    source,   \* the checkpoint the training was begun from
    kills, trainings

vars == <<plan, pc, st, step, version, tmp, ckpt, source, kills, trainings>>

-----------------------------------------------------------------------------
Layout == plan.layout
Ranks  == RanksOf(Layout)
Gang(r) == GangsOf(Layout, r)

Replicated == 9   \* the dimension of a tensor that tensor parallelism does not shard

\* get_shard_dims() of the modules, and the shapes of their parameters.
Parameters ==
    [vocab   |-> [rows |-> Vocab, cols |-> Dim,   dim |-> 0, first |-> 0],
     slice   |-> [rows |-> Vocab, cols |-> Dim,   dim |-> 1, first |-> 50],
     in      |-> [rows |-> Inner, cols |-> Dim,   dim |-> 0, first |-> 100],
     inBias  |-> [rows |-> Inner, cols |-> 1,     dim |-> 0, first |-> 200],
     out     |-> [rows |-> Outer, cols |-> Inner, dim |-> 1, first |-> 300],
     outBias |-> [rows |-> Outer, cols |-> 1,     dim |-> Replicated, first |-> 400]]

Buffer == [rows |-> 2, cols |-> 1, dim |-> Replicated, first |-> 500]

Names  == DOMAIN Parameters \cup (IF plan.buffered THEN {"buffer"} ELSE {})
Shape(p) == IF p = "buffer" THEN Buffer ELSE Parameters[p]

Stride == 1000

\* What a module holds that was neither loaded, received nor created on the first rank:
\* memory nothing was written to, or an initialization of its own.
Junk == -1

\* A tensor of the undivided model.
Whole(p, v) ==
    [i \in 1..Shape(p).rows |->
        [j \in 1..Shape(p).cols |->
            v * Stride + Shape(p).first + (i - 1) * Shape(p).cols + j]]

JunkOf(t)  == [i \in DOMAIN t |-> [j \in DOMAIN t[i] |-> Junk]]
Updated(t) == [i \in DOMAIN t |->
                  [j \in DOMAIN t[i] |-> IF t[i][j] = Junk THEN Junk ELSE t[i][j] + Stride]]

\* torch.cat, Tensor.size and Tensor.narrow for dimensions 0 and 1.
Cat(ts, dim) ==
    IF dim = 0 THEN FlattenSeq(ts)
    ELSE [i \in DOMAIN ts[1] |-> FlattenSeq([k \in DOMAIN ts |-> ts[k][i]])]

Extent(t, dim) == IF dim = 0 THEN Len(t) ELSE Len(t[1])

Narrow(t, dim, start, len) ==
    IF dim = 0 THEN SubSeq(t, start + 1, start + len)
    ELSE [i \in DOMAIN t |-> SubSeq(t[i], start + 1, start + len)]

\* _copy_from_linear and _copy_from_embedding: split k of n, for tensor parallel rank k.
SplitOf(t, dim, n, k) ==
    IF dim = Replicated THEN t
    ELSE LET len == Extent(t, dim) \div n IN Narrow(t, dim, k * len, len)

TpShard(p, t, g, r) == SplitOf(t, Shape(p).dim, Len(g.tp), RankIn(g.tp, r))

\* fully_shard: chunk k of n, of equal length but for the last ones, which may be empty.
ChunkOf(t, n, k) ==
    LET len == (Len(t) + n - 1) \div n
    IN  SubSeq(t, k * len + 1, Min({(k + 1) * len, Len(t)}))

SdpShard(p, t, g, r) ==
    IF p = "buffer" THEN t ELSE ChunkOf(t, Len(g.sdp), RankIn(g.sdp, r))

Sharded(g) == Len(g.sdp) > 1

-----------------------------------------------------------------------------
\* A checkpoint: where a rank reads and writes each kind, and which ones it writes.
Kinds == {"trainer", "model", "optimizer", "reader"}

PathOf(g, r, kind) ==
    CASE kind \in {"model", "optimizer"} -> <<kind, RankIn(g.tp, r), RankIn(g.sdp, r)>>
      [] kind = "reader"  -> <<kind, RankIn(g.dp, r), 0>>
      [] kind = "trainer" -> <<kind, r, 0>>

Writes(g, r, kind) ==
    CASE kind \in {"model", "optimizer"} -> RankIn(g.rdp, r) = 0
      [] kind = "reader"  -> RankIn(g.tp, r) = 0
      [] kind = "trainer" -> TRUE

FilesOf(g, r) ==
    LET kinds == {k \in Kinds : Writes(g, r, k) /\ (plan.modelOnly => k = "model")}
        paths == {PathOf(g, r, k) : k \in kinds}
    IN  [path \in paths |-> st[r][path[1]]]

Overwritten(old, new) ==
    [path \in DOMAIN old \cup DOMAIN new |-> IF path \in DOMAIN new THEN new[path] ELSE old[path]]

None == [files |-> <<>>, version |-> 0]

AnyCheckpoint  == {s \in 1..MaxSteps : ckpt[s] # None}
FullCheckpoint == {s \in AnyCheckpoint : \E r \in Ranks : <<"trainer", r, 0>> \in DOMAIN ckpt[s].files}
LastFull       == Max(FullCheckpoint)

\* Mutant of Reshard: the slice begins where its first source tensor does.
ReshardAtSource(splits, dim, target, rank) ==
    LET joined == [k \in DOMAIN splits |-> Cat(splits[k], 0)]
        here   == Extent(joined[1], dim)
        len    == (here * Len(splits)) \div target
        first  == rank * len
        from   == first \div here
        to     == (first + len - 1) \div here
    IN  IF Len(splits) = target THEN joined[rank + 1]
        ELSE IF dim = Replicated THEN joined[1]
        ELSE Narrow(Cat(SubSeq(joined, from + 1, to + 1), dim), dim, 0, len)

\* reshard_tensor(): splits by source tensor and data parallel rank.  A rank with an
\* empty FSDP shard may have left the tensor out, which makes no difference here.
Reshard(splits, dim, target, rank) ==
    LET joined == [k \in DOMAIN splits |-> Cat(splits[k], 0)]
        here   == Extent(joined[1], dim)
        len    == (here * Len(splits)) \div target
        first  == rank * len
        from   == first \div here
        to     == (first + len - 1) \div here
    IN  IF Len(splits) = target THEN joined[rank + 1]
        ELSE IF dim = Replicated THEN joined[1]
        ELSE Narrow(Cat(SubSeq(joined, from + 1, to + 1), dim), dim, first - from * here, len)

\* NativeModelCheckpointLoader.lazy_load(): only the rank's own files if the tensor
\* parallel size is the same.
Load(files, p, g, r) ==
    LET tps  == {path[2] : path \in DOMAIN files}
        sdps == {path[3] : path \in DOMAIN files}
        Row(t) == [d \in 1..Cardinality(sdps) |-> files[<<"model", t, d - 1>>][p]]
    IN  IF Cardinality(tps) = Len(g.tp)
        THEN Reshard(<<Row(RankIn(g.tp, r))>>, Shape(p).dim, 1, 0)
        ELSE Reshard([t \in 1..Cardinality(tps) |-> Row(t - 1)], Shape(p).dim,
                     Len(g.tp), RankIn(g.tp, r))

\* set_model_state(): every tensor has the shape of the model's.
Fits(t, u) == Len(t) = Len(u) /\ \A i \in DOMAIN t : Len(t[i]) = Len(u[i])

-----------------------------------------------------------------------------
Blank(g, r) ==
    [trainer   |-> 0,
     model     |-> [p \in Names |-> JunkOf(TpShard(p, Whole(p, 0), g, r))],
     optimizer |-> [tp |-> RankIn(g.tp, r), sdp |-> RankIn(g.sdp, r), steps |-> 0],
     reader    |-> [dp |-> RankIn(g.dp, r), read |-> 0]]

Starting(p) ==
    /\ plan' = p
    /\ pc' = [r \in RanksOf(p.layout) |-> "start"]
    /\ st' = [r \in RanksOf(p.layout) |-> <<>>]

\* A model of one process, to begin from.
Released ==
    [files   |-> [path \in {<<"model", 0, 0>>} |-> [p \in Names |-> Whole(p, 0)]],
     version |-> 0]

NoCheckpoints == [s \in 1..MaxSteps |-> None]

Init ==
    /\ plan \in Plans
    /\ pc = [r \in RanksOf(plan.layout) |-> "start"]
    /\ st = [r \in RanksOf(plan.layout) |-> <<>>]
    /\ step = 0 /\ version = 0
    /\ tmp = NoCheckpoints /\ ckpt = NoCheckpoints
    /\ source \in (IF "new" \in Begun THEN {None} ELSE {})
                  \cup (IF "loaded" \in Begun THEN {Released} ELSE {})
    /\ kills = 0 /\ trainings = 1

\* What a model family returns on a rank: a model on the meta device if a checkpoint
\* is to be restored or on all but the first data parallel ranks; otherwise a new one,
\* or one loaded from a checkpoint.
NewModel(g, r) ==
    [p \in Names |->
        IF RankIn(g.dp, r) # 0 \/ FullCheckpoint # {} THEN Blank(g, r).model[p]
        ELSE IF source = None THEN TpShard(p, Whole(p, 0), g, r)
        ELSE Load(source.files, p, g, r)]

\* _StandardTrainModelBootstrapper.bootstrap().
Bootstrap(r) ==
    /\ pc[r] = "start"
    /\ LET m == NewModel(Gang(r), r)
       IN  IF \A p \in Names : Fits(m[p], Blank(Gang(r), r).model[p])
           THEN /\ pc' = [pc EXCEPT ![r] = "built"]
                /\ st' = [st EXCEPT ![r] = [Blank(Gang(r), r) EXCEPT !.model = m]]
           ELSE /\ pc' = [pc EXCEPT ![r] = "failed"]
                /\ UNCHANGED st
    /\ UNCHANGED <<plan, step, version, tmp, ckpt, source, kills, trainings>>

\* DDP broadcasts from the first replicated rank; FSDP from the first data parallel
\* rank, unless there is a checkpoint, and then shards.
Wrapped(r) ==
    LET g == Gang(r)
        from == IF Sharded(g) THEN IF AnyCheckpoint # {} THEN r ELSE g.dp[1] ELSE g.rdp[1]
        m == st[from].model
    IN  IF Sharded(g) THEN [p \in Names |-> SdpShard(p, m[p], g, r)] ELSE m

\* _DelegatingDPModelWrapper.wrap(), after the barrier that ends the bootstrap.
Wrap ==
    /\ \A r \in Ranks : pc[r] = "built"
    /\ st' = [r \in Ranks |-> [st[r] EXCEPT !.model = Wrapped(r)]]
    /\ pc' = [r \in Ranks |-> "wrapped"]
    /\ UNCHANGED <<plan, step, version, tmp, ckpt, source, kills, trainings>>

\* Trainer._maybe_restore_state() on a rank, up to its barrier.
Restore(r) ==
    /\ pc[r] = "wrapped"
    /\ IF FullCheckpoint = {} THEN pc' = [pc EXCEPT ![r] = "restored"] /\ UNCHANGED st
       ELSE LET files == ckpt[LastFull].files
            IN  IF \A k \in Kinds : PathOf(Gang(r), r, k) \in DOMAIN files
                THEN /\ pc' = [pc EXCEPT ![r] = "restored"]
                     /\ st' = [st EXCEPT ![r] =
                                  [k \in Kinds |-> files[PathOf(Gang(r), r, k)]]]
                ELSE pc' = [pc EXCEPT ![r] = "failed"] /\ UNCHANGED st
    /\ UNCHANGED <<plan, step, version, tmp, ckpt, source, kills, trainings>>

Begin ==
    /\ \A r \in Ranks : pc[r] = "restored"
    /\ pc' = [r \in Ranks |-> "run"]
    /\ step' = IF FullCheckpoint = {} THEN 0 ELSE LastFull
    /\ version' = IF FullCheckpoint = {} THEN source.version ELSE ckpt[LastFull].version
    /\ UNCHANGED <<plan, st, tmp, ckpt, source, kills, trainings>>

\* Every step is saved; one that an earlier job saved has the same checkpoint.
Saved == step \in {0} \cup AnyCheckpoint

\* A step: every rank updates its part of the model and of the optimizer's state.
Train ==
    /\ \A r \in Ranks : pc[r] = "run"
    /\ step < MaxSteps /\ Saved
    /\ step' = step + 1 /\ version' = version + 1
    /\ st' = [r \in Ranks |->
                [trainer   |-> st[r].trainer + 1,
                 model     |-> [p \in Names |-> Updated(st[r].model[p])],
                 optimizer |-> [st[r].optimizer EXCEPT !.steps = @ + 1],
                 reader    |-> [st[r].reader EXCEPT !.read = @ + 1]]]
    /\ UNCHANGED <<plan, pc, tmp, ckpt, source, kills, trainings>>

\* _begin_checkpoint(): what an earlier job left of this step is deleted first.
BeginSave ==
    /\ \A r \in Ranks : pc[r] = "run"
    /\ ~Saved
    /\ tmp' = [tmp EXCEPT ![step] = None]
    /\ pc' = [r \in Ranks |-> "save"]
    /\ UNCHANGED <<plan, st, step, version, ckpt, source, kills, trainings>>

\* The pool thread of a rank writes the rank's records.
WriteShards(r) ==
    /\ pc[r] = "save"
    /\ pc' = [pc EXCEPT ![r] = "saved"]
    /\ tmp' = [tmp EXCEPT ![step] =
                  [files |-> Overwritten(@.files, FilesOf(Gang(r), r)), version |-> version]]
    /\ UNCHANGED <<plan, st, step, version, ckpt, source, kills, trainings>>

Commit ==
    /\ \A r \in Ranks : pc[r] = "saved"
    /\ pc' = [r \in Ranks |-> "run"]
    /\ ckpt' = [ckpt EXCEPT ![step] = tmp[step]]
    /\ tmp' = [tmp EXCEPT ![step] = None]
    /\ UNCHANGED <<plan, st, step, version, source, kills, trainings>>

\* The job is killed, or fails, and is submitted again.
Kill ==
    /\ kills < MaxKills
    /\ Starting(plan)
    /\ kills' = kills + 1
    /\ step' = 0 /\ version' = 0
    /\ UNCHANGED <<tmp, ckpt, source, trainings>>

\* Another training begins with the model of the last checkpoint, in any layout.
NextTraining ==
    /\ trainings < MaxTrainings
    /\ \A r \in Ranks : pc[r] = "run"
    /\ step = MaxSteps /\ Saved
    /\ \E p \in Plans : p.buffered = plan.buffered /\ Starting(p)
    /\ LET c == ckpt[Max(AnyCheckpoint)]
       IN  source' = [c EXCEPT !.files = Restrict(@, {f \in DOMAIN @ : f[1] = "model"})]
    /\ step' = 0 /\ version' = 0
    /\ tmp' = NoCheckpoints /\ ckpt' = NoCheckpoints
    /\ trainings' = trainings + 1
    /\ UNCHANGED kills

\* The training is over, or the job failed.
Ended ==
    /\ \/ step = MaxSteps /\ Saved /\ \A r \in Ranks : pc[r] = "run"
       \/ \E r \in Ranks : pc[r] = "failed"
    /\ UNCHANGED vars

Next ==
    \/ \E r \in Ranks : Bootstrap(r) \/ Restore(r) \/ WriteShards(r)
    \/ Wrap \/ Begin \/ Train \/ BeginSave \/ Commit
    \/ Kill \/ NextTraining \/ Ended

Spec == Init /\ [][Next]_vars

-----------------------------------------------------------------------------
\* The forward pass of the model's modules on the ranks of a tensor parallel gang, once
\* FSDP has gathered their parameters.  Outputs are integers modulo a prime.
Prime == 9973

SumUpTo(s) == LET sum[i \in 0..Len(s)] == IF i = 0 THEN 0 ELSE (sum[i - 1] + s[i]) % Prime IN sum
Sum(s)     == SumUpTo(s)[Len(s)]
Plus(s, t) == [i \in DOMAIN s |-> (s[i] + t[i]) % Prime]

Gathered(r) ==
    [p \in Names |->
        IF p = "buffer" \/ ~Sharded(Gang(r)) THEN st[r].model[p]
        ELSE Cat([i \in DOMAIN Gang(r).sdp |-> st[Gang(r).sdp[i]].model[p]], 0)]

\* torch's linear, without bias.
Linear(w, x) == [i \in DOMAIN w |-> Sum([j \in DOMAIN x |-> (w[i][j] * x[j]) % Prime])]
Bias(b)      == [i \in DOMAIN b |-> b[i][1]]

\* all_reduce, gather and scatter over the last dimension of ops/tensor_parallel.py.
Reduce(xs)     == [i \in DOMAIN xs[1] |-> Sum([k \in DOMAIN xs |-> xs[k][i]])]
Gather(xs)     == FlattenSeq(xs)
Scatter(x, n, k) == Narrow(x, 0, k * (Len(x) \div n), Len(x) \div n)

\* VocabShardedEmbedding.forward() on rank k, before its reduction: tokens of others
\* have a zero embedding.
EmbedHere(w, k, token) ==
    IF token < k * Len(w) \/ token >= (k + 1) * Len(w) THEN [j \in 1..Dim |-> 0]
    ELSE w[token - k * Len(w) + 1]

\* Mutant of RowSharded: every rank adds the bias before the reduction.
RowShardedBiasFirst(ms, xs) ==
    Reduce([k \in DOMAIN ms |-> Plus(Linear(ms[k].out, xs[k]), Bias(ms[k].outBias))])

\* ColumnShardedLinear.forward() on a rank, and RowShardedLinear.forward(), of the
\* modules ms and inputs xs of a tensor parallel gang.
ColumnSharded(m, x) == Plus(Linear(m.in, x), Bias(m.inBias))

RowSharded(ms, xs) ==
    Plus(Reduce([k \in DOMAIN ms |-> Linear(ms[k].out, xs[k])]), Bias(ms[1].outBias))

\* The outputs for all tokens, whose two embeddings are added: the second is
\* ShardedEmbedding's.  Between the projections activations stay split, or are gathered
\* and scattered (gather_output, scatter_input).
Outputs(ms, stay) ==
    LET n == Len(ms)
        x == [token \in 0..(Vocab - 1) |->
                 Plus(Reduce([k \in 1..n |-> EmbedHere(ms[k].vocab, k - 1, token)]),
                      Gather([k \in 1..n |-> ms[k].slice[token + 1]]))]
        Split(token)  == [k \in 1..n |-> ColumnSharded(ms[k], x[token])]
        Inputs(token) == IF stay THEN Split(token)
                         ELSE [k \in 1..n |-> Scatter(Gather(Split(token)), n, k - 1)]
    IN  [token \in DOMAIN x |-> RowSharded(ms, Inputs(token))]

-----------------------------------------------------------------------------
\* What the rank would hold if one process had trained the whole model.
Expected(r) ==
    LET g == Gang(r)
        Mine(p) == TpShard(p, Whole(p, version), g, r)
    IN  [trainer   |-> step,
         model     |-> [p \in Names |-> IF Sharded(g) THEN SdpShard(p, Mine(p), g, r) ELSE Mine(p)],
         optimizer |-> [tp |-> RankIn(g.tp, r), sdp |-> RankIn(g.sdp, r), steps |-> step],
         reader    |-> [dp |-> RankIn(g.dp, r), read |-> step]]

\* A buffer that every rank of a sharded gang saves whole and the loader concatenates.
BufferRepeated ==
    plan.buffered /\ source # None /\ \E path \in DOMAIN source.files : path[3] > 0

\* create_parallel_gangs and create_fsdp_gangs divide the processes as documented;
\* and whatever jobs and layouts lie in the model's history, every rank holds its part
\* of the model, and the other state, of one process that had trained it all; a rank
\* finds and can load all that it needs, but for a buffer that was saved repeatedly.
ShardsExact ==
    /\ (\A r \in Ranks : pc[r] = "start") => Grid(Layout)
    /\ \A r \in Ranks :
          /\ pc[r] \in {"run", "save", "saved"} => st[r] = Expected(r)
          /\ pc[r] = "failed" => BufferRepeated

\* The split modules compute what undivided ones with the same parameters do.
ForwardAgrees ==
    (\A r \in Ranks : pc[r] = "run") =>
        LET undivided == <<[p \in Names |-> Whole(p, version)]>>
            expected  == Outputs(undivided, TRUE)
            split     == {[k \in DOMAIN g |-> Gathered(g[k])] : g \in {Gang(r).tp : r \in Ranks}}
        IN  \A ms \in split, stay \in BOOLEAN : Outputs(ms, stay) = expected
=============================================================================
