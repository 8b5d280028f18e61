-------------------------------- MODULE Steps --------------------------------
(***************************************************************************)
(* The steps of the ranks of a data parallel gang: DataPipelineReader,     *)
(* Trainer._do_run_step with its loss scaler and metric bag, publishing    *)
(* metrics, and the loop the validator, the evaluator and the generator    *)
(* share.                                                                  *)
(*                                                                         *)
(* Each rank runs by itself up to the next collective, where all must      *)
(* meet: a rank's pc names the collective it waits in.  What a checkpoint  *)
(* keeps is recorded by each rank on its own; a killed job resumes from    *)
(* the last step of which all ranks have written their part.               *)
(***************************************************************************)
EXTENDS Integers, Sequences, FiniteSets

CONSTANTS
    Ranks,        \* the ranks of gangs.dp
    Setups,       \* the tasks to run
    PublishEvery, \* publish_metrics_every_n_steps
    SaveEvery,    \* checkpoint_every_n_steps
    ScaleWindow,  \* steps without overflow after which the loss scale grows
    TopScale,     \* init_scale: the exponent of the loss scale, which min_scale
                  \* keeps at 0 or above
    MaxPasses,    \* passes over the training data
    JobKills      \* bound on killed jobs

\* A batch: how many logit targets it has, and up to which scale its gradient is
\* finite.
Batch == [targets : Nat, limit : Int]

\* A task: acc is num_accumulate; sharded, whether the model is, so that only
\* `owner' sees an overflow in its part of the gradient.
ASSUME StepAssumption ==
    /\ IsFiniteSet(Ranks)
    /\ \A s \in Setups :
         /\ s.task \in {"train", "eval"} /\ s.mode \in {"UNTIL_FIRST", "UNTIL_LAST"}
         /\ s.task = "train" => s.mode = "UNTIL_FIRST"
         /\ s.acc \in Nat \ {0} /\ s.owner \in Ranks
         /\ {s.drop, s.fp16, s.sharded, s.noSync} \subseteq BOOLEAN
         /\ s.shards \in [Ranks -> Seq(Batch)]
    /\ {PublishEvery, SaveEvery, ScaleWindow, MaxPasses} \subseteq Nat \ {0}
    /\ TopScale \in Nat /\ JobKills \in Nat

VARIABLES
    setup,     \* the task
    pc,        \* per rank: where it is
    st,        \* per rank: the state of its objects, see Begin
    snaps,     \* per rank: its part of the last checkpoint
    whole,     \* the last checkpoint of which all ranks have written their part
    jobKills

stepVars == <<setup, pc, st, snaps, whole, jobKills>>

-----------------------------------------------------------------------------
\* What a checkpoint keeps of a rank: _TrainerProxy, the model and the data reader.
\* model: per optimizer step the batches it is made of; and, for the properties
\* only, ran: the batches run so far in this pass over the data.
Fresh == [stepNr |-> 0, read |-> 0, passes |-> 0, scale |-> TopScale, streak |-> 0,
          lr |-> 0, model |-> <<>>, total |-> 0, ran |-> <<>>]

NoCount == [now |-> -1, total |-> -1]

\* A process that starts from it.  read: batches its pipeline has yielded in this
\* pass, of which `batches' are in hand; targets, grads, inf: the logit targets and
\* the batches of the gradient, and whether it has overflowed; bag, original:
\* batches counted by the metrics, in the lapse and in total; since: the step after
\* which the lapse began.
Begin(kept) ==
    [stepNr |-> kept.stepNr, read |-> kept.read, passes |-> kept.passes,
     scale |-> kept.scale, streak |-> kept.streak, lr |-> kept.lr, model |-> kept.model,
     batches |-> <<>>, targets |-> 0, grads |-> {}, inf |-> FALSE,
     bag |-> [now |-> 0, total |-> kept.total], original |-> NoCount,
     ran |-> kept.ran, since |-> kept.stepNr]

\* Mutant of Keep: the position of the data reader is that of the pass's begin.
KeepNoReader(s) ==
    [stepNr |-> s.stepNr, read |-> 0, passes |-> s.passes, scale |-> s.scale,
     streak |-> s.streak, lr |-> s.lr, model |-> s.model, total |-> s.bag.total,
     ran |-> s.ran]

Keep(s) == [stepNr |-> s.stepNr, read |-> s.read, passes |-> s.passes, scale |-> s.scale,
            streak |-> s.streak, lr |-> s.lr, model |-> s.model, total |-> s.bag.total,
            ran |-> s.ran]

StepsInit ==
    /\ setup \in Setups
    /\ pc = [r \in Ranks |-> "load"]
    /\ st = [r \in Ranks |-> Begin(Fresh)]
    /\ snaps = [r \in Ranks |-> Fresh] /\ whole = [r \in Ranks |-> Fresh]
    /\ jobKills = 0

Shard(r) == setup.shards[r]
Training == setup.task = "train"
Smallest(S) == CHOOSE x \in S : \A y \in S : x <= y

\* Every rank has reached the collective c.
Meet(c) == \A r \in Ranks : pc[r] = c

Go(r, where, s) == pc' = [pc EXCEPT ![r] = where] /\ st' = [st EXCEPT ![r] = s]

\* Where the trainer goes at the end of a pass.
AfterPass(s) ==
    CASE s.stepNr = 0 -> "done"
      [] s.stepNr # 0 /\ s.passes + 1 < MaxPasses -> "load"
      [] s.stepNr # 0 /\ s.passes + 1 >= MaxPasses ->
           IF s.stepNr % PublishEvery = 0 THEN "done" ELSE "metrics"

Counted(bag, n) == [now |-> bag.now + n, total |-> bag.total + n]

GoAll(Where(_), After(_)) ==
    /\ pc' = [r \in Ranks |-> Where(r)]
    /\ st' = [r \in Ranks |-> After(r)]

-----------------------------------------------------------------------------
\* DataPipelineReader.__next__ up to the collective that compares the ranks.
Load(r) ==
    /\ pc[r] = "load"
    /\ LET n == Smallest({setup.acc, Len(Shard(r)) - st[r].read}) IN
       Go(r, "count",
          [st[r] EXCEPT !.read = @ + n,
                        !.batches = IF setup.drop /\ n # setup.acc THEN <<>>
                                    ELSE [i \in 1..n |-> st[r].read + i]])
    /\ UNCHANGED <<setup, snaps, whole, jobKills>>

\* Mutant of Count: batches beyond the smallest number are not cut off.
CountUncut ==
    /\ Meet("count")
    /\ LET counts == {Len(st[r].batches) : r \in Ranks}
           eod    == IF setup.mode = "UNTIL_LAST" THEN counts = {0} ELSE 0 \in counts
           Where(r) == CASE ~eod -> "step"
                         [] eod /\ ~Training -> "metrics"
                         [] eod /\ Training -> AfterPass(st[r])
       IN  GoAll(Where,
                 LAMBDA r : IF eod THEN [st[r] EXCEPT !.read = 0, !.batches = <<>>,
                                                      !.ran = <<>>, !.passes = @ + 1]
                            ELSE st[r])
    /\ UNCHANGED <<setup, snaps, whole, jobKills>>

\* _min_num_batches, _sum_num_batches and what follows.  At the end of the data the
\* reader is reset; the trainer stops if it made no step at all, publishes what is
\* unpublished after the last pass, and else begins the next one (the schedules are
\* by steps, so its post step at the end of a pass does nothing).
Count ==
    /\ Meet("count")
    /\ LET counts == {Len(st[r].batches) : r \in Ranks}
           eod    == IF setup.mode = "UNTIL_LAST" THEN counts = {0} ELSE 0 \in counts
           Rest(r) == IF setup.mode = "UNTIL_LAST" THEN st[r].batches
                      ELSE SubSeq(st[r].batches, 1, Smallest(counts))
           Where(r) == CASE ~eod -> "step"
                         [] eod /\ ~Training -> "metrics"
                         [] eod /\ Training -> AfterPass(st[r])
       IN  GoAll(Where,
                 LAMBDA r : IF eod THEN [st[r] EXCEPT !.read = 0, !.batches = <<>>,
                                                      !.ran = <<>>, !.passes = @ + 1]
                            ELSE [st[r] EXCEPT !.batches = Rest(r)])
    /\ UNCHANGED <<setup, snaps, whole, jobKills>>

\* The begin of _run_step and _do_run_step; an evaluation runs all batches at once.
BeginStep(r) ==
    /\ pc[r] = "step"
    /\ LET n == Len(st[r].batches)
           s == [st[r] EXCEPT !.stepNr = @ + 1]
       IN  IF Training
           THEN Go(r, "batch", [s EXCEPT !.original = IF setup.fp16 THEN s.bag ELSE @,
                                         !.targets = 0, !.grads = {}, !.inf = FALSE])
           ELSE Go(r, "load", [s EXCEPT !.batches = <<>>, !.ran = @ \o s.batches,
                                        !.bag = Counted(@, n)])
    /\ UNCHANGED <<setup, snaps, whole, jobKills>>

\* One round of the loop over the batches.  With no_sync only the last batch's
\* backward pass reduces the gradient over the ranks.
RunBatch(r) ==
    /\ pc[r] = "batch"
    /\ LET i == Head(st[r].batches)
           b == Shard(r)[i]
       IN  Go(r, IF setup.noSync /\ Len(st[r].batches) > 1 THEN "batch" ELSE "reduce",
              [st[r] EXCEPT !.batches = Tail(@), !.ran = Append(@, i),
                            !.bag = Counted(@, 1),
                            !.targets = @ + b.targets,
                            !.grads = @ \cup {<<r, st[r].passes, i>>},
                            !.inf = @ \/ (setup.fp16 /\ st[r].scale > b.limit)])
    /\ UNCHANGED <<setup, snaps, whole, jobKills>>

\* The reduction of DDP and FSDP; then normalize_grads, if there are targets.
Reduce ==
    /\ Meet("reduce")
    /\ GoAll(LAMBDA r : IF st[r].batches # <<>> THEN "batch"
                        ELSE IF st[r].targets > 0 THEN "normalize"
                        ELSE IF setup.sharded THEN "unscale" ELSE "norms",
             LAMBDA r : [st[r] EXCEPT
                           !.grads = UNION {st[q].grads : q \in Ranks},
                           !.inf = /\ \E q \in Ranks : st[q].inf
                                   /\ setup.sharded => r = setup.owner])
    /\ UNCHANGED <<setup, snaps, whole, jobKills>>

Normalize ==
    /\ Meet("normalize")
    /\ GoAll(LAMBDA r : IF setup.sharded THEN "unscale" ELSE "norms", LAMBDA r : st[r])
    /\ UNCHANGED <<setup, snaps, whole, jobKills>>

\* Mutant of Unscale: a rank looks for overflow in its own shard only.
UnscaleOwn ==
    /\ Meet("unscale")
    /\ GoAll(LAMBDA r : "norms", LAMBDA r : st[r])
    /\ UNCHANGED <<setup, snaps, whole, jobKills>>

\* unscale_grads_() of ShardedGradScaler, which all ranks take part in.
Unscale ==
    /\ Meet("unscale")
    /\ GoAll(LAMBDA r : "norms",
             LAMBDA r : [st[r] EXCEPT !.inf = \E q \in Ranks : st[q].inf])
    /\ UNCHANGED <<setup, snaps, whole, jobKills>>

\* clip_grad_norm and check_grad_norms.
Norms ==
    /\ Meet("norms")
    /\ GoAll(LAMBDA r : "update", LAMBDA r : st[r])
    /\ UNCHANGED <<setup, snaps, whole, jobKills>>

\* Mutant of Overflow: the metrics keep the overflowed step.
OverflowCounted(r) ==
    /\ pc[r] = "update" /\ st[r].inf
    /\ IF st[r].scale = 0
       THEN Go(r, "failed", [st[r] EXCEPT !.streak = 0])
       ELSE Go(r, "load",
               [st[r] EXCEPT !.scale = @ - 1, !.streak = 0, !.original = NoCount,
                             !.stepNr = @ - 1])
    /\ UNCHANGED <<setup, snaps, whole, jobKills>>

\* _update_scale() after a step of the optimizer that GradScaler skipped.
Overflow(r) ==
    /\ pc[r] = "update" /\ st[r].inf
    /\ IF st[r].scale = 0
       THEN Go(r, "failed", [st[r] EXCEPT !.streak = 0])   \* MinimumLossScaleReachedError
       ELSE Go(r, "load",
               [st[r] EXCEPT !.scale = @ - 1, !.streak = 0,
                             !.bag = st[r].original, !.original = NoCount,
                             !.stepNr = @ - 1])
    /\ UNCHANGED <<setup, snaps, whole, jobKills>>

\* The optimizer has made its step.
Accept(r) ==
    /\ pc[r] = "update" /\ ~st[r].inf
    /\ LET grown == setup.fp16 /\ st[r].streak + 1 = ScaleWindow IN
           Go(r, "post",
              [st[r] EXCEPT !.streak = IF setup.fp16 /\ ~grown THEN @ + 1 ELSE 0,
                            !.scale = IF grown THEN @ + 1 ELSE @,
                            !.model = Append(@, st[r].grads),
                            !.lr = @ + 1, !.original = NoCount])
    /\ UNCHANGED <<setup, snaps, whole, jobKills>>

\* _run_post_step: a checkpoint, then the metrics.
PostStep(r) ==
    /\ pc[r] = "post"
    /\ pc' = [pc EXCEPT ![r] = IF st[r].stepNr % PublishEvery = 0 THEN "metrics" ELSE "load"]
    /\ snaps' = IF st[r].stepNr % SaveEvery = 0 THEN [snaps EXCEPT ![r] = Keep(st[r])]
                ELSE snaps
    /\ whole' = IF \A q \in Ranks : snaps'[q].stepNr = snaps'[r].stepNr THEN snaps' ELSE whole
    /\ UNCHANGED <<setup, st, jobKills>>

\* sync_and_compute_metrics().
Publish ==
    /\ Meet("metrics")
    /\ pc' = [r \in Ranks |-> "barrier"]
    /\ UNCHANGED <<setup, st, snaps, whole, jobKills>>

\* The barrier and _reset_lapse_state(); the end of an evaluation, and of training.
Barrier ==
    /\ Meet("barrier")
    /\ GoAll(LAMBDA r : IF Training /\ st[r].passes < MaxPasses THEN "load" ELSE "done",
             LAMBDA r : [st[r] EXCEPT !.bag.now = 0, !.since = st[r].stepNr])
    /\ UNCHANGED <<setup, snaps, whole, jobKills>>

\* The job is killed, and a new one restores the last whole checkpoint; it stops at
\* once if that was written in the last pass.
KillJob ==
    /\ Training /\ jobKills < JobKills
    /\ \E r \in Ranks : pc[r] \notin {"done", "failed"}
    /\ jobKills' = jobKills + 1
    /\ pc' = [r \in Ranks |->
                 IF whole[r].stepNr # 0 /\ whole[r].passes + 1 >= MaxPasses THEN "done"
                 ELSE "load"]
    /\ st' = [r \in Ranks |-> Begin(whole[r])]
    /\ snaps' = whole
    /\ UNCHANGED <<setup, whole>>

Local(r) == Load(r) \/ BeginStep(r) \/ RunBatch(r) \/ Overflow(r) \/ Accept(r) \/ PostStep(r)

Collective == Count \/ Reduce \/ Normalize \/ Unscale \/ Norms \/ Publish \/ Barrier

StepsNext == (\E r \in Ranks : Local(r)) \/ Collective \/ KillJob

-----------------------------------------------------------------------------
Over == {"done", "failed"}

\* The replicas stay one model: whenever the ranks meet to read, they hold the same
\* parameters, loss scale, schedule and lapse, the step number and the learning rate
\* schedule count the optimizer steps, overflowed steps left nothing behind, the scale
\* grows in time, and this is so again after a killed job was resumed.
ReplicasAgree ==
    Meet("count") => \A r, q \in Ranks :
        LET Shared(s) == <<s.stepNr, s.passes, s.scale, s.streak, s.lr, s.model, s.since>>
        IN  /\ Shared(st[r]) = Shared(st[q])
            /\ Training => st[r].lr = Len(st[r].model) /\ st[r].stepNr = st[r].lr
            /\ st[r].streak < ScaleWindow

\* The batches of rank r in the steps of a model from number n on, each with the number
\* of its step.
Given(r, model, n) ==
    UNION {{k} \X {g \in model[k] : g[1] = r} : k \in n..Len(model)}

InSteps(r, n) == Cardinality(Given(r, st[r].model, n))

\* begin_updates, commit_updates, rollback_updates: outside a step, what a rank's
\* metrics have counted is the batches of the optimizer steps it has made, since the
\* metrics were published and in total: none of a step that overflowed or was lost
\* with a killed job.
MetricsExact ==
    \A r \in Ranks : Training /\ pc[r] \in {"load", "count", "step", "post", "metrics", "done"} =>
        st[r].bag = [now |-> InSteps(r, st[r].since + 1), total |-> InSteps(r, 1)]

\* A batch is trained on at most once in a pass, overflows, accumulation and resumed
\* jobs included, and to a step every rank contributes as many batches: the gradient
\* is normalized as if they did.
BatchesOnce ==
    \A r \in Ranks : \A k \in 1..Len(st[r].model) :
        LET From(q) == Cardinality({g \in st[r].model[k] : g[1] = q}) IN
        /\ \A l \in 1..(k - 1) : st[r].model[k] \cap st[r].model[l] = {}
        /\ \A q \in Ranks : From(q) = From(r)

\* What a pass runs of its rank's shard: UNTIL_LAST all of it; UNTIL_FIRST as much of
\* every shard as there is of the shortest.
Expected(r) ==
    LET n     == IF setup.mode = "UNTIL_LAST" THEN Len(Shard(r))
                 ELSE Smallest({Len(Shard(q)) : q \in Ranks})
        full == IF setup.drop THEN (n \div setup.acc) * setup.acc ELSE n
    IN  [i \in 1..full |-> i]

\* SyncMode: at the end of a pass a rank has run exactly those batches, in order, in
\* an evaluation and in training, resumed ones included.
PassCovers ==
    [][\A r \in Ranks : st'[r].passes = st[r].passes + 1 => st[r].ran = Expected(r)]_stepVars

\* The task has ended on all ranks.
StepsEnded == \A r \in Ranks : pc[r] \in Over
=============================================================================
