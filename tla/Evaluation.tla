------------------------------ MODULE Evaluation ------------------------------
(***************************************************************************)
(* A whole task of the validator, the evaluator and the generator on the   *)
(* ranks of a job: StandardValidator.run as the trainer calls it between   *)
(* its steps, Evaluator.run and Generator.run.  Steps.tla has the training *)
(* step and what the ranks count in it; here it is the units, the readers, *)
(* the random numbers and the mode of the model that a task takes over and *)
(* must give back, what is recorded, the score that the trainer saves and  *)
(* stops by, and stop requests.                                            *)
(*                                                                         *)
(* A rank runs by itself up to the next collective, of all ranks or of its *)
(* data parallel gang.                                                     *)
(***************************************************************************)
EXTENDS Gangs, FiniteSets, FiniteSetsExt, Functions

CONSTANTS
    Evals,   \* the tasks
    MaxRuns  \* validations of a training

\* A task.  units: per unit, the sync mode of its data reader and, by data parallel rank,
\* the batches of its shard; scored: whether there is a score metric; saving: whether a
\* checkpoint is in flight when a validation begins, so that one is due; stopper: whether
\* there is an early stopper; older: whether the job found a score on disk; stoppable:
\* whether it may get SIGUSR1.
EvaluationAssumption ==
    /\ \A e \in Evals :
         /\ e.task \in {"validation", "evaluation", "generation"}
         /\ {e.layout.size, e.layout.tp} \subseteq Nat \ {0} /\ Accepted(e.layout)
         /\ e.units \in Seq([mode : {"UNTIL_FIRST", "UNTIL_LAST"}, shards : Seq(Nat)]) \ {<<>>}
         /\ e.task = "generation" => Len(e.units) = 1
         /\ \A u \in DOMAIN e.units :
              Len(e.units[u].shards) = e.layout.size \div e.layout.tp
         /\ {e.scored, e.saving, e.stopper, e.older, e.stoppable} \subseteq BOOLEAN
    /\ MaxRuns \in Nat

ASSUME EvaluationAssumption

VARIABLES
    eval,      \* the task
    gangs,     \* per rank: its gangs
    at,        \* per rank: where it is
    rank,      \* per rank: the state of its objects
    told,      \* per rank: _stop_requested of an evaluation or a generation
    recorded,  \* what rank 0 has given to the metric recorder
    scores     \* the score files

evalVars == <<eval, gangs, at, rank, told, recorded, scores>>

-----------------------------------------------------------------------------
EvalRanks == DOMAIN gangs
DP(r)     == gangs[r].dp
Root(r)   == gangs[r].root
DPRank(r) == RankIn(DP(r), r)
TPRank(r) == RankIn(gangs[r].tp, r)

Validates  == eval.task = "validation"
NumUnits   == Len(eval.units)
Unit(r)    == eval.units[rank[r].unit]
Left(r)    == Unit(r).shards[DPRank(r) + 1] - rank[r].read[rank[r].unit]

\* A generator of random numbers: what it was seeded with, and the draws since.
Seeded(seed) == [seed |-> seed, draws |-> 0]
Draw(g)      == [g EXCEPT !.draws = @ + 1]

\* A score is of some units, or of none (a zero) on the ranks that record nothing.
NoScore     == [given |-> FALSE, of |-> {}]
ScoreOf(us) == [given |-> TRUE, of |-> us]

\* run: validations begun; unit: the one under way; read: per unit, the batches its reader
\* has yielded; hand: batches in hand; bag: the batches the unit's metrics have counted,
\* with the random numbers they got; rng, kept: the random numbers, and those that
\* temporary_manual_seed() puts back; best: whether _best_step_nr is known (-1 if not), which
\* only rank 0 ever looks up; score: the score of this run.
Idle(r) ==
    [run |-> 0, unit |-> 1, read |-> [u \in 1..NumUnits |-> 0], hand |-> 0, bag |-> {},
     rng |-> Seeded("train"), kept |-> Seeded("train"), training |-> Validates,
     hasRun |-> FALSE, best |-> -1, inFlight |-> FALSE, score |-> NoScore]

EvalInit ==
    /\ eval \in Evals
    /\ gangs = [r \in RanksOf(eval.layout) |-> GangsOf(eval.layout, r)]
    /\ at = [r \in EvalRanks |-> IF Validates THEN "training" ELSE "begin"]
    /\ rank = [r \in EvalRanks |-> Idle(r)]
    /\ told = [r \in EvalRanks |-> FALSE]
    /\ recorded = <<>>
    /\ scores = IF eval.older THEN {[run |-> 0, units |-> 1..NumUnits]} ELSE {}

\* r goes on at `where' with its objects in state s.
Moves(r, where, s) ==
    /\ at' = [at EXCEPT ![r] = where]
    /\ rank' = [rank EXCEPT ![r] = s]

\* So do all ranks of a gang.
AllMove(g, Where(_), After(_)) ==
    /\ at' = [r \in EvalRanks |-> IF r \in Range(g) THEN Where(r) ELSE at[r]]
    /\ rank' = [r \in EvalRanks |-> IF r \in Range(g) THEN After(r) ELSE rank[r]]

Still == UNCHANGED <<eval, gangs, told, recorded, scores>>

\* All members of g have come to the collective c, of the same unit.
Gathered(g, c) ==
    \A q \in Range(g) : at[q] = c /\ rank[q].unit = rank[g[1]].unit /\ rank[q].run = rank[g[1]].run

-----------------------------------------------------------------------------
\* Between validations, a training step that draws random numbers; then
\* Trainer._validate() and StandardValidator.run() up to the first collective.
Validate(r) ==
    /\ at[r] = "training" /\ rank[r].run < MaxRuns
    /\ IF rank[r].hasRun THEN Moves(r, "failed", rank[r])
       ELSE Moves(r, IF eval.scored /\ rank[r].best < 0 THEN "loadScores" ELSE "begin",
                  [rank[r] EXCEPT !.run = @ + 1, !.rng = Draw(@), !.training = FALSE,
                                  !.inFlight = eval.saving, !.hasRun = TRUE])
    /\ Still

\* _maybe_restore_best_score_and_step(): the best score is known to rank 0 only.
LoadScores(g) ==
    /\ Gathered(g, "loadScores")
    /\ AllMove(g, LAMBDA r : "begin",
               LAMBDA r : [rank[r] EXCEPT
                   !.best = IF r = 0 /\ scores # {} THEN Max({s.run : s \in scores}) ELSE 0])
    /\ Still

\* Mutant of BeginTask: the task goes on with the random numbers of the training.
BeginTaskUnseeded(r) ==
    /\ at[r] = "begin"
    /\ Moves(r, "poll", [rank[r] EXCEPT !.kept = rank[r].rng, !.training = FALSE,
                                        !.score = NoScore])
    /\ Still

\* temporary_manual_seed(), and model.eval() of the other tasks.
BeginTask(r) ==
    /\ at[r] = "begin"
    /\ Moves(r, "poll", [rank[r] EXCEPT !.kept = rank[r].rng, !.rng = Seeded("eval"),
                                        !.training = FALSE, !.score = NoScore])
    /\ Still

-----------------------------------------------------------------------------
\* maybe_complete_save_operation(): a collective while a checkpoint is in flight; and
\* maybe_complete_operation() of the exporter.
PollSave(g) ==
    /\ Validates /\ Gathered(g, "poll")
    /\ \E pending \in BOOLEAN :
         /\ pending => rank[g[1]].inFlight
         /\ AllMove(g, LAMBDA r : "read", LAMBDA r : [rank[r] EXCEPT !.inFlight = pending])
    /\ Still

\* Without one, and in the other tasks, which look for a stop request here.
PollStop(r) ==
    /\ at[r] = "poll" /\ ~rank[r].inFlight
    /\ IF told[r] THEN Moves(r, "stopped", [rank[r] EXCEPT !.rng = rank[r].kept])
       ELSE Moves(r, "read", rank[r])
    /\ Still

\* _read_next_batches() with a reader that synchronizes the ranks, one batch at a time.
ReadBatches(g) ==
    /\ Gathered(g, "read")
    /\ LET Yields(r) == IF Left(r) = 0 THEN 0 ELSE 1
           yields    == {Yields(r) : r \in Range(g)}
           eod       == IF Unit(g[1]).mode = "UNTIL_LAST" THEN yields = {0} ELSE 0 \in yields
       IN  AllMove(g, LAMBDA r : IF eod THEN "metrics" ELSE "batch",
                   LAMBDA r : [rank[r] EXCEPT !.read[rank[r].unit] = IF eod THEN 0 ELSE @ + Yields(r),
                                              !.hand = IF eod THEN 0 ELSE Yields(r)])
    /\ Still

\* _run_step(), which may have nothing to run on a rank whose shard has ended.
EvalStep(r) ==
    /\ at[r] = "batch"
    /\ Moves(r, "poll",
             IF rank[r].hand = 0 THEN rank[r]
             ELSE [rank[r] EXCEPT
                     !.bag = @ \cup {<<DPRank(r), rank[r].read[rank[r].unit], rank[r].rng>>},
                     !.rng = Draw(@), !.hand = 0])
    /\ Still

-----------------------------------------------------------------------------
\* _call_unit_finalize() and _publish_metrics(): the first tensor parallel ranks add up
\* their metrics, over their data parallel gang; the others have nothing to add.
SyncMetrics(g) ==
    /\ TPRank(g[1]) = 0 /\ Gathered(g, "metrics")
    /\ AllMove(g, LAMBDA r : "record",
               LAMBDA r : [rank[r] EXCEPT
                   !.bag = IF r = g[1] THEN UNION {rank[q].bag : q \in Range(g)} ELSE @])
    /\ Still

SkipSync(r) == at[r] = "metrics" /\ TPRank(r) # 0 /\ Moves(r, "record", rank[r]) /\ Still

\* Rank 0 records the values.
Record(r) ==
    /\ at[r] = "record"
    /\ Moves(r, "barrier", rank[r])
    /\ recorded' = IF r # 0 THEN recorded
                   ELSE Append(recorded, [run |-> rank[r].run, unit |-> rank[r].unit,
                                          values |-> rank[r].bag])
    /\ UNCHANGED <<eval, gangs, told, scores>>

\* _maybe_get_unit_score(): it is of rank 0.
WithUnit(r) == IF eval.scored /\ r = 0 THEN ScoreOf(rank[r].score.of \cup {rank[r].unit})
               ELSE rank[r].score

\* The barrier; then the next unit, or the end of the task: close() of the gangs.
NextUnit(g) ==
    /\ Gathered(g, "barrier")
    /\ LET last == rank[g[1]].unit = NumUnits
       IN  AllMove(g, LAMBDA r : IF ~last THEN "poll" ELSE IF Validates THEN "score" ELSE "done",
                   LAMBDA r : [rank[r] EXCEPT
                       !.score = WithUnit(r), !.bag = {}, !.unit = IF last THEN 1 ELSE @ + 1,
                       !.rng = IF last THEN rank[r].kept ELSE @])
    /\ Still

-----------------------------------------------------------------------------
\* Mutant of Aggregate: a rank without scores has none.
AggregateOwn(r) == IF ~eval.scored \/ r # 0 THEN NoScore ELSE rank[r].score

\* _compute_aggregated_score(): every rank has a score, if there is a score metric.
Aggregate(r) == IF ~eval.scored THEN NoScore ELSE IF r # 0 THEN ScoreOf({}) ELSE rank[r].score

\* _update_best_score(), and back in the trainer: the score is saved beside a checkpoint.
Score(r) ==
    /\ at[r] = "score"
    /\ Moves(r, IF Aggregate(r).given /\ eval.saving THEN "saveScore" ELSE "reset",
             [rank[r] EXCEPT !.score = Aggregate(r)])
    /\ Still

\* save_score(): rank 0 writes, and a barrier.
SaveScore(g) ==
    /\ Gathered(g, "saveScore")
    /\ AllMove(g, LAMBDA r : "reset", LAMBDA r : rank[r])
    /\ scores' = scores \cup {[run |-> rank[0].run, units |-> rank[0].score.of]}
    /\ UNCHANGED <<eval, gangs, told, recorded>>

\* Mutant of ResetTask: the model is left in evaluation mode.
ResetTaskInEval(r) ==
    /\ at[r] = "reset"
    /\ Moves(r, IF rank[r].score.given /\ eval.stopper THEN "stopFlag" ELSE "training",
             [rank[r] EXCEPT !.read = [u \in 1..NumUnits |-> 0], !.hasRun = FALSE])
    /\ Still

\* validator.reset() and model.train(); _maybe_request_early_stop() follows.
ResetTask(r) ==
    /\ at[r] = "reset"
    /\ Moves(r, IF rank[r].score.given /\ eval.stopper THEN "stopFlag" ELSE "training",
             [rank[r] EXCEPT !.read = [u \in 1..NumUnits |-> 0], !.hasRun = FALSE,
                             !.training = TRUE])
    /\ Still

\* broadcast_flag() of what the early stopper of rank 0 says.
AskStopper(g) ==
    /\ Gathered(g, "stopFlag")
    /\ \E stops \in BOOLEAN :
         AllMove(g, LAMBDA r : IF stops THEN "earlyStop" ELSE "training", LAMBDA r : rank[r])
    /\ Still

-----------------------------------------------------------------------------
\* SIGUSR1.
TellStop(r) ==
    /\ eval.stoppable /\ ~Validates /\ ~told[r] /\ at[r] \notin {"done", "stopped", "failed"}
    /\ told' = [told EXCEPT ![r] = TRUE]
    /\ UNCHANGED <<eval, gangs, at, rank, recorded, scores>>

Gone == {"stopped", "failed"}

\* A collective whose member is gone times out: GangError.
GiveUp(r) ==
    /\ \/ at[r] \in {"read", "metrics"} /\ \E q \in Range(DP(r)) : at[q] \in Gone
       \/ at[r] \in {"loadScores", "barrier", "saveScore", "stopFlag"} /\ \E q \in EvalRanks : at[q] \in Gone
       \/ at[r] = "poll" /\ rank[r].inFlight /\ \E q \in EvalRanks : at[q] \in Gone
    /\ Moves(r, "failed", [rank[r] EXCEPT !.rng = rank[r].kept])
    /\ Still

OnRoot(g) == LoadScores(g) \/ PollSave(g) \/ NextUnit(g) \/ SaveScore(g) \/ AskStopper(g)
OnDP(g)   == ReadBatches(g) \/ SyncMetrics(g)

OwnStep(r) ==
    \/ Validate(r) \/ BeginTask(r) \/ PollStop(r) \/ EvalStep(r) \/ SkipSync(r)
    \/ Record(r) \/ Score(r) \/ ResetTask(r) \/ GiveUp(r)

Runs(r) == OwnStep(r) \/ OnRoot(Root(r)) \/ OnDP(DP(r))

EvalNext == \E r \in EvalRanks : Runs(r) \/ TellStop(r)

-----------------------------------------------------------------------------
\* What every record of unit u of task e counts: the batches its data readers yield, each
\* with the random numbers that a task of this seed has come to, whatever step it is for.
BatchesOf(e, u, d) ==
    LET n(q) == e.units[u].shards[q + 1]
    IN  IF e.units[u].mode = "UNTIL_LAST" THEN n(d)
        ELSE Min({n(q) : q \in 0..(Len(e.units[u].shards) - 1)})

\* The draws of a rank before unit u, one for each batch of the units before it.
DrawsBefore(e, u, d) == Cardinality(UNION {{v} \X (1..BatchesOf(e, v, d)) : v \in 1..(u - 1)})

\* The first n batches of unit u.
Tally(e, u, d, n) ==
    {<<d, i, [seed |-> "eval", draws |-> DrawsBefore(e, u, d) + i - 1]>> : i \in 1..n}

Recordable(e, u) ==
    UNION {Tally(e, u, d, BatchesOf(e, u, d)) : d \in 0..(Len(e.units[u].shards) - 1)}

\* A record is of all ranks and comparable with those of other steps: whatever the order
\* of the ranks, the state of the readers and the random numbers of the training, it
\* counts every batch of its unit once, under the same random numbers, in the order of
\* the units; and a score is saved for all units of a validation or not at all.
RecordsComparable ==
    /\ \A i \in DOMAIN recorded :
         /\ recorded[i].values = Recordable(eval, recorded[i].unit)
         /\ recorded[i].unit = ((i - 1) % NumUnits) + 1
         /\ Validates => recorded[i].run = ((i - 1) \div NumUnits) + 1
    /\ \A s \in scores : s.units = 1..NumUnits

\* The training does not notice that it was interrupted for a validation: on every rank
\* the random numbers go on where they were, the model is in training mode and the
\* validator may run again, from the start of its data; and while the model runs for a
\* task, it is in evaluation mode.
TrainingUndisturbed ==
    \A r \in EvalRanks :
        /\ at[r] \in {"training", "earlyStop"} =>
             /\ rank[r].rng = [seed |-> "train", draws |-> rank[r].run]
             /\ rank[r].training /\ ~rank[r].hasRun
             /\ rank[r].read = [u \in 1..NumUnits |-> 0]
        /\ at[r] = "batch" => ~rank[r].training

\* The ranks come to the same end: all validations are made or the early stopper stops
\* all of them, or the task ends on all; only with a stop request some ranks may stop and
\* others fail in their next collective.
EvalEnded ==
    \/ \A r \in EvalRanks : at[r] = "training" /\ rank[r].run = MaxRuns
    \/ \A r \in EvalRanks : at[r] = "earlyStop"
    \/ \A r \in EvalRanks : at[r] = "done"
    \/ (\E r \in EvalRanks : told[r]) /\ \A r \in EvalRanks : at[r] \in Gone
=============================================================================
