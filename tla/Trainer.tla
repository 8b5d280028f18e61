------------------------------- MODULE Trainer -------------------------------
(***************************************************************************)
(* The training loop of trainer.py: the state machine of Trainer._do_run,  *)
(* its handlers, the asynchronous checkpoint they leave in flight, stop    *)
(* requests, gradient overflow, and jobs that are killed and resubmitted.  *)
(*                                                                         *)
(* The ranks run the same handlers in lockstep, tied by the collectives of *)
(* every handler; only the stop flag, set by a signal handler, is a        *)
(* process's own.  Each action is one handler.  A kill inside a handler is *)
(* a kill before it or after it: what a handler leaves behind it is a      *)
(* checkpoint whose files are being written and whose rename only a later  *)
(* handler makes.  Checkpoint.tla opens that up; here a checkpoint is      *)
(* either committed (disk) or in flight (pending).                         *)
(***************************************************************************)
EXTENDS Integers

CONSTANTS
    Ranks,         \* the processes of the root gang
    EpochLen,      \* number of step batches in one pass over the data
    Plans,         \* how long to train, and whether to validate and to be stopped
    Save,          \* checkpoint schedule
    Pub,           \* publish_metrics schedule
    StepBound,     \* bound on step numbers
    MaxOverflows,  \* bound on gradient overflows
    MaxKills       \* bound on killed or resubmitted jobs

\* A schedule: do at every n-th step after a step, and every n-th epoch.
Schedule == [every : Nat, after : Nat, everyEpochs : Nat, afterEpochs : Nat]

\* A plan.  maxNumSteps, maxNumEpochs: max_num_steps, max_num_data_epochs, 0 when
\* None; val: whether there is a validator, and its schedule; stopper: whether there
\* is an early stopper; signals: whether the job may receive SIGUSR1.

ASSUME ScheduleAssumption ==
    /\ Save \in Schedule /\ Pub \in Schedule
    /\ \A p \in Plans :
         /\ DOMAIN p = {"maxNumSteps", "maxNumEpochs", "val", "stopper", "signals"}
         /\ p.maxNumSteps \in Nat /\ p.maxNumEpochs \in Nat
         /\ p.val.present \in BOOLEAN /\ p.val.schedule \in Schedule
         /\ p.stopper \in BOOLEAN /\ p.signals \in BOOLEAN

ASSUME RunAssumption ==
    /\ EpochLen \in Nat
    /\ StepBound \in Nat /\ MaxOverflows \in Nat /\ MaxKills \in Nat

VARIABLES
    state,      \* _state, and where a blocking completion is waited for
    step,       \* _step_nr
    epoch,      \* _data_epoch_nr
    pos,        \* step batches the data reader has yielded in this pass
    stop,       \* per rank: _stop_requested
    updates,    \* optimizer steps in the model
    seen,       \* step batches the model was trained on, overflowed ones too
    passes,     \* complete passes over the data in the model's history
    unreported, \* updates of this process since metrics were last published
    pending,    \* the checkpoint in flight
    written,    \* whether its files are written
    disk,       \* committed checkpoints by step
    scored,     \* steps that have a score file
    late,       \* steps begun after every rank had been asked to stop
    overflows,
    kills,
    plan        \* the options of the training, the same in every job

progress == <<step, epoch, pos, updates, seen, passes>>
store    == <<pending, written, disk, scored>>
vars     == <<state, progress, stop, unreported, store, late, overflows, kills, plan>>

-----------------------------------------------------------------------------
MaxNumSteps  == plan.maxNumSteps
MaxNumEpochs == plan.maxNumEpochs
Val          == plan.val

NoCkpt == [step |-> 0]

\* What _TrainerProxy, the model and the data reader put into a checkpoint.
Snapshot ==
    [step |-> step, epoch |-> epoch, pos |-> pos,
     updates |-> updates, seen |-> seen, passes |-> passes]

Stored == {s \in 1..StepBound : disk[s] # NoCkpt}

IsLast(s) == s \in Stored /\ \A t \in Stored : t <= s

Last == IF Stored = {} THEN 0 ELSE CHOOSE s \in Stored : IsLast(s)

\* _should_do: whether an activity on schedule sc is due in trainer state st.
AtStep(sc)  == sc.every # 0 /\ step > sc.after /\ step % sc.every = 0

AtEpoch(sc) ==
    sc.everyEpochs # 0 /\ epoch > sc.afterEpochs /\ epoch % sc.everyEpochs = 0

Due(sc, st) ==
    CASE st = "PRE_VALIDATION"    -> FALSE
      [] st = "POST_STEP"         -> AtStep(sc)
      [] st = "END_OF_DATA_EPOCH" -> AtEpoch(sc) /\ ~AtStep(sc)
      [] st \in {"END_OF_DATA", "EARLY_STOP"} -> ~AtStep(sc)
      [] st \in {"END_OF_TRAINING", "STOP_REQUESTED"} -> TRUE

Validates(st) == Val.present /\ Due(Val.schedule, st)

MaxStepsReached  == MaxNumSteps  # 0 /\ step >= MaxNumSteps
MaxEpochsReached == MaxNumEpochs # 0 /\ epoch >= MaxNumEpochs

\* Every rank reads its own flag.
AllStop == \A r \in Ranks : stop[r]
NoStop  == \A r \in Ranks : ~stop[r]

-----------------------------------------------------------------------------
Init ==
    /\ state = "NOT_STARTED"
    /\ step = 0 /\ epoch = 1 /\ pos = 0
    /\ updates = 0 /\ seen = 0 /\ passes = 0
    /\ stop = [r \in Ranks |-> FALSE]
    /\ unreported = 0
    /\ pending = NoCkpt /\ written = FALSE
    /\ disk = [s \in 1..StepBound |-> NoCkpt]
    /\ scored = {}
    /\ late = 0 /\ overflows = 0 /\ kills = 0
    /\ plan \in Plans

\* Mutants of Restore: the step number is not loaded; the data reader is not.
RestoreNoStep ==
    /\ state = "NOT_STARTED"
    /\ \/ /\ Stored = {}
          /\ state' \in {"PRE_VALIDATION", "DATA_LOAD"}
          /\ UNCHANGED progress
       \/ \E s \in 1..StepBound :
          /\ IsLast(s)
          /\ step' = step /\ epoch' = disk[s].epoch /\ pos' = disk[s].pos
          /\ updates' = disk[s].updates
          /\ seen' = disk[s].seen /\ passes' = disk[s].passes
          /\ state' = "DATA_LOAD"
    /\ UNCHANGED <<stop, unreported, store, late, overflows, kills, plan>>

RestoreNoReader ==
    /\ state = "NOT_STARTED"
    /\ \/ /\ Stored = {}
          /\ state' \in {"PRE_VALIDATION", "DATA_LOAD"}
          /\ UNCHANGED progress
       \/ \E s \in 1..StepBound :
          /\ IsLast(s)
          /\ step' = disk[s].step /\ epoch' = disk[s].epoch /\ pos' = 0
          /\ updates' = disk[s].updates
          /\ seen' = disk[s].seen /\ passes' = disk[s].passes
          /\ state' = "DATA_LOAD"
    /\ UNCHANGED <<stop, unreported, store, late, overflows, kills, plan>>

\* _maybe_restore_state().  validate_at_start may be on or off.
Restore ==
    /\ state = "NOT_STARTED"
    /\ \/ /\ Stored = {}
          /\ state' \in {"PRE_VALIDATION", "DATA_LOAD"}
          /\ UNCHANGED progress
       \/ \E s \in 1..StepBound :
          /\ IsLast(s)
          /\ step' = disk[s].step /\ epoch' = disk[s].epoch /\ pos' = disk[s].pos
          /\ updates' = disk[s].updates
          /\ seen' = disk[s].seen /\ passes' = disk[s].passes
          /\ state' =
               IF \/ MaxNumSteps  # 0 /\ disk[s].step >= MaxNumSteps
                  \/ MaxNumEpochs # 0 /\ disk[s].epoch >= MaxNumEpochs
               THEN "STOPPED" ELSE "DATA_LOAD"
    /\ UNCHANGED <<stop, unreported, store, late, overflows, kills, plan>>

\* _pre_validate(): a NOOP validator is an InternalError; nothing else changes,
\* since no checkpoint is due before the first step.
PreValidate ==
    /\ state = "PRE_VALIDATION"
    /\ state' = IF Val.present THEN "DATA_LOAD" ELSE "FAILED"
    /\ UNCHANGED <<progress, stop, unreported, store, late, overflows, kills, plan>>

\* _read_next_batches(): at the end of the data the reader starts over.
ReadNextBatches ==
    /\ state = "DATA_LOAD"
    /\ IF pos < EpochLen
       THEN pos' = pos + 1 /\ passes' = passes /\ state' = "STEP"
       ELSE /\ pos' = 0
            /\ passes' = passes + 1
            /\ state' = IF step = 0 THEN "STOPPED" ELSE "END_OF_DATA_EPOCH"
    /\ UNCHANGED <<step, epoch, updates, seen, stop, unreported, store, late,
                   overflows, kills, plan>>

-----------------------------------------------------------------------------
\* The checkpoint manager, as the handlers call it.  A rename makes the
\* checkpoint in flight visible.
Commit(d) == IF pending = NoCkpt THEN d ELSE [d EXCEPT ![pending.step] = pending]

CanComplete == pending = NoCkpt \/ written

\* save_checkpoint(): the save in flight is completed, what exists at this step
\* is deleted, the new files are being written.
BeginSave(new) ==
    /\ CanComplete
    /\ disk'    = [Commit(disk) EXCEPT ![step] = NoCkpt]
    /\ pending' = new
    /\ written' = FALSE

\* _maybe_save_checkpoint(); scores are the steps scored by the validation that
\* follows, whose score file is written if a checkpoint is due as well.
SaveIfDue(st, scores) ==
    IF Due(Save, st)
    THEN /\ BeginSave(Snapshot)
         /\ scored' = (scored \ {step}) \cup scores
    ELSE UNCHANGED <<disk, pending, written, scored>>

\* The step the validation of state st may score: score_metric may be unset.
Scores(st) == {{}} \cup (IF Validates(st) THEN {{step}} ELSE {})

\* _maybe_publish_metrics().
PublishIfDue(st) == unreported' = IF Due(Pub, st) THEN 0 ELSE unreported

-----------------------------------------------------------------------------
\* _run_step(): completes the save in flight if its files are written, then
\* trains one step; the optimizer step is skipped when gradients overflow.
RunStep ==
    /\ state = "STEP"
    /\ step < StepBound
    /\ disk'    = IF written THEN Commit(disk) ELSE disk
    /\ pending' = IF written THEN NoCkpt ELSE pending
    /\ written' = FALSE
    /\ step' = step + 1
    /\ seen' = seen + 1
    /\ late' = IF AllStop THEN late + 1 ELSE late
    /\ \/ /\ state' = "POST_STEP"
          /\ updates' = updates + 1
          /\ unreported' = unreported + 1
          /\ UNCHANGED overflows
       \/ /\ overflows < MaxOverflows
          /\ overflows' = overflows + 1
          /\ state' \in {"GRAD_OVERFLOW", "FAILED"}   \* MinimumLossScaleReachedError
          /\ UNCHANGED <<updates, unreported>>
    /\ UNCHANGED <<epoch, pos, passes, stop, scored, kills, plan>>

\* Mutants of RepeatStep: the stop request is not looked at; the step number is
\* not taken back.
RepeatStepAlways ==
    /\ state = "GRAD_OVERFLOW"
    /\ state' = "DATA_LOAD"
    /\ step' = step - 1
    /\ UNCHANGED <<epoch, pos, updates, seen, passes, stop, unreported, store,
                   late, overflows, kills, plan>>

RepeatStepKeepingNumber ==
    /\ state = "GRAD_OVERFLOW"
    /\ AllStop \/ NoStop
    /\ state' = IF AllStop THEN "STOP_REQUESTED" ELSE "DATA_LOAD"
    /\ UNCHANGED <<progress, stop, unreported, store, late, overflows, kills, plan>>

\* _repeat_step().
RepeatStep ==
    /\ state = "GRAD_OVERFLOW"
    /\ \/ AllStop /\ state' = "STOP_REQUESTED" /\ step' = step
       \/ NoStop  /\ state' = "DATA_LOAD"      /\ step' = step - 1
    /\ UNCHANGED <<epoch, pos, updates, seen, passes, stop, unreported, store,
                   late, overflows, kills, plan>>

\* Some ranks stop and others go on: the former wait in the barrier of a save,
\* the latter in the gradient reduction of the next step.
Diverge ==
    /\ \/ state = "GRAD_OVERFLOW"
       \/ state = "POST_STEP" /\ MaxNumSteps = 0
       \/ state = "END_OF_DATA_EPOCH" /\ MaxNumSteps = 0 /\ ~MaxEpochsReached
    /\ ~AllStop /\ ~NoStop
    /\ state' = "HUNG"
    /\ UNCHANGED <<progress, stop, unreported, store, late, overflows, kills, plan>>

\* _run_post_step(): the stop flag is read only when there is no max_num_steps.
PostStep(st) ==
    \/ /\ MaxStepsReached
       /\ state' = "END_OF_TRAINING"
       /\ UNCHANGED <<unreported, store>>
    \/ /\ MaxNumSteps = 0 /\ AllStop
       /\ state' = "STOP_REQUESTED"
       /\ UNCHANGED <<unreported, store>>
    \/ /\ IF MaxNumSteps = 0 THEN NoStop ELSE ~MaxStepsReached
       /\ PublishIfDue(st)
       /\ \E sc \in Scores(st) :
            /\ SaveIfDue(st, sc)
            /\ \/ state' = "DATA_LOAD"
               \/ sc # {} /\ plan.stopper /\ state' = "EARLY_STOP"

RunPostStep ==
    /\ state = "POST_STEP"
    /\ PostStep("POST_STEP")
    /\ UNCHANGED <<progress, stop, late, overflows, kills, plan>>

\* _handle_end_of_data_epoch(): whatever it saves holds the old epoch number.
HandleEndOfDataEpoch ==
    /\ state = "END_OF_DATA_EPOCH"
    /\ \/ /\ MaxEpochsReached
          /\ state' = "END_OF_DATA"
          /\ UNCHANGED <<epoch, unreported, store>>
       \/ /\ ~MaxEpochsReached
          /\ PostStep("END_OF_DATA_EPOCH")
          /\ epoch' = epoch + 1
    /\ UNCHANGED <<step, pos, updates, seen, passes, stop, late, overflows,
                   kills, plan>>

-----------------------------------------------------------------------------
\* Mutant of Stop: a validation at the end does not complete the save.
StopNotCompleting ==
    /\ state \in {"END_OF_TRAINING", "END_OF_DATA", "STOP_REQUESTED"}
    /\ PublishIfDue(state)
    /\ \E sc \in Scores(state) : SaveIfDue(state, IF Due(Save, state) THEN sc ELSE {})
    /\ state' = "STOPPED"
    /\ UNCHANGED <<progress, stop, late, overflows, kills, plan>>

\* _stop(): with a validation due, the save runs beside it and is completed
\* after it; without, the save is blocking, and nothing is completed when no
\* save is due.
Stop ==
    /\ state \in {"END_OF_TRAINING", "END_OF_DATA", "STOP_REQUESTED"}
    /\ PublishIfDue(state)
    /\ \E sc \in Scores(state) :
          SaveIfDue(state, IF Due(Save, state) THEN sc ELSE {})
    /\ state' = IF Validates(state) \/ Due(Save, state)
                THEN "COMPLETING" ELSE "STOPPED"
    /\ UNCHANGED <<progress, stop, late, overflows, kills, plan>>

\* _early_stop(): every rank got the same broadcast flag.
EarlyStop ==
    /\ state = "EARLY_STOP"
    /\ stop' = [r \in Ranks |-> TRUE]
    /\ SaveIfDue(state, {})
    /\ state' = "COMPLETING"
    /\ UNCHANGED <<progress, unreported, late, overflows, kills, plan>>

\* Mutant of Complete: it polls until it has completed a save, though none may
\* be in flight.
CompletePolling ==
    /\ state = "COMPLETING"
    /\ \/ /\ written
          /\ disk'    = Commit(disk)
          /\ pending' = NoCkpt
          /\ written' = FALSE
          /\ state'   = "STOPPED"
       \/ ~written /\ UNCHANGED <<state, disk, pending, written>>
    /\ UNCHANGED <<progress, scored, stop, unreported, late, overflows, kills, plan>>

\* The end of a blocking save or of maybe_complete_save_operation(blocking=True).
Complete ==
    /\ state = "COMPLETING"
    /\ CanComplete
    /\ disk'    = Commit(disk)
    /\ pending' = NoCkpt
    /\ written' = FALSE
    /\ state'   = "STOPPED"
    /\ UNCHANGED <<progress, scored, stop, unreported, late, overflows, kills, plan>>

-----------------------------------------------------------------------------
\* The pool threads of every rank have written their files.
Written ==
    /\ pending # NoCkpt /\ ~written
    /\ written' = TRUE
    /\ UNCHANGED <<state, progress, stop, unreported, pending, disk, scored,
                   late, overflows, kills, plan>>

\* SIGUSR1 reaches a process.
RequestStop(r) ==
    /\ plan.signals
    /\ ~stop[r]
    /\ state \notin {"NOT_STARTED", "STOPPED", "FAILED"}
    /\ stop' = [stop EXCEPT ![r] = TRUE]
    /\ UNCHANGED <<state, progress, unreported, store, late, overflows, kills, plan>>

\* The job is killed, or it ended and is submitted again.
Kill ==
    /\ kills < MaxKills
    /\ state # "NOT_STARTED"
    /\ kills' = kills + 1
    /\ state' = "NOT_STARTED"
    /\ step' = 0 /\ epoch' = 1 /\ pos' = 0
    /\ updates' = 0 /\ seen' = 0 /\ passes' = 0
    /\ stop' = [r \in Ranks |-> FALSE]
    /\ unreported' = 0 /\ late' = 0
    /\ pending' = NoCkpt /\ written' = FALSE
    /\ UNCHANGED <<disk, scored, overflows, plan>>

\* The task is over, the job hangs, or the bound on steps is reached.
Ended ==
    /\ \/ state \in {"STOPPED", "FAILED", "HUNG"}
       \/ state = "STEP" /\ step = StepBound
    /\ UNCHANGED vars

Handler ==
    \/ Restore \/ PreValidate \/ ReadNextBatches
    \/ RunStep \/ RepeatStep \/ RunPostStep \/ HandleEndOfDataEpoch
    \/ Stop \/ EarlyStop \/ Complete

Next ==
    \/ Handler \/ Diverge \/ Written
    \/ \E r \in Ranks : RequestStop(r)
    \/ Kill \/ Ended

Spec == Init /\ [][Next]_vars

\* The loop runs on and the pool threads finish.
FairSpec == Spec /\ WF_vars(Handler \/ Diverge) /\ WF_vars(Written)

-----------------------------------------------------------------------------
State ==
    {"NOT_STARTED", "PRE_VALIDATION", "DATA_LOAD", "STEP", "POST_STEP",
     "END_OF_DATA_EPOCH", "END_OF_TRAINING", "END_OF_DATA", "GRAD_OVERFLOW",
     "EARLY_STOP", "STOP_REQUESTED", "COMPLETING", "STOPPED", "FAILED", "HUNG"}

Ckpt ==
    [step : 1..StepBound, epoch : Nat, pos : 0..EpochLen,
     updates : Nat, seen : Nat, passes : Nat]

\* The type of every variable.
TypeOK ==
    /\ state \in State
    /\ step \in 0..StepBound
    /\ epoch \in Nat /\ pos \in 0..EpochLen
    /\ updates \in Nat /\ seen \in Nat /\ passes \in Nat
    /\ stop \in [Ranks -> BOOLEAN]
    /\ unreported \in Nat
    /\ pending \in Ckpt \cup {NoCkpt}
    /\ written \in BOOLEAN
    /\ disk \in [1..StepBound -> Ckpt \cup {NoCkpt}]
    /\ scored \subseteq 1..StepBound
    /\ late \in Nat /\ overflows \in 0..MaxOverflows /\ kills \in 0..MaxKills
    /\ plan \in Plans

\* Restoring a checkpoint: whatever kills, overflows and resumptions lie in the
\* model's history, no batch of the data was skipped and none trained on twice.
DataExact ==
    state \in {"DATA_LOAD", "POST_STEP", "GRAD_OVERFLOW"} =>
        seen = passes * EpochLen + pos

\* GRAD_OVERFLOW and _repeat_step: the step number of a checkpoint is the number of
\* optimizer steps in the model it holds; only a job that is asked to stop while it
\* repeats a step keeps the number of the overflowed one, so that each job may add one.
StepExact ==
    \A s \in Stored :
        /\ disk[s].step = s
        /\ s - disk[s].updates \in 0..(IF plan.signals THEN kills + 1 ELSE 0)

\* _stop and _early_stop: when training ends, the checkpoint of its last step is
\* committed, nothing is left in flight and, other than by the early stopper, the
\* metrics of all steps were published.
EndSaved ==
    /\ state = "STOPPED" => pending = NoCkpt /\ (step = 0 \/ step \in Stored)
    /\ state \in {"COMPLETING", "STOPPED"} /\ ~AllStop => unreported = 0

\* The checkpoint a restart would resume from is not deleted before a later one is
\* committed, unless the same model is saved again as the same step: a job that stops,
\* or comes to the end of a pass, before its first step after a restore does so.
LastNeverLost ==
    [][\/ Last' >= Last
       \/ pending'.step = Last /\ pending'.updates = disk[Last].updates]_vars

\* A stop request ends training after the step in progress: once every rank was
\* asked, at most one more step begins.
StopPrompt == late <= 1

\* Training that has a limit ends: by that limit, early, or with an error; or it hangs
\* when a stop request reached its ranks at different moments (Diverge).
Terminates == <>[](state \in {"STOPPED", "FAILED", "HUNG"})
=============================================================================
