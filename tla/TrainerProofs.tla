---------------------------- MODULE TrainerProofs ----------------------------
(***************************************************************************)
(* Proofs about Trainer for any schedules, limits, number of ranks and     *)
(* bounds: the types, the exactness of the data position over kills and    *)
(* resumptions, the promptness of a stop request, the numbers of the       *)
(* checkpoints, which one is the last, and what is there when training     *)
(* ends.                                                                   *)
(***************************************************************************)
EXTENDS Trainer, TLAPS, NaturalsInduction, WellFoundedInduction

\* Once a step was run, the step number is positive: what is saved is a step.
Started ==
    state \in {"POST_STEP", "GRAD_OVERFLOW", "END_OF_DATA_EPOCH", "EARLY_STOP",
               "END_OF_TRAINING", "END_OF_DATA", "STOP_REQUESTED"} => step # 0

\* The batches a model was trained on are those its reader has yielded.
Balanced(c) == c.seen = c.passes * EpochLen + c.pos

Live == seen + (IF state = "STEP" THEN 1 ELSE 0) = passes * EpochLen + pos

Kept ==
    /\ pending # NoCkpt => Balanced(pending)
    /\ \A s \in 1..StepBound : disk[s] # NoCkpt => Balanced(disk[s])

DataInv == TypeOK /\ Started /\ Live /\ Kept

StoreTyped ==
    /\ pending \in Ckpt \cup {NoCkpt}
    /\ disk \in [1..StepBound -> Ckpt \cup {NoCkpt}]
    /\ written \in BOOLEAN
    /\ scored \subseteq 1..StepBound

-----------------------------------------------------------------------------
LEMMA ZeroTimes == 0 + 0 = 0 * EpochLen + 0
  BY RunAssumption

LEMMA NatAddZero == \A n \in Nat : n + 0 = n
  OBVIOUS

LEMMA CkptStep == \A c \in Ckpt : c # NoCkpt => c.step \in 1..StepBound
  BY DEF Ckpt

\* A rename keeps what is stored typed and balanced.
LEMMA CommitKeeps ==
    ASSUME StoreTyped, Kept
    PROVE  /\ Commit(disk) \in [1..StepBound -> Ckpt \cup {NoCkpt}]
           /\ \A s \in 1..StepBound :
                 Commit(disk)[s] # NoCkpt => Balanced(Commit(disk)[s])
  <1>1. CASE pending = NoCkpt
    BY <1>1 DEF Commit, StoreTyped, Kept
  <1>2. CASE pending # NoCkpt
    <2>1. pending \in Ckpt /\ pending.step \in 1..StepBound
      BY <1>2, CkptStep DEF StoreTyped
    <2>2. Commit(disk) = [disk EXCEPT ![pending.step] = pending]
      BY <1>2 DEF Commit
    <2> QED
      BY <1>2, <2>1, <2>2 DEF StoreTyped, Kept
  <1> QED
    BY <1>1, <1>2

LEMMA SnapshotTyped ==
    ASSUME TypeOK, step # 0
    PROVE  Snapshot \in Ckpt
  BY RunAssumption DEF TypeOK, Snapshot, Ckpt

\* A save begun outside a step keeps what is stored typed and balanced.
LEMMA SaveKeeps ==
    ASSUME TypeOK, Live, Kept, step # 0, state # "STEP",
           NEW st, NEW sc \in SUBSET {step}, SaveIfDue(st, sc)
    PROVE  StoreTyped' /\ Kept'
  <1>1. CASE UNCHANGED <<disk, pending, written, scored>>
    BY <1>1 DEF StoreTyped, Kept, TypeOK
  <1>2. CASE BeginSave(Snapshot) /\ scored' = (scored \ {step}) \cup sc
    <2>0. seen = passes * EpochLen + pos
      BY DEF Live, TypeOK
    <2>1. Snapshot \in Ckpt /\ Balanced(Snapshot)
      BY <2>0, SnapshotTyped DEF Snapshot, Balanced
    <2>2. step \in 1..StepBound
      BY RunAssumption DEF TypeOK
    <2>3. StoreTyped
      BY DEF StoreTyped, TypeOK
    <2>4. disk' = [Commit(disk) EXCEPT ![step] = NoCkpt]
      BY <1>2 DEF BeginSave
    <2>5. disk' \in [1..StepBound -> Ckpt \cup {NoCkpt}]
      BY <2>3, <2>4, CommitKeeps
    <2>6. \A s \in 1..StepBound : disk'[s] # NoCkpt => Balanced(disk'[s])
      BY <2>2, <2>3, <2>4, CommitKeeps
    <2>7. pending' = Snapshot /\ written' = FALSE
      BY <1>2 DEF BeginSave
    <2>8. scored' \subseteq 1..StepBound
      BY <1>2, <2>2 DEF TypeOK
    <2> QED
      BY <2>1, <2>5, <2>6, <2>7, <2>8 DEF StoreTyped, Kept
  <1> QED
    BY <1>1, <1>2 DEF SaveIfDue

LEMMA ScoresStep == \A st : \A sc \in Scores(st) : sc \in SUBSET {step}
  BY DEF Scores

LEMMA PublishTyped ==
    ASSUME TypeOK, NEW st, PublishIfDue(st) PROVE unreported' \in Nat
  BY DEF PublishIfDue, TypeOK

-----------------------------------------------------------------------------
LEMMA DataInit == Init => DataInv
  <1> SUFFICES ASSUME Init PROVE DataInv
    OBVIOUS
  <1>1. TypeOK
    <2>1. stop \in [Ranks -> BOOLEAN] /\ written \in BOOLEAN
      BY DEF Init
    <2>2. /\ state \in State /\ pending \in Ckpt \cup {NoCkpt}
          /\ disk \in [1..StepBound -> Ckpt \cup {NoCkpt}]
          /\ scored \subseteq 1..StepBound
      BY DEF Init, State
    <2>3. /\ step \in 0..StepBound /\ epoch \in Nat /\ pos \in 0..EpochLen
          /\ updates \in Nat /\ seen \in Nat /\ passes \in Nat
          /\ unreported \in Nat /\ late \in Nat
          /\ overflows \in 0..MaxOverflows /\ kills \in 0..MaxKills
      BY RunAssumption DEF Init
    <2>4. plan \in Plans
      BY DEF Init
    <2> QED
      BY <2>1, <2>2, <2>3, <2>4 DEF TypeOK
  <1>2. Live
    BY ZeroTimes DEF Init, Live
  <1> QED
    BY <1>1, <1>2 DEF Init, DataInv, Started, Kept

\* What the two places that run _run_post_step have in common.
LEMMA PostStepKeeps ==
    ASSUME DataInv, NEW st, state \in {"POST_STEP", "END_OF_DATA_EPOCH"}, PostStep(st)
    PROVE  /\ StoreTyped' /\ Kept' /\ unreported' \in Nat
           /\ state' \in {"END_OF_TRAINING", "STOP_REQUESTED", "DATA_LOAD", "EARLY_STOP"}
  <1> USE DEF DataInv
  <1>0. step # 0 /\ state # "STEP"
    BY DEF Started
  <1>1. CASE UNCHANGED <<unreported, store>>
               /\ state' \in {"END_OF_TRAINING", "STOP_REQUESTED"}
    BY <1>1 DEF store, StoreTyped, Kept, TypeOK
  <1>2. CASE PublishIfDue(st) /\ \E sc \in Scores(st) :
               SaveIfDue(st, sc) /\ state' \in {"DATA_LOAD", "EARLY_STOP"}
    <2>1. PICK sc \in Scores(st) :
            SaveIfDue(st, sc) /\ state' \in {"DATA_LOAD", "EARLY_STOP"}
      BY <1>2
    <2>2. sc \in SUBSET {step}
      BY ScoresStep
    <2> QED
      BY <1>0, <1>2, <2>1, <2>2, SaveKeeps, PublishTyped
  <1> QED
    BY <1>1, <1>2 DEF PostStep

LEMMA DataStep == DataInv /\ [Next]_vars => DataInv'
  <1> SUFFICES ASSUME DataInv, [Next]_vars PROVE DataInv'
    OBVIOUS
  <1> USE RunAssumption DEF DataInv
  <1>0. StoreTyped
    BY DEF StoreTyped, TypeOK
  <1>1. CASE Restore
    <2>1. CASE Stored = {}
      <3>1. /\ UNCHANGED <<step, epoch, pos, updates, seen, passes>>
            /\ UNCHANGED <<pending, written, disk, scored>>
            /\ UNCHANGED <<stop, unreported, late, overflows, kills, plan>>
            /\ state = "NOT_STARTED"
            /\ state' \in {"PRE_VALIDATION", "DATA_LOAD"}
        BY <1>1, <2>1 DEF Restore, progress, store, IsLast
      <3>2. Live'
        BY <3>1 DEF Live
      <3> QED
        BY <3>1, <3>2 DEF TypeOK, State, Started, Kept
    <2>2. ASSUME NEW s \in 1..StepBound, IsLast(s),
                 step' = disk[s].step, epoch' = disk[s].epoch, pos' = disk[s].pos,
                 updates' = disk[s].updates, seen' = disk[s].seen,
                 passes' = disk[s].passes, state' \in {"STOPPED", "DATA_LOAD"}
          PROVE  DataInv'
      <3>1. disk[s] \in Ckpt /\ Balanced(disk[s])
        BY <2>2 DEF IsLast, Stored, TypeOK, Kept
      <3>2. Live'
        BY <2>2, <3>1, NatAddZero DEF Balanced, Ckpt, Live
      <3>3. UNCHANGED <<pending, written, disk, scored>>
        BY <1>1 DEF Restore, store
      <3>4. /\ step' \in 0..StepBound /\ epoch' \in Nat /\ pos' \in 0..EpochLen
            /\ updates' \in Nat /\ seen' \in Nat /\ passes' \in Nat
        BY <2>2, <3>1 DEF Ckpt
      <3>5. Kept' /\ Started'
        BY <2>2, <3>3 DEF Kept, Started
      <3>6. TypeOK'
        BY <1>1, <2>2, <3>3, <3>4 DEF Restore, TypeOK, State
      <3> QED
        BY <3>2, <3>5, <3>6
    <2> QED
      BY <1>1, <2>1, <2>2 DEF Restore
  <1>2. CASE PreValidate
    BY <1>2 DEF PreValidate, TypeOK, State, Started, Live, Kept, progress, store
  <1>3. CASE ReadNextBatches
    <2>1. StoreTyped' /\ Kept'
      BY <1>0, <1>3 DEF ReadNextBatches, StoreTyped, Kept, store
    <2>2. CASE pos < EpochLen
      BY <1>3, <2>1, <2>2
         DEF ReadNextBatches, TypeOK, StoreTyped, State, Started, Live
    <2>3. CASE ~(pos < EpochLen)
      <3>1. pos = EpochLen /\ (passes + 1) * EpochLen + 0 = passes * EpochLen + pos
        BY <2>3 DEF TypeOK
      <3>2. Live'
        BY <1>3, <2>3, <3>1 DEF ReadNextBatches, Live
      <3> QED
        BY <1>3, <2>1, <2>3, <3>2
           DEF ReadNextBatches, TypeOK, StoreTyped, State, Started
    <2> QED
      BY <2>2, <2>3
  <1>4. CASE RunStep
    <2>1. StoreTyped' /\ Kept'
      BY <1>0, <1>4, CommitKeeps DEF RunStep, StoreTyped, Kept
    <2>2. step' \in 0..StepBound /\ step' # 0
      BY <1>4 DEF RunStep, TypeOK
    <2>3. state' \in {"POST_STEP", "GRAD_OVERFLOW", "FAILED"}
      BY <1>4 DEF RunStep
    <2>4. Live'
      BY <1>4, <2>3 DEF RunStep, Live, TypeOK
    <2>5. updates' \in Nat /\ unreported' \in Nat /\ overflows' \in 0..MaxOverflows
      BY <1>4 DEF RunStep, TypeOK
    <2> QED
      BY <1>4, <2>1, <2>2, <2>3, <2>4, <2>5
         DEF RunStep, TypeOK, StoreTyped, State, Started
  <1>5. CASE RepeatStep
    BY <1>5 DEF RepeatStep, TypeOK, State, Started, Live, Kept, store
  <1>6. CASE RunPostStep
    <2>1. PostStep("POST_STEP") /\ state = "POST_STEP"
      BY <1>6 DEF RunPostStep
    <2>2. /\ StoreTyped' /\ Kept' /\ unreported' \in Nat
          /\ state' \in {"END_OF_TRAINING", "STOP_REQUESTED", "DATA_LOAD", "EARLY_STOP"}
      BY <2>1, PostStepKeeps
    <2> QED
      BY <1>6, <2>2 DEF RunPostStep, TypeOK, StoreTyped, State, Started, Live, progress
  <1>7. CASE HandleEndOfDataEpoch
    <2>1. CASE state' = "END_OF_DATA" /\ UNCHANGED <<epoch, unreported, store>>
      BY <1>7, <2>1
         DEF HandleEndOfDataEpoch, TypeOK, State, Started, Live, Kept, store
    <2>2. CASE PostStep("END_OF_DATA_EPOCH") /\ epoch' = epoch + 1
      <3>1. /\ StoreTyped' /\ Kept' /\ unreported' \in Nat
            /\ state' \in {"END_OF_TRAINING", "STOP_REQUESTED", "DATA_LOAD", "EARLY_STOP"}
        BY <1>7, <2>2, PostStepKeeps DEF HandleEndOfDataEpoch
      <3> QED
        BY <1>7, <2>2, <3>1
           DEF HandleEndOfDataEpoch, TypeOK, StoreTyped, State, Started, Live
    <2> QED
      BY <1>7, <2>1, <2>2 DEF HandleEndOfDataEpoch
  <1>8. CASE Stop
    <2>1. PICK sc \in Scores(state) :
            SaveIfDue(state, IF Due(Save, state) THEN sc ELSE {})
      BY <1>8 DEF Stop
    <2>2. sc \in SUBSET {step} /\ {} \in SUBSET {step}
      BY ScoresStep
    <2>3. state # "STEP" /\ step # 0
      BY <1>8 DEF Stop, Started
    <2>4. StoreTyped' /\ Kept'
      BY <2>1, <2>2, <2>3, SaveKeeps
    <2>5. unreported' \in Nat
      BY <1>8, PublishTyped DEF Stop
    <2>6. state' \in {"COMPLETING", "STOPPED"}
      BY <1>8 DEF Stop
    <2> QED
      BY <1>8, <2>3, <2>4, <2>5, <2>6
         DEF Stop, TypeOK, StoreTyped, State, Started, Live, progress
  <1>9. CASE EarlyStop
    <2>1. state # "STEP" /\ step # 0 /\ {} \in SUBSET {step}
      BY <1>9 DEF EarlyStop, Started
    <2>2. StoreTyped' /\ Kept'
      BY <1>9, <2>1, SaveKeeps DEF EarlyStop
    <2> QED
      BY <1>9, <2>1, <2>2
         DEF EarlyStop, TypeOK, StoreTyped, State, Started, Live, progress
  <1>10. CASE Complete
    BY <1>0, <1>10, CommitKeeps
       DEF Complete, TypeOK, State, Started, Live, Kept, progress
  <1>11. CASE Diverge
    BY <1>11 DEF Diverge, TypeOK, State, Started, Live, Kept, progress, store
  <1>12. CASE Written
    BY <1>12 DEF Written, TypeOK, Started, Live, Kept, progress
  <1>13. ASSUME NEW r \in Ranks, RequestStop(r) PROVE DataInv'
    BY <1>13 DEF RequestStop, TypeOK, Started, Live, Kept, progress, store
  <1>14. CASE Kill
    <2>1. Live'
      BY <1>14, ZeroTimes DEF Kill, Live
    <2>2. TypeOK'
      <3>1. stop' \in [Ranks -> BOOLEAN] /\ written' \in BOOLEAN
        BY <1>14 DEF Kill
      <3>2. state' \in State /\ pending' \in Ckpt \cup {NoCkpt}
        BY <1>14 DEF Kill, State
      <3>3. disk' \in [1..StepBound -> Ckpt \cup {NoCkpt}] /\ scored' \subseteq 1..StepBound
        BY <1>14 DEF Kill, TypeOK
      <3>4. /\ step' \in 0..StepBound /\ epoch' \in Nat /\ pos' \in 0..EpochLen
            /\ updates' \in Nat /\ seen' \in Nat /\ passes' \in Nat
            /\ unreported' \in Nat /\ late' \in Nat
            /\ overflows' \in 0..MaxOverflows /\ kills' \in 0..MaxKills
        BY <1>14 DEF Kill, TypeOK
      <3>5. plan' \in Plans
        BY <1>14 DEF Kill, TypeOK
      <3> QED
        BY <3>1, <3>2, <3>3, <3>4, <3>5 DEF TypeOK
    <2> QED
      BY <1>14, <2>1, <2>2 DEF Kill, Started, Kept
  <1>15. CASE UNCHANGED vars
    BY <1>15 DEF vars, TypeOK, Started, Live, Kept, progress, store
  <1> QED
    BY <1>1, <1>2, <1>3, <1>4, <1>5, <1>6, <1>7, <1>8, <1>9, <1>10, <1>11,
       <1>12, <1>13, <1>14, <1>15 DEF Next, Handler, Ended

\* Every variable keeps its type: Trainer never saves outside the steps it has
\* run.
THEOREM TypeCorrect == Spec => []TypeOK
  <1>1. DataInv => TypeOK
    BY DEF DataInv
  <1> QED
    BY <1>1, DataInit, DataStep, PTL DEF Spec

\* Whatever kills, overflows and resumptions lie in a model's history, it was
\* trained on the batches before its reader's position, each once per pass.
THEOREM DataIsExact == Spec => []DataExact
  <1>1. DataInv => DataExact
    <2> SUFFICES ASSUME DataInv, state \in {"DATA_LOAD", "POST_STEP", "GRAD_OVERFLOW"}
                 PROVE  seen = passes * EpochLen + pos
      BY DEF DataExact
    <2>1. seen + 0 = passes * EpochLen + pos
      BY DEF DataInv, Live
    <2>2. seen \in Nat
      BY DEF DataInv, TypeOK
    <2> QED
      BY <2>1, <2>2, NatAddZero
  <1> QED
    BY <1>1, DataInit, DataStep, PTL DEF Spec

-----------------------------------------------------------------------------
\* A late step is the step in progress: no further batch is read after it.
LateInv ==
    /\ plan \in Plans
    /\ late \in Nat
    /\ late = 0 \/ AllStop
    /\ state \in {"NOT_STARTED", "PRE_VALIDATION", "DATA_LOAD", "STEP",
                  "END_OF_DATA_EPOCH"} => late = 0
    /\ late <= 1

\* Without max_num_steps, a stop request that reached every rank ends training
\* after at most one more step.
THEOREM StopIsPrompt ==
    Ranks # {} /\ (\A p \in Plans : p.maxNumSteps = 0) /\ Spec => []StopPrompt
  <1> SUFFICES ASSUME Ranks # {}, \A p \in Plans : p.maxNumSteps = 0
               PROVE  Spec => []StopPrompt
    OBVIOUS
  <1>1. Init => LateInv
    BY DEF Init, LateInv
  <1>2. LateInv /\ [Next]_vars => LateInv'
    <2> SUFFICES ASSUME LateInv, [Next]_vars PROVE LateInv'
      OBVIOUS
    <2> USE DEF LateInv
    <2>0. ~(AllStop /\ NoStop) /\ MaxNumSteps = 0
      BY DEF AllStop, NoStop, MaxNumSteps
    <2>1. CASE Restore
      BY <2>1 DEF Restore, AllStop
    <2>2. CASE PreValidate
      BY <2>2 DEF PreValidate, AllStop
    <2>3. CASE ReadNextBatches
      BY <2>3 DEF ReadNextBatches, AllStop
    <2>4. CASE RunStep
      <3>1. late = 0 /\ state' \in {"POST_STEP", "GRAD_OVERFLOW", "FAILED"}
        BY <2>4 DEF RunStep
      <3>2. late' = IF AllStop THEN 1 ELSE 0
        BY <2>4, <3>1 DEF RunStep
      <3> QED
        BY <2>4, <3>1, <3>2 DEF RunStep, AllStop
    <2>5. CASE RepeatStep
      BY <2>0, <2>5 DEF RepeatStep, AllStop
    <2>6. CASE RunPostStep
      BY <2>0, <2>6 DEF RunPostStep, PostStep, MaxStepsReached, AllStop
    <2>7. CASE HandleEndOfDataEpoch
      BY <2>7 DEF HandleEndOfDataEpoch, AllStop
    <2>8. CASE Stop
      BY <2>8 DEF Stop, AllStop
    <2>9. CASE EarlyStop
      BY <2>9 DEF EarlyStop, AllStop
    <2>10. CASE Complete
      BY <2>10 DEF Complete, AllStop
    <2>11. CASE Diverge
      BY <2>11 DEF Diverge, AllStop
    <2>12. CASE Written
      BY <2>12 DEF Written, AllStop
    <2>13. ASSUME NEW r \in Ranks, RequestStop(r) PROVE LateInv'
      BY <2>13 DEF RequestStop, AllStop
    <2>14. CASE Kill
      BY <2>14 DEF Kill
    <2>15. CASE UNCHANGED vars
      BY <2>15 DEF vars, AllStop
    <2> QED
      BY <2>1, <2>2, <2>3, <2>4, <2>5, <2>6, <2>7, <2>8, <2>9, <2>10, <2>11,
         <2>12, <2>13, <2>14, <2>15 DEF Next, Handler, Ended
  <1>3. LateInv => StopPrompt
    BY DEF LateInv, StopPrompt
  <1> QED
    BY <1>1, <1>2, <1>3, PTL DEF Spec

-----------------------------------------------------------------------------
(***************************************************************************)
(* What is left on disk.                                                   *)
(***************************************************************************)
\* _should_do at step n.
DueAt(sc, n) == sc.every # 0 /\ n > sc.after /\ n % sc.every = 0

\* The step that training has reached: in GRAD_OVERFLOW the number is one ahead of it.
Reached == IF state = "GRAD_OVERFLOW" THEN step - 1 ELSE step

\* A job that has begun to stop may hold the number of an overflowed step.
Ending == {"STOP_REQUESTED", "COMPLETING", "STOPPED"}

MaySkip == (IF plan.signals THEN kills ELSE 0)
             + (IF plan.signals /\ state \in Ending THEN 1 ELSE 0)

\* The numbers of the checkpoints, of their models and of the model being trained.
Numbered(m) ==
    /\ \A s \in Stored : disk[s].step = s /\ s - disk[s].updates \in 0..m
    /\ pending # NoCkpt => pending.step - pending.updates \in 0..m

NumbersOK ==
    /\ Numbered(MaySkip)
    /\ state = "GRAD_OVERFLOW" => step - updates \in 1..(MaySkip + 1)
    /\ state \notin {"GRAD_OVERFLOW", "FAILED", "HUNG"} => step - updates \in 0..MaySkip
    /\ ~plan.signals /\ state \notin {"COMPLETING", "STOPPED"} => NoStop
    /\ state \in {"NOT_STARTED", "PRE_VALIDATION"} => step = 0 /\ updates = 0

\* The checkpoints are of steps up to n, and that of n is of a model of u updates.
UpTo(n, u) ==
    /\ \A s \in Stored : s <= n /\ (s = n => disk[s].updates = u)
    /\ pending # NoCkpt => pending.step <= n /\ (pending.step = n => pending.updates = u)

LatestOK ==
    /\ state = "NOT_STARTED" => pending = NoCkpt
    /\ state # "NOT_STARTED" => UpTo(Reached, updates)

Held(s) == s \in Stored \/ (pending # NoCkpt /\ pending.step = s)

\* The save of the step that training has reached was due after it.
Owed ==
    /\ state \in {"DATA_LOAD", "STEP", "GRAD_OVERFLOW", "END_OF_DATA_EPOCH", "END_OF_DATA",
                  "EARLY_STOP"}
    /\ Reached # 0 /\ DueAt(Save, Reached)

\* Its metrics were published, or there are none.
Reported ==
    /\ state \in {"DATA_LOAD", "STEP", "GRAD_OVERFLOW", "END_OF_DATA_EPOCH", "END_OF_DATA"}
    /\ Reached = 0 \/ DueAt(Pub, Reached)

\* At the end there is a checkpoint of the last step.
EndOK ==
    /\ state = "STOPPED" => pending = NoCkpt /\ (step = 0 \/ step \in Stored)
    /\ state = "COMPLETING" => Held(step)
    /\ state = "END_OF_DATA" => MaxNumEpochs # 0
    /\ Owed => Held(Reached)

ReportOK ==
    /\ state \in {"COMPLETING", "STOPPED"} /\ ~AllStop => unreported = 0
    /\ state \in {"NOT_STARTED", "PRE_VALIDATION"} => unreported = 0
    /\ Reported => unreported = 0

\* At the end of a pass that ends training, a step that was saved asynchronously after it
\* is not saved again; unless the step is validated then, nothing completes the save.
EndsCompleted(p) ==
    p.maxNumEpochs # 0 =>
        \A n \in 1..StepBound :
            DueAt(Save, n) => p.val.present /\ ~DueAt(p.val.schedule, n)

Shape == DataInv /\ NumbersOK /\ LatestOK

-----------------------------------------------------------------------------
(***************************************************************************)
(* The last checkpoint.                                                    *)
(***************************************************************************)
LEMMA GreatestStep ==
    ASSUME NEW T \in SUBSET (1..StepBound), T # {}
    PROVE  \E n \in T : \A m \in T : m <= n
  <1> USE RunAssumption
  <1> DEFINE U == {StepBound - m : m \in T}
             R == OpToRel(<, Nat)
  <1>0. \A m \in T : m \in 1..StepBound
    OBVIOUS
  <1>1. U \in SUBSET Nat /\ U # {}
    <2>1. \A m \in T : StepBound - m \in Nat
      BY <1>0
    <2>2. \A u \in U : u \in Nat
      BY <2>1
    <2>3. U # {}
      OBVIOUS
    <2> QED
      BY <2>2, <2>3
  <1>2. IsWellFoundedOn(R, Nat)
    BY NatLessThanWellFounded
  <1>3. PICK u \in U : \A v \in U : ~(<<v, u>> \in R)
    BY <1>1, <1>2, WFMin
  <1>4. \A v \in U : ~(v < u)
    BY <1>1, <1>3 DEF OpToRel
  <1>5. PICK n \in T : u = StepBound - n
    OBVIOUS
  <1>6. \A m \in T : StepBound - m \in U
    OBVIOUS
  <1>7. \A m \in T : ~(StepBound - m < StepBound - n)
    BY <1>4, <1>5, <1>6
  <1>8. \A m \in T : m \in Int /\ n \in Int
    OBVIOUS
  <1> QED
    BY <1>7, <1>8

LastOK ==
    /\ Stored = {} => Last = 0
    /\ Stored # {} => Last \in Stored /\ \A t \in Stored : t <= Last

LEMMA LastIs == LastOK
  <1>1. CASE Stored # {}
    <2>1. Stored \in SUBSET (1..StepBound)
      BY DEF Stored
    <2>2. \E s \in Stored : IsLast(s)
      BY <1>1, <2>1, GreatestStep DEF IsLast
    <2> QED
      BY <1>1, <2>2 DEF Last, IsLast, LastOK
  <1> QED
    BY <1>1 DEF Last, LastOK

LEMMA LastIsNext == LastOK'
  BY LastIs, PTL

-----------------------------------------------------------------------------
(***************************************************************************)
(* What the actions do to the checkpoints.                                 *)
(***************************************************************************)
\* What is stored was stored, or was in flight.
Moved ==
    \A s \in Stored' : \/ s \in Stored /\ disk'[s] = disk[s]
                       \/ pending # NoCkpt /\ s = pending.step /\ disk'[s] = pending

\* The checkpoint in flight may have been committed.
Keeps ==
    /\ Moved /\ pending' \in {pending, NoCkpt} /\ Stored \subseteq Stored'
    /\ \A s \in 1..StepBound : Held(s) => Held(s)'

\* It was, and another is in flight, in the place of any of the same step.
Saves ==
    /\ Moved /\ pending' = Snapshot /\ step \in 1..StepBound
    /\ \A s \in Stored : s # step => s \in Stored'

LEMMA CommitIs ==
    ASSUME TypeOK
    PROVE  /\ DOMAIN Commit(disk) = 1..StepBound
           /\ pending = NoCkpt => Commit(disk) = disk
           /\ pending # NoCkpt =>
                /\ pending \in Ckpt /\ pending.step \in 1..StepBound
                /\ \A s \in 1..StepBound :
                      Commit(disk)[s] = IF s = pending.step THEN pending ELSE disk[s]
  <1>1. disk \in [1..StepBound -> Ckpt \cup {NoCkpt}]
    BY DEF TypeOK
  <1>2. pending # NoCkpt => pending \in Ckpt /\ pending.step \in 1..StepBound
    BY CkptStep DEF TypeOK
  <1> QED
    BY <1>1, <1>2 DEF Commit

LEMMA CommitMoves ==
    ASSUME TypeOK, disk' = Commit(disk), pending' = NoCkpt PROVE Keeps
  <1>1. CASE pending = NoCkpt
    BY <1>1, CommitIs DEF Keeps, Moved, Stored, Held
  <1>2. CASE pending # NoCkpt
    <2>1. /\ pending.step \in 1..StepBound
          /\ \A s \in 1..StepBound : disk'[s] = IF s = pending.step THEN pending ELSE disk[s]
      BY <1>2, CommitIs
    <2>2. Moved
      BY <1>2, <2>1 DEF Moved, Stored
    <2>3. Stored \subseteq Stored' /\ pending.step \in Stored'
      BY <1>2, <2>1 DEF Stored
    <2> QED
      BY <2>2, <2>3 DEF Keeps, Held
  <1> QED
    BY <1>1, <1>2

LEMMA SameMoves == ASSUME disk' = disk, pending' = pending PROVE Keeps
  BY DEF Keeps, Moved, Stored, Held

LEMMA SaveMoves ==
    ASSUME TypeOK, step # 0, NEW st, NEW sc, SaveIfDue(st, sc)
    PROVE  IF Due(Save, st) THEN Saves ELSE Keeps
  <1>1. CASE ~Due(Save, st)
    BY <1>1, SameMoves DEF SaveIfDue
  <1>2. CASE Due(Save, st)
    <2>1. step \in 1..StepBound
      BY RunAssumption DEF TypeOK
    <2>2. pending' = Snapshot /\ disk' = [Commit(disk) EXCEPT ![step] = NoCkpt]
      BY <1>2 DEF SaveIfDue, BeginSave
    <2>3. disk'[step] = NoCkpt /\ \A s \in 1..StepBound : s # step => disk'[s] = Commit(disk)[s]
      BY <2>1, <2>2, CommitIs
    <2>4. CASE pending = NoCkpt
      BY <1>2, <2>1, <2>2, <2>3, <2>4, CommitIs DEF Saves, Moved, Stored
    <2>5. CASE pending # NoCkpt
      <3>1. \A s \in 1..StepBound : Commit(disk)[s] = IF s = pending.step THEN pending ELSE disk[s]
        BY <2>5, CommitIs
      <3>2. Moved
        BY <2>3, <2>5, <3>1 DEF Moved, Stored
      <3>3. \A s \in Stored : s # step => s \in Stored'
        BY <2>3, <2>5, <3>1 DEF Stored
      <3> QED
        BY <1>2, <2>1, <2>2, <3>2, <3>3 DEF Saves
    <2> QED
      BY <2>4, <2>5
  <1> QED
    BY <1>1, <1>2

\* The states from which a save begins.
Saving == {"POST_STEP", "END_OF_DATA_EPOCH", "END_OF_TRAINING", "END_OF_DATA",
           "STOP_REQUESTED", "EARLY_STOP"}

LEMMA PostStepMoves ==
    ASSUME TypeOK, step # 0, NEW st, PostStep(st) PROVE Keeps \/ Saves
  <1>1. CASE UNCHANGED store
    BY <1>1, SameMoves DEF store
  <1>2. CASE \E sc \in Scores(st) : SaveIfDue(st, sc)
    BY <1>2, SaveMoves
  <1> QED
    BY <1>1, <1>2 DEF PostStep

LEMMA StoreStep ==
    ASSUME DataInv, [Next]_vars
    PROVE  \/ Keeps
           \/ Saves /\ state \in Saving /\ UNCHANGED <<step, updates>>
           \/ Kill
  <1> USE DEF DataInv, Saving
  <1>1. CASE UNCHANGED store
    BY <1>1, SameMoves DEF store
  <1>2. CASE RunStep
    <2>1. CASE written
      BY <1>2, <2>1, CommitMoves DEF RunStep
    <2>2. CASE ~written
      BY <1>2, <2>2, SameMoves DEF RunStep
    <2> QED
      BY <2>1, <2>2
  <1>3. CASE RunPostStep
    BY <1>3, PostStepMoves DEF RunPostStep, Started, progress
  <1>4. CASE HandleEndOfDataEpoch
    <2>1. step # 0 /\ state \in Saving /\ UNCHANGED <<step, updates>>
      BY <1>4 DEF HandleEndOfDataEpoch, Started
    <2>2. UNCHANGED store \/ PostStep("END_OF_DATA_EPOCH")
      BY <1>4 DEF HandleEndOfDataEpoch
    <2> QED
      BY <1>1, <2>1, <2>2, PostStepMoves
  <1>5. CASE Stop
    <2>1. step # 0 /\ state \in Saving /\ UNCHANGED <<step, updates>>
      BY <1>5 DEF Stop, Started, progress
    <2>2. \E sc \in Scores(state) : SaveIfDue(state, IF Due(Save, state) THEN sc ELSE {})
      BY <1>5 DEF Stop
    <2> QED
      BY <2>1, <2>2, SaveMoves
  <1>6. CASE EarlyStop
    BY <1>6, SaveMoves DEF EarlyStop, Started, progress
  <1>7. CASE Complete
    BY <1>7, CommitMoves DEF Complete
  <1>8. CASE Written
    BY <1>8, SameMoves DEF Written
  <1>9. CASE Restore \/ PreValidate \/ ReadNextBatches \/ RepeatStep \/ Diverge
             \/ (\E r \in Ranks : RequestStop(r)) \/ UNCHANGED vars
    BY <1>1, <1>9 DEF Restore, PreValidate, ReadNextBatches, RepeatStep, Diverge, RequestStop, vars
  <1> QED
    BY <1>2, <1>3, <1>4, <1>5, <1>6, <1>7, <1>8, <1>9 DEF Next, Handler, Ended

-----------------------------------------------------------------------------
(***************************************************************************)
(* Step numbers.                                                           *)
(***************************************************************************)

\* A bound on the skipped numbers survives what is done to the checkpoints.
LEMMA NumberedMoves ==
    ASSUME NEW m \in Nat, NEW n \in Nat, m <= n, Numbered(m),
           Keeps \/ (Saves /\ step - updates \in 0..m)
    PROVE  Numbered(n)'
  <1>0. \A k \in 0..m : k \in 0..n
    OBVIOUS
  <1>1. \A s \in Stored' : disk'[s].step = s /\ s - disk'[s].updates \in 0..m
    BY DEF Numbered, Moved, Keeps, Saves
  <1>2. pending' # NoCkpt => pending'.step - pending'.updates \in 0..m
    BY DEF Numbered, Keeps, Saves, Snapshot
  <1> QED
    BY <1>0, <1>1, <1>2 DEF Numbered

LEMMA SignalsIs == ASSUME TypeOK PROVE plan.signals \in BOOLEAN /\ kills \in Nat
  BY ScheduleAssumption, RunAssumption DEF TypeOK

\* How many numbers may be skipped grows with the jobs.
LEMMA MaySkipGrows ==
    ASSUME DataInv, [Next]_vars
    PROVE  /\ MaySkip \in Nat /\ MaySkip' \in Nat /\ MaySkip <= MaySkip'
           /\ plan' = plan
           /\ RepeatStep /\ state' = "STOP_REQUESTED" /\ plan.signals => MaySkip + 1 <= MaySkip'
  <1>1. plan.signals \in BOOLEAN /\ kills \in Nat
    BY SignalsIs DEF DataInv
  <1>2. plan' = plan
    BY DEF Next, Handler, Restore, PreValidate, ReadNextBatches, RunStep, RepeatStep,
       RunPostStep, HandleEndOfDataEpoch, Stop, EarlyStop, Complete, Diverge, Written,
       RequestStop, Kill, Ended, vars
  <1>3. \/ kills' = kills + 1
        \/ kills' = kills /\ (state \in Ending => state' \in Ending)
    BY DEF Next, Handler, Restore, PreValidate, ReadNextBatches, RunStep, RepeatStep,
       RunPostStep, HandleEndOfDataEpoch, Stop, EarlyStop, Complete, Diverge, Written,
       RequestStop, Kill, Ended, vars, Ending
  <1>4. CASE plan.signals
    <2>1. /\ MaySkip = kills + (IF state \in Ending THEN 1 ELSE 0)
          /\ MaySkip' = kills' + (IF state' \in Ending THEN 1 ELSE 0)
      BY <1>2, <1>4 DEF MaySkip
    <2>2. MaySkip \in Nat /\ MaySkip' \in Nat /\ MaySkip <= MaySkip'
      BY <1>1, <1>3, <2>1
    <2>3. ASSUME RepeatStep, state' = "STOP_REQUESTED" PROVE MaySkip + 1 <= MaySkip'
      <3>1. state \notin Ending /\ kills' = kills /\ state' \in Ending
        BY <2>3 DEF RepeatStep, Ending
      <3> QED
        BY <1>1, <2>1, <3>1
    <2> QED
      BY <1>2, <2>2, <2>3
  <1>5. CASE ~plan.signals
    <2>1. MaySkip = 0 /\ MaySkip' = 0
      BY <1>2, <1>5 DEF MaySkip
    <2> QED
      BY <1>2, <1>5, <2>1
  <1> QED
    BY <1>1, <1>4, <1>5

LEMMA Wider ==
    ASSUME NEW m \in Nat, NEW n \in Nat, m <= n, NEW k \in 0..m
    PROVE  k \in 0..n /\ k + 1 \in 1..(n + 1)
  OBVIOUS

\* The model and its step number.
Progress ==
    /\ state = "GRAD_OVERFLOW" => step - updates \in 1..(MaySkip + 1)
    /\ state \notin {"GRAD_OVERFLOW", "FAILED", "HUNG"} => step - updates \in 0..MaySkip
    /\ ~plan.signals /\ state \notin {"COMPLETING", "STOPPED"} => NoStop
    /\ state \in {"NOT_STARTED", "PRE_VALIDATION"} => step = 0 /\ updates = 0

LEMMA ProgressStep ==
    ASSUME DataInv, NumbersOK, Ranks # {}, [Next]_vars PROVE Progress'
  <1>0. /\ MaySkip \in Nat /\ MaySkip' \in Nat /\ MaySkip <= MaySkip' /\ plan' = plan
        /\ plan.signals \in BOOLEAN
        /\ step \in Nat /\ updates \in Nat /\ step' \in Nat /\ updates' \in Nat
        /\ Numbered(MaySkip) /\ Progress
    <2>1. DataInv'
      BY DataStep
    <2>2. step \in Nat /\ updates \in Nat /\ step' \in Nat /\ updates' \in Nat
      BY <2>1, RunAssumption DEF DataInv, TypeOK
    <2>3. plan.signals \in BOOLEAN
      BY SignalsIs DEF DataInv
    <2>4. Numbered(MaySkip) /\ Progress
      BY DEF NumbersOK, Progress
    <2> QED
      BY <2>2, <2>3, <2>4, MaySkipGrows
  <1>12. /\ MaySkip \in Nat /\ MaySkip' \in Nat /\ MaySkip <= MaySkip'
         /\ step \in Nat /\ updates \in Nat /\ step' \in Nat /\ updates' \in Nat
    BY <1>0
  <1>1. CASE UNCHANGED <<step, updates, stop>> /\ state \notin {"GRAD_OVERFLOW", "FAILED", "HUNG"}
             /\ state' \notin {"GRAD_OVERFLOW", "NOT_STARTED"}
             /\ (state' = "PRE_VALIDATION" => state = "PRE_VALIDATION")
             /\ (state \in {"COMPLETING", "STOPPED"} => state' \in {"COMPLETING", "STOPPED"})
    <2>1. step' - updates' \in 0..MaySkip'
      BY <1>0, <1>1 DEF Progress
    <2>2. NoStop => NoStop'
      BY <1>1 DEF NoStop
    <2> QED
      BY <1>0, <1>1, <2>1, <2>2 DEF Progress
  <1>2. CASE UNCHANGED <<step, updates, stop, state, plan, kills>>
    <2>1. MaySkip' = MaySkip
      BY <1>2 DEF MaySkip
    <2> QED
      BY <1>0, <1>2, <2>1 DEF Progress, NoStop
  <1>3. CASE Restore
    <2>1. NoStop => NoStop'
      BY <1>3 DEF Restore, NoStop
    <2>2. state = "NOT_STARTED"
      BY <1>3 DEF Restore
    <2>3. CASE Stored = {} /\ state' \in {"PRE_VALIDATION", "DATA_LOAD"} /\ UNCHANGED progress
      BY <1>0, <2>1, <2>2, <2>3 DEF Progress, progress
    <2>4. ASSUME NEW s \in 1..StepBound, IsLast(s), step' = disk[s].step,
                 updates' = disk[s].updates, state' \in {"STOPPED", "DATA_LOAD"}
          PROVE  Progress'
      <3>0. disk[s].step = s /\ s - disk[s].updates \in 0..MaySkip
        BY <1>0, <2>4 DEF Numbered, IsLast
      <3>1. step' - updates' \in 0..MaySkip
        BY <2>4, <3>0
      <3>2. step' - updates' \in 0..MaySkip'
        BY <1>12, <3>1, Wider
      <3> QED
        BY <1>0, <2>1, <2>2, <2>4, <3>2 DEF Progress
    <2> QED
      BY <1>3, <2>3, <2>4 DEF Restore
  <1>4. CASE RunStep
    <2>1. /\ state = "STEP" /\ step' = step + 1 /\ UNCHANGED <<stop, kills, plan>>
          /\ \/ state' = "POST_STEP" /\ updates' = updates + 1
             \/ state' \in {"GRAD_OVERFLOW", "FAILED"} /\ updates' = updates
      BY <1>4 DEF RunStep
    <2>2. NoStop => NoStop'
      BY <2>1 DEF NoStop
    <2>3. step - updates \in 0..MaySkip
      BY <1>0, <2>1 DEF Progress
    <2>4. state' = "POST_STEP" => step' - updates' \in 0..MaySkip'
      BY <1>0, <2>1, <2>3
    <2>5. state' = "GRAD_OVERFLOW" => step' - updates' \in 1..(MaySkip' + 1)
      <3>1. state' = "GRAD_OVERFLOW" => step' - updates' = (step - updates) + 1
        BY <1>0, <2>1
      <3>2. (step - updates) + 1 \in 1..(MaySkip' + 1)
        BY <1>12, <2>3, Wider
      <3> QED
        BY <3>1, <3>2
    <2> QED
      BY <1>0, <2>1, <2>2, <2>4, <2>5 DEF Progress
  <1>5. CASE RepeatStep
    <2>1. state = "GRAD_OVERFLOW" /\ updates' = updates /\ (NoStop => NoStop')
      BY <1>5 DEF RepeatStep, NoStop
    <2>2. step - updates \in 1..(MaySkip + 1)
      BY <1>0, <2>1 DEF Progress
    <2>3. CASE state' = "DATA_LOAD" /\ step' = step - 1
      <3>1. step' - updates' \in 0..MaySkip'
        BY <1>0, <2>1, <2>2, <2>3
      <3> QED
        BY <1>0, <2>1, <2>3, <3>1 DEF Progress
    <2>4. CASE state' = "STOP_REQUESTED" /\ step' = step /\ AllStop
      <3>1. plan.signals
        BY <1>0, <2>1, <2>4 DEF Progress, AllStop, NoStop
      <3>2. MaySkip + 1 <= MaySkip'
        BY <1>5, <2>4, <3>1, MaySkipGrows
      <3>3. step' - updates' \in 0..MaySkip'
        BY <1>0, <2>1, <2>2, <2>4, <3>2
      <3> QED
        BY <1>0, <2>1, <2>4, <3>1, <3>3 DEF Progress
    <2> QED
      BY <1>5, <2>3, <2>4 DEF RepeatStep
  <1>6. CASE EarlyStop
    <2>1. UNCHANGED <<step, updates>> /\ state = "EARLY_STOP" /\ state' = "COMPLETING"
      BY <1>6 DEF EarlyStop, progress
    <2>2. step' - updates' \in 0..MaySkip'
      BY <1>0, <2>1 DEF Progress
    <2> QED
      BY <2>1, <2>2 DEF Progress
  <1>7. CASE \E r \in Ranks : RequestStop(r)
    <2>1. UNCHANGED <<step, updates, state, plan, kills>> /\ plan.signals
      BY <1>7 DEF RequestStop, progress
    <2>2. MaySkip' = MaySkip
      BY <2>1 DEF MaySkip
    <2> QED
      BY <1>0, <2>1, <2>2 DEF Progress
  <1>8. CASE Kill
    <2>1. step' = 0 /\ updates' = 0 /\ NoStop' /\ state' = "NOT_STARTED"
      BY <1>8 DEF Kill, NoStop
    <2> QED
      BY <1>0, <2>1 DEF Progress
  <1>9. CASE PreValidate \/ ReadNextBatches \/ RunPostStep \/ HandleEndOfDataEpoch \/ Stop
             \/ Complete
    BY <1>1, <1>9 DEF PreValidate, ReadNextBatches, RunPostStep, PostStep, HandleEndOfDataEpoch,
       Stop, Complete, progress
  <1>10. CASE Diverge
    BY <1>0, <1>10 DEF Diverge, Progress, progress, NoStop
  <1>11. CASE Written \/ UNCHANGED vars
    BY <1>2, <1>11 DEF Written, vars, progress
  <1> QED
    BY <1>3, <1>4, <1>5, <1>6, <1>7, <1>8, <1>9, <1>10, <1>11 DEF Next, Handler, Ended

LEMMA NumbersStep ==
    ASSUME DataInv, NumbersOK, Ranks # {}, [Next]_vars PROVE NumbersOK'
  <1>1. Progress'
    BY ProgressStep
  <1>2. Numbered(MaySkip)'
    <2>1. MaySkip \in Nat /\ MaySkip' \in Nat /\ MaySkip <= MaySkip' /\ Numbered(MaySkip)
      BY MaySkipGrows DEF NumbersOK
    <2>2. state \in Saving => step - updates \in 0..MaySkip
      BY DEF NumbersOK, Saving
    <2>3. CASE Keeps \/ (Saves /\ state \in Saving)
      <3>1. Keeps \/ (Saves /\ step - updates \in 0..MaySkip)
        BY <2>2, <2>3
      <3> QED
        BY <2>1, <3>1, NumberedMoves DEF Numbered
    <2>4. CASE Kill
      <3>1. disk' = disk /\ pending' = NoCkpt
        BY <2>4 DEF Kill
      <3> QED
        BY <2>1, <3>1 DEF Numbered, Stored
    <2> QED
      BY <2>3, <2>4, StoreStep
  <1> QED
    BY <1>1, <1>2 DEF NumbersOK, Progress

-----------------------------------------------------------------------------
(***************************************************************************)
(* The last checkpoint is of the model that is trained on.                 *)
(***************************************************************************)
\* Saving the model of the step, or nothing new, keeps what is stored up to it.
LEMMA UpToMoves ==
    ASSUME NEW n, NEW u, UpTo(n, u), Keeps \/ (Saves /\ step = n /\ updates = u)
    PROVE  UpTo(n, u)'
  BY DEF UpTo, Keeps, Saves, Moved, Snapshot

LEMMA UpToNext ==
    ASSUME NEW n \in Nat, NEW u, UpTo(n, u), DataInv PROVE \A v : UpTo(n + 1, v)
  <1>1. \A s \in Stored : s \in Int
    BY DEF Stored
  <1>2. pending # NoCkpt => pending.step \in Int
    BY CkptStep DEF DataInv, TypeOK
  <1> QED
    BY <1>1, <1>2 DEF UpTo

LEMMA LatestStep ==
    ASSUME DataInv, NumbersOK, LatestOK, [Next]_vars PROVE LatestOK'
  <1>0. step \in Nat
    BY RunAssumption DEF DataInv, TypeOK
  <1>1. CASE /\ (Keeps \/ (Saves /\ state \in Saving)) /\ UNCHANGED <<step, updates>>
             /\ state # "NOT_STARTED" /\ state' # "NOT_STARTED"
             /\ (state = "GRAD_OVERFLOW" <=> state' = "GRAD_OVERFLOW")
    BY <1>1, UpToMoves DEF LatestOK, UpTo, Reached, Saving
  <1>2. CASE Restore
    <2>1. pending = NoCkpt /\ disk' = disk /\ pending' = pending
          /\ state' \in {"PRE_VALIDATION", "DATA_LOAD", "STOPPED"}
      BY <1>2 DEF Restore, store, LatestOK
    <2>2. CASE Stored = {}
      BY <2>1, <2>2 DEF LatestOK, UpTo, Stored
    <2>3. ASSUME NEW s \in 1..StepBound, IsLast(s), step' = disk[s].step, updates' = disk[s].updates
          PROVE  LatestOK'
      <3>1. step' = s /\ \A t \in Stored : t <= s
        BY <2>3 DEF NumbersOK, Numbered, IsLast
      <3> QED
        BY <2>1, <2>3, <3>1 DEF LatestOK, UpTo, Stored, Reached
    <2> QED
      BY <1>2, <2>2, <2>3 DEF Restore
  <1>3. CASE RunStep
    <2>1. /\ state = "STEP" /\ step' = step + 1
          /\ state' \in {"POST_STEP", "GRAD_OVERFLOW", "FAILED"}
          /\ (state' = "GRAD_OVERFLOW" => updates' = updates)
      BY <1>3 DEF RunStep
    <2>2. Keeps
      <3>1. CASE written
        BY <1>3, <3>1, CommitMoves DEF RunStep, DataInv
      <3>2. CASE ~written
        BY <1>3, <3>2, SameMoves DEF RunStep
      <3> QED
        BY <3>1, <3>2
    <2>3. UpTo(step, updates)
      BY <2>1 DEF LatestOK, Reached
    <2>4. UpTo(step + 1, updates')
      BY <1>0, <2>3, UpToNext
    <2>6. CASE state' = "GRAD_OVERFLOW"
      <3>1. Reached' = step
        BY <1>0, <2>1, <2>6 DEF Reached
      <3> QED
        BY <2>1, <2>2, <2>3, <2>6, <3>1, UpToMoves DEF LatestOK, UpTo
    <2>7. CASE state' # "GRAD_OVERFLOW"
      <3>1. Reached' = step + 1
        BY <2>1, <2>7 DEF Reached
      <3> QED
        BY <2>1, <2>2, <2>4, <3>1, UpToMoves DEF LatestOK, UpTo
    <2> QED
      BY <2>6, <2>7
  <1>4. CASE RepeatStep \/ Diverge
    <2>1. /\ disk' = disk /\ pending' = pending /\ updates' = updates
          /\ state' \in {"DATA_LOAD", "STOP_REQUESTED", "HUNG"}
          /\ state \in {"GRAD_OVERFLOW", "POST_STEP", "END_OF_DATA_EPOCH"}
          /\ step' \in {Reached, step}
      BY <1>4 DEF RepeatStep, Diverge, store, progress, Reached
    <2>2. UpTo(Reached, updates) /\ Reached' = step'
      BY <2>1 DEF LatestOK, Reached
    <2>3. CASE step' = Reached
      BY <2>1, <2>2, <2>3 DEF LatestOK, UpTo, Stored
    <2>4. CASE step' = step /\ state = "GRAD_OVERFLOW"
      <3>1. Reached \in Nat /\ step = Reached + 1
        BY <1>0, <2>4 DEF Reached, DataInv, Started
      <3>2. UpTo(step, updates)
        BY <2>2, <3>1, UpToNext
      <3> QED
        BY <2>1, <2>2, <2>4, <3>2 DEF LatestOK, UpTo, Stored
    <2>5. CASE step' = step /\ state # "GRAD_OVERFLOW"
      BY <2>1, <2>2, <2>5 DEF LatestOK, UpTo, Stored, Reached
    <2> QED
      BY <2>1, <2>3, <2>4, <2>5
  <1>5. CASE Kill
    BY <1>5 DEF Kill, LatestOK
  <1>6. CASE PreValidate \/ ReadNextBatches \/ RunPostStep \/ HandleEndOfDataEpoch \/ Stop
             \/ EarlyStop \/ Complete \/ (\E r \in Ranks : RequestStop(r))
    <2>1. /\ UNCHANGED <<step, updates>> /\ state # "NOT_STARTED" /\ state' # "NOT_STARTED"
          /\ (state = "GRAD_OVERFLOW" <=> state' = "GRAD_OVERFLOW")
      BY <1>6 DEF PreValidate, ReadNextBatches, RunPostStep, PostStep, HandleEndOfDataEpoch, Stop,
         EarlyStop, Complete, RequestStop, progress
    <2>2. ~Kill
      BY <2>1 DEF Kill
    <2> QED
      BY <1>1, <2>1, <2>2, StoreStep
  <1>7. CASE Written \/ UNCHANGED vars
    <2>1. UNCHANGED <<state, step, updates, disk, pending>>
      BY <1>7 DEF Written, vars, progress, store
    <2>2. Stored' = Stored /\ Reached' = Reached
      BY <2>1 DEF Stored, Reached
    <2> QED
      BY <2>1, <2>2 DEF LatestOK, UpTo
  <1> QED
    BY <1>2, <1>3, <1>4, <1>5, <1>6, <1>7 DEF Next, Handler, Ended

LEMMA ShapeInit == Init => Shape
  <1> SUFFICES ASSUME Init PROVE Shape
    OBVIOUS
  <1>1. Stored = {} /\ pending = NoCkpt
    BY DEF Init, Stored
  <1>2. MaySkip \in Nat
    BY DataInit, SignalsIs DEF DataInv, MaySkip
  <1>3. 0 - 0 \in 0..MaySkip
    BY <1>2
  <1>4. NumbersOK
    BY <1>1, <1>3 DEF Init, NumbersOK, Numbered, NoStop
  <1>5. LatestOK
    BY <1>1 DEF Init, LatestOK
  <1> QED
    BY <1>4, <1>5, DataInit DEF Shape

LEMMA ShapeStep == Ranks # {} /\ Shape /\ [Next]_vars => Shape'
  BY DataStep, NumbersStep, LatestStep DEF Shape

\* The step number of a checkpoint counts the updates of the model in it, but for one
\* overflowed step for each job that was asked to stop while it repeated one.
THEOREM StepsAreExact == Ranks # {} /\ Spec => []StepExact
  <1> SUFFICES ASSUME Ranks # {} PROVE Spec => []StepExact
    OBVIOUS
  <1>1. Shape => StepExact
    <2> SUFFICES ASSUME Shape PROVE StepExact
      OBVIOUS
    <2> DEFINE most == IF plan.signals THEN kills + 1 ELSE 0
    <2>1. MaySkip \in Nat /\ most \in Nat /\ MaySkip <= most
      BY SignalsIs DEF Shape, DataInv, MaySkip
    <2>2. \A k \in 0..MaySkip : k \in 0..most
      BY <2>1
    <2> HIDE DEF most
    <2>3. \A s \in Stored : disk[s].step = s /\ s - disk[s].updates \in 0..most
      BY <2>2 DEF Shape, NumbersOK, Numbered
    <2> QED
      BY <2>3 DEF StepExact, most
  <1>2. Shape /\ [Next]_vars => Shape'
    BY ShapeStep
  <1> QED
    BY <1>1, <1>2, ShapeInit, PTL DEF Spec

\* The checkpoint a restart would resume from is never deleted before a later one is
\* committed, unless the same model is saved again as the same step.
THEOREM LastIsReplaced == Ranks # {} /\ Spec => LastNeverLost
  <1> SUFFICES ASSUME Ranks # {} PROVE Spec => LastNeverLost
    OBVIOUS
  <1>1. Shape /\ [Next]_vars =>
          [\/ Last' >= Last
           \/ pending'.step = Last /\ pending'.updates = disk[Last].updates]_vars
    <2> SUFFICES ASSUME Shape, [Next]_vars
                 PROVE  \/ Last' >= Last
                        \/ pending'.step = Last /\ pending'.updates = disk[Last].updates
      OBVIOUS
    <2>0. LastOK /\ LastOK' /\ Stored \subseteq 1..StepBound /\ Stored' \subseteq 1..StepBound
      BY LastIs, LastIsNext DEF Stored
    <2>1. Last \in 0..StepBound /\ Last' \in 0..StepBound
      <3>1. Last = 0 \/ Last \in Stored
        BY <2>0 DEF LastOK
      <3>2. Last' = 0 \/ Last' \in Stored'
        BY <2>0 DEF LastOK
      <3>3. \A n : n = 0 \/ n \in 1..StepBound => n \in 0..StepBound
        BY RunAssumption
      <3> QED
        BY <2>0, <3>1, <3>2, <3>3
    <2>2. CASE Stored \subseteq Stored'
      <3>1. CASE Stored = {}
        BY <2>0, <2>1, <3>1 DEF LastOK
      <3>2. CASE Stored # {}
        BY <2>0, <2>1, <2>2, <3>2 DEF LastOK
      <3> QED
        BY <3>1, <3>2
    <2>3. CASE Saves /\ state \in Saving
      <3>1. CASE Stored = {}
        BY <2>0, <2>1, <3>1 DEF LastOK
      <3>2. CASE Stored # {} /\ Last # step
        BY <2>0, <2>1, <2>3, <3>2 DEF LastOK, Saves
      <3>3. CASE Stored # {} /\ Last = step
        <4>1. UpTo(step, updates)
          BY <2>3 DEF Shape, LatestOK, Reached, Saving
        <4>2. disk[Last].updates = updates
          BY <2>0, <3>3, <4>1 DEF UpTo, LastOK
        <4> QED
          BY <2>3, <3>3, <4>2 DEF Saves, Snapshot
      <3> QED
        BY <3>1, <3>2, <3>3
    <2>4. CASE Kill
      <3>1. Stored' = Stored
        BY <2>4 DEF Kill, Stored
      <3> QED
        BY <2>2, <3>1
    <2> QED
      BY <2>2, <2>3, <2>4, StoreStep DEF Shape, Keeps
  <1>2. Shape /\ [Next]_vars => Shape'
    BY ShapeStep
  <1> QED
    BY <1>1, <1>2, ShapeInit, PTL DEF Spec, LastNeverLost

-----------------------------------------------------------------------------
(***************************************************************************)
(* What is there when training ends.                                       *)
(***************************************************************************)
LEMMA DueIs ==
    ASSUME NEW sc
    PROVE  /\ Due(sc, "POST_STEP") <=> DueAt(sc, step)
           /\ Due(sc, "END_OF_DATA_EPOCH") => ~DueAt(sc, step)
           /\ Due(sc, "END_OF_DATA") <=> ~DueAt(sc, step)
           /\ Due(sc, "EARLY_STOP") <=> ~DueAt(sc, step)
           /\ Due(sc, "END_OF_TRAINING") /\ Due(sc, "STOP_REQUESTED")
  BY DEF Due, AtStep, DueAt

LEMMA SavesHold == ASSUME Saves, step' = step PROVE Held(step)'
  <1>1. Snapshot # NoCkpt /\ Snapshot.step = step
    BY DEF Saves, Snapshot, NoCkpt
  <1> QED
    BY <1>1 DEF Saves, Held

LEMMA HeldIs == ASSUME DataInv, NEW s, Held(s) PROVE s \in 1..StepBound
  BY CkptStep DEF Held, Stored, DataInv, TypeOK

LEMMA OwedKept ==
    ASSUME DataInv, Keeps, Owed => Held(Reached), Owed' => Owed /\ Reached' = Reached
    PROVE  Owed' => Held(Reached)'
  <1> SUFFICES ASSUME Owed' PROVE Held(Reached)'
    OBVIOUS
  <1>1. Held(Reached) /\ Reached' = Reached /\ Reached \in 1..StepBound
    BY HeldIs
  <1>2. (pending' # NoCkpt /\ pending'.step = Reached) \/ Reached \in Stored'
    BY <1>1 DEF Keeps, Held
  <1> QED
    BY <1>1, <1>2 DEF Held

LEMMA EndStep ==
    ASSUME Shape, EndOK, EndsCompleted(plan), [Next]_vars PROVE EndOK'
  <1>0. DataInv /\ LatestOK /\ NumbersOK /\ Reached \in Int
    BY RunAssumption DEF Shape, DataInv, TypeOK, Reached
  <1>1. ASSUME Keeps, Owed' => Owed /\ Reached' = Reached, plan' = plan,
               state' = "END_OF_DATA" => MaxNumEpochs # 0,
               state' \notin {"STOPPED", "COMPLETING"}
        PROVE  EndOK'
    <2>1. Owed' => Held(Reached)'
      BY <1>0, <1>1, OwedKept DEF EndOK
    <2> QED
      BY <1>1, <2>1 DEF EndOK, MaxNumEpochs
  <1>2. CASE Restore
    <2>1. pending = NoCkpt /\ UNCHANGED <<disk, pending, plan>>
          /\ state' \in {"PRE_VALIDATION", "DATA_LOAD", "STOPPED"}
      BY <1>0, <1>2 DEF Restore, store, LatestOK
    <2>2. CASE Stored = {} /\ state' \in {"PRE_VALIDATION", "DATA_LOAD"} /\ step' = step
      <3>1. step = 0
        BY <1>0, <1>2 DEF Restore, NumbersOK
      <3> QED
        BY <2>2, <3>1 DEF EndOK, Owed, Reached
    <2>3. ASSUME NEW s \in 1..StepBound, IsLast(s), step' = disk[s].step PROVE EndOK'
      <3>1. step' = s /\ s \in Stored /\ Stored' = Stored
        BY <1>0, <2>1, <2>3 DEF NumbersOK, Numbered, IsLast, Stored
      <3> QED
        BY <2>1, <3>1 DEF EndOK, Owed, Reached, Held
    <2> QED
      BY <1>2, <2>2, <2>3 DEF Restore, progress
  <1>3. CASE PreValidate
    <2>1. step = 0 /\ step' = 0 /\ state' \in {"DATA_LOAD", "FAILED"}
      BY <1>0, <1>3 DEF PreValidate, NumbersOK, progress
    <2> QED
      BY <2>1 DEF EndOK, Owed, Reached
  <1>4. CASE ReadNextBatches
    <2>1. UNCHANGED <<step, disk, pending, plan>> /\ state = "DATA_LOAD" /\ Keeps
      BY <1>4, SameMoves DEF ReadNextBatches, store
    <2>2. CASE state' = "STOPPED" /\ step = 0
      <3>1. pending = NoCkpt
        <4>1. UpTo(0, updates)
          BY <1>0, <2>1, <2>2 DEF LatestOK, Reached
        <4>2. pending # NoCkpt => pending.step \in 1..StepBound
          BY <1>0, CkptStep DEF DataInv, TypeOK
        <4>3. \A n \in 1..StepBound : ~(n <= 0)
          OBVIOUS
        <4> QED
          BY <4>1, <4>2, <4>3 DEF UpTo
      <3> QED
        BY <2>1, <2>2, <3>1 DEF EndOK, Owed
    <2>3. CASE state' \in {"STEP", "END_OF_DATA_EPOCH"}
      BY <1>1, <2>1, <2>3 DEF Owed, Reached
    <2> QED
      BY <1>4, <2>2, <2>3 DEF ReadNextBatches
  <1>5. CASE RunStep
    <2>1. Keeps
      <3>1. CASE written
        BY <1>0, <1>5, <3>1, CommitMoves DEF RunStep, DataInv
      <3>2. CASE ~written
        BY <1>5, <3>2, SameMoves DEF RunStep
      <3> QED
        BY <3>1, <3>2
    <2>2. /\ plan' = plan /\ state = "STEP" /\ step' = step + 1 /\ step \in Int
          /\ state' \in {"POST_STEP", "GRAD_OVERFLOW", "FAILED"}
      BY <1>0, <1>5, RunAssumption DEF RunStep, DataInv, TypeOK
    <2>3. state' = "GRAD_OVERFLOW" => Reached' = Reached
      BY <2>2 DEF Reached
    <2> QED
      BY <1>1, <2>1, <2>2, <2>3 DEF Owed
  <1>6. CASE RepeatStep
    <2>1. /\ UNCHANGED <<disk, pending, plan>> /\ Keeps /\ state = "GRAD_OVERFLOW"
          /\ state' \in {"DATA_LOAD", "STOP_REQUESTED"}
          /\ (state' = "DATA_LOAD" => step' = step - 1)
      BY <1>6, SameMoves DEF RepeatStep, store
    <2> QED
      BY <1>1, <2>1 DEF Owed, Reached
  <1>7. CASE RunPostStep
    <2>1. /\ state = "POST_STEP" /\ UNCHANGED <<step, plan>> /\ PostStep(state)
          /\ step # 0
      BY <1>0, <1>7 DEF RunPostStep, progress, DataInv, Started
    <2>2. CASE state' \in {"END_OF_TRAINING", "STOP_REQUESTED"}
      BY <2>2 DEF EndOK, Owed
    <2>3. ASSUME NEW sc, SaveIfDue(state, sc), state' \in {"DATA_LOAD", "EARLY_STOP"}
          PROVE  EndOK'
      <3>1. Reached' = step
        BY <2>1, <2>3 DEF Reached
      <3>2. DueAt(Save, step) => Saves
        BY <1>0, <2>1, <2>3, SaveMoves, DueIs DEF DataInv
      <3>3. Owed' => Held(step)'
        BY <2>1, <3>1, <3>2, SavesHold DEF Owed
      <3>4. Owed' => Held(Reached)'
        BY <2>1, <3>1, <3>3 DEF Held
      <3> QED
        BY <2>3, <3>4 DEF EndOK
    <2> QED
      BY <2>1, <2>2, <2>3 DEF PostStep
  <1>8. CASE HandleEndOfDataEpoch
    <2>1. state = "END_OF_DATA_EPOCH" /\ UNCHANGED <<step, plan>> /\ step # 0
      BY <1>0, <1>8 DEF HandleEndOfDataEpoch, DataInv, Started
    <2>2. CASE state' = "END_OF_DATA" /\ MaxEpochsReached /\ UNCHANGED store
      <3>1. Keeps
        BY <2>2, SameMoves DEF store
      <3> QED
        BY <1>1, <2>1, <2>2, <3>1 DEF MaxEpochsReached, Owed, Reached
    <2>3. CASE state' \in {"END_OF_TRAINING", "STOP_REQUESTED"}
      BY <2>3 DEF EndOK, Owed
    <2>4. ASSUME NEW sc, SaveIfDue(state, sc), state' \in {"DATA_LOAD", "EARLY_STOP"}
          PROVE  EndOK'
      <3>1. CASE Due(Save, state)
        <4>1. ~DueAt(Save, Reached)'
          BY <2>1, <2>4, <3>1, DueIs DEF Reached, DueAt
        <4> QED
          BY <2>4, <4>1 DEF EndOK, Owed
      <3>2. CASE ~Due(Save, state)
        <4>1. Keeps
          BY <1>0, <2>1, <2>4, <3>2, SaveMoves DEF DataInv
        <4> QED
          BY <1>1, <2>1, <2>4, <4>1 DEF Owed, Reached
      <3> QED
        BY <3>1, <3>2
    <2> QED
      BY <1>8, <2>1, <2>2, <2>3, <2>4 DEF HandleEndOfDataEpoch, PostStep
  <1>9. CASE Stop \/ EarlyStop
    <2>1. /\ state \in {"END_OF_TRAINING", "END_OF_DATA", "STOP_REQUESTED", "EARLY_STOP"}
          /\ UNCHANGED <<step, plan>> /\ step # 0
          /\ state' \in {"COMPLETING", "STOPPED"}
          /\ \E sc : SaveIfDue(state, sc)
      BY <1>0, <1>9 DEF Stop, EarlyStop, progress, DataInv, Started
    <2>2. IF Due(Save, state) THEN Saves ELSE Keeps
      BY <1>0, <2>1, SaveMoves DEF DataInv
    <2>3. Held(step)'
      <3>1. CASE Due(Save, state)
        BY <2>1, <2>2, <3>1, SavesHold
      <3>2. CASE ~Due(Save, state)
        <4>1. state \in {"END_OF_DATA", "EARLY_STOP"} /\ DueAt(Save, step) /\ Reached = step
          BY <2>1, <3>2, DueIs DEF Reached
        <4>2. Held(step) /\ step \in 1..StepBound
          BY <1>0, <2>1, <4>1, HeldIs DEF EndOK, Owed
        <4>3. (pending' # NoCkpt /\ pending'.step = step) \/ step \in Stored'
          BY <2>2, <3>2, <4>2 DEF Keeps, Held
        <4> QED
          BY <2>1, <4>3 DEF Held
      <3> QED
        BY <3>1, <3>2
    <2>4. state' = "COMPLETING"
      <3> SUFFICES ASSUME Stop, ~Validates(state), ~Due(Save, state) PROVE FALSE
        BY <1>9 DEF Stop, EarlyStop
      <3>1. state = "END_OF_DATA" /\ DueAt(Save, step)
        BY <2>1, DueIs DEF Stop
      <3>2. step \in 1..StepBound /\ plan.maxNumEpochs # 0
        BY <1>0, <2>1, <3>1, RunAssumption DEF EndOK, MaxNumEpochs, DataInv, TypeOK
      <3>3. Val.present /\ ~DueAt(Val.schedule, step)
        BY <3>1, <3>2 DEF EndsCompleted, Val
      <3> QED
        BY <3>1, <3>3, DueIs DEF Validates
    <2> QED
      BY <2>3, <2>4 DEF EndOK, Owed
  <1>10. CASE Complete
    <2>1. /\ state = "COMPLETING" /\ state' = "STOPPED" /\ pending' = NoCkpt /\ step' = step
          /\ Keeps
      BY <1>0, <1>10, CommitMoves DEF Complete, progress, DataInv
    <2>2. Held(step) /\ step \in 1..StepBound
      BY <1>0, <2>1, HeldIs DEF EndOK
    <2>3. step \in Stored'
      BY <2>1, <2>2 DEF Keeps, Held
    <2> QED
      BY <2>1, <2>3 DEF EndOK, Owed
  <1>11. CASE Diverge \/ Kill
    BY <1>11 DEF Diverge, Kill, EndOK, Owed
  <1>12. CASE Written \/ (\E r \in Ranks : RequestStop(r)) \/ UNCHANGED vars
    <2>1. UNCHANGED <<state, step, disk, pending, plan>>
      BY <1>12 DEF Written, RequestStop, vars, progress, store
    <2>2. Stored' = Stored /\ Reached' = Reached /\ (Owed' <=> Owed)
      BY <2>1 DEF Stored, Reached, Owed
    <2> QED
      BY <2>1, <2>2 DEF EndOK, Held, MaxNumEpochs
  <1> QED
    BY <1>2, <1>3, <1>4, <1>5, <1>6, <1>7, <1>8, <1>9, <1>10, <1>11, <1>12
    DEF Next, Handler, Ended

LEMMA ReportStep ==
    ASSUME Shape, ReportOK, [Next]_vars PROVE ReportOK'
  <1>0. DataInv /\ NumbersOK /\ step \in Int
    BY RunAssumption DEF Shape, DataInv, TypeOK
  <1>1. CASE /\ unreported' = unreported /\ (Reported' => Reported)
             /\ state' \notin {"NOT_STARTED", "PRE_VALIDATION", "COMPLETING", "STOPPED"}
    BY <1>1 DEF ReportOK
  <1>2. CASE unreported' = 0
    BY <1>2 DEF ReportOK
  <1>3. CASE Restore
    BY <1>2, <1>3 DEF Restore, ReportOK
  <1>4. CASE PreValidate
    BY <1>2, <1>4 DEF PreValidate, ReportOK
  <1>5. CASE ReadNextBatches
    <2>1. unreported' = unreported /\ state = "DATA_LOAD" /\ step' = step
      BY <1>5 DEF ReadNextBatches
    <2>2. CASE state' = "STOPPED" /\ step = 0
      BY <1>2, <2>1, <2>2 DEF ReportOK, Reported, Reached
    <2>3. CASE state' \in {"STEP", "END_OF_DATA_EPOCH"}
      BY <1>1, <2>1, <2>3 DEF Reported, Reached
    <2> QED
      BY <1>5, <2>2, <2>3 DEF ReadNextBatches
  <1>6. CASE RunStep
    <2>1. CASE state' = "POST_STEP"
      BY <2>1 DEF ReportOK, Reported
    <2>2. CASE state' \in {"GRAD_OVERFLOW", "FAILED"} /\ unreported' = unreported
      <3>1. state = "STEP" /\ step' = step + 1
        BY <1>6 DEF RunStep
      <3>2. state' = "GRAD_OVERFLOW" => Reached' = Reached
        BY <1>0, <2>2, <3>1 DEF Reached
      <3> QED
        BY <1>1, <2>2, <3>1, <3>2 DEF Reported
    <2> QED
      BY <1>6, <2>1, <2>2 DEF RunStep
  <1>7. CASE RepeatStep
    BY <1>1, <1>7 DEF RepeatStep, Reported, Reached
  <1>8. CASE RunPostStep
    <2>1. state = "POST_STEP" /\ step' = step /\ PostStep(state) /\ step # 0
      BY <1>0, <1>8 DEF RunPostStep, progress, DataInv, Started
    <2>2. CASE state' \in {"END_OF_TRAINING", "STOP_REQUESTED", "EARLY_STOP"}
      BY <2>2 DEF ReportOK, Reported
    <2>3. CASE state' = "DATA_LOAD" /\ PublishIfDue(state)
      <3>1. Reported' => DueAt(Pub, step)
        BY <2>1, <2>3 DEF Reported, Reached
      <3>2. DueAt(Pub, step) => unreported' = 0
        BY <2>1, <2>3, DueIs DEF PublishIfDue
      <3> QED
        BY <2>3, <3>1, <3>2 DEF ReportOK
    <2> QED
      BY <2>1, <2>2, <2>3 DEF PostStep
  <1>9. CASE HandleEndOfDataEpoch
    <2>1. state = "END_OF_DATA_EPOCH" /\ step' = step
      BY <1>9 DEF HandleEndOfDataEpoch
    <2>2. CASE state' \in {"END_OF_TRAINING", "STOP_REQUESTED", "EARLY_STOP"}
      BY <2>2 DEF ReportOK, Reported
    <2>3. CASE state' = "END_OF_DATA" /\ unreported' = unreported
      BY <1>1, <2>1, <2>3 DEF Reported, Reached
    <2>4. CASE state' = "DATA_LOAD" /\ PublishIfDue(state)
      <3>1. unreported' \in {0, unreported}
        BY <2>4 DEF PublishIfDue
      <3> QED
        BY <1>1, <1>2, <2>1, <2>4, <3>1 DEF Reported, Reached
    <2> QED
      BY <1>9, <2>2, <2>3, <2>4 DEF HandleEndOfDataEpoch, PostStep
  <1>10. CASE Stop
    <2>1. state \in {"END_OF_TRAINING", "END_OF_DATA", "STOP_REQUESTED"} /\ PublishIfDue(state)
      BY <1>10 DEF Stop
    <2>2. Due(Pub, state) => unreported' = 0
      BY <2>1 DEF PublishIfDue
    <2>3. ~Due(Pub, state) => state = "END_OF_DATA" /\ DueAt(Pub, step) /\ unreported' = unreported
      BY <2>1, DueIs DEF PublishIfDue
    <2>4. state = "END_OF_DATA" /\ DueAt(Pub, step) => unreported = 0
      BY DEF ReportOK, Reported, Reached
    <2> QED
      BY <1>2, <2>2, <2>3, <2>4
  <1>11. CASE EarlyStop
    <2>1. AllStop' /\ state' = "COMPLETING"
      BY <1>11 DEF EarlyStop, AllStop
    <2> QED
      BY <2>1 DEF ReportOK, Reported
  <1>12. CASE Complete
    <2>1. state = "COMPLETING" /\ state' = "STOPPED" /\ UNCHANGED <<stop, unreported>>
      BY <1>12 DEF Complete
    <2> QED
      BY <2>1 DEF ReportOK, Reported, AllStop
  <1>13. CASE Diverge
    BY <1>13 DEF Diverge, ReportOK, Reported
  <1>14. CASE Kill
    BY <1>2, <1>14 DEF Kill
  <1>15. CASE Written \/ UNCHANGED vars
    BY <1>15 DEF Written, vars, progress, ReportOK, Reported, Reached, AllStop
  <1>16. ASSUME NEW r \in Ranks, RequestStop(r) PROVE ReportOK'
    <2>1. UNCHANGED <<state, step, unreported>> /\ (AllStop => AllStop')
      BY <1>0, <1>16 DEF RequestStop, progress, AllStop, DataInv, TypeOK
    <2> QED
      BY <2>1 DEF ReportOK, Reported, Reached
  <1> QED
    BY <1>3, <1>4, <1>5, <1>6, <1>7, <1>8, <1>9, <1>10, <1>11, <1>12, <1>13, <1>14, <1>15,
       <1>16
    DEF Next, Handler, Ended

EndInv == Shape /\ EndOK /\ ReportOK

\* When training ends, the checkpoint of its last step is committed, nothing is in flight
\* and the metrics of all steps are published, whatever overflowed, was killed, or stopped
\* it, for any schedules of which the plans satisfy EndsCompleted.
THEOREM EndIsSaved ==
    Ranks # {} /\ (\A p \in Plans : EndsCompleted(p)) /\ Spec => []EndSaved
  <1> SUFFICES ASSUME Ranks # {}, \A p \in Plans : EndsCompleted(p) PROVE Spec => []EndSaved
    OBVIOUS
  <1>1. Init => EndInv
    <2> SUFFICES ASSUME Init PROVE EndInv
      OBVIOUS
    <2>1. EndOK /\ ReportOK
      BY DEF Init, EndOK, ReportOK, Owed, Reported
    <2> QED
      BY <2>1, ShapeInit DEF EndInv
  <1>2. EndInv /\ [Next]_vars => EndInv'
    <2> SUFFICES ASSUME EndInv, [Next]_vars PROVE EndInv'
      OBVIOUS
    <2>1. EndsCompleted(plan)
      BY DEF EndInv, Shape, DataInv, TypeOK
    <2> QED
      BY <2>1, ShapeStep, EndStep, ReportStep DEF EndInv
  <1>3. EndInv => EndSaved
    BY DEF EndInv, EndOK, ReportOK, EndSaved
  <1> QED
    BY <1>1, <1>2, <1>3, PTL DEF Spec
=============================================================================
