------------------------------ MODULE Checkpoint ------------------------------
(***************************************************************************)
(* StandardCheckpointManager (checkpoint/manager.py) as it runs on every   *)
(* rank of a job, together with the saved-callback through which the       *)
(* trainer prunes old checkpoints (trainer.py, _on_checkpoint_saved).      *)
(*                                                                         *)
(* All ranks make the same calls (save, poll, complete, save_score): the   *)
(* trainer's state that decides them is the same on every rank.  Between   *)
(* two collectives the ranks run freely; a collective is one step that all *)
(* ranks take when each of them has arrived at it.  A job may be killed at *)
(* any moment and restarted over the directory tree it left behind.        *)
(*                                                                         *)
(* A file is named by its kind and the rank that writes it and holds the   *)
(* number of the save call (the generation) that wrote it, 0 if absent.    *)
(***************************************************************************)
EXTENDS Integers, FiniteSets

CONSTANTS
    Ranks,         \* the processes of the root gang
    Root,          \* gangs.root.rank == 0
    ModelWriters,  \* ranks with gangs.rdp.rank == 0
    DataWriters,   \* ranks with gangs.tp.rank == 0
    Leader,        \* the sdp.rank == 0 peer of each model writer
    Mode,          \* the regime's save_model_only: "none", "all", "all_but_last"
    KeepLast,      \* keep_last_n_checkpoints, 0 when None
    KeepBest,      \* keep_best_n_checkpoints, 0 when None
    KeepEvery,     \* keep_checkpoint_every_n_steps, 0 when None
    Scores,        \* the values a validation may return
    Resave,        \* whether the last saved step may be saved again
    MaxStep,       \* bound on step numbers
    MaxGen,        \* bound on save calls
    MaxCrashes     \* bound on killed jobs

ASSUME RankAssumption ==
    /\ Root \in ModelWriters
    /\ Root \in DataWriters
    /\ ModelWriters \subseteq Ranks
    /\ DataWriters \subseteq Ranks
    /\ Leader \in [ModelWriters -> ModelWriters]

ASSUME RegimeAssumption ==
    /\ Mode \in {"none", "all", "all_but_last"}
    /\ KeepLast \in Nat /\ KeepBest \in Nat /\ KeepEvery \in Nat
    /\ Scores \subseteq Nat \ {0}
    /\ Resave \in BOOLEAN

ASSUME BoundAssumption ==
    MaxStep \in Nat \ {0} /\ MaxGen \in Nat \ {0} /\ MaxCrashes \in Nat

VARIABLES
    pc,       \* where each rank is in the current call
    op,       \* the call the ranks are making
    now,      \* the step number of the trainer
    gen,      \* number of save calls made so far
    cur,      \* the save whose files are being written or committed
    job,      \* per rank: _save_op of the manager
    left,     \* per rank: the records its save() has not written yet
    todo,     \* per rank: the step numbers it still has to delete
    tmp,      \* step_N.tmp: file -> generation
    tmpdirs,  \* step_N.tmp: its sub-directories
    dir,      \* step_N: file -> generation
    score,    \* scores/step_N.txt
    crashes

vars == <<pc, op, now, gen, cur, job, left, todo, tmp, tmpdirs, dir, score,
          crashes>>

fsVars  == <<tmp, tmpdirs, dir, score>>
callVars == <<op, now, gen, cur, crashes>>

-----------------------------------------------------------------------------
Steps == 1..MaxStep
File  == {"trainer", "model", "optimizer", "data_reader"} \X Ranks

Kinds ==
    IF Mode = "all" THEN {"model"}
    ELSE {"trainer", "model", "optimizer", "data_reader"}

\* The files of a whole checkpoint.
Files ==
    {f \in File : /\ f[1] \in Kinds
                  /\ f[1] \in {"model", "optimizer"} => f[2] \in ModelWriters
                  /\ f[1] = "data_reader" => f[2] \in DataWriters}

FilesOf(r) == {f \in Files : f[2] = r}

\* The sub-directory a file lives in, named by its kind and the rank creating it.
DirOf(f) ==
    <<f[1], IF f[1] \in {"model", "optimizer"} THEN Leader[f[2]] ELSE Root>>

\* The position of a kind of record in the list _save_state_files walks.
Order == [trainer |-> 1, model |-> 2, optimizer |-> 3, data_reader |-> 4]

Empty   == [f \in File |-> 0]
NoSave  == [step |-> 0, gen |-> 0]
NoScore == [val |-> 0, gen |-> 0]

IsMin(S, s) == s \in S /\ \A t \in S : s <= t
IsMax(S, s) == s \in S /\ \A t \in S : t <= s

\* get_step_numbers(): a directory that still holds something.
Visible == {s \in Steps : \E f \in File : dir[s][f] # 0}

\* get_step_numbers(exclude_model_only=True): its trainer directory exists.
FullVisible == {s \in Steps : \E r \in Ranks : dir[s][<<"trainer", r>>] # 0}

Whole(d, g) == \A f \in File : d[f] = IF f \in Files THEN g ELSE 0

-----------------------------------------------------------------------------
\* get_stale_step_numbers(): what is not stale.
ScoreOf(s) == score[s].val

Scored == {s \in Visible : score[s] # NoScore}

\* scores.sort(reverse=True) orders by score, then by step number.
Better(t, s) == ScoreOf(t) > ScoreOf(s) \/ (ScoreOf(t) = ScoreOf(s) /\ t > s)

Retained ==
    {s \in Visible :
        \/ IsMax(Visible, s)
        \/ /\ KeepLast # 0
           /\ Cardinality({t \in Visible : t > s}) < KeepLast
        \/ /\ KeepBest # 0
           /\ s \in Scored
           /\ Cardinality({t \in Scored : Better(t, s)}) < KeepBest
        \/ KeepEvery # 0 /\ s % KeepEvery = 0}

PolicySet == KeepLast # 0 \/ KeepBest # 0 \/ KeepEvery # 0

\* A score file that was opened but not written parses as no number.
UnreadableScore == KeepBest # 0 /\ \E s \in Scored : ScoreOf(s) = 0

-----------------------------------------------------------------------------
Init ==
    /\ pc      = [r \in Ranks |-> "idle"]
    /\ op      = "none"
    /\ now     = 0
    /\ gen     = 0
    /\ cur     = NoSave
    /\ job     = [r \in Ranks |-> "none"]
    /\ left    = [r \in Ranks |-> {}]
    /\ todo    = [r \in Ranks |-> {}]
    /\ tmp     = [s \in Steps |-> Empty]
    /\ tmpdirs = [s \in Steps |-> {}]
    /\ dir     = [s \in Steps |-> Empty]
    /\ score   = [s \in Steps |-> NoScore]
    /\ crashes = 0

At(l) == \A r \in Ranks : pc[r] = l

Goto(r, l) == pc' = [pc EXCEPT ![r] = l]

\* A collective: every rank has arrived at l and goes on at next[r].
Collective(l, next) == At(l) /\ pc' = next

RootElse(l, m) == [r \in Ranks |-> IF r = Root THEN l ELSE m]

\* _save_op.done() and what result() does: True, or the exception of save().
Done(r) == job[r] = "failed" \/ (job[r] = "running" /\ left[r] = {})

-----------------------------------------------------------------------------
\* Mutant of StartSave: the step that was just saved is saved once more.
StartSaveTwice(kind) ==
    /\ At("idle")
    /\ gen < MaxGen
    /\ \E s \in Steps : s >= now /\ now' = s
    /\ op'  = kind
    /\ gen' = gen + 1
    /\ pc'  = [r \in Ranks |-> IF job[r] = "none" THEN "rmBegin" ELSE "wait"]
    /\ UNCHANGED <<cur, job, left, todo, crashes, fsVars>>

\* The calls of the trainer.  A save happens at a later step than the last one
\* (with Resave, possibly at the same one).
StartSave(kind) ==
    /\ At("idle")
    /\ gen < MaxGen
    /\ \E s \in Steps :
        /\ s > now \/ (Resave /\ s = now)
        /\ now' = s
    /\ op'  = kind
    /\ gen' = gen + 1
    /\ pc'  = [r \in Ranks |-> IF job[r] = "none" THEN "rmBegin" ELSE "wait"]
    /\ UNCHANGED <<cur, job, left, todo, crashes, fsVars>>

\* maybe_complete_save_operation(blocking=False), called before every step.
StartPoll ==
    /\ At("idle")
    /\ \A r \in Ranks : job[r] # "none"
    /\ op' = "poll"
    /\ pc' = [r \in Ranks |-> "poll"]
    /\ UNCHANGED <<now, gen, cur, job, left, todo, crashes, fsVars>>

\* maybe_complete_save_operation(blocking=True), called when the trainer stops.
StartComplete ==
    /\ At("idle")
    /\ \A r \in Ranks : job[r] # "none"
    /\ op' = "complete"
    /\ pc' = [r \in Ranks |-> "wait"]
    /\ UNCHANGED <<now, gen, cur, job, left, todo, crashes, fsVars>>

\* save_score(), called after the validation of a step that was checkpointed.
StartScore ==
    /\ At("idle")
    /\ cur.gen = gen /\ cur.step = now /\ gen # 0
    /\ score[now] = NoScore
    /\ op' = "score"
    /\ pc' = RootElse("score", "scoreB")
    /\ UNCHANGED <<now, gen, cur, job, left, todo, crashes, fsVars>>

-----------------------------------------------------------------------------
\* Completing a save.  The non-blocking form sums a done bit over the gang.
Vote(r) ==
    /\ pc[r] = "poll"
    /\ Goto(r, IF Done(r) THEN "yes" ELSE "no")
    /\ UNCHANGED <<callVars, job, left, todo, fsVars>>

\* Mutant of Counted: the gang commits as soon as rank 0 is done.
CountedRootOnly ==
    /\ \A r \in Ranks : pc[r] \in {"yes", "no"}
    /\ IF pc[Root] = "yes"
       THEN /\ pc'  = [r \in Ranks |->
                          IF job[r] = "failed" THEN "dead" ELSE "commitB"]
            /\ job' = [r \in Ranks |-> "none"]
       ELSE /\ pc' = [r \in Ranks |-> "idle"]
            /\ UNCHANGED job
    /\ UNCHANGED <<callVars, left, todo, fsVars>>

\* Mutant of Wait: the result of a finished save is dropped.
WaitDropping(r) ==
    /\ pc[r] = "wait"
    /\ Done(r)
    /\ Goto(r, IF op = "complete" THEN "idle" ELSE "rmBegin")
    /\ job' = [job EXCEPT ![r] = "none"]
    /\ UNCHANGED <<callVars, left, todo, fsVars>>

\* result() raises the error of a failed save: the rank is gone.
Counted ==
    /\ \A r \in Ranks : pc[r] \in {"yes", "no"}
    /\ IF At("yes")
       THEN /\ pc'  = [r \in Ranks |->
                          IF job[r] = "failed" THEN "dead" ELSE "commitB"]
            /\ job' = [r \in Ranks |-> "none"]
       ELSE /\ pc' = [r \in Ranks |-> "idle"]
            /\ UNCHANGED job
    /\ UNCHANGED <<callVars, left, todo, fsVars>>

Wait(r) ==
    /\ pc[r] = "wait"
    /\ Done(r)
    /\ Goto(r, IF job[r] = "failed" THEN "dead" ELSE "waitB")
    /\ UNCHANGED <<callVars, job, left, todo, fsVars>>

Waited ==
    /\ Collective("waitB", [r \in Ranks |-> "commitB"])
    /\ job' = [r \in Ranks |-> "none"]
    /\ UNCHANGED <<callVars, left, todo, fsVars>>

\* A blocking save writes in the calling thread and goes straight to commit.
WaitOwn(r) ==
    /\ pc[r] = "own"
    /\ Done(r)
    /\ Goto(r, IF job[r] = "failed" THEN "dead" ELSE "commitB")
    /\ job' = [job EXCEPT ![r] = "none"]
    /\ UNCHANGED <<callVars, left, todo, fsVars>>

\* _commit_checkpoint(): barrier, rank 0 renames, barrier.
CommitBarrier ==
    /\ Collective("commitB", RootElse("move", "movedB"))
    /\ UNCHANGED <<callVars, job, left, todo, fsVars>>

Move ==
    /\ pc[Root] = "move"
    /\ dir'     = [dir     EXCEPT ![cur.step] = tmp[cur.step]]
    /\ tmp'     = [tmp     EXCEPT ![cur.step] = Empty]
    /\ tmpdirs' = [tmpdirs EXCEPT ![cur.step] = {}]
    /\ Goto(Root, "movedB")
    /\ UNCHANGED <<callVars, job, left, todo, score>>

MovedBarrier ==
    /\ Collective("movedB", [r \in Ranks |-> "stale"])
    /\ UNCHANGED <<callVars, job, left, todo, fsVars>>

-----------------------------------------------------------------------------
\* The saved-callback: _delete_stale_checkpoints, and in the all_but_last mode
\* _delete_previous_non_model_checkpoints.
\*
\* Where a rank goes once a save is committed and its callback has returned:
\* the save call it was completing an older save for, or back to the trainer.
AfterCommit ==
    IF op \in {"save", "bsave"} /\ cur.gen # gen THEN "rmBegin" ELSE "idle"

AfterStale ==
    IF op # "score" /\ Mode = "all_but_last" THEN "prev"
    ELSE IF op = "score" THEN "idle" ELSE AfterCommit

\* Mutants of ReadStale: no barrier after reading the tree; only the last
\* checkpoint is retained, whatever the policy.
ReadStaleNoBarrier(r) ==
    /\ pc[r] = "stale"
    /\ todo' = [todo EXCEPT ![r] = IF PolicySet THEN Visible \ Retained ELSE {}]
    /\ Goto(r, IF todo'[r] = {} THEN AfterStale ELSE "rmStale")
    /\ UNCHANGED <<callVars, job, left, fsVars>>

ReadStaleLastOnly(r) ==
    /\ pc[r] = "stale"
    /\ todo' = [todo EXCEPT ![r] = {s \in Visible : ~IsMax(Visible, s)}]
    /\ Goto(r, "staleB")
    /\ UNCHANGED <<callVars, job, left, fsVars>>

ReadStale(r) ==
    /\ pc[r] = "stale"
    /\ IF ~PolicySet \/ Visible = {}
       THEN /\ Goto(r, AfterStale)
            /\ UNCHANGED todo
       ELSE IF UnreadableScore
       THEN /\ Goto(r, "dead")
            /\ UNCHANGED todo
       ELSE /\ Goto(r, "staleB")
            /\ todo' = [todo EXCEPT ![r] = Visible \ Retained]
    /\ UNCHANGED <<callVars, job, left, fsVars>>

\* The loop over the step numbers to delete: next iteration or fall through.
Loop(list, del, after) ==
    [r \in Ranks |-> IF list[r] = {} THEN after ELSE del]

StaleBarrier ==
    /\ Collective("staleB", Loop(todo, "rmStale", AfterStale))
    /\ UNCHANGED <<callVars, job, left, todo, fsVars>>

\* Mutants of ReadPrevious: step_nrs[:-2] and step_nrs instead of step_nrs[:-1].
ReadPreviousButTwo(r) ==
    /\ pc[r] = "prev"
    /\ \E stale \in SUBSET FullVisible :
        /\ stale = {s \in FullVisible :
                       \E t, u \in FullVisible : s < t /\ t < u}
        /\ todo' = [todo EXCEPT ![r] = stale]
        /\ Goto(r, IF stale = {} THEN AfterCommit ELSE "rmPrev")
    /\ UNCHANGED <<callVars, job, left, fsVars>>

ReadPreviousAll(r) ==
    /\ pc[r] = "prev"
    /\ todo' = [todo EXCEPT ![r] = FullVisible]
    /\ Goto(r, IF FullVisible = {} THEN AfterCommit ELSE "rmPrev")
    /\ UNCHANGED <<callVars, job, left, fsVars>>

\* No collective separates this read from the deletions of rank 0.
ReadPrevious(r) ==
    /\ pc[r] = "prev"
    /\ \E stale \in SUBSET FullVisible :
        /\ stale = {s \in FullVisible : ~IsMax(FullVisible, s)}
        /\ todo' = [todo EXCEPT ![r] = stale]
        /\ Goto(r, IF stale = {} THEN AfterCommit ELSE "rmPrev")
    /\ UNCHANGED <<callVars, job, left, fsVars>>

-----------------------------------------------------------------------------
\* delete_checkpoint(): rank 0 removes step_N.tmp, then the entries of step_N
\* one at a time, then the score file; every other rank goes to the barrier.
Removing == {"rmBegin", "rmStale", "rmPrev"}

Barrier(l) ==
    CASE l = "rmBegin" -> "rmBeginB"
      [] l = "rmStale" -> "rmStaleB"
      [] OTHER         -> "rmPrevB"

IsTarget(r, s) == IF pc[r] = "rmBegin" THEN s = now ELSE IsMin(todo[r], s)

Doomed(l, s) ==
    {f \in File : dir[s][f] # 0 /\ (l = "rmPrev" => f[1] # "model")}

SkipRemove(r) ==
    /\ r # Root
    /\ pc[r] \in Removing
    /\ Goto(r, Barrier(pc[r]))
    /\ UNCHANGED <<callVars, job, left, todo, fsVars>>

RemoveTmp(s) ==
    /\ pc[Root] \in Removing /\ IsTarget(Root, s)
    /\ tmp[s] # Empty \/ tmpdirs[s] # {}
    /\ tmp'     = [tmp     EXCEPT ![s] = Empty]
    /\ tmpdirs' = [tmpdirs EXCEPT ![s] = {}]
    /\ UNCHANGED <<callVars, pc, job, left, todo, dir, score>>

RemoveFile(s, f) ==
    /\ pc[Root] \in Removing /\ IsTarget(Root, s)
    /\ tmp[s] = Empty /\ tmpdirs[s] = {}
    /\ f \in Doomed(pc[Root], s)
    /\ dir' = [dir EXCEPT ![s][f] = 0]
    /\ UNCHANGED <<callVars, pc, job, left, todo, tmp, tmpdirs, score>>

\* Mutant of RemoveScore: the score file survives its checkpoint.
RemoveScoreKept(s) ==
    /\ pc[Root] \in Removing /\ IsTarget(Root, s)
    /\ tmp[s] = Empty /\ tmpdirs[s] = {}
    /\ Doomed(pc[Root], s) = {}
    /\ Goto(Root, Barrier(pc[Root]))
    /\ UNCHANGED <<callVars, job, left, todo, fsVars>>

RemoveScore(s) ==
    /\ pc[Root] \in Removing /\ IsTarget(Root, s)
    /\ tmp[s] = Empty /\ tmpdirs[s] = {}
    /\ Doomed(pc[Root], s) = {}
    /\ score' = IF pc[Root] = "rmPrev" THEN score
                ELSE [score EXCEPT ![s] = NoScore]
    /\ Goto(Root, Barrier(pc[Root]))
    /\ UNCHANGED <<callVars, job, left, todo, tmp, tmpdirs, dir>>

Rest(r) == {s \in todo[r] : ~IsMin(todo[r], s)}

RemovedBarrier(l, after) ==
    /\ todo' = [r \in Ranks |-> Rest(r)]
    /\ Collective(Barrier(l), Loop(todo', l, after))
    /\ UNCHANGED <<callVars, job, left, fsVars>>

RemovedStale    == RemovedBarrier("rmStale", AfterStale)
RemovedPrevious == RemovedBarrier("rmPrev", AfterCommit)

-----------------------------------------------------------------------------
\* save_checkpoint() and save_model_only() after the old save was completed.
BeginBarrier ==
    /\ Collective("rmBeginB", [r \in Ranks |-> "mkdir"])
    /\ cur' = [step |-> now, gen |-> gen]
    /\ UNCHANGED <<op, now, gen, crashes, job, left, todo, fsVars>>

\* _begin_checkpoint's directory and those of the _record_* methods.
MakeDirs(r) ==
    /\ pc[r] = "mkdir"
    /\ tmpdirs' = [tmpdirs EXCEPT
            ![now] = @ \cup {d \in {DirOf(f) : f \in Files} : d[2] = r}]
    /\ Goto(r, "syncB")
    /\ UNCHANGED <<callVars, job, left, todo, tmp, dir, score>>

\* _sync_nfs_cache on a local (possibly network-mounted) file system.
SyncBarrier ==
    /\ Collective("syncB", [r \in Ranks |-> "queue"])
    /\ UNCHANGED <<callVars, job, left, todo, fsVars>>

Queue(r) ==
    /\ pc[r] = "queue"
    /\ job'  = [job  EXCEPT ![r] = "running"]
    /\ left' = [left EXCEPT ![r] = FilesOf(r)]
    /\ Goto(r, IF op = "save" THEN "idle" ELSE "own")
    /\ UNCHANGED <<callVars, todo, fsVars>>

\* _save_state_files: one record after the other, in the calling thread of a
\* blocking save or in the pool thread of an asynchronous one.
WriteFile(r) ==
    /\ job[r] = "running"
    /\ \E f \in left[r] :
        /\ \A h \in left[r] : Order[f[1]] <= Order[h[1]]
        /\ IF DirOf(f) \in tmpdirs[cur.step]
           THEN /\ tmp'  = [tmp EXCEPT ![cur.step][f] = cur.gen]
                /\ left' = [left EXCEPT ![r] = @ \ {f}]
                /\ UNCHANGED job
           ELSE /\ job' = [job EXCEPT ![r] = "failed"]
                /\ UNCHANGED <<tmp, left>>
    /\ UNCHANGED <<callVars, pc, todo, tmpdirs, dir, score>>

\* The disk is full, a record is not picklable, ...
WriteFail(r) ==
    /\ crashes < MaxCrashes
    /\ job[r] = "running" /\ left[r] # {}
    /\ job' = [job EXCEPT ![r] = "failed"]
    /\ UNCHANGED <<callVars, pc, left, todo, fsVars>>

-----------------------------------------------------------------------------
\* save_score(): rank 0 opens (and truncates) the file, then writes it.
OpenScore ==
    /\ pc[Root] = "score"
    /\ score' = [score EXCEPT ![now] = [val |-> 0, gen |-> gen]]
    /\ Goto(Root, "scoreW")
    /\ UNCHANGED <<callVars, job, left, todo, tmp, tmpdirs, dir>>

WriteScore ==
    /\ pc[Root] = "scoreW"
    /\ \E v \in Scores :
          score' = [score EXCEPT ![now] = [val |-> v, gen |-> gen]]
    /\ Goto(Root, "scoreB")
    /\ UNCHANGED <<callVars, job, left, todo, tmp, tmpdirs, dir>>

\* Mutant of ScoreBarrier: a new score does not lead to a new pruning.
ScoreBarrierNoPrune ==
    /\ Collective("scoreB", [r \in Ranks |-> "idle"])
    /\ UNCHANGED <<callVars, job, left, todo, fsVars>>

\* Trainer._save_score prunes again when the best checkpoints are kept.
ScoreBarrier ==
    /\ Collective("scoreB",
           [r \in Ranks |-> IF KeepBest # 0 THEN "stale" ELSE "idle"])
    /\ UNCHANGED <<callVars, job, left, todo, fsVars>>

-----------------------------------------------------------------------------
\* The job is killed: the scheduler, a node, or the peers of a dead rank.
Crash ==
    /\ crashes < MaxCrashes
    /\ crashes' = crashes + 1
    /\ pc'   = [r \in Ranks |-> "down"]
    /\ op'   = "none"
    /\ cur'  = NoSave
    /\ job'  = [r \in Ranks |-> "none"]
    /\ left' = [r \in Ranks |-> {}]
    /\ todo' = [r \in Ranks |-> {}]
    /\ UNCHANGED <<now, gen, fsVars>>

\* Trainer._maybe_restore_state: the last step with a trainer directory; a file
\* that is missing raises CheckpointNotFoundError.
Restart ==
    /\ At("down")
    /\ IF FullVisible = {}
       THEN now' = 0 /\ pc' = [r \in Ranks |-> "idle"]
       ELSE \E m \in FullVisible :
              /\ IsMax(FullVisible, m)
              /\ now' = m
              /\ pc' = [r \in Ranks |->
                    IF \A f \in Files : dir[m][f] # 0 THEN "idle" ELSE "dead"]
    /\ UNCHANGED <<op, gen, cur, job, left, todo, crashes, fsVars>>

\* The trainer is done, or an exception ended a rank for good.
Stopped ==
    /\ At("idle") \/ \E r \in Ranks : pc[r] = "dead"
    /\ UNCHANGED vars

-----------------------------------------------------------------------------
RankStep(r) ==
    \/ Vote(r) \/ Wait(r) \/ WaitOwn(r)
    \/ ReadStale(r) \/ ReadPrevious(r)
    \/ SkipRemove(r)
    \/ MakeDirs(r) \/ Queue(r)

RootStep ==
    \/ Move
    \/ \E s \in Steps : RemoveTmp(s) \/ RemoveScore(s)
    \/ \E s \in Steps, f \in File : RemoveFile(s, f)
    \/ OpenScore \/ WriteScore

GangStep ==
    \/ Counted \/ Waited
    \/ CommitBarrier \/ MovedBarrier
    \/ StaleBarrier \/ RemovedStale \/ RemovedPrevious
    \/ BeginBarrier \/ SyncBarrier \/ ScoreBarrier

Call ==
    \/ StartSave("save") \/ StartSave("bsave")
    \/ StartPoll \/ StartComplete \/ StartScore

Next ==
    \/ \E r \in Ranks : RankStep(r)
    \/ RootStep
    \/ GangStep
    \/ Call
    \/ \E r \in Ranks : WriteFile(r)
    \/ \E r \in Ranks : WriteFail(r)
    \/ Crash \/ Restart \/ Stopped

Spec == Init /\ [][Next]_vars

\* Every process, every pool thread and every collective makes progress, and
\* the training loop keeps calling the manager.
Fairness ==
    /\ \A r \in Ranks : WF_vars(RankStep(r)) /\ WF_vars(WriteFile(r))
    /\ WF_vars(RootStep)
    /\ WF_vars(GangStep)
    /\ WF_vars(Call)
    /\ WF_vars(Restart)

FairSpec == Spec /\ Fairness

-----------------------------------------------------------------------------
Label ==
    {"idle", "dead", "down", "poll", "yes", "no", "wait", "waitB", "own",
     "commitB", "move", "movedB", "stale", "staleB", "prev",
     "rmBegin", "rmStale", "rmPrev", "rmBeginB", "rmStaleB", "rmPrevB",
     "mkdir", "syncB", "queue", "score", "scoreW", "scoreB"}

\* The type of every variable.
TypeOK ==
    /\ pc \in [Ranks -> Label]
    /\ op \in {"none", "save", "bsave", "poll", "complete", "score"}
    /\ now \in 0..MaxStep
    /\ gen \in 0..MaxGen
    /\ cur \in [step : 0..MaxStep, gen : 0..MaxGen]
    /\ job \in [Ranks -> {"none", "running", "failed"}]
    /\ left \in [Ranks -> SUBSET Files]
    /\ todo \in [Ranks -> SUBSET Steps]
    /\ tmp \in [Steps -> [File -> 0..MaxGen]]
    /\ tmpdirs \in [Steps -> SUBSET {DirOf(f) : f \in Files}]
    /\ dir \in [Steps -> [File -> 0..MaxGen]]
    /\ score \in [Steps -> [val : Scores \cup {0}, gen : 0..MaxGen]]
    /\ crashes \in 0..MaxCrashes

\* Where a rank waits for the others.
CollectivePc ==
    {"yes", "no", "waitB", "commitB", "movedB", "staleB",
     "rmBeginB", "rmStaleB", "rmPrevB", "syncB", "scoreB"}

SameSite(l, m) == l = m \/ {l, m} = {"yes", "no"}

\* The barriers and sums of Gang pair up: no rank waits in one collective while
\* another waits in a different one, or has left the call without making it.
CollectivesAligned ==
    \A r, q \in Ranks :
        pc[r] \in CollectivePc /\ pc[q] \in CollectivePc \cup {"idle"}
            => SameSite(pc[r], pc[q])

\* What a restart would resume from is whole and comes from one save call,
\* whenever the job is killed.
RestoreSound ==
    \A m \in FullVisible :
        IsMax(FullVisible, m) => \E g \in 1..MaxGen : Whole(dir[m], g)

\* The checkpoint a restart would resume from is replaced by a later one, never
\* deleted or modified (trainer.py: "always keep the last checkpoint").
LastNeverLost ==
    [][\A m \in FullVisible :
          IsMax(FullVisible, m) => dir'[m] = dir[m]]_vars

\* The score that ranks a checkpoint was measured on the model it holds.
ScoreMatches ==
    \A s \in Visible :
        score[s] # NoScore => \A f \in File : dir[s][f] \in {0, score[s].gen}

\* get_stale_step_numbers against delete_checkpoint: no checkpoint that the
\* policy retains at the moment of the deletion loses a model file, except the
\* one a save call is about to write again.
RetentionHonoured ==
    [][\A s \in Retained, f \in File :
          dir[s][f] # 0 /\ f[1] = "model" /\ dir'[s][f] = 0 => s = now]_vars

\* Between two calls, once the last save is committed, nothing stale is left.
Pruned ==
    PolicySet /\ At("idle") /\ cur.gen # 0 /\ (\A r \in Ranks : job[r] = "none")
        => Visible \subseteq Retained

\* RegimeSection.save_model_only: "If 'all_but_last', only the last checkpoint
\* will have its full state saved".
OnlyLastFull ==
    Mode = "all_but_last" /\ At("idle") /\ cur.gen # 0
        /\ (\A r \in Ranks : job[r] = "none") =>
            \A s \in FullVisible : IsMax(FullVisible, s)

\* Every save is eventually committed unless a process fails; a later save completes an
\* earlier one first.
Committed(g) == \E s \in Steps, f \in File : dir[s][f] >= g

SaveCommits ==
    \A g \in 1..MaxGen :
        (gen = g) ~> (Committed(g) \/ crashes # 0 \/ \E r \in Ranks : pc[r] = "dead")

\* The refinement: a stored checkpoint is a whole one.
StoredGen ==
    [s \in Steps |->
        IF s \in FullVisible /\ \E g \in 1..MaxGen : Whole(dir[s], g)
        THEN dir[s][<<"trainer", Root>>] ELSE 0]

NewestGen ==
    IF \A s \in Steps : StoredGen[s] = 0 THEN 0
    ELSE CHOOSE g \in 0..MaxGen :
           /\ \E s \in Steps : StoredGen[s] = g
           /\ \A s \in Steps : StoredGen[s] <= g

Store == INSTANCE CheckpointStore WITH stored <- StoredGen, newest <- NewestGen

\* The manager implements a store that publishes atomically and never drops
\* the last checkpoint.
ImplementsStore == Store!StoreSpec
=============================================================================
