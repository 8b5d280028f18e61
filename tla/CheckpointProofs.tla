--------------------------- MODULE CheckpointProofs ---------------------------
(***************************************************************************)
(* Proofs about Checkpoint for any number of ranks, any sharding of the    *)
(* files over them and any bounds.                                         *)
(***************************************************************************)
EXTENDS Checkpoint, TLAPS, FiniteSetTheorems, NaturalsInduction, WellFoundedInduction

\* The conventional regime: full checkpoints, at growing step numbers.
Conventional == Mode = "none" /\ Resave = FALSE

AllIn(S)  == \A r \in Ranks : pc[r] \in S
NoJobs    == \A r \in Ranks : job[r] = "none"
AllJobs   == \A r \in Ranks : job[r] # "none"
JobsAgree == NoJobs \/ AllJobs

Saving == op \in {"save", "bsave"}

\* A save call that has not reached its own _begin_checkpoint barrier.
Fresh == Saving /\ cur.gen < gen

\* The ranks are between the same two collectives.
Lockstep ==
    \/ AllIn({"idle"}) /\ JobsAgree
    \/ /\ \A r \in Ranks : \/ pc[r] = "queue" /\ job[r] = "none"
                           \/ pc[r] = "idle" /\ job[r] # "none"
       /\ op = "save"
    \/ /\ AllIn({"queue", "own", "commitB", "dead"})
       /\ op = "bsave" /\ cur.gen = gen
       /\ \A r \in Ranks : pc[r] \in {"queue", "commitB", "dead"} => job[r] = "none"
    \/ AllIn({"commitB", "dead"}) /\ NoJobs
    \/ AllIn({"wait", "waitB", "dead"}) /\ AllJobs
    \/ AllIn({"poll", "yes", "no"}) /\ AllJobs
    \/ /\ AllIn({"move", "movedB"}) /\ NoJobs
       /\ \A r \in Ranks : pc[r] = "move" => r = Root
    \/ /\ AllIn({"stale", "staleB", "idle", "dead"})
       /\ JobsAgree /\ (op # "score" => NoJobs) /\ ~Fresh
    \/ AllIn({"stale", "staleB", "rmBegin", "rmBeginB", "dead"}) /\ NoJobs /\ Fresh
    \/ AllIn({"rmStale", "rmStaleB"}) /\ JobsAgree /\ (op # "score" => NoJobs)
    \/ AllIn({"mkdir", "syncB"}) /\ NoJobs /\ Saving
    \/ AllIn({"score", "scoreW", "scoreB"}) /\ JobsAgree /\ op = "score"
    \/ AllIn({"down"}) /\ NoJobs

\* Rank r holds, or is about to hold, a part of the save cur.
Holds(r) ==
    \/ job[r] # "none"
    \/ pc[r] \in {"mkdir", "syncB", "queue", "own", "commitB", "move"}

CurOK ==
    /\ cur.gen <= gen
    /\ cur.gen # 0 => cur.step \in Steps
    /\ \A r \in Ranks : Holds(r) => cur.gen # 0 /\ cur.step <= now
    /\ \A r \in Ranks :
         pc[r] \in {"mkdir", "syncB", "queue"} => cur.step = now /\ cur.gen = gen
    /\ Fresh => \A r \in Ranks : Holds(r) => cur.step < now
    /\ op \in {"save", "bsave", "score"} => now \in Steps
    /\ \A r \in Ranks : pc[r] = "down" => op = "none"

\* step_N.tmp of the save in progress.
TmpOK ==
    /\ \A r \in Ranks : Holds(r) =>
         \A f \in File : tmp[cur.step][f] \in {0, IF f \in Files THEN cur.gen ELSE 0}
    /\ \A r \in Ranks : job[r] # "none" =>
         \A f \in FilesOf(r) : f \in left[r] \/ tmp[cur.step][f] = cur.gen
    /\ \A r \in Ranks : pc[r] = "commitB" =>
         \A f \in FilesOf(r) : tmp[cur.step][f] = cur.gen
    /\ \A r \in Ranks : pc[r] = "yes" => Done(r)
    /\ \A r \in Ranks : pc[r] = "waitB" => job[r] = "running" /\ left[r] = {}
    /\ pc[Root] = "move" => Whole(tmp[cur.step], cur.gen)
    /\ pc[Root] = "rmBeginB" => tmp[now] = Empty

\* The committed checkpoints.
DirOK ==
    /\ Visible # {} =>
         \E m \in Visible, g \in 1..MaxGen : IsMax(Visible, m) /\ Whole(dir[m], g)
    /\ \A s \in Visible : \A r \in Ranks : pc[r] # "down" => s <= now
    /\ \A s \in Visible : Fresh => s < now
    /\ \A s \in Visible, r \in Ranks : Holds(r) => s < cur.step
    /\ pc[Root] \in {"staleB", "rmStale", "rmStaleB"} =>
         \E m \in Visible : \A s \in todo[Root] : s < m

\* The step numbers to delete: every rank computed the same ones.
TodoOK ==
    /\ \A r \in Ranks : pc[r] = "staleB" =>
         PolicySet /\ Visible # {} /\ todo[r] = Visible \ Retained
    /\ \A r \in Ranks : pc[r] \in {"rmStale", "rmStaleB"} =>
         todo[r] = todo[Root] /\ todo[r] # {}
    /\ \A r, q \in Ranks :
         pc[r] \in {"stale", "staleB"} /\ pc[q] \in {"idle", "rmBegin", "rmBeginB"}
            => ~PolicySet \/ Visible = {}

IInv == TypeOK /\ Lockstep /\ CurOK /\ TmpOK /\ DirOK /\ TodoOK

-----------------------------------------------------------------------------
LEMMA FilesAreFile == Files \subseteq File
  BY DEF Files

LEMMA EmptyTyped == Empty \in [File -> 0..MaxGen]
  BY BoundAssumption DEF Empty

\* Updating one entry of a table of tables keeps its type.
LEMMA UpdateTyped ==
    ASSUME NEW S, NEW D, NEW T, NEW h \in [S -> [D -> T]],
           NEW s \in S, NEW x, NEW v \in T
    PROVE  [h EXCEPT ![s][x] = v] \in [S -> [D -> T]]
  <1>1. [h[s] EXCEPT ![x] = v] \in [D -> T]
    OBVIOUS
  <1> QED
    BY <1>1

LEMMA AfterLabels == AfterCommit \in Label /\ AfterStale \in Label
  BY DEF AfterCommit, AfterStale, Label

LEMMA BarrierLabels == \A l : Barrier(l) \in Label
  BY DEF Barrier, Label

\* Every variable keeps its type.
LEMMA TypeInit == Init => TypeOK
  <1> SUFFICES ASSUME Init PROVE TypeOK
    OBVIOUS
  <1> USE BoundAssumption DEF Init
  <1>1. tmp \in [Steps -> [File -> 0..MaxGen]] /\ dir \in [Steps -> [File -> 0..MaxGen]]
    BY EmptyTyped
  <1>2. score \in [Steps -> [val : Scores \cup {0}, gen : 0..MaxGen]]
    BY DEF NoScore
  <1>3. cur \in [step : 0..MaxStep, gen : 0..MaxGen]
    BY DEF NoSave
  <1>4. todo \in [Ranks -> SUBSET Steps] /\ left \in [Ranks -> SUBSET Files]
    OBVIOUS
  <1>5. pc \in [Ranks -> Label]
    BY DEF Label
  <1> QED
    BY <1>1, <1>2, <1>3, <1>4, <1>5 DEF TypeOK

LEMMA TypeStep == TypeOK /\ [Next]_vars => TypeOK'
  <1> SUFFICES ASSUME TypeOK, [Next]_vars PROVE TypeOK'
    OBVIOUS
  <1> USE RankAssumption, BoundAssumption, RegimeAssumption DEF TypeOK, Goto
  <1>1. ASSUME NEW r \in Ranks, RankStep(r) PROVE TypeOK'
    <2>1. CASE Vote(r)
      BY <2>1 DEF Vote, Label, fsVars, callVars
    <2>2. CASE Wait(r)
      BY <2>2 DEF Wait, Label, fsVars, callVars
    <2>3. CASE WaitOwn(r)
      BY <2>3 DEF WaitOwn, Label, fsVars, callVars
    <2>4. CASE ReadStale(r)
      <3>1. pc' \in [Ranks -> Label]
        BY <2>4, AfterLabels DEF ReadStale, Label
      <3>2. todo' \in [Ranks -> SUBSET Steps]
        BY <2>4 DEF ReadStale, Visible
      <3> QED
        BY <2>4, <3>1, <3>2 DEF ReadStale, fsVars, callVars
    <2>5. CASE ReadPrevious(r)
      <3>1. pc' \in [Ranks -> Label]
        BY <2>5, AfterLabels DEF ReadPrevious, Label
      <3>2. todo' \in [Ranks -> SUBSET Steps]
        BY <2>5 DEF ReadPrevious, FullVisible
      <3> QED
        BY <2>5, <3>1, <3>2 DEF ReadPrevious, fsVars, callVars
    <2>6. CASE SkipRemove(r)
      BY <2>6, BarrierLabels DEF SkipRemove, fsVars, callVars
    <2>7. CASE MakeDirs(r)
      <3>1. now \in Steps => tmpdirs' \in [Steps -> SUBSET {DirOf(f) : f \in Files}]
        BY <2>7 DEF MakeDirs
      <3>2. tmpdirs' \in [Steps -> SUBSET {DirOf(f) : f \in Files}]
        BY <2>7, <3>1 DEF MakeDirs
      <3> QED
        BY <2>7, <3>2 DEF MakeDirs, Label, callVars
    <2>8. CASE Queue(r)
      BY <2>8 DEF Queue, FilesOf, Label, fsVars, callVars
    <2> QED
      BY <1>1, <2>1, <2>2, <2>3, <2>4, <2>5, <2>6, <2>7, <2>8 DEF RankStep
  <1>2. ASSUME RootStep PROVE TypeOK'
    <2>1. CASE Move
      <3>1. dir' \in [Steps -> [File -> 0..MaxGen]]
        BY <2>1 DEF Move
      <3>2. tmp' \in [Steps -> [File -> 0..MaxGen]]
        BY <2>1, EmptyTyped DEF Move
      <3>3. tmpdirs' \in [Steps -> SUBSET {DirOf(f) : f \in Files}]
        BY <2>1 DEF Move
      <3> QED
        BY <2>1, <3>1, <3>2, <3>3 DEF Move, Label, callVars
    <2>2. ASSUME NEW s \in Steps, RemoveTmp(s) PROVE TypeOK'
      <3>1. tmp' \in [Steps -> [File -> 0..MaxGen]]
        BY <2>2, EmptyTyped DEF RemoveTmp
      <3>2. tmpdirs' \in [Steps -> SUBSET {DirOf(f) : f \in Files}]
        BY <2>2 DEF RemoveTmp
      <3> QED
        BY <2>2, <3>1, <3>2 DEF RemoveTmp, callVars
    <2>3. ASSUME NEW s \in Steps, RemoveScore(s) PROVE TypeOK'
      <3>1. score' \in [Steps -> [val : Scores \cup {0}, gen : 0..MaxGen]]
        BY <2>3 DEF RemoveScore, NoScore
      <3> QED
        BY <2>3, <3>1, BarrierLabels DEF RemoveScore, callVars
    <2>4. ASSUME NEW s \in Steps, NEW f \in File, RemoveFile(s, f) PROVE TypeOK'
      <3>1. dir' \in [Steps -> [File -> 0..MaxGen]]
        BY <2>4 DEF RemoveFile
      <3> QED
        BY <2>4, <3>1 DEF RemoveFile, callVars
    <2>5. CASE OpenScore
      <3>1. score' \in [Steps -> [val : Scores \cup {0}, gen : 0..MaxGen]]
        BY <2>5 DEF OpenScore
      <3> QED
        BY <2>5, <3>1 DEF OpenScore, Label, callVars
    <2>6. CASE WriteScore
      <3>1. PICK v \in Scores :
              score' = [score EXCEPT ![now] = [val |-> v, gen |-> gen]]
        BY <2>6 DEF WriteScore
      <3>2. [val |-> v, gen |-> gen] \in [val : Scores \cup {0}, gen : 0..MaxGen]
        OBVIOUS
      <3>3. score' \in [Steps -> [val : Scores \cup {0}, gen : 0..MaxGen]]
        BY <3>1, <3>2
      <3> QED
        BY <2>6, <3>3 DEF WriteScore, Label, callVars
    <2> QED
      BY <1>2, <2>1, <2>2, <2>3, <2>4, <2>5, <2>6 DEF RootStep
  <1>3. ASSUME GangStep PROVE TypeOK'
    <2> USE DEF Collective, RootElse, fsVars, callVars
    <2>1. CASE Counted
      BY <2>1 DEF Counted, Label
    <2>2. CASE Waited
      BY <2>2 DEF Waited, Label
    <2>3. CASE CommitBarrier \/ MovedBarrier
      BY <2>3 DEF CommitBarrier, MovedBarrier, Label
    <2>4. CASE StaleBarrier
      <3>1. pc' \in [Ranks -> Label]
        BY <2>4, AfterLabels DEF StaleBarrier, Loop, Label
      <3> QED
        BY <2>4, <3>1 DEF StaleBarrier
    <2>5. CASE RemovedStale \/ RemovedPrevious
      <3>1. todo' \in [Ranks -> SUBSET Steps]
        BY <2>5 DEF RemovedStale, RemovedPrevious, RemovedBarrier, Rest
      <3>2. pc' \in [Ranks -> Label]
        BY <2>5, AfterLabels
           DEF RemovedStale, RemovedPrevious, RemovedBarrier, Loop, Label
      <3> QED
        BY <2>5, <3>1, <3>2 DEF RemovedStale, RemovedPrevious, RemovedBarrier
    <2>6. CASE BeginBarrier \/ SyncBarrier \/ ScoreBarrier
      BY <2>6 DEF BeginBarrier, SyncBarrier, ScoreBarrier, Label
    <2> QED
      BY <1>3, <2>1, <2>2, <2>3, <2>4, <2>5, <2>6 DEF GangStep
  <1>4. ASSUME Call PROVE TypeOK'
    <2> USE DEF fsVars
    <2>1. ASSUME NEW k \in {"save", "bsave"}, StartSave(k) PROVE TypeOK'
      BY <2>1 DEF StartSave, Steps, Label
    <2>2. CASE StartPoll \/ StartComplete
      BY <2>2 DEF StartPoll, StartComplete, Label
    <2>3. CASE StartScore
      BY <2>3 DEF StartScore, RootElse, Label
    <2> QED
      BY <1>4, <2>1, <2>2, <2>3 DEF Call
  <1>5. ASSUME NEW r \in Ranks, WriteFile(r) PROVE TypeOK'
    <2>1. PICK f \in left[r] :
            \/ /\ tmp'  = [tmp EXCEPT ![cur.step][f] = cur.gen]
               /\ left' = [left EXCEPT ![r] = @ \ {f}]
               /\ UNCHANGED job
            \/ /\ job' = [job EXCEPT ![r] = "failed"]
               /\ UNCHANGED <<tmp, left>>
      BY <1>5 DEF WriteFile
    <2>2. cur.gen \in 0..MaxGen
      OBVIOUS
    <2>3. tmp' \in [Steps -> [File -> 0..MaxGen]]
      <3>1. CASE cur.step \in Steps
        <4>1. [tmp EXCEPT ![cur.step][f] = cur.gen] \in [Steps -> [File -> 0..MaxGen]]
          BY <2>2, <3>1, UpdateTyped
        <4> QED
          BY <2>1, <4>1
      <3>2. CASE cur.step \notin Steps
        BY <2>1, <3>2
      <3> QED
        BY <3>1, <3>2
    <2>4. left' \in [Ranks -> SUBSET Files]
      BY <2>1
    <2>5. job' \in [Ranks -> {"none", "running", "failed"}]
      BY <2>1
    <2> QED
      BY <1>5, <2>3, <2>4, <2>5 DEF WriteFile, callVars
  <1>6. ASSUME NEW r \in Ranks, WriteFail(r) PROVE TypeOK'
    BY <1>6 DEF WriteFail, callVars, fsVars
  <1>7. CASE Crash
    BY <1>7 DEF Crash, NoSave, Label, fsVars
  <1>8. CASE Restart
    <2>1. now' = 0 \/ now' \in FullVisible
      BY <1>8 DEF Restart
    <2>3. now' \in 0..MaxStep
      BY <2>1 DEF FullVisible, Steps
    <2>2. pc' \in [Ranks -> Label]
      BY <1>8 DEF Restart, Label
    <2> QED
      BY <1>8, <2>2, <2>3 DEF Restart, fsVars
  <1>9. CASE Stopped \/ UNCHANGED vars
    BY <1>9 DEF Stopped, vars
  <1> QED
    BY <1>1, <1>2, <1>3, <1>4, <1>5, <1>6, <1>7, <1>8, <1>9 DEF Next

\* Type correctness, whatever the gang, the regime and the bounds.
THEOREM TypeCorrect == Spec => []TypeOK
  BY TypeInit, TypeStep, PTL DEF Spec

-----------------------------------------------------------------------------
(***************************************************************************)
(* The inductive invariant, one lemma per part.                            *)
(***************************************************************************)
LEMMA IInit == Init => IInv
  <1> SUFFICES ASSUME Init PROVE IInv
    OBVIOUS
  <1>1. TypeOK
    BY TypeInit
  <1>2. Lockstep
    BY DEF Init, Lockstep, AllIn, JobsAgree, NoJobs
  <1>3. Visible = {}
    BY DEF Init, Visible, Empty
  <1>4. CurOK
    BY DEF Init, CurOK, Holds, Fresh, Saving, NoSave
  <1>5. TmpOK
    BY RankAssumption DEF Init, TmpOK, Holds
  <1>6. DirOK
    BY <1>3, RankAssumption DEF Init, DirOK, Holds
  <1>7. TodoOK
    BY RankAssumption DEF Init, TodoOK
  <1> QED
    BY <1>1, <1>2, <1>4, <1>5, <1>6, <1>7 DEF IInv

\* Where the saved-callback ends, in the conventional regime.
LEMMA AfterStaleIs ==
    ASSUME Mode = "none", TypeOK, CurOK
    PROVE  /\ AfterStale = (IF Fresh THEN "rmBegin" ELSE "idle")
           /\ AfterCommit = (IF Fresh THEN "rmBegin" ELSE "idle")
  <1>1. cur.gen \in Int /\ gen \in Int /\ cur.gen <= gen
    BY BoundAssumption DEF TypeOK, CurOK
  <1>2. cur.gen < gen <=> cur.gen # gen
    BY <1>1
  <1>3. AfterCommit = (IF Fresh THEN "rmBegin" ELSE "idle")
    BY <1>2 DEF AfterCommit, Fresh, Saving
  <1>4. op = "score" => ~Fresh
    BY DEF Fresh, Saving
  <1> QED
    BY <1>3, <1>4 DEF AfterStale

\* What get_stale_step_numbers reads only depends on the directory tree.
LEMMA SameTree ==
    ASSUME dir' = dir, score' = score
    PROVE  Visible' = Visible /\ Retained' = Retained
  <1>1. Visible' = Visible
    BY DEF Visible
  <1>2. Scored' = Scored
    BY <1>1 DEF Scored
  <1>3. \A s, t : Better(t, s)' = Better(t, s)
    BY DEF Better, ScoreOf
  <1> QED
    BY <1>1, <1>2, <1>3 DEF Retained, IsMax

\* The ranks stay between the same two collectives.
LEMMA LockstepStep ==
    ASSUME Conventional, IInv, Next PROVE Lockstep'
  <1> USE RankAssumption, BoundAssumption
      DEF IInv, Conventional, AllIn, NoJobs, AllJobs, JobsAgree, Goto
  <1>0. pc \in [Ranks -> Label] /\ job \in [Ranks -> {"none", "running", "failed"}]
    BY DEF TypeOK
  <1>1. ASSUME NEW r \in Ranks, Vote(r) PROVE Lockstep'
    BY <1>0, <1>1 DEF Vote, Lockstep, Fresh, Saving, callVars, fsVars
  <1>2. ASSUME NEW r \in Ranks, Wait(r) PROVE Lockstep'
    BY <1>0, <1>2 DEF Wait, Lockstep, Fresh, Saving, callVars, fsVars
  <1>3. ASSUME NEW r \in Ranks, WaitOwn(r) PROVE Lockstep'
    BY <1>0, <1>3 DEF WaitOwn, Lockstep, Fresh, Saving, callVars, fsVars
  <1>4. ASSUME NEW r \in Ranks, ReadStale(r) PROVE Lockstep'
    <2>1. PICK l \in {"dead", "staleB", IF Fresh THEN "rmBegin" ELSE "idle"} :
            pc' = [pc EXCEPT ![r] = l]
      BY <1>4, AfterStaleIs DEF ReadStale
    <2>2. pc[r] = "stale" /\ (Fresh' <=> Fresh) /\ job' = job /\ op' = op
      BY <1>4 DEF ReadStale, Fresh, Saving, callVars
    <2> QED
      BY <1>0, <2>1, <2>2 DEF Lockstep
  <1>5. ASSUME NEW r \in Ranks, ReadPrevious(r) PROVE Lockstep'
    BY <1>0, <1>5 DEF ReadPrevious, Lockstep
  <1>6. ASSUME NEW r \in Ranks, SkipRemove(r) PROVE Lockstep'
    BY <1>0, <1>6 DEF SkipRemove, Removing, Barrier, Lockstep, Fresh, Saving, callVars, fsVars
  <1>7. ASSUME NEW r \in Ranks, MakeDirs(r) PROVE Lockstep'
    BY <1>0, <1>7 DEF MakeDirs, Lockstep, Fresh, Saving, callVars, fsVars
  <1>8. ASSUME NEW r \in Ranks, Queue(r) PROVE Lockstep'
    BY <1>0, <1>8 DEF Queue, Lockstep, Fresh, Saving, callVars, fsVars
  <1>9. CASE Move
    BY <1>0, <1>9 DEF Move, Lockstep, Fresh, Saving, callVars
  <1>10. ASSUME NEW s \in Steps, RemoveTmp(s) PROVE Lockstep'
    BY <1>0, <1>10 DEF RemoveTmp, Lockstep, Fresh, Saving, callVars
  <1>11. ASSUME NEW s \in Steps, RemoveScore(s) PROVE Lockstep'
    BY <1>0, <1>11 DEF RemoveScore, Removing, Barrier, Lockstep, Fresh, Saving, callVars
  <1>12. ASSUME NEW s \in Steps, NEW f \in File, RemoveFile(s, f) PROVE Lockstep'
    BY <1>0, <1>12 DEF RemoveFile, Lockstep, Fresh, Saving, callVars
  <1>13. CASE OpenScore
    BY <1>0, <1>13 DEF OpenScore, Lockstep, Fresh, Saving, callVars
  <1>14. CASE WriteScore
    BY <1>0, <1>14 DEF WriteScore, Lockstep, Fresh, Saving, callVars
  <1>15. CASE Counted
    BY <1>0, <1>15 DEF Counted, At, Lockstep, Fresh, Saving, callVars
  <1>16. CASE Waited
    BY <1>0, <1>16 DEF Waited, Collective, At, Lockstep, Fresh, Saving, callVars
  <1>17. CASE CommitBarrier
    BY <1>0, <1>17 DEF CommitBarrier, RootElse, Collective, At, Lockstep, Fresh, Saving,
       callVars
  <1>18. CASE MovedBarrier
    BY <1>0, <1>18 DEF MovedBarrier, Collective, At, Lockstep, Fresh, Saving, callVars
  <1>19. CASE StaleBarrier
    <2>1. \A r \in Ranks : pc[r] = "staleB" /\ todo[r] = todo[Root]
      BY <1>19 DEF StaleBarrier, Collective, At, TodoOK
    <2>2. PICK l \in {"rmStale", IF Fresh THEN "rmBegin" ELSE "idle"} :
            pc' = [r \in Ranks |-> l]
      BY <1>19, <2>1, AfterStaleIs DEF StaleBarrier, Loop, Collective
    <2>3. (Fresh' <=> Fresh) /\ job' = job /\ op' = op
      BY <1>19 DEF StaleBarrier, Fresh, Saving, callVars
    <2> QED
      BY <1>0, <2>1, <2>2, <2>3 DEF Lockstep, Fresh, Saving
  <1>20. CASE RemovedStale
    <2>1. \A r \in Ranks : pc[r] = "rmStaleB" /\ todo[r] = todo[Root]
      BY <1>20 DEF RemovedStale, RemovedBarrier, Barrier, Collective, At, TodoOK
    <2>2. \A r \in Ranks : todo'[r] = todo'[Root]
      <3>1. \A r \in Ranks : Rest(r) = Rest(Root)
        BY <2>1 DEF Rest
      <3>2. \A r \in Ranks : todo'[r] = Rest(r)
        BY <1>20 DEF RemovedStale, RemovedBarrier
      <3>3. Root \in Ranks
        OBVIOUS
      <3> HIDE DEF AllIn, NoJobs, AllJobs, JobsAgree, Goto, IInv, Conventional
      <3>4. todo'[Root] = Rest(Root)
        BY ONLY <3>2, <3>3
      <3> QED
        BY ONLY <3>1, <3>2, <3>4
    <2>3. PICK l \in {"rmStale", IF Fresh THEN "rmBegin" ELSE "idle"} :
            pc' = [r \in Ranks |-> l]
      <3> DEFINE after == IF Fresh THEN "rmBegin" ELSE "idle"
                 l == IF todo'[Root] = {} THEN after ELSE "rmStale"
      <3>1. AfterStale = after
        BY AfterStaleIs
      <3>2. pc' = [r \in Ranks |-> IF todo'[r] = {} THEN after ELSE "rmStale"]
        BY <1>20, <3>1 DEF RemovedStale, RemovedBarrier, Loop, Collective
      <3> HIDE DEF after
      <3>3. pc' = [r \in Ranks |-> l]
        BY ONLY <2>2, <3>2
      <3>4. l \in {"rmStale", after}
        OBVIOUS
      <3> QED
        BY ONLY <3>3, <3>4 DEF after
    <2>4. (Fresh' <=> Fresh) /\ job' = job /\ op' = op
      BY <1>20 DEF RemovedStale, RemovedBarrier, Fresh, Saving, callVars
    <2> QED
      BY <1>0, <2>1, <2>3, <2>4 DEF Lockstep, Fresh, Saving
  <1>21. CASE RemovedPrevious
    BY <1>0, <1>21 DEF RemovedPrevious, RemovedBarrier, Barrier, Collective, At, Lockstep
  <1>22. CASE BeginBarrier
    BY <1>0, <1>22 DEF BeginBarrier, Collective, At, Lockstep, Fresh, Saving, callVars
  <1>23. CASE SyncBarrier
    BY <1>0, <1>23 DEF SyncBarrier, CurOK, Collective, At, Lockstep, Fresh, Saving, callVars
  <1>24. CASE ScoreBarrier
    BY <1>0, <1>24 DEF ScoreBarrier, Collective, At, Lockstep, Fresh, Saving, callVars
  <1>25. ASSUME NEW k \in {"save", "bsave"}, StartSave(k) PROVE Lockstep'
    BY <1>0, <1>25 DEF StartSave, CurOK, TypeOK, At, Lockstep, Fresh, Saving
  <1>26. CASE StartPoll \/ StartComplete
    BY <1>0, <1>26 DEF StartPoll, StartComplete, At, Lockstep
  <1>27. CASE StartScore
    BY <1>0, <1>27 DEF StartScore, RootElse, At, Lockstep
  <1>28. ASSUME NEW r \in Ranks, WriteFile(r) PROVE Lockstep'
    BY <1>0, <1>28 DEF WriteFile, Lockstep, Fresh, Saving, callVars
  <1>29. ASSUME NEW r \in Ranks, WriteFail(r) PROVE Lockstep'
    BY <1>0, <1>29 DEF WriteFail, Lockstep, Fresh, Saving, callVars
  <1>30. CASE Crash
    BY <1>30 DEF Crash, Lockstep
  <1>31. CASE Restart
    BY <1>0, <1>31 DEF Restart, At, Lockstep, Fresh, Saving
  <1>32. CASE Stopped
    BY <1>32 DEF Stopped, vars, Lockstep, Fresh, Saving
  <1> QED
    BY <1>1, <1>2, <1>3, <1>4, <1>5, <1>6, <1>7, <1>8, <1>9, <1>10, <1>11, <1>12,
       <1>13, <1>14, <1>15, <1>16, <1>17, <1>18, <1>19, <1>20, <1>21, <1>22, <1>23,
       <1>24, <1>25, <1>26, <1>27, <1>28, <1>29, <1>30, <1>31, <1>32
    DEF Next, RankStep, RootStep, GangStep, Call

\* The save in progress is known to the ranks that take part in it.
LEMMA CurStep ==
    ASSUME Conventional, IInv, Next PROVE CurOK'
  <1> USE RankAssumption, BoundAssumption
      DEF IInv, Conventional, AllIn, NoJobs, AllJobs, JobsAgree, Goto
  <1>0. /\ pc \in [Ranks -> Label] /\ job \in [Ranks -> {"none", "running", "failed"}]
        /\ cur \in [step : 0..MaxStep, gen : 0..MaxGen] /\ gen \in 0..MaxGen
        /\ now \in 0..MaxStep
    BY DEF TypeOK
  <1>1. ASSUME NEW r \in Ranks, Vote(r) PROVE CurOK'
    BY <1>0, <1>1 DEF Vote, CurOK, Holds, Lockstep, Fresh, Saving, callVars, fsVars
  <1>2. ASSUME NEW r \in Ranks, Wait(r) PROVE CurOK'
    BY <1>0, <1>2 DEF Wait, CurOK, Holds, Lockstep, Fresh, Saving, callVars, fsVars
  <1>3. ASSUME NEW r \in Ranks, WaitOwn(r) PROVE CurOK'
    BY <1>0, <1>3 DEF WaitOwn, CurOK, Holds, Lockstep, Fresh, Saving, callVars, fsVars
  <1>4. ASSUME NEW r \in Ranks, ReadStale(r) PROVE CurOK'
    <2>1. PICK l \in {"dead", "staleB", IF Fresh THEN "rmBegin" ELSE "idle"} :
            pc' = [pc EXCEPT ![r] = l]
      BY <1>4, AfterStaleIs DEF ReadStale
    <2> QED
      BY <1>0, <1>4, <2>1 DEF ReadStale, CurOK, Holds, Fresh, Saving, callVars
  <1>5. ASSUME NEW r \in Ranks, ReadPrevious(r) PROVE CurOK'
    BY <1>0, <1>5 DEF ReadPrevious, CurOK, Holds, Lockstep, Fresh, Saving, callVars, fsVars
  <1>6. ASSUME NEW r \in Ranks, SkipRemove(r) PROVE CurOK'
    BY <1>0, <1>6 DEF SkipRemove, Removing, Barrier, CurOK, Holds, Lockstep, Fresh, Saving,
       callVars, fsVars
  <1>7. ASSUME NEW r \in Ranks, MakeDirs(r) PROVE CurOK'
    BY <1>0, <1>7 DEF MakeDirs, CurOK, Holds, Lockstep, Fresh, Saving, callVars, fsVars
  <1>8. ASSUME NEW r \in Ranks, Queue(r) PROVE CurOK'
    BY <1>0, <1>8 DEF Queue, CurOK, Holds, Lockstep, Fresh, Saving, callVars, fsVars
  <1>9. CASE Move
    BY <1>0, <1>9 DEF Move, CurOK, Holds, Lockstep, Fresh, Saving, callVars, fsVars
  <1>10. ASSUME NEW s \in Steps, RemoveTmp(s) PROVE CurOK'
    BY <1>0, <1>10 DEF RemoveTmp, CurOK, Holds, Lockstep, Fresh, Saving, callVars, fsVars
  <1>11. ASSUME NEW s \in Steps, RemoveScore(s) PROVE CurOK'
    BY <1>0, <1>11 DEF RemoveScore, Removing, Barrier, CurOK, Holds, Lockstep, Fresh,
       Saving, callVars, fsVars
  <1>12. ASSUME NEW s \in Steps, NEW f \in File, RemoveFile(s, f) PROVE CurOK'
    BY <1>0, <1>12 DEF RemoveFile, CurOK, Holds, Lockstep, Fresh, Saving, callVars, fsVars
  <1>13. CASE OpenScore
    BY <1>0, <1>13 DEF OpenScore, CurOK, Holds, Lockstep, Fresh, Saving, callVars, fsVars
  <1>14. CASE WriteScore
    BY <1>0, <1>14 DEF WriteScore, CurOK, Holds, Lockstep, Fresh, Saving, callVars, fsVars
  <1>15. CASE Counted
    BY <1>0, <1>15 DEF Counted, At, CurOK, Holds, Lockstep, Fresh, Saving, callVars, fsVars
  <1>16. CASE Waited
    BY <1>0, <1>16 DEF Waited, Collective, At, CurOK, Holds, Lockstep, Fresh, Saving,
       callVars, fsVars
  <1>17. CASE CommitBarrier
    BY <1>0, <1>17 DEF CommitBarrier, RootElse, Collective, At, CurOK, Holds, Lockstep,
       Fresh, Saving, callVars, fsVars
  <1>18. CASE MovedBarrier
    BY <1>0, <1>18 DEF MovedBarrier, Collective, At, CurOK, Holds, Lockstep, Fresh, Saving,
       callVars, fsVars
  <1>19. CASE StaleBarrier
    <2>1. PICK l \in [Ranks -> {"rmStale", IF Fresh THEN "rmBegin" ELSE "idle"}] :
            pc' = l
      BY <1>19, AfterStaleIs DEF StaleBarrier, Loop, Collective
    <2> QED
      BY <1>0, <1>19, <2>1 DEF StaleBarrier, CurOK, Holds, Fresh, Saving, callVars
  <1>20. CASE RemovedStale
    <2>1. PICK l \in [Ranks -> {"rmStale", IF Fresh THEN "rmBegin" ELSE "idle"}] :
            pc' = l
      BY <1>20, AfterStaleIs DEF RemovedStale, RemovedBarrier, Loop, Collective
    <2> QED
      BY <1>0, <1>20, <2>1
         DEF RemovedStale, RemovedBarrier, CurOK, Holds, Fresh, Saving, callVars
  <1>21. CASE RemovedPrevious
    BY <1>0, <1>21 DEF RemovedPrevious, RemovedBarrier, Barrier, Collective, At, CurOK,
       Holds, Lockstep, Fresh, Saving, callVars, fsVars
  <1>22. CASE BeginBarrier
    BY <1>0, <1>22 DEF BeginBarrier, Collective, At, CurOK, Holds, Lockstep, Fresh, Saving,
       callVars, fsVars
  <1>23. CASE SyncBarrier
    BY <1>0, <1>23 DEF SyncBarrier, Collective, At, CurOK, Holds, Lockstep, Fresh, Saving,
       callVars, fsVars
  <1>24. CASE ScoreBarrier
    BY <1>0, <1>24 DEF ScoreBarrier, Collective, At, CurOK, Holds, Lockstep, Fresh, Saving,
       callVars, fsVars
  <1>25. ASSUME NEW k \in {"save", "bsave"}, StartSave(k) PROVE CurOK'
    <2>1. now' \in Steps /\ now' > now
      BY <1>25 DEF StartSave
    <2>2. \A r \in Ranks : pc'[r] \in {"rmBegin", "wait"} /\ (Holds(r)' => Holds(r))
      BY <1>0, <1>25 DEF StartSave, Holds
    <2>3. cur' = cur /\ gen' = gen + 1
      BY <1>25 DEF StartSave
    <2>4. cur.step \in Int /\ cur.gen \in Int /\ gen \in Int /\ now \in Int /\ now' \in Int
      BY <1>0, <2>1 DEF Steps
    <2>5. cur'.gen <= gen' /\ \A r \in Ranks : Holds(r)' => cur'.step < now'
      BY <2>1, <2>2, <2>3, <2>4 DEF CurOK
    <2> QED
      BY <2>1, <2>2, <2>3, <2>4, <2>5 DEF CurOK
  <1>26. CASE StartPoll \/ StartComplete
    BY <1>0, <1>26 DEF StartPoll, StartComplete, At, CurOK, Holds, Lockstep, Fresh, Saving,
       callVars, fsVars
  <1>27. CASE StartScore
    BY <1>0, <1>27 DEF StartScore, RootElse, At, CurOK, Holds, Lockstep, Fresh, Saving,
       callVars, fsVars
  <1>28. ASSUME NEW r \in Ranks, WriteFile(r) PROVE CurOK'
    BY <1>0, <1>28 DEF WriteFile, CurOK, Holds, Lockstep, Fresh, Saving, callVars, fsVars
  <1>29. ASSUME NEW r \in Ranks, WriteFail(r) PROVE CurOK'
    BY <1>0, <1>29 DEF WriteFail, CurOK, Holds, Lockstep, Fresh, Saving, callVars, fsVars
  <1>30. CASE Crash
    BY <1>0, <1>30 DEF Crash, NoSave, CurOK, Holds, Lockstep, Fresh, Saving, callVars, fsVars
  <1>31. CASE Restart
    <2>1. \A r \in Ranks : ~Holds(r)'
      BY <1>0, <1>31 DEF Restart, At, Lockstep, Holds
    <2>2. \A r \in Ranks : pc[r] = "down" /\ pc'[r] \in {"idle", "dead"}
      BY <1>31 DEF Restart, At
    <2>3. op = "none" /\ op' = op /\ cur' = cur /\ gen' = gen
      BY <1>31, <2>2 DEF Restart, CurOK
    <2> QED
      BY <2>1, <2>2, <2>3 DEF CurOK, Fresh, Saving
  <1>32. CASE Stopped
    BY <1>0, <1>32 DEF Stopped, vars, CurOK, Holds, Lockstep, Fresh, Saving, callVars, fsVars
  <1> QED
    BY <1>1, <1>2, <1>3, <1>4, <1>5, <1>6, <1>7, <1>8, <1>9, <1>10,
       <1>11, <1>12, <1>13, <1>14, <1>15, <1>16, <1>17, <1>18, <1>19,
       <1>20, <1>21, <1>22, <1>23, <1>24, <1>25, <1>26, <1>27, <1>28,
       <1>29, <1>30, <1>31, <1>32
    DEF Next, RankStep, RootStep, GangStep, Call

\* The temporary directory of the save in progress holds what the save wrote.
LEMMA TmpStep ==
    ASSUME Conventional, IInv, Next PROVE TmpOK'
  <1> USE RankAssumption, BoundAssumption
      DEF IInv, Conventional, AllIn, NoJobs, AllJobs, JobsAgree, Goto
  <1>0. /\ pc \in [Ranks -> Label] /\ job \in [Ranks -> {"none", "running", "failed"}]
        /\ cur \in [step : 0..MaxStep, gen : 0..MaxGen]
        /\ left \in [Ranks -> SUBSET Files]
        /\ tmp \in [Steps -> [File -> 0..MaxGen]]
    BY DEF TypeOK
  <1>1. ASSUME NEW r \in Ranks, Vote(r) PROVE TmpOK'
    BY <1>0, <1>1 DEF Vote, TmpOK, Holds, Done, Lockstep, Fresh, Saving, callVars, fsVars
  <1>2. ASSUME NEW r \in Ranks, Wait(r) PROVE TmpOK'
    BY <1>0, <1>2 DEF Wait, TmpOK, Holds, Done, Lockstep, Fresh, Saving, callVars, fsVars
  <1>3. ASSUME NEW r \in Ranks, WaitOwn(r) PROVE TmpOK'
    BY <1>0, <1>3 DEF WaitOwn, Done, TmpOK, Holds, Lockstep, callVars, fsVars
  <1>4. ASSUME NEW r \in Ranks, ReadStale(r) PROVE TmpOK'
    <2>1. PICK l \in {"dead", "staleB", IF Fresh THEN "rmBegin" ELSE "idle"} :
            pc' = [pc EXCEPT ![r] = l]
      BY <1>4, AfterStaleIs DEF ReadStale
    <2> QED
      BY <1>0, <1>4, <2>1 DEF ReadStale, TmpOK, Holds, Done, callVars, fsVars
  <1>5. ASSUME NEW r \in Ranks, ReadPrevious(r) PROVE TmpOK'
    BY <1>0, <1>5 DEF ReadPrevious, TmpOK, Holds, Done, Lockstep, Fresh, Saving, callVars,
       fsVars
  <1>6. ASSUME NEW r \in Ranks, SkipRemove(r) PROVE TmpOK'
    BY <1>0, <1>6 DEF SkipRemove, Removing, Barrier, TmpOK, Holds, Done, Lockstep, Fresh,
       Saving, callVars, fsVars
  <1>7. ASSUME NEW r \in Ranks, MakeDirs(r) PROVE TmpOK'
    BY <1>0, <1>7 DEF MakeDirs, TmpOK, Holds, Done, Lockstep, Fresh, Saving, callVars, fsVars
  <1>8. ASSUME NEW r \in Ranks, Queue(r) PROVE TmpOK'
    BY <1>0, <1>8 DEF Queue, TmpOK, Holds, Done, Lockstep, Fresh, Saving, callVars, fsVars
  <1>9. CASE Move
    <2>1. \A r \in Ranks : ~Holds(r)' /\ pc'[r] = "movedB" /\ job'[r] = "none"
      BY <1>0, <1>9 DEF Move, Lockstep, Holds
    <2> QED
      BY <2>1 DEF TmpOK
  <1>10. ASSUME NEW s \in Steps, RemoveTmp(s) PROVE TmpOK'
    <2>1. UNCHANGED <<pc, job, left, cur, now>>
      BY <1>10 DEF RemoveTmp, callVars
    <2>2. CASE pc[Root] = "rmBegin"
      <3>1. \A r \in Ranks : ~Holds(r) /\ job[r] = "none" /\ pc[r] \notin {"yes", "waitB", "commitB"}
        BY <1>0, <2>2 DEF Lockstep, Holds
      <3> QED
        BY <2>1, <2>2, <3>1 DEF TmpOK, Holds
    <2>3. CASE pc[Root] = "rmStale"
      <3>1. \A r \in Ranks : Holds(r) => s # cur.step
        <4>1. PICK m \in Visible : \A t \in todo[Root] : t < m
          BY <2>3 DEF DirOK
        <4>2. s < m
          BY <1>10, <2>3, <4>1 DEF RemoveTmp, IsTarget, IsMin
        <4>3. m \in Int /\ s \in Int /\ cur.step \in Int
          BY <1>0 DEF Visible, Steps
        <4>4. \A r \in Ranks : Holds(r) => m < cur.step
          BY DEF DirOK
        <4> QED
          BY <4>2, <4>3, <4>4
      <3>2. \A r \in Ranks : Holds(r) => tmp'[cur.step] = tmp[cur.step]
        BY <1>0, <1>10, <3>1 DEF RemoveTmp
      <3> QED
        BY <2>1, <2>3, <3>2 DEF TmpOK, Holds, Done
    <2> QED
      BY <1>0, <1>10, <2>2, <2>3 DEF RemoveTmp, Removing, Lockstep
  <1>11. ASSUME NEW s \in Steps, RemoveScore(s) PROVE TmpOK'
    BY <1>0, <1>11 DEF RemoveScore, Removing, Barrier, IsTarget, TmpOK, Holds, Done,
       Lockstep, callVars
  <1>12. ASSUME NEW s \in Steps, NEW f \in File, RemoveFile(s, f) PROVE TmpOK'
    BY <1>0, <1>12 DEF RemoveFile, TmpOK, Holds, Done, Lockstep, Fresh, Saving, callVars,
       fsVars
  <1>13. CASE OpenScore
    BY <1>0, <1>13 DEF OpenScore, TmpOK, Holds, Done, Lockstep, Fresh, Saving, callVars, fsVars
  <1>14. CASE WriteScore
    BY <1>0, <1>14 DEF WriteScore, TmpOK, Holds, Done, Lockstep, Fresh, Saving, callVars,
       fsVars
  <1>15. CASE Counted
    <2>1. UNCHANGED <<left, cur, now, tmp>>
      BY <1>15 DEF Counted, callVars, fsVars
    <2>2. CASE At("yes")
      <3>1. \A r \in Ranks : pc[r] = "yes" /\ Done(r) /\ Holds(r) /\ job'[r] = "none"
        BY <1>0, <1>15, <2>2 DEF Counted, At, TmpOK, Done, Holds
      <3>2. \A r \in Ranks : pc'[r] = IF job[r] = "failed" THEN "dead" ELSE "commitB"
        BY <1>15, <2>2 DEF Counted
      <3>3. \A r \in Ranks : pc'[r] = "commitB" => job[r] # "none" /\ left[r] = {}
        BY <3>1, <3>2 DEF Done
      <3> QED
        BY <2>1, <3>1, <3>2, <3>3 DEF TmpOK, Holds
    <2>3. CASE ~At("yes")
      <3>1. \A r \in Ranks : pc'[r] = "idle" /\ job'[r] = job[r]
        BY <1>15, <2>3 DEF Counted
      <3> QED
        BY <2>1, <3>1 DEF TmpOK, Holds
    <2> QED
      BY <2>2, <2>3
  <1>16. CASE Waited
    BY <1>0, <1>16 DEF Waited, Collective, At, TmpOK, Holds, callVars, fsVars
  <1>17. CASE CommitBarrier
    <2>1. \A r \in Ranks : pc[r] = "commitB" /\ Holds(r)
      BY <1>17 DEF CommitBarrier, Collective, At, Holds
    <2>2. ASSUME NEW f \in File
          PROVE  tmp[cur.step][f] = IF f \in Files THEN cur.gen ELSE 0
      <3>1. CASE f \in Files
        <4>1. f[2] \in Ranks /\ f \in FilesOf(f[2])
          BY <3>1 DEF File, FilesOf
        <4> QED
          BY <2>1, <3>1, <4>1 DEF TmpOK
      <3>2. CASE f \notin Files
        BY <2>1, <3>2 DEF TmpOK
      <3> QED
        BY <3>1, <3>2
    <2>3. Whole(tmp[cur.step], cur.gen)
      BY <2>2 DEF Whole
    <2>4. UNCHANGED <<job, left, cur, now, tmp>>
      BY <1>17 DEF CommitBarrier, callVars, fsVars
    <2>5. \A r \in Ranks : pc'[r] \in {"move", "movedB"}
      BY <1>17 DEF CommitBarrier, Collective, RootElse
    <2> QED
      BY <2>1, <2>3, <2>4, <2>5 DEF TmpOK, Holds, Whole
  <1>18. CASE MovedBarrier
    BY <1>0, <1>18 DEF MovedBarrier, Collective, At, TmpOK, Holds, Done, Lockstep, Fresh,
       Saving, callVars, fsVars
  <1>19. CASE StaleBarrier
    <2>1. PICK l \in [Ranks -> {"rmStale", IF Fresh THEN "rmBegin" ELSE "idle"}] :
            pc' = l
      BY <1>19, AfterStaleIs DEF StaleBarrier, Loop, Collective
    <2> QED
      BY <1>0, <1>19, <2>1 DEF StaleBarrier, TmpOK, Holds, callVars, fsVars
  <1>20. CASE RemovedStale
    <2>1. PICK l \in [Ranks -> {"rmStale", IF Fresh THEN "rmBegin" ELSE "idle"}] :
            pc' = l
      BY <1>20, AfterStaleIs DEF RemovedStale, RemovedBarrier, Loop, Collective
    <2> QED
      BY <1>0, <1>20, <2>1 DEF RemovedStale, RemovedBarrier, TmpOK, Holds, callVars, fsVars
  <1>21. CASE RemovedPrevious
    BY <1>0, <1>21 DEF RemovedPrevious, RemovedBarrier, Barrier, Collective, At, TmpOK,
       Holds, Done, Lockstep, Fresh, Saving, callVars, fsVars
  <1>22. CASE BeginBarrier
    <2>1. \A r \in Ranks : job'[r] = "none" /\ pc'[r] = "mkdir"
      BY <1>0, <1>22 DEF BeginBarrier, Collective, At, Lockstep
    <2>2. tmp'[cur'.step] = Empty
      BY <1>22 DEF BeginBarrier, Collective, At, TmpOK, fsVars
    <2> QED
      BY <2>1, <2>2 DEF TmpOK, Empty
  <1>23. CASE SyncBarrier
    BY <1>0, <1>23 DEF SyncBarrier, Collective, At, TmpOK, Holds, Done, Lockstep, Fresh,
       Saving, callVars, fsVars
  <1>24. CASE ScoreBarrier
    BY <1>0, <1>24 DEF ScoreBarrier, Collective, At, TmpOK, Holds, Done, Lockstep, Fresh,
       Saving, callVars, fsVars
  <1>25. ASSUME NEW k \in {"save", "bsave"}, StartSave(k) PROVE TmpOK'
    BY <1>0, <1>25 DEF StartSave, At, TmpOK, Holds, Done, Lockstep, Fresh, Saving, callVars,
       fsVars
  <1>26. CASE StartPoll \/ StartComplete
    BY <1>0, <1>26 DEF StartPoll, StartComplete, At, TmpOK, Holds, Done, Lockstep, Fresh,
       Saving, callVars, fsVars
  <1>27. CASE StartScore
    BY <1>0, <1>27 DEF StartScore, RootElse, At, TmpOK, Holds, Done, Lockstep, Fresh,
       Saving, callVars, fsVars
  <1>28. ASSUME NEW r \in Ranks, WriteFile(r) PROVE TmpOK'
    <2>1. PICK f \in left[r] :
            \/ /\ tmp'  = [tmp EXCEPT ![cur.step][f] = cur.gen]
               /\ left' = [left EXCEPT ![r] = @ \ {f}]
               /\ UNCHANGED job
            \/ /\ job' = [job EXCEPT ![r] = "failed"]
               /\ UNCHANGED <<tmp, left>>
      BY <1>28 DEF WriteFile
    <2>2. job[r] = "running" /\ UNCHANGED <<pc, cur, now>>
      BY <1>28 DEF WriteFile, callVars
    <2>3. cur.step \in Steps /\ Holds(r) /\ f \in Files /\ f \in File
      BY <1>0, <2>2, FilesAreFile DEF CurOK, Holds
    <2>4. pc[Root] \notin {"move", "rmBeginB"}
      BY <1>0, <2>2 DEF Lockstep
    <2>5. \A h \in File : tmp'[cur.step][h] = tmp[cur.step][h] \/ (h = f /\ tmp'[cur.step][h] = cur.gen)
      BY <1>0, <2>1, <2>3
    <2>6. \A q \in Ranks : (Holds(q)' <=> Holds(q)) /\ (job'[q] # "none" <=> job[q] # "none")
      BY <1>0, <2>1, <2>2 DEF Holds
    <2>7. \A q \in Ranks : \A h \in FilesOf(q) : h \in left[q] => h \in left'[q] \/ tmp'[cur.step][h] = cur.gen
      BY <1>0, <2>1, <2>3, FilesAreFile DEF FilesOf
    <2>8. \A q \in Ranks : Done(q) => Done(q)' /\ left'[q] = left[q] /\ job'[q] = job[q]
      BY <1>0, <2>1, <2>2 DEF Done
    <2>9. \A q \in Ranks : \A h \in FilesOf(q) : h \in File
      BY FilesAreFile DEF FilesOf
    <2> QED
      BY <2>2, <2>3, <2>4, <2>5, <2>6, <2>7, <2>8, <2>9 DEF TmpOK, Done
  <1>29. ASSUME NEW r \in Ranks, WriteFail(r) PROVE TmpOK'
    BY <1>0, <1>29 DEF WriteFail, TmpOK, Holds, Done, Lockstep, Fresh, Saving, callVars, fsVars
  <1>30. CASE Crash
    BY <1>0, <1>30 DEF Crash, NoSave, TmpOK, Holds, Done, Lockstep, Fresh, Saving, callVars,
       fsVars
  <1>31. CASE Restart
    BY <1>0, <1>31 DEF Restart, At, TmpOK, Holds, Done, Lockstep, Fresh, Saving, callVars,
       fsVars
  <1>32. CASE Stopped
    BY <1>0, <1>32 DEF Stopped, vars, TmpOK, Holds, Done, Lockstep, Fresh, Saving, callVars,
       fsVars
  <1> QED
    BY <1>1, <1>2, <1>3, <1>4, <1>5, <1>6, <1>7, <1>8, <1>9, <1>10,
       <1>11, <1>12, <1>13, <1>14, <1>15, <1>16, <1>17, <1>18, <1>19,
       <1>20, <1>21, <1>22, <1>23, <1>24, <1>25, <1>26, <1>27, <1>28,
       <1>29, <1>30, <1>31, <1>32
    DEF Next, RankStep, RootStep, GangStep, Call

LEMMA SameVisible ==
    ASSUME dir' = dir
    PROVE  Visible' = Visible /\ FullVisible' = FullVisible
  BY DEF Visible, FullVisible

LEMMA VisibleInt == Visible \subseteq Int
  BY DEF Visible, Steps

\* The last committed checkpoint is whole and older than the save in progress.
LEMMA DirStep ==
    ASSUME Conventional, IInv, Next PROVE DirOK'
  <1> USE RankAssumption, BoundAssumption
      DEF IInv, Conventional, AllIn, NoJobs, AllJobs, JobsAgree, Goto
  <1>0. /\ pc \in [Ranks -> Label] /\ job \in [Ranks -> {"none", "running", "failed"}]
        /\ cur \in [step : 0..MaxStep, gen : 0..MaxGen]
        /\ gen \in 0..MaxGen /\ now \in 0..MaxStep
        /\ todo \in [Ranks -> SUBSET Steps]
        /\ dir \in [Steps -> [File -> 0..MaxGen]]
        /\ tmp \in [Steps -> [File -> 0..MaxGen]]
    BY DEF TypeOK
  <1>1. ASSUME NEW r \in Ranks, Vote(r) PROVE DirOK'
    BY <1>0, <1>1, SameVisible DEF Vote, DirOK, Holds, Done, Lockstep, Fresh, Saving,
       callVars, fsVars
  <1>2. ASSUME NEW r \in Ranks, Wait(r) PROVE DirOK'
    BY <1>0, <1>2, SameVisible DEF Wait, DirOK, Holds, Done, Lockstep, Fresh, Saving,
       callVars, fsVars
  <1>3. ASSUME NEW r \in Ranks, WaitOwn(r) PROVE DirOK'
    BY <1>0, <1>3, SameVisible DEF WaitOwn, DirOK, Holds, Done, Lockstep, Fresh, Saving,
       callVars, fsVars
  <1>4. ASSUME NEW r \in Ranks, ReadStale(r) PROVE DirOK'
    <2>1. PICK l \in {"dead", "staleB", IF Fresh THEN "rmBegin" ELSE "idle"} :
            pc' = [pc EXCEPT ![r] = l]
      BY <1>4, AfterStaleIs DEF ReadStale
    <2>2. UNCHANGED <<dir, cur, now, op, gen, job>> /\ pc[r] = "stale"
      BY <1>4 DEF ReadStale, callVars, fsVars
    <2>3. CASE r # Root
      BY <1>0, <1>4, <2>1, <2>2, <2>3, SameVisible DEF ReadStale, DirOK, Holds, Fresh, Saving
    <2>4. CASE r = Root /\ pc'[Root] # "staleB"
      <3>1. pc'[Root] \notin {"staleB", "rmStale", "rmStaleB"}
        BY <1>0, <2>1, <2>4
      <3> QED
        BY <1>0, <2>1, <2>2, <2>4, <3>1, SameVisible DEF DirOK, Holds, Fresh, Saving
    <2>5. CASE r = Root /\ pc'[Root] = "staleB"
      <3>1. Visible # {} /\ todo'[Root] = Visible \ Retained
        BY <1>0, <1>4, <2>2, <2>5, AfterStaleIs DEF ReadStale
      <3>2. PICK m \in Visible : IsMax(Visible, m)
        BY <3>1 DEF DirOK
      <3>3. \A s \in todo'[Root] : s \in Visible /\ s # m
        BY <3>1, <3>2 DEF Retained
      <3>4. \A s \in todo'[Root] : s < m
        <4>1. m \in Int /\ \A s \in todo'[Root] : s \in Int /\ s <= m /\ s # m
          BY <3>2, <3>3, VisibleInt DEF IsMax
        <4> QED
          BY <4>1
      <3> QED
        BY <1>0, <2>1, <2>2, <2>5, <3>4, SameVisible DEF DirOK, Holds, Fresh, Saving
    <2> QED
      BY <2>3, <2>4, <2>5
  <1>5. ASSUME NEW r \in Ranks, ReadPrevious(r) PROVE DirOK'
    BY <1>0, <1>5, SameVisible DEF ReadPrevious, DirOK, Holds, Done, Lockstep, Fresh,
       Saving, callVars, fsVars
  <1>6. ASSUME NEW r \in Ranks, SkipRemove(r) PROVE DirOK'
    BY <1>0, <1>6, SameVisible DEF SkipRemove, Removing, Barrier, DirOK, Holds, Done,
       Lockstep, Fresh, Saving, callVars, fsVars
  <1>7. ASSUME NEW r \in Ranks, MakeDirs(r) PROVE DirOK'
    BY <1>0, <1>7, SameVisible DEF MakeDirs, DirOK, Holds, Done, Lockstep, Fresh, Saving,
       callVars, fsVars
  <1>8. ASSUME NEW r \in Ranks, Queue(r) PROVE DirOK'
    BY <1>0, <1>8, SameVisible DEF Queue, DirOK, Holds, Done, Lockstep, Fresh, Saving,
       callVars, fsVars
  <1>9. CASE Move
    <2>1. cur.step \in Steps /\ cur.gen \in 1..MaxGen /\ cur.step <= now
      BY <1>0, <1>9 DEF Move, CurOK, Holds
    <2>2. Whole(tmp[cur.step], cur.gen) /\ \A s \in Visible : s < cur.step
      BY <1>9 DEF Move, TmpOK, DirOK, Holds
    <2>3. /\ \A s \in Steps : dir'[s] = IF s = cur.step THEN tmp[cur.step] ELSE dir[s]
          /\ UNCHANGED <<cur, now, op, gen, job>>
      BY <1>0, <1>9 DEF Move, callVars
    <2>4. Whole(dir'[cur.step], cur.gen)
      BY <2>1, <2>2, <2>3
    <2>5. cur.step \in Visible'
      <3>1. <<"trainer", Root>> \in Files /\ <<"trainer", Root>> \in File
        BY DEF Files, File, Kinds
      <3> QED
        BY <2>1, <2>4, <3>1 DEF Visible, Whole
    <2>6. \A s \in Visible' : s \in Visible \/ s = cur.step
      BY <2>3 DEF Visible
    <2>7. \A s \in Visible' : s <= cur.step
      <3>1. cur.step \in Int /\ \A s \in Visible : s \in Int /\ s < cur.step
        BY <1>0, <2>2, VisibleInt
      <3> QED
        BY <2>6, <3>1
    <2>8. \A r \in Ranks : ~Holds(r)' /\ pc'[r] = "movedB"
      BY <1>0, <1>9 DEF Move, Lockstep, Holds
    <2>9. Fresh => cur.step < now
      BY <1>9 DEF Move, CurOK, Holds
    <2>10. \A s \in Visible' : s <= now /\ (Fresh' => s < now)
      <3>1. cur.step \in Int /\ now \in Int /\ \A s \in Visible' : s \in Int /\ s <= cur.step
        BY <1>0, <2>7 DEF Visible, Steps
      <3>2. Fresh' <=> Fresh
        BY <2>3 DEF Fresh, Saving
      <3> QED
        BY <2>1, <2>3, <2>9, <3>1, <3>2
    <2>11. \E m \in Visible', g \in 1..MaxGen : IsMax(Visible', m) /\ Whole(dir'[m], g)
      BY <2>1, <2>4, <2>5, <2>7 DEF IsMax
    <2> QED
      BY <2>3, <2>8, <2>10, <2>11 DEF DirOK, IsMax, Whole
  <1>10. ASSUME NEW s \in Steps, RemoveTmp(s) PROVE DirOK'
    BY <1>0, <1>10, SameVisible DEF RemoveTmp, DirOK, Holds, Done, Lockstep, Fresh, Saving,
       callVars, fsVars
  <1>11. ASSUME NEW s \in Steps, RemoveScore(s) PROVE DirOK'
    BY <1>0, <1>11, SameVisible DEF RemoveScore, Removing, Barrier, DirOK, Holds, Done,
       Lockstep, Fresh, Saving, callVars, fsVars
  <1>12. ASSUME NEW s \in Steps, NEW f \in File, RemoveFile(s, f) PROVE DirOK'
    <2>1. pc[Root] \in {"rmBegin", "rmStale"} /\ s \in Visible
      BY <1>0, <1>12 DEF RemoveFile, Removing, Doomed, Visible, Lockstep
    <2>2. pc[Root] # "rmBegin"
      <3>1. pc[Root] = "rmBegin" => s = now /\ Fresh
        BY <1>12 DEF RemoveFile, IsTarget, Lockstep
      <3> QED
        BY <1>0, <2>1, <3>1 DEF DirOK
    <2>3. PICK m \in Visible : \A t \in todo[Root] : t < m
      BY <2>1, <2>2 DEF DirOK
    <2>4. s < m /\ s # m
      BY <1>12, <2>1, <2>2, <2>3, VisibleInt DEF RemoveFile, IsTarget, IsMin
    <2>5. /\ \A t \in Steps : t # s => dir'[t] = dir[t]
          /\ \A h \in File : dir'[s][h] # 0 => dir[s][h] # 0
          /\ UNCHANGED <<pc, todo, cur, now, op, gen, job>>
      BY <1>0, <1>12 DEF RemoveFile, callVars
    <2>6. Visible' \subseteq Visible /\ \A t \in Visible : t # s => t \in Visible'
      BY <2>5 DEF Visible
    <2>7. PICK x \in Visible, g \in 1..MaxGen : IsMax(Visible, x) /\ Whole(dir[x], g)
      BY <2>1 DEF DirOK
    <2>8. x # s
      <3>1. m <= x /\ s < m /\ m \in Int /\ x \in Int /\ s \in Int
        BY <2>1, <2>3, <2>4, <2>7, VisibleInt DEF IsMax
      <3> QED
        BY <3>1
    <2>9. x \in Visible' /\ IsMax(Visible', x) /\ Whole(dir'[x], g)
      BY <2>5, <2>6, <2>7, <2>8 DEF IsMax, Visible
    <2>10. m \in Visible'
      BY <2>4, <2>6
    <2>11. (Fresh' <=> Fresh) /\ \A r \in Ranks : Holds(r)' <=> Holds(r)
      BY <2>5 DEF Fresh, Saving, Holds
    <2> QED
      BY <2>3, <2>5, <2>6, <2>9, <2>10, <2>11 DEF DirOK, IsMax, Whole
  <1>13. CASE OpenScore
    BY <1>0, <1>13, SameVisible DEF OpenScore, DirOK, Holds, Done, Lockstep, Fresh, Saving,
       callVars, fsVars
  <1>14. CASE WriteScore
    BY <1>0, <1>14, SameVisible DEF WriteScore, DirOK, Holds, Done, Lockstep, Fresh, Saving,
       callVars, fsVars
  <1>15. CASE Counted
    <2>1. /\ \A r \in Ranks : pc[r] \in {"yes", "no"}
          /\ \A r \in Ranks : pc'[r] \in {"dead", "commitB", "idle"}
          /\ UNCHANGED <<dir, cur, now, todo, op, gen>>
      BY <1>0, <1>15 DEF Counted, At, callVars, fsVars
    <2>2. \A r \in Ranks : Holds(r)' => Holds(r)
      <3>1. CASE At("yes")
        <4>1. \A r \in Ranks : Holds(r)
          BY <1>0, <3>1 DEF At, Holds, Lockstep
        <4> QED
          BY <4>1
      <3>2. CASE ~At("yes")
        <4>1. job' = job /\ \A r \in Ranks : pc'[r] = "idle"
          BY <1>15, <3>2 DEF Counted
        <4> QED
          BY <4>1 DEF Holds
      <3> QED
        BY <3>1, <3>2
    <2>3. Fresh' <=> Fresh
      BY <2>1 DEF Fresh, Saving
    <2>4. pc'[Root] \notin {"staleB", "rmStale", "rmStaleB"}
      BY <2>1
    <2> QED
      BY ONLY DirOK, <2>1, <2>2, <2>3, <2>4, SameVisible DEF DirOK
  <1>16. CASE Waited
    BY <1>0, <1>16, SameVisible DEF Waited, Collective, At, DirOK, Holds, Done, Lockstep,
       Fresh, Saving, callVars, fsVars
  <1>17. CASE CommitBarrier
    BY <1>0, <1>17, SameVisible DEF CommitBarrier, RootElse, Collective, At, DirOK, Holds,
       Done, Lockstep, Fresh, Saving, callVars, fsVars
  <1>18. CASE MovedBarrier
    BY <1>0, <1>18, SameVisible DEF MovedBarrier, Collective, At, DirOK, Holds, Done,
       Lockstep, Fresh, Saving, callVars, fsVars
  <1>19. CASE StaleBarrier
    <2>1. PICK l \in [Ranks -> {"rmStale", IF Fresh THEN "rmBegin" ELSE "idle"}] :
            pc' = l
      BY <1>19, AfterStaleIs DEF StaleBarrier, Loop, Collective
    <2> QED
      BY <1>0, <1>19, <2>1, SameVisible
         DEF StaleBarrier, Collective, At, DirOK, Holds, Fresh, Saving, callVars, fsVars
  <1>20. CASE RemovedStale
    <2>1. PICK l \in [Ranks -> {"rmStale", IF Fresh THEN "rmBegin" ELSE "idle"}] :
            pc' = l
      BY <1>20, AfterStaleIs DEF RemovedStale, RemovedBarrier, Loop, Collective
    <2>2. pc[Root] = "rmStaleB" /\ todo'[Root] \subseteq todo[Root]
      BY <1>20 DEF RemovedStale, RemovedBarrier, Collective, At, Barrier, Rest
    <2> QED
      BY <1>0, <1>20, <2>1, <2>2, SameVisible
         DEF RemovedStale, RemovedBarrier, DirOK, Holds, Fresh, Saving, callVars, fsVars
  <1>21. CASE RemovedPrevious
    BY <1>0, <1>21, SameVisible DEF RemovedPrevious, RemovedBarrier, Barrier, Collective,
       At, DirOK, Holds, Done, Lockstep, Fresh, Saving, callVars, fsVars
  <1>22. CASE BeginBarrier
    BY <1>0, <1>22, SameVisible DEF BeginBarrier, Collective, At, DirOK, Holds, Done,
       Lockstep, Fresh, Saving, callVars, fsVars
  <1>23. CASE SyncBarrier
    BY <1>0, <1>23, SameVisible DEF SyncBarrier, Collective, At, DirOK, Holds, Done,
       Lockstep, Fresh, Saving, callVars, fsVars
  <1>24. CASE ScoreBarrier
    BY <1>0, <1>24, SameVisible DEF ScoreBarrier, Collective, At, DirOK, Holds, Done,
       Lockstep, Fresh, Saving, callVars, fsVars
  <1>25. ASSUME NEW k \in {"save", "bsave"}, StartSave(k) PROVE DirOK'
    <2>1. now' \in Steps /\ now' > now
      BY <1>25 DEF StartSave
    <2>2. UNCHANGED <<dir, job, cur, todo>>
      BY <1>25 DEF StartSave, fsVars
    <2>3. \A r \in Ranks : pc[r] = "idle" /\ pc'[r] \in {"rmBegin", "wait"} /\ (Holds(r)' => Holds(r))
      BY <1>0, <1>25 DEF StartSave, At, Holds
    <2>4. \A s \in Visible : s < now'
      BY <1>0, <2>1, <2>3, VisibleInt DEF DirOK, Steps
    <2> QED
      <3>1. \A s \in Visible : s <= now' /\ s < now'
        BY <2>1, <2>4, VisibleInt DEF Steps
      <3>2. pc'[Root] \in {"rmBegin", "wait"}
        BY <2>3
      <3> QED
        BY <2>2, <2>3, <3>1, <3>2, SameVisible DEF DirOK
  <1>26. CASE StartPoll \/ StartComplete
    BY <1>0, <1>26, SameVisible DEF StartPoll, StartComplete, At, DirOK, Holds, Done,
       Lockstep, Fresh, Saving, callVars, fsVars
  <1>27. CASE StartScore
    BY <1>0, <1>27, SameVisible DEF StartScore, RootElse, At, DirOK, Holds, Done, Lockstep,
       Fresh, Saving, callVars, fsVars
  <1>28. ASSUME NEW r \in Ranks, WriteFile(r) PROVE DirOK'
    BY <1>0, <1>28, SameVisible DEF WriteFile, DirOK, Holds, Done, Lockstep, Fresh, Saving,
       callVars, fsVars
  <1>29. ASSUME NEW r \in Ranks, WriteFail(r) PROVE DirOK'
    BY <1>0, <1>29, SameVisible DEF WriteFail, DirOK, Holds, Done, Lockstep, Fresh, Saving,
       callVars, fsVars
  <1>30. CASE Crash
    BY <1>0, <1>30, SameVisible DEF Crash, NoSave, DirOK, Holds, Done, Lockstep, Fresh,
       Saving, callVars, fsVars
  <1>31. CASE Restart
    <2>1. UNCHANGED <<dir, job, cur, todo, op, gen>>
      BY <1>31 DEF Restart, fsVars
    <2>2. \A r \in Ranks : pc[r] = "down" /\ pc'[r] \in {"idle", "dead"} /\ ~Holds(r)'
      BY <1>0, <1>31 DEF Restart, At, Lockstep, Holds
    <2>3. ~Fresh'
      BY <2>1, <2>2 DEF CurOK, Fresh, Saving
    <2>4. \A s \in Visible : s <= now'
      <3>1. CASE Visible = {}
        BY <3>1
      <3>2. CASE Visible # {}
        <4>1. PICK m \in Visible, g \in 1..MaxGen : IsMax(Visible, m) /\ Whole(dir[m], g)
          BY <3>2 DEF DirOK
        <4>2. <<"trainer", Root>> \in Files /\ <<"trainer", Root>> \in File
          BY DEF Files, File, Kinds
        <4>3. m \in FullVisible
          BY <4>1, <4>2 DEF Whole, FullVisible, Visible
        <4>4. IsMax(FullVisible, now')
          BY <1>31, <4>3 DEF Restart
        <4> QED
          BY <4>1, <4>3, <4>4, VisibleInt DEF IsMax, FullVisible, Steps
      <3> QED
        BY <3>1, <3>2
    <2> QED
      BY <2>1, <2>2, <2>3, <2>4, SameVisible DEF DirOK
  <1>32. CASE Stopped
    BY <1>0, <1>32, SameVisible DEF Stopped, vars, DirOK, Holds, Done, Lockstep, Fresh,
       Saving, callVars, fsVars
  <1> QED
    BY <1>1, <1>2, <1>3, <1>4, <1>5, <1>6, <1>7, <1>8, <1>9, <1>10,
       <1>11, <1>12, <1>13, <1>14, <1>15, <1>16, <1>17, <1>18, <1>19,
       <1>20, <1>21, <1>22, <1>23, <1>24, <1>25, <1>26, <1>27, <1>28,
       <1>29, <1>30, <1>31, <1>32
    DEF Next, RankStep, RootStep, GangStep, Call

\* All ranks compute the same step numbers to delete.
LEMMA TodoStep ==
    ASSUME Conventional, IInv, Next PROVE TodoOK'
  <1> USE RankAssumption, BoundAssumption
      DEF IInv, Conventional, AllIn, NoJobs, AllJobs, JobsAgree, Goto
  <1>0. /\ pc \in [Ranks -> Label] /\ job \in [Ranks -> {"none", "running", "failed"}]
        /\ todo \in [Ranks -> SUBSET Steps]
        /\ dir \in [Steps -> [File -> 0..MaxGen]]
    BY DEF TypeOK
  <1>1. ASSUME NEW r \in Ranks, Vote(r) PROVE TodoOK'
    BY <1>0, <1>1, SameTree DEF Vote, TodoOK, Lockstep, callVars, fsVars
  <1>2. ASSUME NEW r \in Ranks, Wait(r) PROVE TodoOK'
    BY <1>0, <1>2, SameTree DEF Wait, TodoOK, Lockstep, callVars, fsVars
  <1>3. ASSUME NEW r \in Ranks, WaitOwn(r) PROVE TodoOK'
    BY <1>0, <1>3, SameTree DEF WaitOwn, TodoOK, Lockstep, callVars, fsVars
  <1>4. ASSUME NEW r \in Ranks, ReadStale(r) PROVE TodoOK'
    <2>1. PICK l \in {"dead", "staleB", IF Fresh THEN "rmBegin" ELSE "idle"} :
            /\ pc' = [pc EXCEPT ![r] = l]
            /\ l = "staleB" => PolicySet /\ Visible # {} /\ todo'[r] = Visible \ Retained
            /\ l \in {"idle", "rmBegin"} => ~PolicySet \/ Visible = {}
      BY <1>0, <1>4, AfterStaleIs DEF ReadStale
    <2>2. Visible' = Visible /\ Retained' = Retained /\ pc[r] = "stale"
      BY <1>4, SameTree DEF ReadStale, fsVars
    <2>3. \A q \in Ranks : pc[q] \in {"stale", "staleB", "idle", "rmBegin", "rmBeginB", "dead"}
      BY <2>2 DEF Lockstep
    <2>4. \A q \in Ranks : q # r => pc'[q] = pc[q] /\ todo'[q] = todo[q]
      BY <1>0, <1>4, <2>1 DEF ReadStale
    <2>5. pc'[r] = l
      BY <1>0, <2>1
    <2>6. \A q \in Ranks : pc'[q] \notin {"rmStale", "rmStaleB"}
      BY <2>1, <2>3, <2>4, <2>5
    <2>7. \A q, u \in Ranks :
            pc'[q] \in {"stale", "staleB"} /\ pc'[u] \in {"idle", "rmBegin", "rmBeginB"}
               => ~PolicySet \/ Visible = {}
      BY <2>1, <2>2, <2>4, <2>5 DEF TodoOK
    <2>8. \A q \in Ranks : pc'[q] = "staleB" =>
            PolicySet /\ Visible # {} /\ todo'[q] = Visible \ Retained
      BY <2>1, <2>4, <2>5 DEF TodoOK
    <2> QED
      BY <2>2, <2>6, <2>7, <2>8 DEF TodoOK, PolicySet
  <1>5. ASSUME NEW r \in Ranks, ReadPrevious(r) PROVE TodoOK'
    BY <1>0, <1>5, SameTree DEF ReadPrevious, TodoOK, Lockstep, callVars, fsVars
  <1>6. ASSUME NEW r \in Ranks, SkipRemove(r) PROVE TodoOK'
    BY <1>0, <1>6, SameTree DEF SkipRemove, Removing, Barrier, TodoOK, Lockstep, callVars,
       fsVars
  <1>7. ASSUME NEW r \in Ranks, MakeDirs(r) PROVE TodoOK'
    BY <1>0, <1>7, SameTree DEF MakeDirs, TodoOK, Lockstep, callVars, fsVars
  <1>8. ASSUME NEW r \in Ranks, Queue(r) PROVE TodoOK'
    BY <1>0, <1>8, SameTree DEF Queue, TodoOK, Lockstep, callVars, fsVars
  <1>9. CASE Move
    BY <1>0, <1>9, SameTree DEF Move, TodoOK, Lockstep, callVars, fsVars
  <1>10. ASSUME NEW s \in Steps, RemoveTmp(s) PROVE TodoOK'
    BY <1>0, <1>10, SameTree DEF RemoveTmp, TodoOK, Lockstep, callVars, fsVars
  <1>11. ASSUME NEW s \in Steps, RemoveScore(s) PROVE TodoOK'
    <2>1. dir' = dir /\ todo' = todo /\ Visible' = Visible
      BY <1>11, SameVisible DEF RemoveScore
    <2>2. pc' = [pc EXCEPT ![Root] = Barrier(pc[Root])]
      BY <1>11 DEF RemoveScore
    <2>3. CASE pc[Root] = "rmStale"
      BY <1>0, <2>1, <2>2, <2>3 DEF Barrier, TodoOK, Lockstep
    <2>4. CASE pc[Root] = "rmBegin"
      <3>1. pc'[Root] = "rmBeginB" /\ \A q \in Ranks : q # Root => pc'[q] = pc[q]
        BY <1>0, <2>2, <2>4 DEF Barrier
      <3>2. \A q \in Ranks : pc[q] \in {"stale", "staleB", "rmBegin", "rmBeginB", "dead"}
        BY <2>4 DEF Lockstep
      <3>3. \A q \in Ranks : pc[q] # "staleB"
        BY <2>4 DEF TodoOK
      <3>4. \A q \in Ranks : pc[q] = "stale" => ~PolicySet \/ Visible = {}
        BY <2>4 DEF TodoOK
      <3> QED
        BY <2>1, <3>1, <3>2, <3>3, <3>4 DEF TodoOK, PolicySet
    <2> QED
      BY <1>0, <1>11, <2>3, <2>4 DEF RemoveScore, Removing, Lockstep
  <1>12. ASSUME NEW s \in Steps, NEW f \in File, RemoveFile(s, f) PROVE TodoOK'
    <2>1. pc[Root] \in {"rmBegin", "rmStale"} /\ s \in Visible
      BY <1>0, <1>12 DEF RemoveFile, Removing, Doomed, Visible, Lockstep
    <2>2. pc[Root] # "rmBegin"
      <3>1. pc[Root] = "rmBegin" => s = now /\ Fresh
        BY <1>12 DEF RemoveFile, IsTarget, Lockstep
      <3>2. \A t \in Visible : t \in Int
        BY VisibleInt
      <3> QED
        BY <1>0, <2>1, <3>1, <3>2 DEF DirOK
    <2>3. \A q \in Ranks : pc[q] \in {"rmStale", "rmStaleB"}
      BY <2>1, <2>2 DEF Lockstep
    <2> QED
      BY <1>12, <2>3 DEF RemoveFile, TodoOK
  <1>13. CASE OpenScore
    BY <1>0, <1>13, SameTree DEF OpenScore, TodoOK, Lockstep, callVars, fsVars
  <1>14. CASE WriteScore
    BY <1>0, <1>14, SameTree DEF WriteScore, TodoOK, Lockstep, callVars, fsVars
  <1>15. CASE Counted
    BY <1>0, <1>15, SameTree DEF Counted, At, TodoOK, Lockstep, callVars, fsVars
  <1>16. CASE Waited
    BY <1>0, <1>16, SameTree DEF Waited, Collective, At, TodoOK, Lockstep, callVars, fsVars
  <1>17. CASE CommitBarrier
    BY <1>0, <1>17, SameTree DEF CommitBarrier, RootElse, Collective, At, TodoOK, Lockstep,
       callVars, fsVars
  <1>18. CASE MovedBarrier
    BY <1>0, <1>18, SameTree DEF MovedBarrier, Collective, At, TodoOK, Lockstep, callVars,
       fsVars
  <1>19. CASE StaleBarrier
    <2>1. \A r \in Ranks : pc[r] = "staleB" /\ todo[r] = todo[Root]
      BY <1>19 DEF StaleBarrier, Collective, At, TodoOK
    <2>2. \A r \in Ranks : \/ pc'[r] = "rmStale" /\ todo[r] # {}
                           \/ pc'[r] \in {"idle", "rmBegin"}
      BY <1>19, AfterStaleIs DEF StaleBarrier, Loop, Collective
    <2> QED
      BY <1>19, <2>1, <2>2 DEF StaleBarrier, TodoOK
  <1>20. CASE RemovedStale
    <2>1. \A r \in Ranks : pc[r] = "rmStaleB" /\ todo[r] = todo[Root]
      BY <1>20 DEF RemovedStale, RemovedBarrier, Barrier, Collective, At, TodoOK
    <2>2. \A r \in Ranks : todo'[r] = todo'[Root]
      BY <1>20, <2>1 DEF RemovedStale, RemovedBarrier, Rest, IsMin
    <2>3. \A r \in Ranks : \/ pc'[r] = "rmStale" /\ todo'[r] # {}
                           \/ pc'[r] \in {"idle", "rmBegin"}
      BY <1>20, AfterStaleIs DEF RemovedStale, RemovedBarrier, Loop, Collective
    <2> QED
      BY <2>2, <2>3 DEF TodoOK
  <1>21. CASE RemovedPrevious
    BY <1>0, <1>21, SameTree DEF RemovedPrevious, RemovedBarrier, Barrier, Collective, At,
       TodoOK, Lockstep, callVars, fsVars
  <1>22. CASE BeginBarrier
    BY <1>0, <1>22, SameTree DEF BeginBarrier, Collective, At, TodoOK, Lockstep, callVars,
       fsVars
  <1>23. CASE SyncBarrier
    BY <1>0, <1>23, SameTree DEF SyncBarrier, Collective, At, TodoOK, Lockstep, callVars,
       fsVars
  <1>24. CASE ScoreBarrier
    BY <1>0, <1>24, SameTree DEF ScoreBarrier, Collective, At, TodoOK, Lockstep, callVars,
       fsVars
  <1>25. ASSUME NEW k \in {"save", "bsave"}, StartSave(k) PROVE TodoOK'
    BY <1>0, <1>25, SameTree DEF StartSave, At, TodoOK, Lockstep, callVars, fsVars
  <1>26. CASE StartPoll \/ StartComplete
    BY <1>0, <1>26, SameTree DEF StartPoll, StartComplete, At, TodoOK, Lockstep, callVars,
       fsVars
  <1>27. CASE StartScore
    BY <1>0, <1>27, SameTree DEF StartScore, RootElse, At, TodoOK, Lockstep, callVars, fsVars
  <1>28. ASSUME NEW r \in Ranks, WriteFile(r) PROVE TodoOK'
    BY <1>0, <1>28, SameTree DEF WriteFile, TodoOK, Lockstep, callVars, fsVars
  <1>29. ASSUME NEW r \in Ranks, WriteFail(r) PROVE TodoOK'
    BY <1>0, <1>29, SameTree DEF WriteFail, TodoOK, Lockstep, callVars, fsVars
  <1>30. CASE Crash
    BY <1>0, <1>30, SameTree DEF Crash, NoSave, TodoOK, Lockstep, callVars, fsVars
  <1>31. CASE Restart
    BY <1>0, <1>31, SameTree DEF Restart, At, TodoOK, Lockstep, callVars, fsVars
  <1>32. CASE Stopped
    BY <1>0, <1>32, SameTree DEF Stopped, vars, TodoOK, Lockstep, callVars, fsVars
  <1> QED
    BY <1>1, <1>2, <1>3, <1>4, <1>5, <1>6, <1>7, <1>8, <1>9, <1>10,
       <1>11, <1>12, <1>13, <1>14, <1>15, <1>16, <1>17, <1>18, <1>19,
       <1>20, <1>21, <1>22, <1>23, <1>24, <1>25, <1>26, <1>27, <1>28,
       <1>29, <1>30, <1>31, <1>32
    DEF Next, RankStep, RootStep, GangStep, Call

LEMMA IStep ==
    ASSUME Conventional, IInv, [Next]_vars PROVE IInv'
  <1>1. TypeOK'
    BY TypeStep DEF IInv
  <1>2. CASE Next
    BY <1>1, <1>2, LockstepStep, CurStep, TmpStep, DirStep, TodoStep DEF IInv
  <1>3. CASE UNCHANGED vars
    <2> USE <1>3 DEF vars, IInv
    <2>1. Visible' = Visible /\ Retained' = Retained
      BY SameTree
    <2>2. \A r \in Ranks : (Holds(r)' <=> Holds(r)) /\ (Done(r)' <=> Done(r))
      BY DEF Holds, Done
    <2>3. Fresh' <=> Fresh
      BY DEF Fresh, Saving
    <2>4. Lockstep'
      BY <2>3 DEF Lockstep, AllIn, NoJobs, AllJobs, JobsAgree, Saving
    <2>5. CurOK' /\ TodoOK'
      BY <2>1, <2>2, <2>3 DEF CurOK, TodoOK, PolicySet
    <2>6. TmpOK'
      BY <2>2 DEF TmpOK, Whole
    <2>7. DirOK'
      BY <2>1, <2>2, <2>3 DEF DirOK, IsMax, Whole
    <2> QED
      BY <1>1, <2>4, <2>5, <2>6, <2>7
  <1> QED
    BY <1>2, <1>3

THEOREM Inductive == ASSUME Conventional PROVE Spec => []IInv
  BY IInit, IStep, PTL DEF Spec

\* A restart finds a whole checkpoint of a single save call, or none, at
\* whatever moment the job is killed, for every gang, sharding and retention
\* policy.
THEOREM RestoreIsSound == ASSUME Conventional PROVE Spec => []RestoreSound
  <1>1. ASSUME IInv PROVE RestoreSound
    <2>1. SUFFICES ASSUME NEW n \in FullVisible, IsMax(FullVisible, n)
                   PROVE  \E g \in 1..MaxGen : Whole(dir[n], g)
      BY DEF RestoreSound
    <2>2. n \in Visible
      BY RankAssumption DEF FullVisible, Visible, File
    <2>3. PICK m \in Visible, g \in 1..MaxGen : IsMax(Visible, m) /\ Whole(dir[m], g)
      BY <1>1, <2>2 DEF IInv, DirOK
    <2>4. <<"trainer", Root>> \in Files /\ <<"trainer", Root>> \in File
      BY RankAssumption DEF Conventional, Files, File, Kinds
    <2>5. m \in FullVisible
      BY <2>3, <2>4, RankAssumption DEF Whole, FullVisible, Visible
    <2>6. m = n
      BY <2>1, <2>2, <2>3, <2>5, VisibleInt DEF IsMax
    <2> QED
      BY <2>3, <2>6
  <1> QED
    BY <1>1, Inductive, PTL

\* No step of any rank takes away or alters the checkpoint that a restart would
\* resume from; only a later one replaces it.
THEOREM LastIsNeverLost == ASSUME Conventional PROVE Spec => LastNeverLost
  <1> DEFINE Keep == \A m \in FullVisible : IsMax(FullVisible, m) => dir'[m] = dir[m]
  <1>1. ASSUME IInv, Next PROVE Keep
    <2> SUFFICES ASSUME NEW n \in FullVisible, IsMax(FullVisible, n)
                 PROVE  dir'[n] = dir[n]
      OBVIOUS
    <2> USE <1>1, RankAssumption, BoundAssumption DEF IInv
    <2>0. n \in Visible /\ n \in Steps /\ dir \in [Steps -> [File -> 0..MaxGen]]
      BY DEF FullVisible, Visible, File, TypeOK
    <2>1. IsMax(Visible, n)
      <3>1. PICK m \in Visible, g \in 1..MaxGen : IsMax(Visible, m) /\ Whole(dir[m], g)
        BY <2>0 DEF DirOK
      <3>2. <<"trainer", Root>> \in Files /\ <<"trainer", Root>> \in File
        BY DEF Conventional, Files, File, Kinds
      <3>3. m \in FullVisible
        BY <3>1, <3>2 DEF Whole, FullVisible, Visible
      <3> QED
        BY <2>0, <3>1, <3>3, VisibleInt DEF IsMax
    <2>2. CASE Move
      <3>1. n < cur.step /\ n \in Int /\ cur.step \in Int
        BY <2>0, <2>2, VisibleInt DEF Move, Holds, DirOK, TypeOK
      <3> QED
        BY <2>0, <2>2, <3>1 DEF Move
    <2>3. ASSUME NEW s \in Steps, NEW f \in File, RemoveFile(s, f) PROVE dir'[n] = dir[n]
      <3>1. pc[Root] \in {"rmBegin", "rmStale"} /\ s \in Visible
        BY <2>3 DEF RemoveFile, Removing, Doomed, Visible, Lockstep, AllIn, Conventional
      <3>2. pc[Root] # "rmBegin"
        <4>1. pc[Root] = "rmBegin" => s = now /\ Fresh
          BY <2>3 DEF RemoveFile, IsTarget, Lockstep, AllIn
        <4>2. now \in Int /\ s \in Int
          BY <3>1, VisibleInt DEF TypeOK
        <4> QED
          BY <3>1, <4>1, <4>2 DEF DirOK
      <3>3. PICK m \in Visible : \A t \in todo[Root] : t < m
        BY <3>1, <3>2 DEF DirOK
      <3>4. s < m /\ m <= n /\ s \in Int /\ m \in Int /\ n \in Int
        BY <2>0, <2>1, <2>3, <3>1, <3>2, <3>3, VisibleInt
           DEF RemoveFile, IsTarget, IsMin, IsMax
      <3> QED
        BY <2>0, <2>3, <3>4 DEF RemoveFile
    <2>4. CASE dir' = dir
      BY <2>4
    <2> QED
      BY <2>2, <2>3, <2>4
      DEF Next, RankStep, RootStep, GangStep, Call, Vote, Wait, WaitOwn, ReadStale,
          ReadPrevious, SkipRemove, MakeDirs, Queue, RemoveTmp, RemoveScore,
          OpenScore, WriteScore, Counted, Waited, CommitBarrier, MovedBarrier,
          StaleBarrier, RemovedStale, RemovedPrevious, RemovedBarrier,
          BeginBarrier, SyncBarrier, ScoreBarrier, StartSave, StartPoll,
          StartComplete, StartScore, WriteFile, WriteFail, Crash, Restart,
          Stopped, vars, fsVars
  <1>2. ASSUME IInv, [Next]_vars PROVE [Keep]_vars
    BY <1>1, <1>2
  <1> QED
    BY <1>2, Inductive, PTL DEF Spec, LastNeverLost

\* Every rank makes the same collectives in the same order, so none of them can
\* be paired with another one or wait for a rank that went on without it.
THEOREM CollectivesAlign == ASSUME Conventional PROVE Spec => []CollectivesAligned
  <1>1. ASSUME IInv PROVE CollectivesAligned
    <2> SUFFICES ASSUME NEW r \in Ranks, NEW q \in Ranks, pc[r] \in CollectivePc,
                        pc[q] \in CollectivePc \cup {"idle"}
                 PROVE  SameSite(pc[r], pc[q])
      BY DEF CollectivesAligned
    <2>1. pc[r] = "staleB" => pc[q] \notin {"idle", "rmBeginB"}
      BY <1>1 DEF IInv, TodoOK
    <2>2. pc[q] = "staleB" => pc[r] # "rmBeginB"
      BY <1>1 DEF IInv, TodoOK
    <2>3. pc[r] = pc[q] \/ (pc[r] \in {"yes", "no"} /\ pc[q] \in {"yes", "no"})
      BY <1>1, <2>1, <2>2 DEF IInv, Lockstep, AllIn, CollectivePc
    <2> QED
      BY <2>3 DEF SameSite
  <1> QED
    BY <1>1, Inductive, PTL

-----------------------------------------------------------------------------
(***************************************************************************)
(* A score stays with the checkpoint it was measured on, pruning takes     *)
(* what the retention policy gives up and nothing else, and the directory  *)
(* tree implements CheckpointStore.                                        *)
(*                                                                         *)
(* These rest on the invariant so far and on three parts more: the         *)
(* generations of the files (GenOK), the score files (ScoreOK) and the     *)
(* progress of a pruning (PruneOK).                                        *)
(***************************************************************************)
-----------------------------------------------------------------------------
(***************************************************************************)
(* Finite sets.                                                            *)
(***************************************************************************)
\* A set of natural numbers that is not empty has a least element.
LEMMA LeastNatural ==
    ASSUME NEW T \in SUBSET Nat, T # {}
    PROVE  \E n \in T : \A m \in T : n <= m
  <1> DEFINE R == OpToRel(<, Nat)
  <1>1. IsWellFoundedOn(R, Nat)
    BY NatLessThanWellFounded
  <1>2. PICK n \in T : \A m \in T : ~(<<m, n>> \in R)
    BY <1>1, WFMin
  <1>3. \A m \in T : ~(m < n)
    BY <1>2 DEF OpToRel
  <1> QED
    BY <1>3

\* A part of a finite set is finite and no larger.
LEMMA SmallerSet ==
    ASSUME NEW S, IsFiniteSet(S), NEW T, T \subseteq S
    PROVE  IsFiniteSet(T) /\ Cardinality(T) \in Nat /\ Cardinality(S) \in Nat
           /\ Cardinality(T) <= Cardinality(S)
  BY FS_Subset, FS_CardinalityType

LEMMA StrictlySmallerSet ==
    ASSUME NEW S, IsFiniteSet(S), NEW T, T \subseteq S, NEW x \in S, x \notin T
    PROVE  Cardinality(T) < Cardinality(S)
  <1>1. Cardinality(T) # Cardinality(S)
    BY FS_Subset
  <1> QED
    BY <1>1, SmallerSet

\* In a finite set under a total order, up[x] being what is above x: an element with K
\* others above it has K of the K topmost ones above it.
LEMMA TopElements ==
    ASSUME NEW S, IsFiniteSet(S), NEW up \in [S -> SUBSET S], NEW K \in Nat, NEW s \in S,
           \A x, y \in S : x = y \/ x \in up[y] \/ y \in up[x],
           \A x \in S : x \notin up[x] /\ \A y \in up[x] : up[y] \subseteq up[x],
           Cardinality(up[s]) >= K,
           NEW Top, IsFiniteSet(Top),
           \A t \in up[s] : Cardinality(up[t]) < K => t \in Top
    PROVE  Cardinality(Top) >= K
  <1> DEFINE Low   == {x \in S : Cardinality(up[x]) >= K}
             Sizes == {Cardinality(up[x]) : x \in Low}
  <1>1. \A x \in S : up[x] \subseteq S /\ IsFiniteSet(up[x]) /\ Cardinality(up[x]) \in Nat
    BY FS_Subset, FS_CardinalityType
  <1>2. Sizes \in SUBSET Nat /\ Sizes # {}
    BY <1>1
  <1>3. PICK n \in Sizes : \A m \in Sizes : n <= m
    BY <1>2, LeastNatural
  <1>4. PICK x \in Low : n = Cardinality(up[x])
    OBVIOUS
  <1>5. \A y \in Low : Cardinality(up[x]) <= Cardinality(up[y])
    BY <1>3, <1>4
  <1>6. ASSUME NEW u \in S, NEW v \in S, u \in up[v]
        PROVE  Cardinality(up[u]) < Cardinality(up[v])
    BY <1>1, <1>6, StrictlySmallerSet
  <1>7. x = s \/ x \in up[s]
    <2>1. s \in Low /\ x \in S
      OBVIOUS
    <2>2. s \in up[x] => Cardinality(up[s]) < Cardinality(up[x])
      BY <1>6, <2>1
    <2>3. s \notin up[x]
      BY <1>1, <1>5, <2>1, <2>2
    <2> QED
      BY <2>1, <2>3
  <1>8. up[x] \subseteq Top
    <2> SUFFICES ASSUME NEW u \in up[x] PROVE u \in Top
      OBVIOUS
    <2>1. u \in S /\ x \in S /\ Cardinality(up[u]) < Cardinality(up[x])
      BY <1>1, <1>6
    <2>2. Cardinality(up[u]) < K
      BY <1>1, <1>5, <2>1
    <2>3. u \in up[s]
      BY <1>7, <2>1
    <2> QED
      BY <2>2, <2>3
  <1>9. Cardinality(up[x]) <= Cardinality(Top) /\ Cardinality(Top) \in Nat
    BY <1>8, SmallerSet
  <1> QED
    BY <1>1, <1>9

-----------------------------------------------------------------------------
(***************************************************************************)
(* The invariant.                                                          *)
(***************************************************************************)
\* Every file on disk is of an earlier save call than the one in progress, and those
\* of the last checkpoint are the newest.
GenOK ==
    /\ \A s \in Steps, f \in File : dir[s][f] <= gen /\ (Fresh => dir[s][f] < gen)
    /\ \A r \in Ranks : Holds(r) => \A s \in Steps, f \in File : dir[s][f] < cur.gen
    /\ \A m \in Visible : IsMax(Visible, m) =>
         \A s \in Steps, f \in File : dir[s][f] <= dir[m][<<"trainer", Root>>]
    /\ cur.gen # 0 => \A f \in File : dir[cur.step][f] \in {0, cur.gen}
    /\ \A s \in Steps, f \in File \ Files : dir[s][f] = 0

\* A score file is of the save whose files are beside it, or will be.
ScoreOK ==
    /\ \A s \in Steps :
         score[s] # NoScore => \A f \in File : dir[s][f] \in {0, score[s].gen}
    /\ \A r \in Ranks : Holds(r) =>
         score[cur.step] = NoScore \/ score[cur.step].gen = cur.gen
    /\ pc[Root] = "rmBeginB" => score[now] = NoScore
    /\ pc[Root] \in {"score", "scoreW"} => cur.gen = gen /\ cur.step = now /\ gen # 0

\* What is left once the list of rank 0 is worked off.
Kept == Visible \ todo[Root]

\* A listed step is beaten by enough of those that are kept.
Stale(s) ==
    /\ ~IsMax(Visible, s)
    /\ KeepLast # 0 => Cardinality({t \in Kept : t > s}) >= KeepLast
    /\ KeepBest # 0 /\ s \in Scored =>
         Cardinality({t \in Kept \cap Scored : Better(t, s)}) >= KeepBest
    /\ KeepEvery # 0 => s % KeepEvery # 0

Deleting == pc[Root] \in {"rmStale", "rmStaleB"}

PruneOK ==
    /\ pc[Root] = "idle" /\ job[Root] = "none" /\ cur.gen # 0 /\ PolicySet
          => Visible \subseteq Retained
    /\ pc[Root] \in {"score", "scoreW", "scoreB"} /\ job[Root] = "none" /\ KeepBest = 0
          /\ PolicySet => Visible \subseteq Retained
    /\ Deleting => Kept \subseteq Retained /\ \A s \in Visible \cap todo[Root] : Stale(s)
    /\ pc[Root] = "rmStaleB" => \A s \in Visible : ~IsMin(todo[Root], s)
    /\ pc[Root] = "down" => cur.gen = 0

-----------------------------------------------------------------------------
\* A step that leaves the saves, the checkpoints and the scores alone.
Quiet ==
    /\ UNCHANGED <<dir, score, gen, cur, now>>
    /\ \A r \in Ranks : Holds(r)' => Holds(r)
    /\ Fresh' => Fresh
    /\ pc'[Root] \in {"rmBeginB", "score", "scoreW"} => pc[Root] = pc'[Root]

\* Only these steps are not quiet.
LEMMA QuietStep ==
    ASSUME Conventional, IInv, Next
    PROVE  \/ Quiet
           \/ Move \/ OpenScore \/ WriteScore
           \/ \E s \in Steps : RemoveScore(s)
           \/ \E s \in Steps, f \in File : RemoveFile(s, f)
           \/ BeginBarrier
           \/ \E k \in {"save", "bsave"} : StartSave(k)
           \/ StartScore \/ Crash \/ Restart
  <1> USE RankAssumption, BoundAssumption
      DEF IInv, Conventional, AllIn, NoJobs, AllJobs, JobsAgree, Goto, Quiet
  <1>0. pc \in [Ranks -> Label] /\ job \in [Ranks -> {"none", "running", "failed"}]
    BY DEF TypeOK
  <1>1. ASSUME NEW r \in Ranks, Vote(r) \/ Wait(r) \/ WaitOwn(r) PROVE Quiet
    BY <1>0, <1>1 DEF Vote, Wait, WaitOwn, Holds, Fresh, Saving, callVars, fsVars
  <1>2. ASSUME NEW r \in Ranks, ReadStale(r) PROVE Quiet
    <2>1. PICK l \in {"dead", "staleB", IF Fresh THEN "rmBegin" ELSE "idle"} :
            pc' = [pc EXCEPT ![r] = l]
      BY <1>2, AfterStaleIs DEF ReadStale
    <2> QED
      BY <1>0, <1>2, <2>1 DEF ReadStale, Holds, Fresh, Saving, callVars, fsVars
  <1>3. ASSUME NEW r \in Ranks, ReadPrevious(r) PROVE Quiet
    BY <1>0, <1>3 DEF ReadPrevious, Lockstep
  <1>4. ASSUME NEW r \in Ranks, SkipRemove(r) PROVE Quiet
    BY <1>0, <1>4 DEF SkipRemove, Removing, Barrier, Holds, Fresh, Saving, callVars, fsVars
  <1>5. ASSUME NEW r \in Ranks, MakeDirs(r) \/ Queue(r) PROVE Quiet
    BY <1>0, <1>5 DEF MakeDirs, Queue, Holds, Fresh, Saving, callVars, fsVars
  <1>6. ASSUME NEW s \in Steps, RemoveTmp(s) PROVE Quiet
    BY <1>6 DEF RemoveTmp, Holds, Fresh, Saving, callVars
  <1>7. CASE Counted
    BY <1>0, <1>7 DEF Counted, At, Holds, TmpOK, Done, Fresh, Saving, callVars, fsVars
  <1>8. CASE Waited
    BY <1>0, <1>8 DEF Waited, Collective, At, TmpOK, Holds, Fresh, Saving, callVars, fsVars
  <1>9. CASE CommitBarrier
    BY <1>0, <1>9 DEF CommitBarrier, RootElse, Collective, At, Holds, Fresh, Saving,
       callVars, fsVars
  <1>10. CASE MovedBarrier \/ SyncBarrier \/ ScoreBarrier
    BY <1>0, <1>10 DEF MovedBarrier, SyncBarrier, ScoreBarrier, Collective, At, Holds, Fresh,
       Saving, callVars, fsVars
  <1>11. CASE StaleBarrier
    <2>1. PICK l \in [Ranks -> {"rmStale", IF Fresh THEN "rmBegin" ELSE "idle"}] :
            pc' = l
      BY <1>11, AfterStaleIs DEF StaleBarrier, Loop, Collective
    <2> QED
      BY <1>0, <1>11, <2>1 DEF StaleBarrier, Holds, Fresh, Saving, callVars, fsVars
  <1>12. CASE RemovedStale
    <2>1. PICK l \in [Ranks -> {"rmStale", IF Fresh THEN "rmBegin" ELSE "idle"}] :
            pc' = l
      BY <1>12, AfterStaleIs DEF RemovedStale, RemovedBarrier, Loop, Collective
    <2> QED
      BY <1>0, <1>12, <2>1
         DEF RemovedStale, RemovedBarrier, Holds, Fresh, Saving, callVars, fsVars
  <1>13. CASE RemovedPrevious
    BY <1>0, <1>13 DEF RemovedPrevious, RemovedBarrier, Barrier, Collective, At, Lockstep
  <1>14. CASE StartPoll \/ StartComplete
    BY <1>0, <1>14 DEF StartPoll, StartComplete, At, Holds, Fresh, Saving, callVars, fsVars
  <1>15. ASSUME NEW r \in Ranks, WriteFile(r) \/ WriteFail(r) PROVE Quiet
    BY <1>0, <1>15 DEF WriteFile, WriteFail, Holds, Fresh, Saving, callVars, fsVars
  <1>16. CASE Stopped
    BY <1>16 DEF Stopped, vars, Holds, Fresh, Saving
  <1> QED
    BY <1>1, <1>2, <1>3, <1>4, <1>5, <1>6, <1>7, <1>8, <1>9, <1>10, <1>11, <1>12, <1>13,
       <1>14, <1>15, <1>16
    DEF Next, RankStep, RootStep, GangStep, Call

LEMMA RootTrainer ==
    ASSUME Mode = "none"
    PROVE  <<"trainer", Root>> \in Files /\ <<"trainer", Root>> \in File
  BY RankAssumption DEF Files, File, Kinds

\* Renaming step_N.tmp: what was written becomes the newest checkpoint.
LEMMA MoveIs ==
    ASSUME Conventional, IInv, Move
    PROVE  /\ cur.step \in Steps /\ cur.gen \in 1..MaxGen /\ cur.gen <= gen
           /\ Whole(dir'[cur.step], cur.gen)
           /\ \A s \in Steps : s # cur.step => dir'[s] = dir[s]
           /\ \A s \in Visible : s < cur.step
           /\ cur.step \in Visible'
           /\ Visible' = Visible \cup {cur.step}
           /\ UNCHANGED <<score, gen, cur, now, op, todo, job>>
           /\ \A r \in Ranks : ~Holds(r)' /\ pc'[r] = "movedB"
           /\ Holds(Root)
  <1> USE RankAssumption DEF IInv, Conventional
  <1>0. /\ pc \in [Ranks -> Label] /\ dir \in [Steps -> [File -> 0..MaxGen]]
        /\ cur \in [step : 0..MaxStep, gen : 0..MaxGen] /\ gen \in 0..MaxGen
    BY DEF TypeOK
  <1>1. Holds(Root) /\ Whole(tmp[cur.step], cur.gen)
    BY DEF Move, Holds, TmpOK
  <1>2. cur.step \in Steps /\ cur.gen \in 1..MaxGen /\ cur.gen <= gen
    BY <1>0, <1>1, BoundAssumption DEF CurOK
  <1>3. /\ \A s \in Steps : dir'[s] = IF s = cur.step THEN tmp[cur.step] ELSE dir[s]
        /\ UNCHANGED <<score, gen, cur, now, op, todo, job>>
    BY <1>0 DEF Move, callVars
  <1>4. Whole(dir'[cur.step], cur.gen)
    BY <1>1, <1>2, <1>3
  <1>5. cur.step \in Visible'
    BY <1>2, <1>4, RootTrainer DEF Visible, Whole
  <1>6. Visible' = Visible \cup {cur.step}
    BY <1>3, <1>5 DEF Visible
  <1>7. \A r \in Ranks : ~Holds(r)' /\ pc'[r] = "movedB"
    BY <1>0 DEF Move, Lockstep, Holds, AllIn, NoJobs, Goto
  <1> QED
    BY <1>1, <1>2, <1>3, <1>4, <1>5, <1>6, <1>7 DEF DirOK

\* Deleting a file: the checkpoint is one of the list, and not the last.
LEMMA RemoveFileIs ==
    ASSUME Conventional, IInv, NEW s \in Steps, NEW f \in File, RemoveFile(s, f)
    PROVE  /\ pc[Root] = "rmStale" /\ s \in Visible /\ IsMin(todo[Root], s)
           /\ ~IsMax(Visible, s)
           /\ \A t \in Steps : t # s => dir'[t] = dir[t]
           /\ \A h \in File : dir'[s][h] = IF h = f THEN 0 ELSE dir[s][h]
           /\ Visible' \subseteq Visible /\ Visible \subseteq Visible' \cup {s}
           /\ UNCHANGED <<score, gen, cur, now, op, pc, todo, job>>
           /\ \A r \in Ranks : Holds(r)' <=> Holds(r)
  <1> USE RankAssumption DEF IInv, Conventional
  <1>0. dir \in [Steps -> [File -> 0..MaxGen]] /\ now \in Int
    BY DEF TypeOK
  <1>1. pc[Root] \in {"rmBegin", "rmStale"} /\ s \in Visible
    BY DEF RemoveFile, Removing, Doomed, Visible, Lockstep, AllIn
  <1>2. pc[Root] = "rmStale"
    <2>1. pc[Root] = "rmBegin" => s = now /\ Fresh
      BY DEF RemoveFile, IsTarget, Lockstep, AllIn
    <2> QED
      BY <1>0, <1>1, <2>1 DEF DirOK
  <1>3. IsMin(todo[Root], s)
    BY <1>2 DEF RemoveFile, IsTarget
  <1>4. PICK m \in Visible : \A t \in todo[Root] : t < m
    BY <1>2 DEF DirOK
  <1>5. ~IsMax(Visible, s)
    <2>1. s < m /\ s \in Int /\ m \in Int
      BY <1>1, <1>3, <1>4, VisibleInt DEF IsMin
    <2> QED
      BY <1>4, <2>1 DEF IsMax
  <1>6. /\ \A t \in Steps : t # s => dir'[t] = dir[t]
        /\ \A h \in File : dir'[s][h] = IF h = f THEN 0 ELSE dir[s][h]
        /\ UNCHANGED <<score, gen, cur, now, op, pc, todo, job>>
    BY <1>0 DEF RemoveFile, callVars
  <1>7. Visible' \subseteq Visible /\ Visible \subseteq Visible' \cup {s}
    BY <1>6 DEF Visible
  <1>8. \A r \in Ranks : Holds(r)' <=> Holds(r)
    BY <1>6 DEF Holds
  <1> QED
    BY <1>1, <1>2, <1>3, <1>5, <1>6, <1>7, <1>8

\* A score goes when its directory has gone.
LEMMA RemoveScoreIs ==
    ASSUME Conventional, IInv, NEW s \in Steps, RemoveScore(s)
    PROVE  /\ s \notin Visible /\ score' = [score EXCEPT ![s] = NoScore]
           /\ \/ pc[Root] = "rmStale" /\ pc'[Root] = "rmStaleB" /\ IsMin(todo[Root], s)
              \/ pc[Root] = "rmBegin" /\ pc'[Root] = "rmBeginB" /\ s = now
           /\ UNCHANGED <<dir, gen, cur, now, op, todo, job>>
           /\ \A r \in Ranks : Holds(r)' <=> Holds(r)
  <1> USE RankAssumption DEF IInv, Conventional
  <1>0. pc \in [Ranks -> Label]
    BY DEF TypeOK
  <1>1. pc[Root] \in {"rmBegin", "rmStale"}
    BY DEF RemoveScore, Removing, Lockstep, AllIn
  <1>2. s \notin Visible
    BY <1>1 DEF RemoveScore, Doomed, Visible
  <1>3. \A r \in Ranks : Holds(r)' <=> Holds(r)
    BY <1>0, <1>1 DEF RemoveScore, Holds, Goto, Barrier
  <1> QED
    BY <1>0, <1>1, <1>2, <1>3 DEF RemoveScore, IsTarget, Goto, Barrier, callVars

-----------------------------------------------------------------------------
(***************************************************************************)
(* The generations on disk.                                                *)
(***************************************************************************)
LEMMA GenStep ==
    ASSUME Conventional, IInv, GenOK, Next PROVE GenOK'
  <1> USE RankAssumption, BoundAssumption, RootTrainer DEF IInv, Conventional
  <1>0. /\ pc \in [Ranks -> Label] /\ dir \in [Steps -> [File -> 0..MaxGen]]
        /\ cur \in [step : 0..MaxStep, gen : 0..MaxGen] /\ gen \in 0..MaxGen
        /\ now \in 0..MaxStep
    BY DEF TypeOK
  <1>1. CASE Quiet
    <2>1. Visible' = Visible
      BY <1>1, SameVisible DEF Quiet
    <2> QED
      BY <1>1, <2>1 DEF Quiet, GenOK, IsMax
  <1>2. CASE Move
    <2>1. /\ cur.step \in Steps /\ cur.gen \in 1..MaxGen /\ cur.gen <= gen
          /\ Whole(dir'[cur.step], cur.gen)
          /\ \A s \in Steps : s # cur.step => dir'[s] = dir[s]
          /\ \A s \in Visible : s < cur.step
          /\ cur.step \in Visible' /\ Visible' = Visible \cup {cur.step}
          /\ UNCHANGED <<gen, cur, op>>
          /\ \A r \in Ranks : ~Holds(r)'
          /\ Holds(Root)
      BY <1>2, MoveIs
    <2>2. \A s \in Steps, f \in File : dir'[s][f] <= cur.gen
      <3>1. \A s \in Steps, f \in File : dir[s][f] \in Int /\ dir[s][f] < cur.gen
        BY <1>0, <2>1 DEF GenOK
      <3> QED
        BY <2>1, <3>1 DEF Whole
    <2>3. \A f \in File : dir'[cur.step][f] \in {0, cur.gen}
      BY <2>1 DEF Whole
    <2>4. \A s \in Steps, f \in File : dir'[s][f] \in Int
      BY <1>0, <2>1 DEF Whole
    <2>5. \A m \in Visible' : IsMax(Visible', m) => m = cur.step
      BY <2>1, VisibleInt DEF IsMax, Steps
    <2>6. dir'[cur.step][<<"trainer", Root>>] = cur.gen
      BY <2>1 DEF Whole
    <2>7. \A s \in Steps, f \in File : dir'[s][f] <= gen /\ (Fresh' => dir'[s][f] < gen)
      <3>1. Fresh' => cur.gen < gen
        BY <2>1 DEF Fresh
      <3> QED
        BY <1>0, <2>1, <2>2, <2>4, <3>1
    <2>8. \A s \in Steps, f \in File \ Files : dir'[s][f] = 0
      BY <2>1 DEF GenOK, Whole
    <2> QED
      BY <2>1, <2>2, <2>3, <2>5, <2>6, <2>7, <2>8 DEF GenOK
  <1>3. CASE OpenScore \/ WriteScore
    <2>1. UNCHANGED <<dir, gen, cur, op, job>> /\ \A r \in Ranks : Holds(r)' => Holds(r)
      BY <1>0, <1>3 DEF OpenScore, WriteScore, Holds, Goto, callVars
    <2> QED
      BY <2>1, SameVisible DEF GenOK, IsMax, Fresh, Saving
  <1>4. ASSUME NEW s \in Steps, RemoveScore(s) PROVE GenOK'
    <2>1. UNCHANGED <<dir, gen, cur, op>> /\ \A r \in Ranks : Holds(r)' => Holds(r)
      BY <1>4, RemoveScoreIs
    <2> QED
      BY <2>1, SameVisible DEF GenOK, IsMax, Fresh, Saving
  <1>5. ASSUME NEW s \in Steps, NEW f \in File, RemoveFile(s, f) PROVE GenOK'
    <2>1. /\ ~IsMax(Visible, s)
          /\ \A t \in Steps : t # s => dir'[t] = dir[t]
          /\ \A h \in File : dir'[s][h] = IF h = f THEN 0 ELSE dir[s][h]
          /\ Visible' \subseteq Visible /\ Visible \subseteq Visible' \cup {s}
          /\ UNCHANGED <<gen, cur, op>>
          /\ \A r \in Ranks : Holds(r)' <=> Holds(r)
      BY <1>5, RemoveFileIs
    <2>2. \A t \in Steps, h \in File : dir'[t][h] \in {0, dir[t][h]}
      BY <2>1
    <2>3. PICK x \in Visible : IsMax(Visible, x)
      BY <1>5, RemoveFileIs DEF DirOK
    <2>4. \A m \in Visible' : IsMax(Visible', m) => m = x
      BY <2>1, <2>3, VisibleInt DEF IsMax
    <2>5. x \in Steps /\ dir'[x] = dir[x]
      BY <2>1, <2>3 DEF Visible
    <2>6. \A t \in Steps, h \in File : dir[t][h] \in Nat /\ 0 <= dir[t][h]
      BY <1>0
    <2>7. \A t \in Steps, h \in File : dir'[t][h] <= dir[x][<<"trainer", Root>>]
      BY <2>2, <2>3, <2>5, <2>6 DEF GenOK
    <2>8. \A t \in Steps, h \in File : dir'[t][h] <= dir[t][h]
      BY <2>2, <2>6
    <2>9. \A t \in Steps, h \in File : dir'[t][h] <= gen' /\ (Fresh' => dir'[t][h] < gen')
      BY <1>0, <2>1, <2>2, <2>6, <2>8 DEF GenOK, Fresh, Saving
    <2>10. \A r \in Ranks : Holds(r)' => \A t \in Steps, h \in File : dir'[t][h] < cur'.gen
      <3>1. cur.gen \in Int
        BY <1>0
      <3> QED
        BY <2>1, <2>2, <2>6, <2>8, <3>1 DEF GenOK
    <2>11. cur'.gen # 0 => \A h \in File : dir'[cur'.step][h] \in {0, cur'.gen}
      <3>1. CASE cur.step \in Steps
        BY <2>1, <2>2, <3>1 DEF GenOK
      <3>2. CASE cur.step \notin Steps
        BY <2>1, <3>2 DEF CurOK
      <3> QED
        BY <3>1, <3>2
    <2>12. \A t \in Steps, h \in File \ Files : dir'[t][h] = 0
      BY <2>2 DEF GenOK
    <2> QED
      BY <2>4, <2>5, <2>7, <2>9, <2>10, <2>11, <2>12 DEF GenOK
  <1>6. CASE BeginBarrier
    <2>1. /\ UNCHANGED <<dir, gen, now, op>> /\ cur' = [step |-> now, gen |-> gen]
          /\ pc[Root] = "rmBeginB"
      BY <1>6 DEF BeginBarrier, Collective, At, fsVars
    <2>2. Fresh
      BY <2>1 DEF Lockstep, AllIn
    <2>3. now \notin Visible /\ now \in Steps
      BY <1>0, <2>2, VisibleInt DEF DirOK, Fresh, CurOK, Saving
    <2>4. \A f \in File : dir[now][f] = 0
      BY <2>3 DEF Visible
    <2> QED
      BY <2>1, <2>2, <2>4, SameVisible DEF GenOK, Fresh, Saving, IsMax
  <1>7. ASSUME NEW k \in {"save", "bsave"}, StartSave(k) PROVE GenOK'
    <2>1. UNCHANGED <<dir, cur>> /\ gen' = gen + 1 /\ \A r \in Ranks : Holds(r)' => Holds(r)
      BY <1>0, <1>7 DEF StartSave, Holds, fsVars
    <2>2. \A s \in Steps, f \in File : dir[s][f] \in Int
      BY <1>0
    <2>3. \A s \in Steps, f \in File : dir[s][f] < gen'
      BY <1>0, <2>1, <2>2 DEF GenOK
    <2> QED
      BY <1>0, <2>1, <2>2, <2>3, SameVisible DEF GenOK, IsMax
  <1>8. CASE StartScore
    <2>1. UNCHANGED <<dir, cur, gen>> /\ (\A r \in Ranks : Holds(r)' => Holds(r)) /\ ~Fresh'
      BY <1>0, <1>8 DEF StartScore, RootElse, Holds, Fresh, Saving, fsVars
    <2> QED
      BY <2>1, SameVisible DEF GenOK, IsMax
  <1>9. CASE Crash
    <2>1. UNCHANGED <<dir, gen>> /\ cur'.gen = 0 /\ (\A r \in Ranks : ~Holds(r)') /\ ~Fresh'
      BY <1>9 DEF Crash, Holds, Fresh, Saving, NoSave, fsVars
    <2> QED
      BY <2>1, SameVisible DEF GenOK, IsMax
  <1>10. CASE Restart
    <2>1. UNCHANGED <<dir, gen, cur, op, job>> /\ \A r \in Ranks : Holds(r)' => Holds(r)
      BY <1>0, <1>10 DEF Restart, Holds, fsVars
    <2> QED
      BY <2>1, SameVisible DEF GenOK, IsMax, Fresh, Saving
  <1> QED
    BY <1>1, <1>2, <1>3, <1>4, <1>5, <1>6, <1>7, <1>8, <1>9, <1>10, QuietStep

-----------------------------------------------------------------------------
(***************************************************************************)
(* The score files.                                                        *)
(***************************************************************************)
LEMMA ScoreStep ==
    ASSUME Conventional, IInv, GenOK, ScoreOK, Next PROVE ScoreOK'
  <1> USE RankAssumption, BoundAssumption DEF IInv, Conventional
  <1>0. /\ pc \in [Ranks -> Label] /\ dir \in [Steps -> [File -> 0..MaxGen]]
        /\ score \in [Steps -> [val : Scores \cup {0}, gen : 0..MaxGen]]
    BY DEF TypeOK
  <1>1. CASE Quiet
    BY <1>1 DEF Quiet, ScoreOK
  <1>2. CASE Move
    <2>1. /\ cur.step \in Steps /\ Whole(dir'[cur.step], cur.gen)
          /\ \A s \in Steps : s # cur.step => dir'[s] = dir[s]
          /\ UNCHANGED <<score, gen, cur, now>>
          /\ \A r \in Ranks : ~Holds(r)' /\ pc'[r] = "movedB"
          /\ Holds(Root)
      BY <1>2, MoveIs
    <2>2. score[cur.step] = NoScore \/ score[cur.step].gen = cur.gen
      BY <2>1 DEF ScoreOK
    <2>3. \A f \in File : dir'[cur.step][f] \in {0, cur.gen}
      BY <2>1 DEF Whole
    <2>4. \A s \in Steps :
            score'[s] # NoScore => \A f \in File : dir'[s][f] \in {0, score'[s].gen}
      BY <2>1, <2>2, <2>3 DEF ScoreOK
    <2> QED
      BY <2>1, <2>4 DEF ScoreOK
  <1>3. CASE OpenScore \/ WriteScore
    <2>1. PICK v : score' = [score EXCEPT ![now] = [val |-> v, gen |-> gen]]
      BY <1>3 DEF OpenScore, WriteScore
    <2>2. /\ pc[Root] \in {"score", "scoreW"} /\ pc'[Root] \in {"scoreW", "scoreB"}
          /\ UNCHANGED <<dir, gen, cur, now>> /\ \A r \in Ranks : Holds(r)' => Holds(r)
      BY <1>0, <1>3 DEF OpenScore, WriteScore, Holds, Goto, callVars
    <2>3. cur.gen = gen /\ cur.step = now /\ gen # 0 /\ now \in Steps
      BY <2>2 DEF ScoreOK, CurOK
    <2>4. \A f \in File : dir[now][f] \in {0, gen}
      BY <2>3 DEF GenOK
    <2>5. score'[now].gen = gen /\ \A s \in Steps : s # now => score'[s] = score[s]
      BY <1>0, <2>1, <2>3
    <2> QED
      BY <2>2, <2>3, <2>4, <2>5 DEF ScoreOK
  <1>4. ASSUME NEW s \in Steps, RemoveScore(s) PROVE ScoreOK'
    <2>1. /\ score' = [score EXCEPT ![s] = NoScore]
          /\ \/ pc[Root] = "rmStale" /\ pc'[Root] = "rmStaleB"
             \/ pc[Root] = "rmBegin" /\ pc'[Root] = "rmBeginB" /\ s = now
          /\ UNCHANGED <<dir, gen, cur, now>>
          /\ \A r \in Ranks : Holds(r)' <=> Holds(r)
      BY <1>4, RemoveScoreIs
    <2>2. score'[s] = NoScore /\ \A t \in Steps : t # s => score'[t] = score[t]
      BY <1>0, <2>1
    <2>3. \A r \in Ranks : Holds(r) => cur.step \in Steps
      BY DEF CurOK
    <2> QED
      BY <2>1, <2>2, <2>3 DEF ScoreOK
  <1>5. ASSUME NEW s \in Steps, NEW f \in File, RemoveFile(s, f) PROVE ScoreOK'
    <2>1. /\ \A t \in Steps : t # s => dir'[t] = dir[t]
          /\ \A h \in File : dir'[s][h] = IF h = f THEN 0 ELSE dir[s][h]
          /\ UNCHANGED <<score, gen, cur, now, pc>>
          /\ \A r \in Ranks : Holds(r)' <=> Holds(r)
      BY <1>5, RemoveFileIs
    <2>2. \A t \in Steps, h \in File : dir'[t][h] \in {0, dir[t][h]}
      BY <2>1
    <2>3. \A t \in Steps :
            score'[t] # NoScore => \A h \in File : dir'[t][h] \in {0, score'[t].gen}
      BY <2>1, <2>2 DEF ScoreOK
    <2> QED
      BY <2>1, <2>3 DEF ScoreOK
  <1>6. CASE BeginBarrier
    BY <1>0, <1>6 DEF BeginBarrier, Collective, At, ScoreOK, fsVars
  <1>7. ASSUME NEW k \in {"save", "bsave"}, StartSave(k) PROVE ScoreOK'
    <2>1. /\ UNCHANGED <<dir, score, cur>> /\ pc'[Root] \in {"rmBegin", "wait"}
          /\ \A r \in Ranks : Holds(r)' => Holds(r)
      BY <1>0, <1>7 DEF StartSave, Holds, fsVars
    <2> QED
      BY <2>1 DEF ScoreOK
  <1>8. CASE StartScore
    <2>1. /\ UNCHANGED <<dir, score, cur, gen, now>> /\ pc'[Root] = "score"
          /\ cur.gen = gen /\ cur.step = now /\ gen # 0
          /\ \A r \in Ranks : Holds(r)' => Holds(r)
      BY <1>0, <1>8 DEF StartScore, RootElse, Holds, fsVars
    <2> QED
      BY <2>1 DEF ScoreOK
  <1>9. CASE Crash
    BY <1>9 DEF Crash, Holds, ScoreOK, fsVars
  <1>10. CASE Restart
    <2>1. /\ UNCHANGED <<dir, score, cur>> /\ pc'[Root] \in {"idle", "dead"}
          /\ \A r \in Ranks : Holds(r)' => Holds(r)
      BY <1>0, <1>10 DEF Restart, Holds, fsVars
    <2> QED
      BY <2>1 DEF ScoreOK
  <1> QED
    BY <1>1, <1>2, <1>3, <1>4, <1>5, <1>6, <1>7, <1>8, <1>9, <1>10, QuietStep

-----------------------------------------------------------------------------
(***************************************************************************)
(* The progress of a pruning.                                              *)
(***************************************************************************)
LEMMA VisibleFinite ==
    ASSUME TypeOK
    PROVE  IsFiniteSet(Visible) /\ IsFiniteSet(Scored)
  <1>1. IsFiniteSet(1..MaxStep)
    BY BoundAssumption, FS_Interval
  <1>2. Visible \subseteq 1..MaxStep /\ Scored \subseteq Visible
    BY DEF Visible, Scored, Steps
  <1> QED
    BY <1>1, <1>2, FS_Subset

\* What the policy gives up is beaten by enough of what it retains.
LEMMA GivenUpIsStale ==
    ASSUME TypeOK, todo[Root] = Visible \ Retained, NEW s \in Visible \ Retained
    PROVE  Stale(s)
  <1> USE RegimeAssumption
  <1>1. Kept = Retained /\ Retained \subseteq Visible
    BY DEF Kept, Retained
  <1>2. ~IsMax(Visible, s) /\ (KeepEvery # 0 => s % KeepEvery # 0)
    BY DEF Retained
  <1>3. Visible \subseteq Int /\ Scored \subseteq Visible
    BY VisibleInt DEF Scored
  <1>4. ASSUME KeepLast # 0 PROVE Cardinality({t \in Kept : t > s}) >= KeepLast
    <2> DEFINE up  == [x \in Visible |-> {t \in Visible : t > x}]
               Top == {t \in Retained : t > s}
    <2>1. IsFiniteSet(Visible) /\ IsFiniteSet(Top)
      BY <1>1, VisibleFinite, FS_Subset
    <2>2. up \in [Visible -> SUBSET Visible]
      OBVIOUS
    <2>3. \A x, y \in Visible : x = y \/ x \in up[y] \/ y \in up[x]
      BY <1>3
    <2>4. \A x \in Visible : x \notin up[x] /\ \A y \in up[x] : up[y] \subseteq up[x]
      <3>1. \A x \in Visible : x \in Int
        BY <1>3
      <3>2. \A x, y, z \in Visible : y > x /\ z > y => z > x
        BY <3>1
      <3> QED
        BY <3>1, <3>2
    <2>5. Cardinality(up[s]) >= KeepLast
      <3>1. ~(Cardinality({t \in Visible : t > s}) < KeepLast)
        BY <1>4 DEF Retained
      <3>2. up[s] = {t \in Visible : t > s} /\ up[s] \subseteq Visible
        OBVIOUS
      <3>3. Cardinality(up[s]) \in Nat
        BY <2>1, <3>2, SmallerSet
      <3> HIDE DEF up
      <3> QED
        BY <3>1, <3>2, <3>3
    <2>6. \A t \in up[s] : Cardinality(up[t]) < KeepLast => t \in Top
      BY <1>4 DEF Retained
    <2>7. Cardinality(Top) >= KeepLast
      <3> HIDE DEF up, Top
      <3> QED
        BY <2>1, <2>2, <2>3, <2>4, <2>5, <2>6, TopElements
    <2> QED
      BY <1>1, <2>7
  <1>5. ASSUME KeepBest # 0, s \in Scored
        PROVE  Cardinality({t \in Kept \cap Scored : Better(t, s)}) >= KeepBest
    <2> DEFINE up  == [x \in Scored |-> {t \in Scored : Better(t, x)}]
               Top == {t \in Retained \cap Scored : Better(t, s)}
    <2>0. \A x \in Scored : x \in Int /\ ScoreOf(x) \in Int
      <3>1. Visible \subseteq Steps
        BY DEF Visible
      <3>2. \A x \in Steps : score[x].val \in Scores \cup {0}
        BY DEF TypeOK
      <3>3. \A v \in Scores \cup {0} : v \in Int
        OBVIOUS
      <3>4. \A x \in Steps : ScoreOf(x) \in Int
        BY <3>2, <3>3 DEF ScoreOf
      <3> QED
        BY <1>3, <3>1, <3>4
    <2>1. IsFiniteSet(Scored) /\ IsFiniteSet(Top)
      BY <1>1, VisibleFinite, FS_Subset
    <2>2. up \in [Scored -> SUBSET Scored]
      OBVIOUS
    <2>3. \A x, y \in Scored : x = y \/ x \in up[y] \/ y \in up[x]
      BY <2>0 DEF Better
    <2>4. \A x \in Scored : x \notin up[x] /\ \A y \in up[x] : up[y] \subseteq up[x]
      BY <2>0 DEF Better
    <2>5. Cardinality(up[s]) >= KeepBest
      <3>1. ~(Cardinality({t \in Scored : Better(t, s)}) < KeepBest)
        BY <1>5 DEF Retained
      <3>2. up[s] = {t \in Scored : Better(t, s)} /\ up[s] \subseteq Scored
        BY <1>5
      <3>3. Cardinality(up[s]) \in Nat
        BY <2>1, <3>2, SmallerSet
      <3> HIDE DEF up
      <3> QED
        BY <3>1, <3>2, <3>3
    <2>6. \A t \in up[s] : Cardinality(up[t]) < KeepBest => t \in Top
      BY <1>3, <1>5 DEF Retained
    <2>7. Cardinality(Top) >= KeepBest
      <3> HIDE DEF up, Top
      <3> QED
        BY <1>5, <2>1, <2>2, <2>3, <2>4, <2>5, <2>6, TopElements
    <2> QED
      BY <1>1, <2>7
  <1> QED
    BY <1>2, <1>4, <1>5 DEF Stale

\* A listed step stays beaten while what is kept and its scores stay.
LEMMA StillStale ==
    ASSUME NEW s \in Visible, Stale(s), Kept' = Kept, Scored' \subseteq Scored,
           Kept \cap Scored \subseteq Scored', \A t \in Scored : score'[t] = score[t],
           ~IsMax(Visible', s)
    PROVE  Stale(s)'
  <1>1. \A x, y \in Scored : Better(x, y)' <=> Better(x, y)
    BY DEF Better, ScoreOf
  <1>2. s \in Scored' =>
          {t \in Kept' \cap Scored' : Better(t, s)'} = {t \in Kept \cap Scored : Better(t, s)}
    BY <1>1
  <1> QED
    BY <1>2 DEF Stale, IsMax

\* Taking other checkpoints away does not make a retained one stale.
LEMMA StillRetained ==
    ASSUME TypeOK, NEW x \in Retained, x \in Visible', Visible' \subseteq Visible,
           Scored' \subseteq Scored, x \in Scored => x \in Scored',
           \A t \in Scored : score'[t] = score[t]
    PROVE  x \in Retained'
  <1> USE RegimeAssumption
  <1>1. IsMax(Visible, x) => IsMax(Visible', x)
    BY DEF IsMax
  <1>2. /\ Cardinality({t \in Visible' : t > x}) <= Cardinality({t \in Visible : t > x})
        /\ Cardinality({t \in Visible' : t > x}) \in Nat
        /\ Cardinality({t \in Visible : t > x}) \in Nat
    <2>1. /\ {t \in Visible' : t > x} \subseteq {t \in Visible : t > x}
          /\ {t \in Visible : t > x} \subseteq Visible
      OBVIOUS
    <2> QED
      BY <2>1, VisibleFinite, SmallerSet
  <1>3. x \in Scored =>
          /\ Cardinality({t \in Scored' : Better(t, x)'})
               <= Cardinality({t \in Scored : Better(t, x)})
          /\ Cardinality({t \in Scored' : Better(t, x)'}) \in Nat
          /\ Cardinality({t \in Scored : Better(t, x)}) \in Nat
    <2>1. \A y \in Scored : x \in Scored => (Better(y, x)' <=> Better(y, x))
      BY DEF Better, ScoreOf
    <2>2. x \in Scored =>
            /\ {t \in Scored' : Better(t, x)'} \subseteq {t \in Scored : Better(t, x)}
            /\ {t \in Scored : Better(t, x)} \subseteq Scored
      BY <2>1
    <2> QED
      BY <2>2, VisibleFinite, SmallerSet
  <1>4. KeepLast \in Int /\ KeepBest \in Int /\ Scored' \subseteq Visible'
    BY DEF Scored
  <1>5. KeepLast # 0 /\ Cardinality({t \in Visible : t > x}) < KeepLast
          => Cardinality({t \in Visible' : t > x}) < KeepLast
    BY <1>2, <1>4
  <1>6. x \in Scored /\ Cardinality({t \in Scored : Better(t, x)}) < KeepBest
          => Cardinality({t \in Scored' : Better(t, x)'}) < KeepBest
    BY <1>3, <1>4
  <1> QED
    BY <1>1, <1>5, <1>6 DEF Retained, IsMax

\* A step after which the progress of a pruning is what it was, or does not matter.
Calm ==
    \/ pc'[Root] \notin {"idle", "score", "scoreW", "scoreB", "rmStale", "rmStaleB", "down"}
    \/ pc'[Root] = "idle" /\ job'[Root] # "none"
    \/ /\ UNCHANGED <<dir, score, cur>>
       /\ pc'[Root] = pc[Root] /\ todo'[Root] = todo[Root]
       /\ job'[Root] = "none" => job[Root] = "none"

LEMMA CalmStep ==
    ASSUME Conventional, IInv, Next
    PROVE  \/ Calm \/ ReadStale(Root) \/ StaleBarrier \/ RemovedStale
           \/ \E s \in Steps : RemoveScore(s)
           \/ \E s \in Steps, f \in File : RemoveFile(s, f)
           \/ OpenScore \/ WriteScore \/ ScoreBarrier \/ StartScore
           \/ Crash \/ Restart
  <1> USE RankAssumption, BoundAssumption
      DEF IInv, Conventional, AllIn, NoJobs, AllJobs, JobsAgree, Goto, Calm
  <1>0. pc \in [Ranks -> Label] /\ job \in [Ranks -> {"none", "running", "failed"}]
        /\ todo \in [Ranks -> SUBSET Steps]
    BY DEF TypeOK
  <1>1. ASSUME NEW r \in Ranks, Vote(r) \/ Wait(r) PROVE Calm
    BY <1>0, <1>1 DEF Vote, Wait, callVars, fsVars
  <1>2. ASSUME NEW r \in Ranks, WaitOwn(r) PROVE Calm
    <2>1. pc[Root] \in {"queue", "own", "commitB", "dead"}
      BY <1>2 DEF WaitOwn, Lockstep
    <2> QED
      BY <1>0, <1>2, <2>1 DEF WaitOwn
  <1>3. ASSUME NEW r \in Ranks, r # Root, ReadStale(r) PROVE Calm
    BY <1>0, <1>3 DEF ReadStale, callVars, fsVars
  <1>4. ASSUME NEW r \in Ranks, ReadPrevious(r) PROVE Calm
    BY <1>0, <1>4 DEF ReadPrevious, Lockstep
  <1>5. ASSUME NEW r \in Ranks, SkipRemove(r) PROVE Calm
    BY <1>0, <1>5 DEF SkipRemove, callVars, fsVars
  <1>6. ASSUME NEW r \in Ranks, MakeDirs(r) \/ Queue(r) PROVE Calm
    <2>1. r = Root => \/ pc'[Root] \in {"syncB", "own"}
                      \/ pc'[Root] = "idle" /\ job'[Root] # "none"
      BY <1>0, <1>6 DEF MakeDirs, Queue
    <2>2. r # Root => pc'[Root] = pc[Root] /\ job'[Root] = job[Root]
      BY <1>0, <1>6 DEF MakeDirs, Queue
    <2>3. UNCHANGED <<dir, score, cur, todo>>
      BY <1>6 DEF MakeDirs, Queue, callVars, fsVars
    <2> QED
      BY <2>1, <2>2, <2>3
  <1>7. CASE Move
    BY <1>0, <1>7 DEF Move
  <1>8. ASSUME NEW s \in Steps, RemoveTmp(s) PROVE Calm
    BY <1>8 DEF RemoveTmp, callVars
  <1>9. CASE Counted
    BY <1>0, <1>9 DEF Counted, At, Lockstep
  <1>10. CASE Waited \/ CommitBarrier \/ MovedBarrier
    BY <1>0, <1>10 DEF Waited, CommitBarrier, MovedBarrier, Collective, RootElse
  <1>11. CASE RemovedPrevious
    BY <1>0, <1>11 DEF RemovedPrevious, RemovedBarrier, Barrier, Collective, At, Lockstep
  <1>12. CASE BeginBarrier \/ SyncBarrier
    BY <1>12 DEF BeginBarrier, SyncBarrier, Collective
  <1>13. ASSUME NEW k \in {"save", "bsave"}, StartSave(k) PROVE Calm
    BY <1>13 DEF StartSave
  <1>14. CASE StartPoll \/ StartComplete
    BY <1>14 DEF StartPoll, StartComplete
  <1>15. ASSUME NEW r \in Ranks, WriteFile(r) \/ WriteFail(r) PROVE Calm
    BY <1>0, <1>15 DEF WriteFile, WriteFail, callVars, fsVars
  <1>16. CASE Stopped
    BY <1>16 DEF Stopped, vars
  <1> QED
    BY <1>1, <1>2, <1>3, <1>4, <1>5, <1>6, <1>7, <1>8, <1>9, <1>10, <1>11, <1>12, <1>13,
       <1>14, <1>15, <1>16
    DEF Next, RankStep, RootStep, GangStep, Call

LEMMA PruneStep ==
    ASSUME Conventional, IInv, ScoreOK, PruneOK, Next PROVE PruneOK'
  <1> USE RankAssumption, BoundAssumption DEF IInv, Conventional
  <1>0. /\ pc \in [Ranks -> Label] /\ todo \in [Ranks -> SUBSET Steps]
        /\ score \in [Steps -> [val : Scores \cup {0}, gen : 0..MaxGen]]
    BY DEF TypeOK
  <1>1. CASE Calm
    <2>1. CASE UNCHANGED <<dir, score, cur>> /\ pc'[Root] = pc[Root] /\ todo'[Root] = todo[Root]
               /\ (job'[Root] = "none" => job[Root] = "none")
      <3>1. Visible' = Visible /\ Retained' = Retained /\ Scored' = Scored /\ Kept' = Kept
        BY <2>1, SameTree DEF Scored, Kept
      <3>2. ASSUME NEW s \in Visible, Stale(s) PROVE Stale(s)'
        BY <2>1, <3>1, <3>2, StillStale DEF Stale, IsMax
      <3> QED
        BY <2>1, <3>1, <3>2 DEF PruneOK, Deleting, PolicySet, IsMin
    <2> QED
      BY <1>1, <2>1 DEF Calm, PruneOK, Deleting
  <1>2. CASE ReadStale(Root)
    <2>1. \/ pc'[Root] \in {"dead", "staleB", "rmBegin"}
          \/ pc'[Root] = "idle" /\ (~PolicySet \/ Visible = {})
      BY <1>0, <1>2, AfterStaleIs DEF ReadStale, Goto
    <2>2. Visible' = Visible
      BY <1>2, SameVisible DEF ReadStale, fsVars
    <2> QED
      BY <2>1, <2>2 DEF PruneOK, Deleting, PolicySet
  <1>3. CASE StaleBarrier
    <2>1. todo[Root] = Visible \ Retained
      BY <1>3 DEF StaleBarrier, Collective, At, TodoOK
    <2>2. /\ UNCHANGED <<dir, score, todo>>
          /\ \/ pc'[Root] = "rmStale"
             \/ pc'[Root] \in {"idle", "rmBegin"} /\ todo[Root] = {}
      BY <1>3, AfterStaleIs DEF StaleBarrier, Collective, Loop, fsVars
    <2>3. Visible' = Visible /\ Retained' = Retained /\ Scored' = Scored /\ Kept' = Kept
      BY <2>2, SameTree DEF Scored, Kept
    <2>4. Kept \subseteq Retained
      BY <2>1 DEF Kept
    <2>5. ASSUME NEW s \in Visible \cap todo[Root] PROVE Stale(s)'
      <3>1. Stale(s)
        BY <2>1, <2>5, GivenUpIsStale
      <3> QED
        BY <2>2, <2>3, <3>1, StillStale DEF Stale, IsMax
    <2> QED
      BY <2>1, <2>2, <2>3, <2>4, <2>5 DEF PruneOK, Deleting
  <1>4. CASE RemovedStale
    <2>1. /\ pc[Root] = "rmStaleB" /\ todo'[Root] = Rest(Root)
          /\ UNCHANGED <<dir, score>>
          /\ \/ pc'[Root] = "rmStale"
             \/ pc'[Root] \in {"idle", "rmBegin"} /\ todo'[Root] = {}
      BY <1>4, AfterStaleIs
      DEF RemovedStale, RemovedBarrier, Barrier, Collective, At, Loop, fsVars
    <2>2. Visible' = Visible /\ Retained' = Retained /\ Scored' = Scored
      BY <2>1, SameTree DEF Scored
    <2>3. Kept' = Kept /\ todo'[Root] \subseteq todo[Root]
      BY <2>1, <2>2 DEF PruneOK, Kept, Rest
    <2>4. Kept \subseteq Retained
      BY <2>1 DEF PruneOK, Deleting
    <2>5. ASSUME NEW s \in Visible \cap todo'[Root] PROVE Stale(s)'
      <3>1. Stale(s)
        BY <2>1, <2>3, <2>5 DEF PruneOK, Deleting
      <3> QED
        BY <2>1, <2>2, <2>3, <3>1, StillStale DEF Stale, IsMax
    <2>6. todo'[Root] = {} => Visible \subseteq Retained
      BY <2>2, <2>3, <2>4 DEF Kept
    <2> QED
      BY <2>1, <2>2, <2>3, <2>4, <2>5, <2>6 DEF PruneOK, Deleting
  <1>5. ASSUME NEW s \in Steps, RemoveScore(s) PROVE PruneOK'
    <2>1. /\ s \notin Visible /\ score' = [score EXCEPT ![s] = NoScore]
          /\ \/ pc[Root] = "rmStale" /\ pc'[Root] = "rmStaleB" /\ IsMin(todo[Root], s)
             \/ pc'[Root] = "rmBeginB"
          /\ UNCHANGED <<dir, todo>>
      BY <1>5, RemoveScoreIs
    <2>2. Visible' = Visible /\ Kept' = Kept
      BY <2>1, SameVisible DEF Kept
    <2>3. \A t \in Steps : t # s => score'[t] = score[t]
      BY <1>0, <2>1
    <2>4. Visible \subseteq Steps
      BY DEF Visible
    <2>5. Scored' = Scored /\ (\A t \in Scored : score'[t] = score[t]) /\ Scored \subseteq Visible
      BY <2>1, <2>2, <2>3, <2>4 DEF Scored
    <2>6. ASSUME NEW t \in Retained PROVE t \in Retained'
      <3>1. t \in Visible
        BY DEF Retained
      <3> QED
        BY <2>2, <2>5, <3>1, StillRetained
    <2>7. ASSUME NEW t \in Visible, Stale(t) PROVE Stale(t)'
      BY <2>2, <2>5, <2>7, StillStale DEF Stale
    <2>8. CASE pc[Root] = "rmStale" /\ IsMin(todo[Root], s)
      <3>1. \A t \in Visible : ~IsMin(todo[Root], t)
        <4>1. \A t \in todo[Root] : t \in Int
          BY <1>0 DEF Steps
        <4> QED
          BY <2>1, <2>8, <4>1 DEF IsMin
      <3> QED
        BY <2>1, <2>2, <2>6, <2>7, <2>8, <3>1 DEF PruneOK, Deleting, IsMin
    <2> QED
      BY <2>1, <2>8 DEF PruneOK, Deleting
  <1>6. ASSUME NEW s \in Steps, NEW f \in File, RemoveFile(s, f) PROVE PruneOK'
    <2>1. /\ pc[Root] = "rmStale" /\ s \in Visible /\ IsMin(todo[Root], s)
          /\ Visible' \subseteq Visible /\ Visible \subseteq Visible' \cup {s}
          /\ UNCHANGED <<score, pc, todo>>
      BY <1>6, RemoveFileIs
    <2>2. Kept' = Kept /\ s \notin Kept
      BY <2>1 DEF Kept, IsMin
    <2>3. Scored' \subseteq Scored /\ Scored \subseteq Scored' \cup {s} /\ Scored' \subseteq Visible'
      BY <2>1 DEF Scored
    <2>4. Kept \subseteq Retained /\ \A t \in Visible \cap todo[Root] : Stale(t)
      BY <2>1 DEF PruneOK, Deleting
    <2>5. PICK m \in Visible : \A t \in todo[Root] : t < m
      BY <2>1 DEF DirOK
    <2>6. ASSUME NEW t \in Visible' \cap todo[Root] PROVE Stale(t)'
      <3>1. s \in todo[Root] /\ m \in Visible' /\ t < m /\ t \in Int /\ m \in Int
        <4>1. s \in todo[Root] /\ t \in todo[Root] /\ t \in Visible
          BY <2>1 DEF IsMin
        <4>2. s < m /\ t < m /\ s \in Int /\ m \in Int /\ t \in Int
          BY <2>1, <2>5, <4>1, VisibleInt
        <4>3. m \in Visible' \cup {s} /\ m # s
          BY <2>1, <4>2
        <4> QED
          BY <4>1, <4>2, <4>3
      <3>2. ~IsMax(Visible', t)
        BY <3>1 DEF IsMax
      <3> QED
        BY <2>1, <2>2, <2>3, <2>4, <3>2, StillStale
    <2>7. ASSUME NEW t \in Kept PROVE t \in Retained'
      <3>1. t \in Retained /\ t \in Visible' /\ t # s
        BY <2>2, <2>4 DEF Kept
      <3> QED
        BY <2>1, <2>3, <3>1, StillRetained
    <2> QED
      BY <2>1, <2>2, <2>6, <2>7 DEF PruneOK, Deleting
  <1>7. CASE OpenScore \/ WriteScore
    <2>1. /\ pc[Root] \in {"score", "scoreW"} /\ pc'[Root] \in {"scoreW", "scoreB"}
          /\ UNCHANGED <<dir, job>>
      BY <1>0, <1>7 DEF OpenScore, WriteScore, Goto
    <2>2. Visible' = Visible /\ (KeepBest = 0 => Retained' = Retained)
      BY <2>1, SameVisible DEF Retained
    <2> QED
      BY <2>1, <2>2 DEF PruneOK, Deleting, PolicySet
  <1>8. CASE ScoreBarrier
    <2>1. /\ pc[Root] = "scoreB" /\ UNCHANGED <<dir, score, job>>
          /\ pc'[Root] = IF KeepBest # 0 THEN "stale" ELSE "idle"
      BY <1>8 DEF ScoreBarrier, Collective, At, fsVars
    <2> QED
      BY <2>1, SameTree DEF PruneOK, Deleting, PolicySet
  <1>9. CASE StartScore
    <2>1. /\ pc[Root] = "idle" /\ pc'[Root] = "score" /\ UNCHANGED <<dir, score, job>>
          /\ cur.gen # 0
      BY <1>9 DEF StartScore, RootElse, At, fsVars
    <2> QED
      BY <2>1, SameTree DEF PruneOK, Deleting, PolicySet
  <1>10. CASE Crash
    BY <1>10 DEF Crash, PruneOK, Deleting, NoSave
  <1>11. CASE Restart
    <2>1. pc[Root] = "down" /\ pc'[Root] \in {"idle", "dead"} /\ cur' = cur
      BY <1>11 DEF Restart, At
    <2> QED
      BY <2>1 DEF PruneOK, Deleting
  <1> QED
    BY <1>1, <1>2, <1>3, <1>4, <1>5, <1>6, <1>7, <1>8, <1>9, <1>10, <1>11, CalmStep

-----------------------------------------------------------------------------
JInv == IInv /\ GenOK /\ ScoreOK /\ PruneOK

LEMMA JInit == Init => JInv
  <1> SUFFICES ASSUME Init PROVE JInv
    OBVIOUS
  <1>1. IInv
    BY IInit
  <1>2. Visible = {} /\ Holds(Root) = FALSE /\ (\A r \in Ranks : ~Holds(r)) /\ ~Fresh
    BY RankAssumption DEF Init, Visible, Empty, Holds, Fresh, Saving
  <1>3. \A s \in Steps, f \in File : dir[s][f] = 0
    BY DEF Init, Empty
  <1>4. GenOK
    BY <1>2, <1>3 DEF Init, GenOK, NoSave
  <1>5. ScoreOK /\ PruneOK
    BY <1>2, RankAssumption DEF Init, ScoreOK, PruneOK, Deleting, NoSave
  <1> QED
    BY <1>1, <1>4, <1>5 DEF JInv

LEMMA JStep ==
    ASSUME Conventional, JInv, [Next]_vars PROVE JInv'
  <1>1. IInv'
    BY IStep DEF JInv
  <1>2. CASE Next
    BY <1>1, <1>2, GenStep, ScoreStep, PruneStep DEF JInv
  <1>3. CASE UNCHANGED vars
    <2> USE <1>3 DEF vars, JInv
    <2>1. Visible' = Visible /\ Retained' = Retained /\ Scored' = Scored /\ Kept' = Kept
      BY SameTree DEF Scored, Kept
    <2>2. (\A r \in Ranks : Holds(r)' <=> Holds(r)) /\ (Fresh' <=> Fresh)
      BY DEF Holds, Fresh, Saving
    <2>3. GenOK' /\ ScoreOK'
      BY <2>1, <2>2 DEF GenOK, ScoreOK, IsMax
    <2>4. ASSUME NEW s \in Visible, Stale(s) PROVE Stale(s)'
      BY <2>1, <2>4, StillStale DEF Stale, IsMax
    <2>5. PruneOK'
      BY <2>1, <2>4 DEF PruneOK, Deleting, PolicySet, IsMin
    <2> QED
      BY <1>1, <2>3, <2>5
  <1> QED
    BY <1>2, <1>3

THEOREM StoreInductive == ASSUME Conventional PROVE Spec => []JInv
  BY JInit, JStep, PTL DEF Spec

\* The score by which a checkpoint is ranked was measured on the model it holds, whatever
\* is saved, scored, pruned, killed and restarted in between.
THEOREM ScoresMatch == ASSUME Conventional PROVE Spec => []ScoreMatches
  <1>1. JInv => ScoreMatches
    BY DEF JInv, ScoreOK, ScoreMatches, Visible
  <1> QED
    BY <1>1, StoreInductive, PTL

\* Between two calls, once the last save is committed and its callback has returned,
\* nothing is left that the retention policy gives up.
THEOREM PruningIsComplete == ASSUME Conventional PROVE Spec => []Pruned
  <1>1. JInv => Pruned
    BY RankAssumption DEF JInv, PruneOK, Pruned, At
  <1> QED
    BY <1>1, StoreInductive, PTL

\* A listed step is given up by the policy at every moment until it is gone.
LEMMA StaleIsGivenUp ==
    ASSUME TypeOK, NEW s \in Visible, Stale(s) PROVE s \notin Retained
  <1> USE RegimeAssumption
  <1>1. KeepLast # 0 => ~(Cardinality({t \in Visible : t > s}) < KeepLast)
    <2>1. /\ {t \in Kept : t > s} \subseteq {t \in Visible : t > s}
          /\ {t \in Visible : t > s} \subseteq Visible
      BY DEF Kept
    <2>2. /\ Cardinality({t \in Kept : t > s}) <= Cardinality({t \in Visible : t > s})
          /\ Cardinality({t \in Kept : t > s}) \in Nat
          /\ Cardinality({t \in Visible : t > s}) \in Nat
      BY <2>1, VisibleFinite, SmallerSet
    <2>3. KeepLast # 0 => Cardinality({t \in Kept : t > s}) >= KeepLast
      BY DEF Stale
    <2> QED
      BY <2>2, <2>3
  <1>2. KeepBest # 0 /\ s \in Scored =>
          ~(Cardinality({t \in Scored : Better(t, s)}) < KeepBest)
    <2>1. /\ {t \in Kept \cap Scored : Better(t, s)} \subseteq {t \in Scored : Better(t, s)}
          /\ {t \in Scored : Better(t, s)} \subseteq Scored
      OBVIOUS
    <2>2. /\ Cardinality({t \in Kept \cap Scored : Better(t, s)})
               <= Cardinality({t \in Scored : Better(t, s)})
          /\ Cardinality({t \in Kept \cap Scored : Better(t, s)}) \in Nat
          /\ Cardinality({t \in Scored : Better(t, s)}) \in Nat
      BY <2>1, VisibleFinite, SmallerSet
    <2>3. KeepBest # 0 /\ s \in Scored =>
            Cardinality({t \in Kept \cap Scored : Better(t, s)}) >= KeepBest
      BY DEF Stale
    <2> QED
      BY <2>2, <2>3
  <1> QED
    BY <1>1, <1>2 DEF Stale, Retained

\* Only these steps alter a checkpoint.
LEMMA TreeStep ==
    ASSUME Conventional, IInv, [Next]_vars
    PROVE  Move \/ (\E s \in Steps, f \in File : RemoveFile(s, f)) \/ dir' = dir
  BY QuietStep
  DEF Quiet, OpenScore, WriteScore, RemoveScore, BeginBarrier, StartSave, StartScore, Crash,
      Restart, fsVars, vars

\* No checkpoint that the policy retains at the moment of a deletion loses a model file.
THEOREM RetentionIsHonoured == ASSUME Conventional PROVE Spec => RetentionHonoured
  <1> DEFINE Honoured == \A s \in Retained, f \in File :
                           dir[s][f] # 0 /\ f[1] = "model" /\ dir'[s][f] = 0 => s = now
  <1>1. ASSUME JInv, [Next]_vars PROVE Honoured
    <2> USE <1>1 DEF JInv
    <2>0. Retained \subseteq Visible /\ Retained \subseteq Steps
      BY DEF Retained, Visible
    <2>1. CASE Move
      <3>1. /\ \A s \in Steps : s # cur.step => dir'[s] = dir[s]
            /\ \A s \in Visible : s < cur.step
            /\ cur.step \in Int
        BY <2>1, MoveIs DEF IInv, TypeOK
      <3>2. \A s \in Visible : s # cur.step
        BY <3>1, VisibleInt
      <3> QED
        BY <2>0, <3>1, <3>2
    <2>2. ASSUME NEW s \in Steps, NEW f \in File, RemoveFile(s, f) PROVE Honoured
      <3>1. /\ pc[Root] = "rmStale" /\ s \in Visible /\ s \in todo[Root]
            /\ \A t \in Steps : t # s => dir'[t] = dir[t]
        BY <2>2, RemoveFileIs DEF IsMin
      <3>2. s \notin Retained
        BY <3>1, StaleIsGivenUp DEF PruneOK, Deleting, IInv
      <3> QED
        BY <2>0, <3>1, <3>2
    <2>3. CASE dir' = dir
      BY <2>3
    <2> QED
      BY <2>1, <2>2, <2>3, TreeStep
  <1>2. ASSUME JInv, [Next]_vars PROVE [Honoured]_vars
    BY <1>1, <1>2
  <1> QED
    BY <1>2, StoreInductive, PTL DEF Spec, RetentionHonoured

-----------------------------------------------------------------------------
(***************************************************************************)
(* The refinement of CheckpointStore.                                      *)
(***************************************************************************)
\* A stored checkpoint is a whole one, and its generation is that of its files.
LEMMA StoredIs ==
    ASSUME Mode = "none", TypeOK, NEW s \in Steps
    PROVE  /\ StoredGen[s] \in 0..MaxGen
           /\ \A g \in 1..MaxGen : Whole(dir[s], g) => StoredGen[s] = g
           /\ StoredGen[s] # 0 =>
                \E g \in 1..MaxGen : Whole(dir[s], g) /\ StoredGen[s] = g /\ s \in Visible
  <1> USE RankAssumption, BoundAssumption, RootTrainer
  <1>1. \A g \in 1..MaxGen : Whole(dir[s], g) =>
          dir[s][<<"trainer", Root>>] = g /\ s \in FullVisible /\ s \in Visible
    BY DEF Whole, FullVisible, Visible
  <1> QED
    BY <1>1 DEF StoredGen

\* The newest generation is that of a step no other one is newer than.
NewestOK ==
    \A m \in Steps :
        /\ StoredGen[m] \in 1..MaxGen
        /\ \A s \in Steps : StoredGen[s] \in 0..MaxGen /\ StoredGen[s] <= StoredGen[m]
        => NewestGen = StoredGen[m]

LEMMA NewestIs == NewestOK
  <1> SUFFICES ASSUME NEW m \in Steps, StoredGen[m] \in 1..MaxGen,
                      \A s \in Steps : StoredGen[s] \in 0..MaxGen /\ StoredGen[s] <= StoredGen[m]
               PROVE  NewestGen = StoredGen[m]
    BY DEF NewestOK
  <1> USE BoundAssumption
  <1> DEFINE P(g) == /\ \E s \in Steps : StoredGen[s] = g
                     /\ \A s \in Steps : StoredGen[s] <= g
  <1>1. NewestGen = CHOOSE g \in 0..MaxGen : P(g)
    BY DEF NewestGen
  <1>2. StoredGen[m] \in 0..MaxGen /\ P(StoredGen[m])
    OBVIOUS
  <1>3. NewestGen \in 0..MaxGen /\ P(NewestGen)
    <2> HIDE DEF P
    <2> QED
      BY <1>1, <1>2
  <1> QED
    BY <1>2, <1>3

LEMMA NewestIsNext == NewestOK'
  BY NewestIs, PTL

\* What the refinement reads off the tree.
LEMMA StoreIs ==
    ASSUME Conventional, JInv
    PROVE  /\ Visible = {} => (\A s \in Steps : StoredGen[s] = 0) /\ NewestGen = 0
           /\ \A m \in Visible : IsMax(Visible, m) =>
                /\ m \in Steps /\ StoredGen[m] \in 1..MaxGen /\ NewestGen = StoredGen[m]
                /\ \A s \in Steps : StoredGen[s] <= StoredGen[m]
           /\ Visible # {} => \E m \in Visible : IsMax(Visible, m)
  <1> USE RankAssumption, BoundAssumption, RootTrainer DEF Conventional, JInv, IInv
  <1>1. ASSUME Visible = {}
        PROVE  (\A s \in Steps : StoredGen[s] = 0) /\ NewestGen = 0
    <2>1. \A s \in Steps : StoredGen[s] = 0
      BY <1>1, StoredIs
    <2> QED
      BY <2>1 DEF NewestGen
  <1>2. ASSUME NEW n \in Visible, IsMax(Visible, n)
        PROVE  /\ n \in Steps /\ StoredGen[n] \in 1..MaxGen /\ NewestGen = StoredGen[n]
               /\ \A s \in Steps : StoredGen[s] <= StoredGen[n]
    <2>1. PICK m \in Visible, g \in 1..MaxGen : IsMax(Visible, m) /\ Whole(dir[m], g)
      BY <1>2 DEF DirOK
    <2>2. m = n /\ n \in Steps
      BY <1>2, <2>1, VisibleInt DEF IsMax, Visible
    <2>3. StoredGen[n] = g /\ dir[n][<<"trainer", Root>>] = g
      BY <2>1, <2>2, StoredIs DEF Whole
    <2>4. \A s \in Steps : StoredGen[s] \in 0..MaxGen /\ StoredGen[s] <= g
      <3> SUFFICES ASSUME NEW s \in Steps
                   PROVE  StoredGen[s] \in 0..MaxGen /\ StoredGen[s] <= g
        OBVIOUS
      <3>1. StoredGen[s] \in 0..MaxGen
        BY StoredIs
      <3>2. ASSUME StoredGen[s] # 0 PROVE StoredGen[s] <= g
        <4>1. PICK h \in 1..MaxGen : Whole(dir[s], h) /\ StoredGen[s] = h
          BY <3>2, StoredIs
        <4>2. dir[s][<<"trainer", Root>>] = h
          BY <4>1 DEF Whole
        <4> QED
          BY <1>2, <2>3, <4>1, <4>2 DEF GenOK
      <3> QED
        BY <3>1, <3>2
    <2> QED
      BY <2>2, <2>3, <2>4, NewestIs DEF NewestOK
  <1>3. Visible # {} => \E m \in Visible : IsMax(Visible, m)
    BY DEF DirOK
  <1> QED
    BY <1>1, <1>2, <1>3

LEMMA StoreStep ==
    ASSUME Conventional, JInv, [Next]_vars
    PROVE  [Store!StoreNext]_(Store!storeVars)
  <1> USE RankAssumption, BoundAssumption, RootTrainer DEF Conventional, JInv, IInv
  <1>0. DOMAIN StoredGen = Steps /\ DOMAIN StoredGen' = Steps
    BY DEF StoredGen
  <1>1. CASE Move
    <2> DEFINE s == cur.step
               g == cur.gen
    <2>1. /\ s \in Steps /\ g \in 1..MaxGen
          /\ Whole(dir'[s], g)
          /\ \A t \in Steps : t # s => dir'[t] = dir[t]
          /\ \A t \in Visible : t < s
          /\ Holds(Root)
      BY <1>1, MoveIs
    <2> HIDE DEF s, g
    <2>2. StoredGen'[s] = g
      <3>1. dir'[s][<<"trainer", Root>>] = g /\ s \in FullVisible'
        BY <2>1 DEF Whole, FullVisible
      <3> QED
        BY <2>1, <3>1 DEF StoredGen
    <2>3. \A t \in Steps : t # s => StoredGen'[t] = StoredGen[t]
      BY <2>1 DEF StoredGen, FullVisible
    <2>4. StoredGen' = [StoredGen EXCEPT ![s] = g]
      BY <1>0, <2>1, <2>2, <2>3 DEF StoredGen
    <2>5. \A t \in Steps :
            /\ StoredGen[t] \in 0..MaxGen /\ StoredGen[t] < g
            /\ StoredGen[t] # 0 => t < s
      <3> SUFFICES ASSUME NEW t \in Steps
                   PROVE  /\ StoredGen[t] \in 0..MaxGen /\ StoredGen[t] < g
                          /\ StoredGen[t] # 0 => t < s
        OBVIOUS
      <3>1. StoredGen[t] \in 0..MaxGen
        BY StoredIs
      <3>2. ASSUME StoredGen[t] # 0 PROVE StoredGen[t] < g /\ t < s
        <4>1. PICK h \in 1..MaxGen : Whole(dir[t], h) /\ StoredGen[t] = h /\ t \in Visible
          BY <3>2, StoredIs
        <4>2. dir[t][<<"trainer", Root>>] = h
          BY <4>1 DEF Whole
        <4> QED
          BY <2>1, <4>1, <4>2 DEF GenOK, g
      <3> QED
        BY <2>1, <3>1, <3>2
    <2>6. NewestGen < g
      <3>1. CASE Visible = {}
        <4>1. NewestGen = 0
          BY <3>1, StoreIs
        <4> QED
          BY <2>1, <4>1
      <3>2. CASE Visible # {}
        <4>1. PICK m \in Visible : IsMax(Visible, m)
          BY <3>2, StoreIs
        <4>2. m \in Steps /\ NewestGen = StoredGen[m]
          BY <4>1, StoreIs
        <4> QED
          BY <2>5, <4>2
      <3> QED
        BY <3>1, <3>2
    <2>7. NewestGen' = g
      BY <2>1, <2>2, <2>3, <2>5, NewestIsNext DEF NewestOK
    <2>8. Store!Publish(s, g)
      BY <2>1, <2>4, <2>5, <2>6, <2>7 DEF Store!Publish, Store!Stored, Steps
    <2> QED
      BY <2>1, <2>8 DEF Store!StoreNext, Steps
  <1>2. ASSUME NEW s \in Steps, NEW f \in File, RemoveFile(s, f)
        PROVE  [Store!StoreNext]_(Store!storeVars)
    <2>1. /\ s \in Visible /\ ~IsMax(Visible, s)
          /\ \A t \in Steps : t # s => dir'[t] = dir[t]
          /\ \A h \in File : dir'[s][h] = IF h = f THEN 0 ELSE dir[s][h]
      BY <1>2, RemoveFileIs
    <2>2. f \in Files
      <3>1. dir[s][f] # 0
        BY <1>2 DEF RemoveFile, Doomed
      <3> QED
        BY <3>1 DEF GenOK
    <2>3. StoredGen'[s] = 0
      <3>1. \A g \in 1..MaxGen : ~Whole(dir'[s], g)
        BY <2>1, <2>2 DEF Whole
      <3> QED
        BY <3>1 DEF StoredGen
    <2>4. \A t \in Steps : t # s => StoredGen'[t] = StoredGen[t]
      BY <2>1 DEF StoredGen, FullVisible
    <2>5. StoredGen' = [StoredGen EXCEPT ![s] = 0]
      BY <1>0, <2>3, <2>4 DEF StoredGen
    <2>6. PICK m \in Visible : IsMax(Visible, m)
      BY <2>1, StoreIs
    <2>7. /\ m \in Steps /\ StoredGen[m] \in 1..MaxGen /\ NewestGen = StoredGen[m]
          /\ \A t \in Steps : StoredGen[t] <= StoredGen[m]
      BY <2>6, StoreIs
    <2>8. m # s /\ s < m
      BY <2>1, <2>6, VisibleInt DEF IsMax
    <2>9. NewestGen' = NewestGen
      <3>1. \A t \in Steps : StoredGen[t] \in 0..MaxGen
        BY StoredIs
      <3>2. \A t \in Steps : StoredGen'[t] \in 0..MaxGen /\ StoredGen'[t] <= StoredGen'[m]
        BY <2>3, <2>4, <2>7, <2>8, <3>1
      <3>3. StoredGen'[m] \in 1..MaxGen /\ StoredGen'[m] = NewestGen
        BY <2>4, <2>7, <2>8
      <3> QED
        BY <2>7, <3>2, <3>3, NewestIsNext DEF NewestOK
    <2>10. CASE StoredGen[s] = 0
      <3>1. StoredGen' = StoredGen
        BY <2>5, <2>10 DEF StoredGen
      <3> QED
        BY <2>9, <3>1 DEF Store!storeVars
    <2>11. CASE StoredGen[s] # 0
      <3>1. m \in Store!Stored /\ s \in Store!Stored
        BY <2>7, <2>11 DEF Store!Stored, Steps
      <3>2. ~Store!IsLastStored(s)
        BY <2>8, <3>1, VisibleInt DEF Store!IsLastStored, Steps
      <3>3. Store!Drop(s)
        BY <2>5, <2>9, <3>1, <3>2 DEF Store!Drop
      <3> QED
        BY <3>3 DEF Store!StoreNext, Steps
    <2> QED
      BY <2>10, <2>11
  <1>3. CASE dir' = dir
    <2>1. StoredGen' = StoredGen
      BY <1>3 DEF StoredGen, FullVisible
    <2>2. NewestGen' = NewestGen
      BY <2>1 DEF NewestGen
    <2> QED
      BY <2>1, <2>2 DEF Store!storeVars
  <1> QED
    BY <1>1, <1>2, <1>3, TreeStep

\* The manager implements the store that a resuming trainer relies on: whole checkpoints
\* appear at once and in order, and the last one is never taken away.
THEOREM IsACheckpointStore == ASSUME Conventional PROVE Spec => ImplementsStore
  <1>1. Init => Store!StoreInit
    <2> SUFFICES ASSUME Init PROVE Store!StoreInit
      OBVIOUS
    <2>1. FullVisible = {}
      BY DEF Init, FullVisible, Empty, File
    <2>2. StoredGen = [s \in 1..MaxStep |-> 0]
      BY <2>1 DEF StoredGen, Steps
    <2>3. NewestGen = 0
      BY <2>2 DEF NewestGen, Steps
    <2> QED
      BY <2>2, <2>3 DEF Store!StoreInit
  <1> QED
    BY <1>1, StoreInductive, StoreStep, PTL DEF Spec, ImplementsStore, Store!StoreSpec
-----------------------------------------------------------------------------
(***************************************************************************)
(* The regime that keeps the whole state of the last checkpoint only.  No  *)
(* barrier follows the reading of the list of checkpoints there, and the   *)
(* ranks may part; but rank 0 alone deletes, and its own list is complete. *)
(***************************************************************************)
\* The full checkpoints that are not the last one, and that there are none.
Earlier  == {s \in FullVisible : \E t \in FullVisible : s < t}
LastOnly == \A s, t \in FullVisible : s = t

\* Rank 0 has come back from its last commit and all that follows it.
SettledIn(l, j, o, c) ==
    /\ j = "none" /\ c # 0
    /\ \/ l \in {"idle", "score", "scoreW", "scoreB"}
       \/ l \in {"stale", "staleB", "rmStale", "rmStaleB"} /\ o = "score"

Settled == SettledIn(pc[Root], job[Root], op, cur.gen)

\* Where rank 0 is before its commit.
Committing ==
    {"poll", "yes", "no", "wait", "waitB", "rmBegin", "rmBeginB", "mkdir", "syncB", "queue", "own",
     "commitB", "move", "movedB"}

FullOK ==
    /\ pc[Root] = "down" => cur.gen = 0
    /\ pc[Root] \in Committing => op # "score"
    /\ pc[Root] \in {"poll", "yes", "no", "wait", "waitB"} => job[Root] # "none"
    /\ Mode = "all_but_last" =>
         /\ Settled => LastOnly
         /\ pc[Root] = "rmPrev" => Earlier \subseteq todo[Root]
         /\ pc[Root] = "rmPrevB" => Earlier \subseteq Rest(Root)

LEMMA EarlierIs ==
  /\ FullVisible \subseteq Int
  /\ Earlier = {} => LastOnly
  /\ {s \in FullVisible : ~IsMax(FullVisible, s)} = Earlier
  <1>1. FullVisible \subseteq Int
    BY BoundAssumption DEF FullVisible, Steps
  <1>2. Earlier = {} => LastOnly
    BY <1>1 DEF Earlier, LastOnly
  <1>3. \A s \in FullVisible : ~IsMax(FullVisible, s) <=> \E t \in FullVisible : s < t
    BY <1>1 DEF IsMax
  <1> QED
    BY <1>1, <1>2, <1>3 DEF Earlier

\* With fewer full checkpoints there are fewer to delete.
LEMMA FewerFull ==
  ASSUME FullVisible' \subseteq FullVisible
  PROVE  Earlier' \subseteq Earlier /\ (LastOnly => LastOnly')
  BY DEF Earlier, LastOnly

\* A step of the others, or of rank 0 between two places that mean the same.
LEMMA FullSame ==
  ASSUME FullOK, dir' = dir, todo'[Root] = todo[Root],
         \/ pc'[Root] = pc[Root] /\ cur' = cur /\ (job[Root] # "none" => job'[Root] # "none")
         \/ pc'[Root] \notin {"down", "poll", "yes", "no", "wait", "waitB", "rmPrev", "rmPrevB"},
         pc'[Root] \in Committing => op' # "score",
         Settled' => Settled
  PROVE  FullOK'
  <1>1. FullVisible' = FullVisible
    BY DEF FullVisible
  <1>2. Earlier' = Earlier /\ LastOnly' = LastOnly
    BY <1>1 DEF Earlier, LastOnly
  <1>3. pc'[Root] = pc[Root] => Rest(Root)' = Rest(Root)
    BY DEF Rest
  <1> QED
    BY <1>2, <1>3 DEF FullOK

\* From the pruning of stale checkpoints, rank 0 goes on to that of the full ones after a save.
LEMMA FullStale ==
  ASSUME FullOK, pc[Root] \in {"stale", "staleB", "rmStale", "rmStaleB"},
         pc'[Root] \in {AfterStale, "dead", "staleB", "rmStale"}, UNCHANGED <<dir, cur, op, job>>
  PROVE  FullOK'
  <1>1. FullVisible' = FullVisible
    BY DEF FullVisible
  <1>2. LastOnly' = LastOnly
    BY <1>1 DEF LastOnly
  <1>3. pc'[Root] \in {"idle", "prev", "rmBegin", "dead", "staleB", "rmStale"}
    BY DEF AfterStale, AfterCommit
  <1>4. Mode = "all_but_last" /\ pc'[Root] = "idle" => op = "score"
    BY DEF AfterStale
  <1>5. pc'[Root] = "rmBegin" => op # "score"
    BY DEF AfterStale, AfterCommit
  <1> QED
    BY <1>2, <1>3, <1>4, <1>5 DEF FullOK, Settled, SettledIn, Committing

LEMMA FullStep == TypeOK /\ FullOK /\ [Next]_vars => FullOK'
  <1> SUFFICES ASSUME TypeOK, FullOK, [Next]_vars PROVE FullOK'
    OBVIOUS
  <1> USE RankAssumption DEF Goto, callVars, fsVars
  <1>0. /\ pc \in [Ranks -> Label] /\ Root \in Ranks /\ todo \in [Ranks -> SUBSET Steps]
        /\ job \in [Ranks -> {"none", "running", "failed"}]
    BY DEF TypeOK
  <1>b. pc[Root] \in Committing => op # "score"
    BY DEF FullOK
  <1>1. ASSUME NEW r \in Ranks, RankStep(r) PROVE FullOK'
    <2>1. CASE r # Root
      <3>1. /\ dir' = dir /\ cur' = cur /\ op' = op /\ pc'[Root] = pc[Root] /\ job'[Root] = job[Root]
            /\ todo'[Root] = todo[Root]
        BY <1>0, <1>1, <2>1
        DEF RankStep, Vote, Wait, WaitOwn, ReadStale, ReadPrevious, SkipRemove, MakeDirs, Queue
      <3> QED
        BY <3>1, <1>b, FullSame DEF Settled
    <2>2. CASE Vote(Root)
      <3>1. /\ pc[Root] = "poll" /\ pc'[Root] \in {"yes", "no"}
            /\ UNCHANGED <<dir, cur, op, job, todo>>
        BY <1>0, <2>2 DEF Vote
      <3> QED
        BY <3>1 DEF FullOK, Settled, SettledIn, Committing
    <2>3. CASE Wait(Root)
      <3>1. /\ pc[Root] = "wait" /\ pc'[Root] \in {"dead", "waitB"}
            /\ UNCHANGED <<dir, cur, op, job, todo>>
        BY <1>0, <2>3 DEF Wait
      <3> QED
        BY <3>1 DEF FullOK, Settled, SettledIn, Committing
    <2>4. CASE WaitOwn(Root)
      <3>1. pc[Root] = "own" /\ pc'[Root] \in {"dead", "commitB"} /\ UNCHANGED <<dir, cur, op, todo>>
        BY <1>0, <2>4 DEF WaitOwn
      <3> QED
        BY <3>1, <1>b, FullSame DEF Settled, SettledIn, Committing
    <2>5. CASE ReadStale(Root)
      <3>1. /\ pc[Root] = "stale" /\ pc'[Root] \in {AfterStale, "dead", "staleB"}
            /\ UNCHANGED <<dir, cur, op, job>>
        BY <1>0, <2>5 DEF ReadStale
      <3> QED
        BY <3>1, FullStale
    <2>6. CASE ReadPrevious(Root)
      <3>1. /\ todo'[Root] = Earlier /\ pc'[Root] = IF Earlier = {} THEN AfterCommit ELSE "rmPrev"
            /\ UNCHANGED <<dir, cur, op, job>>
        BY <1>0, <2>6, EarlierIs DEF ReadPrevious
      <3>2. pc'[Root] \in {"idle", "rmBegin", "rmPrev"} /\ (pc'[Root] # "rmPrev" => LastOnly)
        BY <3>1, EarlierIs DEF AfterCommit
      <3>3. FullVisible' = FullVisible
        BY <3>1 DEF FullVisible
      <3>4. Earlier' = Earlier /\ LastOnly' = LastOnly
        BY <3>3 DEF Earlier, LastOnly
      <3>5. pc'[Root] = "rmBegin" => op # "score"
        BY <3>1 DEF AfterCommit
      <3> QED
        BY <3>1, <3>2, <3>4, <3>5 DEF FullOK, Settled, SettledIn, Committing
    <2>7. CASE SkipRemove(Root)
      BY <2>7 DEF SkipRemove
    <2>8. CASE MakeDirs(Root)
      <3>1. pc[Root] = "mkdir" /\ pc'[Root] = "syncB" /\ UNCHANGED <<dir, cur, op, job, todo>>
        BY <1>0, <2>8 DEF MakeDirs
      <3> QED
        BY <3>1, <1>b, FullSame DEF Settled, SettledIn, Committing
    <2>9. CASE Queue(Root)
      <3>1. /\ pc[Root] = "queue" /\ pc'[Root] \in {"idle", "own"} /\ job'[Root] = "running"
            /\ UNCHANGED <<dir, cur, op, todo>>
        BY <1>0, <2>9 DEF Queue
      <3> QED
        BY <3>1, <1>b, FullSame DEF Settled, SettledIn, Committing
    <2> QED
      BY <1>1, <2>1, <2>2, <2>3, <2>4, <2>5, <2>6, <2>7, <2>8, <2>9 DEF RankStep
  <1>2. CASE RootStep
    <2>1. CASE Move
      <3>1. pc[Root] = "move" /\ pc'[Root] = "movedB" /\ op' = op
        BY <1>0, <2>1 DEF Move
      <3> QED
        BY <3>1 DEF FullOK, Settled, SettledIn, Committing
    <2>2. ASSUME NEW s \in Steps, RemoveTmp(s) PROVE FullOK'
      BY <2>2, <1>b, FullSame DEF RemoveTmp, Settled
    <2>3. ASSUME NEW s \in Steps, RemoveScore(s) PROVE FullOK'
      <3>1. /\ pc[Root] \in Removing /\ IsTarget(Root, s) /\ Doomed(pc[Root], s) = {}
            /\ pc'[Root] = Barrier(pc[Root]) /\ UNCHANGED <<dir, cur, op, job, todo>>
        BY <1>0, <2>3 DEF RemoveScore
      <3>2. CASE pc[Root] # "rmPrev"
        <4>1. (pc[Root] = "rmBegin" /\ pc'[Root] = "rmBeginB") \/ (pc[Root] = "rmStale" /\ pc'[Root] = "rmStaleB")
          BY <3>1, <3>2 DEF Removing, Barrier
        <4> QED
          BY <3>1, <4>1, <1>b, FullSame DEF Settled, SettledIn, Committing
      <3>3. CASE pc[Root] = "rmPrev"
        <4>1. pc'[Root] = "rmPrevB" /\ IsMin(todo[Root], s)
          BY <3>1, <3>3 DEF Barrier, IsTarget
        <4>2. s \notin FullVisible
          <5>1. ASSUME NEW r \in Ranks PROVE dir[s][<<"trainer", r>>] = 0
            <6>1. <<"trainer", r>> \in File /\ <<"trainer", r>>[1] # "model"
              BY DEF File
            <6> QED
              BY <3>1, <6>1 DEF Doomed
          <5> QED
            BY <5>1 DEF FullVisible
        <4>3. ASSUME Mode = "all_but_last", NEW t \in Earlier PROVE t \in Rest(Root)
          <5>1. t \in todo[Root] /\ t # s /\ t \in Int /\ s \in Int
            BY <3>3, <4>2, <4>3, EarlierIs, BoundAssumption DEF FullOK, Earlier, Steps
          <5>2. ~IsMin(todo[Root], t)
            BY <4>1, <5>1 DEF IsMin
          <5> QED
            BY <5>1, <5>2 DEF Rest
        <4>4. Earlier' = Earlier /\ Rest(Root)' = Rest(Root)
          BY <3>1 DEF Earlier, FullVisible, Rest
        <4> QED
          BY <4>1, <4>3, <4>4 DEF FullOK, Settled, SettledIn, Committing
      <3> QED
        BY <3>2, <3>3
    <2>4. ASSUME NEW s \in Steps, NEW f \in File, RemoveFile(s, f) PROVE FullOK'
      <3>1. UNCHANGED <<pc, cur, op, job, todo>> /\ dir' = [dir EXCEPT ![s][f] = 0]
        BY <2>4 DEF RemoveFile
      <3>2. FullVisible' \subseteq FullVisible
        <4>1. ASSUME NEW t \in Steps, NEW r \in Ranks, dir'[t][<<"trainer", r>>] # 0
              PROVE  dir[t][<<"trainer", r>>] # 0
          <5> DEFINE e == <<"trainer", r>>
          <5>1. e \in File /\ dir \in [Steps -> [File -> 0..MaxGen]]
            BY DEF File, TypeOK
          <5> HIDE DEF e
          <5>2. dir'[t][e] = IF t = s /\ e = f THEN 0 ELSE dir[t][e]
            BY <2>4, <3>1, <4>1, <5>1
          <5> QED
            BY <4>1, <5>2 DEF e
        <4> QED
          BY <4>1 DEF FullVisible
      <3>3. Earlier' \subseteq Earlier /\ (LastOnly => LastOnly')
        BY <3>2, FewerFull
      <3>4. Rest(Root)' = Rest(Root)
        BY <3>1 DEF Rest
      <3> QED
        BY <3>1, <3>3, <3>4 DEF FullOK, Settled
    <2>5. CASE OpenScore
      <3>1. pc[Root] = "score" /\ pc'[Root] = "scoreW" /\ UNCHANGED <<dir, cur, op, job, todo>>
        BY <1>0, <2>5 DEF OpenScore
      <3> QED
        BY <3>1, <1>b, FullSame DEF Settled, SettledIn, Committing
    <2>6. CASE WriteScore
      <3>1. pc[Root] = "scoreW" /\ pc'[Root] = "scoreB" /\ UNCHANGED <<dir, cur, op, job, todo>>
        BY <1>0, <2>6 DEF WriteScore
      <3> QED
        BY <3>1, <1>b, FullSame DEF Settled, SettledIn, Committing
    <2> QED
      BY <1>2, <2>1, <2>2, <2>3, <2>4, <2>5, <2>6 DEF RootStep
  <1>3. CASE GangStep
    <2>1. CASE Counted
      <3>1. CASE At("yes")
        <4>1. pc[Root] = "yes" /\ pc'[Root] \in {"dead", "commitB"} /\ UNCHANGED <<dir, cur, op, todo>>
          BY <1>0, <2>1, <3>1 DEF Counted, At
        <4> QED
          BY <4>1, <1>b, FullSame DEF Settled, SettledIn, Committing
      <3>2. CASE ~At("yes")
        <4>1. /\ pc[Root] \in {"yes", "no"} /\ pc'[Root] = "idle"
              /\ UNCHANGED <<dir, cur, op, job, todo>>
          BY <1>0, <2>1, <3>2 DEF Counted
        <4>2. job'[Root] # "none"
          BY <4>1 DEF FullOK
        <4> QED
          BY <4>1, <4>2, <1>b, FullSame DEF Settled, SettledIn, Committing
      <3> QED
        BY <3>1, <3>2
    <2>2. CASE Waited \/ CommitBarrier \/ SyncBarrier
      <3>1. /\ pc[Root] \in {"waitB", "commitB", "syncB"} /\ pc'[Root] \in {"commitB", "move", "queue"}
            /\ UNCHANGED <<dir, cur, op, todo>>
        BY <1>0, <2>2 DEF Waited, CommitBarrier, SyncBarrier, Collective, RootElse, At
      <3> QED
        BY <3>1, <1>b, FullSame DEF Settled, SettledIn, Committing
    <2>3. CASE MovedBarrier
      <3>1. pc[Root] = "movedB" /\ pc'[Root] = "stale" /\ UNCHANGED <<dir, cur, op, job, todo>>
        BY <1>0, <2>3 DEF MovedBarrier, Collective, At
      <3> QED
        BY <3>1, <1>b, FullSame DEF Settled, SettledIn, Committing
    <2>4. CASE StaleBarrier \/ RemovedStale
      <3>1. /\ pc[Root] \in {"staleB", "rmStaleB"} /\ pc'[Root] \in {AfterStale, "rmStale"}
            /\ UNCHANGED <<dir, cur, op, job>>
        BY <1>0, <2>4 DEF StaleBarrier, RemovedStale, RemovedBarrier, Barrier, Collective, At, Loop
      <3> QED
        BY <3>1, FullStale
    <2>5. CASE RemovedPrevious
      <3>1. /\ pc[Root] = "rmPrevB" /\ todo'[Root] = Rest(Root)
            /\ pc'[Root] = IF todo'[Root] = {} THEN AfterCommit ELSE "rmPrev"
            /\ UNCHANGED <<dir, cur, op, job>>
        BY <1>0, <2>5 DEF RemovedPrevious, RemovedBarrier, Barrier, Collective, At, Loop
      <3>2. Mode = "all_but_last" => Earlier \subseteq todo'[Root]
        BY <3>1 DEF FullOK
      <3>3. FullVisible' = FullVisible
        BY <3>1 DEF FullVisible
      <3>4. Earlier' = Earlier /\ LastOnly' = LastOnly
        BY <3>3 DEF Earlier, LastOnly
      <3>5. pc'[Root] \in {"idle", "rmBegin", "rmPrev"} /\ (pc'[Root] # "rmPrev" => todo'[Root] = {})
        BY <3>1 DEF AfterCommit
      <3>6. Mode = "all_but_last" /\ pc'[Root] # "rmPrev" => LastOnly
        BY <3>2, <3>5, EarlierIs
      <3>7. pc'[Root] = "rmBegin" => op # "score"
        BY <3>1 DEF AfterCommit
      <3> QED
        BY <3>1, <3>2, <3>4, <3>5, <3>6, <3>7 DEF FullOK, Settled, SettledIn, Committing
    <2>6. CASE BeginBarrier
      <3>1. pc[Root] = "rmBeginB" /\ pc'[Root] = "mkdir" /\ UNCHANGED <<dir, op, todo>>
        BY <1>0, <2>6 DEF BeginBarrier, Collective, At
      <3> QED
        BY <3>1, <1>b, FullSame DEF Settled, SettledIn, Committing
    <2>7. CASE ScoreBarrier
      <3>1. /\ pc[Root] = "scoreB" /\ pc'[Root] \in {"stale", "idle"}
            /\ UNCHANGED <<dir, cur, op, job, todo>>
        BY <1>0, <2>7 DEF ScoreBarrier, Collective, At
      <3> QED
        BY <3>1, <1>b, FullSame DEF Settled, SettledIn, Committing
    <2> QED
      BY <1>3, <2>1, <2>2, <2>3, <2>4, <2>5, <2>6, <2>7 DEF GangStep
  <1>4. CASE Call
    <2>1. ASSUME NEW kind \in {"save", "bsave"}, StartSave(kind) PROVE FullOK'
      <3>1. /\ op' = kind /\ pc'[Root] = (IF job[Root] = "none" THEN "rmBegin" ELSE "wait")
            /\ UNCHANGED <<dir, cur, job, todo>>
        BY <1>0, <2>1 DEF StartSave
      <3> QED
        BY <2>1, <3>1 DEF FullOK, Settled, SettledIn, Committing
    <2>2. CASE StartPoll \/ StartComplete
      <3>1. /\ op' # "score" /\ pc'[Root] \in {"poll", "wait"} /\ job[Root] # "none"
            /\ UNCHANGED <<dir, cur, job, todo>>
        BY <1>0, <2>2 DEF StartPoll, StartComplete
      <3> QED
        BY <3>1 DEF FullOK, Settled, SettledIn, Committing
    <2>3. CASE StartScore
      <3>1. pc[Root] = "idle" /\ pc'[Root] = "score" /\ UNCHANGED <<dir, cur, job, todo>>
        BY <1>0, <2>3 DEF StartScore, At, RootElse
      <3> QED
        BY <3>1, <1>b, FullSame DEF Settled, SettledIn, Committing
    <2> QED
      BY <1>4, <2>1, <2>2, <2>3 DEF Call
  <1>5. ASSUME NEW r \in Ranks, WriteFile(r) PROVE FullOK'
    <2>1. /\ UNCHANGED <<dir, cur, op, pc, todo>>
          /\ job[Root] # "none" => job'[Root] # "none"
          /\ job'[Root] = "none" => job[Root] = "none"
      BY <1>0, <1>5 DEF WriteFile
    <2> QED
      BY <2>1, <1>b, FullSame DEF Settled, SettledIn
  <1>6. ASSUME NEW r \in Ranks, WriteFail(r) PROVE FullOK'
    <2>1. /\ UNCHANGED <<dir, cur, op, pc, todo>>
          /\ job[Root] # "none" => job'[Root] # "none"
          /\ job'[Root] = "none" => job[Root] = "none"
      BY <1>0, <1>6 DEF WriteFail
    <2> QED
      BY <2>1, <1>b, FullSame DEF Settled, SettledIn
  <1>7. CASE Crash
    <2>1. pc'[Root] = "down" /\ cur'.gen = 0
      BY <1>0, <1>7 DEF Crash, NoSave
    <2> QED
      BY <2>1 DEF FullOK, Settled, SettledIn, Committing
  <1>8. CASE Restart
    <2>1. pc[Root] = "down" /\ pc'[Root] \in {"idle", "dead"} /\ cur' = cur /\ op' = op
      BY <1>0, <1>8 DEF Restart, At
    <2> QED
      BY <2>1 DEF FullOK, Settled, SettledIn, Committing
  <1>9. CASE UNCHANGED vars
    BY <1>9, <1>b, FullSame DEF vars, Settled
  <1> QED
    BY <1>1, <1>2, <1>3, <1>4, <1>5, <1>6, <1>7, <1>8, <1>9 DEF Next, Stopped

LEMMA FullInit == Init => FullOK
  BY RankAssumption DEF Init, FullOK, Settled, SettledIn, Committing, NoSave

\* In the mode `all_but_last`, between two calls and with no save under way, no checkpoint but
\* the last one has its full state, although the ranks may have parted on the way: rank 0
\* deletes by a list it read when nobody else could change the tree.
THEOREM OnlyTheLastIsFull == Spec => []OnlyLastFull
  <1>1. TypeOK /\ FullOK => OnlyLastFull
    <2> SUFFICES ASSUME FullOK, Mode = "all_but_last", At("idle"), cur.gen # 0,
                        \A r \in Ranks : job[r] = "none", NEW s \in FullVisible
                 PROVE  IsMax(FullVisible, s)
      BY DEF OnlyLastFull
    <2>1. LastOnly
      BY RankAssumption DEF FullOK, Settled, SettledIn, At
    <2> QED
      BY <2>1, EarlierIs DEF LastOnly, IsMax
  <1>2. TypeOK /\ FullOK /\ [Next]_vars => (TypeOK /\ FullOK)'
    BY TypeStep, FullStep
  <1>3. Init => TypeOK /\ FullOK
    BY TypeInit, FullInit
  <1> QED
    BY <1>1, <1>2, <1>3, PTL DEF Spec
=============================================================================
