------------------------------ MODULE MCTrainer ------------------------------
(***************************************************************************)
(* Instances of Trainer: two ranks, which may get SIGUSR1 at different     *)
(* moments; a training up to a number of steps, and one up to a number of  *)
(* passes over the data.                                                   *)
(***************************************************************************)
EXTENDS Trainer

TwoRanks == {0, 1}

Sched(n, m) == [every |-> n, after |-> 0, everyEpochs |-> m, afterEpochs |-> 0]

EveryTwo   == Sched(2, 0)
EveryEpoch == Sched(0, 1)

MCVal(sc) == [present |-> TRUE, schedule |-> sc]
NoVal     == [present |-> FALSE, schedule |-> Sched(0, 0)]

Train(steps, epochs, v, signalled) ==
    [maxNumSteps |-> steps, maxNumEpochs |-> epochs, val |-> v, stopper |-> v.present,
     signals |-> signalled]

\* Up to a number of steps, or of passes; the latter may be asked to stop.
SomePlans == {Train(5, 0, MCVal(EveryTwo), FALSE), Train(0, 2, MCVal(EveryEpoch), TRUE)}
=============================================================================
