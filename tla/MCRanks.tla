-------------------------------- MODULE MCRanks --------------------------------
(***************************************************************************)
(* What the ranks of a job do together, one question at a time: they bring *)
(* up a model (Bringup), make training steps (Steps), and validate,        *)
(* evaluate or generate (Evaluation).                                      *)
(***************************************************************************)
EXTENDS MCSteps, MCBringup, MCEvaluation

VARIABLE doing  \* which one it is; the state of the others stays as it is

ranksVars == <<doing, stepVars, bringupVars, evalVars>>

OneSetup == Task("eval", "UNTIL_LAST", 1, FALSE, FALSE, FALSE, FALSE, Shards(<<Good>>, <<>>))
OneTask  == Request("dataset", Job(2, 1, "ddp", 1), {"name"}, FALSE, FALSE, "none")
OneEval  == Evaluate("generation", 1, <<OneUnit("UNTIL_LAST", 2, 1)>>)

RanksInit ==
    /\ doing \in {"bringup", "steps", "evaluation"}
    /\ IF doing = "steps" THEN TRUE ELSE setup = OneSetup
    /\ StepsInit
    /\ IF doing = "bringup" THEN TRUE ELSE task = OneTask
    /\ BringupInit
    /\ IF doing = "evaluation" THEN TRUE ELSE eval = OneEval
    /\ EvalInit

\* A step by which a job goes on, and one of its surroundings: a fault, a kill, a signal.
BringingUp ==
    /\ doing = "bringup" /\ \E r \in JobRanks : RankStep(r)
    /\ UNCHANGED <<doing, stepVars, evalVars>>
Stepping ==
    /\ doing = "steps" /\ ((\E r \in Ranks : Local(r)) \/ Collective)
    /\ UNCHANGED <<doing, bringupVars, evalVars>>
Evaluating ==
    /\ doing = "evaluation" /\ \E r \in EvalRanks : Runs(r)
    /\ UNCHANGED <<doing, stepVars, bringupVars>>

GoesOn == BringingUp \/ Stepping \/ Evaluating

Suffers ==
    \/ /\ doing = "bringup" /\ \E r \in JobRanks : Fault(r)
       /\ UNCHANGED <<doing, stepVars, evalVars>>
    \/ /\ doing = "steps" /\ KillJob
       /\ UNCHANGED <<doing, bringupVars, evalVars>>
    \/ /\ doing = "evaluation" /\ \E r \in EvalRanks : TellStop(r)
       /\ UNCHANGED <<doing, stepVars, bringupVars>>

\* Processes run on, and collectives do not wait for ever for those that are gone.
RanksSpec == RanksInit /\ [][GoesOn \/ Suffers]_ranksVars /\ WF_ranksVars(GoesOn)

\* No rank waits for ever for another, in a program of local steps and collectives that
\* each rank goes through by its own state: a model is brought up on all ranks or the
\* job fails on all that are left, training and evaluations come to their end, and the
\* ranks validate and stop together.
EveryTaskEnds ==
    <>(CASE doing = "bringup"    -> BroughtUp
         [] doing = "steps"      -> StepsEnded
         [] doing = "evaluation" -> EvalEnded)
=============================================================================
