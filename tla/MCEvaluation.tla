---------------------------- MODULE MCEvaluation ----------------------------
(***************************************************************************)
(* Instances of Evaluation: two data parallel ranks, with and without      *)
(* tensor parallelism, one or two units with uneven and empty shards.      *)
(***************************************************************************)
EXTENDS Evaluation

Grid2(tp) == [size |-> 2 * tp, tp |-> tp, parallelism |-> "ddp", local |-> 1]

OneUnit(m, a, b) == [mode |-> m, shards |-> <<a, b>>]

UnitLists ==
    {<<OneUnit("UNTIL_LAST", 2, 1)>>, <<OneUnit("UNTIL_FIRST", 1, 0)>>,
     <<OneUnit("UNTIL_FIRST", 2, 1), OneUnit("UNTIL_LAST", 0, 1)>>}

Evaluate(kind, tp, us) ==
    [task |-> kind, layout |-> Grid2(tp), units |-> us, scored |-> FALSE, saving |-> FALSE,
     stopper |-> FALSE, older |-> FALSE, stoppable |-> FALSE]

Validations ==
    {[Evaluate("validation", tp, us) EXCEPT !.scored = sc, !.saving = sv, !.stopper = st, !.older = o] :
        tp \in 1..2, us \in UnitLists, sc \in BOOLEAN, sv \in BOOLEAN, st \in BOOLEAN, o \in BOOLEAN}

OtherEvals ==
    {[Evaluate(kind, tp, us) EXCEPT !.stoppable = st] :
        kind \in {"evaluation", "generation"}, tp \in 1..2, us \in UnitLists, st \in BOOLEAN}

SomeEvals == Validations \cup {e \in OtherEvals : e.task = "evaluation" \/ Len(e.units) = 1}
=============================================================================
