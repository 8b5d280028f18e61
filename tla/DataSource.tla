------------------------------ MODULE DataSource ------------------------------
(***************************************************************************)
(* What any data source of the native pipeline promises its one reader     *)
(* (data_source.h): the examples come in their order, each once; the end   *)
(* is reported after the last one only; a recorded position, reloaded at   *)
(* any later time, continues with the example that was next when it was    *)
(* recorded.                                                               *)
(***************************************************************************)
EXTENDS Integers

CONSTANTS
    Size,    \* number of examples
    Bad,     \* the ones whose processing raises an error
    Strict   \* whether the position holds the buffered examples too

VARIABLES
    at,      \* examples delivered since the beginning
    saved,   \* the recorded position, NoPosition if none
    out      \* what the last read returned: an example, Eod or Error

Eod == 0
Error == -1
NoPosition == -1

sourceVars == <<at, saved, out>>

SourceInit == at = 0 /\ saved = NoPosition /\ out = Eod

Deliver == at < Size /\ at' = at + 1 /\ out' = at + 1 /\ UNCHANGED saved

End == at = Size /\ out' = Eod /\ UNCHANGED <<at, saved>>

\* An error may overtake examples that were read ahead of it.
Fail == (\E b \in Bad : b > at) /\ out' = Error /\ UNCHANGED <<at, saved>>

Reset == at' = 0 /\ UNCHANGED <<saved, out>>

\* Without the buffers, what was read ahead is skipped.
Record ==
    /\ saved' \in IF Strict THEN {at} ELSE at..Size
    /\ UNCHANGED <<at, out>>

Reload == saved # NoPosition /\ at' = saved /\ UNCHANGED <<saved, out>>

SourceNext == Deliver \/ End \/ Fail \/ Reset \/ Record \/ Reload

SourceSpec == SourceInit /\ [][SourceNext]_sourceVars
=============================================================================
