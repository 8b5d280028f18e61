--------------------------- MODULE CheckpointStore ----------------------------
(***************************************************************************)
(* What a checkpoint manager promises the trainer that resumes from it: a  *)
(* store of whole checkpoints.  Publishing one is atomic, its content is   *)
(* that of one save call, and the last one is never taken away, whatever   *)
(* happens to the processes.                                               *)
(***************************************************************************)
EXTENDS Integers

CONSTANTS MaxStep, MaxGen

VARIABLES
    stored,   \* step number -> generation of its checkpoint, 0 if none
    newest    \* the newest generation published so far

storeVars == <<stored, newest>>

Stored == {s \in 1..MaxStep : stored[s] # 0}

IsLastStored(s) == s \in Stored /\ \A t \in Stored : t <= s

StoreInit == stored = [s \in 1..MaxStep |-> 0] /\ newest = 0

\* A save becomes visible as the new last checkpoint, all of it at once.
Publish(s, g) ==
    /\ g > newest
    /\ \A t \in Stored : t < s
    /\ stored' = [stored EXCEPT ![s] = g]
    /\ newest' = g

\* Pruning takes any checkpoint but the last.
Drop(s) ==
    /\ s \in Stored /\ ~IsLastStored(s)
    /\ stored' = [stored EXCEPT ![s] = 0]
    /\ UNCHANGED newest

StoreNext ==
    \/ \E s \in 1..MaxStep, g \in 1..MaxGen : Publish(s, g)
    \/ \E s \in 1..MaxStep : Drop(s)

StoreSpec == StoreInit /\ [][StoreNext]_storeVars
=============================================================================
