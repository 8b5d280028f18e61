----------------------------- MODULE MCCheckpoint -----------------------------
(***************************************************************************)
(* Instances of Checkpoint: a data-parallel gang of two ranks (rank 0      *)
(* writes the model and optimizer) and a sharded gang of two.              *)
(***************************************************************************)
EXTENDS Checkpoint

AllRanks   == {0, 1}
OnlyRoot   == {0}
LeadRoot   == [r \in {0} |-> 0]
LeadShared == [r \in {0, 1} |-> 0]
=============================================================================
