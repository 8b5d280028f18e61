------------------------------ MODULE MCModels -------------------------------
(***************************************************************************)
(* Models, one question about them at a time: divided over the ranks of a  *)
(* job (Shards), attending over batches of sequences (Attention), and      *)
(* generating sequences (Generation).                                      *)
(***************************************************************************)
EXTENDS MCShards, MCGeneration, MCAttention

VARIABLE kind  \* which one it is; the state of the others stays as it is

ModelsInit ==
    /\ kind \in {"sharded", "attending", "generating"}
    /\ IF kind = "sharded" THEN TRUE
       ELSE plan = (CHOOSE p \in Plans : TRUE) /\ source = None
    /\ Init
    /\ IF kind = "attending" THEN AttentionInit
       ELSE fw = BeginForward(CHOOSE c \in Calls : TRUE)
    /\ IF kind = "generating" THEN GenInit ELSE g = BeginCall(CHOOSE j \in Jobs : TRUE)

Sharding   == kind = "sharded" /\ Next /\ UNCHANGED <<fw, g>>
Attending  == kind = "attending" /\ AttentionNext /\ UNCHANGED <<vars, g>>
Generating == kind = "generating" /\ GenNext /\ UNCHANGED <<vars, fw>>

\* A forward pass or a call of a generator is over.
Finished ==
    /\ \/ kind = "attending" /\ (fw.at = "refused" \/ fw.layer = Len(fw.call.biases))
       \/ kind = "generating" /\ g.phase \in {"done", "failed"}
    /\ UNCHANGED <<vars, fw, g>>

ModelsNext == (Sharding \/ Attending \/ Generating \/ Finished) /\ UNCHANGED kind

ModelsSpec == ModelsInit /\ [][ModelsNext]_<<kind, vars, fw, g>>
=============================================================================
