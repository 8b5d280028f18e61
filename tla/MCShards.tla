------------------------------ MODULE MCShards -------------------------------
(***************************************************************************)
(* Instances of Shards: jobs of one, two and four processes.               *)
(***************************************************************************)
EXTENDS Shards

Lay(size, tp, parallelism, local) ==
    [size |-> size, tp |-> tp, parallelism |-> parallelism, local |-> local]

Layouts ==
    {l \in {Lay(size, tp, parallelism, local) :
               size \in {1, 2, 4}, tp \in {1, 2, 4},
               parallelism \in {"ddp", "fsdp", "hybrid"}, local \in {1, 2}} :
       /\ l.tp <= l.size /\ l.local <= l.size
       /\ Accepted(l)
       /\ l.parallelism # "hybrid" => l.local = 1}

Plan(l, modelOnly, buffered) ==
    [layout |-> l, modelOnly |-> modelOnly, buffered |-> buffered]

\* Every layout; saves of the model only without FSDP; a model with a buffer.
SomePlans ==
    {Plan(l, FALSE, FALSE) : l \in Layouts}
    \cup {Plan(l, TRUE, FALSE) : l \in {l \in Layouts : l.parallelism = "ddp"}}
    \cup {Plan(l, FALSE, TRUE) : l \in {l \in Layouts : l.size = 2 /\ l.tp = 1}}

\* FSDP and saves of the model only.
ModelOnlyPlans == {Plan(Lay(2, 1, "fsdp", 1), TRUE, FALSE)}
=============================================================================
