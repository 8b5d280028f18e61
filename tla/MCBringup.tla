------------------------------ MODULE MCBringup ------------------------------
(***************************************************************************)
(* Instances of Bringup: jobs of two processes, replicated, sharded and    *)
(* tensor parallel, and of four.                                           *)
(***************************************************************************)
EXTENDS Bringup

Job(size, tp, parallelism, local) ==
    [size |-> size, tp |-> tp, parallelism |-> parallelism, local |-> local]

JobLayouts ==
    {Job(2, 1, "ddp", 1), Job(2, 1, "fsdp", 1), Job(2, 2, "ddp", 1), Job(4, 2, "ddp", 1),
     Job(4, 2, "fsdp", 1), Job(4, 1, "hybrid", 2)}

Request(kind, l, section, remote, meta, kept) ==
    [task |-> kind, layout |-> l, section |-> section, remote |-> remote, meta |-> meta,
     kept |-> kept, rank0only |-> FALSE, onMeta |-> FALSE, whole |-> FALSE, gangs |-> TRUE]

Sections == {{"path", "name", "family"}, {"name"}, {"family"}}

TrainTasks ==
    {[Request("train", l, s, "name" \in s, meta, kept) EXCEPT !.whole = w] :
        l \in JobLayouts, s \in Sections, meta \in BOOLEAN, kept \in {"none", "full"},
        w \in BOOLEAN}

OtherTasks ==
    {Request("reference", l, s, TRUE, meta, "none") :
        l \in JobLayouts, s \in Sections \ {{"family"}}, meta \in BOOLEAN}
    \cup {[Request(kind, l, {"name"}, remote, meta, "none") EXCEPT !.rank0only = first, !.gangs = gs] :
            kind \in {"load", "custom", "create"}, l \in {Job(2, 1, "ddp", 1), Job(2, 2, "ddp", 1)},
            remote \in BOOLEAN, meta \in BOOLEAN, first \in BOOLEAN, gs \in BOOLEAN}
    \cup {[Request("create", Job(2, 1, "ddp", 1), {"family"}, FALSE, TRUE, "none")
             EXCEPT !.onMeta = TRUE]}
    \cup {Request("dataset", Job(2, 1, "ddp", 1), {"name"}, FALSE, FALSE, "none")}

SomeTasks == TrainTasks \cup OtherTasks
=============================================================================
