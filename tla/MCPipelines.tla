----------------------------- MODULE MCPipelines -----------------------------
(***************************************************************************)
(* The native data sources, one kind of them at a time: the prefetching    *)
(* source over five examples, the third of which may fail; the parallel    *)
(* map over three, the second of which the inner source may fail to give   *)
(* and the third the function may fail on, with two pool threads; and the  *)
(* sequential sources over all of the pipelines below.                     *)
(***************************************************************************)
EXTENDS Prefetch, MapSource, Sources

VARIABLE kind  \* the source that is used; the state of the others stays as it is

ThirdBad   == {3}
SecondBad  == {2}
TwoWorkers == {1, 2}

Plain == [op |-> "list", lists |-> <<<<>>>>, pseudo |-> {}, bad |-> {}, reject |-> {},
          flags |-> {}, n |-> 0, m |-> 0, min |-> 0, len |-> <<>>, sub |-> <<>>,
          sizes |-> <<>>]

PipelinesInit ==
    /\ kind \in {"prefetch", "map", "sequential"}
    /\ Init /\ MapInit /\ PipeInit
    /\ kind # "map" => ~deterministic
    /\ kind # "sequential" => pipe.op = "count"

Prefetching == kind = "prefetch" /\ Next /\ UNCHANGED <<mapVars, pipeVars>>
Mapping     == kind = "map" /\ MapNext /\ UNCHANGED <<vars, pipeVars>>
Sequential  == kind = "sequential" /\ PipeNext /\ UNCHANGED <<vars, mapVars>>

\* A reader of a sequential source may stop.
StopReading == kind = "sequential" /\ UNCHANGED <<vars, mapVars, pipeVars>>

PipelinesNext ==
    (Prefetching \/ Mapping \/ Sequential \/ StopReading) /\ UNCHANGED kind

PipelinesSpec ==
    /\ PipelinesInit /\ [][PipelinesNext]_<<kind, vars, mapVars, pipeVars>>
    /\ WF_vars(ThreadStep) /\ WF_vars(CallerStep)
    /\ MapFairness

\* Every call of a source with threads returns, of the prefetcher and of the map (while
\* there is an example left), since the threads wake each other.
EveryCallReturns == CallsReturn /\ NextReturns

-----------------------------------------------------------------------------
\* The pipelines that are read.
UpTo(k) == [i \in 1..k |-> i]
From(a, k) == [i \in 1..k |-> a + i]
Bads == {{}, {1}, {2, 3}}

Lists1 == {[Plain EXCEPT !.op = o, !.lists = <<UpTo(k)>>, !.n = 2, !.reject = {2}, !.bad = b] :
             o \in {"list", "take", "filter"}, k \in {0, 2, 4}, b \in Bads}
Skips  == {[Plain EXCEPT !.op = "skip", !.lists = <<UpTo(k)>>, !.n = n] : k \in 0..4, n \in {0, 2}}
Counts == {[Plain EXCEPT !.op = "count", !.n = 1, !.m = 2]}
Shards == {[Plain EXCEPT !.op = "shard", !.lists = <<UpTo(k)>>, !.n = n, !.m = 3, !.flags = f] :
             k \in {0, 3, 4, 5}, n \in 0..2, f \in {{}, {"allow_uneven"}}}
Repeats == {[Plain EXCEPT !.op = "repeat", !.lists = <<UpTo(k)>>, !.n = n, !.bad = b] :
             k \in {0, 2, 3}, n \in {-1, 0, 2}, b \in {{}, {2}}}
Concats == {[Plain EXCEPT !.op = "concat", !.lists = <<UpTo(k), From(3, l)>>, !.bad = b] :
             k \in {0, 3}, l \in {0, 2}, b \in Bads}
Zips    == {[Plain EXCEPT !.op = "zip", !.lists = <<UpTo(k), From(3, l)>>, !.flags = f] :
             k \in 0..2, l \in 0..2, f \in {{}, {"zip_to_shortest"}}}
Rounds  == {[Plain EXCEPT !.op = "round_robin", !.lists = <<UpTo(k), From(3, l), From(6, j)>>,
                          !.flags = f] :
             k \in {1, 3}, l \in {0, 2}, j \in {1, 3},
             f \in SUBSET {"allow_repeats", "stop_at_shortest"}}
Samples == {[Plain EXCEPT !.op = "sample", !.lists = <<UpTo(k), From(3, l)>>, !.flags = f] :
             k \in {0, 1, 3}, l \in {0, 2}, f \in {{}, {"allow_repeats"}}}
Yields  == {[Plain EXCEPT !.op = "yield_from", !.lists = <<UpTo(3)>>, !.bad = b,
                          !.sub = <<s, <<>>, <<13, 14>>>>] :
             b \in Bads, s \in {<<>>, <<11, 12>>}}
Shuffles == {[Plain EXCEPT !.op = "shuffle", !.lists = <<UpTo(k)>>, !.n = n] :
             k \in {0, 2, 4}, n \in 0..3}
Buckets == {[Plain EXCEPT !.op = "bucket", !.lists = <<UpTo(k)>>, !.n = n, !.flags = f] :
             k \in {0, 4, 5}, n \in 1..2, f \in {{}, {"drop_remainder"}}}
ByLengths == {[Plain EXCEPT !.op = "bucket_by_length", !.lists = <<UpTo(5)>>, !.min = 1,
                            !.flags = f, !.bad = b, !.len = l, !.sizes = <<<<3, 1>>, <<2, 2>>, <<1, 3>>>>] :
             b \in {{}, {2}}, l \in {<<1, 2, 1, 2, 1>>, <<1, 1, 2, 3, 1>>, <<2, 1, 0, 4, 1>>},
             f \in SUBSET {"drop_remainder", "skip_outliers"}}
Dynamics == {[Plain EXCEPT !.op = "dynamic_bucket", !.lists = <<UpTo(k)>>, !.n = n, !.m = m,
                           !.min = i, !.flags = f, !.len = <<1, 2, 1, 3, 1>>] :
             k \in {0, 5}, n \in {2, 4}, m \in {0, 2}, i \in {0, 2},
             f \in SUBSET {"drop_remainder", "bucket_creation_fn"}}
Packs == {[Plain EXCEPT !.op = "pack", !.lists = <<UpTo(k)>>, !.n = n, !.m = m, !.flags = f,
                        !.len = <<2, 0, 4, 1, 3>>] :
             k \in {0, 2, 5}, n \in {3, 4}, m \in {2, 4}, f \in SUBSET {"drop_remainder", "truncate"}}
WithConstant == {[Plain EXCEPT !.op = o, !.lists = <<UpTo(k), <<>>>>, !.pseudo = {2}, !.flags = f] :
                   o \in {"zip", "round_robin"}, k \in 1..3, f \in {{}, {"allow_repeats"}}}
AllPipelines == WithConstant \cup Lists1 \cup Skips \cup Counts \cup Shards \cup Repeats \cup Concats \cup Zips
                \cup Rounds \cup Samples \cup Yields \cup Shuffles \cup Buckets \cup ByLengths
                \cup Dynamics \cup Packs
SomeDraws == <<5, 0, 2, 4, 1, 3, 3>>
=============================================================================
