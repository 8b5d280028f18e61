-------------------------------- MODULE Gangs --------------------------------
(***************************************************************************)
(* The gangs of gang.py: how create_parallel_gangs and create_fsdp_gangs   *)
(* split the processes of a job over data, replicated, sharded and tensor  *)
(* parallelism, and which layouts recipe/internal/gang.py lets through.    *)
(*                                                                         *)
(* A gang is the sequence of its members, each by its rank in the root     *)
(* gang; the rank of a member in the gang is its position.  A fake gang is *)
(* the process alone.                                                      *)
(***************************************************************************)
EXTENDS Integers, Sequences, Functions

\* A layout: size, the number of processes; tp, tensor_parallel_size; parallelism,
\* "ddp", "fsdp", or "hybrid" if fsdp.hybrid is set; local, the processes of one host.

RankIn(g, r) == (CHOOSE i \in DOMAIN g : g[i] = r) - 1

\* torch.arange(n).view(n / k, k): row i and column j.
MeshRow(k, i)       == [c \in 1..k |-> i * k + c - 1]
MeshColumn(n, k, j) == [c \in 1..(n \div k) |-> (c - 1) * k + j]

\* The members of g at the given ranks of g.
Members(g, ranks) == [i \in DOMAIN ranks |-> g[ranks[i] + 1]]

\* create_parallel_gangs().
ParallelGangs(l, r) ==
    LET dp == MeshColumn(l.size, l.tp, r % l.tp)
    IN  [root |-> MeshRow(l.size, 0), dp |-> dp, rdp |-> dp, sdp |-> <<r>>,
         tp |-> MeshRow(l.tp, r \div l.tp)]

\* create_fsdp_gangs() without and with intra_node_size.
FullyShardedGangs(g, r) == [g EXCEPT !.rdp = <<r>>, !.sdp = g.dp]

HybridGangs(g, r, intra) ==
    LET d == RankIn(g.dp, r)
    IN  [g EXCEPT !.rdp = Members(g.dp, MeshColumn(Len(g.dp), intra, d % intra)),
                  !.sdp = Members(g.dp, MeshRow(intra, d \div intra))]

\* _FSDPGangsFactory.create(): a hybrid job with one process per host is not sharded.
GangsOf(l, r) ==
    LET g == ParallelGangs(l, r)
    IN  CASE l.parallelism = "fsdp"   -> FullyShardedGangs(g, r)
          [] l.parallelism = "hybrid" -> IF l.local = 1 THEN g ELSE HybridGangs(g, r, l.local)
          [] OTHER                    -> g

\* What GangTopologyError, ValidationError and HSDPTopologyError refuse.
Accepted(l) ==
    /\ l.size % l.tp = 0
    /\ l.parallelism = "hybrid" => l.tp = 1 /\ l.size % l.local = 0

RanksOf(l) == 0..(l.size - 1)

-----------------------------------------------------------------------------
\* Two ways to divide a gang cross in one process, and make up the whole.
Cross(r, rows, columns, whole) ==
    /\ Range(rows) \cap Range(columns) = {r}
    /\ Len(rows) * Len(columns) = Len(whole)
    /\ Range(rows) \cup Range(columns) \subseteq Range(whole)

\* Every process is in one gang of each kind, which all its members agree on.
Agreed(l, r, kind) ==
    \A m \in Range(GangsOf(l, r)[kind]) : GangsOf(l, m)[kind] = GangsOf(l, r)[kind]

\* The docstrings of create_parallel_gangs and create_fsdp_gangs: data and tensor
\* parallel gangs cross, and so do replicated and sharded ones within a data parallel
\* gang; tensor parallel gangs, and sharded ones of a hybrid job, are of adjacent ranks,
\* so that they stay on a host; and process 0 coordinates all of its gangs.
Grid(l) ==
    \A r \in RanksOf(l) :
        LET g == GangsOf(l, r)
        IN  /\ \A kind \in DOMAIN g : r \in Range(g[kind]) /\ Agreed(l, r, kind)
            /\ Cross(r, g.dp, g.tp, g.root)
            /\ Cross(r, g.rdp, g.sdp, g.dp)
            /\ \A m \in Range(g.tp) : m \div l.tp = r \div l.tp
            /\ l.parallelism = "hybrid" =>
                 \A m \in Range(g.sdp) : m \div l.local = r \div l.local
            /\ RankIn(g.dp, r) = RankIn(g.rdp, r) * Len(g.sdp) + RankIn(g.sdp, r)
            /\ \A kind \in DOMAIN g : r = 0 => RankIn(g[kind], r) = 0
=============================================================================
