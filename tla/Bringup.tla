------------------------------- MODULE Bringup -------------------------------
(***************************************************************************)
(* How the ranks of a job come to hold a model: downloaded, loaded or      *)
(* created on the first rank of every data parallel gang, on the meta      *)
(* device on the others, wrapped for data parallelism, restored from the   *)
(* job's own checkpoint, or broadcast for inference; and how they open a   *)
(* dataset.                                                                *)
(*                                                                         *)
(* All ranks run the same program, a sequence of steps; a step is local to *)
(* a rank, or a collective in which all members of a gang meet.  Any local *)
(* step that reads or writes files may fail on one rank; the others then   *)
(* wait in vain for it in a collective, which times out.  Shards.tla has   *)
(* what a tensor holds; here it is who wrote it.                           *)
(***************************************************************************)
EXTENDS Gangs, FiniteSets, Functions

CONSTANTS
    Tasks,        \* what a job asks for, see TaskAssumption
    MaxFailures   \* bound on ranks that fail by themselves

\* A task.  section: which of path, name and family the model section gives; remote:
\* whether the card has a remote URI; meta: supports_meta of the family; kept: the last
\* checkpoint of the job, "none" or "full"; rank0only: load_rank0_only, init_rank0_only;
\* onMeta: meta of create_new_model; whole: fsdp.granularity is "model"; gangs: whether
\* the caller passes its gangs.
ASSUME TaskAssumption ==
    \A t \in Tasks :
        /\ t.task \in {"train", "reference", "load", "custom", "create", "dataset"}
        /\ t.layout \in [size : Nat \ {0}, tp : Nat \ {0}, local : Nat \ {0},
                         parallelism : {"ddp", "fsdp", "hybrid"}]
        /\ Accepted(t.layout)
        /\ t.section \in (SUBSET {"path", "name", "family"}) \ {{}}
        /\ t.kept \in {"none", "full"}
        /\ {t.remote, t.meta, t.rank0only, t.onMeta, t.whole, t.gangs} \subseteq BOOLEAN
        /\ t.onMeta => t.meta

ASSUME FailureAssumption == MaxFailures \in Nat

VARIABLES
    task,
    todo,      \* per rank: what is left of its program
    held,      \* per rank: its model, by part
    outcome,   \* per rank
    cached,    \* hosts' cache: whether the asset is downloaded
    failures

bringupVars == <<task, todo, held, outcome, cached, failures>>

-----------------------------------------------------------------------------
\* A model has layers and a root module; each has weights, and a table that is not part
\* of its state (a non-persistent buffer).
Parts == {"layers", "root"}

Meta  == <<"meta">>    \* on the meta device
Junk0 == <<"junk">>    \* allocated, and not initialized
Set   == <<"set">>     \* a table, as it should be
Own(r) == <<"initialized", r>>
Pretrained == <<"pretrained">>
Kept  == <<"restored">>

Part(weights, table) == [weights |-> weights, table |-> table]

\* to_empty(), reset_parameters(), which every module with a table lets reset it too,
\* and reset_non_persistent_buffers().
ToEmpty(p)             == Part(Junk0, Junk0)
ResetParameters(p, r)  == Part(Own(r), Set)
ResetTables(p)         == Part(p.weights, Set)

OnMeta(p) == p.weights = Meta

\* to_device(): what is on the meta device is allocated and initialized.
ToDevice(p, r) == IF OnMeta(p) THEN ResetParameters(ToEmpty(p), r) ELSE p

\* _do_create_model().
Created(meta, r) == [part \in Parts |-> IF meta THEN Part(Meta, Meta) ELSE Part(Own(r), Set)]

\* _get_effective_gangs(): without gangs every process is a job of its own.
Alone == [size |-> 1, tp |-> 1, parallelism |-> "ddp", local |-> 1]

EffectiveLayout(t) == IF t.gangs THEN t.layout ELSE Alone

\* The gangs of every layout.
AllGangs == [l \in {t.layout : t \in Tasks} \cup {Alone} |-> [r \in RanksOf(l) |-> GangsOf(l, r)]]

JobRanks == RanksOf(EffectiveLayout(task))
GangOf(kind, r) == AllGangs[EffectiveLayout(task)][r][kind]
RankOf(kind, r) == RankIn(GangOf(kind, r), r)
SizeOf(t, kind) == Len(AllGangs[EffectiveLayout(t)][0][kind])

-----------------------------------------------------------------------------
\* Programs.  A step: what it does, and the parts of the model it does it to.
Do(what) == <<[do |-> what, on |-> Parts]>>
On(what, parts) == <<[do |-> what, on |-> parts]>>
If(cond, steps) == IF cond THEN steps ELSE <<>>

\* _download_model(): rank 0 downloads, the others find it in the cache.
Download(t) == If(t.remote, Do("download") \o Do("barrier") \o Do("findCached"))

\* _do_load_model().
DoLoad(t, rank0only) ==
    Do("build") \o Do("loadState") \o Do("barrier")
    \o If(~rank0only,
          Do("broadcast") \o If(t.meta, Do("resetOthers") \o Do("barrier")))

\* load_model() and load_custom_model() of a family.
LoadModel(t, rank0only) == Download(t) \o DoLoad(t, rank0only)
LoadCustomModel(t, rank0only) == DoLoad(t, rank0only)

\* create_new_model() of a family.
CreateNewModel(t, onMeta, rank0only) ==
    Do(IF onMeta THEN "createOnMeta" ELSE "create")
    \o If(~onMeta,
          Do("barrier")
          \o If(~rank0only /\ t.meta,
                Do("broadcast") \o Do("resetOthers") \o Do("barrier")))

\* Cards, families, configurations and overrides are looked up on every rank, by the
\* hub of a family and by the global loader.
HubLoad(t)       == Do("lookup") \o LoadModel(t, t.rank0only)
HubLoadCustom(t) == LoadCustomModel(t, t.rank0only)
HubCreate(t)     == CreateNewModel(t, t.onMeta, t.rank0only)
GlobalLoad(t)    == Do("lookup") \o LoadModel(t, t.rank0only)

\* bootstrap(): path before name before family.
Origin(section) ==
    IF "path" \in section THEN "path" ELSE IF "name" \in section THEN "name" ELSE "family"

\* Mutant of SaveMetadata: no barrier follows.
SaveMetadataAlone == Do("metadata")

\* _save of the model's metadata.
SaveMetadata == Do("metadata") \o Do("barrier")

\* _load_model(), _load_custom_model() and _create_new_model() of the trained model: a
\* job with a checkpoint only builds the model.
TrainModel(t) ==
    Do("lookup")
    \o (IF t.kept = "full" THEN CreateNewModel(t, t.meta, TRUE)
        ELSE CASE Origin(t.section) = "path"   -> LoadCustomModel(t, TRUE)
               [] Origin(t.section) = "name"   -> LoadModel(t, TRUE)
               [] Origin(t.section) = "family" -> CreateNewModel(t, FALSE, TRUE))
    \o SaveMetadata

\* to_ddp().
WithDDP == Do("prepareDDP") \o Do("broadcastDDP")

\* wrap() of to_fsdp1() and to_fsdp2(): the state is broadcast unless the job has a
\* checkpoint.
ShardParts(t, parts) == On("initialize", parts) \o If(t.kept = "none", On("broadcast", parts))

\* _FSDPModelWrapper: the layers, and then what is left, or all at once.
WithFSDP(t) ==
    IF t.whole THEN ShardParts(t, Parts) ELSE ShardParts(t, {"layers"}) \o ShardParts(t, {"root"})

\* _DelegatingDPModelWrapper.wrap(): without shards FSDP falls back to DDP.
WrapModel(t) ==
    IF SizeOf(t, "dp") = 1 THEN Do("toDevice")
    ELSE IF t.layout.parallelism = "ddp" \/ SizeOf(t, "sdp") = 1 THEN WithDDP
    ELSE WithFSDP(t)

\* Trainer._maybe_restore_state().
RestoreModel(t) == If(t.kept = "full", Do("restore") \o Do("barrier"))

\* A reference model is loaded, and broadcast as a whole.
ReferenceModel(t) ==
    Do("lookup")
    \o (IF Origin(t.section) = "path" THEN LoadCustomModel(t, TRUE) \o Do("barrier")
        ELSE LoadModel(t, TRUE))
    \o If(SizeOf(t, "dp") > 1, Do("broadcast"))

OpenDataset == Do("lookup") \o Do("open") \o Do("barrier")

Program(t) ==
    CASE t.task = "train"     -> TrainModel(t) \o WrapModel(t) \o RestoreModel(t)
      [] t.task = "reference" -> ReferenceModel(t)
      [] t.task = "load"      -> IF t.gangs THEN HubLoad(t) ELSE GlobalLoad(t)
      [] t.task = "custom"    -> HubLoadCustom(t)
      [] t.task = "create"    -> HubCreate(t)
      [] t.task = "dataset"   -> OpenDataset

-----------------------------------------------------------------------------
BringupInit ==
    /\ task \in Tasks
    /\ todo = [r \in JobRanks |-> Program(task)]
    /\ held = [r \in JobRanks |-> Created(TRUE, r)]
    /\ outcome = [r \in JobRanks |-> "running"]
    /\ cached = FALSE
    /\ failures = 0

Running(r) == outcome[r] = "running"
Step(r)    == Head(todo[r])
Doing(r, what) == Running(r) /\ Step(r).do = what

\* The collectives, and the gangs that meet in them.
Collectives == [barrier |-> "root", broadcast |-> "dp", broadcastDDP |-> "rdp"]

Advance(ranks) ==
    /\ todo' = [r \in JobRanks |-> IF r \in ranks THEN Tail(todo[r]) ELSE todo[r]]
    /\ outcome' = [r \in JobRanks |->
                      IF r \in ranks /\ Len(todo[r]) = 1 THEN "ready" ELSE outcome[r]]

\* A local step of r that leaves it the model m.
Leaves(r, m) ==
    /\ Advance({r})
    /\ held' = [held EXCEPT ![r] = m]
    /\ UNCHANGED <<task, cached, failures>>

\* A local step of r on the parts its step is on, the new ones given by part.
Change(r, new) == Leaves(r, [part \in Parts |-> IF part \in Step(r).on THEN new[part]
                                               ELSE held[r][part]])

Nothing(r) == Leaves(r, held[r])

-----------------------------------------------------------------------------
\* The asset store, families, configurations and overrides; opening a dataset.
Lookup(r) == (Doing(r, "lookup") \/ Doing(r, "open")) /\ Nothing(r)

\* Only rank 0 downloads.
DownloadOnFirst(r) ==
    /\ Doing(r, "download")
    /\ Advance({r})
    /\ cached' = (cached \/ r = 0)
    /\ UNCHANGED <<task, held, failures>>

\* download_model(local_only=True).
FindCached(r) == Doing(r, "findCached") /\ cached /\ Nothing(r)

\* The model a state is loaded into.
Build(r) == Doing(r, "build") /\ Change(r, Created(task.meta, r))

\* Mutant of LoadState: tables are left as to_empty() made them.
LoadStateOnly(r) ==
    /\ Doing(r, "loadState")
    /\ Change(r, [part \in Step(r).on |->
         LET p == held[r][part] IN IF RankOf("dp", r) # 0 THEN p
         ELSE Part(Pretrained, IF OnMeta(p) THEN Junk0 ELSE p.table)])

\* The first data parallel rank loads the state; its tables are not part of it.
LoadState(r) ==
    /\ Doing(r, "loadState")
    /\ Change(r, [part \in Step(r).on |->
         LET p == held[r][part] IN IF RankOf("dp", r) # 0 THEN p
         ELSE LET empty == IF task.meta THEN ToEmpty(p) ELSE p
                  full  == Part(Pretrained, empty.table)
              IN  IF task.meta THEN ResetTables(full) ELSE full])

\* The first data parallel rank creates a model with what the caller asked for.
Create(r) ==
    \/ Doing(r, "createOnMeta") /\ Change(r, Created(TRUE, r))
    \/ Doing(r, "create") /\ Change(r, Created(RankOf("dp", r) # 0 /\ task.meta, r))

\* After a broadcast, the other ranks reset their tables.
ResetOthers(r) ==
    /\ Doing(r, "resetOthers")
    /\ Change(r, [part \in Step(r).on |->
         LET p == held[r][part] IN IF RankOf("dp", r) # 0 THEN ResetTables(p) ELSE p])

\* Rank 0 writes model.yaml.
SaveModelMetadata(r) == Doing(r, "metadata") /\ Nothing(r)

WrapAlone(r) ==
    Doing(r, "toDevice") /\ Change(r, [part \in Step(r).on |-> ToDevice(held[r][part], r)])

\* DDP cannot take a model on the meta device.
PrepareDDP(r) ==
    /\ Doing(r, "prepareDDP")
    /\ Change(r, [part \in Step(r).on |->
         LET p == held[r][part] IN IF ~OnMeta(p) THEN p
         ELSE IF RankOf("rdp", r) = 0 THEN ToDevice(p, r) ELSE ResetTables(ToEmpty(p))])

\* FSDPParameterInitializer: with a broadcast to come, skip_init is set.
Initialize(r) ==
    /\ Doing(r, "initialize")
    /\ Change(r, [part \in Step(r).on |->
         LET p == held[r][part] IN IF ~OnMeta(p) THEN p
         ELSE IF task.kept = "none" THEN ResetTables(ToEmpty(p))
         ELSE ResetParameters(ToEmpty(p), r)])

\* load_model_state() of the job's checkpoint copies into the parameters of the rank.
RestoreState(r) ==
    /\ Doing(r, "restore")
    /\ Change(r, [part \in Step(r).on |-> Part(Kept, held[r][part].table)])

LocalStep(r) ==
    \/ Lookup(r) \/ DownloadOnFirst(r) \/ FindCached(r) \/ Build(r) \/ LoadState(r)
    \/ Create(r) \/ ResetOthers(r) \/ SaveModelMetadata(r) \/ WrapAlone(r)
    \/ PrepareDDP(r) \/ Initialize(r) \/ RestoreState(r)

-----------------------------------------------------------------------------
\* All members of gang g have come to the same collective of their program.
Together(g, what) ==
    \A q \in Range(g) : Doing(q, what) /\ Len(todo[q]) = Len(todo[g[1]])

MeetInBarrier(g) ==
    /\ Together(g, "barrier")
    /\ Advance(Range(g))
    /\ UNCHANGED <<task, held, cached, failures>>

\* broadcast_module(), and DDP's constructor: the first member sends the weights;
\* tables are not sent.
Broadcast(g) ==
    /\ Together(g, "broadcast") \/ Together(g, "broadcastDDP")
    /\ Advance(Range(g))
    /\ LET Here(q) == [part \in Parts |-> IF part \in Step(q).on THEN ToDevice(held[q][part], q)
                                         ELSE held[q][part]]
           From(q) == [part \in Parts |->
                          IF part \in Step(q).on
                          THEN Part(Here(g[1])[part].weights, Here(q)[part].table)
                          ELSE held[q][part]]
       IN  held' = [q \in JobRanks |-> IF q \in Range(g) THEN From(q) ELSE held[q]]
    /\ UNCHANGED <<task, cached, failures>>

MeetOthers(r) ==
    /\ Running(r) /\ Step(r).do \in DOMAIN Collectives
    /\ LET g == GangOf(Collectives[Step(r).do], r)
       IN  MeetInBarrier(g) \/ Broadcast(g)

-----------------------------------------------------------------------------
Fail(r) ==
    /\ outcome' = [outcome EXCEPT ![r] = "failed"]
    /\ UNCHANGED <<task, todo, held, cached>>

\* What may go wrong on one rank: the disk, the network, a corrupt file.
Fallible(r) ==
    \/ Step(r).do \in {"lookup", "open", "findCached", "build", "create", "createOnMeta", "restore"}
    \/ Step(r).do \in {"download", "metadata"} /\ r = 0
    \/ Step(r).do = "loadState" /\ RankOf("dp", r) = 0

Fault(r) ==
    /\ failures < MaxFailures
    /\ Running(r) /\ Fallible(r)
    /\ Fail(r)
    /\ failures' = failures + 1

\* What the code refuses: an asset that is not in the cache; to broadcast from the meta
\* device, and to copy to it.
Refused(r) ==
    \/ Step(r).do = "findCached" /\ ~cached
    \/ /\ Step(r).do = "initialize" /\ task.kept = "none" /\ RankOf("dp", r) = 0
       /\ \E part \in Step(r).on : OnMeta(held[r][part])
    \/ Step(r).do = "restore" /\ \E part \in Step(r).on : OnMeta(held[r][part])

Refuse(r) == Running(r) /\ Refused(r) /\ Fail(r) /\ UNCHANGED failures

\* A collective times out when a member is gone: GangError.
TimeOut(r) ==
    /\ Running(r) /\ Step(r).do \in DOMAIN Collectives
    /\ \E q \in Range(GangOf(Collectives[Step(r).do], r)) : outcome[q] # "running"
    /\ Fail(r) /\ UNCHANGED failures

RankStep(r) == Running(r) /\ ((~Refused(r) /\ LocalStep(r)) \/ MeetOthers(r) \/ Refuse(r) \/ TimeOut(r))

BringupNext == \E r \in JobRanks : RankStep(r) \/ Fault(r)

-----------------------------------------------------------------------------
\* Whose weights the ranks of a data parallel gang shall hold.
Intended(r) ==
    LET new == Own(GangOf("dp", r)[1])
    IN  CASE task.task = "train" ->
               IF task.kept = "full" THEN Kept
               ELSE IF Origin(task.section) = "family" THEN new ELSE Pretrained
          [] task.task \in {"reference", "load", "custom"} -> Pretrained
          [] task.task = "create" ->
               IF task.onMeta THEN Meta ELSE IF task.meta THEN new ELSE Own(r)

\* load_rank0_only and init_rank0_only leave the other ranks without weights.
Delivered(r) ==
    \/ task.task \in {"train", "reference"}
    \/ task.task # "dataset" /\ (~task.rank0only \/ RankOf("dp", r) = 0)

\* The model is brought up in one of many ways, by four parties that each ask what
\* device it is on and whether there is a checkpoint: in all of them a rank that is
\* ready holds the weights that were asked for, wherever they were read or created, and
\* its tables, which nobody sends.
ModelsReady ==
    \A r \in JobRanks : outcome[r] = "ready" /\ Delivered(r) =>
        \A part \in Parts :
            held[r][part] = Part(Intended(r), IF Intended(r) = Meta THEN Meta ELSE Set)

\* One rank that fails to look up, download, load, write or restore takes the whole job
\* down, since the others meet it in a barrier later: none goes on alone with a training,
\* a reference model or a dataset, and none fails or is refused anything otherwise.
AllOrNone ==
    /\ (\E r \in JobRanks : outcome[r] = "failed") => failures > 0
    /\ (\E r \in JobRanks : outcome[r] = "ready") /\ ~task.onMeta =>
         \A r \in JobRanks : outcome[r] # "failed"

\* Every rank has its model, or knows that the job failed.
BroughtUp == \A r \in JobRanks : outcome[r] # "running"
=============================================================================
