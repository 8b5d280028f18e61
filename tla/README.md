# TLA+ models of fairseq2

fairseq2 is a library for training sequence models. Its own logic, apart from
tensor computation, is a training loop that must survive gradient overflow,
stop requests and killed jobs; a checkpoint manager that several processes run
in step on a shared file system; and a native data pipeline whose sources
prefetch, map, shuffle and bucket examples while their position can be recorded
at any time. The modules in this directory model that logic, TLC checks it on
small instances, and TLAPS proves what matters most for every value of the
constants.

Sources are named relative to the directory that holds the checkout as `src/`:
the Python package is `src/src/fairseq2`, the native library
`src/native/src/fairseq2n`.

## 1. Inventory

| Component | Source | State it keeps | Operations | What makes it correct |
|---|---|---|---|---|
| Checkpoint manager | `checkpoint/manager.py` | directories `step_N`, `step_N.tmp`, `scores/`; the save in flight (`_save_op`) | save, poll, complete, save_score, delete, stale selection, load | a restart finds a whole checkpoint; ranks meet in the same collectives; pruning keeps what the policy keeps |
| Trainer | `trainer.py` | `_state`, step and epoch number, stop flag, metrics | the handlers of `_do_run`, restore, request_stop | data neither skipped nor repeated, step numbers exact, the last step saved, training ends |
| Data pipeline | `data_pipeline.cc` | warning count, broken flag, source chain | next, reset, record/reload position | recoverable errors are retried within the budget |
| Prefetcher | `prefetch_data_source.cc` | two queues, thread, state, stored exception | next, reset, record/reload position, destructor | the reader sees the inner source; no lost wake-up |
| Parallel map | `map_data_source.cc` | batch buffer or task queue, tasks in flight | same interface | outputs are those of the inputs, each once; next returns |
| Buffering sources | `shuffle_`, `bucket_`, `bucket_by_length_`, `dynamic_bucket_`, `packed_data_source.cc` | buffers, random generator | same | a recorded position includes the buffers |
| Combining sources | `zip_`, `round_robin_`, `sample_`, `concat_`, `repeat_`, `yield_from_data_source.cc` | per-pipeline position, end flags | same | end of data is reported once, in the right place |
| Positional sources | `list_`, `count_`, `skip_`, `take_`, `filter_`, `shard_`, `constant_data_source.cc` | a counter | same | the examples of their definition |
| Data reader | `datasets/data_reader.py` | end-of-data flag, pipeline | next, reset, state | all ranks see the end of data at the same read |
| Gangs | `gang.py`, `recipe/internal/gang.py` | ranks of each parallel dimension | create, barrier, reduce, gather | every rank in one gang per dimension, the same for all its members |
| Divided models | `recipe/internal/train_model.py`, `data_parallel.py`, `models/family.py`, `nn/ddp.py`, `nn/fsdp/` | what part of the model a rank holds | create, load, wrap, save, restore | every rank holds its part of one model, whatever jobs and layouts lie in its history |
| Bring-up | `recipe/internal/` (models, data parallelism, dataset), `models/hub.py`, `models/family.py` | the model a rank holds | look up, download, load, create, wrap, restore, open a dataset | every rank ends with the model that was asked for, or the job with an error |
| Model checkpoints | `model_checkpoint/` | none; files by tensor and data parallel rank | `lazy_load`, `reshard_tensor` | a target layout gets the tensors of the source |
| Tensor parallel modules | `nn/projection.py`, `nn/embedding.py`, `ops/tensor_parallel.py` | shards of weights | forward | what the undivided module computes |
| Loss scaler | `optim/fp16_loss_scaler.py` | scale, growth window | step, unscale, state | overflow halves the scale, a minimum ends training |
| Metric bag | `metrics/bag.py` | metrics, their backup | begin, commit, rollback | a failed batch leaves no trace |
| Hugging Face exporter | `checkpoint/hg.py` | export in flight | export, poll, complete | the exported checkpoint exists throughout (the trainer waits for the export before it prunes) |
| Validator, evaluator, generator | `validator.py`, `evaluator.py`, `generator.py` | step, metrics | run | same number of collectives on every rank |
| Generation | `generation/` | the batch of sequences, beams, finished hypotheses | prefill, step, reorder | each prompt gets the hypotheses it gets alone, with the scores the model gives them |
| Attention | `nn/batch_layout.py`, `nn/position_encoder.py`, `models/transformer/` | none across calls; a cache of bias tensors within one | lay out, position, attend | a token gets what its sequence gives alone |
| Incremental state | `nn/incremental_state.py`, attention states of `models/transformer/multihead_attention.py` | keys and values per batch row, step number | append, get, reorder | a row's state is that of its own sequence |
| Assets | `assets/` | metadata of each source, cache directory | retrieve a card, download | a card resolves as its layers say; a partial download is never used |
| Runtime | `runtime/` | registrations, the instances and marks of each | register, resolve, wire, `Lazy.get` | one instance of a singleton, errors that are there, cycles found |

Interactions. The trainer calls `next` on the data reader, which reads its
shard from a native pipeline and agrees with the other ranks on the end of
data. After a step it asks the checkpoint manager to save; the manager
completes the previous save first, copies the state to the host and leaves the
writing to a pool thread. A later call (before every step, before the next save,
at some of the ends) polls that thread on all ranks, renames the directory, and
calls back into the trainer, which prunes old checkpoints through the same
manager. A validation stores a score in the manager, which may prune again. A
signal handler sets a flag that two handlers of the loop read. When the job is
killed, only the file system is left; the next job restores from it. Within a step
the ranks meet in collectives: to compare their numbers of batches, to reduce and
normalize gradients, to look for overflow, to publish metrics. A generator calls the model token by
token; the model keeps an incremental state per attention layer, which the generator
reorders as it drops, multiplies and permutes the rows of its batch.

What is hard: the order of file operations against kills; processes that agree
on collectives without agreeing on state; saves in flight when training ends;
off-by-one questions of step and epoch numbers at boundaries; two threads and
two condition variables in the prefetcher; positions recorded while data is in
buffers or in a thread's hand; loops on several ranks that must make the same number of
collectives over shards of different lengths; a batch whose rows change their meaning from
step to step. PROJECT.json lists these hazards at their lines
with the properties that watch them.

## 2. Modules

| Module | Models |
|---|---|
| `CheckpointStore` | abstract specification: a store that publishes whole checkpoints atomically and never drops the last |
| `Checkpoint` | the checkpoint manager on every rank with the trainer's pruning callback |
| `CheckpointProofs` | theorems about it: restores, scores, pruning and retention, and the refinement of `CheckpointStore` |
| `Trainer` | the training loop, its schedules and what it leaves on disk |
| `TrainerProofs` | theorems about it and the checkpoints it leaves |
| `DataSource` | abstract specification: what `data_source.h` promises its reader |
| `Prefetch` | the prefetcher with its thread, under the pipeline that retries errors |
| `MapSource` | the parallel map: its buffer, and its pool of threads, under the pipeline that retries errors |
| `PipelineProofs` | theorems about `Prefetch`, the refinement of `DataSource` among them, and about `MapSource` |
| `Sources` | the sequential data sources, one operation over lists, with reference definitions |
| `Steps` | a training step and an evaluation on several ranks: data reader, gradients, loss scale, metrics |
| `StepsProofs` | theorems about it |
| `Evaluation` | a whole task of the validator, the evaluator and the generator on the ranks of a job |
| `Bringup` | how the ranks of a job come to hold a model, and fail together |
| `RanksProofs` | theorems about `Evaluation` and `Bringup` |
| `AttentionState` | operators: the key and value states of an attention |
| `Generation` | beam search and sampling over a model with an incremental state |
| `Attention` | batch layouts, position indices, attention biases and the implementations of attention, layer by layer |
| `Gangs` | operators: the gangs of a layout of processes |
| `GangsProofs` | lemmas about them, for layouts of any size, which `RanksProofs` and `ShardsProofs` share |
| `Shards` | a model divided over a job's processes: built, wrapped, run, saved, restored, loaded in another layout |
| `ShardsProofs` | theorems about it |
| `Cards` | asset cards: what the metadata of several sources says of a name |
| `Downloads` | the cache of downloaded assets under several jobs, over `Cards` |
| `Container` | the dependency container: registrations, calls that build objects, errors that unwind them |
| `SetupProofs` | theorems about `Downloads` and `Container` |
| `MC...` | values of the constants for TLC; `MCPipelines` puts `Prefetch`, `MapSource` and `Sources` side by side, `MCRanks` `Bringup`, `Steps` and `Evaluation`, `MCModels` `Shards`, `Attention` and `Generation`, `MCSetup` `Downloads` and `Container` |

Operators whose names begin with another operator's name and are commented as
mutants (`RestoreNoReader`, `PutNotStopping`, ...) are variants of the code with a
plausible bug. They are not used by any specification; each one, put in the place
of its original, makes one property fail, which shows that the property looks at
the code.

### 2.1 Checkpoint

State. `pc[r]` is where rank `r` is in the call that all ranks are making (`op`);
`now` is the step the call is for, `gen` numbers the save calls, `cur` is the
save being written. `job[r]` is `_save_op` on rank `r` (none, running, or failed)
and `left[r]` the records its thread has not written. `tmp`, `tmpdirs`, `dir` and
`score` are the file system: a file is a pair of its kind (trainer, model,
optimizer, data_reader) and the rank that writes it, and its content is the
number of the save call that wrote it, which is all that whole and torn
checkpoints differ in.

Actions follow the code from one collective to the next.

- `StartSave`, `StartPoll`, `StartComplete` and `StartScore` are the trainer's calls:
  `save_checkpoint`, `maybe_complete_save_operation` before each step and at an end,
  `save_score`. All ranks make the same call, because the state the trainer decides by
  is equal on all of them. The step of a save is later than that of the last one; with
  the constant `Resave` it may be the same.
- `Vote`, `Counted`, `Wait`, `Waited` are the two ways to complete a save: a sum of
  done bits over the gang, or a blocking wait and a barrier. A failed write raises in
  `result()` and the rank is gone (`dead`).
- `CommitBarrier`, `Move`, `MovedBarrier` are `_commit_checkpoint`: barrier, rename on
  rank 0, barrier. The saved-callback follows on each rank: `ReadStale` to
  `RemovedStale` is `_delete_stale_checkpoints`, `ReadPrevious` to `RemovedPrevious` is
  `_delete_previous_non_model_checkpoints`.
- `delete_checkpoint` runs on rank 0 in pieces: the `.tmp` directory, then the files
  of the step one at a time in any order, then the score file; the other ranks go to
  the barrier (`SkipRemove`).
- `BeginBarrier`, `MakeDirs`, `SyncBarrier`, `Queue` are the rest of a save up to the
  thread; `WriteFile` and `WriteFail` are `_save_state_files`.
- `Crash` kills the job between any two steps; `Restart` is what
  `_maybe_restore_state` finds.

Not distinguished: the content of tensors, the device-to-host copy, hooks, the removal
of `.tmp` as several steps (nothing reads it), and the checkpoint metadata.
`_sync_nfs_cache` is modelled for a local file system, where it is a barrier; for a
remote one the code skips it.

### 2.2 Trainer

State. `state` is `_state`, with `COMPLETING` for the wait inside a blocking save or
`maybe_complete_save_operation(blocking=True)` at an end, `FAILED` for an exception and
`HUNG` for ranks that wait in different collectives. `step` and `epoch` are the
trainer's numbers. `pos` is the data reader's position within a pass. `updates`,
`seen` and `passes` are the history of the model in memory: optimizer steps, batches
trained on, passes over the data. A checkpoint is the record `Snapshot` of all these,
and `disk` maps steps to committed ones; `pending` is the one in flight and `written`
says whether its thread is done. `stop[r]` is the flag of rank `r`. `plan` holds the options of the training:
its limits, its validator and early stopper, and whether it may be asked to stop; every job of a
behaviour has the same.

Each handler of `_do_run` is one action, with everything it calls: `RunPostStep` and
`HandleEndOfDataEpoch` save, publish metrics and validate; `Stop` and `EarlyStop` do what
`_stop` and `_early_stop` do. `Due` is `_should_do`, translated branch by branch. That a
save commits the older one in flight and deletes an existing checkpoint of the same step
is part of the handler's action: `Checkpoint` opens up that part, with the kills inside
it. Kills inside a handler therefore count as kills before or after it, and kills while
a save is in flight lose that save.

`Diverge` is what happens when ranks read different stop flags at a branch: some
enter the barrier of a save, some the gradient reduction of the next step. Everything
else in a handler depends on state that is equal on all ranks.

### 2.3 Prefetch

State. `thread` and `caller` are the control points of the two threads, `state`,
`failed` (whether `exception_ptr_` is set), `shouldStop`, `fill` and `next` the fields
of the class, `inner` the position of the inner source, `held` the example in the
thread's hand. `warnings` and `broken` belong to the pipeline.

A critical section is one action; a thread that waits on a condition variable tests its
predicate (`HasRoom`, `Readable`) and parks in one action, as `wait` does under the
mutex, and a parked thread moves again only when it is notified, so that a lost
notification would be seen. Notification is a separate action, after the mutex was
released, as in the code. Spurious wake-ups only add tests of the predicate and are left
out. The read of `state_` outside the mutex (`ensure_prefetch_thread_running`) is an
action of its own that may fall before or after any write of the other thread.

`reset`, `record_position`, `reload_position` and the destructor begin with
`CallStop`, which stands for `stop_prefetch_thread`; `Join` waits for the thread.
Errors of the inner source are recoverable ones that its read may raise at the
examples of `Bad`; a recorded position may be reloaded at any later moment.

`DataSource` says what a reader sees: the examples in order, the end after the last,
an error only if a faulty example lies ahead, and positions that continue where they
were taken, or, when not `Strict`, at a later example, since buffers are then dropped.
The refinement maps its `at` to what was read and is neither in the thread's hand nor in
a queue.

### 2.4 MapSource

State. `buffer`, `bufferPos` and `reserved` are the deterministic mode's; `outputs`,
`queued`, `worker`, `inFlight`, `finished` and `raised` the pool's: `async_queue_`, the
tasks that wait, what each thread has in hand, `tasks_in_flight_`, `finished_` and whether
`exception_ptr_` is set. `consumer` is where the reader's thread is, `asked` the call it makes.
`delivered` and `skipped` are history.

`CallMapNext` begins `next`. In the deterministic mode `Yield` and `FillBuffer` alternate. In
the other, `Enqueue` is one round of `fill_buffer_async`, `Check` and `CheckQueue` are its return
expression, whose operands are read at different moments, `NotReady` and `Sleep` the wait on
the condition: a thread that has found its predicate false still holds the mutex until it
sleeps, but `tasks_in_flight_` changes without the mutex, so `CountDown` and `Notify` may come
between. `Start`, `Push`, `CountDown` and `Notify` are `AsyncMapTask::operator()`. `Drained` is
`wait_until_done`, before `MapReset`, `MapRecord` and `MapReload`. `Recover` and `Break` are the two
ways in which `data_pipeline::next` takes an error.

After an error of the inner source, the deterministic buffer holds the examples read before
it, not mapped, and the old position; after a strict reload the vector may have been
allocated anew, and the position points anywhere (`FillError`, undefined behaviour as a
choice).

### 2.5 Sources

A pipeline is a record: an operation, the lists below it, the numbers and flags it takes. A
list stands for any inner pipeline, the examples in `bad` for those where it throws a
recoverable error, the lists in `pseudo` are constants without end. `src` is the state of the
operation's object, one record for all operations whose fields have the names of general
use (`num`, `buf`, `flag`, ...); the comment above each `...Next` says which member of the class
each one is. Each `...Next` returns the new state and what the call comes to: data, end, error,
an error that breaks the pipeline, or an access out of bounds. `Draws` stands for the random
numbers a seed gives.

`PipeRead`, `PipeRecord`, `PipeReload` and `PipeReset` are `data_pipeline`'s, which constructs its
source when it is first used (`live`). A position may be reloaded by the same pipeline or a new
one, any time later. `ideal` is what an uninterrupted reader gets.

### 2.6 Steps

Each rank has a program counter and a record `st[r]` of its objects; it runs alone up to a
collective, in which all ranks must meet. `Load` and `Count` are
`DataPipelineReader.__next__` before and after the ranks compare their numbers of batches. In training
`BeginStep`, `RunBatch`, `Reduce`, `Normalize`, `Unscale`, `Norms`, then `Overflow` or `Accept`, and
`PostStep` follow the code of a step; `Publish` and `Barrier` are the metrics. In an evaluation
`BeginStep` runs the batches of a read at once. A gradient is the set of batches that are in it, the
model the sequence of gradients applied, the loss scale the exponent of two, the metrics the
number of batches they have counted. A batch has a number of logit targets and the largest
scale at which its gradient is finite. `PostStep` records each rank's part of a checkpoint;
`KillJob` resumes all ranks from the last checkpoint all of them have written.

`Steps` takes schedules by steps and passes only; `Trainer` has all of them, and one abstract
step instead of the gradient. Asynchronous saving is `Checkpoint`'s and `Trainer`'s.

### 2.7 AttentionState and Generation

The projected key and value of a token is the token, so that a row of the state is a
sequence of tokens with `Unset` where memory is not initialised. `NewState`, `AppendTo`, `Expand`,
`Keys` and `Reordered` are the methods of `FullAttentionState` and `LocalAttentionState`;
`StaticReordered` that of `StaticAttentionState`.

`g` is the state of one call of a generator: the batch (`rows`, each with its prompt, its tokens
and the scores of its steps), the sizes of the beams, the attention states, the hypotheses. A
model is any function from what it sees to scores (`LogProb`, integers in place of reals).
`Prefill` is `_prefill` chunk by chunk and the fan-out of sampling; `BeamSearchStep` and
`SamplingStep` are `_step`. A sampler may pick any token of nonzero probability.

### 2.8 Gangs and Shards

A layout is what the configuration says of a job: its size, the tensor parallel size, the kind of
data parallelism, the processes of a host. `GangsOf` gives each process its gangs as sequences of
root ranks, by rows and columns of the meshes that `create_parallel_gangs` and
`create_fsdp_gangs` view the ranks as; `Accepted` is what the factories of
`recipe/internal/gang.py` let through.

`Shards` follows one model through trainings and jobs. `Bootstrap` is
`_StandardTrainModelBootstrapper.bootstrap` on a rank, `Wrap` the DDP or FSDP wrapping in which all ranks
take part, `Restore` and `Begin` `_maybe_restore_state`, `BeginSave`, `WriteShards` and `Commit` a save,
of which `Checkpoint` has the details. A tensor is a matrix whose elements are numbers
of their own, so that a row in the wrong place, or of the wrong version, is a different
matrix. `Junk` is what a rank holds that was neither loaded nor received. A training that is
submitted again keeps its layout (its directory is named after the number of processes);
`NextTraining` begins another one with the model of the last checkpoint, in any layout. All
of a save's ranks see the same checkpoints; families support the meta device.
`Outputs` runs the model's embeddings and projections on the ranks of a tensor parallel
gang; backward passes are left out, and with them `reduce_on_backward`.

### 2.9 Cards and Downloads

A `catalog` is what the asset store is constructed of: providers with their entries, and the
environment that was detected. `Retrieve` is `retrieve_card`: `Layered` puts the entry of the first
environment that has one over the plain entry, `Extend` follows `base`. The result is the line
of cards from the leaf to the root, in which `FieldOf` and `Config` look for fields and merge
configurations. `Resolved` is what `load_model` makes of it up to the address of the checkpoint.
Reading YAML is left out; an entry is a function from field names to values.

`cache` holds the three directories of one asset: the asset itself, `.download` and
`.download.tmp`. A directory is `Absent` or a set of entries: the file each job received, under its
temporary or its final name (`named`), and the members of an archive. `received` and `members` say
how much of each is written. A job is a gang's `load_model` (rank 0 downloads, a barrier, then every
rank looks with `local_only`) or a single call with `force` or `local_only`. Every call of
the file system is an action of its own, and `rmtree` one for each entry: the actions `Clean` to
`CleanNext` are `_clean_cached_asset`, `CheckAsset` to `Publish` `_download_asset`, `CheckExtracted` to `Finish`
`_ensure_asset_extracted`, `Find` and `RankFinds` `_retrieve_asset_path`. `Abandon` is the exit stack after an
error. Servers and disks may fail at any moment, and `Kill` ends a job between any two steps.

A response is assumed to have a length, so that a short one is noticed. The address always names one
content. All jobs see the file system in the same order (`_flush_nfs_lookup_cache`).

### 2.10 Attention

A layout has its sequences' lengths, the width of its rows and whether it is packed.
`PositionIndices`, `TableRows` and `Embedded` bring a batch to the first layer; `SelfAttention` and
`SourceAttention` are the two sublayers that `StandardTransformerDecoderLayer` (and, without a source, the encoder's
layer) runs. The values are symbolic: a token and the row of the position table it got, or the pair of a layer's
input and the set of the values weighed, each with its bias and relative position. Two equal values were thus computed
from the same tokens in the same way; projections, norms, residuals and dropout act on each position alone and change
nothing in that. `Materialized`, `Block` and `Tensor` are `materialize_attention_bias`, `_create_block_bias_tensor` and
`create_bias_tensor` element by element; `Biasless` and `Fused` the cases in which no tensor is made; `Cached`
`AttentionBiasCache`, which a stack creates anew for each forward pass. `Attend` is `SDPA.forward` of the five
implementations, with what torch does with a row that is masked entirely; `Refuses` is where they raise an error.
`prefix` tokens may have been decoded before the batch, whose keys come from the incremental state.

`AloneUpTo` is the reference: a sequence by itself, with what each bias declares that its tokens see.

### 2.11 Container

`wiring` is an application: its registrations in the order in which they are made. `stack` holds the
calls under way, as the interpreter's stack does: that of the application first, then one for each
provider that runs, with the parameters it has so far. `flow` says whether the top call goes on, a value is
being returned to it or an error raised through it. A name stands for a type and its key; the
request of a parameter has the shape that `_create_wired_instance` reads off its annotation
(`one`, `optional`, `default`, `lazy`, `callable`, `all`, `each`, `lookup`, and `opaque` for what is not a type).
`Ask` is a request of the application, with `get_config` as the shape `config`; `GetLazy` a `Lazy` argument that
is read after its object was built. `Enter` begins `get_instance`, `Construct` ends it; `Resolve`,
`ResolveElement` and `Postpone` are the three ways to get an argument. `Unwind` is what each call
does with an error: `maybe_resolve` may catch it, a registration clears its mark and extends a cycle.

`register_instance` is a provider without parameters. Requests come from one thread, as in the
library; nothing in the container is guarded against two.

### 2.12 Bringup

A rank has a program, a sequence of steps (`todo`), which all ranks of a job share: `Program` puts together what
the bootstrappers of `recipe/internal/train_model.py`, `reference_model.py` and `dataset.py`, the model hub and the
families call for a task. A local step runs by itself, a collective when all members of its gang have
come to it. `held` says of the two parts of a model, the layers and the root module, who wrote their
weights and whether their tables, which are not part of a state, are set. `Build`, `LoadState`, `Create` and
`ResetOthers` are `_do_load_model` and `create_new_model`; `PrepareDDP` and `Broadcast` `to_ddp`; `Initialize` the
`FSDPParameterInitializer`, layer by layer or for the whole model; `RestoreState` what the trainer loads. `Fault`
is an error of one rank in a step that looks up, reads or writes; `TimeOut` what the others get
for it. Checkpoints that hold only the model are left to `shards_only`: `kept` is `none` or `full`.
`to_fsdp` takes `skip_init` and does not pass it on, so a job with a checkpoint initializes the parameters it then
restores; the model does the same.

### 2.13 Evaluation

`rank[r]` is the state of the objects of a rank: the batches its readers have yielded, the batches that
the unit's metrics count with the random numbers they were computed under, the state of the random number
generator, the mode of the model, the validator's flag that it has run. `Validate` to `Score`, `ResetTask` and
`AskStopper` are `Trainer._validate` with `StandardValidator.run`; `BeginTask` to `NextUnit` are also the evaluator and
the generator, which look for a stop request (`PollStop`) where the validator polls the save in flight
(`PollSave`). A read is one batch; `sync_ranks` is on, as in the recipes' evaluation units. Training between two
validations is one draw of random numbers. `RanksSpec` composes the three modules as alternatives: a behaviour
is about one of them.

Left out are stopwatches, profilers, progress bars and the values of metrics.

## 3. Runs

| Run | Expected | Question and result |
|---|---|---|
| `ckpt_safety` | pass | two ranks, rank 0 alone writes model and optimizer, keep_last 1 and keep_best 1, two score values, three saves, one crash or failed write: collectives align, restarts find a whole checkpoint, scores match, pruning is exact |
| `ckpt_abl` | pass | `all_but_last` in one process with keep_every 2 and a crash: only the last checkpoint keeps its full state, the manager refines `CheckpointStore`, and a save is committed if nothing is killed or fails |
| `train` | pass | two ranks, to five steps or to two passes, the latter with stop requests at any moment; overflows, saves in flight, validations, an early stopper, two kills: no batch skipped or repeated, step numbers exact, the last step saved, at most one more step after a request, and an end |
| `pipelines` | pass | one kind of source per behaviour. The prefetcher: five examples, the third of which may fail, queues of two, two resets, records or reloads: bounds, wake-ups, exclusive access, termination of every call, refinement. The map: both modes, three examples, two threads, errors of the source and of the function, two other calls: nothing lost or doubled, every call returns. The others: every sequential source over small lists with every flag, two other calls among ten reads: reference definitions, one end, resumption |
| `ranks` | pass | 266 tasks that bring up a model or a dataset on one to four ranks, replicated, sharded, hybrid and tensor parallel, one rank failing anywhere: the model that was asked for on all, or an error on all. Trainings and evaluations of two ranks over five pairs of shards, two kills: replicas agree, metrics are exact, batches are taken once. Validations, evaluations and generations on two data parallel ranks, with and without tensor parallelism: records are comparable, the training is not disturbed. All of them come to an end |
| `models` | pass | seventeen layouts of one, two and four processes under data, sharded, hybrid and tensor parallelism, two steps, each saved, one kill, a second training in any other layout; some 700 forward passes of two layers over padded, packed, full and partly decoded batches; beam search and sampling of one to three prompts by four models |
| `attention_chunked` | violation | one sequence of two to five tokens under a chunked bias: a token sees its own chunk only |
| `setup` | pass | cards in 938 catalogs of up to five entries; three jobs, two of them at the same time, of loads, forced and local calls, for a plain file and three kinds of archive, one kill: cards resolve as their layers say, what looks extracted is whole, a forced call repairs any cache. Containers of three registrations, asked twice, with one constructor that fails: answers are those of the registrations, singletons are built once |
| `download_kill` | violation | jobs one after the other, one of them killed: what a load returns is whole |
| `shards_only` | violation | FSDP with `save_model_only`, submitted again: who broadcasts the model |
| `ckpt_race` | violation | `all_but_last` with two ranks: `_delete_previous_non_model_checkpoints` has no barrier between listing and deleting |
| `generate_static` | violation | the state of the source is not reordered when the batch keeps its size |

### What the violations say

The counterexamples are short, and each one is a sequence of ordinary events.

- `ckpt_race`: both ranks leave the barrier after the rename; rank 0 lists steps 1 and
  2 and begins to delete the trainer state of step 1; rank 1 lists only step 2, has
  nothing to delete and returns; rank 0 waits for it in the barrier of
  `delete_checkpoint`. `get_stale_step_numbers` has a barrier at this very place.
- `shards_only`: an FSDP job of two processes begins from a loaded model, saves the model of
  step 1 and is killed. When it is submitted again, there is no full checkpoint, so data parallel
  rank 0 loads the model and rank 1 has it on the meta device; but `has_checkpoint()` in
  `_FSDPModelWrapper.wrap`, which counts model-only checkpoints too, says that the
  model will be restored, and nothing is broadcast; and `_maybe_restore_state`, which counts full
  ones only, restores nothing. Rank 1 trains a shard of an initialization of its own.
  (`to_fsdp` does not pass `skip_init` on; if it did, it would be uninitialized memory.)
- `generate_static`: three prompts of an encoder-decoder model, beam size two, the first
  prompt shorter. While the longer prompts are read, the first one has a beam of two. In
  the step in which it has its two hypotheses the others fan out to two rows each: four rows
  before, four after, in another order. Their keys and values of the source stay those of
  prompts 1, 1, 2 and 3.

- `attention_chunked`: two tokens in one chunk; the first sees the second. `ChunkedAttentionBias` returns ones
  and zeros where `_create_causal_bias_tensor` takes the logarithm of them, and the implementations add the tensor to the
  weights: nothing is masked.
- `download_kill`: the first job is killed while it receives the asset. Its temporary file stays in
  `.download.tmp`, since only an exception removes it. The second job makes the directory, which
  may exist already, receives the whole asset beside the partial one and renames the directory to
  `.download`, with both files. `_ensure_asset_extracted` takes the first file that `iterdir()` gives; if that
  is the partial one, it is moved to the asset directory, and `remove_directory` deletes the
  other. The second job and all later ones load half a checkpoint, without an error of the download
  manager.

### What the passing runs leave out

Some behaviours of the code contradict a property as one would like to state it. The
property then names the case it leaves out; dropping the name, or changing the constants as
said, makes TLC show it.

- Trainer. The stop flag is set by a signal in each process and not reduced over the
  gang, while the early stopper's is broadcast: `Diverge` leads to `HUNG`, which
  `Terminates` admits as an end.
- Trainer. A stop request is ignored after a step when `max_num_steps` is set, since
  `_run_post_step` reads the flag in an `elif` of that test: a plan with both
  `maxNumSteps = 5` and `signals` violates `StopPrompt`.
- Trainer. A stop request that reaches `_repeat_step` leaves the step number as it is, so that
  the checkpoint of the stop bears the number of the step that overflowed; the resumed job is
  one update short of its step number. `StepExact` allows one such step for each job.
- Trainer. When the last step was saved asynchronously after it, `_should_do` is false at
  `END_OF_DATA`, and without a validator `_stop` completes nothing: the files are whole, under
  the `.tmp` name. A plan limited by epochs, without validation, violates `EndSaved`.
- Trainer. The epoch number in a checkpoint is that of the epoch being trained, and
  `_maybe_restore_state` compares it with the limit as if it counted finished ones: a run
  resumed within the last epoch stops at once. And since `_handle_end_of_data_epoch` counts
  after saving, a run resumed from a checkpoint that ends an epoch makes that epoch again.
- Trainer. A stop request before the first step after a restore saves the restored step
  again, and `_begin_checkpoint` deletes the committed one first; so does a resumed job that
  comes to the end of a pass at once. `LastNeverLost` of `Trainer` names this exception;
  `ckpt_safety` with `Resave = TRUE` violates that of `Checkpoint`.
- Trainer. `_read_next_batches` stops for good when the first pass has made no step; that
  is so, too, if every step of that pass overflowed.
- Steps. `normalize_grads`, a collective, is called only if the rank's own batches have logit
  targets: with a batch (or all batches of a step) whose targets are all padding or masked on
  one rank, the ranks wait in different collectives. A pair of shards `<<Good, Empty>>`,
  `<<Good, Good>>` in `MCSteps` violates `EveryTaskEnds`.
- Prefetcher. A single recoverable error uses up all warnings: once `faulted`, `next`
  rethrows the stored exception at every retry.
- Map. With nothing left to return, the last thread may decrease `tasks_in_flight_` between
  the reader's test (`tasks_in_flight_ > 0`) and its wait: the queue stays empty, nobody notifies, and
  `next` never returns (`Hung`). `NextReturns`, a part of `EveryCallReturns`, is about calls for which there is an example.
  The same window is in `wait_until_done`.
- Map. An error of the inner source in the deterministic mode makes the retry return
  examples that were not mapped, and after a reload reads at an undefined place (`spoiled`).
  `exception_ptr_` is never cleared.
- `round_robin`: a round whose last pipelines have ended, and an empty pipeline, end the
  data of the others (`CutShort`; the comment at `round_robin_data_source.cc:69` expects this only
  when all are empty).
- `sample`: where every pipeline is empty, the index is out of bounds (`NoExample`). `zip`: its
  finitude is inverted, finite pipelines make it infinite.
- `repeat` does not record `has_data_`, `dynamic_bucket` neither records nor resets
  `return_buffer_`, `packed` reloads its remainder only if one was recorded (`Forgetful`).
- `skip`, `shard`, `zip`, `round_robin`, `sample`, `shuffle`, `bucket`, `dynamic_bucket` and `packed` lose
  examples, or leave an empty one behind, when their inner pipeline throws a recoverable
  error in the middle of their work; only those in `ErrorProof` do not.
- Data pipeline. The position of a pipeline that was never used reloads as a reset that
  leaves random generators where they are.
- Attention. `Misattends` names the forward passes that give a token what it should not get: chunked
  biases; `Flash2SDPA` and `Flash3SDPA` with a window, which has one token more than those of the other
  implementations; a padded batch whose sequences all have one token but whose rows are wider, for which
  `maybe_get_attention_bias_tensor` skips a causal or chunked bias and leaves the padding unmasked; and
  `naive_scaled_dot_product_attention` with padded targets and a source, where a padding row is masked entirely, its softmax is not a number,
  and in the next layer is multiplied into every other row.
- Attention. An ALiBi bias has a head dimension that `_create_block_bias_tensor` does not expect: padded or packed
  batches fail (`Refuses`).
- Attention. `AttentionBiasCache` knows a bias but not the layouts its tensor was made for; the identity bias of a
  decoder layer's attention to the encoder output and an identity bias in its self-attention would share one. No model
  of the library has both.
- Generation. Where the step processors block every token of a row, `torch.multinomial` gets probabilities that are
  not numbers and raises (`SamplingFails`), also while the prompt is read, when its pick is thrown away.
- Attention. `LocalAttentionState.append` rolls a window that is only partly filled when
  several tokens come at once, and then exposes blank slots (`ByToken`).
- Generation. While a prompt is read token by token, its tokens pass the step processors: a
  blocked one gets minus infinity, and so do all hypotheses of the prompt (`PromptsAllowed`).
- Generation. Sampling with more than one sequence per prompt and prompts of one token fans
  the batch out before the model is first called; an encoder-decoder model then has fewer
  encoder outputs than rows and fails (`DecodeFails`).

- Bring-up. With `load_rank0_only` or `init_rank0_only` the other ranks keep what they have; `Delivered` leaves
  them out. `create_new_model` with `meta=True` has no barrier, so one rank may fail alone (`AllOrNone`).
- Evaluation. A stop request is read by each rank for itself, as in the trainer: a rank that stops leaves the
  others in a collective, which times out (`EvalEnded`).
- Evaluation. `AggregateOwn` shows why ranks other than 0 need a score that they do not use: without it
  rank 0 would save a score, and meet nobody in the barrier.

- Shards. A persistent buffer is replicated, and every rank of a sharded gang saves all of it;
  `reshard_tensor` concatenates the copies, and the model refuses the result (`BufferRepeated`).
- Gangs. `_check_ranks` accepts a rank equal to the size of the gang, `Gangs.__post_init__` joins
  its conditions with `or ... and`, and `ProcessGroupGang.create_gang` refuses to divide a gang other
  than the root, which hybrid sharding does only without tensor parallelism, where they are the same. No layout
  that the recipes accept meets any of these.
- FSDP. `fsdp_load_local_state_dict` raises after it has loaded; the trainer does not use it.
- Checkpoint scores. A kill between the truncation of a score file and its writing leaves an empty
  file, at which every later pruning with `keep_best_n` raises (`ReadStale` to `dead`).
- Downloads. `spoiled` records the ways in which the asset directory may come to hold what was
  never whole: the file of `download_kill`; a job killed while a forced call cleans the cache; a
  forced call beside another job; a failure or kill of one of two jobs that download together. The last
  is the frequent one: the error handler of the job that fails removes the directory
  of both; and an empty `.download`, published or left by a kill, makes every later load fail until
  a forced call removes it.
- Downloads. After a kill during the extraction, a call with `local_only` returns what was extracted so
  far. `LoadsHeal` is about loads and forced calls.
- Downloads. `TarFile(path)` reads uncompressed archives only, while `is_tarfile` recognizes compressed ones:
  a `.tar.gz` asset raises `ReadError`, which is neither an `OSError` nor caught; `LoadsHeal` leaves the
  format `tgz` out.
- Downloads. When rank 0 fails to download, the other ranks wait in the barrier of `_download_model` until
  the launcher ends the job.
- Cards. A base that leads back to a card of the line is followed until the interpreter's stack
  ends (`endless`). The example of `src/doc/source/basics/assets.rst:236`, an entry `my_model@user` with
  `base: my_model`, is such a line, since the base of `my_model` is then `my_model`. A name that has
  only an entry for an environment, as `my_custom_model@user` in line 204 there, is not found. The
  document shows both as cards that work; `CardsResolve` names them as exceptions (`LeadsBack`,
  `EnvironmentOnly`) and says nothing of such lookups.
- Cards. A relative path that comes from a base is resolved against the directory of the leaf's
  file, and the configuration of an environment replaces that of the plain entry as a whole,
  where a base's is merged. `CardsResolve` states the latter and leaves the former open.

### Bounds

Two ranks are enough to tell rank 0 from the others and for every collective to be
met by a rank that is early and one that is late. Three saves let a checkpoint be the
last, the best and neither; two score values order them; three generations let files of
an old, a current and an interrupted save meet under one step. One crash leaves
every kind of file and directory behind, and a restarted job may make the remaining saves
over it. In `Trainer` an epoch has two
or three batches and saves come every second step, so that a save falls on the end of an
epoch in one pass and inside it in the next; two kills let a resumed run be killed and
resumed again. In `Prefetch` the queues hold two examples and the source five, so that
both queues are full with an example in hand and two more to come, and two calls allow
a position to be recorded and reloaded in one behaviour. Positions recorded without the
queues (`Strict = FALSE`) are covered by the theorems only. The proofs below do not depend
on any of these numbers.

In `MapSource` three examples are more than the two tasks that run at a time, so that a
task finishes while another example is enqueued; two calls record and reload. In `Sources` lists have up to
five examples, buckets, windows and shards two or three, so that every operation has a full
round, a partial one and none; ten reads go past the end of each. In `Steps` shards have none to four batches: shorter and longer than a
read, multiples of the accumulation and not; three passes of two or three steps let the
scale fall, grow after its window of two, and a checkpoint of every second step fall on
the end of a pass or inside it. In `Bringup` two ranks or four are replicated,
sharded, tensor parallel, or both; one failure may strike any rank in any step. In `Evaluation` the two
data parallel ranks have uneven and empty shards, one unit or two, and two validations show what the
first leaves to the second. In `Generation` five tokens are two special ones and three
others, beams of two over up to three prompts split, merge, fan out and end in every order,
and generated lengths reach their minimum and maximum; the four scoring functions are
arithmetic hashes of all that the model sees, so that a wrong row shows as a wrong score. In `Attention` batches have one to three sequences of one to three tokens, so that padding, packing with and without
a rest, rows of one token and full rows occur, and the second layer sees what the first did to the padding. In
`Shards` four processes are the smallest number with two gangs of two in each of two
dimensions; four rows are divided evenly by one, two and four and three unevenly (one rank has no rows); two
steps tell the last checkpoint from an earlier one; a kill may fall into the bootstrap, the
restore, a save or between. In `Downloads` the second job may run together with the first, the
third finds what they have left; a file has two chunks and an archive two members, so that each
may be absent, partial and whole. In `Cards` two names and a missing third, with entries for two
environments, make lines that end, branch off, lack a base and lead back. In `Container` three registrations
make chains, diamonds, cycles through one, two and three of them, gaps and collections; two requests and one failing
constructor show what the first leaves to the second.

Bounds appear as constants: `MaxStep`, `MaxGen`, `MaxCrashes`, `StepBound`,
`MaxOverflows`, `MaxKills`, `MaxCalls`, `MapCalls`, `PipeCalls`, `IdealLength`, `MaxPasses`,
`JobKills`, `MaxSteps`, `MaxTrainings`, `Together`, `MaxFails`, `MaxFailures`, `MaxRuns`. A trainer that reaches `StepBound` stutters
(`Ended`); in the runs about the end of training the limit of the run is reached first.

### Fairness

`Checkpoint!FairSpec`: each process, each pool thread, each collective, rank 0's file
operations and the trainer's calls make progress. Processes and threads are scheduled by
the operating system, a collective returns once all have arrived, and the loop polls
before every step. `SaveCommits` excuses itself if something is killed or fails.
`Trainer!FairSpec`: the loop's handlers (or the divergence that takes the place of one)
and the writing thread make progress; signals, kills and overflows are free and bounded.
`Prefetch!FairSpec` and `MapSource!MapFairness`: each thread is scheduled while it can move;
nobody is obliged to start a call, so liveness is about calls in progress. `RanksSpec`:
each rank makes its own steps, a collective in which all ranks have arrived returns, and one whose
member is gone times out; kills and failures are bounded, signals come once.

## 4. Proofs

All theorems hold for every value of the constants under the assumptions of the
modules (`RankAssumption`, `RegimeAssumption`, `BoundAssumption`, `ScheduleAssumption`,
`RunAssumption`, `SizeAssumption`, `PlanAssumption`, `BadAssumption`, `MapAssumption`, `StepAssumption`, `WiringsAssumption`, `TaskAssumption`, `EvaluationAssumption`, `FailureAssumption`, `JobAssumption`), which TLC evaluates in the runs.

| Module | Theorem | States |
|---|---|---|
| `CheckpointProofs` | `TypeCorrect` | `TypeOK` |
| | `RestoreIsSound` | `RestoreSound`: what a restart resumes from is whole |
| | `LastIsNeverLost` | `LastNeverLost`: no step touches the last full checkpoint |
| | `CollectivesAlign` | `CollectivesAligned` for any number of ranks |
| | `ScoresMatch` | `ScoreMatches`: a score was measured on the model beside it |
| | `PruningIsComplete` | `Pruned`: after the callback nothing is left that the policy gives up |
| | `RetentionIsHonoured` | `RetentionHonoured`: no step deletes what the policy keeps |
| | `IsACheckpointStore` | `ImplementsStore`: the manager implements `CheckpointStore` |
| | `OnlyTheLastIsFull` | `OnlyLastFull`: in the mode `all_but_last`, no checkpoint but the last keeps its full state |
| `TrainerProofs` | `TypeCorrect` | `TypeOK` |
| | `DataIsExact` | `DataExact`: no batch skipped or repeated over any history |
| | `StopIsPrompt` | `StopPrompt`, when there is no `max_num_steps` |
| | `StepsAreExact` | `StepExact`: step numbers count updates |
| | `LastIsReplaced` | `LastNeverLost`: the last checkpoint gives way only to a later one |
| | `EndIsSaved` | `EndSaved`, for plans that satisfy `EndsCompleted` |
| `StepsProofs` | `TypeCorrect` | `StepsTypeOK` |
| | `ReplicasStayOne` | `ReplicasAgree`: the ranks hold one model, schedule and loss scale whenever they meet to read |
| | `NoBatchTwice` | `BatchesOnce`: no batch in two updates of a pass, and equal shares in each |
| | `MetricsCountSteps` | `MetricsExact`: outside a step the metrics have counted the batches of the updates made, no more and no less |
| | `PassesAreCovered` | `PassCovers`: a pass runs exactly the batches it should, in order |
| `RanksProofs` | `TrainingGoesOn` | `TrainingUndisturbed`: a training does not notice that it was interrupted for a validation |
| | `RecordsAreComparable` | `RecordsComparable`: what is recorded and scored is of all ranks, all batches and all units, under the same random numbers each time |
| | `NoneAlone` | `AllOrNone`: the ranks are brought up together or not at all |
| | `ReadyIsRight` | `ModelsReady`: a rank that is ready holds the weights asked for, and its tables |
| `PipelineProofs` | `TypeCorrect` | `TypeOK` |
| | `WakeupsAreNotLost` | `NoLostWakeup` |
| | `QueuesAreBounded` | `QueueBound`: the queues hold at most what they may |
| | `AloneAfterJoin` | `AloneWhenActing`: the inner source is touched by one thread at a time |
| | `IsADataSource` | `ImplementsSource`: the prefetcher implements `DataSource` |
| | `MapTypeCorrect` | `MapTypeOK` |
| | `NothingIsLost` | `Conserved`: an example that was read is in one place, and in one only |
| `GangsProofs` | `AcceptedLayoutsAreGrids` | the gangs of any accepted layout of any number of processes make up a grid (`Grid`, the first conjunct of `ShardsExact`) |
| `ShardsProofs` | `AnyLayoutLoads` | a model saved in any layout is loaded exactly by the ranks of any other |
| | `HistoriesKeepShards` | `ShardsExact`, if saves of the model only are of unsharded models: through all jobs, trainings and layouts every rank holds its part of the model one process would have |
| | `SplitModelsAgree` | `ForwardAgrees`, under the same hypothesis: split linear layers and embeddings compute what the undivided model does |
| `SetupProofs` | `DownloadsInvariant` | the inductive invariant `DownloadsOK` |
| | `CacheIsWhole` | `CachedWhole`: an asset directory beside no download is whole |
| | `LoadsAreHealed` | `LoadsHeal`: a load or a forced call that nothing disturbs makes good what was left |
| | `BuiltOnce` | `OneInstance`: a singleton is constructed once at most |
| | `NothingMarked` | after a request, whatever its end, no registration is marked as being built |
| | `AnsweredAsRegistered` | `AnsweredRight`: every request is answered as the registrations say |

`CheckpointProofs`, but for `TypeCorrect` and `OnlyTheLastIsFull`, assumes `Conventional`: `save_model_only` is false and no step is
saved twice. Otherwise the other modes are model-checked only: in `all_but_last` alignment is
false (`ckpt_race`), and with a step saved twice the last checkpoint is lost (section 3). The invariant says for every rank which collective it is heading to
and which ranks may already be there, that files under `.tmp` are of the current save and
are complete once the ranks agree to commit, that the directory of the step being saved is
gone when its save begins, and that pruning and deletion lists never hold the last
full step.

Scores, pruning and the refinement add three parts to that invariant. `GenOK`: every file of a checkpoint is of
one save call, those on disk are older than the save in progress, and the newest of them is in the last
checkpoint. `ScoreOK`: a score file, and a score on its way to disk, is of the save beside it.
`PruneOK` is what makes a list of stale steps, computed once and carried out file by file, right to the
end: the set that is kept, the listed checkpoints less those still to delete, does not change while
deletion goes on, and every step that remains to be deleted is beaten by enough of the kept ones. That the best `keep_best_n` of all are among
the kept rests on `TopElements`, a lemma about ranks in a finite total order. Each action of
the manager then maps to a step of `CheckpointStore` or to a stutter: publishing is the rename, and a
deletion is the removal of the first file.

`OnlyTheLastIsFull` is about the mode that has no alignment. Its invariant (`FullOK`) is of rank 0 alone: nobody else
removes or renames a file, so that the list rank 0 made of the full checkpoints stays complete until it has gone through it
(`Earlier`), and it comes back to the trainer only when that list is empty (`Settled`), wherever the other ranks are.

`TrainerProofs`: `DataExact` is inductive together with the statement that every
checkpoint on disk and in flight satisfies it for the position it was taken at.
`StopPrompt` needs to know that a step begun after the request leads to a handler that
reads the flag.

What training leaves on disk needs three parts more. `NumbersOK` bounds how far a step number may
run ahead of the updates: by one for every job of the history that was asked to stop, and not at all where signals
do not occur. `LatestOK` says that no checkpoint is of a later step than the one reached, and that
one of the very step reached holds the very model in memory, so that a checkpoint deleted to be saved
again is the same one. `EndOK` and `ReportOK` carry what is owed from
the handlers that save and publish to those that end: in the states where `_should_do` answers that a step was
saved already (`Owed`), it was; where it answers that its metrics were published (`Reported`), they were. At the end of the data
`_stop` alone completes nothing, so the theorem about `EndSaved` has a hypothesis on the plans,
`EndsCompleted`: there is no limit of epochs, or a validator runs at that end after every
step at which a save was due. Without it the property is false (section 3).

`StepsProofs` is about `StepsSpec`, the steps of the `ranks` run without their fairness. What each action does is
stated once, field by field (`LoadEffect`, `ReduceEffect`, ...), and all else is proved from that. Between two
collectives the ranks differ: one has decided on the update, another not yet. So the invariant compares
what a rank *will* hold once it has made the step or the decision it is about to make (`Ahead`). A step of one rank
leaves its `Ahead` as it was (`LocalAhead`), a collective finds all ranks in one place, where `Ahead` is what they hold, and
`GradsOK` says that from the last reduction on they decide alike. `CountersOK` ties step numbers and learning rate
schedules to the updates made. For resumed jobs, `SnapsOK`: two ranks' parts of a checkpoint with the same number agree, though
each rank writes its own at its own time, and an old part never has the number of the step being made.
`NoBatchTwice` adds three parts. `BehindInv`: every batch in any rank's model or gradient lies behind what the rank that
read it has in hand, and behind the position in a checkpoint that has it in its model. `ShareInv`: in a step,
the batches a rank has run and those it has in hand are as many as another's (`Even`), so that the reduced gradient
is `Balanced`. `OnceOK`: the updates of a model are disjoint and balanced, and the gradient is disjoint from them.
`MetricsCountSteps` stands on these: `TallyOK` says of a rank that outside a step its metrics are the batches of its
updates, in the lapse and in total, that inside one they are ahead by what the rank itself has added to the gradient, and that the copy to
which an overflow returns is not. A batch that is run is new to the gradient (`RunIsNew`), a reduction leaves the rank's own part
as it was, and only fp16, where the copy is made, overflows. The batches are the cardinality of a set of pairs (`Given`), so that an update
adds to it by the theorems about finite sets (`GivenGrows`) and no sum by recursion is needed. TLC checked `TallyOK` on
the instance of `ranks` first.
`PassesAreCovered` follows the position of each data reader: `Orderly` says that the batches run are those of the
shard in order, that the batches in hand follow them, and (`Fits`) that the position is beyond the two together only
where the shortest shard has been run or the rest of the rank's own was dropped; `DueOK`, that with UNTIL_FIRST all ranks have run, or
hold, as many. `KeptOrder` says the same of the parts of a checkpoint, and that parts of one step have run
equally far, which a resumed job needs.

`RanksProofs`, evaluation, is about `EvalSpec`, the steps of the `ranks` run without their fairness. What a step does to a rank is stated
once, field by field (`Effect`, `ReadEffect`, `EndEffect`, `RecordEffect`), and `StepsDo` proves that in every step each rank stays as it is or
moves by one of these. Two parts of the invariant are about one rank. `Undisturbed`: outside a task its random numbers are those of
the training, one draw for each of its steps; inside, the numbers put aside are, and the model is in evaluation mode; and once
the validator has been reset its readers are at the start of their data. `Counts`: the metrics of a unit have counted the batches
its reader has yielded but the one in hand, in order, and the random numbers have been drawn once for each of these and of the units before.
`Abreast` relates two ranks of a data parallel gang: with UNTIL_FIRST, where one has read of a unit, the other has read as much of
the same unit or is lost. With it a reader that ends at the first empty shard ends where the shortest shard does (`EndIsRight`), and at the sum of
metrics the gang holds what its unit should count, which rests on the data parallel gang of a rank having one member of each
data parallel rank, in any layout (`DPIs`, `SumIs`). `Filed` and `InOrder` follow rank 0: how many records there are by its place, run and unit.
The draws before a unit are the cardinality of a set of batches rather than a sum by recursion, so that a unit adds to
it by the theorems about finite sets (`DrawsAdd`).

`PipelineProofs`, the prefetcher: the invariant has one part per question. `Sites` says where one thread
may be given where the other is; `Hand` ties the example in the thread's hand to the inner
position and to the state; `Contents` says that the queues hold the consecutive examples
that end at the inner position, in order; `TapeOK` says the same of the recorded position;
`Bounds` explains why `fill_queue_` can exceed `num_examples` after a reload and why the
thread does not add to it then. Each part is shown to be preserved by each action in a
lemma of its own, using only the parts before it. The refinement then takes each action to
a step of `DataSource` or a stutter.

`PipelineProofs`, the parallel map: the examples returned, skipped, in the buffer, in the output queue and with the pool are
five disjoint sets that make up all the examples before the inner position (`Split`), in both modes, in memory and in a recorded position.
That a recorded position has no examples with the pool rests on `PoolOK`: `tasks_in_flight_` counts
queued tasks and busy threads, and is zero when `wait_until_done` has returned, so that reset, strict record and
strict reload find the pool empty. The two exceptions `Conserved` names, an error of the inner source in the
deterministic mode and its consequence after a reload, are those of section 3.

`SetupProofs`, downloads, is about any number of jobs and ranks, any of them at the same time, and any number of kills, where the runs
have three jobs, two of them together. TLC checked the invariant on three jobs first. Its parts are of
three kinds. `BaseOK` holds always: what a job has set by where it is, who is alone, and how far a job
that cleans the cache has come. `SoundOK` holds while the cache is neither spoiled nor being cleaned: the asset directory is `Complete`,
or a download with its final name is there (`Ready`), or there is neither; and each job at its place relies on no more
than that. The others keep what a job relies on (`Keeps`): a directory may be renamed and a file moved, but
`Ready` becomes `Complete` and nothing goes back; a file that is `Received` in the temporary directory is either there, or published. The delicate case is an archive
that two jobs extract at the same time, where the second truncates members the first has finished. A member is
therefore `Steady` when it is whole, or some job is about to finish it; a job that ends in the middle of one either was
alone, and then the archive is still there, or spoils the cache. `LatestOK` and `HealedOK` follow the
last job while it runs alone: that it finds the directories as it left them, so that none of its steps can fail but
for an archive that cannot be opened, and that a forced call finds no file but its own. `StepSound`, `LatestStep` and `HealedStep` prove
these three for each step; both theorems then follow from the state alone.

`SetupProofs`, the container: that a singleton is built once rests on the marks: a registration is marked
exactly while one call on the stack is its provider's (`MarkedExact`), what is marked has no instance
yet, and a singleton without an instance was never built (`Singles`). Every action either leaves the
registrations of the stack as they are, pushes one that was not there, or pops the last; the lemmas
`EnterKeeps`, `ProceedKeeps` and `LeaveKeeps` prove these three cases once.
That a request is answered right needs what the whole stack knows (`AInv`, which TLC checked on the instance of
`container` first). A registration is `Faultless` if nothing that it needs, directly or not, has a fault, and a request is
`Provided` if what it asks for is; `FaultlessIs` makes this local: a registration is faultless if its parameters are provided. Every
argument that a call has got fits a provided parameter (`CallOK`), and every call is for what the one below it asks for,
so that each registration on the stack is in the closure of those below it (`CallsOK`): one that is met again can
therefore not be built (`CycleFaults`). What is returned is an object of a faultless registration (`Returned`); what is raised is
a constructor's own error, the missing name that the last call is ready to catch, or an error that a fault below
accounts for (`Founded`). That `maybe_resolve` catches no error of a nested call is the second conjunct of `Founded`: the name that is missing has no
registration on the stack, so that no call below asked for it (`NotOn`), and once it is past the call that asked for it
nobody takes it for his own. Kept objects and `Lazy` values are right for any later request, since no registration is
accepted once something was asked for (`Untouched`).

`RanksProofs`, bring-up, has three layers. The first is about programs, as sequences: a calculus of what a concatenation does to a
part of the model (`EndsBefore`: some step wrote it, and no other has since; `Followed`: after each step of one kind
there is one of another; `Prepared`: where a step is made, another came before), with a law for each way `Program` puts
steps together, and `Programs`, which states for every task what its program guarantees: a barrier follows every
step that may fail, nothing is looked for in the cache before the barrier that follows its download, FSDP
broadcasts only what the first rank has loaded or created, the checkpoint is restored into allocated parameters, and
what the program ends with. The second is about gangs, for any accepted layout (`GangFacts`): the members of a gang agree
on it, its first member is the one of rank 0, the root gang is the whole job, and DDP's own gang is the data parallel
one wherever DDP is used. The third is the inductive invariant. `PlaceOK`: what a rank has left is the end of its program; `SyncOK`: no rank
is beyond a collective that a member of its gang has not come through; `CacheOK`; `StuckOK`: some rank that failed stands before
a barrier; and `HeldOK`, which says who wrote the weights of a part from what the program did to it so far (`Right`). That the code
refuses nothing (`NoneRefused`) follows from it, and with it both theorems.

`GangsProofs` is about layouts of any size: a rank's
place in its gangs is the quotient and the rest of its division by the sizes of the gangs before (`Position`,
`Row`, `Crossing`, `InRow`, `InColumn`), so that two kinds of gangs meet in one process.

`ShardsProofs` also has three layers. The first is about sequences: the equal pieces a sequence is cut into, and the
chunks of FSDP, of which the last ones are shorter or empty, join to what was cut (`CutsJoin`, `ChunksJoin`), and a slice of the joined pieces is found in those
`reshard_tensor` takes it from (`WhereSliceIs`, `SliceOfPieces`). The iteration of the joining operator is unfolded by induction over natural numbers,
through the least number at which it would fail (`LeastNatural`), which needs no operator as a parameter. The second is about tensors and files. `ReshardJoined`: whatever
two numbers of splits there are, the split of a target rank is put together from the source ones; `AnyLayoutLoads`: so is every tensor of a
checkpoint; `UpdatedPart`: the part of an updated tensor is the update of the part; and `Places`: for each part of the model, each position of the data and
each place in a layout there is a rank, one of those whose files are written. The third is the inductive invariant `ShardsInv`, which TLC checked first, on
unbuffered and buffered plans of up to four processes, in 56,272 states. `RankOK` says by where a rank is what it holds: once built, the first rank of a
data parallel gang has its split of the source's model, if there is nothing to restore; wrapped, restored and running, its part of it at the step
the job is at. `CheckpointsOK`: a checkpoint has the files of all ranks, nothing besides, and each holds what its readers would have held at its step.
`SavingOK` says that of the files written so far, where ranks that write to one path have the same to write (`SamePath`), and `SourceOK` of the model a training begins with. `PhaseOK` says
which ranks may be where at the same time. The theorem's hypothesis, `OnlyWhole`, is needed: a sharded job whose saves are of the model only, submitted again,
broadcasts from the wrong rank (`shards_only`, section 3).

`SplitModelsAgree` follows from `ShardsInv` too: where all ranks run, what a data parallel gang gathers is, tensor by tensor,
the split of its place in the tensor parallel gang (`GatheredIs`), so that the models of such a gang are an even cut of the whole one, by rows or by columns
(`ModelsAreSplit`). The rest is about the modules. A sum is the last member of the sequence of partial sums (`SumIs`, by the induction
that unfolds the joins), hence determined by its summands (`SumsAgree`), and the sums of its pieces add up to it (`SumOfPieces`): so a row parallel layer's reduction, of products of
pieces of a row, is the product of the row (`RowIs`). Columns are computed apart (`ColumnIs`), and gathered and scattered again they are the same pieces (`ScatterIs`), whatever
`stay` says. Of the embedding, all ranks but one add zero (`SumOfOne`, `EmbeddingIs`), for a token belongs to one rank's rows.

Only model-checked: liveness (`SaveCommits`, `Terminates`, `EveryCallReturns`,
`EveryTaskEnds`), which the provers cannot reach, and
the invariants of `Sources`, `Attention`, `Generation` and `Cards`.
Those of `Sources`, `Attention` and `Cards` compare what is computed by iteration over sequences, or over nested data, with a reference computed another way;
each iteration there would have to be unfolded by hand like those of `Shards`, and that is not done. `StateFollows` and `HypothesesRight`
of `Generation` need an invariant over all beams and steps of a search, which is not worked out.

## 5. Plan

Done: 1. `Checkpoint` with `CheckpointStore`; 2. `Trainer`; 3. `Prefetch` with
`DataSource`; 4. `Steps`: data reader, gradients, loss scaler, metric bag, evaluation loop;
5. `MapSource`; 6. `Sources`; 7. `Generation` with `AttentionState`; 8. `Gangs` and `Shards`; 9. `Cards`
and `Downloads`; 10. `Attention`; 11. `Container`; 12. `Bringup` and `Evaluation`.

Next, in this order:

13. The proof of `StateFollows`: that reordering keeps the incremental state of every beam.
14. Configuration and the record reader's buffer.

## 6. Not modelled

Tensor computation other than the forward passes of divided modules and the masks of attention (`nn`, `models`, `ops`),
learning rates, audio and image decoding, tokenizers, the other formats of model checkpoints, configuration parsing and the command line,
logging and progress bars. The reasons are given per component in PROJECT.json.
