# A TLA+ model of the Cosmos training stack

This directory models the part of the Cosmos repository where several processes
and a durable store have to agree: the distributed training job, its
checkpointer, the export of its weights, and what happens to all of them when
something dies; the dataloaders and streams that feed it, with their threads,
buffers and retries; and inference on several replicas. The modules are
written from the source under `src/`; paths below are relative to
`src/cosmos_training/cosmos/` unless they start with `cosmos-inference/`.

## 1. Inventory

The repository has two halves. `cosmos_training/cosmos` is the training
framework; `cosmos-inference/cosmos3` is the inference package, which carries a
near copy of much of the framework under `_src`. `docs/code_structure.md` names
the packages of the first; seven of them (algorithm, communicator, controller,
evaluation, inference, launcher, workers) are empty stubs at this commit.

| Component | State it keeps | Operations | Interacts with | What makes it correct |
|---|---|---|---|---|
| Trainer (`trainer/__init__.py`) | iteration, model and optimizer, dataloader iterator | `train`, `training_step`, `_fetch_and_broadcast_data`, `validate` | checkpointer (calls), callbacks (hooks), other ranks (collectives) | ranks stay in step; progress is saved every `save_iter`; the last iteration is saved before it returns |
| DCP checkpointer (`checkpoint/dcp.py`, `base.py`) | `checkpoint_in_progress`, staging buffer, two queues, a background process; on storage `iter_N/{model,optim,scheduler,trainer,dataloader}` and `latest_checkpoint.txt` | `save`, `load`, `finalize`, `save_state_dict_worker`, `save_checkpoint_in_background` | trainer, callbacks (`on_save_checkpoint_success`), the other ranks' checkpointers through `dcp.save` | the pointer only names complete checkpoints of one job; an acknowledged save is durable; ranks resume one model; nothing hangs |
| Dataloader state callback (`callbacks/dataloader_state.py`) | (epoch, index) per worker | `state_dict`, `load_state_dict`, batch hook | checkpointer | the data position resumes with the weights |
| Termination callback (`callbacks/termination_signal_checkpoint.py`) | last acknowledged checkpoint | `on_training_step_end`, `on_save_checkpoint_success` | sentinel file of the batch shell, checkpointer | an announced kill loses little; no needless save; every rank leaves |
| HF export (`callbacks/hf_export.py`) | export thread, stored exception | `on_save_checkpoint`, `on_train_end`, `_save_and_upload` | checkpointer hooks, the ranks' gather, object store | the files of an export are whole and of the iteration it names, no error is lost, the joins block nobody for ever |
| Legacy checkpointers (`utils/checkpointer.py`, `cosmos-inference/.../imaginaire/checkpointer`) | saver thread per rank | `save`, `load`, `finalize` | trainer | as DCP, per rank |
| S3 file system (`checkpoint/s3_filesystem.py`) | none (retries) | stream, rename, remove, exists | `dcp.save` | an object appears whole; rename loses nothing |
| Cached replay loader (`data/vfm/cached_replay_dataloader.py`) | bounded cache, prefetch thread, stored error | `__iter__`, `_prefetch_loop`, `close` | trainer | nothing lost or duplicated, no lost wake-up, errors surface once |
| Joint and packing loaders (`data/vfm/joint_dataloader.py`, `packing_iterable_dataset.py`) | look-ahead buffers, pool, counters, rank allocation | `__iter__`, packing, `_fill_pool`, `_best_fit_batch`, rank allocation | trainer | limits respected, samples neither lost nor starved, every shard of every dataset read by one rank |
| Retrying stream (`cosmos-inference/.../webdataset/utils/stream.py`) | position, retry count, watchdog window | `read`, reconnect | object store | the reader sees the exact byte sequence |
| Skip-NaN (`callbacks/skip_nan_step.py`) | consecutive count | hooks of the step | other ranks (all-reduce) | all ranks decide alike |
| Inference pipeline (`cosmos-inference/cosmos3/inference.py`, `common/inference.py`) | per rank: batches made so far; errors caught | `generate`, `create_batches`, `generate_batch`, `sync_distributed_errors` | other ranks and replicas (collectives) | every rank meets the others in each collective; each sample is reported once; an error is known to all |
| Ray serving (`cosmos-inference/cosmos3/ray/serve.py`) | request batches | `generate`, batch timeout | inference workers | each request is answered once |
| Models, tokenizers, attention, EMA, metrics, utilities | tensors | arithmetic | | outside the reach of a model checker |

What is hard in this code: the ranks are separate processes that act at
different speeds and share only collectives and a storage; the async mode adds a
second process per rank, with a shared-memory buffer and two queues between;
some writes are collective (`dcp.save`) and some are not (the dataloader file,
the pointer); a crash can fall between any two of them; on a local file system
`open(path, "w")` leaves a torn file; and a restarted job writes into the
directories its predecessor left. `PROJECT.json` lists each such hazard at its
line, with the properties that cover it.

## 2. Modules

* **CheckpointStore** is the abstract promise: `committed`, the iteration the
  pointer names, only grows and only to what this incarnation reached; a crash
  takes `reached` back to exactly `committed`; never more than `LossBound`
  iterations are at risk.
* **DcpCheckpoint** is the trainer with the DCP checkpointer, one action per
  step of the code between two points where another process can act.

  | Model | Code |
  |---|---|
  | `shard`, `meta`, `pkl`, `latest` | files of `iter_N/<key>`, its `.metadata`, `dataloader/rank_r.pkl`, `latest_checkpoint.txt` |
  | `pc`, `it`, `mem`, `pos` | the main process: where it is, iteration, weights, batches consumed |
  | `inflight`, `stage`, `tasks`, `results` | `checkpoint_in_progress`, `cpu_offload_state_dict`, `mp_queue_send`, `mp_queue_recv` |
  | `wk` | `save_state_dict_worker`, in the background process (async) or in the main process itself (sync) |
  | `acked` | the last iteration `on_save_checkpoint_success` reported |
  | `ReadPointer`, `LoadCheckpoint` | `keys_to_resume_during_load`, `load` |
  | `TrainingStep`, `TrainingStepEnd`, `LeaveLoop`, `FinishTraining` | the loop of `train()` and what follows it |
  | `BeginSave`, `SaveLoaderStateInline`, `StageAndSubmit`, `FinishSyncSave` | `save`, `_save_as_pkl`, `_checkpoint_async_with_pinned_memory` |
  | `ReceiveResult`, `ResultTimeout` | `_wait_for_previous_async_checkpoint` |
  | `Finalize`, `SendTerminate`, `JoinBackground` | `finalize` |
  | `ReceiveTask`, `ReportResult` | `save_checkpoint_in_background` |
  | `WriteShard`, `CommitKey`, `SaveLoaderState`, `WritePointer` | `save_state_dict_worker`; `dcp.save` itself is torch's and modelled as every rank joining, writing its shard, then the coordinator writing the metadata |
  | `CollectiveFails`, `LocalWriteFails`, `BackgroundDies`, `PeerLost`, `ResultTimeout`, `Restart` | storage errors, killed processes, timeouts, crash of the whole job |

  The contents of a file are a *version*, the job and iteration that produced it,
  or the marks `NoFile` and `Torn`. Versions let the properties tell a checkpoint
  that mixes two saves, or two incarnations of the job, from a good one.
* **TerminationSignal** extends it with the termination callback, the sentinel
  file, the exits by `sys.exit(0)` and the requeue.
* **DcpInvariant** defines the inductive invariants `IInv`, `DInv`, `LoaderKept` and
  `PInv`. **DcpInvariant_proofs** proves the types and `IInv`, **DcpDurability_proofs**
  the rest and the refinement; **TerminationSignal_proofs** and **HFExport_proofs**
  reuse both, step by step, for the modules that extend the job.
* **MCDcpCheckpoint** is what TLC instantiates, with two claims of the code's
  comments that the code does not keep.
* **CachedReplay** is `data/vfm/cached_replay_dataloader.py`: three actors around
  one lock and its condition variable. What is done while the lock is held is one
  action.

  | Model | Code |
  |---|---|
  | `cache`, `stop`, `error` | `_cache`, `_stop_event`, `_prefetch_exception` |
  | `pending`, `collected` | what `_prefetch_loop` has augmented and not cached; `collected_batches` |
  | `PrefetchLoop` .. `Put` | `_prefetch_loop`; `FetchFails` includes `_set_exception` |
  | `ConsumerLoop` .. `ConcatFails` | the two branches of `__iter__`; with a `concat_size` of one the batch is yielded without a second look at the event |
  | `SetStop`, `NotifyStop`, `Join`, `Clear`, `CheckOnClose` | `close`, statement by statement: the event is set outside the lock |
  | `NotifyPrefetch`, `NotifyConsumer`, `PrefetchTimeout`, `ConsumerTimeout` | `notify_all` and the ends of the one-second waits |

  The shuffle and the random index make the cache a set. **CachedReplay_proofs**
  holds its theorems.
* **JointPacking** is the packing loop that `IterativeJointDataLoader`,
  `RandomJointDataLoader` and `PackingDataLoader` share (`data/vfm/joint_dataloader.py`).

  | Model | Code |
  |---|---|
  | `buffers`, `skipped`, `batch`, `length`, `lookahead` | `buffers`, `skipped_samples`, `output_batch`, `current_sequence_length`, `lookahead_count` |
  | `size`, `drawn` | how many collated batches an inner dataloader has, and has given |
  | `Prewarm`, `Refill`, `Exhausted` | `_prewarm_dataloaders`; `_get_next_sample` with an empty buffer |
  | `Select` | the choice of `index_id`: `_get_dataloader_index`, or at random |
  | `StopPacking`, `Discard`, `Skip`, `Pack` | the inner `while True` |
  | `Finish`, `Resume` | the skipped samples go back; yield, or return and be iterated again by the trainer |

  A sample is its dataset, its place there, its token count and how often it was
  put aside.
* **PoolPacking** is the engine of `DataPackerDataLoader`
  (`data/vfm/packing_iterable_dataset.py`).

  | Model | Code |
  |---|---|
  | `pool`, `chosen`, `curMax` | `_pool`, `chosen`, `cur_max` |
  | `Fill` | `_fill_pool`: one sample of any dataset |
  | `TakeSeed`, `SeedAlone` | the seed of `_best_fit_batch`, and when it is a batch by itself |
  | `Fitting`, `Preferred`, `BestCandidate` | `_find_best_candidate`, with the padded costs and both strategies |
  | `AddCandidate`, `EmitBatch` | `_remove_from_pool`; the batch is yielded |

* **RankPartition** is the constructor of `RankPartitionedDataLoader`
  (`data/vfm/joint_dataloader.py`): `Construct` rounds the shares of the ranks,
  `GiveRemaining` and `TakeBack` repair their sum, and `MyDataset`, `ShardRank` are
  what a rank finds for itself. `Sums` is every sum of the code, with the sums in
  between, which are `cumulative`.
* **SampleNumbers** names the numbers and the order of a sequence of samples, for
  the properties of both packing loops. **Packing_proofs** holds the proofs of both, and of what
  `MCDataloaders` puts together.
* **ReplicaBatches** is inference on several replicas
  (`cosmos-inference/cosmos3/inference.py`, `common/inference.py`).

  | Model | Code |
  |---|---|
  | `stage`, `round`, `pass` | where each rank is in `generate`: the batch it is at, and the warmup pass |
  | `Shard`; `Dividing`, `Batched`, `Batches` | `sampler_indices`; `_iter_batch_ranges`, sample by sample |
  | `Plan`, `Counted`, `Take`, `NoMoreBatches` | the phases of the generator `create_batches`: boundaries, all-reduce of the number, batches of its own and padding, the end |
  | `ProcessInputs`, `InputsMet`, `Generated`, `WarmedUp`, `SaveOutputs`, `OutputsMet` | `generate_batch`: two sections whose errors are synchronised, and the collectives of the replica between them |
  | `Aborts`, `Return`, `Answer` | the `except` branches with `_handle_sample_exception`, and the return to `generate` |
  | `Raises`, `ProfileFails` | errors outside of any such section |
  | `answered` | history: the outputs each sample was given |

  **Division_proofs** holds the theorems of `RankPartition` and `ReplicaBatches`.
* **MCDataloaders** is what TLC instantiates of these parts: a behaviour is one of
  the joint loop, the pool, the partition, or the replicas.
* **RetryingStream** is `cosmos-inference/.../webdataset/utils/stream.py`, with
  `gopen_s3` (`iterators.py`) that opens it.

  | Model | Code |
  |---|---|
  | `body`, `amountRead` | `stream`, `_amount_read`; a stream is open or closed and stands at a byte |
  | `opens`, `attempt` | the attempts of `gopen_s3`; those of `_retry_operation` and of `read` |
  | `GetLength`, `GetFirstStream`, `OpenRetried`, `OpenedAgain`, `OpenRaises` | `gopen_s3`, the constructor and `_retry_operation`, by kind of error |
  | `ReadChunk`, `ReadRaises`, `ReturnChunk` | one attempt of `read` |
  | `WatchdogReconnects`, `WatchdogRaises` | the reset of a slow stream |
  | `GiveUp`, `Reconnect`, `ReconnectRaises` | the `except` branch of `read` |

  **ByteReader** is what the caller is promised: consecutive bytes, the end only
  behind the last of them, nothing after an error. **RetryingStream_proofs** shows
  that the one implements the other.
* **MCReaders** is what TLC instantiates of `CachedReplay` and `RetryingStream`: a
  behaviour is one of the two, scheduled as that module says, while the variables of
  the other rest.
* **HFExport** extends `DcpCheckpoint` with `callbacks/hf_export.py`.

  | Model | Code |
  |---|---|
  | `gathers`, `inGather`, `JoinGather` | the collective `full_tensor` of every parameter, on all ranks, inside `save` |
  | `thread`, `error` | `_export_thread`, `_worker_exception` |
  | `files`, `index` | the shards of `hf_exports/iter_N`, and its `model.safetensors.index.json` with the configuration: written anew by every export. They survive a crash |
  | `copied` | the `.py` and `.json` files copied from the source model: absent, torn or whole, and the job that copied them |
  | `ExportBeginSave`, `StartThread`, `RaiseInSave` | the rest of `on_save_checkpoint`: join, raise a stored error, start a thread |
  | `WriteFile`, `WriteIndex`, `CopyMissing` | steps 1, 2-3 and 4 of `_do_save_and_upload`; the last copies only files that are absent (`Missing`), and only if `model_name_or_path` is a local directory (`LocalModel`) |
  | `ExportFails`, `TearFile` | `_save_and_upload` keeps the error; the file being written, of any of the three kinds, is left torn or not begun |
  | `ExportFinalize`, `RaiseAtEnd` | `on_train_end`, in front of `finalize` |
  | `ExportRestart` | a crash: the thread is a daemon and dies in the middle of a file (`TearFile`) |

## 3. Runs

| Run | Configuration | What it shows |
|---|---|---|
| `dcp_async` | async, object store, zero checkpoint, dataloader state, 2 ranks, 2 keys, `save_iter` 2, `max_iter` 5, 2 jobs | the types and the inductive invariant `PInv`, which contains `IInv` and `DInv`; the pointer names intact checkpoints (`PublishedIntact`) with every rank's dataloader file of the same moment (`LoaderStatePublished`); ranks resume one model and its data (`ResumeConsistent`); the buffer is stable (`StagingStable`); success means durable (`AckedDurable`); a normal end leaves the last iteration published (`CompletedDurable`); the system refines `CheckpointStore` (`ImplementsStore`); and the job always ends (`Completion`) |
| `dcp_sync` | sync, local files that can tear, 3 ranks, 3 jobs, `max_iter` 4 | `ResumeConsistent` and the loss bound of one interval, `LossBounded`; `PublishedIntact` is a theorem for this mode too |
| `term_async` | termination callback, async, `save_iter` 3, threshold 2 | a rank that skips gives up less than the threshold (`SkipLosesLittle`); emergency saves are durable (`EmergencySaveDurable`); an exit without a save, which kills the background process in whatever it writes, leaves the pointer on an intact checkpoint (`PublishedIntact`) |
| `hf_export` | async, object store, 2 ranks, 1 key, a save in every iteration, an export in every second one, `max_iter` 4, 2 shards an export, files copied from a local model, 2 jobs | whatever the thread's pace, once rank 0 has come through `on_train_end` the exports asked for have the shards and the index of their iteration, and copied files that are torn only where an earlier job tore them (`ExportsDelivered`); a failed export stops rank 0 at the next export that is due, or at the end (`ErrorsSurface`); the gather and the joins block nobody for ever (`ExportCompletion`) |
| `data_readers` | replay: `cache_size` 2, `concat_size` 2, up to 3 copies of 2 raw batches, an error or `close()` at any point. Stream: an object of 4 bytes, 3 attempts a read, 2 of opening | replay: no batch is lost before an error or `close()`, or handed out twice (`Lossless`); no waiting thread has missed what it waits for (`NoLostWakeup`); `close()` leaves an empty cache (`ClosedStaysEmpty`) and hides no error (`CloseReports`); concatenations are full (`NeverShort`); whoever asks is answered (`Served`) and `close()` ends both threads (`ShutsDown`). Stream: an open stream stands at the first byte not counted whenever more is read (`InSync`); the stream implements `ByteReader` (`ImplementsReader`); a read ends (`Answered`) |
| `joint_packing` | joint: two datasets, ratios 2 : 1, look-ahead 2 and 1, budget 5, samples of 1, 4 and 5 tokens, two collated batches of two samples at most. Pool: size 4, lengths 2, 4 and 7, budget 16, halved from 6, singletons from 7, at most 3 samples a batch, two modalities, 6 arrivals. Partition: world sizes 1 to 5, 7 and 8, ratios 1, 3 and 20, up to 4 datasets. Replicas: 2 of 2 ranks, up to 4 samples of cost 1 or 3, limit 2, one warmup pass, `keep_going` and `profile` either way | joint: samples keep their order (`OldestFirst`), are put aside at most `lookahead_limit` times (`SkipsBounded`), and none is lost or duplicated (`NothingLost`). Pool: each sample is a seed after a bounded number of batches (`NoneStarves`), is emitted once (`EmittedOnce`), and padded batches keep `max_tokens` (`PaddedWithinBudget`). Partition: every shard is read by one rank (`ShardsCovered`), and larger ratios never get fewer ranks (`SharesFair`). Replicas: ranks meet in every collective and none waits for one that has ended (`CollectivesMeet`), every sample is reported once (`AnsweredOnce`), and samples generated side by side share their fate (`RoundsAgree`) |
| `sync_success` (violated) | sync, 2 ranks | `on_save_checkpoint_success` runs on a rank before the save is "fully finished" |
| `rewrite_latest` (violated) | sync, local files, `max_iter` off the `save_iter` grid | the latest checkpoint can become unloadable |
| `term_redundant` (violated) | as `term_async` | an emergency save right behind a finished one |
| `hf_next_save` (violated) | as `hf_export` | a save that is not due for an export passes by the stored error of one that failed |
| `replica_abort` (violated) | 2 replicas of 2 ranks, no warmup | without `keep_going`, an error known to all ranks ends only some of them |
| `term_sync_poll` (violated, liveness) | termination callback, sync | two ranks that poll on either side of the sentinel wait for each other |

**Bounds.** `MaxJobs` bounds the crashes: a fault of any kind needs a job left to
recover with, so two jobs give one crash and every single fault before it, three
jobs give a crash during the recovery from a crash. Two ranks tell rank 0 from
the others and let one be ahead; three, in `dcp_sync`, let two ranks be ahead or
behind the third. Two keys are enough for a crash between two collective saves.
`max_iter` 5 with `save_iter` 2 gives two periodic saves, a final save off the
grid, and a save that meets its predecessor still in flight. Ranks are numbers
(rank 0 is the coordinator), so no symmetry is declared. In `data_readers` a raw
batch can make more batches than the cache holds, so that the prefetch thread
waits with some in hand, and the cache can run empty in the middle of a
concatenation. In `joint_packing` four samples of a dataset are enough for one to
be put aside, put back behind another, and put aside again; 1 + 4 meets the
budget exactly, 5 exceeds it alone, and `size` lets a dataset be empty or run out
in the middle of a batch. A pool of four with a batch cap of three leaves samples
behind that others overtake, and six arrivals refill it; lengths on both sides of
the half-budget limit make `cur_max` cross it between two candidates, and those of 7
meet `long_threshold`, so that a seed of 7 is a batch by itself. In the
partition a ratio of 20 beside ratios of 1 makes the rounding allocate more ranks
than exist, and equal ratios make ranks remain. Two replicas of two ranks tell the
first rank of a replica from the others; samples of cost 1 pair up and one of cost 3
exceeds the limit alone, so that either replica can have fewer batches, or none. An object of four bytes allows
chunks of several sizes and an error before, in and behind each of them; three
attempts allow a failed reconnection between two good ones. In `hf_export` exports
of iterations 2 and 4 are due (and of 0, the zero checkpoint), so that a thread can
be overtaken by the next export and by the end, and a second job can redo an export
its predecessor left half written, with shards, an index or copied files that are torn.
One copied file stands for all: they are copied one by one, each under the same guard. The theorems of section 4 do not depend on these
bounds.

**Fairness.** Each rank's main process and worker, the collectives, and the
restart of a job in which a rank raised are weakly fair: they are processes the
operating system schedules, collectives that complete once all have joined, and
`torchrun`, which tears a failed job down and starts it again. Faults are never
fair, and a crash is never required. `Completion` needs no more.
`term_sync_poll` uses the same fairness for the polling ranks, so its
counterexample is a real wait and not a rank that stopped. In `CachedReplay` the
two threads and a `close()` that has begun are weakly fair. The timeouts of the
waits are not, so `Served` and `ShutsDown` do not lean on them, and nobody has to
ask for a batch or call `close()`. `MCReaders` assumes of each behaviour the fairness of
the part it is one of, and nothing of the other. The underlying loader answers or raises (the
watchdog only logs). In `RetryingStream` a `read` that has begun is weakly fair
(botocore's timeouts make the store answer or raise); the caller need not read on.
In `HFExport` the export thread is weakly fair beside everything `Completion`
assumes; an upload that never returns would block the join, as in the code.

**Deadlock** is checked in every run but `term_sync_poll`, whose finding is a
deadlock. A job that is done, or failed with no job left, stutters (`Terminated`), and so do a
stream that raised (`Abandoned`), a pool without further arrivals (`PoolDrained`)
and a partition that is made (`PartDone`). Ranks of which one has raised wait for
ever, as in the code, until they are killed from outside (`Stopped`): the deadlocks
this leaves to TLC are those nobody's error explains.

## 4. Theorems

The theorems about the checkpointer hold for every number of ranks, keys,
iterations and jobs and for both modes, under the assumption `DcpAssumption` on
the constants; those about the other modules for all sizes, limits, budgets and
numbers of attempts, under the assumption on constants each module names.

* `TypeCorrect`: `Spec => []TypeOK`, from `TypeInv`, which adds that a rank in
  `load` has a real iteration to load.
* `Invariance`: `SafeStorage => (Spec => []IInv)`, and from it
  `PublishedIsIntact`, `StagingIsStable` and `RanksTrainOneModel`.
* `Durability`: `SafeStorage => (Spec => []DInv)`, and from it `AckedIsDurable`;
  with `LoaderKept`, `LoaderStateIsPublished` (async) and `ResumeIsConsistent`.
* `ProgressInvariance`: `SafeStorage => (Spec => []PInv)`, and from it
  `CompletedIsDurable` and `LossIsBounded`.
* `JobImplementsStore`: `ObjectStore => (Spec => ImplementsStore)`, the refinement of
  `CheckpointStore`.

`SafeStorage` says that files appear whole (object store), or else that there is
no zero checkpoint and `max_iter` is on the `save_iter` grid. It is needed: the
run `rewrite_latest` is what happens without it. The refinement needs the object
store: where the pointer itself can be torn, a state with a torn pointer has no
counterpart in `CheckpointStore`, and the code promises none. `LoaderStatePublished`
needs the async mode, where the dataloader file precedes the hand-over; in the sync
mode the ranks write theirs behind the last collective (finding 1).

*Why `PublishedIntact` is not inductive.* A step of the pointer needs to know that
rank 0's worker has an intact checkpoint behind it; that needs what each worker
has written so far (`Written`), that what it writes does not change meanwhile
(`Lanes`: one save at a time per rank, in exactly one of queue, worker and result
queue, with the staging buffer its own), that the ranks' versions of that
iteration are one version (`Lineage`), and that rewriting an old directory cannot
damage what is published. The last point is the interesting one: a restarted job
does rewrite directories, even the published one. `Lineage` says that all
versions still in use (in memory, in a staging buffer, or published) that share
an iteration are equal, so a rewrite of the published checkpoint writes what is
there already; with tearing, `Fresh` says rank 0 only ever saves something newer
than the pointer, so that the rewrite never happens. `Booting` and `Progress` tie
starting and running ranks to the pointer, and `Publishing` says the pointer's
next value is intact and an iteration every rank reached.

The proof has one lemma per conjunct of `IInv` (`LanesStep`, `BootingStep`,
`ProgressStep`, `WrittenStep`, `PublishingStep`, `LineageStep`,
`PublishedIntactStep`, `FreshStep`), each split by action, over frame lemmas that
say which actions touch which variables; `RestartInv` covers the crash, where
only `TearElsewhere` has to be argued. TLC checks `IInv`, as a part of `PInv`, too.

*From `IInv` to durability.* That a checkpoint a rank was told of stays complete is
not a fact about the pointer: the rank may hear of it before the pointer moves, and
directories are rewritten. `Durable` therefore says the same of every checkpoint
somebody counts on (`Promised`: the pointer, a worker past its keys, an answer in the
result queue, what a callback was told). Each such checkpoint is `Settled`: intact,
behind every rank, and of the very version anyone still on the way to that name
(`ToWrite`) is going to write, so a rewrite changes nothing. `CommitSettled` is the
step that settles one, the commit of the last key, where the collective has made sure
that every rank is past the iteration and holds that version. `Forward`, `Ahead`,
`SavedOnce` and `Reported` order the pointer, the answers and the saves. `LoaderKept`
follows the dataloader file through the same stations.

*From durability to the loss bound and the refinement.* `Paced` says that rank 0 has
handed over every due save behind it and has at most one pending; `InStep` that
nobody is more than a step ahead of anybody; together they give `Bounded`, which is
the loss bound at the level of the pointer. `Finished` and `Drained` say that rank 0
leaves the loop at `max_iter` only, and leaves `finalize` only with an empty lane. The
refinement maps `reached` to the greatest iteration of a rank (`ReachedIs` and
`ReachedExists` give it a value that can be reasoned with); `TrainRefines`,
`PublishRefines`, `StartRefines` and `RestartRefines` are its cases, and all other
steps stutter.

* `ExportInvariance`: `SafeStorage => (ExportSpec => [](IInv /\ ExpInv))`, and with it
  `ExportsAreDelivered` and `ErrorsAreSurfaced`.

`HFExport` adds conjuncts to the job's actions. `ExportSteps` reduces a step of the
composition to one of five: a step of the job that leaves the exports alone (`Apart`),
a save that starts the thread (`Asking`), a step of the thread, an error raised by
rank 0 (`Raising`, the one step the job alone cannot take) and a crash; so the lemmas
of the job carry over. `ExpInv` says that every export asked for is whole, in the
thread's hands, or failed and remembered (`Accounted`, `UnderWay`, `Remembered`), and
that none that was due is left out (`NoneLeftOut`). `Whole` is of the shards and the
index, which every export writes anew. The copied files need `Cuts`: a file that is torn
was torn by an earlier job, or by an export of this job that failed. So an export of this
job whose error nobody has to raise found its copied files whole, or torn before its job
began.

* `TermInvariance`: `ObjectStore => (TermSpec => []TermInv)`, and from it
  `TermPublishedIsIntact` and `EmergencySaveIsDurable`; `AckInvariance` adds `AckInv` in the async mode, and with
  it `SkipLosesLittleAlways`.

The emergency save is off the `save_iter` grid and may be of the iteration the pointer
names, so these need the object store, for the reason `rewrite_latest` shows. `Paced`
does not survive it; what `TermInv` keeps is `DInv`, `InStep`, and `Drained` for the
ranks that leave with the save. `Heard` is why a skip is cheap: what the callback
remembers is not ahead of the pointer, or else a whole `save_iter` old, since rank r
hears of a save when its next one is due.

* `ReplayInvariance`: `ReplayInv` is an invariant of `CachedReplay`, and with it
  `ReplayLossless` (`Lossless`, and that the cache never exceeds `cache_size`),
  `ReplayWakes`, `ReplayCloses`, `ReplayCloseReports`, `ReplayNeverShort` and
  `ReplayTypeCorrect`.

`ReplayInv` strengthens those properties by four facts. `Fetched`: everything in
somebody's hands was made of a raw batch fetched before, so the next one is new
and nothing is duplicated. `StopIsClose`: the event is set exactly when `close()`
has begun, so a thread that sleeps although the event is set sleeps only until
the notification of `close()`. `Rounds`: the loop over `concat_size` collects one
batch in every round. This holds because an iterator that gets past the wait
without an error or the event finds a batch there, and it makes the branch
for a short concatenation dead code. `Joined`: after a successful join nobody is
left to store an error behind `close()`'s back. One lemma per conjunct, split by
action.

* `JointInvariance`: `JointInv` is an invariant of `JointPacking`, and with it
  `JointOldestFirst`, `JointSkipsBounded` and `JointNothingLost`.

`SkipsBounded` is the interesting one: nothing in a single step bounds how often a
sample is put aside, since each batch counts from zero. `MovedUp` carries the
argument. A batch only puts samples aside after it took its first one, and that was
in front of all of them; so between two times a sample is put aside it has moved up
one place at least. A sample put aside `s >= 1` times that stands at place `i` of its
buffer therefore keeps `s + i` at most `lookahead_limit + 1`, and while the batch is
packed the samples already put aside, plus one for the first of the batch, count
with the places in front (`Behind`). The inductive step needs that samples put aside
go back to the head in their order, which is also what keeps `Ordered`, and from it
`OldestFirst`. `Kept` says where the samples of each dataset are; that no number
occurs twice in one place follows from the order.

* `PoolInvariance`: `PoolInv` is an invariant of `PoolPacking`, and with it
  `PoolNoneStarves`, `PoolEmittedOnce` and `PoolWithinBudget`. `NoneStarves` is
  inductive because taking a candidate out of the middle moves nobody back and
  every batch takes the head. For the budget `Padded` adds that `cur_max` bounds
  the samples chosen and that the cost padded to it was compared with a budget
  that is `max_tokens` at most, whichever value of `cur_max` it was computed from.
* `StreamInvariance`: `StreamInv` is an invariant of `RetryingStream` (the bytes
  counted are those delivered, and an open stream, plus the chunk in hand, stands
  right behind them), and with it `StreamTypeCorrect`, `StreamInSync` and
  `StreamImplementsReader`, the refinement of `ByteReader` step by step.

* `ReplicasTogether`: `RInv` is an invariant of `ReplicaBatches`, and with it
  `ReplicasMeet`. `CollectivesMeet` speaks of ranks that wait; its inductive form
  speaks of all that have not failed: the next collective of the world a rank will
  enter, the batch and the pass are the same for all, whatever each does in between
  on its own or with its replica. A collective of the world moves them together,
  since an error is known to all or to none. How samples are batched plays no part
  here: the ranks agree on the number of batches only.
* `ReplicasTell`: `RInv` and `TellInv` are invariants, and with them
  `SamplesAnsweredOnce` and `RoundsAgreeAlways`. `Told` relates the outputs of the
  samples to the place of the first rank of their replica: those of a batch behind it
  were reported once, those of a batch it has not left never. `Alike` says that
  batches of one number, on any two replicas, were not reported differently; it holds
  because the ranks report in one step of `OutputsMet` or `InputsMet`, and all know of
  the same errors. `Known` ties the number of batches of each replica to the
  all-reduce. That a sample is in one batch of one replica is what is left:
  `OwnSamples` for the replicas, and `BatchesDivide` for the batches of one.
* `PartInvariance`: `PartInv` is an invariant of `RankPartition`, and with it
  `SharesAlwaysFair` and `EveryShardIsRead`. `SharesFair` does not survive the repair by
  itself: that a dataset which is given a rank lacks a part of one needs `NotUnder`,
  that nobody lacks a whole rank while ranks remain. If it lacked nothing, those in
  front of it, fewer than the ranks that remain, would have to lack all of them, less
  than one each (`GivenAreShort`). The code gives the ranks that remain in one pass and
  does not look at the sum again; that nothing remains then is `FewRemain` (there is a
  dataset for each of the ranks, so `remainders[j]` exists) and `GivenAreMany` (the
  places in the order of the remainders are those of one dataset each). Giving goes by
  the remainders and taking back by the excess, so neither reverses the order of the
  ratios (`RatiosOrdered`). `SomeIsTaken` says that `max` in the code finds somebody:
  there are ranks for all datasets. `EveryShardIsRead` follows from the sums in between,
  which grow with each dataset.
* `LoadersTyped`: the specification the run checks implies that of each of the four
  parts (`LoaderParts`), so all theorems about the parts hold of it, `LoaderTypeOK` too.

*Sums and batches.* Both are recursive functions, so their proofs are inductions over
the datasets and over the samples. The provers cannot instantiate the induction rules
of the library, which take a predicate; but that a set of natural numbers has a least
element (`LeastNat`) is a statement about a set, and follows from the library's theorem
that the order of the numbers is well-founded. Every induction in `Division_proofs` takes
the least number at which its claim fails, and shows that there is none. `Recursion`
gets the recursive functions themselves in this way, and `SumsAre` and `DividingIs` say
that they satisfy their definitions. `SumsCompare`, `SumsLinear`, `SumsGrow` and
`SumsCount` are what the partition needs of sums.

*Only model-checked:* the liveness properties, under fairness, which the proof system
does not reach: `Completion`, `ExportCompletion`, `Served`, `ShutsDown` and `Answered`.

## 5. Findings

1. *Success before the end* (`sync_success`). In the sync mode nothing
   synchronises the ranks after the last collective `dcp.save`; the dataloader file
   and the pointer follow it. `on_save_checkpoint_success` on rank 1 may come
   first, against its documentation. In the async mode the same holds of the
   background processes; `AckedDurable` states what is true: the tensors are
   complete, and on rank 0 the pointer is too.
2. *Rewriting the latest checkpoint* (`rewrite_latest`).
3. *Redundant emergency save* (`term_redundant`): the callback's memory of the last
   checkpoint lags behind the storage in the async mode.
4. *Polling rank by rank* (`term_sync_poll`): in the sync mode, and equally when a
   rank reaches the training collective of the next step, ranks that disagree
   about the sentinel wait for each other until the kill.
5. *Errors that end only some ranks* (`replica_abort`). `sync_distributed_errors`
   raises on every rank so that all abort together, but `generate_batch` catches
   what it raises, and `_handle_sample_exception` raises again only for the samples a
   rank reports. Ranks other than the first of their replica, and replicas that hold
   padding, report none: they go on to the next batch and wait there for ranks that
   have ended. With `keep_going` all go on, and the samples of the batch are errors
   on every replica.
6. *Saves that pass an error by* (`hf_next_save`). The design notes of the export
   callback say that a worker's exception is "re-raised on the next checkpoint or at
   train end" (`hf_export.py:23-24`, and again 126-127). `on_save_checkpoint` returns at
   line 143 when no export is due, before it looks at the stored exception (line 191), so
   up to `export_every_n` iterations of saves go by without it. `ErrorsSurface` is what
   the code gives: no later export begins, and training does not end, before it is raised.

Contradicted by the code too, without a run of their own:

* *Long samples as singletons.* `packing_iterable_dataset.py:71-73` says that samples of
  `long_threshold` tokens or more are emitted as singletons. The threshold is compared
  with the seed only (line 209): a candidate at or above it joins any batch it fits into.
  `PaddedWithinBudget` holds all the same, and the run has such batches.
* *A fresh stream.* `stream.py:1039-1040` says that after a failed reconnection the next
  iteration creates a fresh stream. The closed one is left in place: the next iteration
  reads from it, gets nothing, and only the handling of that reconnects. An attempt is
  lost, no byte is (`InSync`).
* *Broken copies.* "A broken copy leaves the checkpoint unloadable, so any I/O error
  propagates" (`hf_export.py:368-369`). It does, in the job in which it happens. But a
  file that exists is not copied again (line 397): a copy cut short by an error, or by a
  crash, which propagates nothing, is still torn when a later job has exported that
  iteration without an error. `ExportsDelivered` excepts exactly these files.

Seen while modelling, and not contradicted by a promise of the repository:

* The export of an iteration precedes its checkpoint, so after a crash there may be
  an export of an iteration that no checkpoint has; the next job writes its shards and
  its index again.
* A stored export error is raised in `on_train_end`, in front of `finalize`: rank 0
  then leaves an asynchronous save in flight that nobody collects. `ErrorsSurface`
  and `ImplementsStore` allow for it; the pointer stays behind.
* The exit of the termination callback (`sys.exit`) does not pass through
  `on_train_end`: the daemon thread dies and its error is not raised.
* `create_batches` is a generator, so the section that synchronises errors around its
  call covers none of its work: an error in the preparation of data, also that of the
  padding nobody needs, ends one rank and leaves the others in the all-reduce. So does
  the profile of a batch of padding on rank 0, which has no `output_dir`.
* An error while outputs are saved makes errors of all samples of the batch, also of
  those whose `sample_outputs.json` already says success.
* The server returns the outputs of worker 0 (`ray/serve.py:181`), which are those of
  the first replica only.

## 6. Abstractions

* A training step is one optimizer step; gradient accumulation, validation and the
  batch broadcast are left out. A rank leaves step n only after every rank has
  entered it (the gradient reduction).
* The collective `dcp.load` raises on all ranks alike because all read the same
  files; the barriers in `load` are the guard that every rank has left `boot`.
* Storage errors inside `dcp.save` raise on all ranks (torch gathers them); those of
  the non-collective writes raise on one.
* `.metadata` of a key is replaced in one step (`CommitKey`). How torch's writer uses
  `rm_file` and `rename` of `s3_filesystem.py` for it is outside this repository, and
  so are the states in between when a checkpoint is rewritten.
* A local file that is open at a crash is whole, absent-as-before, or torn; data
  written before the crash is not lost (no power failure of the storage itself).
* Warm start from another model, partial resumption, EMA loading and the planners
  are left out; `keys_to_resume_during_load` is the branch of a job's own
  checkpoints, or none.
* Data positions are one counter per rank instead of a pair per dataloader worker.
* `CachedReplay` has one iterator, as the trainer has, and `close()` is called at
  most once, from another thread; nothing in the repository calls it yet.
* In `RetryingStream` the throughput the watchdog measures is a free choice, bytes
  are their places in the object, the object does not change while it is read, a
  closed stream gives no bytes, and the store refuses a range that begins at the end
  of the object. The tar reader always names an amount.
* In `HFExport` the uploads and the copy of the tokenizer are left out (their errors
  are logged). An export is its shards, its index, and its copied files: the index stands
  for the configuration too, which is written with it and equally overwritten, and one
  copied file for all of them.
* In `PoolPacking` a dataset that is exhausted is iterated again, so arrivals never
  end but for the bound. The run has `prefer_closest`; the theorems cover both
  strategies. The budget of a candidate is computed from `cur_max` without it, as in
  the code, so a batch whose last candidate crosses the half-budget limit may exceed
  half of `max_tokens`.
* In `RankPartition` the fractions are exact where the code uses floats; a tie of
  remainders could be decided otherwise by rounding.
* In `ReplicaBatches` `max_num_seqs` is a limit with samples of cost 1, samples are
  already expanded to one output each, an error in a section is a free choice of a
  rank that runs it (in the second, the first of a replica with a batch of its own),
  and what `torchrun` or NCCL does to ranks that wait for one that raised is left out.
  The collectives inside a model are one meeting of the replica; with a single
  replica the all-reduce of the number of batches is kept, though the code skips it.
* `JointPacking` packs by tokens. The other mode, `max_samples_per_batch`, is
  exclusive with it (asserted in the constructor) and puts nothing aside. Ratios
  are whole numbers; `random` selection is a free choice (`RoundRobin` false).

## 7. Not modelled

| Part | Why |
|---|---|
| S3 file system (`checkpoint/s3_filesystem.py`) | Its retries wrap single requests without state of their own; its promise, an object appears whole or not at all, is what `DcpCheckpoint` assumes. Rename as copy and delete is the one step worth a module, and is in the plan |
| Legacy checkpointers, VLM DCP checkpointer | Variants of the checkpointer that is modelled; the legacy one is a thread that saves one rank's file |
| Skip-NaN and gradient clipping | One all-reduce and tensor arithmetic |
| Ray serving | The batching queue belongs to Ray; the handler waits for all workers, 300 seconds at most, and starts the next batch without looking at those that have not ended. What the workers do is `ReplicaBatches` |
| Logging, profiling, statistics callbacks | They observe and change no state of training |
| Distributed utilities, configuration | Wrappers; their effects appear in the modules that use them |
| Models, tokenizers, attention, EMA, datasets' augmentors, sampling and guardrails of inference | Tensor arithmetic and data transformation without control state: by far the largest part of the repository's lines |
| Stub packages | Empty at this commit |

## 8. Plan

Done: the trainer, the DCP checkpointer and the termination callback; HF export
composed with them; the cached replay loader; the joint and pool packing loops and
the partition of ranks; the retrying stream; inference on several replicas.

Proved: every safety property the passing runs check, and both refinements.

Next, models, each with its theorems: the S3 file system's rename under its retries, an
exhausted dataloader in the trainer's loop, and the server's timeout over workers that
are still busy.
