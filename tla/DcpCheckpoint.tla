--------------------------- MODULE DcpCheckpoint ---------------------------
(***************************************************************************)
(* A multi-rank training job and its distributed checkpointer.             *)
(*                                                                         *)
(*   cosmos/trainer/__init__.py     the loop that trains, saves, finalizes *)
(*   cosmos/checkpoint/dcp.py       DistributedCheckpointer, and the       *)
(*                                  background process of the async mode   *)
(*   cosmos/checkpoint/base.py      the latest_checkpoint.txt pointer      *)
(*                                                                         *)
(* Every rank runs a main process (pc) and a save worker (wk).  The worker *)
(* runs save_state_dict_worker: in the sync mode it is the main process    *)
(* itself, blocked in save(); in the async mode it is the background       *)
(* process, fed through a queue (tasks) and answering through another one  *)
(* (results).  The component keys that go through dcp.save (model, optim,  *)
(* scheduler, trainer) are collective: each rank writes its shard, then    *)
(* the coordinator writes the metadata.  The storage outlives the job; a   *)
(* crash kills every process and a new job, with the next job number,      *)
(* loads what latest_checkpoint.txt names.                                 *)
(*                                                                         *)
(* Data is abstracted to a version: the job and the iteration that         *)
(* produced it.  Job 0 produces nothing: it marks files that are absent or *)
(* torn.                                                                   *)
(***************************************************************************)
EXTENDS Integers, Sequences

CONSTANTS
    WorldSize,     \* number of ranks
    NumKeys,       \* number of component keys saved through dcp.save
    SaveIter,      \* config.checkpoint.save_iter
    MaxIter,       \* config.trainer.max_iter
    SaveZero,      \* config.trainer.save_zero_checkpoint
    Async,         \* config.checkpoint.dcp_async_mode_enabled
    LoaderState,   \* a callback checkpoints the per-rank dataloader state
    ObjectStore,   \* save_to_object_store.enabled: a file appears whole or not at all
    MaxJobs        \* bound: incarnations of the job, so faults are finitely many

ASSUME DcpAssumption ==
    /\ WorldSize \in Nat \ {0}
    /\ NumKeys \in Nat \ {0}
    /\ SaveIter \in Nat \ {0}
    /\ MaxIter \in Nat \ {0}
    /\ MaxJobs \in Nat \ {0}
    /\ SaveZero \in BOOLEAN
    /\ Async \in BOOLEAN
    /\ LoaderState \in BOOLEAN
    /\ ObjectStore \in BOOLEAN

Ranks == 0 .. WorldSize - 1
Iters == 0 .. MaxIter
Keys  == 1 .. NumKeys    \* in the order of to_save_dict; trainer is the last
Jobs  == 1 .. MaxJobs

\* A version of the training state, and what a file may hold.
Version == [job : Jobs, it : Iters]
NoFile  == [job |-> 0, it |-> 0]
Torn    == [job |-> 0, it |-> 1]
Content == Version \cup {NoFile, Torn}
LoaderContent == [job : Jobs, it : Nat] \cup {NoFile, Torn}

\* What latest_checkpoint.txt says: an iteration, nothing, or half a name.
NoPointer   == -1
TornPointer == -2
Pointers    == Iters \cup {NoPointer, TornPointer}

VARIABLES
    shard,     \* shard[i][k][r]: rank r's file of key k in iter_i
    meta,      \* meta[i]: keys of iter_i whose .metadata the coordinator wrote
    pkl,       \* pkl[i][r]: iter_i/dataloader/rank_r.pkl
    latest,    \* latest_checkpoint.txt
    job,       \* number of the current incarnation
    pc,        \* control state of each rank's main process
    it,        \* iteration counter of each rank
    mem,       \* version of each rank's model, optimizer and trainer state
    pos,       \* batches consumed, as the rank's dataloader state records them
    resume,    \* the checkpoint each rank decided to load
    ret,       \* where save() returns to
    acked,     \* iteration of the last on_save_checkpoint_success (or of the start)
    inflight,  \* checkpoint_in_progress
    stage,     \* version in the shared-memory staging buffer
    tasks,     \* mp_queue_send
    results,   \* mp_queue_recv
    wk         \* the save worker: its step, the key and the iteration it is saving

storageVars == <<shard, meta, pkl, latest>>
mainVars    == <<pc, it, mem, pos, resume, ret, acked>>
asyncVars   == <<inflight, stage, tasks, results>>
vars        == <<storageVars, job, mainVars, asyncVars, wk>>

MainStates ==
    {"boot", "load", "train", "stepend", "save", "pkl", "stage", "working",
     "finalize", "closing", "join", "barrier", "done", "failed"}
WorkerStates ==
    {"idle", "plan", "wrote", "pkl", "pointer", "saved", "failed", "stopped", "dead"}

Idle    == [st |-> "idle", key |-> 1, it |-> 0]
Stopped == [st |-> "stopped", key |-> 1, it |-> 0]
SaveTask(i) == [kind |-> "save", it |-> i]
Terminate   == [kind |-> "terminate", it |-> 0]

TypeOK ==
    /\ shard \in [Iters -> [Keys -> [Ranks -> Content]]]
    /\ meta \in [Iters -> SUBSET Keys]
    /\ pkl \in [Iters -> [Ranks -> LoaderContent]]
    /\ latest \in Pointers
    /\ job \in Jobs
    /\ pc \in [Ranks -> MainStates]
    /\ it \in [Ranks -> Iters]
    /\ mem \in [Ranks -> Version]
    /\ pos \in [Ranks -> Nat]
    /\ resume \in [Ranks -> Iters \cup {NoPointer}]
    /\ ret \in [Ranks -> {"train", "stepend", "finalize"}]
    /\ acked \in [Ranks -> Iters]
    /\ inflight \in [Ranks -> BOOLEAN]
    /\ stage \in [Ranks -> Content]
    /\ tasks \in [Ranks -> Seq([kind : {"save", "terminate"}, it : Iters])]
    /\ results \in [Ranks -> Seq([it : Iters, ok : BOOLEAN])]
    /\ wk \in [Ranks -> [st : WorkerStates, key : Keys, it : Iters]]

\* Rank r's worker moves to st within the same save.
At(r, st) == [st |-> st, key |-> wk[r].key, it |-> wk[r].it]
-----------------------------------------------------------------------------
(***************************************************************************)
(* A job starts: no memory survives, only the storage does.                *)
(***************************************************************************)

Everywhere(v) == [r \in Ranks |-> v]

Init ==
    /\ shard = [i \in Iters |-> [k \in Keys |-> Everywhere(NoFile)]]
    /\ meta = [i \in Iters |-> {}]
    /\ pkl = [i \in Iters |-> Everywhere(NoFile)]
    /\ latest = NoPointer
    /\ job = 1
    /\ pc = Everywhere("boot")
    /\ it = Everywhere(0)
    /\ mem = Everywhere([job |-> 1, it |-> 0])
    /\ pos = Everywhere(0)
    /\ resume = Everywhere(NoPointer)
    /\ ret = Everywhere("train")
    /\ acked = Everywhere(0)
    /\ inflight = Everywhere(FALSE)
    /\ stage = Everywhere(NoFile)
    /\ tasks = Everywhere(<<>>)
    /\ results = Everywhere(<<>>)
    /\ wk = Everywhere(Idle)

\* A rank's main process raises; torchrun will tear the job down.
Raise(r) == pc' = [pc EXCEPT ![r] = "failed"]

\* save() is entered to return to `to'.
EnterSave(r, to) ==
    /\ pc' = [pc EXCEPT ![r] = "save"]
    /\ ret' = [ret EXCEPT ![r] = to]
-----------------------------------------------------------------------------
(***************************************************************************)
(* DistributedCheckpointer.load                                            *)
(***************************************************************************)

\* Training starts at iteration i: on_train_start, then the zero checkpoint.
StartTraining(r, i) ==
    /\ it' = [it EXCEPT ![r] = i]
    /\ acked' = [acked EXCEPT ![r] = i]
    /\ IF SaveZero /\ i = 0
       THEN EnterSave(r, "train")
       ELSE pc' = [pc EXCEPT ![r] = "train"] /\ UNCHANGED ret

\* keys_to_resume_during_load: each rank reads the pointer for itself.  With no
\* pointer it trains from scratch; with a torn one it finds no checkpoint.
ReadPointer(r) ==
    /\ pc[r] = "boot"
    /\ \/ /\ latest = NoPointer
          /\ StartTraining(r, 0)
          /\ UNCHANGED <<mem, pos, resume>>
       \/ /\ latest = TornPointer
          /\ Raise(r)
          /\ UNCHANGED <<it, mem, pos, resume, ret, acked>>
       \/ /\ latest \in Iters
          /\ resume' = [resume EXCEPT ![r] = latest]
          /\ pc' = [pc EXCEPT ![r] = "load"]
          /\ UNCHANGED <<it, mem, pos, ret, acked>>
    /\ UNCHANGED <<storageVars, job, asyncVars, wk>>

\* dcp.load finds the metadata of every key and every shard it names.
Readable(i) ==
    /\ meta[i] = Keys
    /\ \A k \in Keys, r \in Ranks : shard[i][k][r] \in Version

\* Mutated form: the dataloader state is never restored.
LoaderPositionLost(i, r) == 0
\* Where the rank's dataloader resumes: a missing file is skipped silently.
LoaderPosition(i, r) == IF LoaderState /\ pkl[i][r] # NoFile THEN pkl[i][r].it ELSE 0

\* The keys are loaded behind barriers.  The iteration is replicated state,
\* saved by rank 0; the model is this rank's own shard.  A file that is torn, or
\* a key without its metadata, raises.
LoadCheckpoint(r) ==
    /\ pc[r] = "load"
    /\ \A q \in Ranks : pc[q] # "boot"
    /\ LET i == resume[r] IN
       IF Readable(i) /\ ~(LoaderState /\ pkl[i][r] = Torn)
       THEN /\ mem' = [mem EXCEPT ![r] = shard[i][1][r]]
            /\ pos' = [pos EXCEPT ![r] = LoaderPosition(i, r)]
            /\ StartTraining(r, shard[i][NumKeys][0].it)
       ELSE /\ Raise(r)
            /\ UNCHANGED <<it, mem, pos, ret, acked>>
    /\ resume' = [resume EXCEPT ![r] = NoPointer]
    /\ UNCHANGED <<storageVars, job, asyncVars, wk>>
-----------------------------------------------------------------------------
(***************************************************************************)
(* The training loop                                                       *)
(***************************************************************************)

\* Mutated form: the first interval is skipped.
SaveDueLate(i) == i > SaveIter /\ i % SaveIter = 0
\* A periodic checkpoint is due after i iterations.
SaveDue(i) == i % SaveIter = 0

\* Forward, backward and optimizer step.  Gradients are reduced over all ranks,
\* so a rank leaves step it[r] only after every rank has entered it.
TrainingStep(r) ==
    /\ pc[r] = "train"
    /\ it[r] < MaxIter
    /\ \A q \in Ranks : \/ pc[q] = "train" /\ it[q] = it[r]
                        \/ it[q] = it[r] + 1
    /\ it' = [it EXCEPT ![r] = @ + 1]
    /\ mem' = [mem EXCEPT ![r] = [job |-> job, it |-> it[r] + 1]]
    /\ pos' = [pos EXCEPT ![r] = @ + 1]
    /\ IF SaveDue(it[r] + 1)
       THEN EnterSave(r, "stepend")
       ELSE pc' = [pc EXCEPT ![r] = "stepend"] /\ UNCHANGED ret
    /\ UNCHANGED <<storageVars, job, resume, acked, asyncVars, wk>>

\* on_training_step_end, when no callback interferes.
TrainingStepEnd(r) ==
    /\ pc[r] = "stepend"
    /\ pc' = [pc EXCEPT ![r] = "train"]
    /\ UNCHANGED <<storageVars, job, it, mem, pos, resume, ret, acked, asyncVars, wk>>

\* max_iter is reached: a last save unless the last step has just made one.
LeaveLoop(r) ==
    /\ pc[r] = "train"
    /\ it[r] >= MaxIter
    /\ IF ~SaveDue(it[r])
       THEN EnterSave(r, "finalize")
       ELSE pc' = [pc EXCEPT ![r] = "finalize"] /\ UNCHANGED ret
    /\ UNCHANGED <<storageVars, job, it, mem, pos, resume, acked, asyncVars, wk>>
-----------------------------------------------------------------------------
(***************************************************************************)
(* DistributedCheckpointer.save                                            *)
(***************************************************************************)

\* Mutated form: the previous save is not waited for.
NothingPendingUnchecked(r) == TRUE
\* _wait_for_previous_async_checkpoint returns at once.
NothingPending(r) == ~inflight[r]

\* Mutated form: the dataloader entry is dropped from the dictionary.
AsyncSaveEntryDropped == "stage"
\* Async: the dataloader entry is popped and saved before the staging.
AsyncSaveEntry == IF LoaderState THEN "pkl" ELSE "stage"

\* The state dicts are collected and the save begins.
BeginSave(r) ==
    /\ pc[r] = "save"
    /\ NothingPending(r)
    /\ IF Async
       THEN /\ pc' = [pc EXCEPT ![r] = AsyncSaveEntry]
            /\ UNCHANGED wk
       ELSE /\ pc' = [pc EXCEPT ![r] = "working"]
            /\ wk' = [wk EXCEPT ![r] = [st |-> "plan", key |-> 1, it |-> it[r]]]
    /\ UNCHANGED <<storageVars, job, it, mem, pos, resume, ret, acked, asyncVars>>

\* Async: the dataloader state is written by the main process, before the rest
\* is handed over.
SaveLoaderStateInline(r) ==
    /\ pc[r] = "pkl"
    /\ pkl' = [pkl EXCEPT ![it[r]][r] = [job |-> mem[r].job, it |-> pos[r]]]
    /\ pc' = [pc EXCEPT ![r] = "stage"]
    /\ UNCHANGED <<shard, meta, latest, job, it, mem, pos, resume, ret, acked, asyncVars, wk>>

\* _checkpoint_async_with_pinned_memory: copy into the shared buffer, queue it.
StageAndSubmit(r) ==
    /\ pc[r] = "stage"
    /\ stage' = [stage EXCEPT ![r] = mem[r]]
    /\ tasks' = [tasks EXCEPT ![r] = Append(@, SaveTask(it[r]))]
    /\ inflight' = [inflight EXCEPT ![r] = TRUE]
    /\ pc' = [pc EXCEPT ![r] = ret[r]]
    /\ UNCHANGED <<storageVars, job, it, mem, pos, resume, ret, acked, results, wk>>

\* Sync: save_state_dict_worker returned, or raised.
FinishSyncSave(r) ==
    /\ pc[r] = "working"
    /\ \/ /\ wk[r].st = "saved"
          /\ acked' = [acked EXCEPT ![r] = it[r]]
          /\ pc' = [pc EXCEPT ![r] = ret[r]]
       \/ /\ wk[r].st = "failed"
          /\ Raise(r)
          /\ UNCHANGED acked
    /\ wk' = [wk EXCEPT ![r] = Idle]
    /\ UNCHANGED <<storageVars, job, it, mem, pos, resume, ret, asyncVars>>

\* _wait_for_previous_async_checkpoint is blocked on the result queue.
AwaitingResult(r) == inflight[r] /\ pc[r] \in {"save", "closing"}

\* Mutated form: any answer counts as success.
SucceededAlways(result) == TRUE
Succeeded(result) == result.ok

ReceiveResult(r) ==
    /\ AwaitingResult(r)
    /\ results[r] # <<>>
    /\ results' = [results EXCEPT ![r] = Tail(@)]
    /\ inflight' = [inflight EXCEPT ![r] = FALSE]
    /\ IF Succeeded(Head(results[r]))
       THEN /\ acked' = [acked EXCEPT ![r] = Head(results[r]).it]
            /\ UNCHANGED pc
       ELSE Raise(r) /\ UNCHANGED acked
    /\ UNCHANGED <<storageVars, job, it, mem, pos, resume, ret, stage, tasks, wk>>

\* No answer within the hour.
ResultTimeout(r) ==
    /\ job < MaxJobs
    /\ AwaitingResult(r)
    /\ results[r] = <<>>
    /\ Raise(r)
    /\ UNCHANGED <<storageVars, job, it, mem, pos, resume, ret, acked, asyncVars, wk>>

\* Mutated form: a live background process is not waited for either.
FinalizeSkipsBackground(r) ==
    /\ pc[r] = "finalize"
    /\ pc' = [pc EXCEPT ![r] = "barrier"]
    /\ UNCHANGED <<storageVars, job, it, mem, pos, resume, ret, acked, asyncVars, wk>>

\* finalize: a background process that is dead is skipped, with whatever it had
\* not saved; one that is alive is waited for...
Finalize(r) ==
    /\ pc[r] = "finalize"
    /\ pc' = [pc EXCEPT ![r] =
                 IF Async /\ wk[r].st # "dead" THEN "closing" ELSE "barrier"]
    /\ UNCHANGED <<storageVars, job, it, mem, pos, resume, ret, acked, asyncVars, wk>>

\* ... and told to stop.
SendTerminate(r) ==
    /\ pc[r] = "closing"
    /\ NothingPending(r)
    /\ tasks' = [tasks EXCEPT ![r] = Append(@, Terminate)]
    /\ pc' = [pc EXCEPT ![r] = "join"]
    /\ UNCHANGED <<storageVars, job, it, mem, pos, resume, ret, acked,
                   inflight, stage, results, wk>>

JoinBackground(r) ==
    /\ pc[r] = "join"
    /\ wk[r].st \in {"stopped", "dead"}
    /\ pc' = [pc EXCEPT ![r] = "barrier"]
    /\ UNCHANGED <<storageVars, job, it, mem, pos, resume, ret, acked, asyncVars, wk>>

\* The barrier after finalize, then the process group is destroyed.
FinishTraining ==
    /\ \A r \in Ranks : pc[r] = "barrier"
    /\ pc' = [r \in Ranks |-> "done"]
    /\ UNCHANGED <<storageVars, job, it, mem, pos, resume, ret, acked, asyncVars, wk>>
-----------------------------------------------------------------------------
(***************************************************************************)
(* save_state_dict_worker, and the background process around it            *)
(***************************************************************************)

\* Mutated form: the loop does not leave on Terminate.
OnTaskIgnoringTerminate(task) ==
    IF task.kind = "terminate" THEN Idle ELSE [st |-> "plan", key |-> 1, it |-> task.it]
\* What the background process does next with an object off its queue.
OnTask(task) ==
    IF task.kind = "terminate"
    THEN Stopped
    ELSE [st |-> "plan", key |-> 1, it |-> task.it]

\* save_checkpoint_in_background takes the next object off its queue.
ReceiveTask(r) ==
    /\ Async
    /\ wk[r].st = "idle"
    /\ tasks[r] # <<>>
    /\ tasks' = [tasks EXCEPT ![r] = Tail(@)]
    /\ wk' = [wk EXCEPT ![r] = OnTask(Head(tasks[r]))]
    /\ UNCHANGED <<storageVars, job, mainVars, inflight, stage, results>>

\* Rank r's worker is in the dcp.save of a key and every rank has joined it.
AllJoined(r) ==
    \A q \in Ranks : /\ wk[q].st \in {"plan", "wrote"}
                     /\ wk[q].key = wk[r].key
                     /\ wk[q].it = wk[r].it

\* The state a worker writes: the staging buffer it shares with the main
\* process, or the live state of the main process it is.
Source(r) == IF Async THEN stage[r] ELSE mem[r]

WriteShard(r) ==
    /\ wk[r].st = "plan"
    /\ AllJoined(r)
    /\ shard' = [shard EXCEPT ![wk[r].it][wk[r].key][r] = Source(r)]
    /\ wk' = [wk EXCEPT ![r] = At(r, "wrote")]
    /\ UNCHANGED <<meta, pkl, latest, job, mainVars, asyncVars>>

\* What follows the last dcp.save: in the sync mode the dataloader state, and
\* on rank 0 the pointer.
AfterKeys(r) == IF ~Async /\ LoaderState THEN "pkl"
                ELSE IF r = 0 THEN "pointer" ELSE "saved"

\* Mutated form: one key too many.
NextStepOffByOne(r, k, i) == IF k <= NumKeys
                             THEN [st |-> "plan", key |-> k + 1, it |-> i]
                             ELSE [st |-> AfterKeys(r), key |-> k, it |-> i]
\* The worker of rank r after the dcp.save of key k.
NextStep(r, k, i) == IF k < NumKeys
                     THEN [st |-> "plan", key |-> k + 1, it |-> i]
                     ELSE [st |-> AfterKeys(r), key |-> k, it |-> i]

\* Mutated form: the coordinator waits for its own write only.
AllWroteRankZero(k, i) == wk[0] = [st |-> "wrote", key |-> k, it |-> i]
AllWrote(k, i) == \A r \in Ranks : wk[r] = [st |-> "wrote", key |-> k, it |-> i]

\* Every rank reported its writes; the coordinator writes the metadata and
\* dcp.save returns on all ranks.
CommitKey(k, i) ==
    /\ AllWrote(k, i)
    /\ meta' = [meta EXCEPT ![i] = @ \cup {k}]
    /\ wk' = [r \in Ranks |-> NextStep(r, k, i)]
    /\ UNCHANGED <<shard, pkl, latest, job, mainVars, asyncVars>>

\* Sync: _save_as_pkl is the last entry of to_save_dict and is not collective.
SaveLoaderState(r) ==
    /\ wk[r].st = "pkl"
    /\ pkl' = [pkl EXCEPT ![wk[r].it][r] = [job |-> mem[r].job, it |-> pos[r]]]
    /\ wk' = [wk EXCEPT ![r] = At(r, IF r = 0 THEN "pointer" ELSE "saved")]
    /\ UNCHANGED <<shard, meta, latest, job, mainVars, asyncVars>>

\* _write_latest_checkpoint_file, by rank 0 only.
WritePointer(r) ==
    /\ wk[r].st = "pointer"
    /\ latest' = wk[r].it
    /\ wk' = [wk EXCEPT ![r] = At(r, "saved")]
    /\ UNCHANGED <<shard, meta, pkl, job, mainVars, asyncVars>>

\* The finally clause: success or failure, SaveDone is sent.
ReportResult(r) ==
    /\ Async
    /\ wk[r].st \in {"saved", "failed"}
    /\ results' = [results EXCEPT ![r] =
                      Append(@, [it |-> wk[r].it, ok |-> wk[r].st = "saved"])]
    /\ wk' = [wk EXCEPT ![r] = Idle]
    /\ UNCHANGED <<storageVars, job, mainVars, inflight, stage, tasks>>
-----------------------------------------------------------------------------
(***************************************************************************)
(* Faults.  Each needs a job left to recover with (job < MaxJobs).         *)
(***************************************************************************)

\* Shards that may be half written now.
OpenShards == {r \in Ranks : wk[r].st = "plan" /\ AllJoined(r)}

\* On a local file system a write that stops half-way leaves a torn file.
TearShards(S) ==
    shard' = [i \in Iters |-> [k \in Keys |-> [r \in Ranks |->
                 IF r \in S /\ wk[r].it = i /\ wk[r].key = k
                 THEN Torn ELSE shard[i][k][r]]]]

Tearable(S) == IF ObjectStore THEN {{}} ELSE SUBSET S

\* A storage error inside dcp.save is gathered and raised on every rank.
CollectiveFails ==
    /\ job < MaxJobs
    /\ \E r \in Ranks : AllJoined(r)
    /\ \E S \in Tearable(OpenShards) : TearShards(S)
    /\ wk' = [r \in Ranks |-> At(r, "failed")]
    /\ UNCHANGED <<meta, pkl, latest, job, mainVars, asyncVars>>

\* A non-collective write (dataloader state, pointer) raises on one rank.
LocalWriteFails(r) ==
    /\ job < MaxJobs
    /\ \/ /\ wk[r].st \in {"pkl", "pointer"}
          /\ wk' = [wk EXCEPT ![r] = At(r, "failed")]
          /\ UNCHANGED pc
       \/ /\ pc[r] = "pkl"
          /\ Raise(r)
          /\ UNCHANGED wk
    /\ UNCHANGED <<storageVars, job, it, mem, pos, resume, ret, acked, asyncVars>>

\* The background process of a rank is killed while its main process lives on.
BackgroundDies(r) ==
    /\ job < MaxJobs
    /\ Async
    /\ wk[r].st \notin {"stopped", "dead"}
    /\ wk' = [wk EXCEPT ![r] = At(r, "dead")]
    /\ UNCHANGED <<storageVars, job, mainVars, asyncVars>>

\* A peer of a collective is gone: the others get a connection error.
PeerLost(r) ==
    /\ wk[r].st \in {"plan", "wrote"}
    /\ \E q \in Ranks : wk[q].st \in {"stopped", "dead"}
    /\ wk' = [wk EXCEPT ![r] = At(r, "failed")]
    /\ UNCHANGED <<storageVars, job, mainVars, asyncVars>>

OpenPkl(r) == pc[r] = "pkl" \/ wk[r].st = "pkl"
PklIter(r) == IF Async THEN it[r] ELSE wk[r].it

\* Every process is gone and the job is started again: no memory survives, only
\* the storage does.  Files being written at that moment may be torn.
Reboot ==
    /\ job < MaxJobs
    /\ \E S \in Tearable(OpenShards) : TearShards(S)
    /\ \E P \in Tearable({r \in Ranks : OpenPkl(r)}) :
          pkl' = [i \in Iters |-> [r \in Ranks |->
                     IF r \in P /\ PklIter(r) = i THEN Torn ELSE pkl[i][r]]]
    /\ \/ UNCHANGED latest
       \/ ~ObjectStore /\ wk[0].st = "pointer" /\ latest' = TornPointer
    /\ UNCHANGED meta
    /\ job' = job + 1
    /\ pc' = Everywhere("boot")
    /\ it' = Everywhere(0)
    /\ mem' = Everywhere([job |-> job', it |-> 0])
    /\ pos' = Everywhere(0)
    /\ resume' = Everywhere(NoPointer)
    /\ ret' = Everywhere("train")
    /\ acked' = Everywhere(0)
    /\ inflight' = Everywhere(FALSE)
    /\ stage' = Everywhere(NoFile)
    /\ tasks' = Everywhere(<<>>)
    /\ results' = Everywhere(<<>>)
    /\ wk' = Everywhere(Idle)

\* The job dies at any point, or is torn down because a rank raised.
Restart ==
    /\ \E r \in Ranks : pc[r] # "done"
    /\ Reboot
-----------------------------------------------------------------------------
\* The job completed, or failed with no incarnation left.
Over == \/ \A r \in Ranks : pc[r] = "done"
        \/ job = MaxJobs /\ \E r \in Ranks : pc[r] = "failed"

Terminated == Over /\ UNCHANGED vars

Main(r) ==
    \/ ReadPointer(r) \/ LoadCheckpoint(r)
    \/ TrainingStep(r) \/ LeaveLoop(r)
    \/ BeginSave(r) \/ SaveLoaderStateInline(r) \/ StageAndSubmit(r) \/ FinishSyncSave(r)
    \/ ReceiveResult(r) \/ ResultTimeout(r)
    \/ Finalize(r) \/ SendTerminate(r) \/ JoinBackground(r)

Worker(r) ==
    \/ ReceiveTask(r) \/ WriteShard(r) \/ SaveLoaderState(r) \/ WritePointer(r)
    \/ ReportResult(r) \/ PeerLost(r)

Faults == \/ CollectiveFails \/ Restart
          \/ \E r \in Ranks : LocalWriteFails(r) \/ BackgroundDies(r)

\* Everything but the ends of a step and of the training, which callbacks change.
Steps ==
    \/ \E r \in Ranks : Main(r) \/ Worker(r)
    \/ \E k \in Keys, i \in Iters : CommitKey(k, i)

Next == \/ Steps
        \/ \E r \in Ranks : TrainingStepEnd(r)
        \/ FinishTraining
        \/ Faults
        \/ Terminated

\* The processes are scheduled by the operating system and the collectives
\* complete once every rank has joined; a job in which a rank raised is torn
\* down and requeued.  Faults are never forced.
Fairness ==
    /\ \A r \in Ranks : WF_vars(Main(r)) /\ WF_vars(Worker(r)) /\ WF_vars(TrainingStepEnd(r))
    /\ WF_vars(\E k \in Keys, i \in Iters : CommitKey(k, i))
    /\ WF_vars(FinishTraining)
    /\ WF_vars(Restart /\ \E r \in Ranks : pc[r] = "failed")

Spec     == Init /\ [][Next]_vars
FairSpec == Spec /\ Fairness
-----------------------------------------------------------------------------
(***************************************************************************)
(* Properties                                                              *)
(***************************************************************************)

\* Checkpoint i is complete and comes from one job: every shard of every key
\* holds the state of iteration i.
Intact(i) ==
    /\ meta[i] = Keys
    /\ \E j \in Jobs : \A k \in Keys, r \in Ranks :
          shard[i][k][r] = [job |-> j, it |-> i]

\* latest_checkpoint.txt never names a checkpoint that is incomplete, torn, or
\* mixes the shards of two jobs, at any moment a crash could make it matter:
\* save_state_dict_worker writes the pointer on rank 0 alone, and relies on the
\* dcp.save of every key to have waited for every rank.
PublishedIntact == latest \in Iters => Intact(latest)

\* In the async mode the pointer never gets ahead of any rank's dataloader file,
\* which save() writes from the main process before it queues the tensors.
LoaderStatePublished ==
    LoaderState /\ latest \in Iters =>
        \A r \in Ranks : pkl[latest][r] = shard[latest][1][r]

Loaded(r) == pc[r] \notin {"boot", "load", "failed"}

\* Ranks that have loaded run with weights of the iteration they count, and two
\* ranks at one iteration hold weights of one job.
OneModel ==
    \A r, q \in Ranks : Loaded(r) /\ Loaded(q) =>
        mem[r].it = it[r] /\ (it[r] = it[q] => mem[r] = mem[q])

\* However often the job crashed, the ranks train one model, and (async) the data
\* each rank has consumed is what its weights were trained on: load() puts the
\* model, the iteration and the dataloader state back together from three files.
ResumeConsistent ==
    /\ OneModel
    /\ \A r \in Ranks : Loaded(r) /\ Async /\ LoaderState => pos[r] = it[r]

\* The shared staging buffer is not overwritten while the background process is
\* still writing it out (_checkpoint_async_with_pinned_memory reuses one buffer;
\* only checkpoint_in_progress keeps the two apart).
StagingStable ==
    \A r \in Ranks : Async /\ wk[r].st \in {"plan", "wrote"} =>
        stage[r] \in Version /\ stage[r].it = wk[r].it

\* When on_save_checkpoint_success has told a rank that iteration i is saved,
\* its checkpoint is complete, and on rank 0 the pointer has reached it.
AckedDurable ==
    \A r \in Ranks : Loaded(r) /\ acked[r] > 0 =>
        /\ Intact(acked[r])
        /\ r = 0 => latest >= acked[r]

\* When train() has returned on every rank, the last iteration is the one the
\* pointer names: finalize() drains the background save.  A background process
\* that was killed is the exception: finalize() skips it.
CompletedDurable ==
    (\A r \in Ranks : pc[r] = "done" /\ wk[r].st # "dead") => latest = MaxIter

\* Progress at risk: a crash now costs at most one save interval when saves are
\* synchronous, two when the next save waits for the previous one to finish.
LossBound == IF Async THEN 2 * SaveIter ELSE SaveIter
LossBounded ==
    latest # TornPointer =>
        \A r \in Ranks : it[r] - (IF latest < 0 THEN 0 ELSE latest) <= LossBound

\* The ranks, the queues and the storage together behave as one store of
\* committed progress (CheckpointStore): the pointer only moves forward, only to
\* an iteration this incarnation reached, and a crash rolls back exactly to it.
\* The furthest rank counts as reached.
Reached == LET S == {it[r] : r \in Ranks} \cup {IF latest < 0 THEN 0 ELSE latest}
           IN  CHOOSE m \in S : \A n \in S : n <= m
Store == INSTANCE CheckpointStore WITH committed <- latest, reached <- Reached
ImplementsStore == Store!StoreSpec

\* With finitely many faults the job trains to the end and every rank leaves
\* train(): no queue, collective or join waits for ever.
Completion == <>(\A r \in Ranks : pc[r] = "done")
=============================================================================
