------------------------ MODULE DcpDurability_proofs ------------------------
(***************************************************************************)
(* What a checkpoint is good for: the theorems that an acknowledged save   *)
(* lasts, that the dataloader state fits the weights, that a crash costs a *)
(* bounded number of iterations, and that the job implements               *)
(* CheckpointStore.                                                        *)
(***************************************************************************)
EXTENDS DcpInvariant_proofs

(***************************************************************************)
(* Who changes what                                                        *)
(***************************************************************************)

LEMMA Numbers ==
    /\ \A i \in Iters : i \in Nat /\ i \in Int
    /\ \A p \in Pointers : p \in Int /\ (p \notin Iters => p < 0)
    /\ \A v \in Version : v.it \in Iters /\ v.it \in Int /\ v.job \in Jobs
    /\ MaxIter \in Iters /\ 0 \in Ranks
BY DcpAssumption DEF Iters, Pointers, NoPointer, TornPointer, Version, Ranks

LEMMA ItersInt == \A i \in Iters : i \in Nat /\ i \in Int
BY DcpAssumption DEF Iters

LEMMA NextOK ==
    ASSUME IInv, [Next]_vars
    PROVE  TypeOK'
<1>1. TypeInv
  BY DEF IInv, TypeInv, Booting, Unstarted
<1> QED
  BY <1>1, NextType DEF TypeInv

\* The job number changes with the job only.
LEMMA JobStays ==
    ASSUME TypeOK, Booting, [Next]_vars, ~Restart
    PROVE  UNCHANGED job
<1>1. ASSUME NEW r \in Ranks, Starts(r) PROVE UNCHANGED job
  BY <1>1 DEF Starts, ReadPointer, LoadCheckpoint, TrainingStep
<1> QED
  BY <1>1, ProgressSteps DEF NoProgress

\* An action that keeps the job number is not a restart.
LEMMA SameJob ==
    ASSUME TypeOK, UNCHANGED job
    PROVE  ~Restart
<1>1. job \in Nat
  BY DcpAssumption DEF TypeOK, Jobs
<1>2. Restart => job' = job + 1
  BY DEF Restart, Reboot
<1> QED
  BY <1>1, <1>2

\* How a rank comes to run.
LEMMA BecomesLoaded ==
    ASSUME TypeOK, Booting, PublishedIntact, [Next]_vars, ~Restart,
           NEW r \in Ranks, Loaded(r)', ~Loaded(r)
    PROVE  /\ Unstarted(r) /\ UNCHANGED latest
           /\ \/ ReadPointer(r) /\ latest \notin Iters /\ it'[r] = 0
              \/ LoadCheckpoint(r) /\ latest \in Iters /\ it'[r] = latest
<1>1. \A q \in Ranks : ~TrainingStep(q)
  BY TrainingFacts
<1>2. PICK q \in Ranks : ReadPointer(q) \/ LoadCheckpoint(q)
  BY <1>1, ProgressSteps DEF NoProgress, Starts
<1>3. q = r
  <2>1. CASE Loaded(q)'
    BY <1>2, <2>1, FreshStartFacts, LoadFacts DEF Loaded
  <2>2. CASE ~Loaded(q)'
    BY <1>2, <2>2, NotStartedFacts DEF Loaded
  <2> QED
    BY <2>1, <2>2
<1>4. CASE ReadPointer(r)
  BY <1>4, FreshStartFacts DEF Unstarted
<1>5. CASE LoadCheckpoint(r)
  BY <1>5, LoadFacts DEF Unstarted, TypeOK
<1> QED
  BY <1>2, <1>3, <1>4, <1>5

\* The weights of a rank change when it loads and when it trains.
LEMMA MemSteps ==
    ASSUME TypeOK, [Next]_vars, ~Restart, NEW r \in Ranks, ~Starts(r)
    PROVE  mem'[r] = mem[r] /\ it'[r] = it[r]
<1>1. ASSUME NEW q \in Ranks, q # r, Starts(q) PROVE mem'[r] = mem[r] /\ it'[r] = it[r]
  BY <1>1 DEF Starts, ReadPointer, LoadCheckpoint, StartTraining, TrainingStep, TypeOK
<1> QED
  BY <1>1, ProgressSteps DEF NoProgress

\* How a worker gets into the dcp.save of a key.
LEMMA JoinSteps ==
    ASSUME TypeOK, [Next]_vars, ~Restart, NEW r \in Ranks, wk'[r].st \in {"plan", "wrote"}
    PROVE  \/ wk[r].st \in {"plan", "wrote"} /\ wk'[r].it = wk[r].it
           \/ ReceiveTask(r)
           \/ ~Async /\ BeginSave(r)
<1>1. CASE \E k \in Keys, i \in Iters : CommitKey(k, i)
  BY <1>1 DEF CommitKey, AllWrote, NextStep
<1>2. CASE WriteShard(r)
  BY <1>2 DEF WriteShard, At, TypeOK
<1>3. ~SaveLoaderState(r) /\ ~WritePointer(r)
  BY DEF SaveLoaderState, WritePointer, At, TypeOK
<1> QED
  BY <1>1, <1>2, <1>3, WorkerMoves

\* Who moves a result queue.
LEMMA ResultsSteps ==
    ASSUME TypeOK, [Next]_vars, ~Restart, NEW q \in Ranks
    PROVE  results'[q] = results[q] \/ ReceiveResult(q) \/ ReportResult(q)
<1> USE DEF storageVars, mainVars, asyncVars, TypeOK
<1>1. ASSUME NEW r \in Ranks, ReceiveResult(r) \/ ReportResult(r), r # q
      PROVE  results'[q] = results[q]
  BY <1>1 DEF ReceiveResult, ReportResult
<1>2. ASSUME NEW r \in Ranks, Main(r) \/ TrainingStepEnd(r), ~ReceiveResult(r)
      PROVE  UNCHANGED results
  BY <1>2 DEF Main, ReadPointer, LoadCheckpoint, TrainingStep, LeaveLoop, TrainingStepEnd,
     BeginSave, SaveLoaderStateInline, StageAndSubmit, FinishSyncSave, ResultTimeout, Finalize,
     SendTerminate, JoinBackground
<1>3. ASSUME NEW r \in Ranks, Worker(r), ~ReportResult(r) PROVE UNCHANGED results
  BY <1>3 DEF Worker, ReceiveTask, WriteShard, SaveLoaderState, WritePointer, PeerLost
<1>4. ASSUME NEW r \in Ranks, LocalWriteFails(r) \/ BackgroundDies(r) PROVE UNCHANGED results
  BY <1>4 DEF LocalWriteFails, BackgroundDies
<1>5. CASE \/ \E k \in Keys, i \in Iters : CommitKey(k, i)
           \/ CollectiveFails \/ FinishTraining \/ UNCHANGED vars
  BY <1>5 DEF CommitKey, CollectiveFails, FinishTraining, vars
<1> QED
  BY <1>1, <1>2, <1>3, <1>4, <1>5 DEF Next, Steps, Faults, Terminated

\* Who tells a rank that an iteration is saved.
LEMMA AckedSteps ==
    ASSUME TypeOK, [Next]_vars, ~Restart, NEW q \in Ranks
    PROVE  \/ acked'[q] = acked[q]
           \/ ReceiveResult(q) \/ FinishSyncSave(q) \/ ReadPointer(q) \/ LoadCheckpoint(q)
<1> USE DEF storageVars, mainVars, asyncVars, TypeOK
<1>1. ASSUME NEW r \in Ranks, r # q,
             ReceiveResult(r) \/ FinishSyncSave(r) \/ ReadPointer(r) \/ LoadCheckpoint(r)
      PROVE  acked'[q] = acked[q]
  BY <1>1 DEF ReceiveResult, FinishSyncSave, ReadPointer, LoadCheckpoint, StartTraining
<1>2. ASSUME NEW r \in Ranks, Main(r) \/ TrainingStepEnd(r),
             ~ReceiveResult(r), ~FinishSyncSave(r), ~ReadPointer(r), ~LoadCheckpoint(r)
      PROVE  UNCHANGED acked
  BY <1>2 DEF Main, TrainingStep, LeaveLoop, TrainingStepEnd,
     BeginSave, SaveLoaderStateInline, StageAndSubmit, ResultTimeout, Finalize,
     SendTerminate, JoinBackground
<1>3. ASSUME NEW r \in Ranks, Worker(r) PROVE UNCHANGED acked
  BY <1>3 DEF Worker, ReceiveTask, WriteShard, SaveLoaderState, WritePointer, ReportResult, PeerLost
<1>4. ASSUME NEW r \in Ranks, LocalWriteFails(r) \/ BackgroundDies(r) PROVE UNCHANGED acked
  BY <1>4 DEF LocalWriteFails, BackgroundDies
<1>5. CASE \/ \E k \in Keys, i \in Iters : CommitKey(k, i)
           \/ CollectiveFails \/ FinishTraining \/ UNCHANGED vars
  BY <1>5 DEF CommitKey, CollectiveFails, FinishTraining, vars
<1> QED
  BY <1>1, <1>2, <1>3, <1>4, <1>5 DEF Next, Steps, Faults, Terminated

\* The staging buffer of a rank is filled by its own submission only.
LEMMA StageSteps ==
    ASSUME TypeOK, [Next]_vars, ~Restart, NEW q \in Ranks, ~StageAndSubmit(q)
    PROVE  stage'[q] = stage[q]
<1>1. ASSUME NEW r \in Ranks, r # q, StageAndSubmit(r) PROVE stage'[q] = stage[q]
  BY <1>1 DEF StageAndSubmit, TypeOK
<1> QED
  BY <1>1, StorageSteps

\* A rank submits one save, into an empty queue.
LEMMA SubmitFacts ==
    ASSUME TypeOK, Lanes, NEW r \in Ranks, StageAndSubmit(r)
    PROVE  /\ Async /\ pc[r] = "stage" /\ Saving(r) /\ Loaded(r)
           /\ ~inflight[r] /\ ~Busy(r) /\ tasks[r] = <<>> /\ results[r] = <<>>
           /\ stage'[r] = mem[r] /\ tasks'[r] = <<SaveTask(it[r])>>
           /\ inflight' = [inflight EXCEPT ![r] = TRUE]
           /\ pc' = [pc EXCEPT ![r] = ret[r]]
           /\ UNCHANGED <<storageVars, job, it, mem, pos, resume, ret, acked, results, wk>>
<1>1. pc[r] = "stage" /\ Lane(r)
  BY DEF StageAndSubmit, Lanes
<1>2. Async /\ ~inflight[r] /\ ~Busy(r) /\ tasks[r] = <<>> /\ results[r] = <<>>
  BY <1>1 DEF Lane, AsyncLane, SyncLane
<1> QED
  BY <1>1, <1>2, Singleton DEF StageAndSubmit, TypeOK, Saving, Loaded

\* A worker takes the one task there is.
LEMMA ReceiveFacts ==
    ASSUME TypeOK, Lanes, NEW r \in Ranks, ReceiveTask(r)
    PROVE  /\ Async /\ tasks'[r] = <<>>
           /\ UNCHANGED <<shard, meta, pkl, latest, job, pc, it, mem, pos, resume, ret, acked,
                          inflight, stage, results>>
           /\ \/ /\ tasks[r] = <<SaveTask(stage[r].it)>>
                 /\ wk'[r] = [st |-> "plan", key |-> 1, it |-> stage[r].it]
                 /\ inflight[r] /\ stage[r] \in Version
              \/ wk'[r] = Stopped
           /\ wk'[r].st \in {"plan", "stopped"}
<1>1. Lane(r) /\ Async /\ tasks[r] # <<>>
  BY DEF Lanes, ReceiveTask
<1>2. \/ tasks[r] = <<SaveTask(stage[r].it)>> /\ inflight[r] /\ stage[r] \in Version
      \/ tasks[r] = <<Terminate>>
  BY <1>1 DEF Lane, AsyncLane
<1>3. tasks'[r] = <<>> /\ wk'[r] = OnTask(Head(tasks[r]))
  BY <1>2, Singleton DEF ReceiveTask, TypeOK
<1>4. \/ /\ tasks[r] = <<SaveTask(stage[r].it)>>
         /\ wk'[r] = [st |-> "plan", key |-> 1, it |-> stage[r].it]
         /\ inflight[r] /\ stage[r] \in Version
      \/ wk'[r] = Stopped
  BY <1>2, <1>3, Singleton DEF OnTask, SaveTask, Terminate
<1>5. wk'[r].st \in {"plan", "stopped"}
  BY <1>4 DEF Stopped
<1> QED
  BY <1>1, <1>3, <1>4, <1>5 DEF ReceiveTask, storageVars, mainVars

\* Where the versions a rank is going to write come from.
LEMMA ToWriteSteps ==
    ASSUME SafeStorage, IInv, [Next]_vars, ~Restart,
           NEW r \in Ranks, NEW v \in Version, v \in ToWrite(r)'
    PROVE  \/ v \in ToWrite(r)
           \/ TrainingStep(r) /\ v.it = it[r] + 1
           \/ ObjectStore /\ LeaveLoop(r) /\ v = mem[r]
           \/ /\ ObjectStore /\ LoadCheckpoint(r)
              /\ latest \in Iters /\ v = shard[latest][1][0]
           \/ ReadPointer(r) /\ latest \notin Iters
<1> USE DEF IInv
<1>a. ~ObjectStore => ~SaveZero /\ SaveDue(MaxIter)
  BY DEF SafeStorage
<1>1. CASE Saving(r)' /\ v = mem'[r]
  <2>1. CASE TrainingStep(r)
    <3>1. mem'[r] = [job |-> job, it |-> it[r] + 1]
      BY <2>1, TrainingFacts DEF TypeOK
    <3> QED
      BY <1>1, <2>1, <3>1
  <2>2. CASE ReadPointer(r)
    BY <1>1, <2>2, FreshStartFacts DEF Saving, Loaded
  <2>3. CASE LoadCheckpoint(r)
    BY <1>1, <1>a, <2>3, LoadFacts, GridFacts DEF Saving, Loaded, TypeOK
  <2>4. CASE LeaveLoop(r)
    BY <1>1, <1>a, <2>4, GridFacts DEF LeaveLoop
  <2>5. CASE StillSaving(r) /\ ~Starts(r)
    BY <1>1, <2>5, MemSteps DEF StillSaving, ToWrite
  <2> QED
    BY <1>1, <2>1, <2>2, <2>3, <2>4, <2>5, SavingSteps DEF Starts
<1>2. CASE tasks'[r] = <<SaveTask(stage'[r].it)>> /\ v = stage'[r]
  <2>1. CASE StageAndSubmit(r)
    BY <1>2, <2>1, SubmitFacts DEF ToWrite
  <2>2. ~ReceiveTask(r)
    BY <1>2, ReceiveFacts, Singleton
  <2>3. ~SendTerminate(r)
    <3> SUFFICES ASSUME SendTerminate(r) PROVE FALSE
      OBVIOUS
    <3>1. pc[r] = "closing" /\ ~inflight[r] /\ tasks'[r] = Append(tasks[r], Terminate)
      BY DEF SendTerminate, NothingPending, TypeOK
    <3>2. tasks[r] = <<>>
      BY <3>1 DEF Lanes, Lane, AsyncLane, SyncLane
    <3> QED
      BY <1>2, <3>1, <3>2, Singleton, TaskKinds
  <2>4. CASE tasks'[r] = tasks[r] /\ ~StageAndSubmit(r)
    BY <1>2, <2>4, StageSteps DEF ToWrite
  <2> QED
    BY <2>1, <2>2, <2>3, <2>4, TasksSteps
<1>3. CASE wk'[r].st \in {"plan", "wrote"} /\ v = Source(r)'
  <2>1. CASE wk[r].st \in {"plan", "wrote"}
    BY <1>3, <2>1, SourceStable DEF Busy, ToWrite
  <2>2. CASE ReceiveTask(r)
    <3>1. Async /\ stage'[r] = stage[r] /\ tasks[r] = <<SaveTask(stage[r].it)>>
      <4>1. wk'[r] # Stopped
        BY <1>3 DEF Stopped
      <4>2. stage' = stage /\ Async
        BY <2>2, ReceiveFacts
      <4> QED
        BY <2>2, <4>1, <4>2, ReceiveFacts
    <3> QED
      BY <1>3, <3>1 DEF ToWrite, Source
  <2>3. CASE ~Async /\ BeginSave(r)
    BY <1>3, <2>3 DEF BeginSave, ToWrite, Saving, Source
  <2> QED
    BY <1>3, <2>1, <2>2, <2>3, JoinSteps
<1> QED
  BY <1>1, <1>2, <1>3 DEF ToWrite
-----------------------------------------------------------------------------
(***************************************************************************)
(* A settled checkpoint stays settled                                      *)
(***************************************************************************)

\* Nothing is written over it, and nothing tears it.
LEMMA SettledShards ==
    ASSUME IInv, [Next]_vars, ~Restart, NEW i \in Iters, Settled(i)
    PROVE  shard'[i] = shard[i] /\ Intact(i)'
<1> USE DEF IInv
<1>1. \A r \in Ranks : wk[r].st \in {"plan", "wrote"} /\ wk[r].it = i =>
          ObjectStore /\ Source(r) = shard[i][1][0]
  <2> SUFFICES ASSUME NEW r \in Ranks, wk[r].st \in {"plan", "wrote"}, wk[r].it = i
               PROVE  ObjectStore /\ Source(r) = shard[i][1][0]
    OBVIOUS
  <2>1. Source(r) \in Version /\ Source(r).it = i
    BY BusyFacts DEF Busy
  <2> QED
    BY <2>1 DEF Settled, ToWrite
<1>2. ASSUME NEW r \in Ranks, WriteShard(r) PROVE shard'[i] = shard[i]
  <2>1. wk[r].st = "plan" /\ wk[r].key \in Keys
    BY <1>2 DEF WriteShard, TypeOK
  <2>2. wk[r].it = i => Source(r) = shard[i][wk[r].key][r]
    BY <1>1, <2>1, RankZero DEF Settled, Intact
  <2> QED
    BY <1>2, <2>2, OverwriteSame
<1>3. ASSUME CollectiveFails PROVE shard'[i] = shard[i]
  <2>1. PICK S \in Tearable(OpenShards) : TearShards(S)
    BY <1>3 DEF CollectiveFails
  <2>2. \A r \in S \cap Ranks : wk[r].it # i
    BY <1>1 DEF Tearable, OpenShards
  <2> QED
    BY <2>1, <2>2, TearOthers
<1>4. shard'[i] = shard[i]
  BY <1>2, <1>3, StorageSteps
<1>5. meta'[i] = meta[i]
  <2>1. ASSUME NEW k \in Keys, NEW j \in Iters, CommitKey(k, j) PROVE meta'[i] = meta[i]
    BY <2>1 DEF CommitKey, TypeOK, Settled, Intact
  <2> QED
    BY <2>1, StorageSteps
<1> QED
  BY <1>4, <1>5 DEF Settled, Intact

\* The pointer moves forward.
LEMMA PointerForward ==
    ASSUME TypeOK, Publishing, Forward, [Next]_vars, ~Restart
    PROVE  latest <= latest'
<1>1. ASSUME NEW r \in Ranks, WritePointer(r) PROVE latest <= latest'
  BY <1>1, PublishFacts DEF Forward
<1>2. latest \in Int
  BY Numbers DEF TypeOK
<1> QED
  BY <1>1, <1>2, PointerSteps

\* One version of the weights of iteration i is in use or in checkpoint i.
LEMMA SettledVersion ==
    ASSUME IInv, Ahead, NEW i \in Iters, Settled(i), NEW r \in Ranks, Loaded(r), it[r] = i
    PROVE  mem[r] = shard[i][1][0]
<1>1. mem[r] \in Version /\ mem[r].it = i /\ Alive(mem[r]) /\ i \in Nat
  BY Numbers DEF IInv, TypeOK, Progress, Alive
<1>2. PICK j \in Jobs : shard[i][1][0] = [job |-> j, it |-> i]
  BY RankZero DEF Settled, Intact
<1>3. CASE latest < i
  <2>1. mem[r].job = job /\ j = job
    BY <1>1, <1>2, <1>3 DEF Ahead, Settled
  <2> QED
    BY <1>1, <1>2, <2>1, VersionExt
<1>4. CASE latest = i
  <2>1. shard[i][1][0] \in Version /\ Alive(shard[i][1][0]) /\ shard[i][1][0].it = i
    BY <1>2, <1>4 DEF Alive, Version
  <2> QED
    BY <1>1, <2>1 DEF IInv, Lineage
<1>5. latest <= i
  BY <1>1, Numbers DEF IInv, TypeOK, Progress
<1> QED
  BY <1>1, <1>3, <1>4, <1>5, Numbers DEF IInv, TypeOK

\* A rank receives the one answer there is.
LEMMA AnswerFacts ==
    ASSUME TypeOK, Lanes, NEW r \in Ranks, ReceiveResult(r)
    PROVE  /\ Async /\ results[r] # <<>> /\ results'[r] = <<>>
           /\ inflight[r] /\ ~inflight'[r] /\ tasks[r] = <<>> /\ ~Busy(r)
           /\ pc[r] \in {"save", "closing"}
           /\ \A q \in Ranks \ {r} : pc'[q] = pc[q] /\ inflight'[q] = inflight[q]
           /\ \/ /\ Head(results[r]).ok /\ UNCHANGED pc
                 /\ acked' = [acked EXCEPT ![r] = Head(results[r]).it]
              \/ pc'[r] = "failed" /\ UNCHANGED acked
           /\ UNCHANGED <<shard, meta, pkl, latest, job, it, mem, pos, resume, ret, stage, tasks, wk>>
<1>1. Lane(r) /\ inflight[r] /\ results[r] # <<>> /\ pc[r] \in {"save", "closing"}
  BY DEF Lanes, ReceiveResult, AwaitingResult
<1>2. Async /\ Len(results[r]) = 1 /\ tasks[r] = <<>> /\ ~Busy(r)
  BY <1>1 DEF Lane, AsyncLane, SyncLane
<1>3. results'[r] = Tail(results[r]) /\ results[r] \in Seq([it : Iters, ok : BOOLEAN])
  BY DEF ReceiveResult, TypeOK
<1>4. results'[r] = <<>>
  BY <1>2, <1>3, TailOfOne
<1>5. /\ ~inflight'[r]
      /\ \A q \in Ranks \ {r} : pc'[q] = pc[q] /\ inflight'[q] = inflight[q]
      /\ \/ /\ Head(results[r]).ok /\ UNCHANGED pc
            /\ acked' = [acked EXCEPT ![r] = Head(results[r]).it]
         \/ pc'[r] = "failed" /\ UNCHANGED acked
      /\ UNCHANGED <<shard, meta, pkl, latest, job, it, mem, pos, resume, ret, stage, tasks, wk>>
  BY DEF ReceiveResult, Succeeded, Raise, TypeOK, storageVars
<1> QED
  BY <1>1, <1>2, <1>4, <1>5

\* A worker sends the one answer there is.
LEMMA ReportFacts ==
    ASSUME TypeOK, Lanes, NEW r \in Ranks, ReportResult(r)
    PROVE  /\ Async /\ wk[r].st \in {"saved", "failed"} /\ Busy(r) /\ results[r] = <<>>
           /\ results'[r] # <<>>
           /\ Head(results'[r]).it = wk[r].it
           /\ Head(results'[r]).ok <=> wk[r].st = "saved"
           /\ wk' = [wk EXCEPT ![r] = Idle]
           /\ UNCHANGED <<shard, meta, pkl, latest, job, pc, it, mem, pos, resume, ret, acked,
                          inflight, stage, tasks>>
<1>1. Async /\ wk[r].st \in {"saved", "failed"} /\ Busy(r) /\ Lane(r)
  BY DEF Lanes, ReportResult, Busy
<1>2. results[r] = <<>>
  BY <1>1 DEF Lane, AsyncLane
<1>3. results'[r] = Append(results[r], [it |-> wk[r].it, ok |-> wk[r].st = "saved"])
  BY DEF ReportResult, TypeOK
<1>4. /\ results'[r] # <<>>
      /\ Head(results'[r]) = [it |-> wk[r].it, ok |-> wk[r].st = "saved"]
  BY <1>2, <1>3, Singleton
<1>5. /\ Head(results'[r]).it = wk[r].it
      /\ Head(results'[r]).ok <=> wk[r].st = "saved"
  <2>1. CASE wk[r].st = "saved"
    <3>1. [it |-> wk[r].it, ok |-> wk[r].st = "saved"] = [it |-> wk[r].it, ok |-> TRUE]
      BY <2>1
    <3>2. Head(results'[r]) = [it |-> wk[r].it, ok |-> TRUE]
      BY <1>4, <3>1, Zenon
    <3> QED
      BY <2>1, <3>2
  <2>2. CASE wk[r].st # "saved"
    <3>1. [it |-> wk[r].it, ok |-> wk[r].st = "saved"] = [it |-> wk[r].it, ok |-> FALSE]
      BY <2>2
    <3>2. Head(results'[r]) = [it |-> wk[r].it, ok |-> FALSE]
      BY <1>4, <3>1, Zenon
    <3> QED
      BY <2>2, <3>2
  <2> QED
    BY <2>1, <2>2
<1> QED
  BY <1>1, <1>2, <1>4, <1>5 DEF ReportResult, storageVars, mainVars

\* A synchronous save ends in the iteration it was entered in.
LEMMA FinishFacts ==
    ASSUME TypeOK, Lanes, NEW r \in Ranks, FinishSyncSave(r)
    PROVE  /\ pc[r] = "working" /\ ~Async
           /\ \/ /\ wk[r].st = "saved" /\ pc'[r] = ret[r]
                 /\ wk[r].it = it[r]
                 /\ acked' = [acked EXCEPT ![r] = it[r]]
              \/ wk[r].st = "failed" /\ pc'[r] = "failed" /\ UNCHANGED acked
           /\ \A q \in Ranks \ {r} : pc'[q] = pc[q]
           /\ wk' = [wk EXCEPT ![r] = Idle]
           /\ UNCHANGED <<shard, meta, pkl, latest, job, it, mem, pos, resume, ret,
                          inflight, stage, tasks, results>>
<1>1. Lane(r)
  BY DEF Lanes
<1>2. ~Async /\ (wk[r].st = "saved" => wk[r].it = it[r])
  BY <1>1 DEF Lane, AsyncLane, SyncLane, Busy, FinishSyncSave
<1> QED
  BY <1>2 DEF FinishSyncSave, Raise, TypeOK, storageVars, asyncVars

\* A rank that starts takes the pointer's iteration for saved.
LEMMA StartAcked ==
    ASSUME TypeOK, Booting, PublishedIntact, NEW r \in Ranks, Loaded(r)',
           ReadPointer(r) \/ LoadCheckpoint(r)
    PROVE  /\ Unstarted(r) /\ acked'[r] = it'[r]
           /\ ReadPointer(r) => it'[r] = 0 /\ latest \notin Iters
           /\ LoadCheckpoint(r) => it'[r] = latest /\ latest \in Iters
<1>1. \A i : StartTraining(r, i) => acked'[r] = it'[r]
  BY DEF StartTraining, TypeOK
<1>2. Unstarted(r) /\ acked'[r] = it'[r]
  BY <1>1 DEF ReadPointer, LoadCheckpoint, Raise, Loaded, Unstarted, TypeOK
<1>3. ReadPointer(r) => it'[r] = 0 /\ latest \notin Iters
  BY FreshStartFacts
<1>4. LoadCheckpoint(r) => it'[r] = latest /\ latest \in Iters
  BY LoadFacts DEF TypeOK
<1> QED
  BY <1>2, <1>3, <1>4

\* A checkpoint somebody counts on outlives every step of the job: who saves the
\* same iteration again saves the same version.
LEMMA SettledStep ==
    ASSUME SafeStorage, IInv, Ahead, Forward, [Next]_vars, ~Restart, NEW i \in Iters, Settled(i)
    PROVE  Settled(i)'
<1> USE DEF IInv
<1>1. shard'[i] = shard[i] /\ Intact(i)'
  BY SettledShards
<1>2. latest <= latest' /\ i \in Nat /\ latest \in Int /\ latest' \in Int
  <2>1. latest' = latest \/ latest' \in Iters
    BY PointerSteps, PublishFacts
  <2>2. latest <= latest'
    BY PointerForward
  <2>3. i \in Nat /\ latest \in Int
    BY Numbers DEF TypeOK
  <2>4. latest' \in Int
    BY <2>1, <2>3, ItersInt
  <2> QED
    BY <2>2, <2>3, <2>4
<1>3. ASSUME NEW r \in Ranks, Unstarted(r)' PROVE i = latest'
  <2>1. Unstarted(r)
    BY <1>3, StartedStays
  <2>2. UNCHANGED latest
    BY <2>1, PointerSteps, PublishFacts
  <2> QED
    BY <2>1, <2>2 DEF Settled
<1>4. ASSUME NEW r \in Ranks, Loaded(r)' PROVE i <= it'[r]
  <2>1. CASE Loaded(r)
    <3>1. i <= it[r] /\ it[r] <= it'[r]
      BY <2>1, StartedStays DEF Settled, Loaded, Unstarted
    <3>2. it[r] \in Int /\ it'[r] \in Int
      <4>1. TypeOK'
        BY NextOK
      <4>2. it[r] \in Iters /\ it'[r] \in Iters
        BY <4>1 DEF TypeOK
      <4> QED
        BY <4>2, ItersInt
    <3> QED
      BY <1>2, <3>1, <3>2
  <2>2. CASE ~Loaded(r)
    <3>1. Unstarted(r) /\ i = latest
      BY <1>4, <2>2, BecomesLoaded DEF Settled
    <3> QED
      BY <1>2, <1>4, <2>2, <3>1, BecomesLoaded
  <2> QED
    BY <2>1, <2>2
<1>5. ASSUME NEW r \in Ranks, NEW v \in Version, v \in ToWrite(r)', v.it = i
      PROVE  ObjectStore /\ v = shard[i][1][0]
  <2>1. CASE v \in ToWrite(r)
    BY <1>5, <2>1 DEF Settled
  <2>2. ~TrainingStep(r) \/ v.it # it[r] + 1
    <3>1. TrainingStep(r) => Loaded(r) /\ it[r] \in Nat
      BY TrainingFacts, Numbers
    <3>2. Loaded(r) => i <= it[r]
      BY DEF Settled
    <3> QED
      BY <1>2, <1>5, <3>1, <3>2
  <2>3. CASE ObjectStore /\ LeaveLoop(r) /\ v = mem[r]
    <3>1. Loaded(r) /\ it[r] = i
      BY <1>5, <2>3 DEF LeaveLoop, Loaded, Progress
    <3> QED
      BY <2>3, <3>1, SettledVersion
  <2>4. CASE ObjectStore /\ LoadCheckpoint(r) /\ latest \in Iters /\ v = shard[latest][1][0]
    <3>1. i = latest
      BY <2>4 DEF LoadCheckpoint, Unstarted, Settled
    <3> QED
      BY <2>4, <3>1
  <2>5. ~ReadPointer(r) \/ latest \in Iters
    BY DEF ReadPointer, Unstarted, Settled
  <2> QED
    BY <1>5, <2>1, <2>2, <2>3, <2>4, <2>5, ToWriteSteps
<1>6. latest' < i => shard'[i][1][0].job = job'
  BY <1>1, <1>2, JobStays DEF Settled
<1>7. \A r \in Ranks : \A v \in ToWrite(r)' : v \in Version
  BY DEF ToWrite
<1> QED
  BY <1>1, <1>3, <1>4, <1>5, <1>6, <1>7 DEF Settled

\* The last key of a save is committed: its checkpoint is settled.
LEMMA CommitSettled ==
    ASSUME SafeStorage, IInv, Ahead, SavedOnce, NEW i \in Iters, CommitKey(NumKeys, i)
    PROVE  Settled(i)'
<1> USE DEF IInv
<1>1. /\ Intact(i)' /\ shard'[i][1][0] = Source(0)
      /\ \A q \in Ranks : ~Unstarted(q) /\ i <= it[q]
  BY CommitIntact
<1>2. \A q \in Ranks : wk[q].st = "wrote" /\ wk[q].it = i /\ Busy(q)
  BY DEF CommitKey, AllWrote, Busy
<1>3. \A q \in Ranks : wk'[q].st \notin {"plan", "wrote"}
  BY DcpAssumption DEF CommitKey, NextStep, AfterKeys
<1>4. UNCHANGED <<shard, latest, job, pc, it, mem, tasks, stage>>
  BY DEF CommitKey, mainVars, asyncVars
<1>5. Source(0) \in Version /\ Source(0).it = i /\ Alive(Source(0))
  BY <1>2, BusyFacts, SourceAlive, RankZero
<1>6. ASSUME NEW r \in Ranks, NEW v \in Version, v \in ToWrite(r)', v.it = i
      PROVE  ObjectStore /\ v = Source(0)
  <2>1. tasks[r] # <<SaveTask(stage[r].it)>>
    BY <1>2, Singleton, TaskKinds DEF Lanes, Lane, AsyncLane, SyncLane
  <2>2. Saving(r) /\ v = mem[r]
    BY <1>3, <1>4, <1>6, <2>1 DEF ToWrite, Saving
  <2>3. Loaded(r) /\ it[r] = i /\ Alive(v)
    BY <1>6, <2>2 DEF Saving, Loaded, Progress, Alive
  <2>4. Async /\ inflight[r] /\ pc[r] = "save" /\ stage[r].it = i
    BY <1>2, <2>2 DEF Saving, Lanes, Lane, AsyncLane, SyncLane
  <2>5. ObjectStore
    BY <2>3, <2>4, Numbers DEF SavedOnce
  <2> QED
    BY <1>5, <1>6, <2>3, <2>5 DEF Lineage
<1>7. latest < i => Source(0).job = job
  BY <1>5 DEF Ahead
<1>8. \A r \in Ranks : \A v \in ToWrite(r)' : v \in Version
  BY DEF ToWrite
<1> QED
  BY <1>1, <1>4, <1>6, <1>7, <1>8 DEF Settled, Unstarted, Loaded

\* Nobody counts on a checkpoint before its last key is committed.
LEMMA PromisedSteps ==
    ASSUME IInv, [Next]_vars, ~Restart, NEW i \in Iters, Promised(i)'
    PROVE  Promised(i) \/ CommitKey(NumKeys, i)
<1> USE DEF IInv
<1>1. CASE latest' = i
  BY <1>1, PointerSteps, PublishFacts, RankZero DEF Promised
<1>2. ASSUME NEW r \in Ranks, wk'[r].st \in {"pkl", "pointer", "saved"}, wk'[r].it = i
      PROVE  Promised(i) \/ CommitKey(NumKeys, i)
  <2>1. CASE wk'[r] = wk[r]
    BY <1>2, <2>1 DEF Promised
  <2>2. ~ReceiveTask(r)
    BY <1>2, ReceiveFacts
  <2>3. ~BeginSave(r) \/ Async
    BY <1>2 DEF BeginSave, TypeOK
  <2>4. ~WriteShard(r)
    BY <1>2 DEF WriteShard, At, TypeOK
  <2>5. CASE SaveLoaderState(r) \/ WritePointer(r)
    BY <1>2, <2>5 DEF SaveLoaderState, WritePointer, At, TypeOK, Promised
  <2>6. ASSUME NEW k \in Keys, NEW j \in Iters, CommitKey(k, j)
        PROVE  CommitKey(NumKeys, i)
    <3>1. wk'[r] = NextStep(r, k, j)
      BY <2>6 DEF CommitKey
    <3>2. k = NumKeys
      BY <1>2, <3>1, DcpAssumption DEF NextStep, Keys
    <3>3. j = i
      BY <1>2, <3>1 DEF NextStep
    <3> QED
      BY <2>6, <3>2, <3>3
  <2> QED
    BY <1>2, <2>1, <2>2, <2>3, <2>4, <2>5, <2>6, WorkerMoves
<1>3. ASSUME NEW r \in Ranks, results'[r] # <<>>, Head(results'[r]).ok, Head(results'[r]).it = i
      PROVE  Promised(i)
  <2>1. CASE results'[r] = results[r]
    BY <1>3, <2>1 DEF Promised
  <2>2. ~ReceiveResult(r)
    BY <1>3, AnswerFacts
  <2>3. CASE ReportResult(r)
    <3>1. wk[r].st = "saved" /\ wk[r].it = i
      BY <1>3, <2>3, ReportFacts
    <3> QED
      BY <3>1 DEF Promised
  <2> QED
    BY <2>1, <2>2, <2>3, ResultsSteps
<1>4. ASSUME NEW r \in Ranks, Loaded(r)', acked'[r] = i, i > 0
      PROVE  Promised(i)
  <2>1. CASE LoadCheckpoint(r)
    BY <1>4, <2>1, StartAcked DEF Promised
  <2>2. ~ReadPointer(r)
    BY <1>4, StartAcked
  <2>3. CASE ~LoadCheckpoint(r) /\ ~ReadPointer(r)
    <3>1. Loaded(r)
      BY <1>4, <2>3, BecomesLoaded
    <3>2. CASE acked'[r] = acked[r]
      BY <1>4, <3>1, <3>2 DEF Promised
    <3>3. CASE ReceiveResult(r)
      <4>1. \/ results[r] # <<>> /\ Head(results[r]).ok /\ Head(results[r]).it = i
            \/ acked'[r] = acked[r]
        BY <1>4, <3>3, AnswerFacts DEF TypeOK
      <4> QED
        BY <1>4, <3>1, <4>1 DEF Promised
    <3>4. CASE FinishSyncSave(r)
      <4>1. (wk[r].st = "saved" /\ wk[r].it = i) \/ acked'[r] = acked[r]
        BY <1>4, <3>4, FinishFacts DEF TypeOK
      <4> QED
        BY <1>4, <3>1, <4>1 DEF Promised
    <3> QED
      BY <2>3, <3>2, <3>3, <3>4, AckedSteps
  <2> QED
    BY <2>1, <2>2, <2>3
<1> QED
  BY <1>1, <1>2, <1>3, <1>4 DEF Promised
-----------------------------------------------------------------------------
(***************************************************************************)
(* What the save of an iteration is ahead of                               *)
(***************************************************************************)

\* The versions that come into use are trained by this job.
LEMMA AliveSteps ==
    ASSUME IInv, [Next]_vars, ~Restart, NEW v \in Version, Alive(v)'
    PROVE  Alive(v) \/ v.job = job
<1> USE DEF IInv
<1>1. CASE NoProgress
  BY <1>1, AliveKept
<1>2. ASSUME NEW r \in Ranks, TrainingStep(r) PROVE Alive(v) \/ v.job = job
  <2>1. /\ UNCHANGED <<shard, latest, inflight, stage>>
        /\ mem'[r] = [job |-> job, it |-> it[r] + 1]
        /\ \A q \in Ranks \ {r} : mem'[q] = mem[q]
        /\ \A q \in Ranks : Loaded(q)' => Loaded(q)
    <3>1. mem \in [Ranks -> Version] /\ mem' = [mem EXCEPT ![r] = [job |-> job, it |-> it[r] + 1]]
      BY <1>2, TrainingFacts DEF TypeOK
    <3> QED
      BY <1>2, <3>1, TrainingFacts
  <2>2. CASE v = mem'[r]
    BY <2>1, <2>2
  <2> QED
    BY <2>1, <2>2 DEF Alive, Loaded
<1>3. ASSUME NEW r \in Ranks, ReadPointer(r), Loaded(r)' PROVE Alive(v) \/ v.job = job
  <2>1. /\ UNCHANGED <<shard, latest, inflight, stage, mem>>
        /\ mem[r] = [job |-> job, it |-> 0]
        /\ \A q \in Ranks \ {r} : Loaded(q)' = Loaded(q)
    BY <1>3, FreshStartFacts DEF Loaded
  <2>2. CASE v = mem[r]
    BY <2>1, <2>2
  <2> QED
    BY <2>1, <2>2 DEF Alive, Loaded
<1>4. ASSUME NEW r \in Ranks, LoadCheckpoint(r), Loaded(r)' PROVE Alive(v)
  <2>1. /\ UNCHANGED <<shard, latest, inflight, stage>> /\ latest \in Iters
        /\ mem'[r] = shard[latest][1][0]
        /\ \A q \in Ranks \ {r} : Loaded(q)' = Loaded(q) /\ mem'[q] = mem[q]
    BY <1>4, LoadFacts DEF Loaded, TypeOK
  <2> QED
    BY <2>1 DEF Alive, Loaded
<1>5. ASSUME NEW r \in Ranks, ReadPointer(r) \/ LoadCheckpoint(r), ~Loaded(r)' PROVE Alive(v)
  <2>1. /\ UNCHANGED <<shard, latest, inflight, stage, mem>>
        /\ \A q \in Ranks : Loaded(q)' => Loaded(q)
    BY <1>5, NotStartedFacts DEF Loaded
  <2> QED
    BY <2>1 DEF Alive, Loaded
<1> QED
  BY <1>1, <1>2, <1>3, <1>4, <1>5, ProgressSteps DEF Starts

LEMMA AheadStep ==
    ASSUME IInv, Ahead, Forward, [Next]_vars, ~Restart
    PROVE  Ahead'
<1> USE DEF IInv
<1> SUFFICES ASSUME NEW v \in Version, Alive(v)', latest' < v.it PROVE v.job = job'
  BY DEF Ahead
<1>1. latest <= latest' /\ latest \in Int /\ v.it \in Int
  <2>1. latest \in Pointers
    BY DEF TypeOK
  <2> QED
    BY <2>1, PointerForward, Numbers
<1>2. latest' \in Int
  BY NextOK, Numbers DEF TypeOK
<1>3. latest < v.it
  BY <1>1, <1>2
<1> QED
  BY <1>3, AliveSteps, JobStays DEF Ahead

\* A rank that saves has at least what the pointer names.
LEMMA AtLeastPointer ==
    ASSUME TypeOK, Progress, NEW r \in Ranks, Loaded(r)
    PROVE  latest <= it[r] /\ latest \in Int /\ it[r] \in Nat
<1>1. latest \in Pointers /\ it[r] \in Iters
  BY DEF TypeOK
<1>2. latest \in Iters => latest <= it[r]
  BY DEF Progress
<1> QED
  BY <1>1, <1>2, Numbers

LEMMA ForwardStep ==
    ASSUME SafeStorage, IInv, Forward, [Next]_vars, ~Restart
    PROVE  Forward'
<1> USE DEF IInv
<1>a. 0 \in Ranks /\ latest \in Int
  BY Numbers DEF TypeOK
<1>b. UNCHANGED latest \/ WritePointer(0)
  BY PointerSteps, PublishFacts
<1>1. ASSUME NEW i \in Iters, tasks'[0] = <<SaveTask(i)>> PROVE latest' <= i
  <2>1. CASE StageAndSubmit(0)
    <3>1. i = it[0] /\ latest <= it[0] /\ UNCHANGED latest
      BY <1>a, <1>1, <2>1, SubmitFacts, AtLeastPointer, Singleton, TaskKinds DEF storageVars
    <3> QED
      BY <3>1
  <2>2. ~SendTerminate(0)
    <3> SUFFICES ASSUME SendTerminate(0) PROVE FALSE
      OBVIOUS
    <3>1. pc[0] = "closing" /\ ~inflight[0] /\ tasks'[0] = Append(tasks[0], Terminate)
      BY <1>a DEF SendTerminate, NothingPending, TypeOK
    <3>2. tasks[0] = <<>>
      BY <1>a, <3>1 DEF Lanes, Lane, AsyncLane, SyncLane
    <3> QED
      BY <1>1, <3>1, <3>2, Singleton, TaskKinds
  <2>3. ~ReceiveTask(0)
    BY <1>a, <1>1, ReceiveFacts, Singleton
  <2>4. CASE tasks'[0] = tasks[0]
    <3>1. ~Busy(0)
      BY <1>a, <1>1, <2>4, Singleton, TaskKinds DEF Lanes, Lane, AsyncLane, SyncLane
    <3>2. UNCHANGED latest
      <4>1. WritePointer(0) => Busy(0)
        BY DEF WritePointer, Busy
      <4> QED
        BY <1>b, <3>1, <4>1
    <3> QED
      BY <1>1, <2>4, <3>2 DEF Forward
  <2> QED
    BY <1>a, <2>1, <2>2, <2>3, <2>4, TasksSteps
<1>2. ASSUME Unpublished(0)' PROVE latest' <= wk'[0].it
  <2>1. CASE Unpublished(0) /\ wk'[0].it = wk[0].it /\ ~WritePointer(0)
    BY <1>b, <2>1 DEF Forward, Unpublished
  <2>2. CASE ReceiveTask(0)
    <3>1. /\ tasks[0] = <<SaveTask(stage[0].it)>> /\ UNCHANGED latest
          /\ wk'[0].it = stage[0].it /\ stage[0].it \in Iters
      <4>1. wk'[0] # Stopped
        BY <1>2 DEF Unpublished, Stopped
      <4>2. /\ tasks[0] = <<SaveTask(stage[0].it)>> /\ UNCHANGED latest
            /\ wk'[0] = [st |-> "plan", key |-> 1, it |-> stage[0].it]
            /\ stage[0] \in Version
        BY <1>a, <2>2, <4>1, ReceiveFacts, Zenon
      <4>3. wk'[0].it = stage[0].it
        BY <4>2
      <4> QED
        BY <4>2, <4>3, Numbers
    <3> QED
      BY <3>1 DEF Forward
  <2>3. CASE BeginSave(0) /\ wk'[0].it = it[0]
    <3>1. Loaded(0) /\ UNCHANGED latest
      BY <2>3 DEF BeginSave, Loaded, storageVars
    <3> QED
      BY <1>a, <2>3, <3>1, AtLeastPointer
  <2> QED
    BY <1>a, <1>2, <2>1, <2>2, <2>3, UnpublishedSteps
<1> QED
  BY <1>1, <1>2 DEF Forward, Unpublished

\* Off the object store every save of a rank is of a new iteration.
LEMMA SavedOnceStep ==
    ASSUME SafeStorage, IInv, SavedOnce, [Next]_vars, ~Restart
    PROVE  SavedOnce'
<1> USE DEF IInv
<1> SUFFICES ASSUME ~ObjectStore, Async, NEW r \in Ranks, inflight'[r], pc'[r] = "save"
             PROVE  stage'[r].it < it'[r]
  BY DEF SavedOnce
<1>a. ~SaveZero /\ SaveDue(MaxIter)
  BY DEF SafeStorage
<1>1. ~StageAndSubmit(r)
  <2>1. ret[r] # "save"
    BY DEF TypeOK
  <2> QED
    BY <2>1, SubmitFacts DEF TypeOK
<1>2. inflight[r] /\ stage'[r] = stage[r]
  BY <1>1, InflightSteps, StageSteps
<1>3. stage[r].it <= it[r] /\ stage[r] \in Version /\ it[r] \in Iters
  BY <1>2 DEF Lanes, Lane, AsyncLane, TypeOK
<1>4. stage[r].it \in Int /\ it[r] \in Int
  BY <1>3, Numbers, ItersInt
<1>5. CASE TrainingStep(r)
  <2>1. it'[r] = it[r] + 1
    BY <1>5, TrainingFacts DEF TypeOK
  <2> QED
    BY <1>2, <1>3, <1>4, <2>1
<1>6. CASE StillSaving(r)
  BY <1>2, <1>6 DEF StillSaving, SavedOnce
<1> QED
  BY <1>a, <1>5, <1>6, SavingSteps, GridFacts DEF Saving, Starts

\* The pointer is moved before anybody is told.
LEMMA ReportedStep ==
    ASSUME IInv, Forward, Reported, [Next]_vars, ~Restart
    PROVE  Reported'
<1> USE DEF IInv
<1>a. 0 \in Ranks /\ latest \in Int /\ latest <= latest'
  BY PointerForward, Numbers DEF TypeOK
<1>b. latest' \in Int
  BY NextOK, Numbers DEF TypeOK
<1>c. \A j \in Int : j <= latest => j <= latest'
  BY <1>a, <1>b
<1>1. ASSUME wk'[0].st = "saved" PROVE wk'[0].it <= latest'
  <2>1. CASE wk'[0] = wk[0]
    <3>1. wk[0].it \in Int /\ wk[0].it <= latest
      BY <1>a, <1>1, <2>1, ItersInt DEF TypeOK, Reported
    <3> QED
      BY <1>c, <2>1, <3>1
  <2>2. CASE WritePointer(0)
    <3>1. latest' = wk[0].it /\ wk'[0].it = wk[0].it
      BY <1>a, <2>2 DEF WritePointer, At, TypeOK
    <3> QED
      BY <1>b, <3>1
  <2>3. ~SaveLoaderState(0) /\ ~WriteShard(0)
    BY <1>a, <1>1 DEF SaveLoaderState, WriteShard, At, TypeOK
  <2>4. ~ReceiveTask(0)
    BY <1>a, <1>1, ReceiveFacts
  <2>5. Async \/ ~BeginSave(0)
    BY <1>a, <1>1 DEF BeginSave, TypeOK
  <2>6. \A k \in Keys, i \in Iters : ~CommitKey(k, i)
    BY <1>a, <1>1 DEF CommitKey, NextStep, AfterKeys
  <2> QED
    BY <1>a, <1>1, <2>1, <2>2, <2>3, <2>4, <2>5, <2>6, WorkerMoves
<1>2. ASSUME NEW r \in Ranks, results'[r] # <<>>
      PROVE  /\ Head(results'[r]).it = stage'[r].it
             /\ r = 0 /\ Head(results'[r]).ok => Head(results'[r]).it <= latest'
  <2>1. CASE results'[r] = results[r]
    <3>1. Head(results[r]).it \in Int
      <4>1. results[r] \in Seq([it : Iters, ok : BOOLEAN]) /\ results[r] # <<>>
        BY <1>2, <2>1 DEF TypeOK
      <4>2. Head(results[r]) \in [it : Iters, ok : BOOLEAN]
        BY <4>1, HeadTailType
      <4> QED
        BY <4>2, ItersInt
    <3>2. stage'[r] = stage[r]
      BY <1>2, <2>1, SubmitFacts, StageSteps
    <3> QED
      BY <1>2, <1>c, <2>1, <3>1, <3>2 DEF Reported
  <2>2. ~ReceiveResult(r)
    BY <1>2, AnswerFacts
  <2>3. CASE ReportResult(r)
    <3>1. /\ stage'[r] = stage[r] /\ latest' = latest
          /\ wk[r].it = stage[r].it /\ Head(results'[r]).it = wk[r].it
          /\ Head(results'[r]).ok => wk[r].st = "saved"
      BY <2>3, ReportFacts DEF Lanes, Lane, AsyncLane
    <3> QED
      BY <3>1 DEF Reported
  <2> QED
    BY <2>1, <2>2, <2>3, ResultsSteps
<1>3. ASSUME Loaded(0)', acked'[0] > 0 PROVE acked'[0] <= latest'
  <2>1. CASE ReadPointer(0) \/ LoadCheckpoint(0)
    <3>1. acked'[0] = it'[0] /\ (it'[0] = 0 \/ it'[0] = latest)
      BY <1>3, <1>a, <2>1, StartAcked
    <3> QED
      BY <1>3, <1>a, <3>1
  <2>2. CASE ~ReadPointer(0) /\ ~LoadCheckpoint(0)
    <3>1. Loaded(0)
      BY <1>a, <1>3, <2>2, BecomesLoaded
    <3>2. CASE acked'[0] = acked[0]
      <4>1. acked[0] \in Int /\ acked[0] <= latest
        BY <1>a, <1>3, <3>1, <3>2, ItersInt DEF TypeOK, Reported
      <4> QED
        BY <1>c, <3>2, <4>1
    <3>3. CASE ReceiveResult(0)
      <4>1. \/ acked'[0] = acked[0]
            \/ /\ results[0] # <<>> /\ Head(results[0]).ok /\ UNCHANGED latest
               /\ acked'[0] = Head(results[0]).it
        BY <1>a, <3>3, AnswerFacts DEF TypeOK
      <4> QED
        BY <3>2, <4>1 DEF Reported
    <3>4. CASE FinishSyncSave(0)
      <4>1. \/ acked'[0] = acked[0]
            \/ wk[0].st = "saved" /\ acked'[0] = wk[0].it /\ UNCHANGED latest
        BY <1>a, <3>4, FinishFacts DEF TypeOK
      <4> QED
        BY <3>2, <4>1 DEF Reported
    <3> QED
      BY <1>a, <2>2, <3>2, <3>3, <3>4, AckedSteps
  <2> QED
    BY <2>1, <2>2
<1>4. /\ results'[0] # <<>> /\ Head(results'[0]).ok => Head(results'[0]).it <= latest'
      /\ \A r \in Ranks : results'[r] # <<>> => Head(results'[r]).it = stage'[r].it
  BY <1>a, <1>2
<1> QED
  BY <1>1, <1>3, <1>4 DEF Reported, Loaded
-----------------------------------------------------------------------------
(***************************************************************************)
(* The durability invariant                                                *)
(***************************************************************************)

LEMMA NewbornDurable == TypeOK /\ Newborn /\ PublishedIntact => DInv
<1> SUFFICES ASSUME TypeOK, Newborn, PublishedIntact PROVE DInv
  OBVIOUS
<1>1. IInv
  BY NewbornInv
<1>2. \A r \in Ranks : ~Saving(r) /\ ~Loaded(r) /\ ToWrite(r) = {}
  BY Singleton DEF Newborn, Saving, Loaded, ToWrite
<1>3. Ahead
  <2> SUFFICES ASSUME NEW v \in Version, Alive(v), latest < v.it PROVE FALSE
    BY DEF Ahead
  <2>1. latest \in Iters /\ v = shard[latest][1][0]
    BY DEF Alive, Newborn, Loaded
  <2>2. v.it = latest
    <3>1. \E j \in Jobs : shard[latest][1][0] = [job |-> j, it |-> latest]
      BY <2>1, RankZero, PublishedVersion
    <3> QED
      BY <2>1, <3>1
  <2> QED
    BY <2>1, <2>2, ItersInt
<1>4. Forward /\ SavedOnce /\ Reported
  BY <1>2, Singleton, RankZero DEF Newborn, Forward, SavedOnce, Reported
<1>5. Durable
  <2> SUFFICES ASSUME NEW i \in Iters, Promised(i) PROVE Settled(i)
    BY DEF Durable
  <2>1. latest = i
    BY <1>2 DEF Promised, Newborn
  <2> QED
    BY <1>2, <2>1, ItersInt DEF Settled, PublishedIntact
<1> QED
  BY <1>1, <1>3, <1>4, <1>5 DEF DInv

LEMMA InitDurable == Init => DInv
<1> SUFFICES ASSUME Init PROVE DInv
  OBVIOUS
<1>1. TypeOK
  BY InitType DEF TypeInv
<1>2. Newborn
  BY DEF Init, Newborn, Everywhere, Idle
<1>3. PublishedIntact
  BY DcpAssumption DEF Init, PublishedIntact, NoPointer, Iters
<1> QED
  BY <1>1, <1>2, <1>3, NewbornDurable

LEMMA RebootNewborn == Reboot => Newborn'
BY DEF Reboot, Newborn, Everywhere, Idle

LEMMA NextDurable ==
    ASSUME SafeStorage, DInv, [Next]_vars
    PROVE  DInv'
<1> USE DEF DInv
<1>1. IInv' /\ TypeOK'
  BY NextInv, NextOK
<1>2. CASE Restart
  <2>1. PublishedIntact'
    BY <1>1 DEF IInv
  <2>2. (TypeOK /\ Newborn /\ PublishedIntact)' => DInv'
    BY NewbornDurable, PTL
  <2> QED
    BY <1>1, <1>2, <2>1, <2>2, RebootNewborn DEF Restart
<1>3. CASE ~Restart
  <2>1. Ahead' /\ Forward' /\ SavedOnce' /\ Reported'
    BY <1>3, AheadStep, ForwardStep, SavedOnceStep, ReportedStep
  <2>2. ASSUME NEW i \in Iters, Promised(i)' PROVE Settled(i)'
    BY <1>3, <2>2, PromisedSteps, SettledStep, CommitSettled DEF Durable
  <2> QED
    BY <1>1, <2>1, <2>2 DEF Durable
<1> QED
  BY <1>2, <1>3

\* Whoever counts on a checkpoint can: it is intact, and no later save, crash or
\* restart changes it.
THEOREM Durability == SafeStorage => (Spec => []DInv)
<1> SUFFICES ASSUME SafeStorage PROVE Spec => []DInv
  OBVIOUS
<1>1. Init => DInv
  BY InitDurable
<1>2. DInv /\ [Next]_vars => DInv'
  BY NextDurable
<1> QED
  BY <1>1, <1>2, PTL DEF Spec

\* An iteration on_save_checkpoint_success was called with is on disk, complete,
\* for as long as the job that was told runs, and rank 0's pointer reached it.
THEOREM AckedIsDurable == SafeStorage => (Spec => []AckedDurable)
<1> SUFFICES ASSUME SafeStorage PROVE Spec => []AckedDurable
  OBVIOUS
<1>1. ASSUME DInv, NEW r \in Ranks, Loaded(r), acked[r] > 0
      PROVE  Intact(acked[r]) /\ (r = 0 => latest >= acked[r])
  <2>1. acked[r] \in Iters /\ latest \in Int /\ acked[r] \in Int
    BY <1>1, Numbers, ItersInt DEF DInv, IInv, TypeOK
  <2>2. Settled(acked[r])
    BY <1>1, <2>1 DEF DInv, Durable, Promised
  <2> QED
    BY <1>1, <2>1, <2>2 DEF DInv, Reported, Settled
<1>2. DInv => AckedDurable
  BY <1>1 DEF AckedDurable
<1> QED
  BY <1>2, Durability, PTL
-----------------------------------------------------------------------------
(***************************************************************************)
(* The dataloader state fits the weights                                   *)
(***************************************************************************)

\* Who writes a dataloader file, and who moves a dataloader.
LEMMA LoaderSteps ==
    ASSUME TypeOK, [Next]_vars, ~Restart, NEW q \in Ranks
    PROVE  /\ UNCHANGED pkl \/ \E r \in Ranks : SaveLoaderStateInline(r) \/ SaveLoaderState(r)
           /\ pos'[q] = pos[q] \/ LoadCheckpoint(q) \/ TrainingStep(q)
<1> USE DEF storageVars, mainVars, asyncVars, TypeOK
<1>1. ASSUME NEW r \in Ranks, r # q, LoadCheckpoint(r) \/ TrainingStep(r)
      PROVE  UNCHANGED pkl /\ pos'[q] = pos[q]
  BY <1>1 DEF LoadCheckpoint, TrainingStep
<1>2. ASSUME NEW r \in Ranks, LoadCheckpoint(r) \/ TrainingStep(r) PROVE UNCHANGED pkl
  BY <1>2 DEF LoadCheckpoint, TrainingStep
<1>3. ASSUME NEW r \in Ranks, Main(r) \/ TrainingStepEnd(r),
             ~LoadCheckpoint(r), ~TrainingStep(r), ~SaveLoaderStateInline(r)
      PROVE  UNCHANGED <<pkl, pos>>
  BY <1>3 DEF Main, ReadPointer, LeaveLoop, TrainingStepEnd, BeginSave, StageAndSubmit,
     FinishSyncSave, ReceiveResult, ResultTimeout, Finalize, SendTerminate, JoinBackground
<1>4. ASSUME NEW r \in Ranks, SaveLoaderStateInline(r) \/ SaveLoaderState(r) PROVE UNCHANGED pos
  BY <1>4 DEF SaveLoaderStateInline, SaveLoaderState
<1>5. ASSUME NEW r \in Ranks, Worker(r), ~SaveLoaderState(r) PROVE UNCHANGED <<pkl, pos>>
  BY <1>5 DEF Worker, ReceiveTask, WriteShard, WritePointer, ReportResult, PeerLost
<1>6. ASSUME NEW r \in Ranks, LocalWriteFails(r) \/ BackgroundDies(r) PROVE UNCHANGED <<pkl, pos>>
  BY <1>6 DEF LocalWriteFails, BackgroundDies
<1>7. CASE \/ \E k \in Keys, i \in Iters : CommitKey(k, i)
           \/ CollectiveFails \/ FinishTraining \/ UNCHANGED vars
  BY <1>7 DEF CommitKey, CollectiveFails, FinishTraining, vars
<1> HIDE DEF storageVars, mainVars, asyncVars, TypeOK
<1>8. CASE \E r \in Ranks : Main(r) \/ TrainingStepEnd(r)
  <2>1. PICK r \in Ranks : Main(r) \/ TrainingStepEnd(r)
    BY <1>8
  <2> QED
    BY <2>1, <1>1, <1>2, <1>3, <1>4
<1>9. CASE \E r \in Ranks : Worker(r)
  BY <1>9, <1>4, <1>5
<1> QED
  BY <1>6, <1>7, <1>8, <1>9 DEF Next, Steps, Faults, Terminated

\* How a rank gets to hand a save over.
LEMMA HandOverSteps ==
    ASSUME TypeOK, [Next]_vars, ~Restart, NEW q \in Ranks, pc'[q] = "stage"
    PROVE  pc[q] = "stage" \/ SaveLoaderStateInline(q) \/ (BeginSave(q) /\ ~LoaderState)
<1> USE DEF TypeOK, storageVars, mainVars, asyncVars
<1>1. ASSUME NEW r \in Ranks, Main(r) \/ TrainingStepEnd(r)
      PROVE  pc[q] = "stage" \/ SaveLoaderStateInline(q) \/ (BeginSave(q) /\ ~LoaderState)
  <2>1. CASE SaveLoaderStateInline(r)
    BY <2>1 DEF SaveLoaderStateInline
  <2>2. CASE BeginSave(r)
    BY <2>2 DEF BeginSave, AsyncSaveEntry
  <2>3. CASE StageAndSubmit(r) \/ FinishSyncSave(r)
    <3>1. pc'[r] \in {"train", "stepend", "finalize", "failed"}
          /\ \A p \in Ranks \ {r} : pc'[p] = pc[p]
      BY <2>3 DEF StageAndSubmit, FinishSyncSave, Raise
    <3> QED
      BY <3>1
  <2>4. CASE ReceiveResult(r) \/ ResultTimeout(r)
    <3>1. (pc'[r] = pc[r] \/ pc'[r] = "failed") /\ \A p \in Ranks \ {r} : pc'[p] = pc[p]
      BY <2>4 DEF ReceiveResult, ResultTimeout, Raise
    <3> QED
      BY <3>1
  <2>5. CASE Finalize(r) \/ SendTerminate(r) \/ JoinBackground(r) \/ TrainingStepEnd(r)
    <3>1. pc'[r] \in {"closing", "barrier", "join", "train"}
          /\ \A p \in Ranks \ {r} : pc'[p] = pc[p]
      BY <2>5 DEF Finalize, SendTerminate, JoinBackground, TrainingStepEnd
    <3> QED
      BY <3>1
  <2>6. CASE ReadPointer(r) \/ LoadCheckpoint(r) \/ TrainingStep(r) \/ LeaveLoop(r)
    <3>1. pc'[r] \in {"save", "train", "failed", "load", "stepend", "finalize"}
          /\ \A p \in Ranks \ {r} : pc'[p] = pc[p]
      BY <2>6 DEF ReadPointer, LoadCheckpoint, StartTraining, TrainingStep, LeaveLoop, EnterSave, Raise
    <3> QED
      BY <3>1
  <2> QED
    BY <1>1, <2>1, <2>2, <2>3, <2>4, <2>5, <2>6 DEF Main
<1>2. ASSUME NEW r \in Ranks, Worker(r) PROVE UNCHANGED pc
  BY <1>2 DEF Worker, ReceiveTask, WriteShard, SaveLoaderState, WritePointer, ReportResult, PeerLost
<1>3. ASSUME NEW r \in Ranks, LocalWriteFails(r) \/ BackgroundDies(r) PROVE pc[q] = "stage"
  BY <1>3 DEF LocalWriteFails, BackgroundDies, Raise
<1>4. CASE \/ \E k \in Keys, i \in Iters : CommitKey(k, i)
           \/ CollectiveFails \/ UNCHANGED vars
  BY <1>4 DEF CommitKey, CollectiveFails, vars
<1>5. CASE FinishTraining
  BY <1>5 DEF FinishTraining
<1> QED
  BY <1>1, <1>2, <1>3, <1>4, <1>5 DEF Next, Steps, Faults, Terminated

\* In the async mode no worker writes a dataloader file.
LEMMA NoLoaderWorker ==
    ASSUME TypeOK, Lanes, Async, [Next]_vars, ~Restart, NEW q \in Ranks, wk[q].st # "pkl"
    PROVE  wk'[q].st # "pkl"
<1>1. CASE ReceiveTask(q)
  BY <1>1, ReceiveFacts
<1>2. ASSUME NEW k \in Keys, NEW i \in Iters, CommitKey(k, i) PROVE wk'[q].st # "pkl"
  BY <1>2 DEF CommitKey, NextStep, AfterKeys
<1>3. CASE WriteShard(q) \/ SaveLoaderState(q) \/ WritePointer(q)
  BY <1>3 DEF WriteShard, SaveLoaderState, WritePointer, At, TypeOK
<1> QED
  BY <1>1, <1>2, <1>3, WorkerMoves

\* A dataloader file only ever receives the state that goes with the weights.
LEMMA LoaderWritten ==
    ASSUME DInv, LoaderKept, Async, LoaderState, [Next]_vars, ~Restart,
           NEW i \in Iters, NEW r \in Ranks
    PROVE  pkl'[i][r] = pkl[i][r] \/ (pc[r] = "pkl" /\ it[r] = i /\ pkl'[i][r] = mem[r])
<1> USE DEF DInv, IInv
<1>1. \A q \in Ranks : ~SaveLoaderState(q)
  BY DEF SaveLoaderState, LoaderKept
<1>2. ASSUME NEW q \in Ranks, SaveLoaderStateInline(q)
      PROVE  pkl'[i][r] = pkl[i][r] \/ (pc[r] = "pkl" /\ it[r] = i /\ pkl'[i][r] = mem[r])
  <2>1. pc[q] = "pkl" /\ Loaded(q)
    BY <1>2 DEF SaveLoaderStateInline, Loaded
  <2>2. mem[q] = [job |-> mem[q].job, it |-> pos[q]]
    BY <2>1, VersionExt DEF LoaderKept, Progress, TypeOK
  <2>3. pkl' = [pkl EXCEPT ![it[q]][q] = mem[q]]
    BY <1>2, <2>2 DEF SaveLoaderStateInline
  <2>4. pkl \in [Iters -> [Ranks -> LoaderContent]] /\ it[q] \in Iters
    BY DEF TypeOK
  <2>5. CASE q = r /\ it[q] = i
    BY <2>1, <2>3, <2>4, <2>5
  <2>6. CASE q # r \/ it[q] # i
    BY <2>3, <2>4, <2>6
  <2> QED
    BY <2>5, <2>6
<1> QED
  BY <1>1, <1>2, LoaderSteps

\* What a rank reads, and what counts, is settled: rewriting it changes nothing.
LEMMA LoaderSettled ==
    ASSUME DInv, LoaderKept, Async, LoaderState, [Next]_vars, ~Restart,
           NEW i \in Iters, NEW r \in Ranks, Promised(i), pkl[i][r] = shard[i][1][r]
    PROVE  pkl'[i][r] = shard'[i][1][r]
<1> USE DEF DInv
<1>1. Settled(i)
  BY DEF Durable
<1>2. shard'[i] = shard[i]
  BY <1>1, SettledShards
<1>3. CASE pc[r] = "pkl" /\ it[r] = i /\ pkl'[i][r] = mem[r]
  <2>1. mem[r] = shard[i][1][0]
    BY <1>1, <1>3, SettledVersion DEF Loaded
  <2>2. shard[i][1][0] = shard[i][1][r]
    BY <1>1, RankZero DEF Settled, Intact
  <2> QED
    BY <1>2, <1>3, <2>1, <2>2
<1> QED
  BY <1>2, <1>3, LoaderWritten

\* The pointer's checkpoint is the one whose dataloader files match.
LEMMA LoaderPublishedStep ==
    ASSUME DInv, LoaderKept, Async, LoaderState, [Next]_vars, ~Restart,
           NEW r \in Ranks, latest' \in Iters
    PROVE  pkl'[latest'][r] = shard'[latest'][1][r]
<1> USE DEF DInv, IInv
<1>1. CASE UNCHANGED latest
  <2>1. pkl[latest][r] = shard[latest][1][r] /\ Promised(latest)
    BY <1>1 DEF LoaderKept, LoaderStatePublished, Promised
  <2> QED
    BY <1>1, <2>1, LoaderSettled
<1>2. CASE WritePointer(0)
  <2>1. /\ latest' = wk[0].it /\ wk[0].st = "pointer" /\ wk[0].it \in Iters
    BY <1>2, RankZero, PublishFacts
  <2>2. Promised(wk[0].it) /\ pkl[wk[0].it][r] = shard[wk[0].it][1][r]
    BY <2>1, RankZero DEF Promised, LoaderKept
  <2> QED
    BY <2>1, <2>2, LoaderSettled
<1> QED
  BY <1>1, <1>2, PointerSteps, PublishFacts

\* So is the one rank 0 is about to publish.
LEMMA LoaderPublishing ==
    ASSUME DInv, LoaderKept, Async, LoaderState, [Next]_vars, ~Restart,
           NEW r \in Ranks, wk'[0].st = "pointer"
    PROVE  pkl'[wk'[0].it][r] = shard'[wk'[0].it][1][r]
<1> USE DEF DInv, IInv
<1>a. 0 \in Ranks /\ wk[0].it \in Iters
  BY RankZero DEF TypeOK
<1>1. CASE wk'[0] = wk[0]
  <2>1. Promised(wk[0].it) /\ pkl[wk[0].it][r] = shard[wk[0].it][1][r]
    BY <1>1, <1>a DEF Promised, LoaderKept
  <2> QED
    BY <1>1, <1>a, <2>1, LoaderSettled
<1>2. ASSUME NEW k \in Keys, NEW i \in Iters, CommitKey(k, i)
      PROVE  pkl'[wk'[0].it][r] = shard'[wk'[0].it][1][r]
  <2>1. k = NumKeys /\ wk'[0].it = i
    <3>1. wk'[0] = NextStep(0, k, i)
      BY <1>a, <1>2 DEF CommitKey
    <3>2. ~(k < NumKeys)
      BY <3>1 DEF NextStep
    <3>3. k = NumKeys
      BY <3>2, DcpAssumption DEF Keys
    <3> QED
      BY <3>1, <3>2, <3>3 DEF NextStep
  <2>2. /\ Intact(i)' /\ shard'[i][1][0] = Source(0)
    BY <1>2, <2>1, CommitIntact
  <2>3. shard'[i][1][r] = shard'[i][1][0]
    BY <2>2, RankZero DEF Intact
  <2>4. \A q \in Ranks : Busy(q) /\ wk[q].it = i
    BY <1>2 DEF CommitKey, AllWrote, Busy
  <2>5. inflight[r] /\ stage[r].it = i /\ Source(r) = stage[r]
    BY <2>4 DEF Lanes, Lane, AsyncLane, Source
  <2>6. Source(r) = Source(0)
    <3>1. \A q \in Ranks : Source(q) \in Version /\ Source(q).it = i /\ Alive(Source(q))
      BY <2>4, BusyFacts, SourceAlive
    <3> QED
      BY <1>a, <3>1 DEF Lineage
  <2>7. pkl[i][r] = stage[r]
    BY <2>5 DEF LoaderKept
  <2>8. pkl' = pkl
    BY <1>2 DEF CommitKey
  <2> QED
    BY <2>1, <2>2, <2>3, <2>5, <2>6, <2>7, <2>8
<1>3. ~ReceiveTask(0)
  BY <1>a, ReceiveFacts
<1>4. ~WriteShard(0) /\ ~WritePointer(0)
  BY <1>a DEF WriteShard, WritePointer, At, TypeOK
<1>5. ~SaveLoaderState(0)
  BY <1>a DEF SaveLoaderState, LoaderKept
<1> QED
  BY <1>a, <1>1, <1>2, <1>3, <1>4, <1>5, WorkerMoves

\* The dataloader counts what the weights were trained on.
LEMMA PositionStep ==
    ASSUME DInv, LoaderKept, Async, LoaderState, [Next]_vars, ~Restart, NEW r \in Ranks
    PROVE  /\ Unstarted(r)' => pos'[r] = 0
           /\ Loaded(r)' => pos'[r] = it'[r]
<1> USE DEF DInv, IInv
<1>1. ASSUME Unstarted(r)' PROVE pos'[r] = 0
  <2>1. Unstarted(r)
    BY <1>1, StartedStays
  <2>2. ~TrainingStep(r) /\ ~LoadCheckpoint(r)
    BY <1>1, <2>1, TrainingFacts DEF LoadCheckpoint, StartTraining, EnterSave, Raise, Unstarted, TypeOK
  <2> QED
    BY <2>1, <2>2, LoaderSteps DEF LoaderKept
<1>2. ASSUME Loaded(r)' PROVE pos'[r] = it'[r]
  <2>1. CASE TrainingStep(r)
    <3>1. pos'[r] = pos[r] + 1 /\ it'[r] = it[r] + 1 /\ Loaded(r)
      BY <2>1, TrainingFacts DEF TrainingStep, TypeOK
    <3> QED
      BY <3>1 DEF LoaderKept
  <2>2. CASE LoadCheckpoint(r)
    <3>1. pc[r] = "load" /\ latest \in Iters /\ it'[r] = latest
      BY <1>2, <2>2, LoadFacts DEF TypeOK
    <3>2. resume[r] = latest
      BY <3>1 DEF Booting, Unstarted
    <3>3. pos'[r] = LoaderPosition(latest, r)
      BY <1>2, <2>2, <3>2 DEF LoadCheckpoint, Raise, Loaded, TypeOK
    <3>4. pkl[latest][r] = shard[latest][1][r]
      BY <3>1 DEF LoaderKept, LoaderStatePublished
    <3>5. PICK j \in Jobs : shard[latest][1][r] = [job |-> j, it |-> latest]
      BY <3>1, RankZero, PublishedVersion
    <3>6. j # 0
      BY DcpAssumption DEF Jobs
    <3>7. shard[latest][1][r] # NoFile /\ shard[latest][1][r].it = latest
      BY <3>5, <3>6 DEF NoFile
    <3> QED
      BY <3>1, <3>3, <3>4, <3>7 DEF LoaderPosition
  <2>3. CASE ReadPointer(r)
    <3>1. Unstarted(r) /\ it'[r] = 0
      BY <1>2, <2>3, StartAcked
    <3>2. pos'[r] = pos[r]
      BY <2>3 DEF ReadPointer
    <3> QED
      BY <3>1, <3>2 DEF LoaderKept
  <2>4. CASE ~Starts(r)
    <3>1. pos'[r] = pos[r] /\ it'[r] = it[r]
      BY <2>4, LoaderSteps, MemSteps DEF Starts
    <3>2. Loaded(r)
      BY <1>2, <2>4, BecomesLoaded DEF Starts
    <3> QED
      BY <3>1, <3>2 DEF LoaderKept
  <2> QED
    BY <2>1, <2>2, <2>3, <2>4 DEF Starts
<1> QED
  BY <1>1, <1>2

\* The file of a save is written when the save is handed over.
LEMMA HandedOver ==
    ASSUME DInv, LoaderKept, Async, LoaderState, [Next]_vars, ~Restart, NEW r \in Ranks
    PROVE  /\ pc'[r] = "stage" => pkl'[it'[r]][r] = mem'[r]
           /\ inflight'[r] => pkl'[stage'[r].it][r] = stage'[r]
<1> USE DEF DInv, IInv
<1>1. ASSUME pc'[r] = "stage" PROVE pkl'[it'[r]][r] = mem'[r]
  <2>1. CASE pc[r] = "stage"
    <3>1. ~Starts(r)
      BY <2>1 DEF Starts, ReadPointer, LoadCheckpoint, TrainingStep
    <3>2. mem'[r] = mem[r] /\ it'[r] = it[r] /\ it[r] \in Iters
      BY <3>1, MemSteps DEF TypeOK
    <3>3. pkl'[it[r]][r] = pkl[it[r]][r]
      BY <2>1, <3>2, LoaderWritten
    <3> QED
      BY <2>1, <3>2, <3>3 DEF LoaderKept
  <2>2. CASE SaveLoaderStateInline(r)
    <3>1. pc[r] = "pkl" /\ UNCHANGED <<it, mem>>
          /\ pkl' = [pkl EXCEPT ![it[r]][r] = [job |-> mem[r].job, it |-> pos[r]]]
      BY <2>2 DEF SaveLoaderStateInline
    <3>2. pos[r] = mem[r].it
      BY <3>1 DEF LoaderKept, Progress, Loaded
    <3>3. mem[r] = [job |-> mem[r].job, it |-> pos[r]]
      BY <3>2, VersionExt DEF TypeOK
    <3>4. pkl'[it[r]][r] = mem[r]
      BY <3>1, <3>3 DEF TypeOK
    <3> QED
      BY <3>1, <3>4
  <2> QED
    BY <1>1, <2>1, <2>2, HandOverSteps
<1>2. ASSUME inflight'[r] PROVE pkl'[stage'[r].it][r] = stage'[r]
  <2>1. CASE StageAndSubmit(r)
    <3>1. pc[r] = "stage" /\ Loaded(r) /\ stage'[r] = mem[r] /\ UNCHANGED pkl
      BY <2>1, SubmitFacts DEF storageVars
    <3>2. mem[r].it = it[r] /\ pkl[it[r]][r] = mem[r]
      BY <3>1 DEF LoaderKept, Progress
    <3> QED
      BY <3>1, <3>2
  <2>2. CASE ~StageAndSubmit(r)
    <3>1. inflight[r] /\ stage'[r] = stage[r]
      BY <1>2, <2>2, InflightSteps, StageSteps
    <3>2. pc[r] # "pkl" /\ stage[r] \in Version
      BY <3>1 DEF Lanes, Lane, AsyncLane
    <3>3. pkl'[stage[r].it][r] = pkl[stage[r].it][r]
      BY <3>2, Numbers, LoaderWritten
    <3> QED
      BY <3>1, <3>3 DEF LoaderKept
  <2> QED
    BY <2>1, <2>2
<1> QED
  BY <1>1, <1>2

\* A crash tears no dataloader file of the checkpoint the pointer names.
LEMMA LoaderRestart ==
    ASSUME DInv, LoaderKept, Async, LoaderState, Restart, NEW r \in Ranks, latest' \in Iters
    PROVE  pkl'[latest'][r] = shard'[latest'][1][r]
<1> USE DEF DInv, IInv
<1>1. latest' = latest
  BY DcpAssumption DEF Restart, Reboot, TornPointer, Iters
<1>2. shard'[latest] = shard[latest]
  BY <1>1, TearElsewhere DEF Restart, Reboot
<1>3. PICK P \in Tearable({q \in Ranks : OpenPkl(q)}) :
          pkl' = [i \in Iters |-> [q \in Ranks |->
                     IF q \in P /\ PklIter(q) = i THEN Torn ELSE pkl[i][q]]]
  BY DEF Restart, Reboot
<1>4. ~(r \in P /\ PklIter(r) = latest)
  <2> SUFFICES ASSUME r \in P, PklIter(r) = latest PROVE FALSE
    OBVIOUS
  <2>1. ~ObjectStore /\ pc[r] = "pkl" /\ it[r] = latest
    BY <1>3 DEF Tearable, OpenPkl, PklIter, LoaderKept
  <2>2. mem[r] \in ToWrite(r) /\ mem[r].it = latest
    BY <2>1 DEF ToWrite, Saving, Progress, Loaded, TypeOK
  <2>3. Settled(latest)
    BY <1>1 DEF Durable, Promised
  <2> QED
    BY <2>1, <2>2, <2>3 DEF Settled
<1>5. pkl'[latest][r] = pkl[latest][r]
  BY <1>1, <1>3, <1>4
<1> QED
  BY <1>1, <1>2, <1>5 DEF LoaderKept, LoaderStatePublished

LEMMA LoaderKeptStep ==
    ASSUME SafeStorage, DInv, LoaderKept, [Next]_vars
    PROVE  LoaderKept'
<1> SUFFICES ASSUME Async, LoaderState, NEW r \in Ranks
             PROVE  /\ wk'[r].st # "pkl"
                    /\ Unstarted(r)' => pos'[r] = 0
                    /\ Loaded(r)' => pos'[r] = it'[r]
                    /\ pc'[r] = "stage" => pkl'[it'[r]][r] = mem'[r]
                    /\ inflight'[r] => pkl'[stage'[r].it][r] = stage'[r]
                    /\ wk'[0].st = "pointer" => pkl'[wk'[0].it][r] = shard'[wk'[0].it][1][r]
                    /\ latest' \in Iters => pkl'[latest'][r] = shard'[latest'][1][r]
  BY DEF LoaderKept, LoaderStatePublished
<1>1. CASE Restart
  <2>1. /\ wk'[r].st = "idle" /\ wk'[0].st = "idle" /\ pc'[r] = "boot" /\ ~inflight'[r]
        /\ pos'[r] = 0
    BY <1>1, RankZero DEF Restart, Reboot, Everywhere, Idle
  <2> QED
    BY <1>1, <2>1, LoaderRestart DEF Loaded
<1>2. CASE ~Restart
  <2>1. wk'[r].st # "pkl"
    BY <1>2, NoLoaderWorker DEF LoaderKept, DInv, IInv
  <2> QED
    BY <1>2, <2>1, LoaderPublishedStep, LoaderPublishing, PositionStep, HandedOver
<1> QED
  BY <1>1, <1>2

LEMMA LoaderKeptAlways ==
    ASSUME SafeStorage
    PROVE  Spec => [](DInv /\ LoaderKept)
<1>1. Init => DInv /\ LoaderKept
  <2> SUFFICES ASSUME Init PROVE LoaderKept
    BY InitDurable
  <2>1. \A r \in Ranks : /\ pos[r] = 0 /\ pc[r] = "boot" /\ ~inflight[r] /\ wk[r].st = "idle"
    BY DEF Init, Everywhere, Idle
  <2>2. latest \notin Iters
    BY DcpAssumption DEF Init, NoPointer, Iters
  <2> QED
    BY <2>1, <2>2, RankZero DEF LoaderKept, LoaderStatePublished, Loaded
<1>2. (DInv /\ LoaderKept) /\ [Next]_vars => (DInv /\ LoaderKept)'
  BY NextDurable, LoaderKeptStep
<1> QED
  BY <1>1, <1>2, PTL DEF Spec

\* In the async mode the pointer names a checkpoint whose dataloader files, which
\* each rank's main process wrote on its own, are the ones of its weights.
THEOREM LoaderStateIsPublished == SafeStorage /\ Async => (Spec => []LoaderStatePublished)
<1> SUFFICES ASSUME SafeStorage, Async PROVE Spec => []LoaderStatePublished
  OBVIOUS
<1>1. LoaderKept => LoaderStatePublished
  BY DEF LoaderKept, LoaderStatePublished
<1> QED
  BY <1>1, LoaderKeptAlways, PTL

\* However the job crashed and resumed, its ranks train one model, and (async)
\* each has consumed exactly the batches its weights were trained on.
THEOREM ResumeIsConsistent == SafeStorage => (Spec => []ResumeConsistent)
<1> SUFFICES ASSUME SafeStorage PROVE Spec => []ResumeConsistent
  OBVIOUS
<1>1. LoaderKept /\ OneModel => ResumeConsistent
  BY DEF LoaderKept, ResumeConsistent
<1> QED
  BY <1>1, LoaderKeptAlways, RanksTrainOneModel, PTL
-----------------------------------------------------------------------------
(***************************************************************************)
(* Multiples of save_iter                                                  *)
(***************************************************************************)

LEMMA Division ==
    ASSUME NEW n \in Nat
    PROVE  /\ n = SaveIter * (n \div SaveIter) + (n % SaveIter)
           /\ n \div SaveIter \in Int /\ n % SaveIter \in 0 .. SaveIter - 1
<1>1. SaveIter \in Int /\ SaveIter > 0 /\ n \in Int
  BY DcpAssumption
<1>2. n \div SaveIter \in Int /\ n % SaveIter \in 0 .. SaveIter - 1
  BY <1>1
<1> QED
  BY <1>1, <1>2, SMTT(60)

LEMMA Multiple == \A k \in Int : (SaveIter * k) % SaveIter = 0
BY DcpAssumption, SMTT(60)

LEMMA MultiplesApart ==
    \A x, y \in Int : /\ x < y => SaveIter * y - SaveIter * x >= SaveIter
                      /\ y <= x => SaveIter * y <= SaveIter * x
BY DcpAssumption, SMTT(60)

\* In any SaveIter successive iterations a save is due.
LEMMA LastDue ==
    ASSUME NEW n \in Nat
    PROVE  \E j \in 0 .. n : SaveDue(j) /\ n - j < SaveIter
<1> DEFINE j == SaveIter * (n \div SaveIter)
<1>1. j = n - (n % SaveIter) /\ n \div SaveIter \in Int /\ n % SaveIter \in 0 .. SaveIter - 1
  BY Division, DcpAssumption
<1>2. SaveDue(j)
  BY <1>1, Multiple DEF SaveDue
<1>3. n % SaveIter <= n
  BY DcpAssumption
<1> HIDE DEF j
<1>4. j \in 0 .. n /\ n - j < SaveIter
  BY <1>1, <1>3, DcpAssumption
<1> QED
  BY <1>2, <1>4

\* Two of them are SaveIter apart.
LEMMA DueApart ==
    ASSUME NEW a \in Nat, NEW b \in Nat, a < b, SaveDue(a), SaveDue(b)
    PROVE  b - a >= SaveIter
<1>1. a = SaveIter * (a \div SaveIter) /\ b = SaveIter * (b \div SaveIter)
      /\ a \div SaveIter \in Int /\ b \div SaveIter \in Int
  <2>1. a = SaveIter * (a \div SaveIter) + (a % SaveIter) /\ a \div SaveIter \in Int
    BY Division
  <2>2. b = SaveIter * (b \div SaveIter) + (b % SaveIter) /\ b \div SaveIter \in Int
    BY Division
  <2>3. SaveIter * (a \div SaveIter) \in Int /\ SaveIter * (b \div SaveIter) \in Int
    BY DcpAssumption, <2>1, <2>2
  <2> QED
    BY <2>1, <2>2, <2>3 DEF SaveDue
<1> DEFINE x == a \div SaveIter
           y == b \div SaveIter
<1> HIDE DEF x, y
<1>2. a = SaveIter * x /\ b = SaveIter * y /\ x \in Int /\ y \in Int
  BY <1>1 DEF x, y
<1>3. x < y
  BY <1>2, MultiplesApart
<1> QED
  BY <1>2, <1>3, MultiplesApart
-----------------------------------------------------------------------------
(***************************************************************************)
(* How a rank moves                                                        *)
(***************************************************************************)

\* Who moves the main process of a rank.
LEMMA MainMoves ==
    ASSUME TypeOK, [Next]_vars, ~Restart, NEW q \in Ranks
    PROVE  \/ pc'[q] = pc[q]
           \/ Main(q) \/ TrainingStepEnd(q) \/ FinishTraining
           \/ LocalWriteFails(q) /\ pc[q] = "pkl" /\ pc'[q] = "failed"
<1> USE DEF TypeOK, storageVars, mainVars, asyncVars
<1>1. ASSUME NEW r \in Ranks, r # q, Main(r) \/ TrainingStepEnd(r) PROVE pc'[q] = pc[q]
  <2>1. CASE ReadPointer(r) \/ LoadCheckpoint(r) \/ TrainingStep(r) \/ LeaveLoop(r)
    BY <1>1, <2>1 DEF ReadPointer, LoadCheckpoint, StartTraining, TrainingStep, LeaveLoop,
       EnterSave, Raise
  <2>2. CASE BeginSave(r) \/ SaveLoaderStateInline(r) \/ StageAndSubmit(r) \/ FinishSyncSave(r)
    BY <1>1, <2>2 DEF BeginSave, SaveLoaderStateInline, StageAndSubmit, FinishSyncSave, Raise
  <2>3. CASE \/ ReceiveResult(r) \/ ResultTimeout(r) \/ Finalize(r) \/ SendTerminate(r)
             \/ JoinBackground(r) \/ TrainingStepEnd(r)
    BY <1>1, <2>3 DEF ReceiveResult, ResultTimeout, Finalize, SendTerminate, JoinBackground,
       TrainingStepEnd, Raise
  <2> QED
    BY <1>1, <2>1, <2>2, <2>3 DEF Main
<1>2. ASSUME NEW r \in Ranks, Worker(r) PROVE UNCHANGED pc
  BY <1>2 DEF Worker, ReceiveTask, WriteShard, SaveLoaderState, WritePointer, ReportResult, PeerLost
<1>3. ASSUME NEW r \in Ranks, LocalWriteFails(r) \/ BackgroundDies(r)
      PROVE  pc'[q] = pc[q] \/ (LocalWriteFails(q) /\ pc[q] = "pkl" /\ pc'[q] = "failed")
  BY <1>3 DEF LocalWriteFails, BackgroundDies, Raise
<1>4. CASE \/ \E k \in Keys, i \in Iters : CommitKey(k, i)
           \/ CollectiveFails \/ UNCHANGED vars
  BY <1>4 DEF CommitKey, CollectiveFails, vars
<1> HIDE DEF TypeOK, storageVars, mainVars, asyncVars
<1>5. CASE \E r \in Ranks : Main(r) \/ TrainingStepEnd(r)
  BY <1>1, <1>5
<1> QED
  BY <1>2, <1>3, <1>4, <1>5 DEF Next, Steps, Faults, Terminated

\* Where to.
LEMMA PcMoves ==
    ASSUME TypeOK, [Next]_vars, ~Restart, NEW q \in Ranks
    PROVE  \/ pc'[q] = pc[q] \/ pc'[q] = "failed"
           \/ Starts(q) \/ LeaveLoop(q) \/ StageAndSubmit(q) \/ FinishSyncSave(q)
           \/ pc[q] = "stepend" /\ pc'[q] = "train"
           \/ BeginSave(q) /\ pc[q] = "save" /\ pc'[q] \in {"pkl", "stage", "working"}
           \/ SaveLoaderStateInline(q) /\ pc[q] = "pkl" /\ pc'[q] = "stage"
           \/ /\ Finalize(q) /\ pc[q] = "finalize"
              /\ pc'[q] = IF Async /\ wk[q].st # "dead" THEN "closing" ELSE "barrier"
           \/ SendTerminate(q) /\ pc[q] = "closing" /\ ~inflight[q] /\ pc'[q] = "join"
           \/ JoinBackground(q) /\ pc[q] = "join" /\ pc'[q] = "barrier"
           \/ FinishTraining /\ pc[q] = "barrier" /\ pc'[q] = "done"
<1>1. CASE FinishTraining
  BY <1>1 DEF FinishTraining
<1>2. CASE TrainingStepEnd(q)
  BY <1>2 DEF TrainingStepEnd, TypeOK
<1>3. CASE BeginSave(q)
  BY <1>3 DEF BeginSave, AsyncSaveEntry, TypeOK
<1>4. CASE SaveLoaderStateInline(q)
  BY <1>4 DEF SaveLoaderStateInline, TypeOK
<1>5. CASE ReceiveResult(q) \/ ResultTimeout(q)
  BY <1>5 DEF ReceiveResult, ResultTimeout, Raise, TypeOK
<1>6. CASE Finalize(q)
  BY <1>6 DEF Finalize, TypeOK
<1>7. CASE SendTerminate(q) \/ JoinBackground(q)
  BY <1>7 DEF SendTerminate, JoinBackground, NothingPending, TypeOK
<1> QED
  BY <1>1, <1>2, <1>3, <1>4, <1>5, <1>6, <1>7, MainMoves DEF Main, Starts

\* A rank that failed stays where it is.
LEMMA FailedStays ==
    ASSUME TypeOK, [Next]_vars, ~Restart, NEW q \in Ranks, pc[q] = "failed"
    PROVE  pc'[q] = "failed"
<1>1. pc'[q] = pc[q] \/ pc'[q] = "failed"
  BY PcMoves DEF Starts, ReadPointer, LoadCheckpoint, TrainingStep, LeaveLoop, StageAndSubmit,
                 FinishSyncSave
<1> QED
  BY <1>1

\* Where save() returns to is fixed when it is entered.
LEMMA RetSteps ==
    ASSUME TypeOK, [Next]_vars, ~Restart, NEW q \in Ranks
    PROVE  ret'[q] = ret[q] \/ Starts(q) \/ LeaveLoop(q)
<1> USE DEF TypeOK, storageVars, mainVars, asyncVars
<1>1. ASSUME NEW r \in Ranks, r # q, Starts(r) \/ LeaveLoop(r) PROVE ret'[q] = ret[q]
  BY <1>1 DEF Starts, ReadPointer, LoadCheckpoint, StartTraining, TrainingStep, LeaveLoop, EnterSave
<1>2. ASSUME NEW r \in Ranks, Main(r) \/ TrainingStepEnd(r), ~Starts(r), ~LeaveLoop(r)
      PROVE  UNCHANGED ret
  BY <1>2 DEF Main, Starts, TrainingStepEnd, BeginSave, SaveLoaderStateInline, StageAndSubmit,
     FinishSyncSave, ReceiveResult, ResultTimeout, Finalize, SendTerminate, JoinBackground
<1>3. ASSUME NEW r \in Ranks, Worker(r) PROVE UNCHANGED ret
  BY <1>3 DEF Worker, ReceiveTask, WriteShard, SaveLoaderState, WritePointer, ReportResult, PeerLost
<1>4. ASSUME NEW r \in Ranks, LocalWriteFails(r) \/ BackgroundDies(r) PROVE UNCHANGED ret
  BY <1>4 DEF LocalWriteFails, BackgroundDies
<1>5. CASE \/ \E k \in Keys, i \in Iters : CommitKey(k, i)
           \/ CollectiveFails \/ FinishTraining \/ UNCHANGED vars
  BY <1>5 DEF CommitKey, CollectiveFails, FinishTraining, vars
<1> QED
  BY <1>1, <1>2, <1>3, <1>4, <1>5 DEF Next, Steps, Faults, Terminated

\* A rank that leaves train goes on to the next step or leaves the loop.
LEMMA TrainMoves ==
    ASSUME TypeOK, [Next]_vars, ~Restart, NEW q \in Ranks, pc[q] = "train"
    PROVE  pc'[q] = "train" \/ TrainingStep(q) \/ LeaveLoop(q)
<1>1. ~ReadPointer(q) /\ ~LoadCheckpoint(q) /\ ~StageAndSubmit(q) /\ ~FinishSyncSave(q)
  BY DEF ReadPointer, LoadCheckpoint, StageAndSubmit, FinishSyncSave
<1>3. ASSUME Main(q), ~TrainingStep(q), ~LeaveLoop(q) PROVE FALSE
  BY <1>1, <1>3 DEF Main, BeginSave, SaveLoaderStateInline, ReceiveResult, AwaitingResult, ResultTimeout,
     Finalize, SendTerminate, JoinBackground
<1> QED
  BY <1>3, MainMoves DEF TrainingStepEnd, FinishTraining

\* A dead background process stays dead.
LEMMA DeadStays ==
    ASSUME TypeOK, [Next]_vars, ~Restart, NEW q \in Ranks, wk[q].st = "dead", pc[q] # "save"
    PROVE  wk'[q].st = "dead"
<1> USE DEF TypeOK, storageVars, mainVars, asyncVars
<1>1. ASSUME NEW r \in Ranks, Main(r) \/ TrainingStepEnd(r) PROVE wk'[q] = wk[q]
  <2>1. CASE BeginSave(r) \/ FinishSyncSave(r)
    BY <2>1 DEF BeginSave, FinishSyncSave
  <2>2. CASE ~BeginSave(r) /\ ~FinishSyncSave(r)
    BY <1>1, <2>2 DEF Main, ReadPointer, LoadCheckpoint, TrainingStep, LeaveLoop,
       TrainingStepEnd, SaveLoaderStateInline, StageAndSubmit, ReceiveResult, ResultTimeout,
       Finalize, SendTerminate, JoinBackground
  <2> QED
    BY <2>1, <2>2
<1>2. ASSUME NEW r \in Ranks, Worker(r) PROVE wk'[q] = wk[q]
  BY <1>2 DEF Worker, ReceiveTask, WriteShard, SaveLoaderState, WritePointer, ReportResult, PeerLost
<1>3. ASSUME NEW r \in Ranks, LocalWriteFails(r) \/ BackgroundDies(r) PROVE wk'[q].st = "dead"
  BY <1>3 DEF LocalWriteFails, BackgroundDies, At
<1>4. ~CollectiveFails /\ ~\E k \in Keys, i \in Iters : CommitKey(k, i)
  <2>1. ~CollectiveFails
    BY DEF CollectiveFails, AllJoined
  <2>2. ASSUME NEW k \in Keys, NEW i \in Iters, CommitKey(k, i) PROVE FALSE
    <3>1. wk[q] = [st |-> "wrote", key |-> k, it |-> i]
      BY <2>2 DEF CommitKey, AllWrote
    <3> QED
      BY <3>1
  <2> QED
    BY <2>1, <2>2
<1>5. CASE FinishTraining \/ UNCHANGED vars
  BY <1>5 DEF FinishTraining, vars
<1> QED
  BY <1>1, <1>2, <1>3, <1>4, <1>5 DEF Next, Steps, Faults, Terminated
-----------------------------------------------------------------------------
(***************************************************************************)
(* The ranks stay together                                                 *)
(***************************************************************************)

\* The point a job restarts from moves forward too.
LEMMA RestartAtForward ==
    ASSUME DInv, [Next]_vars, ~Restart
    PROVE  RestartAt <= RestartAt' /\ RestartAt \in Iters /\ RestartAt' \in Iters
<1>1. latest \in Pointers /\ latest' \in Pointers /\ latest <= latest'
  BY NextOK, PointerForward DEF DInv, IInv, TypeOK
<1>2. 0 \in Iters
  BY RankZero
<1> QED
  BY <1>1, <1>2, Numbers DEF RestartAt

LEMMA InStepStep ==
    ASSUME DInv, InStep, [Next]_vars, ~Restart
    PROVE  InStep'
<1> USE DEF DInv, IInv
<1>a. \A q \in Ranks : it[q] \in Int /\ it'[q] \in Int
  <2>1. it \in [Ranks -> Iters] /\ it' \in [Ranks -> Iters]
    BY NextOK DEF TypeOK
  <2> QED
    BY <2>1, ItersInt
<1>b. RestartAt <= RestartAt' /\ RestartAt \in Int /\ RestartAt' \in Int
  BY RestartAtForward, ItersInt
<1>c. MaxIter \in Int /\ \A q \in Ranks : it[q] <= MaxIter
  BY DcpAssumption DEF TypeOK, Iters
<1> SUFFICES ASSUME NEW r \in Ranks, NEW q \in Ranks
             PROVE  \/ it'[r] <= RestartAt'
                    \/ it'[r] <= it'[q]
                    \/ it'[r] = it'[q] + 1 /\ pc'[q] = "train"
  BY DEF InStep
<1>1. ASSUME NEW p \in Ranks, TrainingStep(p)
      PROVE  it'[r] <= it'[q] \/ (it'[r] = it'[q] + 1 /\ pc'[q] = "train")
  <2>1. /\ \A o \in Ranks : (pc[o] = "train" /\ it[o] = it[p]) \/ it[o] = it[p] + 1
        /\ it' = [it EXCEPT ![p] = it[p] + 1]
        /\ \A o \in Ranks \ {p} : pc'[o] = pc[o]
    BY <1>1 DEF TrainingStep, EnterSave, TypeOK
  <2>2. \A o \in Ranks : o # p => it'[o] = it[o]
    BY <2>1
  <2>3. it'[p] = it[p] + 1
    BY <2>1 DEF TypeOK
  <2> QED
    BY <1>a, <2>1, <2>2, <2>3
<1>2. ASSUME NEW p \in Ranks, ReadPointer(p) \/ LoadCheckpoint(p) PROVE it'[r] <= RestartAt'
  <2>1. Unstarted(p) /\ UNCHANGED latest
    BY <1>2 DEF ReadPointer, LoadCheckpoint, Unstarted, storageVars
  <2>2. \A o \in Ranks : it[o] <= RestartAt
    BY <2>1 DEF Booting
  <2>3. CASE Loaded(p)'
    <3>1. it'[p] <= RestartAt
      BY <1>2, <2>3, StartAcked, ItersInt, RankZero DEF RestartAt
    <3>2. r # p => it'[r] = it[r]
      <4>1. CASE ReadPointer(p)
        BY <2>3, <4>1, FreshStartFacts
      <4>2. CASE LoadCheckpoint(p)
        <5>1. it' = [it EXCEPT ![p] = latest]
          BY <2>3, <4>2, LoadFacts
        <5> QED
          BY <5>1 DEF TypeOK
      <4> QED
        BY <1>2, <4>1, <4>2
    <3> QED
      BY <1>a, <1>b, <2>2, <3>1, <3>2
  <2>4. CASE ~Loaded(p)'
    BY <1>2, <1>a, <1>b, <2>2, <2>4, NotStartedFacts
  <2> QED
    BY <2>3, <2>4
<1>3. ASSUME NoProgress, \A p \in Ranks : ~Starts(p)
      PROVE  \/ it'[r] <= RestartAt'
             \/ it'[r] <= it'[q]
             \/ it'[r] = it'[q] + 1 /\ pc'[q] = "train"
  <2>1. UNCHANGED it
    BY <1>3 DEF NoProgress
  <2>2. CASE pc[q] = "train" /\ LeaveLoop(q)
    BY <1>a, <1>c, <2>1, <2>2 DEF LeaveLoop
  <2>3. CASE pc[q] = "train" /\ ~LeaveLoop(q)
    <3>1. pc'[q] = "train"
      BY <1>3, <2>3, TrainMoves DEF Starts
    <3> QED
      BY <1>a, <1>b, <2>1, <3>1 DEF InStep
  <2>4. CASE pc[q] # "train"
    BY <1>a, <1>b, <2>1, <2>4 DEF InStep
  <2> QED
    BY <2>2, <2>3, <2>4
<1> QED
  BY <1>1, <1>2, <1>3, ProgressSteps DEF Starts

\* Rank 0 leaves a save by handing it over or by finishing it.
LEMMA SaveLeaves ==
    ASSUME TypeOK, [Next]_vars, ~Restart, NEW q \in Ranks,
           Saving(q) \/ pc[q] = "working", Loaded(q)'
    PROVE  Saving(q)' \/ pc'[q] = "working" \/ StageAndSubmit(q) \/ FinishSyncSave(q)
<1>1. ~Starts(q) /\ ~LeaveLoop(q)
  BY DEF Starts, ReadPointer, LoadCheckpoint, TrainingStep, LeaveLoop, Saving
<1> QED
  BY <1>1, PcMoves DEF Saving, Loaded

\* A job that trains gets no further ahead of the point it restarts from than
\* save_iter iterations per pending save.
LEMMA PacedGap ==
    ASSUME DInv, Paced, pc[0] = "train"
    PROVE  it[0] + 1 - RestartAt <= LossBound
<1> USE DEF DInv, IInv
<1>a. /\ 0 \in Ranks /\ it[0] \in Nat /\ RestartAt \in Nat /\ SaveIter \in Nat /\ SaveIter > 0
      /\ it[0] \in Iters
  <2>1. RestartAt \in Iters /\ it[0] \in Iters /\ 0 \in Ranks
    BY RankZero DEF RestartAt, TypeOK
  <2> QED
    BY <2>1, ItersInt, DcpAssumption
<1>1. PICK j \in 0 .. it[0] : SaveDue(j) /\ it[0] - j < SaveIter
  BY <1>a, LastDue
<1>2. j \in Iters /\ j \in Nat
  BY <1>a, <1>1, DcpAssumption DEF Iters
<1>3. j <= Handed
  <2>1. Loaded(0) /\ ~Saving(0)
    BY DEF Loaded, Saving
  <2>2. j < it[0] \/ j = it[0]
    BY <1>a, <1>1, <1>2
  <2> QED
    BY <1>1, <1>2, <2>1, <2>2 DEF Paced
<1>4. CASE ~inflight[0]
  <2>1. it[0] + 1 - RestartAt <= SaveIter
    BY <1>a, <1>1, <1>2, <1>3, <1>4 DEF Handed
  <2> QED
    BY <1>a, <2>1 DEF LossBound
<1>5. CASE inflight[0]
  <2>1. Async /\ stage[0] \in Version
    BY <1>a, <1>5 DEF Lanes, Lane, AsyncLane, SyncLane
  <2>2. stage[0].it \in Nat /\ j <= stage[0].it /\ stage[0].it <= MaxIter
    BY <1>3, <1>5, <2>1, Numbers, DcpAssumption DEF Handed, Iters
  <2>3. CASE stage[0].it = 0
    <3>1. it[0] + 1 - RestartAt <= SaveIter
      BY <1>a, <1>1, <1>2, <2>2, <2>3
    <3> QED
      BY <1>a, <3>1 DEF LossBound
  <2>4. CASE stage[0].it > 0
    <3>1. PICK i \in 0 .. (stage[0].it - 1) : SaveDue(i) /\ stage[0].it - 1 - i < SaveIter
      <4>1. stage[0].it - 1 \in Nat
        BY <2>2, <2>4
      <4> QED
        BY <4>1, LastDue
    <3>2. i \in Iters /\ i \in Nat /\ i < stage[0].it
      BY <2>2, <3>1, DcpAssumption DEF Iters
    <3>3. i <= RestartAt
      BY <1>5, <3>1, <3>2 DEF Paced
    <3>4. it[0] + 1 - RestartAt <= 2 * SaveIter
      BY <1>a, <1>1, <1>2, <2>2, <3>1, <3>2, <3>3
    <3> QED
      BY <1>a, <2>1, <3>4 DEF LossBound
  <2> QED
    BY <2>2, <2>3, <2>4
<1> QED
  BY <1>4, <1>5

LEMMA BoundedStep ==
    ASSUME DInv, Paced, Bounded, [Next]_vars, ~Restart
    PROVE  Bounded'
<1> USE DEF DInv, IInv
<1>a. \A q \in Ranks : it[q] \in Int /\ it'[q] \in Int
  <2>1. it \in [Ranks -> Iters] /\ it' \in [Ranks -> Iters]
    BY NextOK DEF TypeOK
  <2> QED
    BY <2>1, ItersInt
<1>b. RestartAt <= RestartAt' /\ RestartAt \in Int /\ RestartAt' \in Int
  BY RestartAtForward, ItersInt
<1>c. LossBound \in Int /\ LossBound >= 0 /\ 0 \in Ranks
  BY DcpAssumption, RankZero DEF LossBound
<1> SUFFICES ASSUME NEW r \in Ranks PROVE it'[r] - RestartAt' <= LossBound
  BY DEF Bounded, LossBound
<1>1. CASE it'[r] = it[r]
  BY <1>1, <1>a, <1>b, <1>c DEF Bounded
<1>2. CASE TrainingStep(r)
  <2>1. /\ (pc[0] = "train" /\ it[0] = it[r]) \/ it[0] = it[r] + 1
        /\ it'[r] = it[r] + 1
    BY <1>2, <1>c DEF TrainingStep, TypeOK
  <2>2. CASE it[0] = it[r] + 1
    BY <1>a, <1>b, <1>c, <2>1, <2>2 DEF Bounded
  <2>3. CASE pc[0] = "train" /\ it[0] = it[r]
    BY <1>a, <1>b, <1>c, <2>1, <2>3, PacedGap
  <2> QED
    BY <2>1, <2>2, <2>3
<1>3. CASE ReadPointer(r) \/ LoadCheckpoint(r)
  <2>1. CASE Loaded(r)'
    <3>1. it'[r] <= RestartAt
      BY <1>3, <2>1, StartAcked, ItersInt, RankZero DEF RestartAt
    <3> QED
      BY <1>a, <1>b, <1>c, <3>1
  <2>2. CASE ~Loaded(r)'
    BY <1>1, <1>3, <2>2, NotStartedFacts
  <2> QED
    BY <2>1, <2>2
<1> QED
  BY <1>1, <1>2, <1>3, MemSteps DEF Starts

\* A save stops being pending when its answer is received.
LEMMA PendingSteps ==
    ASSUME TypeOK, [Next]_vars, ~Restart, NEW q \in Ranks, ~StageAndSubmit(q), ~ReceiveResult(q)
    PROVE  inflight'[q] = inflight[q]
<1> USE DEF storageVars, mainVars, asyncVars
<1>1. ASSUME NEW r \in Ranks, Main(r) \/ TrainingStepEnd(r), ~StageAndSubmit(r), ~ReceiveResult(r)
      PROVE  UNCHANGED inflight
  BY <1>1 DEF Main, ReadPointer, LoadCheckpoint, TrainingStep, LeaveLoop,
     TrainingStepEnd, BeginSave, SaveLoaderStateInline, FinishSyncSave, ResultTimeout,
     Finalize, SendTerminate, JoinBackground
<1>2. ASSUME NEW r \in Ranks, r # q, StageAndSubmit(r) \/ ReceiveResult(r)
      PROVE  inflight'[q] = inflight[q]
  BY <1>2 DEF StageAndSubmit, ReceiveResult, TypeOK
<1>3. ASSUME NEW r \in Ranks, Worker(r) PROVE UNCHANGED inflight
  BY <1>3 DEF Worker, ReceiveTask, WriteShard, SaveLoaderState, WritePointer, ReportResult, PeerLost
<1>4. ASSUME NEW r \in Ranks, LocalWriteFails(r) \/ BackgroundDies(r) PROVE UNCHANGED inflight
  BY <1>4 DEF LocalWriteFails, BackgroundDies
<1>5. ASSUME NEW k \in Keys, NEW i \in Iters, CommitKey(k, i) PROVE UNCHANGED inflight
  BY <1>5 DEF CommitKey
<1>6. CASE CollectiveFails \/ FinishTraining \/ UNCHANGED vars
  BY <1>6 DEF CollectiveFails, FinishTraining, vars
<1> QED
  BY <1>1, <1>2, <1>3, <1>4, <1>5, <1>6 DEF Next, Steps, Faults, Terminated
-----------------------------------------------------------------------------
(***************************************************************************)
(* Rank 0 leaves no save out, and the last one is waited for               *)
(***************************************************************************)

\* Where rank 0 would restart moves forward as long as rank 0 lives.
LEMMA HandedForward ==
    ASSUME DInv, [Next]_vars, ~Restart, Loaded(0)'
    PROVE  Handed <= Handed' /\ Handed \in Int /\ Handed' \in Int
<1> USE DEF DInv, IInv
<1>a. 0 \in Ranks /\ TypeOK'
  BY RankZero, NextOK
<1>b. RestartAt <= RestartAt' /\ RestartAt \in Int /\ RestartAt' \in Int
  BY RestartAtForward, ItersInt
<1>c. /\ inflight[0] => Async /\ stage[0] \in Version /\ stage[0].it \in Int
      /\ inflight'[0] => stage'[0] \in Version /\ stage'[0].it \in Int
  <2>1. Lane(0) /\ Lane(0)'
    BY <1>a, NextInv, LanesStep DEF Lanes
  <2> QED
    BY <2>1, Numbers DEF Lane, AsyncLane, SyncLane
<1>1. CASE StageAndSubmit(0)
  <2>1. /\ pc[0] = "stage" /\ ~inflight[0] /\ stage'[0] = mem[0] /\ Loaded(0)
        /\ inflight' = [inflight EXCEPT ![0] = TRUE]
    BY <1>a, <1>1, SubmitFacts
  <2>2. stage'[0].it = it[0] /\ it[0] \in Nat /\ latest <= it[0]
    BY <1>a, <2>1, AtLeastPointer DEF Progress
  <2>3. RestartAt <= it[0]
    BY <2>2 DEF RestartAt
  <2>4. inflight'[0]
    BY <1>a, <2>1 DEF TypeOK
  <2> QED
    BY <1>b, <1>c, <2>1, <2>2, <2>3, <2>4 DEF Handed
<1>2. CASE ReceiveResult(0)
  <2>1. inflight[0] /\ ~inflight'[0] /\ results[0] # <<>> /\ UNCHANGED latest
    BY <1>a, <1>2, AnswerFacts
  <2>2. Head(results[0]).ok
    BY <1>a, <1>2, AnswerFacts DEF Loaded
  <2>3. stage[0].it <= latest /\ stage[0].it \in Iters
    BY <1>a, <1>c, <2>1, <2>2, Numbers DEF Reported
  <2>4. latest \in Iters
    BY <2>3, Numbers DEF TypeOK
  <2> QED
    BY <1>b, <1>c, <2>1, <2>3, <2>4 DEF Handed, RestartAt
<1>3. CASE ~StageAndSubmit(0) /\ ~ReceiveResult(0)
  <2>1. inflight'[0] = inflight[0] /\ stage'[0] = stage[0]
    BY <1>a, <1>3, PendingSteps, StageSteps
  <2> QED
    BY <1>b, <1>c, <2>1 DEF Handed
<1> QED
  BY <1>1, <1>2, <1>3

LEMMA PacedStep ==
    ASSUME DInv, Paced, [Next]_vars, ~Restart
    PROVE  Paced'
<1> USE DEF DInv, IInv
<1>a. 0 \in Ranks /\ it[0] \in Int /\ it'[0] \in Int
  <2>1. it[0] \in Iters /\ it'[0] \in Iters /\ 0 \in Ranks
    BY RankZero, NextOK DEF TypeOK
  <2> QED
    BY <2>1, ItersInt
<1>b. RestartAt <= RestartAt' /\ RestartAt \in Int /\ RestartAt' \in Int
  BY RestartAtForward, ItersInt
<1> SUFFICES ASSUME NEW i \in Iters, SaveDue(i)
             PROVE  /\ Loaded(0)' /\ i < it'[0] => i <= Handed'
                    /\ Loaded(0)' /\ i = it'[0] /\ ~Saving(0)' /\ pc'[0] # "working" => i <= Handed'
                    /\ inflight'[0] /\ i < stage'[0].it => i <= RestartAt'
  BY DEF Paced
<1>c. i \in Int
  BY ItersInt
<1>1. ASSUME Loaded(0)', i <= it'[0],
             i = it'[0] => ~Saving(0)' /\ pc'[0] # "working"
      PROVE  i <= Handed'
  <2>1. Handed <= Handed' /\ Handed \in Int /\ Handed' \in Int
    BY <1>1, HandedForward
  <2>2. CASE TrainingStep(0)
    <3>1. it'[0] = it[0] + 1 /\ pc[0] = "train" /\ (SaveDue(it[0] + 1) => pc'[0] = "save")
      BY <1>a, <2>2 DEF TrainingStep, EnterSave, TypeOK
    <3>2. i <= it[0]
      BY <1>1, <1>a, <1>c, <3>1 DEF Saving
    <3>3. i <= Handed
      BY <1>a, <1>c, <3>1, <3>2 DEF Paced, Loaded, Saving
    <3> QED
      BY <1>c, <2>1, <3>3
  <2>3. CASE ReadPointer(0) \/ LoadCheckpoint(0)
    <3>1. Unstarted(0) /\ it'[0] <= RestartAt
      BY <1>1, <1>a, <2>3, StartAcked, ItersInt, RankZero DEF RestartAt
    <3>2. ~inflight[0]
      BY <1>a, <3>1 DEF Unstarted, Lanes, Lane, AsyncLane, SyncLane
    <3> QED
      BY <1>1, <1>a, <1>b, <1>c, <2>1, <3>1, <3>2 DEF Handed
  <2>4. CASE ~Starts(0)
    <3>1. Loaded(0) /\ it'[0] = it[0]
      BY <1>1, <1>a, <2>4, MemSteps, BecomesLoaded DEF Starts
    <3>2. CASE i < it[0] \/ (~Saving(0) /\ pc[0] # "working")
      <4>1. i <= Handed
        BY <1>1, <1>a, <1>c, <3>1, <3>2 DEF Paced
      <4> QED
        BY <1>c, <2>1, <4>1
    <3>3. CASE i = it[0] /\ (Saving(0) \/ pc[0] = "working")
      <4>1. CASE StageAndSubmit(0)
        <5>1. inflight'[0] /\ stage'[0] = mem[0] /\ mem[0].it = it[0]
          BY <1>a, <3>1, <4>1, SubmitFacts DEF Progress, TypeOK
        <5> QED
          BY <1>a, <3>3, <5>1 DEF Handed
      <4>2. CASE FinishSyncSave(0)
        <5>1. /\ ~Async /\ wk[0].st = "saved" /\ wk[0].it = it[0]
              /\ UNCHANGED <<latest, inflight>>
          BY <1>1, <1>a, <4>2, FinishFacts DEF Loaded
        <5>2. ~inflight[0] /\ it[0] <= latest /\ it[0] \in Iters
          BY <1>a, <5>1 DEF Reported, Lanes, Lane, SyncLane, TypeOK
        <5>3. latest \in Iters
          BY <5>2, Numbers DEF TypeOK
        <5> QED
          BY <3>3, <5>1, <5>2, <5>3 DEF Handed, RestartAt
      <4> QED
        BY <1>1, <1>a, <3>1, <3>3, <4>1, <4>2, SaveLeaves
    <3> QED
      BY <1>1, <1>a, <1>c, <3>1, <3>2, <3>3
  <2> QED
    BY <2>2, <2>3, <2>4 DEF Starts
<1>2. ASSUME inflight'[0], i < stage'[0].it PROVE i <= RestartAt'
  <2>1. CASE StageAndSubmit(0)
    <3>1. ~inflight[0] /\ stage'[0] = mem[0] /\ mem[0].it = it[0] /\ Loaded(0)
      BY <1>a, <2>1, SubmitFacts DEF Progress
    <3>2. i <= Handed
      BY <1>2, <3>1 DEF Paced
    <3> QED
      BY <1>b, <1>c, <3>1, <3>2 DEF Handed
  <2>2. CASE ~StageAndSubmit(0)
    <3>1. inflight[0] /\ stage'[0] = stage[0]
      BY <1>2, <1>a, <2>2, InflightSteps, StageSteps
    <3>2. i <= RestartAt
      BY <1>2, <3>1 DEF Paced
    <3> QED
      BY <1>b, <1>c, <3>2
  <2> QED
    BY <2>1, <2>2
<1>3. Loaded(0)' /\ i < it'[0] => i <= Handed'
  BY <1>1, <1>a, <1>c
<1>4. Loaded(0)' /\ i = it'[0] /\ ~Saving(0)' /\ pc'[0] # "working" => i <= Handed'
  BY <1>1, <1>a, <1>c
<1> QED
  BY <1>2, <1>3, <1>4

LEMMA FinishedStep ==
    ASSUME IInv, Finished, [Next]_vars, ~Restart
    PROVE  Finished'
<1> USE DEF IInv
<1>a. 0 \in Ranks /\ it[0] \in Iters /\ pc \in [Ranks -> MainStates]
  BY RankZero DEF TypeOK
<1>1. CASE Starts(0)
  <2>1. CASE TrainingStep(0)
    <3>1. \/ pc'[0] = "stepend"
          \/ pc'[0] = "save" /\ ret'[0] = "stepend"
      BY <1>a, <2>1 DEF TrainingStep, EnterSave, TypeOK
    <3> QED
      BY <3>1 DEF Finished, Saving
  <2>2. CASE ReadPointer(0) \/ LoadCheckpoint(0)
    <3>1. \/ pc'[0] \in {"load", "failed", "train"}
          \/ pc'[0] = "save" /\ ret'[0] = "train"
      BY <1>a, <2>2 DEF ReadPointer, LoadCheckpoint, StartTraining, EnterSave, Raise, TypeOK
    <3> QED
      BY <3>1 DEF Finished, Saving
  <2> QED
    BY <1>1, <2>1, <2>2 DEF Starts
<1>2. CASE LeaveLoop(0)
  <2>1. it[0] = MaxIter /\ UNCHANGED it
    BY <1>a, <1>2, DcpAssumption DEF LeaveLoop, Iters
  <2> QED
    BY <2>1 DEF Finished
<1>3. CASE ~Starts(0) /\ ~LeaveLoop(0)
  <2>1. it'[0] = it[0] /\ ret'[0] = ret[0]
    BY <1>a, <1>3, MemSteps, RetSteps
  <2>2. CASE StageAndSubmit(0) \/ FinishSyncSave(0)
    <3>1. \/ (Saving(0) \/ pc[0] = "working") /\ pc'[0] = ret[0]
          \/ pc'[0] = "failed"
      BY <1>a, <2>2, SubmitFacts, FinishFacts DEF TypeOK
    <3>2. ret[0] \in {"train", "stepend", "finalize"}
      BY <1>a DEF TypeOK
    <3> QED
      BY <2>1, <3>1, <3>2 DEF Finished, Saving
  <2>3. CASE ~StageAndSubmit(0) /\ ~FinishSyncSave(0)
    <3>1. /\ Saving(0)' \/ pc'[0] = "working" => Saving(0) \/ pc[0] = "working"
          /\ pc'[0] \in {"finalize", "closing", "join", "barrier", "done"} =>
                pc[0] \in {"finalize", "closing", "join", "barrier", "done"}
      BY <1>a, <1>3, <2>3, PcMoves DEF Saving
    <3> QED
      BY <2>1, <3>1 DEF Finished
  <2> QED
    BY <2>2, <2>3
<1> QED
  BY <1>1, <1>2, <1>3

\* The pointer has reached what rank 0 finished saving.
LEMMA PointerAt ==
    ASSUME DInv, Loaded(0), NEW i \in Iters, i = it[0], i <= RestartAt, i > 0
    PROVE  latest = i
<1>1. latest <= it[0] /\ latest \in Int /\ i \in Int /\ 0 \in Ranks
  BY AtLeastPointer, RankZero, ItersInt DEF DInv, IInv
<1>2. latest \in Iters
  BY <1>1 DEF RestartAt
<1> QED
  BY <1>1, <1>2 DEF RestartAt

\* The save that rank 0 leaves with is waited for.
LEMMA DrainedStep ==
    ASSUME DInv, Drained, Paced \/ ~LeaveLoop(0), [Next]_vars, ~Restart
    PROVE  Drained'
<1> USE DEF DInv, IInv
<1>a. /\ 0 \in Ranks /\ it[0] \in Iters /\ it[0] \in Int /\ latest \in Int
      /\ MaxIter \in Nat /\ MaxIter > 0 /\ Lane(0)
  <2>1. 0 \in Ranks /\ it[0] \in Iters /\ latest \in Pointers
    BY RankZero DEF TypeOK
  <2> QED
    <3>1. it[0] \in Int /\ latest \in Int
      BY <2>1, Numbers
    <3>2. MaxIter \in Nat /\ MaxIter > 0
      BY DcpAssumption
    <3> QED
      BY <2>1, <3>1, <3>2 DEF Lanes
<1> DEFINE Target == IF inflight[0] THEN stage[0].it ELSE latest
<1> SUFFICES /\ pc'[0] \in {"finalize", "closing", "join"} => it'[0] = Target'
             /\ pc'[0] \in {"barrier", "done"} => wk'[0].st = "dead" \/ latest' = it'[0]
  BY DEF Drained
<1>1. CASE pc'[0] = pc[0] /\ pc[0] \in {"finalize", "closing", "join"}
  <2>1. ~Starts(0) /\ Loaded(0) /\ it'[0] = it[0] /\ ~StageAndSubmit(0)
    BY <1>a, <1>1, MemSteps DEF Starts, ReadPointer, LoadCheckpoint, TrainingStep, Loaded,
       StageAndSubmit
  <2>2. it[0] = Target
    BY <1>1 DEF Drained
  <2>3. CASE ReceiveResult(0)
    <3>1. /\ inflight[0] /\ ~inflight'[0] /\ results[0] # <<>> /\ Head(results[0]).ok
          /\ UNCHANGED latest
      BY <1>a, <1>1, <2>3, AnswerFacts
    <3>2. it[0] <= latest
      BY <1>a, <2>2, <3>1 DEF Reported
    <3>3. latest = it[0]
      BY <1>a, <2>1, <3>2, AtLeastPointer
    <3> QED
      BY <1>1, <2>1, <3>1, <3>3
  <2>4. CASE ~ReceiveResult(0)
    <3>1. inflight'[0] = inflight[0] /\ stage'[0] = stage[0]
      BY <1>a, <2>1, <2>4, PendingSteps, StageSteps
    <3>2. ~inflight[0] => UNCHANGED latest
      <4>1. WritePointer(0) => Busy(0)
        BY DEF WritePointer, Busy
      <4>2. Busy(0) => inflight[0] \/ pc[0] = "working"
        BY <1>a DEF Lane, AsyncLane, SyncLane
      <4> QED
        BY <1>1, <4>1, <4>2, PointerSteps, PublishFacts
    <3> QED
      BY <1>1, <2>1, <2>2, <3>1, <3>2
  <2> QED
    BY <2>3, <2>4
<1>2. CASE pc'[0] = pc[0] /\ pc[0] \in {"barrier", "done"}
  <2>1. ~Starts(0) /\ Loaded(0) /\ it'[0] = it[0]
    BY <1>a, <1>2, MemSteps DEF Starts, ReadPointer, LoadCheckpoint, TrainingStep, Loaded
  <2>2. CASE wk[0].st = "dead"
    <3>1. wk'[0].st = "dead"
      BY <1>a, <1>2, <2>2, DeadStays
    <3> QED
      BY <1>2, <3>1
  <2>3. CASE latest = it[0]
    <3>1. \/ latest' = latest
          \/ latest' = wk[0].it /\ wk[0].it <= it[0] /\ wk[0].it \in Iters
      <4>1. ASSUME NEW r \in Ranks, WritePointer(r)
            PROVE  latest' = wk[0].it /\ wk[0].it <= it[0] /\ wk[0].it \in Iters
        BY <1>a, <4>1, PublishFacts
      <4>2. UNCHANGED latest \/ \E r \in Ranks : WritePointer(r)
        BY PointerSteps
      <4> QED
        BY <4>1, <4>2
    <3>2. latest <= latest'
      BY PointerForward
    <3>3. latest' = it[0]
      BY <1>a, <2>3, <3>1, <3>2, ItersInt
    <3> QED
      BY <1>2, <2>1, <3>3
  <2> QED
    BY <1>2, <2>2, <2>3 DEF Drained
<1>3. CASE LeaveLoop(0)
  <2>1. /\ pc[0] = "train" /\ it[0] = MaxIter
        /\ UNCHANGED <<it, latest, inflight, stage>>
        /\ pc'[0] = "save" \/ (pc'[0] = "finalize" /\ SaveDue(it[0]))
    BY <1>a, <1>3, DcpAssumption DEF LeaveLoop, EnterSave, TypeOK, Iters, storageVars, asyncVars
  <2>2. ASSUME SaveDue(it[0]) PROVE it[0] = Target
    <3>1. it[0] <= Handed /\ Loaded(0)
      BY <1>a, <1>3, <2>1, <2>2 DEF Paced, Loaded, Saving
    <3>2. CASE inflight[0]
      <4>1. stage[0].it <= it[0] /\ stage[0].it \in Int
        BY <1>a, <3>2, Numbers DEF Lane, AsyncLane, SyncLane
      <4> QED
        BY <1>a, <3>1, <3>2, <4>1 DEF Handed
    <3>3. CASE ~inflight[0]
      BY <1>a, <2>1, <3>1, <3>3, PointerAt DEF Handed
    <3> QED
      BY <3>2, <3>3
  <2> QED
    BY <2>1, <2>2
<1>4. CASE StageAndSubmit(0)
  <2>1. /\ pc'[0] \in {"train", "stepend", "finalize"} /\ it'[0] = it[0]
        /\ stage'[0] = mem[0] /\ Loaded(0)
        /\ inflight' = [inflight EXCEPT ![0] = TRUE]
    BY <1>a, <1>4, SubmitFacts DEF TypeOK
  <2>2. inflight'[0]
    BY <1>a, <2>1 DEF TypeOK
  <2>3. mem[0].it = it[0]
    BY <1>a, <2>1 DEF Progress
  <2> QED
    BY <2>1, <2>2, <2>3
<1>5. CASE FinishSyncSave(0)
  <2>1. CASE pc'[0] = "failed"
    BY <2>1
  <2>2. CASE wk[0].st = "saved"
    <3>1. /\ ~Async /\ wk[0].it = it[0] /\ pc[0] = "working"
          /\ pc'[0] = ret[0] /\ UNCHANGED <<latest, it, inflight, ret>>
      BY <1>a, <1>5, <2>2, FinishFacts
    <3>2. ~inflight[0] /\ it[0] <= latest /\ latest <= it[0]
      BY <1>a, <2>2, <3>1, AtLeastPointer DEF Reported, Lane, SyncLane, Loaded
    <3>3. ret[0] \in {"train", "stepend", "finalize"}
      BY <1>a DEF TypeOK
    <3> QED
      BY <1>a, <3>1, <3>2, <3>3
  <2> QED
    BY <1>a, <1>5, <2>1, <2>2, FinishFacts
<1>6. CASE Finalize(0) /\ pc[0] = "finalize"
  <2>1. /\ pc'[0] = IF Async /\ wk[0].st # "dead" THEN "closing" ELSE "barrier"
        /\ UNCHANGED <<it, latest, inflight, stage, wk>>
    BY <1>a, <1>6 DEF Finalize, TypeOK, storageVars, asyncVars
  <2>2. ~Async => ~inflight[0]
    BY <1>a DEF Lane, SyncLane
  <2> QED
    BY <1>6, <2>1, <2>2 DEF Drained
<1>7. CASE SendTerminate(0) /\ pc[0] = "closing"
  <2>1. pc'[0] = "join" /\ UNCHANGED <<it, latest, inflight, stage, wk>>
    BY <1>a, <1>7 DEF SendTerminate, TypeOK, storageVars
  <2> QED
    BY <1>7, <2>1 DEF Drained
<1>8. CASE JoinBackground(0) /\ pc[0] = "join"
  <2>1. pc'[0] = "barrier" /\ UNCHANGED <<it, latest, inflight, stage, wk>>
    BY <1>a, <1>8 DEF JoinBackground, TypeOK, storageVars, asyncVars
  <2>2. ~inflight[0]
    BY <1>a, <1>8 DEF Lane, AsyncLane, SyncLane
  <2> QED
    BY <1>8, <2>1, <2>2 DEF Drained
<1>9. CASE FinishTraining /\ pc[0] = "barrier" /\ pc'[0] = "done"
  BY <1>9 DEF FinishTraining, Drained, storageVars
<1>10. CASE Starts(0)
  <2>1. pc'[0] \in {"save", "train", "load", "failed", "stepend"}
    BY <1>a, <1>10 DEF Starts, ReadPointer, LoadCheckpoint, StartTraining, TrainingStep,
       EnterSave, Raise, TypeOK
  <2> QED
    BY <2>1
<1> QED
  BY <1>a, <1>1, <1>2, <1>3, <1>4, <1>5, <1>6, <1>7, <1>8, <1>9, <1>10, PcMoves
-----------------------------------------------------------------------------
(***************************************************************************)
(* The progress invariant                                                  *)
(***************************************************************************)

LEMMA NewbornProgress == DInv /\ Newborn => PInv
<1> SUFFICES ASSUME DInv, Newborn PROVE PInv
  OBVIOUS
<1>1. /\ 0 \in Ranks /\ RestartAt \in Nat /\ LossBound \in Nat
      /\ \A r \in Ranks : it[r] = 0 /\ pc[r] = "boot" /\ ~inflight[r]
  BY RankZero, ItersInt, DcpAssumption DEF RestartAt, LossBound, Newborn
<1>2. InStep /\ Bounded
  BY <1>1 DEF InStep, Bounded
<1>3. Paced /\ Finished /\ Drained
  BY <1>1 DEF Paced, Finished, Drained, Loaded, Saving
<1> QED
  BY <1>2, <1>3 DEF PInv

LEMMA InitProgress == Init => PInv
<1>1. Init => Newborn
  BY DEF Init, Newborn, Everywhere, Idle
<1> QED
  BY <1>1, InitDurable, NewbornProgress

LEMMA NextProgress ==
    ASSUME SafeStorage, PInv, [Next]_vars
    PROVE  PInv'
<1> USE DEF PInv
<1>1. DInv'
  BY NextDurable
<1>2. CASE Restart
  <2>1. (DInv /\ Newborn)' => PInv'
    BY NewbornProgress, PTL
  <2> QED
    BY <1>1, <1>2, <2>1, RebootNewborn DEF Restart
<1>3. CASE ~Restart
  BY <1>1, <1>3, InStepStep, PacedStep, FinishedStep, DrainedStep, BoundedStep DEF DInv
<1> QED
  BY <1>2, <1>3

\* The ranks go in step, and rank 0 leaves out no save.
THEOREM ProgressInvariance == SafeStorage => (Spec => []PInv)
<1> SUFFICES ASSUME SafeStorage PROVE Spec => []PInv
  OBVIOUS
<1>1. Init => PInv
  BY InitProgress
<1>2. PInv /\ [Next]_vars => PInv'
  BY NextProgress
<1> QED
  BY <1>1, <1>2, PTL DEF Spec

\* When train() has returned on every rank, its last iteration is the one a new
\* job would resume from, unless rank 0's background process was killed.
THEOREM CompletedIsDurable == SafeStorage => (Spec => []CompletedDurable)
<1> SUFFICES ASSUME SafeStorage PROVE Spec => []CompletedDurable
  OBVIOUS
<1>1. PInv => CompletedDurable
  BY RankZero DEF PInv, Finished, Drained, CompletedDurable
<1> QED
  BY <1>1, ProgressInvariance, PTL

\* A crash at any moment costs a rank at most one save interval of work when
\* saves are synchronous, two when they are not.
THEOREM LossIsBounded == SafeStorage => (Spec => []LossBounded)
<1> SUFFICES ASSUME SafeStorage PROVE Spec => []LossBounded
  OBVIOUS
<1>1. ASSUME PInv, NEW r \in Ranks
      PROVE  it[r] - (IF latest < 0 THEN 0 ELSE latest) <= LossBound
  <2>1. latest \in Pointers
    BY <1>1 DEF PInv, DInv, IInv, TypeOK
  <2>2. (IF latest < 0 THEN 0 ELSE latest) = RestartAt
    BY <2>1, Numbers, ItersInt DEF RestartAt
  <2> QED
    BY <1>1, <2>2 DEF PInv, Bounded
<1>2. PInv => LossBounded
  BY <1>1 DEF LossBounded
<1> QED
  BY <1>2, ProgressInvariance, PTL
-----------------------------------------------------------------------------
(***************************************************************************)
(* The job implements CheckpointStore                                      *)
(***************************************************************************)

\* m is as far as this incarnation has come.
IsReached(m) ==
    /\ RestartAt <= m /\ \A r \in Ranks : it[r] <= m
    /\ m = RestartAt \/ \E r \in Ranks : m = it[r]

LEMMA ReachedIs == TypeOK => \A m \in Int : IsReached(m) => Reached = m
<1> SUFFICES ASSUME TypeOK, NEW m \in Int, IsReached(m) PROVE Reached = m
  OBVIOUS
<1> DEFINE S == {it[r] : r \in Ranks} \cup {IF latest < 0 THEN 0 ELSE latest}
<1>1. \A r \in Ranks : it[r] \in Int
  BY ItersInt DEF TypeOK
<1>2. (IF latest < 0 THEN 0 ELSE latest) = RestartAt /\ RestartAt \in Int
  <2>1. latest \in Pointers
    BY DEF TypeOK
  <2> QED
    BY <2>1, Numbers, ItersInt, RankZero DEF RestartAt
<1>3. m \in S /\ \A n \in S : n <= m /\ n \in Int
  BY <1>1, <1>2 DEF IsReached
<1>4. \A n \in S : (\A o \in S : o <= n) => n = m
  BY <1>3
<1> HIDE DEF S
<1>5. (CHOOSE n \in S : \A o \in S : o <= n) = m
  BY <1>3, <1>4
<1> QED
  BY <1>5 DEF Reached, S

\* Somebody is the furthest: the ranks go in step.
LEMMA ReachedExists ==
    ASSUME TypeOK, InStep
    PROVE  \E m \in Int : IsReached(m)
<1>1. RestartAt \in Int /\ \A r \in Ranks : it[r] \in Int
  BY ItersInt, RankZero DEF TypeOK, RestartAt
<1>2. CASE \A r \in Ranks : it[r] <= RestartAt
  BY <1>1, <1>2 DEF IsReached
<1>3. ASSUME NEW r \in Ranks, it[r] > RestartAt PROVE \E m \in Int : IsReached(m)
  <2>1. CASE \A q \in Ranks : it[q] <= it[r]
    BY <1>1, <1>3, <2>1 DEF IsReached
  <2>2. ASSUME NEW q \in Ranks, it[q] > it[r] PROVE \E m \in Int : IsReached(m)
    <3>1. \A p \in Ranks : it[p] <= it[r] + 1
      BY <1>1, <1>3 DEF InStep
    <3>2. it[q] = it[r] + 1
      BY <1>1, <2>2, <3>1
    <3> QED
      BY <1>1, <1>3, <3>1, <3>2 DEF IsReached
  <2> QED
    BY <1>1, <2>1, <2>2
<1> QED
  BY <1>1, <1>2, <1>3

LEMMA ReachedFacts ==
    ASSUME TypeOK, InStep
    PROVE  Reached \in Int /\ IsReached(Reached)
BY ReachedIs, ReachedExists

LEMMA RestartPointIs ==
    ASSUME TypeOK
    PROVE  Store!RestartPoint = RestartAt
<1>1. latest \in Pointers
  BY DEF TypeOK
<1> QED
  BY <1>1, Numbers, ItersInt DEF RestartAt, Store!RestartPoint

\* A step of a rank is a step of the store when it leads.
LEMMA TrainRefines ==
    ASSUME PInv, PInv', NEW r \in Ranks, TrainingStep(r)
    PROVE  Store!Train \/ UNCHANGED <<latest, Reached>>
<1> USE DEF PInv, DInv, IInv
<1>a. \A q \in Ranks : it[q] \in Int
  BY ItersInt DEF TypeOK
<1>b. Reached \in Int /\ IsReached(Reached)
  BY ReachedFacts
<1>c. (TypeOK => \A m \in Int : IsReached(m) => Reached = m)'
  BY ReachedIs, PTL
<1>1. /\ it[r] < MaxIter /\ UNCHANGED latest
      /\ \A q \in Ranks : it[q] = it[r] \/ it[q] = it[r] + 1
      /\ it' = [it EXCEPT ![r] = it[r] + 1]
  BY DEF TrainingStep, storageVars
<1>2. /\ it'[r] = it[r] + 1 /\ \A q \in Ranks : q = r \/ it'[q] = it[q]
      /\ RestartAt' = RestartAt
  BY <1>1 DEF TypeOK, RestartAt
<1>3. RestartAt <= it[r] /\ RestartAt \in Int
  <2>1. Loaded(r)
    BY DEF TrainingStep, Loaded
  <2>2. latest <= it[r] /\ it[r] \in Nat
    BY <2>1, AtLeastPointer
  <2> QED
    BY <2>2, ItersInt, RankZero DEF RestartAt
<1>4. Reached' = it[r] + 1
  <2>1. PICK m \in Int : m = it[r] + 1
    BY <1>a
  <2>2. IsReached(m)'
    BY <1>a, <1>1, <1>2, <1>3, <2>1 DEF IsReached
  <2> QED
    BY <1>c, <2>1, <2>2
<1>5. Reached = it[r] \/ Reached = it[r] + 1
  BY <1>a, <1>b, <1>1, <1>3 DEF IsReached
<1>6. it[r] + 1 - RestartAt <= LossBound
  BY <1>a, <1>2, <1>3 DEF Bounded
<1>7. CASE Reached = it[r]
  BY <1>1, <1>4, <1>6, <1>7, RestartPointIs DEF Store!Train
<1>8. CASE Reached = it[r] + 1
  BY <1>1, <1>4, <1>8
<1> QED
  BY <1>5, <1>7, <1>8

\* The pointer moves to an iteration this incarnation reached.
LEMMA PublishRefines ==
    ASSUME PInv, PInv', NEW r \in Ranks, WritePointer(r)
    PROVE  Store!Commit \/ UNCHANGED <<latest, Reached>>
<1> USE DEF PInv, DInv, IInv
<1> DEFINE w == wk[0].it
<1>a. RestartAt \in Int /\ latest \in Int /\ 0 \in Ranks /\ \A q \in Ranks : it[q] \in Int
  BY Numbers, ItersInt, RankZero DEF TypeOK, RestartAt
<1>b. Reached \in Int /\ IsReached(Reached)
  BY ReachedFacts
<1>c. (TypeOK => \A m \in Int : IsReached(m) => Reached = m)'
  BY ReachedIs, PTL
<1>1. /\ latest' = w /\ w \in Iters /\ UNCHANGED it /\ latest <= w
      /\ \A q \in Ranks : w <= it[q]
  BY PublishFacts DEF Forward
<1> HIDE DEF w
<1>2. w \in Nat /\ RestartAt' = w /\ RestartAt <= w
  BY <1>1, ItersInt DEF RestartAt
<1>d. PICK m \in Int : m = Reached
  BY <1>b
<1>3. IsReached(m)'
  <2>1. \E q \in Ranks : m = it[q]
    BY <1>a, <1>b, <1>d, <1>1, <1>2 DEF IsReached
  <2>2. w <= m /\ \A q \in Ranks : it[q] <= m
    BY <1>a, <1>b, <1>d, <1>1, <1>2 DEF IsReached
  <2> QED
    BY <1>1, <1>2, <2>1, <2>2 DEF IsReached
<1>4. UNCHANGED Reached
  BY <1>c, <1>d, <1>3
<1>5. CASE latest = w
  BY <1>1, <1>4, <1>5
<1>6. CASE latest < w
  <2>1. w \in 0 .. Reached
    BY <1>a, <1>b, <1>1, <1>2 DEF IsReached
  <2> QED
    BY <1>1, <1>4, <1>6, <2>1 DEF Store!Commit
<1> QED
  BY <1>a, <1>1, <1>2, <1>5, <1>6

\* A rank that loads joins the job where it restarted.
LEMMA StartRefines ==
    ASSUME PInv, PInv', NEW r \in Ranks, ReadPointer(r) \/ LoadCheckpoint(r)
    PROVE  UNCHANGED <<latest, Reached>>
<1> USE DEF PInv, DInv, IInv
<1>1. CASE UNCHANGED <<it, latest>>
  BY <1>1 DEF Reached
<1>2. CASE LoadCheckpoint(r) /\ Loaded(r)'
  <2>1. /\ latest \in Iters /\ UNCHANGED latest
        /\ it' = [it EXCEPT ![r] = latest] /\ \A q \in Ranks : it[q] <= latest
    BY <1>2, LoadFacts
  <2>2. latest \in Int /\ RestartAt = latest /\ RestartAt' = latest
    BY <2>1, ItersInt DEF RestartAt
  <2>3. \A q \in Ranks : it'[q] = latest \/ it'[q] = it[q]
    BY <2>1 DEF TypeOK
  <2>4. IsReached(latest)
    BY <2>1, <2>2 DEF IsReached
  <2>5. (TypeOK => \A m \in Int : IsReached(m) => Reached = m)'
    BY ReachedIs, PTL
  <2>6. PICK m \in Int : m = latest
    BY <2>2
  <2>7. IsReached(m)'
    BY <2>1, <2>2, <2>3, <2>6 DEF IsReached
  <2> QED
    BY <2>1, <2>2, <2>4, <2>5, <2>6, <2>7, ReachedIs
<1>3. CASE ReadPointer(r) /\ Loaded(r)'
  BY <1>1, <1>3, FreshStartFacts
<1>4. CASE ~Loaded(r)'
  BY <1>1, <1>4, NotStartedFacts
<1> QED
  BY <1>2, <1>3, <1>4

\* A crash leaves what the pointer names.
LEMMA RestartRefines ==
    ASSUME ObjectStore, PInv, PInv', Restart
    PROVE  Store!Rollback
<1> USE DEF PInv, DInv, IInv
<1>1. UNCHANGED latest /\ \A r \in Ranks : it'[r] = 0
  BY DEF Restart, Reboot, Everywhere
<1>2. RestartAt \in Nat /\ RestartAt' = RestartAt
  BY <1>1, ItersInt, RankZero DEF RestartAt
<1>3. (TypeOK => \A m \in Int : IsReached(m) => Reached = m)'
  BY ReachedIs, PTL
<1>4. PICK m \in Int : m = RestartAt
  BY <1>2
<1>5. IsReached(m)'
  BY <1>1, <1>2, <1>4 DEF IsReached
<1>6. Reached' = RestartAt
  BY <1>3, <1>4, <1>5
<1> QED
  BY <1>1, <1>6, RestartPointIs DEF Store!Rollback

LEMMA StepRefines ==
    ASSUME ObjectStore, PInv, PInv', [Next]_vars
    PROVE  [Store!StoreNext]_<<latest, Reached>>
<1> USE DEF PInv, DInv, IInv
<1>1. CASE Restart
  BY <1>1, RestartRefines DEF Store!StoreNext
<1>2. ASSUME ~Restart, NEW r \in Ranks, Starts(r)
      PROVE  [Store!StoreNext]_<<latest, Reached>>
  BY <1>2, StartRefines, TrainRefines DEF Starts, Store!StoreNext
<1>3. ASSUME ~Restart, NEW r \in Ranks, WritePointer(r)
      PROVE  [Store!StoreNext]_<<latest, Reached>>
  BY <1>3, PublishRefines DEF Store!StoreNext
<1>4. CASE UNCHANGED <<it, latest>>
  BY <1>4 DEF Reached
<1> QED
  BY <1>1, <1>2, <1>3, <1>4, ProgressSteps, PointerSteps DEF NoProgress

\* The job implements CheckpointStore on an object store: the pointer only moves
\* forward, to an iteration the ranks reached, a crash rolls the job back exactly
\* to it, and no step puts more than LossBound iterations at risk.
THEOREM JobImplementsStore == ObjectStore => (Spec => ImplementsStore)
<1> SUFFICES ASSUME ObjectStore PROVE Spec => ImplementsStore
  OBVIOUS
<1>1. Init => Store!StoreInit
  <2> SUFFICES ASSUME Init PROVE Reached = 0 /\ latest = -1
    BY DEF Store!StoreInit
  <2>1. latest = -1 /\ \A r \in Ranks : it[r] = 0
    BY DEF Init, NoPointer, Everywhere
  <2>2. RestartAt = 0
    BY <2>1 DEF RestartAt, Iters
  <2>3. TypeOK
    BY InitProgress DEF PInv, DInv, IInv
  <2>4. IsReached(0)
    BY <2>1, <2>2 DEF IsReached
  <2> QED
    BY <2>1, <2>3, <2>4, ReachedIs
<1>2. PInv /\ PInv' /\ [Next]_vars => [Store!StoreNext]_(Store!storeVars)
  BY StepRefines DEF Store!storeVars
<1>3. SafeStorage
  BY DEF SafeStorage
<1> QED
  BY <1>1, <1>2, <1>3, ProgressInvariance, PTL DEF Spec, ImplementsStore, Store!StoreSpec
=============================================================================
