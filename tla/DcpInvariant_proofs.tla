------------------------ MODULE DcpInvariant_proofs ------------------------
(***************************************************************************)
(* The state of DcpCheckpoint keeps its types, IInv is an inductive        *)
(* invariant of it, and implies that what latest_checkpoint.txt names is   *)
(* intact, that the staging buffer is stable, and that the ranks train one *)
(* model; for every number of ranks, keys and jobs.                        *)
(***************************************************************************)
EXTENDS DcpInvariant, SequenceTheorems, TLAPS

LEMMA VersionType ==
    /\ Version \subseteq Content
    /\ NoFile \in Content /\ Torn \in Content
    /\ NoFile \in LoaderContent /\ Torn \in LoaderContent
    /\ \A v \in Version : v.job \in Jobs /\ v.it \in Iters
    /\ \A j \in Jobs, i \in Nat : [job |-> j, it |-> i] \in LoaderContent
    /\ \A c \in LoaderContent : c.it \in Nat
BY DEF Version, Content, LoaderContent, NoFile, Torn, Iters, Jobs

LEMMA InitType == Init => TypeInv
<1> USE DcpAssumption
<1> SUFFICES ASSUME Init PROVE TypeInv
  OBVIOUS
<1>1. shard \in [Iters -> [Keys -> [Ranks -> Content]]]
  BY VersionType DEF Init, Everywhere
<1>2. meta \in [Iters -> SUBSET Keys] /\ pkl \in [Iters -> [Ranks -> LoaderContent]]
  BY VersionType DEF Init, Everywhere
<1>3. latest \in Pointers /\ job \in Jobs /\ it \in [Ranks -> Iters]
  BY DEF Init, Everywhere, Pointers, NoPointer, Jobs, Iters
<1>4. mem \in [Ranks -> Version] /\ stage \in [Ranks -> Content]
  BY VersionType DEF Init, Everywhere, Version, Jobs, Iters
<1>5. /\ pc \in [Ranks -> MainStates] /\ ret \in [Ranks -> {"train", "stepend", "finalize"}]
      /\ pos \in [Ranks -> Nat] /\ acked \in [Ranks -> Iters]
      /\ resume \in [Ranks -> Iters \cup {NoPointer}] /\ inflight \in [Ranks -> BOOLEAN]
  BY DEF Init, Everywhere, MainStates, Iters
<1>6. /\ tasks \in [Ranks -> Seq([kind : {"save", "terminate"}, it : Iters])]
      /\ results \in [Ranks -> Seq([it : Iters, ok : BOOLEAN])]
  BY DEF Init, Everywhere
<1>7. wk \in [Ranks -> [st : WorkerStates, key : Keys, it : Iters]]
  BY DEF Init, Everywhere, Idle, WorkerStates, Keys, Iters
<1> QED
  BY <1>1, <1>2, <1>3, <1>4, <1>5, <1>6, <1>7 DEF TypeOK, TypeInv, Init, Everywhere

-----------------------------------------------------------------------------
(***************************************************************************)
(* The actions preserve the types.                                         *)
(***************************************************************************)

LEMMA RankZero == 0 \in Ranks /\ NumKeys \in Keys /\ 1 \in Keys /\ 0 \in Iters /\ 1 \in Jobs
BY DcpAssumption DEF Ranks, Keys, Iters, Jobs

LEMMA AppendType ==
    ASSUME NEW S, NEW s \in Seq(S), NEW x \in S
    PROVE  Append(s, x) \in Seq(S)
BY AppendProperties

LEMMA HeadTailType ==
    ASSUME NEW S, NEW s \in Seq(S), s # <<>>
    PROVE  Head(s) \in S /\ Tail(s) \in Seq(S)
BY HeadTailProperties

\* Starting to train at an iteration of the job keeps the types of what it sets.
LEMMA StartTrainingType ==
    ASSUME TypeOK, NEW r \in Ranks, NEW i \in Iters, StartTraining(r, i)
    PROVE  /\ it' \in [Ranks -> Iters]
           /\ acked' \in [Ranks -> Iters]
           /\ pc' \in [Ranks -> MainStates]
           /\ ret' \in [Ranks -> {"train", "stepend", "finalize"}]
           /\ pc'[r] # "load" /\ \A q \in Ranks \ {r} : pc'[q] = pc[q]
BY DEF StartTraining, EnterSave, TypeOK, MainStates

LEMMA StartType ==
    ASSUME TypeInv, NEW r \in Ranks, ReadPointer(r) \/ LoadCheckpoint(r)
    PROVE  TypeInv'
<1> USE DEF TypeInv
<1>1. CASE ReadPointer(r)
  <2>1. CASE latest = NoPointer /\ StartTraining(r, 0) /\ UNCHANGED <<mem, pos, resume>>
    BY <1>1, <2>1, StartTrainingType, RankZero
       DEF ReadPointer, TypeOK, storageVars, asyncVars
  <2>2. CASE Raise(r) /\ UNCHANGED <<it, mem, pos, resume, ret, acked>>
    BY <1>1, <2>2 DEF ReadPointer, Raise, TypeOK, MainStates, storageVars, asyncVars
  <2>3. CASE /\ latest \in Iters
             /\ resume' = [resume EXCEPT ![r] = latest]
             /\ pc' = [pc EXCEPT ![r] = "load"]
             /\ UNCHANGED <<it, mem, pos, ret, acked>>
    BY <1>1, <2>3 DEF ReadPointer, TypeOK, MainStates, storageVars, asyncVars
  <2> QED
    BY <1>1, <2>1, <2>2, <2>3 DEF ReadPointer
<1>2. CASE LoadCheckpoint(r)
  <2>1. /\ resume[r] \in Iters
        /\ resume' = [resume EXCEPT ![r] = NoPointer]
        /\ UNCHANGED <<storageVars, job, asyncVars, wk>>
    BY <1>2 DEF LoadCheckpoint
  <2>2. CASE Raise(r) /\ UNCHANGED <<it, mem, pos, ret, acked>>
    BY <2>1, <2>2 DEF Raise, TypeOK, MainStates, storageVars, asyncVars
  <2>3. CASE /\ Readable(resume[r])
             /\ mem' = [mem EXCEPT ![r] = shard[resume[r]][1][r]]
             /\ pos' = [pos EXCEPT ![r] = LoaderPosition(resume[r], r)]
             /\ StartTraining(r, shard[resume[r]][NumKeys][0].it)
    <3>1. shard[resume[r]][1][r] \in Version /\ shard[resume[r]][NumKeys][0].it \in Iters
      BY <2>3, RankZero, VersionType DEF Readable
    <3>2. mem' \in [Ranks -> Version]
      BY <2>3, <3>1 DEF TypeOK
    <3>3. LoaderPosition(resume[r], r) \in Nat
      BY <2>1, VersionType DEF LoaderPosition, TypeOK
    <3>4. pos' \in [Ranks -> Nat]
      BY <2>3, <3>3 DEF TypeOK
    <3> QED
      BY <2>1, <2>3, <3>1, <3>2, <3>4, StartTrainingType DEF TypeOK, storageVars, asyncVars
  <2> QED
    BY <1>2, <2>2, <2>3 DEF LoadCheckpoint
<1> QED
  BY <1>1, <1>2

LEMMA MainType ==
    ASSUME TypeInv, NEW r \in Ranks, Main(r) \/ TrainingStepEnd(r)
    PROVE  TypeInv'
<1> DEFINE Task == [kind : {"save", "terminate"}, it : Iters]
           Result == [it : Iters, ok : BOOLEAN]
<1> HIDE DEF Task, Result
<1>a. tasks \in [Ranks -> Seq(Task)] /\ results \in [Ranks -> Seq(Result)]
  BY DEF TypeInv, TypeOK, Task, Result
<1> USE DcpAssumption DEF TypeInv, TypeOK, MainStates, storageVars, asyncVars, EnterSave, Raise
<1>1. CASE ReadPointer(r) \/ LoadCheckpoint(r)
  BY <1>1, StartType
<1>2. CASE TrainingStep(r)
  <2>1. /\ it' \in [Ranks -> Iters] /\ pos' \in [Ranks -> Nat]
        /\ mem' \in [Ranks -> Version]
    BY <1>2 DEF TrainingStep, Iters, Version
  <2>2. /\ pc' \in [Ranks -> MainStates] /\ ret' \in [Ranks -> {"train", "stepend", "finalize"}]
        /\ \A q \in Ranks : pc'[q] = "load" => pc[q] = "load"
    BY ZenonT(60), <1>2 DEF TrainingStep
  <2>3. UNCHANGED <<shard, meta, pkl, latest, job, resume, acked, inflight, stage, tasks,
                    results, wk>>
    BY <1>2 DEF TrainingStep
  <2> QED
    BY <2>1, <2>2, <2>3
<1>3. CASE LeaveLoop(r) \/ TrainingStepEnd(r) \/ Finalize(r) \/ JoinBackground(r) \/ ResultTimeout(r)
  <2>1. /\ pc' \in [Ranks -> MainStates] /\ ret' \in [Ranks -> {"train", "stepend", "finalize"}]
        /\ \A q \in Ranks : pc'[q] = "load" => pc[q] = "load"
    BY ZenonT(60), <1>3 DEF LeaveLoop, TrainingStepEnd, Finalize, JoinBackground, ResultTimeout
  <2>2. UNCHANGED <<shard, meta, pkl, latest, job, it, mem, pos, resume, acked, inflight,
                    stage, tasks, results, wk>>
    BY <1>3 DEF LeaveLoop, TrainingStepEnd, Finalize, JoinBackground, ResultTimeout
  <2> QED
    BY <2>1, <2>2
<1>4. CASE BeginSave(r)
  <2>1. /\ UNCHANGED <<shard, meta, pkl, latest, job, it, mem, pos, resume, ret, acked,
                       inflight, stage, tasks, results>>
        /\ \/ pc' = [pc EXCEPT ![r] = AsyncSaveEntry] /\ UNCHANGED wk
           \/ /\ pc' = [pc EXCEPT ![r] = "working"]
              /\ wk' = [wk EXCEPT ![r] = [st |-> "plan", key |-> 1, it |-> it[r]]]
    BY <1>4 DEF BeginSave
  <2>2. pc' \in [Ranks -> MainStates] /\ \A q \in Ranks : pc'[q] = "load" => pc[q] = "load"
    BY <2>1 DEF AsyncSaveEntry
  <2>3. wk' \in [Ranks -> [st : WorkerStates, key : Keys, it : Iters]]
    <3>1. [st |-> "plan", key |-> 1, it |-> it[r]] \in [st : WorkerStates, key : Keys, it : Iters]
      BY SMTT(30), RankZero DEF WorkerStates
    <3> QED
      BY ZenonT(60), <2>1, <3>1
  <2> QED
    BY <2>1, <2>2, <2>3
<1>5. CASE SaveLoaderStateInline(r)
  <2>1. [job |-> mem[r].job, it |-> pos[r]] \in LoaderContent
    BY VersionType
  <2>2. pkl' \in [Iters -> [Ranks -> LoaderContent]]
    BY <1>5, <2>1 DEF SaveLoaderStateInline
  <2>3. pc' \in [Ranks -> MainStates] /\ \A q \in Ranks : pc'[q] = "load" => pc[q] = "load"
    BY <1>5 DEF SaveLoaderStateInline
  <2>4. UNCHANGED <<shard, meta, latest, job, it, mem, pos, resume, ret, acked,
                    inflight, stage, tasks, results, wk>>
    BY <1>5 DEF SaveLoaderStateInline
  <2> QED
    BY <2>2, <2>3, <2>4
<1>6. CASE StageAndSubmit(r)
  <2>1. SaveTask(it[r]) \in Task
    BY DEF SaveTask, Task
  <2>2. Append(tasks[r], SaveTask(it[r])) \in Seq(Task)
    BY <1>a, <2>1, AppendType
  <2>3. tasks' \in [Ranks -> Seq(Task)]
    BY <1>6, <1>a, <2>2 DEF StageAndSubmit
  <2>4. /\ stage' \in [Ranks -> Content] /\ inflight' \in [Ranks -> BOOLEAN]
        /\ pc' \in [Ranks -> MainStates] /\ \A q \in Ranks : pc'[q] = "load" => pc[q] = "load"
    BY <1>6, VersionType DEF StageAndSubmit
  <2>5. UNCHANGED <<shard, meta, pkl, latest, job, it, mem, pos, resume, ret, acked, results, wk>>
    BY <1>6 DEF StageAndSubmit
  <2> QED
    BY <2>3, <2>4, <2>5 DEF Task
<1>7. CASE FinishSyncSave(r)
  <2>1. /\ pc' \in [Ranks -> MainStates] /\ acked' \in [Ranks -> Iters]
        /\ \A q \in Ranks : pc'[q] = "load" => pc[q] = "load"
    <3>1. CASE acked' = [acked EXCEPT ![r] = it[r]] /\ pc' = [pc EXCEPT ![r] = ret[r]]
      BY <3>1
    <3>2. CASE Raise(r) /\ UNCHANGED acked
      BY <3>2
    <3> QED
      BY <1>7, <3>1, <3>2 DEF FinishSyncSave
  <2>2. wk' \in [Ranks -> [st : WorkerStates, key : Keys, it : Iters]]
    BY <1>7, RankZero DEF FinishSyncSave, Idle, WorkerStates
  <2>3. UNCHANGED <<shard, meta, pkl, latest, job, it, mem, pos, resume, ret, inflight, stage,
                    tasks, results>>
    BY <1>7 DEF FinishSyncSave
  <2> QED
    BY <2>1, <2>2, <2>3
<1>8. CASE ReceiveResult(r)
  <2>1. Head(results[r]) \in Result /\ Tail(results[r]) \in Seq(Result)
    BY <1>8, <1>a, HeadTailType DEF ReceiveResult
  <2>2. results' \in [Ranks -> Seq(Result)]
    BY <1>8, <1>a, <2>1 DEF ReceiveResult
  <2>3. Head(results[r]).it \in Iters
    BY <2>1 DEF Result
  <2> QED
    BY <1>8, <2>2, <2>3 DEF ReceiveResult, Result
<1>9. CASE SendTerminate(r)
  <2>1. Terminate \in Task
    BY RankZero DEF Terminate, Task
  <2>2. Append(tasks[r], Terminate) \in Seq(Task)
    BY <1>a, <2>1, AppendType
  <2>3. tasks' \in [Ranks -> Seq(Task)]
    BY <1>9, <1>a, <2>2 DEF SendTerminate
  <2> QED
    BY <1>9, <2>3 DEF SendTerminate, Task
<1> QED
  BY <1>1, <1>2, <1>3, <1>4, <1>5, <1>6, <1>7, <1>8, <1>9 DEF Main

LEMMA WorkerType ==
    ASSUME TypeInv, NEW r \in Ranks, Worker(r)
    PROVE  TypeInv'
<1> DEFINE Task == [kind : {"save", "terminate"}, it : Iters]
           Result == [it : Iters, ok : BOOLEAN]
<1> HIDE DEF Task, Result
<1>a. tasks \in [Ranks -> Seq(Task)] /\ results \in [Ranks -> Seq(Result)]
  BY DEF TypeInv, TypeOK, Task, Result
<1> USE DcpAssumption DEF TypeInv, TypeOK, storageVars, mainVars, asyncVars
<1>1. CASE ReceiveTask(r)
  <2>1. Head(tasks[r]) \in Task /\ Tail(tasks[r]) \in Seq(Task)
    BY <1>1, <1>a, HeadTailType DEF ReceiveTask
  <2>2. OnTask(Head(tasks[r])) \in [st : WorkerStates, key : Keys, it : Iters]
    BY <2>1, RankZero DEF OnTask, Stopped, WorkerStates, Task
  <2>3. tasks' \in [Ranks -> Seq(Task)]
    BY <1>1, <1>a, <2>1 DEF ReceiveTask
  <2> QED
    BY <1>1, <2>2, <2>3 DEF ReceiveTask, Task
<1>2. CASE WriteShard(r)
  <2>1. Source(r) \in Content
    BY VersionType DEF Source
  <2>2. shard' \in [Iters -> [Keys -> [Ranks -> Content]]]
    BY <1>2, <2>1 DEF WriteShard
  <2> QED
    BY <1>2, <2>2 DEF WriteShard, At, WorkerStates
<1>3. CASE SaveLoaderState(r)
  <2>1. [job |-> mem[r].job, it |-> pos[r]] \in LoaderContent
    BY VersionType
  <2> QED
    BY <1>3, <2>1 DEF SaveLoaderState, At, WorkerStates
<1>4. CASE WritePointer(r)
  BY <1>4 DEF WritePointer, At, WorkerStates, Pointers
<1>5. CASE ReportResult(r)
  <2> DEFINE answer == [it |-> wk[r].it, ok |-> wk[r].st = "saved"]
  <2>1. answer \in Result
    BY DEF Result
  <2> HIDE DEF answer
  <2>2. Append(results[r], answer) \in Seq(Result)
    BY <1>a, <2>1, AppendType
  <2>3. results' \in [Ranks -> Seq(Result)]
    BY <1>5, <1>a, <2>2 DEF ReportResult, answer
  <2> QED
    BY <1>5, <2>3, RankZero DEF ReportResult, Idle, WorkerStates, Result
<1>6. CASE PeerLost(r)
  BY <1>6 DEF PeerLost, At, WorkerStates
<1> QED
  BY <1>1, <1>2, <1>3, <1>4, <1>5, <1>6 DEF Worker

LEMMA CommitKeyType ==
    ASSUME TypeInv, NEW k \in Keys, NEW i \in Iters, CommitKey(k, i)
    PROVE  TypeInv'
<1> USE DcpAssumption DEF TypeInv, TypeOK, storageVars, mainVars, asyncVars
<1>1. \A r \in Ranks : NextStep(r, k, i) \in [st : WorkerStates, key : Keys, it : Iters]
  BY DEF NextStep, AfterKeys, WorkerStates, Keys
<1> QED
  BY <1>1 DEF CommitKey

LEMMA TearShardsType ==
    ASSUME TypeInv, NEW S, TearShards(S)
    PROVE  shard' \in [Iters -> [Keys -> [Ranks -> Content]]]
BY VersionType DEF TearShards, TypeInv, TypeOK

LEMMA RebootType ==
    ASSUME TypeInv, Reboot
    PROVE  TypeInv'
<1>1. shard' \in [Iters -> [Keys -> [Ranks -> Content]]]
  BY TearShardsType DEF Reboot
<1>2. PICK P : pkl' = [i \in Iters |-> [r \in Ranks |->
                         IF r \in P /\ PklIter(r) = i THEN Torn ELSE pkl[i][r]]]
  BY DEF Reboot
<1>3. pkl' \in [Iters -> [Ranks -> LoaderContent]]
  BY <1>2, VersionType DEF TypeInv, TypeOK
<1>4. latest' \in Pointers /\ job' \in Jobs /\ meta' \in [Iters -> SUBSET Keys]
  BY DcpAssumption DEF Reboot, TypeInv, TypeOK, Pointers, Jobs
<1>5. [job |-> job', it |-> 0] \in Version
  BY <1>4, RankZero DEF Version
<1>6. /\ mem' \in [Ranks -> Version] /\ stage' \in [Ranks -> Content]
      /\ it' \in [Ranks -> Iters] /\ acked' \in [Ranks -> Iters]
  BY <1>5, RankZero, VersionType DEF Reboot, Everywhere
<1>7. /\ pc' \in [Ranks -> MainStates] /\ ret' \in [Ranks -> {"train", "stepend", "finalize"}]
      /\ pos' \in [Ranks -> Nat] /\ inflight' \in [Ranks -> BOOLEAN]
      /\ resume' \in [Ranks -> Iters \cup {NoPointer}]
      /\ \A r \in Ranks : pc'[r] # "load"
  BY DEF Reboot, Everywhere, MainStates
<1>8. /\ tasks' \in [Ranks -> Seq([kind : {"save", "terminate"}, it : Iters])]
      /\ results' \in [Ranks -> Seq([it : Iters, ok : BOOLEAN])]
  BY DEF Reboot, Everywhere
<1>9. wk' \in [Ranks -> [st : WorkerStates, key : Keys, it : Iters]]
  BY RankZero DEF Reboot, Everywhere, Idle, WorkerStates
<1> QED
  BY <1>1, <1>3, <1>4, <1>6, <1>7, <1>8, <1>9 DEF TypeInv, TypeOK

LEMMA FaultsType ==
    ASSUME TypeInv, Faults
    PROVE  TypeInv'
<1> USE DEF TypeInv, TypeOK, storageVars, mainVars, asyncVars
<1>1. CASE CollectiveFails
  BY <1>1, TearShardsType DEF CollectiveFails, At, WorkerStates
<1>2. CASE Restart
  BY <1>2, RebootType DEF Restart
<1>3. CASE \E r \in Ranks : LocalWriteFails(r) \/ BackgroundDies(r)
  <2>1. PICK r \in Ranks : LocalWriteFails(r) \/ BackgroundDies(r)
    BY <1>3
  <2>2. CASE LocalWriteFails(r)
    <3>1. /\ UNCHANGED <<shard, meta, pkl, latest, job, it, mem, pos, resume, ret, acked,
                         inflight, stage, tasks, results>>
          /\ \/ wk' = [wk EXCEPT ![r] = At(r, "failed")] /\ UNCHANGED pc
             \/ pc' = [pc EXCEPT ![r] = "failed"] /\ UNCHANGED wk
      BY <2>2 DEF LocalWriteFails, Raise
    <3>2. wk' \in [Ranks -> [st : WorkerStates, key : Keys, it : Iters]]
      <4>1. At(r, "failed") \in [st : WorkerStates, key : Keys, it : Iters]
        BY DEF At, WorkerStates
      <4> QED
        BY <3>1, <4>1
    <3>3. pc' \in [Ranks -> MainStates] /\ \A q \in Ranks : pc'[q] = "load" => pc[q] = "load"
      BY <3>1 DEF MainStates
    <3> QED
      BY <3>1, <3>2, <3>3
  <2>3. CASE BackgroundDies(r)
    BY <2>3 DEF BackgroundDies, At, WorkerStates
  <2> QED
    BY <2>1, <2>2, <2>3
<1> QED
  BY <1>1, <1>2, <1>3 DEF Faults

LEMMA NextType ==
    ASSUME TypeInv, [Next]_vars
    PROVE  TypeInv'
<1>1. CASE Steps
  BY <1>1, MainType, WorkerType, CommitKeyType DEF Steps
<1>2. CASE \E r \in Ranks : TrainingStepEnd(r)
  BY <1>2, MainType
<1>3. CASE FinishTraining
  BY <1>3 DEF FinishTraining, TypeInv, TypeOK, MainStates, storageVars, asyncVars
<1>4. CASE Faults
  BY <1>4, FaultsType
<1>5. CASE UNCHANGED vars
  BY <1>5 DEF vars, TypeInv, TypeOK, storageVars, mainVars, asyncVars
<1> QED
  BY <1>1, <1>2, <1>3, <1>4, <1>5 DEF Next, Terminated

\* The trainer, the checkpointer and the background processes keep every piece
\* of state in its type: no handler ever reads a checkpoint, a queue or a
\* counter outside its range, whatever fails.
THEOREM TypeCorrect == Spec => []TypeOK
<1>1. Init => TypeInv
  BY InitType
<1>2. TypeInv /\ [Next]_vars => TypeInv'
  BY NextType
<1>3. TypeInv => TypeOK
  BY DEF TypeInv
<1> QED
  BY <1>1, <1>2, <1>3, PTL DEF Spec
-----------------------------------------------------------------------------
\* A queue with one message.
LEMMA Singleton ==
    \A x : /\ Append(<<>>, x) = <<x>>
           /\ <<x>> # <<>>
           /\ Len(<<x>>) = 1
           /\ Head(<<x>>) = x
           /\ Tail(<<x>>) = <<>>
OBVIOUS

LEMMA TailOfOne ==
    ASSUME NEW S, NEW s \in Seq(S), Len(s) = 1
    PROVE  Tail(s) = <<>>
<1>1. s # <<>>
  BY EmptySeq
<1>2. Tail(s) \in Seq(S) /\ Len(Tail(s)) = 0
  BY <1>1, HeadTailProperties
<1> QED
  BY <1>2, EmptySeq

LEMMA TaskKinds ==
    \A i, j : /\ SaveTask(i) # Terminate
              /\ SaveTask(i) = SaveTask(j) => i = j
BY DEF SaveTask, Terminate
-----------------------------------------------------------------------------
(***************************************************************************)
(* One save at a time                                                      *)
(***************************************************************************)

\* What the lane of rank q consists of.
LaneState(q) ==
    <<tasks[q], results[q], inflight[q], stage[q], it[q], pc[q], wk[q]>>

LEMMA LaneFrame ==
    ASSUME NEW q \in Ranks, Lane(q), LaneState(q)' = LaneState(q)
    PROVE  Lane(q)'
BY DEF Lane, LaneState, AsyncLane, SyncLane, Busy

LEMMA LaneMain ==
    ASSUME TypeOK, TypeOK', Progress, NEW r \in Ranks, Lane(r), Main(r) \/ TrainingStepEnd(r)
    PROVE  Lane(r)'
<1> USE DcpAssumption
<1> USE DEF Lane, AsyncLane, SyncLane, Busy, TypeOK, storageVars, mainVars, asyncVars
<1>1. CASE ReadPointer(r) \/ LoadCheckpoint(r)
  BY <1>1 DEF ReadPointer, LoadCheckpoint, StartTraining, EnterSave, Raise
<1>2. CASE TrainingStep(r)
  <2>1. /\ UNCHANGED <<inflight, stage, tasks, results, wk>>
        /\ pc[r] = "train" /\ pc'[r] \in {"save", "stepend"}
        /\ it'[r] = it[r] + 1
    BY <1>2 DEF TrainingStep, EnterSave
  <2>2. stage[r] \in Version /\ stage[r].it <= it[r] => stage[r].it <= it[r] + 1
    BY VersionType DEF Iters
  <2> QED
    BY <2>1, <2>2
<1>3. CASE LeaveLoop(r) \/ TrainingStepEnd(r) \/ ResultTimeout(r) \/ Finalize(r) \/ JoinBackground(r)
  BY <1>3 DEF LeaveLoop, EnterSave, TrainingStepEnd, ResultTimeout, AwaitingResult, Raise,
              Finalize, JoinBackground
<1>4. CASE BeginSave(r)
  BY <1>4 DEF BeginSave, AsyncSaveEntry, NothingPending
<1>5. CASE SaveLoaderStateInline(r)
  BY <1>5 DEF SaveLoaderStateInline
<1>6. CASE StageAndSubmit(r)
  <2>1. /\ Async /\ ~inflight[r] /\ tasks[r] = <<>> /\ results[r] = <<>> /\ ~Busy(r)
    BY <1>6 DEF StageAndSubmit
  <2>2. mem[r].it = it[r] /\ mem[r] \in Version
    BY <1>6 DEF StageAndSubmit, Progress, Loaded
  <2>3. /\ stage'[r] = mem[r] /\ inflight'[r] /\ pc'[r] = ret[r]
        /\ tasks'[r] = Append(tasks[r], SaveTask(it[r]))
        /\ UNCHANGED <<results, wk, it>>
    BY <1>6 DEF StageAndSubmit
  <2>4. tasks'[r] = <<SaveTask(stage'[r].it)>>
    BY <2>1, <2>2, <2>3, Singleton
  <2>5. it[r] <= it[r] /\ ret[r] \in {"train", "stepend", "finalize"}
    <3>1. it[r] \in Iters /\ ret[r] \in {"train", "stepend", "finalize"}
      OBVIOUS
    <3> HIDE DEF TypeOK
    <3> QED
      BY <3>1 DEF Iters
  <2>6. ~Busy(r)' /\ results'[r] = <<>> /\ it'[r] = it[r] /\ stage'[r].it = it[r]
    BY <2>1, <2>2, <2>3
  <2> HIDE DEF TypeOK, Busy
  <2> QED
    BY <2>1, <2>2, <2>3, <2>4, <2>5, <2>6
<1>7. CASE FinishSyncSave(r)
  BY ZenonT(60), <1>7 DEF FinishSyncSave, Raise, Idle
<1>8. CASE ReceiveResult(r)
  <2>1. /\ Async /\ inflight[r] /\ results[r] # <<>>
        /\ pc[r] \in {"save", "closing"} /\ pc'[r] \in {"save", "closing", "failed"}
    BY <1>8 DEF ReceiveResult, AwaitingResult, Raise
  <2>2. Len(results[r]) = 1 /\ tasks[r] = <<>> /\ ~Busy(r)
    BY <2>1
  <2>3. results'[r] = Tail(results[r]) /\ ~inflight'[r] /\ UNCHANGED <<tasks, stage, wk, it>>
    BY <1>8 DEF ReceiveResult
  <2>4. results'[r] = <<>>
    BY <2>2, <2>3, TailOfOne
  <2> QED
    BY <2>1, <2>2, <2>3, <2>4
<1>9. CASE SendTerminate(r)
  <2>1. /\ Async /\ ~inflight[r] /\ tasks[r] = <<>> /\ results[r] = <<>> /\ ~Busy(r)
    BY <1>9 DEF SendTerminate, NothingPending
  <2>2. /\ tasks'[r] = Append(tasks[r], Terminate) /\ pc'[r] = "join"
        /\ UNCHANGED <<results, wk, it, inflight, stage>>
    BY <1>9 DEF SendTerminate
  <2>3. tasks'[r] = <<Terminate>>
    BY <2>1, <2>2, Singleton
  <2> QED
    BY <2>1, <2>2, <2>3
<1> QED
  BY <1>1, <1>2, <1>3, <1>4, <1>5, <1>6, <1>7, <1>8, <1>9 DEF Main

LEMMA LaneWorker ==
    ASSUME TypeOK, TypeOK', NEW r \in Ranks, Lane(r), Worker(r)
    PROVE  Lane(r)'
<1> USE DcpAssumption
<1> USE DEF Lane, AsyncLane, SyncLane, Busy, TypeOK, storageVars, mainVars, asyncVars
<1>1. CASE ReceiveTask(r)
  <2>1. /\ Async /\ wk[r].st = "idle" /\ tasks[r] # <<>>
        /\ tasks'[r] = Tail(tasks[r]) /\ wk'[r] = OnTask(Head(tasks[r]))
        /\ UNCHANGED <<pc, it, inflight, stage, results>>
    BY <1>1 DEF ReceiveTask
  <2>2. CASE tasks[r] = <<SaveTask(stage[r].it)>>
    <3>1. tasks'[r] = <<>> /\ Head(tasks[r]) = SaveTask(stage[r].it)
      BY <2>1, <2>2, Singleton
    <3>2. wk'[r].st = "plan" /\ wk'[r].it = stage[r].it
      BY <2>1, <3>1 DEF OnTask, SaveTask
    <3>3. inflight[r] /\ results[r] = <<>>
      BY <2>1, <2>2, TaskKinds, Singleton
    <3> QED
      BY <2>1, <3>1, <3>2, <3>3
  <2>3. CASE tasks[r] = <<Terminate>>
    <3>1. tasks'[r] = <<>> /\ Head(tasks[r]) = Terminate
      BY <2>1, <2>3, Singleton
    <3>2. wk'[r].st = "stopped"
      BY <2>1, <3>1 DEF OnTask, Terminate, Stopped
    <3>3. results[r] = <<>>
      BY <2>1
    <3> QED
      BY <2>1, <3>1, <3>2, <3>3
  <2> QED
    BY <2>1, <2>2, <2>3
<1>2. CASE WriteShard(r) \/ SaveLoaderState(r) \/ WritePointer(r) \/ PeerLost(r)
  <2>1. CASE WriteShard(r)
    BY <2>1 DEF WriteShard, At
  <2>2. CASE SaveLoaderState(r)
    BY <2>2 DEF SaveLoaderState, At
  <2>3. CASE WritePointer(r)
    BY <2>3 DEF WritePointer, At
  <2>4. CASE PeerLost(r)
    BY <2>4 DEF PeerLost, At
  <2> QED
    BY <1>2, <2>1, <2>2, <2>3, <2>4
<1>3. CASE ReportResult(r)
  <2>1. /\ Async /\ Busy(r) /\ ~Busy(r)'
        /\ results'[r] = Append(results[r], [it |-> wk[r].it, ok |-> wk[r].st = "saved"])
        /\ UNCHANGED <<pc, it, inflight, stage, tasks>>
    BY <1>3 DEF ReportResult, Idle
  <2>2. inflight[r] /\ tasks[r] = <<>> /\ results[r] = <<>>
    BY <2>1
  <2>3. Len(results'[r]) = 1
    BY <2>1, <2>2, Singleton
  <2> QED
    BY <2>1, <2>2, <2>3
<1> QED
  BY <1>1, <1>2, <1>3 DEF Worker

LEMMA OtherLanes ==
    ASSUME TypeOK, NEW r \in Ranks,
           \/ Main(r) \/ TrainingStepEnd(r) \/ Worker(r)
           \/ LocalWriteFails(r) \/ BackgroundDies(r),
           NEW q \in Ranks \ {r}
    PROVE  LaneState(q)' = LaneState(q)
<1> USE DEF LaneState, TypeOK, storageVars, mainVars, asyncVars
<1>1. CASE ReadPointer(r) \/ LoadCheckpoint(r) \/ TrainingStep(r) \/ LeaveLoop(r)
  BY <1>1 DEF ReadPointer, LoadCheckpoint, StartTraining, EnterSave, Raise, TrainingStep, LeaveLoop
<1>2. CASE BeginSave(r) \/ SaveLoaderStateInline(r) \/ StageAndSubmit(r) \/ FinishSyncSave(r)
  BY <1>2 DEF BeginSave, SaveLoaderStateInline, StageAndSubmit, FinishSyncSave, Raise
<1>3. CASE ReceiveResult(r) \/ ResultTimeout(r) \/ Finalize(r) \/ SendTerminate(r)
           \/ JoinBackground(r) \/ TrainingStepEnd(r)
  BY <1>3 DEF ReceiveResult, ResultTimeout, Finalize, SendTerminate, JoinBackground,
              TrainingStepEnd, Raise
<1>4. CASE ReceiveTask(r) \/ WriteShard(r) \/ SaveLoaderState(r)
  BY <1>4 DEF ReceiveTask, WriteShard, SaveLoaderState
<1>5. CASE WritePointer(r) \/ ReportResult(r) \/ PeerLost(r)
  BY <1>5 DEF WritePointer, ReportResult, PeerLost
<1>6. CASE LocalWriteFails(r) \/ BackgroundDies(r)
  BY <1>6 DEF LocalWriteFails, BackgroundDies, Raise
<1> QED
  BY <1>1, <1>2, <1>3, <1>4, <1>5, <1>6 DEF Main, Worker

LEMMA LaneFaults ==
    ASSUME TypeOK, NEW r \in Ranks, Lane(r), LocalWriteFails(r) \/ BackgroundDies(r)
    PROVE  Lane(r)'
<1> USE DEF Lane, AsyncLane, SyncLane, Busy, TypeOK, storageVars, mainVars, asyncVars
<1>1. CASE LocalWriteFails(r)
  BY <1>1 DEF LocalWriteFails, At, Raise
<1>2. CASE BackgroundDies(r)
  BY <1>2 DEF BackgroundDies, At
<1> QED
  BY <1>1, <1>2

LEMMA LanesTogether ==
    ASSUME TypeOK, Lanes,
           \/ \E k \in Keys, i \in Iters : CommitKey(k, i)
           \/ CollectiveFails \/ FinishTraining \/ UNCHANGED vars
    PROVE  Lanes'
<1> SUFFICES ASSUME NEW q \in Ranks, Lane(q) PROVE Lane(q)'
  BY DEF Lanes
<1> USE DEF Lane, AsyncLane, SyncLane, Busy, TypeOK, storageVars, mainVars, asyncVars
<1>1. CASE \E k \in Keys, i \in Iters : CommitKey(k, i)
  <2>1. PICK k \in Keys, i \in Iters : CommitKey(k, i)
    BY <1>1
  <2>2. /\ wk[q].st = "wrote" /\ wk[q].it = i
        /\ wk'[q].st \in {"plan", "pkl", "pointer", "saved"} /\ wk'[q].it = i
        /\ UNCHANGED <<pc, it, inflight, stage, tasks, results>>
    BY <2>1 DEF CommitKey, AllWrote, NextStep, AfterKeys
  <2> QED
    BY <2>2
<1>2. CASE CollectiveFails
  <2>1. /\ wk[q].st \in {"plan", "wrote"}
        /\ wk'[q].st = "failed" /\ wk'[q].it = wk[q].it
        /\ UNCHANGED <<pc, it, inflight, stage, tasks, results>>
    BY <1>2 DEF CollectiveFails, AllJoined, At
  <2> QED
    BY <2>1
<1>3. CASE FinishTraining
  BY <1>3 DEF FinishTraining
<1>4. CASE UNCHANGED vars
  BY <1>4 DEF vars
<1> QED
  BY <1>1, <1>2, <1>3, <1>4

\* Every step but a reboot keeps each rank to one save at a time.
LEMMA LanesStep ==
    ASSUME TypeOK, TypeOK', Progress, Lanes, [Next]_vars, ~Restart
    PROVE  Lanes'
<1>1. CASE \E r \in Ranks : \/ Main(r) \/ TrainingStepEnd(r) \/ Worker(r)
                            \/ LocalWriteFails(r) \/ BackgroundDies(r)
  <2>1. PICK r \in Ranks : \/ Main(r) \/ TrainingStepEnd(r) \/ Worker(r)
                           \/ LocalWriteFails(r) \/ BackgroundDies(r)
    BY <1>1
  <2>2. Lane(r)'
    BY <2>1, LaneMain, LaneWorker, LaneFaults DEF Lanes
  <2>3. \A q \in Ranks \ {r} : Lane(q)'
    BY <2>1, OtherLanes, LaneFrame DEF Lanes
  <2> QED
    BY <2>2, <2>3 DEF Lanes
<1> QED
  BY <1>1, LanesTogether DEF Next, Steps, Faults, Terminated
-----------------------------------------------------------------------------
(***************************************************************************)
(* Starting and training                                                   *)
(***************************************************************************)

\* No rank starts or trains in this step.
NoProgress ==
    /\ UNCHANGED <<it, mem, job, resume>>
    /\ \A q \in Ranks : /\ Unstarted(q)' => pc'[q] = pc[q]
                        /\ Loaded(q)' => Loaded(q)

Starts(r) == ReadPointer(r) \/ LoadCheckpoint(r) \/ TrainingStep(r)

\* Only three actions start a rank or train it.
LEMMA ProgressSteps ==
    ASSUME TypeOK, [Next]_vars, ~Restart
    PROVE  NoProgress \/ \E r \in Ranks : Starts(r)
<1> USE DEF NoProgress, Unstarted, Loaded, TypeOK, storageVars, mainVars, asyncVars
<1>1. ASSUME NEW r \in Ranks, Main(r) \/ TrainingStepEnd(r), ~Starts(r) PROVE NoProgress
  <2>1. CASE LeaveLoop(r) \/ TrainingStepEnd(r) \/ Finalize(r) \/ JoinBackground(r)
    BY <2>1 DEF LeaveLoop, EnterSave, TrainingStepEnd, Finalize, JoinBackground
  <2>2. CASE BeginSave(r) \/ SaveLoaderStateInline(r)
    BY <2>2 DEF BeginSave, AsyncSaveEntry, SaveLoaderStateInline
  <2>3. CASE StageAndSubmit(r) \/ FinishSyncSave(r)
    <3>1. /\ UNCHANGED <<it, mem, job, resume>> /\ pc[r] \in {"stage", "working"}
          /\ pc'[r] \in {"train", "stepend", "finalize", "failed"}
          /\ \A q \in Ranks \ {r} : pc'[q] = pc[q]
      BY <2>3 DEF StageAndSubmit, FinishSyncSave, Raise
    <3> QED
      BY <3>1
  <2>4. CASE ReceiveResult(r) \/ ResultTimeout(r) \/ SendTerminate(r)
    <3>1. /\ UNCHANGED <<it, mem, job, resume>> /\ pc[r] \in {"save", "closing"}
          /\ pc'[r] \in {"save", "closing", "join", "failed"}
          /\ pc'[r] \in {"save", "closing"} => pc'[r] = pc[r]
          /\ \A q \in Ranks \ {r} : pc'[q] = pc[q]
      BY <2>4 DEF ReceiveResult, AwaitingResult, ResultTimeout, SendTerminate, Raise
    <3> QED
      BY <3>1
  <2> QED
    BY <1>1, <2>1, <2>2, <2>3, <2>4 DEF Main, Starts
<1>2. ASSUME NEW r \in Ranks, Worker(r) PROVE NoProgress
  BY <1>2 DEF Worker, ReceiveTask, WriteShard, SaveLoaderState, WritePointer, ReportResult, PeerLost
<1>3. ASSUME NEW r \in Ranks, LocalWriteFails(r) \/ BackgroundDies(r) PROVE NoProgress
  BY <1>3 DEF LocalWriteFails, BackgroundDies, Raise
<1>4. ASSUME NEW k \in Keys, NEW i \in Iters, CommitKey(k, i) PROVE NoProgress
  BY <1>4 DEF CommitKey
<1>5. CASE FinishTraining
  BY <1>5 DEF FinishTraining
<1>6. CASE CollectiveFails
  BY <1>6 DEF CollectiveFails
<1>7. CASE UNCHANGED vars
  BY <1>7 DEF vars
<1> QED
  BY <1>1, <1>2, <1>3, <1>4, <1>5, <1>6, <1>7 DEF Next, Steps, Faults, Terminated

\* Only rank 0's last step moves the pointer.
LEMMA PointerSteps ==
    ASSUME [Next]_vars, ~Restart
    PROVE  UNCHANGED latest \/ \E r \in Ranks : WritePointer(r)
<1> USE DEF storageVars, mainVars, asyncVars
<1>1. ASSUME NEW r \in Ranks, Main(r) \/ TrainingStepEnd(r) PROVE UNCHANGED latest
  BY <1>1 DEF Main, ReadPointer, LoadCheckpoint, TrainingStep, LeaveLoop, TrainingStepEnd,
     BeginSave, SaveLoaderStateInline, StageAndSubmit, FinishSyncSave, ReceiveResult,
     ResultTimeout, Finalize, SendTerminate, JoinBackground
<1>2. ASSUME NEW r \in Ranks, Worker(r), ~WritePointer(r) PROVE UNCHANGED latest
  BY <1>2 DEF Worker, ReceiveTask, WriteShard, SaveLoaderState, ReportResult, PeerLost
<1>3. ASSUME NEW r \in Ranks, LocalWriteFails(r) \/ BackgroundDies(r) PROVE UNCHANGED latest
  BY <1>3 DEF LocalWriteFails, BackgroundDies
<1>4. ASSUME NEW k \in Keys, NEW i \in Iters, CommitKey(k, i) PROVE UNCHANGED latest
  BY <1>4 DEF CommitKey
<1>5. CASE FinishTraining \/ CollectiveFails \/ UNCHANGED vars
  BY <1>5 DEF FinishTraining, CollectiveFails, vars
<1> QED
  BY <1>1, <1>2, <1>3, <1>4, <1>5 DEF Next, Steps, Faults, Terminated

\* The pointer moves to an iteration every rank has reached, when all started.
LEMMA PublishFacts ==
    ASSUME TypeOK, Publishing, NEW r \in Ranks, WritePointer(r)
    PROVE  /\ r = 0 /\ wk[0].st = "pointer"
           /\ latest' = wk[0].it /\ wk[0].it \in Iters
           /\ UNCHANGED <<shard, meta, pc, it, mem, job, resume, inflight, stage, tasks>>
           /\ \A q \in Ranks : ~Unstarted(q) /\ wk[0].it <= it[q]
BY DEF WritePointer, Publishing, TypeOK, mainVars, asyncVars

\* Nobody can train while a rank has not started.
LEMMA TrainingFacts ==
    ASSUME TypeOK, Booting, NEW r \in Ranks, TrainingStep(r)
    PROVE  /\ \A q \in Ranks : ~Unstarted(q) /\ ~Unstarted(q)'
           /\ Loaded(r) /\ \A q \in Ranks : Loaded(q)' => Loaded(q)
           /\ \A q \in Ranks : it[q] \in Iters
           /\ it[r] + 1 \in Iters
           /\ it' = [it EXCEPT ![r] = it[r] + 1]
           /\ mem' = [mem EXCEPT ![r] = [job |-> job, it |-> it[r] + 1]]
           /\ UNCHANGED <<shard, meta, latest, job, resume, inflight, stage, tasks, results, wk>>
<1>1. \A q \in Ranks : it[q] \in Iters /\ it[q] \in Int
  BY DcpAssumption DEF TypeOK, Iters
<1>2. /\ pc[r] = "train" /\ it[r] < MaxIter
      /\ \A q \in Ranks : (pc[q] = "train" /\ it[q] = it[r]) \/ it[q] = it[r] + 1
      /\ it' = [it EXCEPT ![r] = it[r] + 1]
      /\ mem' = [mem EXCEPT ![r] = [job |-> job, it |-> it[r] + 1]]
      /\ UNCHANGED <<shard, meta, latest, job, resume, inflight, stage, tasks, results, wk>>
      /\ pc'[r] \in {"save", "stepend"} /\ \A q \in Ranks \ {r} : pc'[q] = pc[q]
  BY DEF TrainingStep, EnterSave, TypeOK, storageVars, asyncVars
<1>3. \A q \in Ranks : ~Unstarted(q)
  <2> SUFFICES ASSUME NEW q \in Ranks, Unstarted(q) PROVE FALSE
    OBVIOUS
  <2>1. it[q] = 0 /\ pc[q] # "train"
    BY DEF Booting, Unstarted
  <2>2. it[r] + 1 = 0
    BY <1>2, <2>1
  <2> QED
    BY <1>1, <2>2, DcpAssumption DEF Iters
<1>4. it[r] + 1 \in Iters
  BY <1>1, <1>2, DcpAssumption DEF Iters
<1> QED
  BY <1>1, <1>2, <1>3, <1>4 DEF Unstarted, Loaded

\* The pointer's own version, when it is published intact.
LEMMA PublishedVersion ==
    ASSUME PublishedIntact, latest \in Iters
    PROVE  \E j \in Jobs : \A k \in Keys, q \in Ranks :
              shard[latest][k][q] = [job |-> j, it |-> latest]
BY DEF PublishedIntact, Intact

\* A rank that has read no pointer starts from scratch.
LEMMA FreshStartFacts ==
    ASSUME TypeOK, Booting, NEW r \in Ranks, ReadPointer(r), Loaded(r)'
    PROVE  /\ latest \notin Iters /\ pc[r] = "boot"
           /\ it' = it /\ it[r] = 0 /\ mem[r] = [job |-> job, it |-> 0]
           /\ \A q \in Ranks : it[q] = 0
           /\ pc'[r] \in {"save", "train"} /\ \A q \in Ranks \ {r} : pc'[q] = pc[q]
           /\ SaveZero \/ pc'[r] = "train"
           /\ UNCHANGED <<shard, meta, latest, job, mem, resume, inflight, stage, tasks, results, wk>>
<1>1. latest = NoPointer /\ StartTraining(r, 0) /\ UNCHANGED <<mem, resume>>
  BY DEF ReadPointer, Loaded, Raise, TypeOK
<1>2. it[r] = 0 /\ mem[r] = [job |-> job, it |-> 0] /\ \A q \in Ranks : it[q] <= RestartAt
  BY DEF ReadPointer, Booting, Unstarted
<1>3. latest \notin Iters
  BY <1>1, DcpAssumption DEF NoPointer, Iters
<1>4. \A q \in Ranks : it[q] = 0
  BY <1>2, <1>3, DcpAssumption DEF RestartAt, TypeOK, Iters
<1>5. /\ it' = it /\ pc'[r] \in {"save", "train"} /\ \A q \in Ranks \ {r} : pc'[q] = pc[q]
      /\ SaveZero \/ pc'[r] = "train"
  BY <1>1, <1>2 DEF StartTraining, EnterSave, TypeOK
<1> QED
  BY <1>1, <1>2, <1>3, <1>4, <1>5 DEF ReadPointer, storageVars, asyncVars

\* A rank that loads ends up at the pointer, with the version it names.
LEMMA LoadFacts ==
    ASSUME TypeOK, Booting, PublishedIntact, NEW r \in Ranks, LoadCheckpoint(r), Loaded(r)'
    PROVE  /\ latest \in Iters /\ pc[r] = "load"
           /\ it' = [it EXCEPT ![r] = latest]
           /\ mem' = [mem EXCEPT ![r] = shard[latest][1][0]]
           /\ shard[latest][1][0] \in Version /\ shard[latest][1][0].it = latest
           /\ \A q \in Ranks : it[q] <= latest
           /\ pc'[r] \in {"save", "train"} /\ \A q \in Ranks \ {r} : pc'[q] = pc[q]
           /\ SaveZero \/ pc'[r] = "train"
           /\ UNCHANGED <<shard, meta, latest, job, inflight, stage, tasks, results, wk>>
           /\ \A q \in Ranks \ {r} : resume'[q] = resume[q]
<1>1. pc[r] = "load" /\ latest \in Iters /\ resume[r] = latest /\ \A q \in Ranks : it[q] <= latest
  BY DEF LoadCheckpoint, Booting, Unstarted, RestartAt
<1>2. /\ mem' = [mem EXCEPT ![r] = shard[latest][1][r]]
      /\ StartTraining(r, shard[latest][NumKeys][0].it)
  BY <1>1 DEF LoadCheckpoint, Loaded, Raise, TypeOK
<1>3. PICK j \in Jobs : \A k \in Keys, q \in Ranks :
                           shard[latest][k][q] = [job |-> j, it |-> latest]
  BY <1>1, PublishedVersion
<1>4. /\ shard[latest][1][r] = shard[latest][1][0]
      /\ shard[latest][1][0] = [job |-> j, it |-> latest]
      /\ shard[latest][NumKeys][0].it = latest
  BY <1>3, RankZero
<1>5. shard[latest][1][0] \in Version /\ shard[latest][1][0].it = latest
  BY <1>1, <1>4 DEF Version
<1>6. /\ it' = [it EXCEPT ![r] = latest]
      /\ pc'[r] \in {"save", "train"} /\ \A q \in Ranks \ {r} : pc'[q] = pc[q]
      /\ SaveZero \/ pc'[r] = "train"
  BY <1>2, <1>4 DEF StartTraining, EnterSave, TypeOK
<1>7. \A q \in Ranks \ {r} : resume'[q] = resume[q]
  BY DEF LoadCheckpoint, TypeOK
<1> QED
  BY <1>1, <1>2, <1>4, <1>5, <1>6, <1>7 DEF LoadCheckpoint, storageVars, asyncVars

\* The other outcomes of the two starting steps: to load, or to fail.
LEMMA NotStartedFacts ==
    ASSUME TypeOK, NEW r \in Ranks, ReadPointer(r) \/ LoadCheckpoint(r), ~Loaded(r)'
    PROVE  /\ UNCHANGED <<shard, meta, latest, job, it, mem, inflight, stage, tasks, results, wk>>
           /\ \A q \in Ranks \ {r} : pc'[q] = pc[q] /\ resume'[q] = resume[q]
           /\ Unstarted(r)
           /\ pc'[r] = "failed" \/ (pc'[r] = "load" /\ latest \in Iters /\ resume'[r] = latest)
<1>1. CASE ReadPointer(r)
  <2>1. ~StartTraining(r, 0)
    BY <1>1 DEF StartTraining, EnterSave, Loaded, ReadPointer, TypeOK
  <2> QED
    BY <1>1, <2>1 DEF ReadPointer, Raise, TypeOK, Unstarted, storageVars, asyncVars
<1>2. CASE LoadCheckpoint(r)
  <2>1. ~StartTraining(r, shard[resume[r]][NumKeys][0].it)
    BY <1>2 DEF StartTraining, EnterSave, Loaded, LoadCheckpoint, TypeOK
  <2> QED
    BY <1>2, <2>1 DEF LoadCheckpoint, Raise, TypeOK, Unstarted, storageVars, asyncVars
<1> QED
  BY <1>1, <1>2

LEMMA BootingStep ==
    ASSUME TypeOK, TypeOK', Booting, Publishing, PublishedIntact, [Next]_vars, ~Restart
    PROVE  Booting'
<1>1. CASE \E r \in Ranks : TrainingStep(r)
  BY <1>1, TrainingFacts DEF Booting
<1>2. ASSUME NEW r \in Ranks, ReadPointer(r) \/ LoadCheckpoint(r) PROVE Booting'
  <2>1. CASE ~Loaded(r)'
    BY <1>2, <2>1, NotStartedFacts DEF Booting, Unstarted, RestartAt
  <2>2. CASE Loaded(r)' /\ ReadPointer(r)
    BY <2>2, FreshStartFacts DEF Booting, Unstarted, RestartAt
  <2>3. CASE Loaded(r)' /\ LoadCheckpoint(r)
    <3>1. /\ latest \in Iters /\ it'[r] = latest /\ UNCHANGED <<latest, job>>
          /\ pc'[r] \in {"save", "train"}
          /\ \A q \in Ranks : it[q] <= latest
          /\ \A q \in Ranks \ {r} : /\ pc'[q] = pc[q] /\ resume'[q] = resume[q]
                                    /\ it'[q] = it[q] /\ mem'[q] = mem[q]
      BY ZenonT(60), <2>3, LoadFacts DEF TypeOK
    <3>2. latest <= latest
      BY <3>1, DcpAssumption DEF Iters
    <3> QED
      BY <3>1, <3>2 DEF Booting, Unstarted, RestartAt
  <2> QED
    BY <1>2, <2>1, <2>2, <2>3
<1>3. CASE NoProgress
  <2>1. CASE UNCHANGED latest
    BY <1>3, <2>1 DEF NoProgress, Booting, Unstarted, RestartAt
  <2>2. CASE \E r \in Ranks : WritePointer(r)
    BY <2>2, PublishFacts DEF Booting, Unstarted
  <2> QED
    BY <2>1, <2>2, PointerSteps
<1> QED
  BY <1>1, <1>2, <1>3, ProgressSteps DEF Starts

LEMMA ProgressStep ==
    ASSUME TypeOK, TypeOK', Booting, Progress, Publishing, PublishedIntact, [Next]_vars, ~Restart
    PROVE  Progress'
<1>1. ASSUME NEW r \in Ranks, TrainingStep(r) PROVE Progress'
  <2>a. /\ it' = [it EXCEPT ![r] = it[r] + 1]
        /\ mem' = [mem EXCEPT ![r] = [job |-> job, it |-> it[r] + 1]]
        /\ UNCHANGED latest
    BY <1>1, TrainingFacts
  <2>b. it \in [Ranks -> Iters] /\ mem \in [Ranks -> Version]
    BY DEF TypeOK
  <2>1. \A q \in Ranks \ {r} : it'[q] = it[q] /\ mem'[q] = mem[q]
    BY <2>a, <2>b
  <2>2. it'[r] = it[r] + 1 /\ mem'[r].it = it[r] + 1 /\ UNCHANGED latest
    BY <2>a, <2>b
  <2>3. latest \in Iters => latest <= it[r] + 1
    BY <1>1, TrainingFacts, DcpAssumption DEF Progress, Iters
  <2>4. \A q \in Ranks : Loaded(q)' => Loaded(q)
    BY <1>1, TrainingFacts
  <2> QED
    BY <2>1, <2>2, <2>3, <2>4 DEF Progress
<1>2. ASSUME NEW r \in Ranks, ReadPointer(r) \/ LoadCheckpoint(r) PROVE Progress'
  <2>1. CASE ~Loaded(r)'
    BY <1>2, <2>1, NotStartedFacts DEF Progress, Loaded
  <2>2. CASE Loaded(r)' /\ ReadPointer(r)
    BY <2>2, FreshStartFacts DEF Progress, Loaded
  <2>3. CASE Loaded(r)' /\ LoadCheckpoint(r)
    <3>1. /\ latest \in Iters /\ it'[r] = latest /\ mem'[r].it = latest /\ UNCHANGED latest
          /\ \A q \in Ranks \ {r} : pc'[q] = pc[q] /\ it'[q] = it[q] /\ mem'[q] = mem[q]
      BY ZenonT(60), <2>3, LoadFacts DEF TypeOK
    <3>2. latest <= latest
      BY <3>1, DcpAssumption DEF Iters
    <3> QED
      BY <3>1, <3>2 DEF Progress, Loaded
  <2> QED
    BY <1>2, <2>1, <2>2, <2>3
<1>3. CASE NoProgress
  <2>1. CASE UNCHANGED latest
    BY <1>3, <2>1 DEF NoProgress, Progress
  <2>2. CASE \E r \in Ranks : WritePointer(r)
    BY <2>2, PublishFacts DEF Progress, Loaded
  <2> QED
    BY <2>1, <2>2, PointerSteps
<1> QED
  BY <1>1, <1>2, <1>3, ProgressSteps DEF Starts
-----------------------------------------------------------------------------
(***************************************************************************)
(* What a save has written                                                 *)
(***************************************************************************)

\* Shards are written by joined workers, metadata by the coordinator.
LEMMA StorageSteps ==
    ASSUME [Next]_vars, ~Restart
    PROVE  /\ UNCHANGED shard \/ CollectiveFails \/ \E r \in Ranks : WriteShard(r)
           /\ UNCHANGED meta \/ \E k \in Keys, i \in Iters : CommitKey(k, i)
           /\ UNCHANGED stage \/ \E r \in Ranks : StageAndSubmit(r)
<1> USE DEF storageVars, mainVars, asyncVars
<1>1. ASSUME NEW r \in Ranks, Main(r) \/ TrainingStepEnd(r)
      PROVE  UNCHANGED <<shard, meta>> /\ (UNCHANGED stage \/ StageAndSubmit(r))
  BY <1>1 DEF Main, ReadPointer, LoadCheckpoint, TrainingStep, LeaveLoop, TrainingStepEnd,
     BeginSave, SaveLoaderStateInline, StageAndSubmit, FinishSyncSave, ReceiveResult,
     ResultTimeout, Finalize, SendTerminate, JoinBackground
<1>2. ASSUME NEW r \in Ranks, Worker(r)
      PROVE  UNCHANGED <<meta, stage>> /\ (UNCHANGED shard \/ WriteShard(r))
  BY <1>2 DEF Worker, ReceiveTask, WriteShard, SaveLoaderState, WritePointer, ReportResult, PeerLost
<1>3. ASSUME NEW r \in Ranks, LocalWriteFails(r) \/ BackgroundDies(r)
      PROVE  UNCHANGED <<shard, meta, stage>>
  BY <1>3 DEF LocalWriteFails, BackgroundDies
<1>4. ASSUME NEW k \in Keys, NEW i \in Iters, CommitKey(k, i) PROVE UNCHANGED <<shard, stage>>
  BY <1>4 DEF CommitKey
<1>5. ASSUME CollectiveFails PROVE UNCHANGED <<meta, stage>>
  BY <1>5 DEF CollectiveFails
<1>6. CASE FinishTraining \/ UNCHANGED vars
  BY <1>6 DEF FinishTraining, vars
<1> QED
  BY <1>1, <1>2, <1>3, <1>4, <1>5, <1>6 DEF Next, Steps, Faults, Terminated

\* Only a submission makes a save pending.
LEMMA InflightSteps ==
    ASSUME TypeOK, [Next]_vars, ~Restart, NEW q \in Ranks, ~StageAndSubmit(q)
    PROVE  inflight'[q] => inflight[q]
<1> USE DEF storageVars, mainVars, asyncVars
<1>1. ASSUME NEW r \in Ranks, Main(r) \/ TrainingStepEnd(r), ~StageAndSubmit(r)
      PROVE  inflight'[q] => inflight[q]
  <2>1. CASE ReceiveResult(r)
    BY <2>1 DEF ReceiveResult, TypeOK
  <2>2. CASE ~ReceiveResult(r)
    BY <1>1, <2>2 DEF Main, ReadPointer, LoadCheckpoint, TrainingStep, LeaveLoop,
       TrainingStepEnd, BeginSave, SaveLoaderStateInline, FinishSyncSave, ResultTimeout,
       Finalize, SendTerminate, JoinBackground
  <2> QED
    BY <2>1, <2>2
<1>2. ASSUME NEW r \in Ranks, StageAndSubmit(r) PROVE inflight'[q] => inflight[q]
  BY <1>2 DEF StageAndSubmit, TypeOK
<1>3. ASSUME NEW r \in Ranks, Worker(r) PROVE UNCHANGED inflight
  BY <1>3 DEF Worker, ReceiveTask, WriteShard, SaveLoaderState, WritePointer, ReportResult, PeerLost
<1>4. ASSUME NEW r \in Ranks, LocalWriteFails(r) \/ BackgroundDies(r) PROVE UNCHANGED inflight
  BY <1>4 DEF LocalWriteFails, BackgroundDies
<1>5. ASSUME NEW k \in Keys, NEW i \in Iters, CommitKey(k, i) PROVE UNCHANGED inflight
  BY <1>5 DEF CommitKey
<1>6. CASE CollectiveFails \/ FinishTraining \/ UNCHANGED vars
  BY <1>6 DEF CollectiveFails, FinishTraining, vars
<1> QED
  BY <1>1, <1>2, <1>3, <1>4, <1>5, <1>6 DEF Next, Steps, Faults, Terminated

\* Who moves the worker of a rank.
LEMMA WorkerMoves ==
    ASSUME TypeOK, [Next]_vars, ~Restart, NEW q \in Ranks
    PROVE  \/ wk'[q] = wk[q]
           \/ wk'[q].st \in {"idle", "failed", "dead", "stopped"}
           \/ ReceiveTask(q) \/ (~Async /\ BeginSave(q))
           \/ WriteShard(q) \/ SaveLoaderState(q) \/ WritePointer(q)
           \/ \E k \in Keys, i \in Iters : CommitKey(k, i)
<1> USE DEF TypeOK, storageVars, mainVars, asyncVars
<1> DEFINE Moved == \/ wk'[q] = wk[q]
                    \/ wk'[q].st \in {"idle", "failed", "dead", "stopped"}
<1>1. ASSUME NEW r \in Ranks, Main(r) \/ TrainingStepEnd(r)
      PROVE  Moved \/ (~Async /\ BeginSave(q))
  <2>1. CASE BeginSave(r)
    BY <2>1 DEF BeginSave
  <2>2. CASE FinishSyncSave(r)
    BY <2>2 DEF FinishSyncSave, Idle
  <2>3. CASE ~BeginSave(r) /\ ~FinishSyncSave(r)
    BY <1>1, <2>3 DEF Main, ReadPointer, LoadCheckpoint, TrainingStep, LeaveLoop,
       TrainingStepEnd, SaveLoaderStateInline, StageAndSubmit, ReceiveResult, ResultTimeout,
       Finalize, SendTerminate, JoinBackground
  <2> QED
    BY <2>1, <2>2, <2>3
<1>2. ASSUME NEW r \in Ranks, Worker(r), r # q PROVE Moved
  BY <1>2 DEF Worker, ReceiveTask, WriteShard, SaveLoaderState, WritePointer, ReportResult, PeerLost
<1>3. ASSUME Worker(q), ~ReceiveTask(q), ~WriteShard(q), ~SaveLoaderState(q), ~WritePointer(q)
      PROVE  Moved
  BY <1>3 DEF Worker, ReportResult, PeerLost, At, Idle
<1>4. ASSUME NEW r \in Ranks, LocalWriteFails(r) \/ BackgroundDies(r) PROVE Moved
  BY <1>4 DEF LocalWriteFails, BackgroundDies, At
<1>5. CASE CollectiveFails
  BY <1>5 DEF CollectiveFails, At
<1>6. CASE FinishTraining \/ UNCHANGED vars
  BY <1>6 DEF FinishTraining, vars
<1> QED
  BY <1>1, <1>2, <1>3, <1>4, <1>5, <1>6 DEF Next, Steps, Faults, Terminated

\* How it moves.
LEMMA WorkerSteps ==
    ASSUME TypeOK, [Next]_vars, ~Restart, NEW q \in Ranks
    PROVE  \/ wk'[q] = wk[q]
           \/ wk'[q].st \in {"idle", "saved", "failed", "dead", "stopped"}
           \/ wk'[q].st = "plan" /\ wk'[q].key = 1
           \/ WriteShard(q) \/ SaveLoaderState(q)
           \/ \E k \in Keys, i \in Iters : CommitKey(k, i)
<1>1. CASE ReceiveTask(q)
  BY <1>1 DEF ReceiveTask, OnTask, Stopped, TypeOK
<1>2. CASE ~Async /\ BeginSave(q)
  BY <1>2 DEF BeginSave, TypeOK
<1>3. CASE WritePointer(q)
  BY <1>3 DEF WritePointer, At, TypeOK
<1> QED
  BY <1>1, <1>2, <1>3, WorkerMoves

\* While a save is under way its source does not change.
LEMMA SourceStable ==
    ASSUME TypeOK, Lanes, Booting, [Next]_vars, ~Restart, NEW q \in Ranks, Busy(q)
    PROVE  Source(q)' = Source(q)
<1>1. CASE Async
  <2>1. inflight[q] /\ pc[q] # "stage"
    BY <1>1 DEF Lanes, Lane, AsyncLane
  <2>2. \A r \in Ranks : StageAndSubmit(r) => stage'[q] = stage[q]
    BY <2>1 DEF StageAndSubmit, TypeOK
  <2> QED
    BY <1>1, <2>2, StorageSteps DEF Source
<1>2. CASE ~Async
  <2>1. pc[q] = "working"
    BY <1>2 DEF Lanes, Lane, SyncLane
  <2>2. \A r \in Ranks : Starts(r) => mem'[q] = mem[q]
    BY <2>1 DEF Starts, ReadPointer, LoadCheckpoint, TrainingStep, TypeOK
  <2> QED
    BY <1>2, <2>2, ProgressSteps DEF NoProgress, Source
<1> QED
  BY <1>1, <1>2

LEMMA WrittenStep ==
    ASSUME TypeOK, TypeOK', Lanes, Booting, Written, [Next]_vars, ~Restart
    PROVE  Written'
<1> SUFFICES ASSUME NEW q \in Ranks, wk'[q].st \in {"plan", "wrote"}
             PROVE  /\ \A k \in Keys : k < wk'[q].key =>
                          k \in meta'[wk'[q].it] /\ shard'[wk'[q].it][k][q] = Source(q)'
                    /\ wk'[q].st = "wrote" => shard'[wk'[q].it][wk'[q].key][q] = Source(q)'
  BY DEF Written
<1>a. wk[q].it \in Iters /\ wk[q].key \in Keys
  BY DEF TypeOK
<1>1. CASE wk'[q].st = "plan" /\ wk'[q].key = 1
  BY <1>1 DEF Keys
<1>2. CASE \E k \in Keys, i \in Iters : CommitKey(k, i)
  <2>1. PICK k \in Keys, i \in Iters : CommitKey(k, i)
    BY <1>2
  <2>2. /\ wk[q].st = "wrote" /\ wk[q].key = k /\ wk[q].it = i
        /\ meta' = [meta EXCEPT ![i] = meta[i] \cup {k}] /\ UNCHANGED shard
        /\ wk'[q] = NextStep(q, k, i)
    BY <2>1 DEF CommitKey, AllWrote
  <2>3. wk'[q].st = "plan" /\ wk'[q].key = k + 1 /\ wk'[q].it = i
    BY <2>2 DEF NextStep, AfterKeys
  <2>4. Source(q)' = Source(q)
    BY <2>2, SourceStable DEF Busy
  <2>5. meta'[i] = meta[i] \cup {k}
    BY <2>2 DEF TypeOK
  <2>6. \A m \in Keys : m < k + 1 => m < k \/ m = k
    BY DcpAssumption DEF Keys
  <2> QED
    BY <2>2, <2>3, <2>4, <2>5, <2>6 DEF Written
<1>3. CASE WriteShard(q)
  <2>1. /\ wk[q].st = "plan" /\ wk'[q].key = wk[q].key /\ wk'[q].it = wk[q].it
        /\ shard' = [shard EXCEPT ![wk[q].it][wk[q].key][q] = Source(q)]
        /\ UNCHANGED meta
    BY <1>3 DEF WriteShard, At, TypeOK
  <2>2. Source(q)' = Source(q)
    BY <2>1, SourceStable DEF Busy
  <2>3. /\ shard'[wk[q].it][wk[q].key][q] = Source(q)
        /\ \A m \in Keys \ {wk[q].key} : shard'[wk[q].it][m][q] = shard[wk[q].it][m][q]
    BY <1>a, <2>1 DEF TypeOK
  <2>4. \A m \in Keys : m < wk[q].key => m # wk[q].key
    BY <1>a, DcpAssumption DEF Keys
  <2> QED
    BY <2>1, <2>2, <2>3, <2>4 DEF Written
<1>4. CASE wk'[q] = wk[q]
  <2>1. Source(q)' = Source(q)
    BY <1>4, SourceStable DEF Busy
  <2>2. ~CollectiveFails
    BY <1>4 DEF CollectiveFails, At
  <2>3. ASSUME NEW r \in Ranks, WriteShard(r)
        PROVE  \A k \in Keys : shard'[wk[q].it][k][q] = shard[wk[q].it][k][q]
    <3>1. r # q
      BY <1>4, <2>3 DEF WriteShard, At, TypeOK
    <3> QED
      BY <1>a, <2>3, <3>1 DEF WriteShard, TypeOK
  <2>4. \A k \in Keys : shard'[wk[q].it][k][q] = shard[wk[q].it][k][q]
    BY <2>2, <2>3, StorageSteps
  <2>5. CASE UNCHANGED meta
    BY <1>4, <1>a, <2>1, <2>4, <2>5 DEF Written
  <2> QED
    BY <1>2, <2>5, StorageSteps
<1>5. ~SaveLoaderState(q)
  BY DEF SaveLoaderState, At, TypeOK
<1> QED
  BY <1>1, <1>2, <1>3, <1>4, <1>5, WorkerSteps

-----------------------------------------------------------------------------
(***************************************************************************)
(* What rank 0 is about to publish                                         *)
(***************************************************************************)

\* Iterations never go back without a reboot, and ranks that started stay so.
LEMMA StartedStays ==
    ASSUME TypeOK, Booting, [Next]_vars, ~Restart, NEW q \in Ranks, ~Unstarted(q)
    PROVE  ~Unstarted(q)' /\ it[q] <= it'[q]
<1>1. it[q] \in Int /\ it \in [Ranks -> Iters]
  BY DcpAssumption DEF TypeOK, Iters
<1>2. ASSUME NEW r \in Ranks, ReadPointer(r) \/ LoadCheckpoint(r)
      PROVE  pc'[q] = pc[q] /\ it'[q] = it[q]
  <2>1. r # q
    BY <1>2 DEF ReadPointer, LoadCheckpoint, Unstarted
  <2> QED
    BY <1>2, <2>1 DEF ReadPointer, LoadCheckpoint, StartTraining, EnterSave, Raise, TypeOK
<1>3. ASSUME NEW r \in Ranks, TrainingStep(r)
      PROVE  ~Unstarted(q)' /\ it[q] <= it'[q]
  <2>1. it' = [it EXCEPT ![r] = it[r] + 1] /\ ~Unstarted(q)'
    BY <1>3, TrainingFacts
  <2> QED
    BY <1>1, <2>1
<1>4. CASE NoProgress
  BY <1>1, <1>4 DEF NoProgress, Unstarted
<1> QED
  BY <1>1, <1>2, <1>3, <1>4, ProgressSteps DEF Starts, Unstarted

\* Every worker that has joined a save is at an iteration its rank has reached.
LEMMA BusyFacts ==
    ASSUME TypeOK, Lanes, Progress, NEW q \in Ranks, Busy(q)
    PROVE  /\ ~Unstarted(q)
           /\ wk[q].it <= it[q]
           /\ \/ Async /\ inflight[q] /\ Source(q) = stage[q] /\ stage[q].it = wk[q].it
              \/ ~Async /\ Loaded(q) /\ Source(q) = mem[q] /\ mem[q].it = wk[q].it
           /\ Source(q) \in Version /\ Source(q).it = wk[q].it
<1>1. CASE Async
  BY <1>1 DEF Lanes, Lane, AsyncLane, Unstarted, Source
<1>2. CASE ~Async
  <2>1. pc[q] = "working" /\ wk[q].it = it[q] /\ it[q] \in Int
    BY <1>2, DcpAssumption DEF Lanes, Lane, SyncLane, TypeOK, Iters
  <2>2. Loaded(q) /\ mem[q].it = it[q] /\ mem[q] \in Version
    BY <2>1 DEF Progress, Loaded, TypeOK
  <2> QED
    BY <1>2, <2>1, <2>2 DEF Source, Unstarted
<1> QED
  BY <1>1, <1>2

\* What a worker is saving is a version in use.
LEMMA SourceAlive ==
    ASSUME TypeOK, Lanes, Progress, NEW q \in Ranks, Busy(q)
    PROVE  Alive(Source(q))
BY BusyFacts DEF Alive

\* The last commit of a save leaves its checkpoint intact.
LEMMA CommitIntact ==
    ASSUME TypeOK, Lanes, Progress, Lineage, Written, NEW i \in Iters, CommitKey(NumKeys, i)
    PROVE  /\ Intact(i)'
           /\ shard'[i][1][0] = Source(0)
           /\ \A q \in Ranks : ~Unstarted(q) /\ i <= it[q]
<1>1. /\ \A q \in Ranks : wk[q] = [st |-> "wrote", key |-> NumKeys, it |-> i]
      /\ meta' = [meta EXCEPT ![i] = meta[i] \cup {NumKeys}] /\ UNCHANGED shard
  BY DEF CommitKey, AllWrote
<1>2. \A q \in Ranks : Busy(q) /\ wk[q].it = i
  BY <1>1 DEF Busy
<1>3. \A k \in Keys : k < NumKeys \/ k = NumKeys
  BY DcpAssumption DEF Keys
<1>4. \A q \in Ranks, k \in Keys : shard[i][k][q] = Source(q)
  BY <1>1, <1>3 DEF Written
<1>5. \A q \in Ranks : Source(q) = Source(0)
  <2>1. \A q \in Ranks : Source(q) \in Version /\ Source(q).it = i /\ Alive(Source(q))
    BY <1>2, BusyFacts, SourceAlive
  <2> QED
    BY <2>1, RankZero DEF Lineage
<1>6. Source(0) = [job |-> Source(0).job, it |-> i] /\ Source(0).job \in Jobs
  BY <1>2, BusyFacts, RankZero DEF Version
<1>7. meta'[i] = Keys
  <2>1. \A k \in Keys : k < NumKeys => k \in meta[i]
    BY <1>1, RankZero DEF Written
  <2>2. meta'[i] = meta[i] \cup {NumKeys} /\ meta[i] \subseteq Keys
    BY <1>1 DEF TypeOK
  <2> QED
    BY <1>3, <2>1, <2>2, RankZero
<1>8. \A k \in Keys, q \in Ranks : shard'[i][k][q] = [job |-> Source(0).job, it |-> i]
  BY <1>1, <1>4, <1>5, <1>6
<1>9. Intact(i)'
  BY <1>6, <1>7, <1>8 DEF Intact
<1>10. \A q \in Ranks : ~Unstarted(q) /\ i <= it[q]
  BY <1>2, BusyFacts
<1> QED
  BY <1>1, <1>4, <1>9, <1>10, RankZero

\* While rank 0 is past its keys nobody writes a shard or metadata.
LEMMA PublishingQuiet ==
    ASSUME TypeOK, wk[0].st \in {"pkl", "pointer"}, [Next]_vars, ~Restart
    PROVE  UNCHANGED <<shard, meta>> /\ ~\E k \in Keys, i \in Iters : CommitKey(k, i)
<1>1. \A r \in Ranks : ~AllJoined(r)
  BY RankZero DEF AllJoined
<1>2. ~CollectiveFails /\ \A r \in Ranks : ~WriteShard(r)
  BY <1>1 DEF CollectiveFails, WriteShard
<1>3. \A k \in Keys, i \in Iters : ~CommitKey(k, i)
  BY RankZero DEF CommitKey, AllWrote
<1> QED
  BY <1>2, <1>3, StorageSteps

LEMMA PublishingStep ==
    ASSUME TypeOK, TypeOK', Lanes, Booting, Progress, Lineage, Written, Publishing,
           [Next]_vars, ~Restart
    PROVE  Publishing'
<1>1. ASSUME NEW r \in Ranks, wk'[r].st = "pointer" PROVE r = 0
  <2>1. CASE wk'[r] = wk[r]
    BY <1>1, <2>1 DEF Publishing
  <2>2. CASE WriteShard(r) \/ SaveLoaderState(r)
    BY <1>1, <2>2 DEF WriteShard, SaveLoaderState, At, TypeOK
  <2>3. CASE \E k \in Keys, i \in Iters : CommitKey(k, i)
    BY <1>1, <2>3 DEF CommitKey, NextStep, AfterKeys
  <2> QED
    BY <1>1, <2>1, <2>2, <2>3, WorkerSteps
<1>2. ASSUME wk'[0].st \in {"pkl", "pointer"}
      PROVE  /\ Intact(wk[0].it)'
             /\ shard'[wk[0].it][1][0] = Source(0)'
             /\ wk'[0].it = wk[0].it
             /\ \A q \in Ranks : ~Unstarted(q)' /\ wk[0].it <= it'[q]
  <2>1. CASE \E k \in Keys, i \in Iters : CommitKey(k, i)
    <3>1. PICK k \in Keys, i \in Iters : CommitKey(k, i)
      BY <2>1
    <3>2. wk[0].st = "wrote" /\ wk[0].it = i /\ wk'[0] = NextStep(0, k, i)
      BY <3>1, RankZero DEF CommitKey, AllWrote
    <3>3. k = NumKeys /\ wk'[0].it = i
      BY <1>2, <3>2, DcpAssumption DEF NextStep, Keys
    <3>4. Source(0)' = Source(0)
      BY <3>2, SourceStable, RankZero DEF Busy
    <3>5. UNCHANGED <<pc, it>>
      BY <3>1 DEF CommitKey, mainVars
    <3> QED
      BY <3>1, <3>2, <3>3, <3>4, <3>5, CommitIntact DEF Unstarted
  <2>2. CASE wk[0].st \in {"pkl", "pointer"} /\ wk'[0].it = wk[0].it
    <3>1. Source(0)' = Source(0)
      BY <2>2, SourceStable, RankZero DEF Busy
    <3>2. UNCHANGED <<shard, meta>>
      BY <2>2, PublishingQuiet
    <3>3. Intact(wk[0].it)' /\ shard'[wk[0].it][1][0] = Source(0)'
      BY <2>2, <3>1, <3>2 DEF Publishing, Intact
    <3>4. \A q \in Ranks : ~Unstarted(q) /\ wk[0].it <= it[q]
      BY <2>2 DEF Publishing
    <3>5. \A q \in Ranks : it[q] \in Int /\ it'[q] \in Int /\ wk[0].it \in Int
      <4>1. \A q \in Ranks : it[q] \in Iters /\ it'[q] \in Iters /\ wk[0].it \in Iters
        BY RankZero DEF TypeOK
      <4> QED
        BY <4>1, DcpAssumption DEF Iters
    <3>6. \A q \in Ranks : ~Unstarted(q)' /\ wk[0].it <= it'[q]
      BY <3>4, <3>5, StartedStays
    <3> QED
      BY <2>2, <3>3, <3>6
  <2>3. CASE WriteShard(0)
    BY <1>2, <2>3, RankZero DEF WriteShard, At, TypeOK
  <2>4. CASE SaveLoaderState(0)
    BY <2>2, <2>4, RankZero DEF SaveLoaderState, At, TypeOK
  <2>5. CASE wk'[0] = wk[0]
    BY <1>2, <2>2, <2>5
  <2> QED
    BY <1>2, <2>1, <2>3, <2>4, <2>5, WorkerSteps, RankZero
<1> QED
  BY <1>1, <1>2 DEF Publishing

-----------------------------------------------------------------------------
(***************************************************************************)
(* One version of each iteration                                           *)
(***************************************************************************)

\* Versions are equal when their fields are.
LEMMA VersionExt ==
    \A v \in Version : v = [job |-> v.job, it |-> v.it]
BY DEF Version

\* A step that brings nothing new into use keeps the lineage.
LEMMA LineageFrame ==
    ASSUME Lineage, UNCHANGED job,
           \A v \in Version : Alive(v)' => Alive(v),
           \A q \in Ranks, v \in Version : Loaded(q)' /\ Alive(v) /\ v.it > it'[q] => v.job = job,
           latest' \notin Iters => latest \notin Iters
    PROVE  Lineage'
BY DEF Lineage

\* Overwriting a shard with what is there changes nothing.
LEMMA OverwriteSame ==
    ASSUME TypeOK, NEW r \in Ranks, WriteShard(r), NEW i \in Iters,
           wk[r].it = i => Source(r) = shard[i][wk[r].key][r]
    PROVE  shard'[i] = shard[i]
<1>1. /\ wk[r].it \in Iters /\ wk[r].key \in Keys
      /\ shard' = [shard EXCEPT ![wk[r].it][wk[r].key][r] = Source(r)]
  BY DEF WriteShard, TypeOK
<1>2. CASE wk[r].it # i
  BY <1>1, <1>2 DEF TypeOK
<1>3. CASE wk[r].it = i
  <2> DEFINE f == shard[i]
             k == wk[r].key
  <2>1. f \in [Keys -> [Ranks -> Content]] /\ f[k] \in [Ranks -> Content]
    BY <1>1 DEF TypeOK
  <2>2. shard'[i] = [f EXCEPT ![k] = [f[k] EXCEPT ![r] = Source(r)]]
    BY <1>1, <1>3 DEF TypeOK
  <2>3. Source(r) = f[k][r]
    BY <1>3
  <2> HIDE DEF f, k
  <2>4. [f[k] EXCEPT ![r] = Source(r)] = f[k]
    BY <2>1, <2>3
  <2>5. [f EXCEPT ![k] = [f[k] EXCEPT ![r] = Source(r)]] = f
    BY <2>1, <2>4
  <2> QED
    BY <2>2, <2>5 DEF f
<1> QED
  BY <1>2, <1>3

\* So does whoever writes the checkpoint the pointer names.
LEMMA RewriteSame ==
    ASSUME TypeOK, Lanes, Progress, Lineage, PublishedIntact,
           NEW r \in Ranks, WriteShard(r), latest \in Iters
    PROVE  shard'[latest] = shard[latest]
<1>1. wk[r].st = "plan" /\ wk[r].key \in Keys
  BY DEF WriteShard, TypeOK
<1>2. ASSUME wk[r].it = latest PROVE Source(r) = shard[latest][wk[r].key][r]
  <2>1. PICK j \in Jobs : \A k \in Keys, q \in Ranks :
                             shard[latest][k][q] = [job |-> j, it |-> latest]
    BY PublishedVersion
  <2>2. Source(r) \in Version /\ Source(r).it = latest /\ Alive(Source(r))
    BY <1>1, <1>2, BusyFacts, SourceAlive DEF Busy
  <2>3. /\ shard[latest][1][0] = [job |-> j, it |-> latest]
        /\ shard[latest][1][0] \in Version /\ Alive(shard[latest][1][0])
        /\ shard[latest][1][0].it = latest
    BY <2>1, RankZero DEF Version, Alive
  <2>4. Source(r) = shard[latest][1][0]
    BY <2>2, <2>3 DEF Lineage
  <2> QED
    BY <1>1, <2>1, <2>3, <2>4
<1> QED
  BY <1>2, OverwriteSame

\* Training makes one new version, which no one else holds a rival of.
LEMMA LineageTraining ==
    ASSUME TypeOK, Booting, Lineage, NEW r \in Ranks, TrainingStep(r)
    PROVE  Lineage'
<1> DEFINE new == [job |-> job, it |-> it[r] + 1]
<1>1. /\ Loaded(r) /\ \A q \in Ranks : Loaded(q)' => Loaded(q)
      /\ \A q \in Ranks : it[q] \in Iters
      /\ it' = [it EXCEPT ![r] = it[r] + 1]
      /\ mem' = [mem EXCEPT ![r] = new]
      /\ UNCHANGED <<shard, latest, job, inflight, stage>>
  BY TrainingFacts
<1>2. /\ it \in [Ranks -> Iters] /\ mem \in [Ranks -> Version] /\ job \in Jobs
  BY DEF TypeOK
<1>3. \A v \in Version : v.it \in Int
  BY DcpAssumption DEF Version, Iters
<1>4. \A q \in Ranks : it[q] \in Int
  BY <1>1, DcpAssumption DEF Iters
<1>5. \A v \in Version : Alive(v)' => Alive(v) \/ v = new
  <2> SUFFICES ASSUME NEW v \in Version, Alive(v)' PROVE Alive(v) \/ v = new
    OBVIOUS
  <2>1. ASSUME NEW q \in Ranks, Loaded(q)', v = mem'[q] PROVE Alive(v) \/ v = new
    BY <1>1, <1>2, <2>1 DEF Alive
  <2>2. ASSUME NEW q \in Ranks, inflight'[q], v = stage'[q] PROVE Alive(v)
    BY <1>1, <2>2 DEF Alive
  <2>3. ASSUME latest' \in Iters, v = shard'[latest'][1][0] PROVE Alive(v)
    BY <1>1, <2>3 DEF Alive
  <2> QED
    BY <2>1, <2>2, <2>3 DEF Alive
<1>6. ASSUME NEW v \in Version, Alive(v), v.it = it[r] + 1 PROVE v = new
  <2>1. v.it > it[r]
    BY <1>4, <1>6
  <2>2. v.job = job
    BY <1>1, <1>6, <2>1 DEF Lineage
  <2> QED
    BY <1>6, <2>2, VersionExt
<1>7. \A v, w \in Version : Alive(v)' /\ Alive(w)' /\ v.it = w.it => v = w
  <2>1. new.it = it[r] + 1
    OBVIOUS
  <2> HIDE DEF new
  <2> QED
    BY <1>5, <1>6, <2>1 DEF Lineage
<1>8. \A v \in Version, q \in Ranks :
         Alive(v)' /\ Loaded(q)' /\ v.it > it'[q] => v.job = job
  <2> SUFFICES ASSUME NEW v \in Version, NEW q \in Ranks,
                      Alive(v), Loaded(q), v.it > it'[q]
               PROVE  v.job = job
    BY <1>1, <1>5
  <2>1. it'[q] = it[q] \/ it'[q] = it[q] + 1
    BY <1>1, <1>2
  <2>2. v.it > it[q]
    BY <1>3, <1>4, <2>1
  <2> QED
    BY <2>2 DEF Lineage
<1>9. \A v \in Version : Alive(v)' /\ latest' \notin Iters => v.job = job
  BY <1>1, <1>5 DEF Lineage
<1> QED
  BY <1>1, <1>7, <1>8, <1>9 DEF Lineage

\* Starting, from scratch or from the pointer, revives a version in use.
LEMMA LineageStart ==
    ASSUME TypeOK, Lanes, Progress, Booting, PublishedIntact, Lineage,
           NEW r \in Ranks, ReadPointer(r) \/ LoadCheckpoint(r)
    PROVE  Lineage'
<1>0. \A q \in Ranks : it[q] \in Int /\ latest \in Int /\ \A v \in Version : v.it \in Int
  BY DcpAssumption DEF TypeOK, Iters, Version, Pointers, NoPointer, TornPointer
<1>1. CASE ~Loaded(r)'
  <2>1. /\ UNCHANGED <<shard, latest, job, it, mem, inflight, stage>>
        /\ \A q \in Ranks : Loaded(q)' => Loaded(q)
    BY <1>1, NotStartedFacts DEF Loaded
  <2> QED
    BY <2>1, LineageFrame DEF Lineage, Alive
<1>2. CASE Loaded(r)' /\ ReadPointer(r)
  <2>1. /\ latest \notin Iters /\ \A q \in Ranks : it[q] = 0
        /\ mem[r] = [job |-> job, it |-> 0]
        /\ UNCHANGED <<shard, latest, job, it, mem, inflight, stage>>
        /\ \A q \in Ranks \ {r} : Loaded(q)' => Loaded(q)
    BY <1>2, FreshStartFacts DEF Loaded
  <2>2. \A v \in Version : Alive(v)' => Alive(v) \/ v = [job |-> job, it |-> 0]
    BY <2>1 DEF Alive
  <2>3. \A v \in Version : Alive(v) => v.job = job
    BY <2>1 DEF Lineage
  <2>4. \A v \in Version : Alive(v)' => v.job = job
    BY <2>2, <2>3
  <2>5. \A v, w \in Version : v.job = job /\ w.job = job /\ v.it = w.it => v = w
    BY VersionExt
  <2> QED
    BY <2>1, <2>4, <2>5 DEF Lineage
<1>3. CASE Loaded(r)' /\ LoadCheckpoint(r)
  <2>1. /\ latest \in Iters /\ it'[r] = latest
        /\ mem'[r] = shard[latest][1][0]
        /\ \A q \in Ranks : it[q] <= latest
        /\ UNCHANGED <<shard, latest, job, inflight, stage>>
        /\ \A q \in Ranks \ {r} : /\ mem'[q] = mem[q] /\ it'[q] = it[q]
                                  /\ Loaded(q)' => Loaded(q)
    BY <1>3, LoadFacts DEF Loaded, TypeOK
  <2>2. \A v \in Version : Alive(v)' => Alive(v)
    BY <2>1 DEF Alive
  <2>3. ASSUME NEW v \in Version, Alive(v) PROVE v.it <= latest
    <3>1. ASSUME NEW q \in Ranks, Loaded(q), v = mem[q] PROVE v.it <= latest
      BY <2>1, <3>1 DEF Progress
    <3>2. ASSUME NEW q \in Ranks, inflight[q], v = stage[q] PROVE v.it <= latest
      <4>1. v.it <= it[q]
        BY <3>2 DEF Lanes, Lane, AsyncLane, SyncLane
      <4> QED
        BY <1>0, <2>1, <4>1
    <3>3. ASSUME v = shard[latest][1][0] PROVE v.it <= latest
      BY <1>0, <1>3, <3>3, LoadFacts
    <3> QED
      BY <2>3, <3>1, <3>2, <3>3 DEF Alive
  <2>4. \A q \in Ranks, v \in Version :
           Loaded(q)' /\ Alive(v) /\ v.it > it'[q] => v.job = job
    <3> SUFFICES ASSUME NEW q \in Ranks, NEW v \in Version,
                        Loaded(q)', Alive(v), v.it > it'[q]
                 PROVE  v.job = job
      OBVIOUS
    <3>1. v.it <= latest
      BY <2>3
    <3>2. q # r
      BY <1>0, <2>1, <3>1
    <3> QED
      BY <2>1, <3>2 DEF Lineage
  <2> QED
    BY <2>1, <2>2, <2>4, LineageFrame
<1> QED
  BY <1>1, <1>2, <1>3

\* Torn shards leave the checkpoints alone that nobody was writing.
LEMMA TearOthers ==
    ASSUME TypeOK, NEW S, TearShards(S), NEW i \in Iters,
           \A r \in S \cap Ranks : wk[r].it # i
    PROVE  shard'[i] = shard[i]
<1>1. shard'[i] = [k \in Keys |-> [r \in Ranks |-> shard[i][k][r]]]
  BY DEF TearShards
<1>2. shard[i] \in [Keys -> [Ranks -> Content]]
  BY DEF TypeOK
<1>3. \A k \in Keys : [r \in Ranks |-> shard[i][k][r]] = shard[i][k]
  BY <1>2
<1> QED
  BY <1>1, <1>2, <1>3

\* A torn shard is never one of the checkpoint the pointer names.
LEMMA TearElsewhere ==
    ASSUME TypeOK, Fresh, latest \in Iters, NEW S \in Tearable(OpenShards), TearShards(S)
    PROVE  shard'[latest] = shard[latest]
<1>1. ASSUME NEW r \in S PROVE wk[r].it # latest
  <2>1. ~ObjectStore /\ r \in OpenShards
    BY <1>1 DEF Tearable
  <2>2. wk[0].st \in {"plan", "wrote"} /\ wk[0].it = wk[r].it
    BY <2>1, RankZero DEF OpenShards, AllJoined
  <2>3. latest < wk[0].it
    BY <2>1, <2>2 DEF Fresh
  <2> QED
    BY <2>2, <2>3, DcpAssumption DEF Iters
<1> QED
  BY <1>1, TearOthers

\* No step but the publication of a new checkpoint changes what is published.
LEMMA PublishedStable ==
    ASSUME TypeOK, Lanes, Progress, Lineage, PublishedIntact, Fresh, [Next]_vars, ~Restart,
           latest \in Iters
    PROVE  shard'[latest] = shard[latest]
<1>1. ASSUME NEW r \in Ranks, WriteShard(r) PROVE shard'[latest] = shard[latest]
  BY <1>1, RewriteSame
<1>2. ASSUME CollectiveFails PROVE shard'[latest] = shard[latest]
  BY <1>2, TearElsewhere DEF CollectiveFails
<1> QED
  BY <1>1, <1>2, StorageSteps

\* Only starting and training bring a version into use.
LEMMA AliveKept ==
    ASSUME TypeOK, Lanes, Progress, Lineage, Publishing, PublishedIntact, Fresh,
           [Next]_vars, ~Restart, NoProgress, NEW v \in Version, Alive(v)'
    PROVE  Alive(v)
<1>1. UNCHANGED mem /\ \A q \in Ranks : Loaded(q)' => Loaded(q)
  BY DEF NoProgress
<1>2. ASSUME NEW q \in Ranks, inflight'[q], v = stage'[q] PROVE Alive(v)
  <2>1. CASE StageAndSubmit(q)
    BY <1>2, <2>1 DEF StageAndSubmit, Loaded, Alive, TypeOK
  <2>2. CASE ~StageAndSubmit(q)
    <3>1. stage'[q] = stage[q]
      BY ZenonT(60), <2>2, StorageSteps DEF StageAndSubmit, TypeOK
    <3>2. inflight'[q] => inflight[q]
      BY <2>2, InflightSteps
    <3> QED
      BY <1>2, <3>1, <3>2 DEF Alive
  <2> QED
    BY <2>1, <2>2
<1>3. ASSUME latest' \in Iters, v = shard'[latest'][1][0] PROVE Alive(v)
  <2>1. CASE UNCHANGED latest
    BY <1>3, <2>1, PublishedStable DEF Alive
  <2>2. CASE \E r \in Ranks : WritePointer(r)
    <3>1. v = Source(0) /\ Busy(0)
      BY <1>3, <2>2, PublishFacts DEF Publishing, Busy
    <3> QED
      BY <3>1, SourceAlive, RankZero
  <2> QED
    BY <2>1, <2>2, PointerSteps
<1> QED
  BY <1>1, <1>2, <1>3 DEF Alive

LEMMA LineageStep ==
    ASSUME TypeOK, TypeOK', Lanes, Booting, Progress, Lineage, Publishing, PublishedIntact, Fresh,
           [Next]_vars, ~Restart
    PROVE  Lineage'
<1>1. ASSUME NEW r \in Ranks, Starts(r) PROVE Lineage'
  BY <1>1, LineageTraining, LineageStart DEF Starts
<1>2. CASE NoProgress
  <2>1. UNCHANGED <<it, mem, job>> /\ \A q \in Ranks : Loaded(q)' => Loaded(q)
    BY <1>2 DEF NoProgress
  <2>2. \A v \in Version : Alive(v)' => Alive(v)
    BY <1>2, AliveKept
  <2>3. latest' \notin Iters => latest \notin Iters
    BY PointerSteps, PublishFacts
  <2> QED
    BY <2>1, <2>2, <2>3, LineageFrame DEF Lineage
<1> QED
  BY <1>1, <1>2, ProgressSteps

LEMMA PublishedIntactStep ==
    ASSUME TypeOK, TypeOK', Lanes, Progress, Lineage, Publishing, PublishedIntact, Fresh,
           [Next]_vars, ~Restart
    PROVE  PublishedIntact'
<1>1. ASSUME NEW r \in Ranks, WritePointer(r) PROVE PublishedIntact'
  <2>1. wk[0].st = "pointer" /\ latest' = wk[0].it /\ UNCHANGED <<shard, meta>>
    BY <1>1, PublishFacts
  <2>2. Intact(wk[0].it)
    BY <2>1 DEF Publishing
  <2> QED
    BY <2>1, <2>2 DEF PublishedIntact, Intact
<1>2. CASE UNCHANGED latest
  <2> SUFFICES ASSUME latest \in Iters PROVE Intact(latest)'
    BY <1>2 DEF PublishedIntact
  <2>1. shard'[latest] = shard[latest]
    BY PublishedStable
  <2>2. meta'[latest] = Keys
    <3>1. meta[latest] = Keys
      BY DEF PublishedIntact, Intact
    <3>2. ASSUME NEW k \in Keys, NEW i \in Iters, CommitKey(k, i) PROVE meta'[latest] = Keys
      BY <3>1, <3>2 DEF CommitKey, TypeOK
    <3> QED
      BY <3>1, <3>2, StorageSteps
  <2> QED
    BY <1>2, <2>1, <2>2 DEF PublishedIntact, Intact
<1> QED
  BY <1>1, <1>2, PointerSteps
-----------------------------------------------------------------------------
(***************************************************************************)
(* Where files can be torn, rank 0 saves what is newer than the pointer    *)
(***************************************************************************)

StillSaving(q) ==
    Saving(q) /\ it'[q] = it[q] /\ (pc'[q] = "save" => pc[q] = "save")

\* How a rank gets into a save.
LEMMA SavingSteps ==
    ASSUME TypeOK, [Next]_vars, ~Restart, NEW q \in Ranks, Saving(q)'
    PROVE  Starts(q) \/ LeaveLoop(q) \/ StillSaving(q)
<1> USE DEF Saving, StillSaving, storageVars, mainVars, asyncVars
<1>1. ASSUME NEW r \in Ranks, Main(r) \/ TrainingStepEnd(r), ~Starts(r), ~LeaveLoop(r)
      PROVE  StillSaving(q)
  <2>1. CASE BeginSave(r) \/ SaveLoaderStateInline(r) \/ TrainingStepEnd(r)
    BY <2>1 DEF BeginSave, SaveLoaderStateInline, TrainingStepEnd, TypeOK
  <2>2. CASE StageAndSubmit(r) \/ FinishSyncSave(r)
    <3>1. UNCHANGED it /\ pc'[r] \in {"train", "stepend", "finalize", "failed"}
          /\ \A p \in Ranks \ {r} : pc'[p] = pc[p]
      BY <2>2 DEF StageAndSubmit, FinishSyncSave, Raise, TypeOK
    <3> QED
      BY <3>1
  <2>3. CASE ReceiveResult(r) \/ ResultTimeout(r)
    <3>1. UNCHANGED it /\ (pc'[r] = pc[r] \/ pc'[r] = "failed")
          /\ \A p \in Ranks \ {r} : pc'[p] = pc[p]
      BY <2>3 DEF ReceiveResult, ResultTimeout, Raise, TypeOK
    <3> QED
      BY <3>1
  <2>4. CASE Finalize(r) \/ SendTerminate(r) \/ JoinBackground(r)
    <3>1. UNCHANGED it /\ pc'[r] \in {"closing", "barrier", "join"}
          /\ \A p \in Ranks \ {r} : pc'[p] = pc[p]
      BY <2>4 DEF Finalize, SendTerminate, JoinBackground, TypeOK
    <3> QED
      BY <3>1
  <2> QED
    BY <1>1, <2>1, <2>2, <2>3, <2>4 DEF Main, Starts
<1>2. ASSUME NEW r \in Ranks, r # q, Starts(r) \/ LeaveLoop(r) PROVE StillSaving(q)
  <2>1. pc'[q] = pc[q] /\ it'[q] = it[q]
    BY <1>2 DEF Starts, ReadPointer, LoadCheckpoint, StartTraining, TrainingStep, LeaveLoop,
       EnterSave, Raise, TypeOK
  <2> QED
    BY <2>1
<1>3. ASSUME NEW r \in Ranks, Worker(r) PROVE UNCHANGED <<pc, it>>
  BY <1>3 DEF Worker, ReceiveTask, WriteShard, SaveLoaderState, WritePointer, ReportResult, PeerLost
<1>4. ASSUME NEW r \in Ranks, LocalWriteFails(r) \/ BackgroundDies(r)
      PROVE  StillSaving(q)
  BY <1>4 DEF LocalWriteFails, BackgroundDies, Raise, TypeOK
<1>5. CASE \/ \E k \in Keys, i \in Iters : CommitKey(k, i)
           \/ CollectiveFails \/ UNCHANGED vars
  BY <1>5 DEF CommitKey, CollectiveFails, vars
<1>6. ~FinishTraining
  BY DEF FinishTraining
<1> QED
  BY <1>1, <1>2, <1>3, <1>4, <1>5, <1>6 DEF Next, Steps, Faults, Terminated

\* No final save where max_iter is on the save_iter grid, and no save at all
\* before the first step.
LEMMA GridFacts ==
    ASSUME TypeOK, ~SaveZero, SaveDue(MaxIter), NEW q \in Ranks, Saving(q)'
    PROVE  ~LeaveLoop(q) /\ ~ReadPointer(q) /\ ~LoadCheckpoint(q)
<1>1. ~LeaveLoop(q)
  <2> SUFFICES ASSUME LeaveLoop(q) PROVE FALSE
    OBVIOUS
  <2>1. it[q] = MaxIter
    BY DcpAssumption DEF LeaveLoop, TypeOK, Iters
  <2> QED
    BY <2>1 DEF LeaveLoop, Saving, TypeOK
<1>2. ~ReadPointer(q)
  BY DEF ReadPointer, StartTraining, Raise, Saving, TypeOK
<1>3. ~LoadCheckpoint(q)
  BY DEF LoadCheckpoint, StartTraining, Raise, Saving, TypeOK
<1> QED
  BY <1>1, <1>2, <1>3
\* Who moves a task queue.
LEMMA TasksSteps ==
    ASSUME TypeOK, [Next]_vars, ~Restart, NEW q \in Ranks
    PROVE  \/ tasks'[q] = tasks[q]
           \/ StageAndSubmit(q) \/ SendTerminate(q) \/ ReceiveTask(q)
<1> USE DEF storageVars, mainVars, asyncVars, TypeOK
<1>1. ASSUME NEW r \in Ranks, StageAndSubmit(r) \/ SendTerminate(r) \/ ReceiveTask(r), r # q
      PROVE  tasks'[q] = tasks[q]
  BY <1>1 DEF StageAndSubmit, SendTerminate, ReceiveTask
<1>2. ASSUME NEW r \in Ranks, Main(r) \/ TrainingStepEnd(r), ~StageAndSubmit(r), ~SendTerminate(r)
      PROVE  UNCHANGED tasks
  BY <1>2 DEF Main, ReadPointer, LoadCheckpoint, TrainingStep, LeaveLoop, TrainingStepEnd,
     BeginSave, SaveLoaderStateInline, FinishSyncSave, ReceiveResult, ResultTimeout, Finalize,
     JoinBackground
<1>3. ASSUME NEW r \in Ranks, Worker(r), ~ReceiveTask(r) PROVE UNCHANGED tasks
  BY <1>3 DEF Worker, WriteShard, SaveLoaderState, WritePointer, ReportResult, PeerLost
<1>4. ASSUME NEW r \in Ranks, LocalWriteFails(r) \/ BackgroundDies(r) PROVE UNCHANGED tasks
  BY <1>4 DEF LocalWriteFails, BackgroundDies
<1>5. CASE \/ \E k \in Keys, i \in Iters : CommitKey(k, i)
           \/ CollectiveFails \/ FinishTraining \/ UNCHANGED vars
  BY <1>5 DEF CommitKey, CollectiveFails, FinishTraining, vars
<1> QED
  BY <1>1, <1>2, <1>3, <1>4, <1>5 DEF Next, Steps, Faults, Terminated

Unpublished(q) == wk[q].st \in {"plan", "wrote", "pkl", "pointer"}

\* A worker keeps the save it took on.
LEMMA UnpublishedSteps ==
    ASSUME TypeOK, [Next]_vars, ~Restart, NEW q \in Ranks, Unpublished(q)'
    PROVE  \/ Unpublished(q) /\ wk'[q].it = wk[q].it /\ ~WritePointer(q)
           \/ ReceiveTask(q)
           \/ BeginSave(q) /\ wk'[q].it = it[q]
<1> USE DEF Unpublished, TypeOK, storageVars, mainVars, asyncVars
<1>0. ~WritePointer(q)
  BY DEF WritePointer, At
<1>1. ASSUME NEW r \in Ranks, Main(r) \/ TrainingStepEnd(r)
      PROVE  wk'[q] = wk[q] \/ (BeginSave(q) /\ wk'[q].it = it[q])
  <2>1. CASE BeginSave(r)
    BY <1>0, <2>1 DEF BeginSave
  <2>2. CASE FinishSyncSave(r)
    BY <2>2 DEF FinishSyncSave, Idle
  <2>3. CASE ~BeginSave(r) /\ ~FinishSyncSave(r)
    BY <1>1, <2>3 DEF Main, ReadPointer, LoadCheckpoint, TrainingStep, LeaveLoop,
       TrainingStepEnd, SaveLoaderStateInline, StageAndSubmit, ReceiveResult, ResultTimeout,
       Finalize, SendTerminate, JoinBackground
  <2> QED
    BY <2>1, <2>2, <2>3
<1>2. ASSUME NEW r \in Ranks, Worker(r), ~ReceiveTask(q)
      PROVE  Unpublished(q) /\ wk'[q].it = wk[q].it
  BY SMTT(30), <1>0, <1>2 DEF Worker, ReceiveTask, WriteShard, SaveLoaderState, WritePointer, ReportResult,
     PeerLost, At, Idle
<1>3. ASSUME NEW r \in Ranks, LocalWriteFails(r) \/ BackgroundDies(r)
      PROVE  Unpublished(q) /\ wk'[q].it = wk[q].it
  <2>1. wk' = wk \/ \E st \in {"failed", "dead"} : wk' = [wk EXCEPT ![r] = At(r, st)]
    BY <1>3 DEF LocalWriteFails, BackgroundDies
  <2>2. wk'[q] = wk[q] \/ wk'[q].st \in {"failed", "dead"}
    BY <2>1 DEF At
  <2> QED
    BY <2>2
<1>4. ASSUME NEW k \in Keys, NEW i \in Iters, CommitKey(k, i)
      PROVE  Unpublished(q) /\ wk'[q].it = wk[q].it
  <2>1. wk[q] = [st |-> "wrote", key |-> k, it |-> i] /\ wk'[q] = NextStep(q, k, i)
    BY <1>4 DEF CommitKey, AllWrote
  <2>2. NextStep(q, k, i).it = i
    BY DEF NextStep
  <2> QED
    BY <2>1, <2>2
<1>5. CASE CollectiveFails \/ FinishTraining \/ UNCHANGED vars
  <2>1. CASE CollectiveFails
    <3>1. wk' = [r \in Ranks |-> At(r, "failed")]
      BY <2>1 DEF CollectiveFails
    <3>2. wk'[q].st = "failed"
      BY <3>1 DEF At
    <3> QED
      BY <3>2
  <2> QED
    BY <1>0, <1>5, <2>1 DEF FinishTraining, vars
<1>6. \/ \E r \in Ranks : Main(r) \/ TrainingStepEnd(r) \/ Worker(r)
      \/ \E r \in Ranks : LocalWriteFails(r) \/ BackgroundDies(r)
      \/ \E k \in Keys, i \in Iters : CommitKey(k, i)
      \/ CollectiveFails \/ FinishTraining \/ UNCHANGED vars
  BY DEF Next, Steps, Faults, Terminated
<1> HIDE DEF TypeOK, storageVars, mainVars, asyncVars
<1>7. CASE \E r \in Ranks : Main(r) \/ TrainingStepEnd(r)
  BY <1>0, <1>1, <1>7
<1>8. CASE \E r \in Ranks : Worker(r)
  BY <1>0, <1>2, <1>8
<1>9. CASE \E r \in Ranks : LocalWriteFails(r) \/ BackgroundDies(r)
  BY <1>0, <1>3, <1>9
<1>10. CASE \E k \in Keys, i \in Iters : CommitKey(k, i)
  BY <1>0, <1>4, <1>10
<1> QED
  BY <1>5, <1>6, <1>7, <1>8, <1>9, <1>10
LEMMA FreshStep ==
    ASSUME SafeStorage, TypeOK, TypeOK', Lanes, Booting, Progress, Publishing, Fresh,
           [Next]_vars, ~Restart
    PROVE  Fresh'
<1> SUFFICES ASSUME ~ObjectStore
             PROVE  /\ Saving(0)' => latest' < it'[0]
                    /\ Async /\ inflight'[0] /\ pc'[0] = "save" => stage'[0].it < it'[0]
                    /\ \A i \in Iters : tasks'[0] = <<SaveTask(i)>> => latest' < i
                    /\ Unpublished(0)' => latest' < wk'[0].it
  BY DEF Fresh, Saving, Unpublished
<1>a. ~SaveZero /\ SaveDue(MaxIter) /\ 0 \in Ranks
  BY RankZero DEF SafeStorage
<1>b. /\ it[0] \in Iters /\ wk[0].it \in Iters /\ latest \in Pointers
      /\ \A i \in Iters : i \in Int /\ i >= 0
      /\ \A i \in Pointers : i \in Int /\ (i \notin Iters => i < 0)
  BY <1>a, DcpAssumption DEF TypeOK, Iters, Pointers, NoPointer, TornPointer
<1>c. UNCHANGED latest \/ WritePointer(0)
  BY PointerSteps, PublishFacts
<1>d. /\ Saving(0) => latest < it[0]
      /\ Async /\ inflight[0] /\ pc[0] = "save" => stage[0].it < it[0]
      /\ \A i \in Iters : tasks[0] = <<SaveTask(i)>> => latest < i
      /\ Unpublished(0) => latest < wk[0].it
  BY DEF Fresh, Saving, Unpublished
<1>e. WritePointer(0) => Busy(0) /\ wk[0].st = "pointer" /\ latest' = wk[0].it
  BY PublishFacts, <1>a DEF Busy
<1>f. Lane(0)
  BY <1>a DEF Lanes
<1>g. it \in [Ranks -> Iters] /\ pc \in [Ranks -> MainStates] /\ ret[0] # "save"
  BY <1>a DEF TypeOK
<1>1. ASSUME Saving(0)' PROVE latest' < it'[0]
  <2>1. CASE Starts(0) \/ LeaveLoop(0)
    <3>1. TrainingStep(0)
      BY <1>a, <1>1, <2>1, GridFacts DEF Starts
    <3>2. UNCHANGED latest /\ it'[0] = it[0] + 1 /\ Loaded(0)
      BY <1>a, <1>g, <3>1, TrainingFacts
    <3>3. latest <= it[0]
      BY <1>a, <1>b, <3>2 DEF Progress
    <3> QED
      BY <1>b, <3>2, <3>3
  <2>2. CASE StillSaving(0)
    <3>1. CASE UNCHANGED latest
      BY <1>d, <2>2, <3>1 DEF StillSaving
    <3>2. CASE WritePointer(0)
      <4>1. Async /\ inflight[0] /\ pc[0] = "save" /\ wk[0].it = stage[0].it
        BY <1>e, <1>f, <2>2, <3>2 DEF StillSaving, Saving, Lane, AsyncLane, SyncLane
      <4> QED
        BY <1>d, <1>e, <2>2, <3>2, <4>1 DEF StillSaving
    <3> QED
      BY <1>c, <3>1, <3>2
  <2> QED
    BY <1>a, <1>1, <2>1, <2>2, SavingSteps
<1>2. ASSUME Async, inflight'[0], pc'[0] = "save" PROVE stage'[0].it < it'[0]
  <2>1. ~StageAndSubmit(0)
    BY <1>a, <1>g, <1>2 DEF StageAndSubmit
  <2>2. inflight[0] /\ stage'[0] = stage[0]
    BY ZenonT(60), <1>a, <1>2, <2>1, StorageSteps, InflightSteps DEF StageAndSubmit, TypeOK
  <2>3. stage[0].it <= it[0] /\ stage[0].it \in Int
    BY <1>2, <1>f, <2>2, DcpAssumption DEF Lane, AsyncLane, Version, Iters
  <2>4. CASE TrainingStep(0)
    <3>1. it'[0] = it[0] + 1
      BY <1>a, <1>g, <2>4, TrainingFacts
    <3> QED
      BY <1>b, <2>2, <2>3, <3>1
  <2>5. CASE StillSaving(0)
    BY <1>d, <1>2, <2>2, <2>5 DEF StillSaving
  <2> QED
    BY <1>a, <1>2, <2>4, <2>5, SavingSteps, GridFacts DEF Saving, Starts
<1>3. ASSUME NEW i \in Iters, tasks'[0] = <<SaveTask(i)>> PROVE latest' < i
  <2>1. CASE StageAndSubmit(0)
    <3>1. /\ pc[0] = "stage" /\ tasks'[0] = Append(tasks[0], SaveTask(it[0])) /\ UNCHANGED latest
      BY <1>a, <2>1 DEF StageAndSubmit, TypeOK, storageVars
    <3>2. tasks[0] = <<>>
      BY <1>f, <3>1 DEF Lane, AsyncLane, SyncLane
    <3>3. i = it[0]
      BY <1>3, <3>1, <3>2, Singleton, TaskKinds
    <3> QED
      BY <1>d, <3>1, <3>3 DEF Saving
  <2>2. CASE SendTerminate(0)
    <3>1. pc[0] = "closing" /\ ~inflight[0] /\ tasks'[0] = Append(tasks[0], Terminate)
      BY <1>a, <2>2 DEF SendTerminate, NothingPending, TypeOK
    <3>2. tasks[0] = <<>>
      BY <1>f, <3>1 DEF Lane, AsyncLane, SyncLane
    <3> QED
      BY <1>3, <3>1, <3>2, Singleton, TaskKinds
  <2>3. CASE ReceiveTask(0)
    <3>1. tasks[0] # <<>> /\ tasks'[0] = Tail(tasks[0])
      BY <1>a, <2>3 DEF ReceiveTask, TypeOK
    <3>2. tasks[0] = <<SaveTask(stage[0].it)>> \/ tasks[0] = <<Terminate>>
      BY <1>f, <3>1 DEF Lane, AsyncLane, SyncLane
    <3>3. tasks'[0] = <<>>
      BY <3>1, <3>2, Singleton
    <3> QED
      BY <1>3, <3>3, Singleton
  <2>4. CASE tasks'[0] = tasks[0]
    <3>1. ~Busy(0)
      BY <1>3, <1>f, <2>4, Singleton, TaskKinds DEF Lane, AsyncLane, SyncLane
    <3> QED
      BY <1>3, <1>c, <1>d, <1>e, <2>4, <3>1
  <2> QED
    BY <1>a, <2>1, <2>2, <2>3, <2>4, TasksSteps
<1>4. ASSUME Unpublished(0)' PROVE latest' < wk'[0].it
  <2>1. CASE Unpublished(0) /\ wk'[0].it = wk[0].it /\ ~WritePointer(0)
    BY <1>c, <1>d, <2>1
  <2>2. CASE ReceiveTask(0)
    <3>1. /\ tasks[0] # <<>> /\ wk'[0] = OnTask(Head(tasks[0])) /\ UNCHANGED latest
      BY <1>a, <2>2 DEF ReceiveTask, TypeOK, storageVars
    <3>2. CASE tasks[0] = <<SaveTask(stage[0].it)>>
      <4>1. stage[0].it \in Iters
        BY <1>f, <3>2, Singleton, TaskKinds DEF Lane, AsyncLane, SyncLane, Version
      <4>2. wk'[0].it = stage[0].it
        BY <3>1, <3>2, Singleton DEF OnTask, SaveTask
      <4> QED
        BY <1>d, <3>1, <3>2, <4>1, <4>2
    <3>3. CASE tasks[0] = <<Terminate>>
      BY <1>4, <3>1, <3>3, Singleton DEF OnTask, Terminate, Stopped, Unpublished
    <3> QED
      BY <1>f, <3>1, <3>2, <3>3 DEF Lane, AsyncLane, SyncLane
  <2>3. CASE BeginSave(0) /\ wk'[0].it = it[0]
    BY <1>d, <2>3 DEF BeginSave, Saving, storageVars
  <2> QED
    BY <1>a, <1>4, <2>1, <2>2, <2>3, UnpublishedSteps
<1> QED
  BY <1>1, <1>2, <1>3, <1>4
-----------------------------------------------------------------------------
(***************************************************************************)
(* A job starts                                                            *)
(***************************************************************************)

\* No process holds anything but what it is born with.
Newborn ==
    \A r \in Ranks :
        /\ pc[r] = "boot" /\ it[r] = 0 /\ mem[r] = [job |-> job, it |-> 0]
        /\ ~inflight[r] /\ tasks[r] = <<>> /\ results[r] = <<>> /\ wk[r].st = "idle"

LEMMA NewbornInv == TypeOK /\ Newborn /\ PublishedIntact => IInv
<1> SUFFICES ASSUME TypeOK, Newborn, PublishedIntact PROVE IInv
  OBVIOUS
<1>a. \A i : <<SaveTask(i)>> # <<>>
  BY Singleton
<1>1. Lanes
  BY DEF Newborn, Lanes, Lane, AsyncLane, SyncLane, Busy
<1>2. Booting
  <2>1. 0 <= RestartAt
    BY DcpAssumption DEF RestartAt, Iters
  <2> QED
    BY <2>1 DEF Booting, Newborn
<1>3. Progress
  BY DEF Progress, Newborn, Loaded
<1>4. Lineage
  <2>1. \A v : Alive(v) => latest \in Iters /\ v = shard[latest][1][0]
    BY DEF Alive, Newborn, Loaded
  <2> QED
    BY <2>1 DEF Lineage, Newborn, Loaded
<1>5. Written
  BY DEF Written, Newborn
<1>6. Publishing
  BY RankZero DEF Publishing, Newborn
<1>7. Fresh
  BY RankZero, <1>a DEF Fresh, Newborn
<1> QED
  BY <1>1, <1>2, <1>3, <1>4, <1>5, <1>6, <1>7 DEF IInv

LEMMA InitInv == Init => IInv
<1> SUFFICES ASSUME Init PROVE IInv
  OBVIOUS
<1>1. TypeOK
  BY InitType DEF TypeInv
<1>2. Newborn
  BY DEF Init, Newborn, Everywhere, Idle
<1>3. PublishedIntact
  BY DcpAssumption DEF Init, PublishedIntact, NoPointer, Iters
<1> QED
  BY <1>1, <1>2, <1>3, NewbornInv

\* A crash loses the processes and may tear open files, but not what the
\* pointer names.
LEMMA RebootInv ==
    ASSUME TypeOK, TypeOK', PublishedIntact, Fresh, Reboot
    PROVE  IInv'
<1>1. Newborn'
  BY DEF Reboot, Newborn, Everywhere, Idle
<1>2. PublishedIntact'
  <2> SUFFICES ASSUME latest' \in Iters PROVE Intact(latest)'
    BY DEF PublishedIntact
  <2>1. latest' = latest
    BY DcpAssumption DEF Reboot, TornPointer, Iters
  <2>2. shard'[latest] = shard[latest]
    BY <2>1, TearElsewhere DEF Reboot
  <2>3. meta' = meta
    BY DEF Reboot
  <2> QED
    BY <2>1, <2>2, <2>3 DEF PublishedIntact, Intact
<1>3. (TypeOK /\ Newborn /\ PublishedIntact)' => IInv'
  BY NewbornInv, PTL
<1> QED
  BY <1>1, <1>2, <1>3
-----------------------------------------------------------------------------
(***************************************************************************)
(* The theorems                                                            *)
(***************************************************************************)

LEMMA NextInv ==
    ASSUME SafeStorage, IInv, [Next]_vars
    PROVE  IInv'
<1> USE DEF IInv
<1>1. TypeInv
  BY DEF TypeInv, Booting, Unstarted
<1>2. TypeOK'
  BY <1>1, NextType DEF TypeInv
<1>3. CASE Restart
  BY <1>2, <1>3, RebootInv DEF Restart
<1>4. CASE ~Restart
  BY <1>2, <1>4, LanesStep, BootingStep, ProgressStep, LineageStep, WrittenStep, PublishingStep,
     PublishedIntactStep, FreshStep
<1> QED
  BY <1>3, <1>4

\* The conjuncts of IInv hold for ever, whatever the ranks' and the background
\* processes' interleaving, and wherever the job crashes.
THEOREM Invariance == SafeStorage => (Spec => []IInv)
<1> SUFFICES ASSUME SafeStorage PROVE Spec => []IInv
  OBVIOUS
<1>1. Init => IInv
  BY InitInv
<1>2. IInv /\ [Next]_vars => IInv'
  BY NextInv
<1> QED
  BY <1>1, <1>2, PTL DEF Spec

\* latest_checkpoint.txt only ever names a checkpoint whose every key is
\* committed and whose every shard comes from one job, in both modes.
THEOREM PublishedIsIntact == SafeStorage => (Spec => []PublishedIntact)
<1> SUFFICES ASSUME SafeStorage PROVE Spec => []PublishedIntact
  OBVIOUS
<1>1. IInv => PublishedIntact
  BY DEF IInv
<1> QED
  BY <1>1, Invariance, PTL

\* The staging buffer _checkpoint_async_with_pinned_memory reuses is never
\* overwritten while the background process writes it out.
THEOREM StagingIsStable == SafeStorage => (Spec => []StagingStable)
<1> SUFFICES ASSUME SafeStorage PROVE Spec => []StagingStable
  OBVIOUS
<1>1. IInv => StagingStable
  BY DEF IInv, Lanes, Lane, AsyncLane, Busy, StagingStable
<1> QED
  BY <1>1, Invariance, PTL

\* However the job crashed and resumed, its ranks train one model: the part of
\* ResumeConsistent that does not concern the dataloader.
THEOREM RanksTrainOneModel == SafeStorage => (Spec => []OneModel)
<1> SUFFICES ASSUME SafeStorage PROVE Spec => []OneModel
  OBVIOUS
<1>1. ASSUME IInv, NEW r \in Ranks, NEW q \in Ranks, Loaded(r), Loaded(q)
      PROVE  mem[r].it = it[r] /\ (it[r] = it[q] => mem[r] = mem[q])
  <2>1. mem[r] \in Version /\ mem[q] \in Version /\ Alive(mem[r]) /\ Alive(mem[q])
    BY <1>1 DEF IInv, TypeOK, Alive
  <2>2. mem[r].it = it[r] /\ mem[q].it = it[q]
    BY <1>1 DEF IInv, Progress
  <2> QED
    BY <1>1, <2>1, <2>2 DEF IInv, Lineage
<1>2. IInv => OneModel
  BY <1>1 DEF OneModel
<1> QED
  BY <1>2, Invariance, PTL
=============================================================================
