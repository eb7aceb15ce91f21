----------------------- MODULE TerminationSignal_proofs -----------------------
(***************************************************************************)
(* Proofs about TerminationSignal.  The job of DcpCheckpoint keeps its     *)
(* invariant under what the callback adds: a rank that leaves from the end *)
(* of a step, and a save off the save_iter grid (the reason why the        *)
(* theorems are about an object store: on a file system that save may      *)
(* rewrite the checkpoint the pointer names).  TermInv says what a rank's  *)
(* decision commits it to; AckInv how far behind the iteration it last     *)
(* heard of the pointer can be.                                            *)
(***************************************************************************)
EXTENDS TerminationSignal, DcpDurability_proofs

Left    == {"finalize", "closing", "join", "barrier", "done"}
Leaving(r) == pc[r] \in Left \/ ((Saving(r) \/ pc[r] = "working") /\ ret[r] = "finalize")

\* A rank that decided to save leaves with that save.
Committed(r) == decision[r] = "save" => Leaving(r) \/ pc[r] = "failed"

TermInv ==
    /\ decision \in [Ranks -> Decisions]
    /\ DInv
    /\ InStep
    /\ \A r \in Ranks : Committed(r)
    /\ decision[0] = "save" => Drained

\* The saves of a rank are of due iterations, but for the one it leaves with.
Scheduled(r) ==
    /\ Saving(r) /\ ret[r] = "stepend" => SaveDue(it[r])
    /\ Saving(r) /\ ret[r] = "train" => ~inflight[r] /\ it[r] = 0
    /\ inflight[r] => SaveDue(stage[r].it) \/ pc[r] \in Left \/ pc[r] = "failed"
    /\ pc[r] = "save" /\ inflight[r] /\ ret[r] = "stepend" => stage[r].it < it[r]

\* What a rank heard of is in the pointer, or a whole interval ago.
Heard(r) ==
    Loaded(r) => \/ acked[r] <= RestartAt
                 \/ it[r] - acked[r] >= SaveIter
                 \/ Leaving(r)

Skipped(r) == decision[r] = "skip" => pc[r] = "done" /\ it[r] - RestartAt < MinProgress

AckInv == \A r \in Ranks : Scheduled(r) /\ Heard(r) /\ Skipped(r)
-----------------------------------------------------------------------------
(***************************************************************************)
(* The job under the callback                                              *)
(***************************************************************************)

Poll(r) == PollSkip(r) \/ PollSave(r) \/ EmergencyExit(r)

LEMMA PollFacts ==
    ASSUME TypeOK, NEW r \in Ranks, Poll(r)
    PROVE  /\ UNCHANGED <<shard, meta, pkl, latest, job, it, mem, pos, resume, acked,
                          inflight, stage, tasks, results>>
           /\ \A q \in Ranks \ {r} : pc'[q] = pc[q] /\ ret'[q] = ret[q] /\ wk'[q] = wk[q]
           /\ \/ pc[r] = "stepend" /\ pc'[r] = "save" /\ ret'[r] = "finalize" /\ wk'[r] = wk[r]
              \/ pc[r] \in {"stepend", "barrier"} /\ pc'[r] = "done" /\ wk'[r] = wk[r]
              \/ pc[r] = "stepend" /\ pc'[r] = "done" /\ Async /\ wk'[r] = At(r, "dead")
           /\ pc' \in [Ranks -> MainStates] /\ TypeOK'
<1> USE DEF TypeOK, MainStates, WorkerStates
<1>1. CASE PollSkip(r)
  <2>1. /\ UNCHANGED <<shard, meta, pkl, latest, job, it, mem, pos, resume, ret, acked,
                       inflight, stage, tasks, results>>
        /\ pc[r] = "stepend" /\ pc' = [pc EXCEPT ![r] = "done"]
        /\ wk' = IF Async THEN [wk EXCEPT ![r] = At(r, "dead")] ELSE wk
    BY <1>1 DEF PollSkip, storageVars, asyncVars
  <2>2. At(r, "dead") \in [st : WorkerStates, key : Keys, it : Iters]
    BY DEF At
  <2>3. wk' \in [Ranks -> [st : WorkerStates, key : Keys, it : Iters]]
    BY <2>1, <2>2
  <2>4. pc' \in [Ranks -> MainStates]
    BY <2>1
  <2>5. TypeOK'
    BY <2>1, <2>3, <2>4
  <2>6. \A q \in Ranks \ {r} : pc'[q] = pc[q] /\ ret'[q] = ret[q] /\ wk'[q] = wk[q]
    BY <2>1
  <2>7. pc'[r] = "done" /\ (wk'[r] = wk[r] \/ (Async /\ wk'[r] = At(r, "dead")))
    BY <2>1
  <2> HIDE DEF TypeOK
  <2> QED
    BY <2>1, <2>4, <2>5, <2>6, <2>7
<1>2. CASE PollSave(r)
  <2>1. /\ UNCHANGED <<shard, meta, pkl, latest, job, it, mem, pos, resume, acked,
                       inflight, stage, tasks, results, wk>>
        /\ pc[r] = "stepend" /\ pc' = [pc EXCEPT ![r] = "save"]
        /\ ret' = [ret EXCEPT ![r] = "finalize"]
    BY <1>2 DEF PollSave, EnterSave, AfterEmergencySave, storageVars, asyncVars
  <2>2. /\ pc' \in [Ranks -> MainStates]
        /\ ret' \in [Ranks -> {"train", "stepend", "finalize"}]
    BY <2>1
  <2>3. TypeOK'
    BY <2>1, <2>2
  <2>4. \A q \in Ranks \ {r} : pc'[q] = pc[q] /\ ret'[q] = ret[q] /\ wk'[q] = wk[q]
    BY <2>1
  <2>5. pc'[r] = "save" /\ ret'[r] = "finalize" /\ wk'[r] = wk[r]
    BY <2>1
  <2> HIDE DEF TypeOK
  <2> QED
    BY <2>1, <2>2, <2>3, <2>4, <2>5
<1>3. CASE EmergencyExit(r)
  <2>1. /\ UNCHANGED <<shard, meta, pkl, latest, job, it, mem, pos, resume, ret, acked,
                       inflight, stage, tasks, results, wk>>
        /\ pc[r] = "barrier" /\ pc' = [pc EXCEPT ![r] = "done"]
    BY <1>3 DEF EmergencyExit, storageVars, asyncVars
  <2>2. pc' \in [Ranks -> MainStates]
    BY <2>1
  <2>3. TypeOK'
    BY <2>1, <2>2
  <2>4. \A q \in Ranks \ {r} : pc'[q] = pc[q] /\ ret'[q] = ret[q] /\ wk'[q] = wk[q]
    BY <2>1
  <2>5. pc'[r] = "done" /\ wk'[r] = wk[r]
    BY <2>1
  <2> HIDE DEF TypeOK
  <2> QED
    BY <2>1, <2>2, <2>3, <2>4, <2>5
<1> QED
  BY <1>1, <1>2, <1>3 DEF Poll

\* What the worker and the main process of a rank are after a poll.
LEMMA PollMoves ==
    ASSUME TypeOK, NEW r \in Ranks, Poll(r), NEW q \in Ranks
    PROVE  /\ Unstarted(q)' <=> Unstarted(q)
           /\ Loaded(q)' <=> Loaded(q)
           /\ wk'[q] = wk[q] \/ wk'[q].st = "dead"
           /\ pc'[q] = pc[q] \/ (q = r /\ pc'[q] \in {"save", "done"} /\ Loaded(q))
<1>1. At(r, "dead").st = "dead"
  BY DEF At
<1> QED
  BY <1>1, PollFacts DEF Unstarted, Loaded

LEMMA PollInv ==
    ASSUME ObjectStore, IInv, NEW r \in Ranks, Poll(r)
    PROVE  IInv'
<1> USE DEF IInv
<1>1. UNCHANGED <<shard, meta, pkl, latest, job, it, mem, pos, resume, acked,
                  inflight, stage, tasks, results>>
  BY PollFacts
<1>2. TypeOK' /\ 0 \in Ranks
  BY PollFacts, RankZero
<1>3. Lanes'
  <2>1. ASSUME NEW q \in Ranks \ {r} PROVE Lane(q)'
    <3>1. Lane(q) /\ LaneState(q)' = LaneState(q)
      BY <1>1, PollFacts DEF Lanes, LaneState
    <3> QED
      BY <3>1, LaneFrame
  <2>2. Lane(r)
    BY DEF Lanes
  <2>3. Lane(r)'
    <3>1. Busy(r)' => Busy(r) /\ wk'[r] = wk[r]
      BY PollMoves DEF Busy
    <3>2. CASE Async
      BY <1>1, <2>2, <3>1, <3>2, PollFacts DEF Lane, AsyncLane
    <3>3. CASE ~Async
      BY <1>1, <2>2, <3>1, <3>3, PollFacts DEF Lane, SyncLane
    <3> QED
      BY <3>2, <3>3
  <2> QED
    BY <2>1, <2>3 DEF Lanes
<1>4. Booting'
  <2>1. RestartAt' = RestartAt
    BY <1>1 DEF RestartAt
  <2>2. \A q \in Ranks : Unstarted(q)' => Unstarted(q) /\ pc'[q] = pc[q]
    BY PollMoves DEF Unstarted, Loaded
  <2> QED
    BY <1>1, <2>1, <2>2 DEF Booting
<1>5. Progress'
  BY <1>1, PollMoves DEF Progress
<1>6. Lineage'
  <2>1. \A v \in Version : Alive(v)' => Alive(v)
    BY <1>1, PollMoves DEF Alive
  <2>2. \A q \in Ranks, v \in Version : Loaded(q)' /\ Alive(v) /\ v.it > it'[q] => v.job = job
    BY <1>1, PollMoves DEF Lineage
  <2> QED
    BY <1>1, <2>1, <2>2, LineageFrame
<1>7. Written'
  <2>1. \A q \in Ranks : wk'[q].st \in {"plan", "wrote"} => wk'[q] = wk[q]
    BY PollMoves
  <2>2. \A q \in Ranks : Source(q)' = Source(q)
    BY <1>1 DEF Source
  <2> QED
    BY <1>1, <2>1, <2>2 DEF Written
<1>8. Publishing'
  <2>1. \A q \in Ranks : wk'[q].st \in {"pkl", "pointer"} => wk'[q] = wk[q]
    BY PollMoves
  <2>2. Source(0)' = Source(0) /\ \A i \in Iters : Intact(i)' <=> Intact(i)
    BY <1>1 DEF Source, Intact
  <2>3. wk[0].it \in Iters /\ \A q \in Ranks : Unstarted(q)' <=> Unstarted(q)
    BY <1>2, PollMoves DEF TypeOK
  <2> QED
    BY <1>1, <1>2, <2>1, <2>2, <2>3 DEF Publishing
<1>9. PublishedIntact'
  BY <1>1 DEF PublishedIntact, Intact
<1>10. Fresh'
  BY DEF Fresh
<1> QED
  BY <1>2, <1>3, <1>4, <1>5, <1>6, <1>7, <1>8, <1>9, <1>10

LEMMA PollDurable ==
    ASSUME ObjectStore, DInv, NEW r \in Ranks, Poll(r)
    PROVE  DInv'
<1> USE DEF DInv
<1>1. UNCHANGED <<shard, meta, pkl, latest, job, it, mem, pos, resume, acked,
                  inflight, stage, tasks, results>>
  BY PollFacts DEF IInv
<1>2. IInv' /\ 0 \in Ranks
  BY PollInv, RankZero
<1>3. \A q \in Ranks : /\ Unstarted(q)' <=> Unstarted(q)
                       /\ Loaded(q)' <=> Loaded(q)
                       /\ wk'[q] = wk[q] \/ wk'[q].st = "dead"
  BY PollMoves DEF IInv
<1>4. Ahead'
  <2>1. \A v \in Version : Alive(v)' => Alive(v)
    BY <1>1, <1>3 DEF Alive
  <2> QED
    BY <1>1, <2>1 DEF Ahead
<1>5. Forward' /\ SavedOnce' /\ Reported'
  BY <1>1, <1>2, <1>3 DEF Forward, SavedOnce, Reported
<1>6. ASSUME NEW i \in Iters, Promised(i)' PROVE Settled(i)'
  <2>1. Promised(i)
    BY <1>1, <1>3, <1>6 DEF Promised
  <2>2. Settled(i)
    BY <2>1 DEF Durable
  <2>3. Intact(i)'
    BY <1>1, <2>2 DEF Settled, Intact
  <2>4. ASSUME NEW q \in Ranks, NEW v \in Version, v \in ToWrite(q)', v.it = i
        PROVE  v = shard[i][1][0]
    <3>1. CASE v \in ToWrite(q)
      BY <2>2, <2>4, <3>1 DEF Settled
    <3>2. CASE v \notin ToWrite(q)
      <4>1. \/ v \in ToWrite(q)
            \/ Saving(q)' /\ ~Saving(q) /\ v = mem[q]
        <5>1. \/ Saving(q)' /\ v = mem[q]
              \/ tasks[q] = <<SaveTask(stage[q].it)>> /\ v = stage[q]
              \/ wk[q].st \in {"plan", "wrote"} /\ v = Source(q)
          BY <1>1, <1>3, <2>4 DEF ToWrite, Source
        <5> QED
          BY <5>1 DEF ToWrite
      <4>2. Loaded(q) /\ v = mem[q]
        BY <3>2, <4>1, PollMoves DEF Saving, Loaded, IInv
      <4>3. it[q] = i
        BY <2>4, <4>2 DEF IInv, Progress
      <4> QED
        BY <2>2, <4>2, <4>3, SettledVersion
    <3> QED
      BY <3>1, <3>2
  <2>5. ASSUME NEW q \in Ranks
        PROVE  /\ Unstarted(q)' => i = latest'
               /\ Loaded(q)' => i <= it'[q]
               /\ \A v \in Version :
                     v \in ToWrite(q)' /\ v.it = i => ObjectStore /\ v = shard'[i][1][0]
    <3>1. Unstarted(q)' => i = latest'
      BY <1>1, <1>3, <2>2 DEF Settled
    <3>2. Loaded(q)' => i <= it'[q]
      BY <1>1, <1>3, <2>2 DEF Settled
    <3>3. shard'[i][1][0] = shard[i][1][0]
      BY <1>1
    <3> QED
      BY <2>4, <3>1, <3>2, <3>3
  <2>6. latest' < i => shard'[i][1][0].job = job'
    BY <1>1, <2>2 DEF Settled
  <2>7. \A q \in Ranks : \A v \in ToWrite(q)' : v \in Version
    BY DEF ToWrite
  <2> QED
    BY <2>3, <2>5, <2>6, <2>7 DEF Settled
<1> QED
  BY <1>2, <1>4, <1>5, <1>6 DEF Durable

\* A new incarnation keeps the invariant, however the last one ended.
LEMMA RebootDurable ==
    ASSUME DInv, Reboot
    PROVE  Newborn' /\ DInv' /\ PInv'
<1> USE DEF DInv, IInv
<1>1. Newborn'
  BY RebootNewborn
<1>2. TypeOK'
  <2>1. TypeInv
    BY DEF TypeInv, Booting, Unstarted
  <2> QED
    BY <2>1, RebootType DEF TypeInv
<1>3. PublishedIntact'
  BY <1>2, RebootInv
<1>4. (TypeOK /\ Newborn /\ PublishedIntact)' => DInv'
  BY NewbornDurable, PTL
<1>5. (DInv /\ Newborn)' => PInv'
  BY NewbornProgress, PTL
<1> QED
  BY <1>1, <1>2, <1>3, <1>4, <1>5

\* A step of the job that is no crash, and decides nothing.
JobStep == [Next]_vars /\ ~Restart /\ UNCHANGED decision

LEMMA TermSteps ==
    ASSUME TypeOK, [TermNext]_termVars
    PROVE  \/ JobStep
           \/ \E r \in Ranks : Poll(r)
           \/ Reboot /\ decision' = Everywhere("none")
<1>1. ASSUME UNCHANGED decision,
             \/ Steps \/ FinishTraining \/ UNCHANGED vars \/ CollectiveFails
             \/ \E r \in Ranks : TrainingStepEnd(r) \/ LocalWriteFails(r) \/ BackgroundDies(r)
      PROVE  JobStep
  <2>1. [Next]_vars
    BY <1>1 DEF Next, Faults
  <2>2. ASSUME NEW r \in Ranks, Main(r) PROVE UNCHANGED job
    BY <2>2 DEF Main, ReadPointer, LoadCheckpoint, TrainingStep, LeaveLoop, BeginSave,
       SaveLoaderStateInline, StageAndSubmit, FinishSyncSave, ReceiveResult, ResultTimeout,
       Finalize, SendTerminate, JoinBackground
  <2>3. ASSUME NEW r \in Ranks,
               Worker(r) \/ TrainingStepEnd(r) \/ LocalWriteFails(r) \/ BackgroundDies(r)
        PROVE  UNCHANGED job
    BY <2>3 DEF Worker, ReceiveTask, WriteShard, SaveLoaderState, WritePointer, ReportResult,
       PeerLost, TrainingStepEnd, LocalWriteFails, BackgroundDies
  <2>4. ASSUME NEW k \in Keys, NEW i \in Iters, CommitKey(k, i) PROVE UNCHANGED job
    BY <2>4 DEF CommitKey
  <2>5. FinishTraining \/ UNCHANGED vars \/ CollectiveFails => UNCHANGED job
    BY DEF FinishTraining, vars, CollectiveFails
  <2>6. UNCHANGED job
    BY <1>1, <2>2, <2>3, <2>4, <2>5 DEF Steps
  <2> QED
    BY <1>1, <2>1, <2>6, SameJob DEF JobStep
<1>2. CASE Steps /\ UNCHANGED <<sentinel, decision>>
  BY <1>1, <1>2
<1>3. ASSUME NEW r \in Ranks, PollClear(r) \/ PollSkip(r) \/ PollSave(r) \/ EmergencyExit(r)
      PROVE  JobStep \/ Poll(r)
  BY <1>1, <1>3 DEF PollClear, Poll
<1>4. CASE TermFinishTraining \/ SentinelAppears
  BY <1>1, <1>4 DEF TermFinishTraining, SentinelAppears
<1>5. CASE Requeue
  BY <1>5 DEF Requeue
<1>6. CASE TermFaults
  BY <1>1, <1>6 DEF TermFaults, TermRestart, Restart
<1>7. CASE (Terminated /\ UNCHANGED <<sentinel, decision>>) \/ UNCHANGED termVars
  BY <1>1, <1>7 DEF Terminated, termVars
<1> QED
  BY <1>2, <1>3, <1>4, <1>5, <1>6, <1>7 DEF TermNext
-----------------------------------------------------------------------------
(***************************************************************************)
(* What a decision commits a rank to                                       *)
(***************************************************************************)

LEMMA LeftStays ==
    ASSUME TypeOK, [Next]_vars, ~Restart, NEW q \in Ranks, pc[q] \in Left
    PROVE  pc'[q] \in Left \/ pc'[q] = "failed"
BY PcMoves DEF Left, Starts, ReadPointer, LoadCheckpoint, TrainingStep, LeaveLoop,
               StageAndSubmit, FinishSyncSave

LEMMA DoneStays ==
    ASSUME TypeOK, [Next]_vars, ~Restart, NEW q \in Ranks, pc[q] = "done"
    PROVE  pc'[q] = "done" /\ it'[q] = it[q]
<1>1. ~Starts(q)
  BY DEF Starts, ReadPointer, LoadCheckpoint, TrainingStep
<1>2. it'[q] = it[q]
  BY <1>1, MemSteps
<1>3. pc'[q] = pc[q]
  BY MainMoves DEF Main, ReadPointer, LoadCheckpoint, TrainingStep, LeaveLoop, BeginSave,
     SaveLoaderStateInline, StageAndSubmit, FinishSyncSave, ReceiveResult, ResultTimeout,
     AwaitingResult, Finalize, SendTerminate, JoinBackground, TrainingStepEnd, FinishTraining
<1> QED
  BY <1>2, <1>3

LEMMA LeavingStays ==
    ASSUME TypeOK, [Next]_vars, ~Restart, NEW q \in Ranks, Leaving(q)
    PROVE  Leaving(q)' \/ pc'[q] = "failed"
<1>1. CASE pc[q] \in Left
  BY <1>1, LeftStays DEF Leaving
<1>2. CASE (Saving(q) \/ pc[q] = "working") /\ ret[q] = "finalize"
  <2>1. ~Starts(q) /\ ~LeaveLoop(q)
    BY <1>2 DEF Starts, ReadPointer, LoadCheckpoint, TrainingStep, LeaveLoop, Saving
  <2>2. ret'[q] = "finalize"
    BY <1>2, <2>1, RetSteps
  <2>3. StageAndSubmit(q) \/ FinishSyncSave(q) => pc'[q] \in {"finalize", "failed"}
    BY <1>2 DEF StageAndSubmit, FinishSyncSave, Raise, TypeOK
  <2> QED
    BY <1>2, <2>1, <2>2, <2>3, PcMoves DEF Leaving, Left, Saving
<1> QED
  BY <1>1, <1>2 DEF Leaving

LEMMA TermStep ==
    ASSUME ObjectStore, TermInv, [TermNext]_termVars
    PROVE  TermInv'
<1> USE DEF TermInv
<1>a. TypeOK /\ SafeStorage /\ 0 \in Ranks
  BY RankZero DEF DInv, IInv, SafeStorage
<1>1. CASE JobStep
  <2>1. [Next]_vars /\ ~Restart /\ UNCHANGED decision
    BY <1>1 DEF JobStep
  <2>2. DInv' /\ InStep'
    BY <1>a, <2>1, NextDurable, InStepStep
  <2>3. ASSUME NEW r \in Ranks PROVE Committed(r)'
    BY <1>a, <2>1, LeavingStays, FailedStays DEF Committed
  <2>4. (decision[0] = "save") => Drained'
    <3>1. decision[0] = "save" => ~LeaveLoop(0)
      BY <1>a DEF Committed, Leaving, Left, Saving, LeaveLoop
    <3> QED
      BY <2>1, <3>1, DrainedStep
  <2> QED
    BY <2>1, <2>2, <2>3, <2>4
<1>2. ASSUME NEW r \in Ranks, Poll(r) PROVE TermInv'
  <2>1. DInv'
    BY <1>2, PollDurable
  <2>2. /\ UNCHANGED <<it, latest, inflight, stage>>
        /\ \A q \in Ranks \ {r} : pc'[q] = pc[q] /\ ret'[q] = ret[q] /\ wk'[q] = wk[q]
    BY <1>a, <1>2, PollFacts
  <2>3. InStep'
    <3>1. RestartAt' = RestartAt
      BY <2>2 DEF RestartAt
    <3>2. \A q \in Ranks : pc[q] = "train" => pc'[q] = "train"
      BY <1>a, <1>2, PollFacts
    <3> QED
      BY <2>2, <3>1, <3>2 DEF InStep
  <2>4. CASE PollSkip(r)
    <3>1. decision' = [decision EXCEPT ![r] = "skip"]
      BY <2>4 DEF PollSkip
    <3>2. decision' \in [Ranks -> Decisions] /\ decision'[r] = "skip"
          /\ \A q \in Ranks \ {r} : decision'[q] = decision[q]
      BY <3>1 DEF Decisions
    <3>3. \A q \in Ranks : Committed(q)'
      BY <2>2, <3>2 DEF Committed, Leaving, Saving
    <3>4. decision'[0] = "save" => Drained'
      BY <1>a, <2>2, <3>2 DEF Drained
    <3> QED
      BY <2>1, <2>3, <3>2, <3>3, <3>4
  <2>5. CASE PollSave(r)
    <3>1. decision' = [decision EXCEPT ![r] = "save"]
      BY <2>5 DEF PollSave
    <3>2. decision' \in [Ranks -> Decisions]
          /\ \A q \in Ranks \ {r} : decision'[q] = decision[q]
      BY <3>1 DEF Decisions
    <3>3. pc'[r] = "save" /\ ret'[r] = "finalize"
      BY <1>a, <2>5 DEF PollSave, EnterSave, AfterEmergencySave, TypeOK
    <3>4. \A q \in Ranks : Committed(q)'
      BY <2>2, <3>2, <3>3 DEF Committed, Leaving, Saving
    <3>5. decision'[0] = "save" => Drained'
      BY <1>a, <2>2, <3>2, <3>3 DEF Drained
    <3> QED
      BY <2>1, <2>3, <3>2, <3>4, <3>5
  <2>6. CASE EmergencyExit(r)
    <3>1. UNCHANGED <<decision, wk>> /\ pc[r] = "barrier" /\ pc'[r] = "done"
      BY <1>a, <2>6 DEF EmergencyExit, TypeOK
    <3>2. \A q \in Ranks : Committed(q)'
      BY <2>2, <3>1 DEF Committed, Leaving, Left, Saving
    <3>3. decision'[0] = "save" => Drained'
      BY <1>a, <2>2, <3>1 DEF Drained
    <3> QED
      BY <2>1, <2>3, <3>1, <3>2, <3>3
  <2> QED
    BY <1>2, <2>4, <2>5, <2>6 DEF Poll
<1>3. CASE Reboot /\ decision' = Everywhere("none")
  <2>1. DInv' /\ PInv'
    BY <1>3, RebootDurable
  <2>2. decision' \in [Ranks -> Decisions] /\ \A q \in Ranks : decision'[q] = "none"
    BY <1>3 DEF Everywhere, Decisions
  <2> QED
    BY <1>a, <2>1, <2>2 DEF PInv, Committed
<1> QED
  BY <1>a, <1>1, <1>2, <1>3, TermSteps
-----------------------------------------------------------------------------
(***************************************************************************)
(* How far behind the pointer a rank can believe itself                    *)
(***************************************************************************)

LEMMA ScheduledStep ==
    ASSUME Async, DInv, [Next]_vars, ~Restart, NEW r \in Ranks, Scheduled(r)
    PROVE  Scheduled(r)'
<1> USE DEF DInv, IInv
<1>a. /\ TypeOK /\ Lane(r) /\ it[r] \in Int /\ SaveDue(0)
  <2>1. it[r] \in Int /\ Lane(r)
    BY ItersInt DEF TypeOK, Lanes
  <2>2. SaveDue(0)
    BY DcpAssumption DEF SaveDue
  <2> QED
    BY <2>1, <2>2
<1>b. /\ inflight[r] => stage[r].it \in Int /\ stage[r].it <= it[r] /\ ~Unstarted(r)
  BY <1>a, Numbers DEF Lane, AsyncLane, Unstarted
<1>1. ASSUME Saving(r)'
      PROVE  /\ ret'[r] = "stepend" => SaveDue(it'[r])
             /\ ret'[r] = "train" => ~inflight'[r] /\ it'[r] = 0
             /\ pc'[r] = "save" /\ inflight'[r] /\ ret'[r] = "stepend" => stage'[r].it < it'[r]
  <2>1. CASE ReadPointer(r) \/ LoadCheckpoint(r)
    <3>1. ret'[r] = "train" /\ it'[r] = 0 /\ UNCHANGED inflight
      BY <1>a, <1>1, <2>1 DEF ReadPointer, LoadCheckpoint, StartTraining, EnterSave, Raise, Saving,
         TypeOK, asyncVars
    <3>2. ~inflight[r]
      BY <1>b, <2>1 DEF Unstarted, ReadPointer, LoadCheckpoint
    <3> QED
      BY <3>1, <3>2
  <2>2. CASE TrainingStep(r)
    <3>1. /\ it'[r] = it[r] + 1 /\ UNCHANGED <<inflight, stage>>
          /\ SaveDue(it[r] + 1) /\ ret'[r] = "stepend"
      BY <1>a, <1>1, <2>2 DEF TrainingStep, EnterSave, Saving, TypeOK, asyncVars
    <3> QED
      BY <1>a, <1>b, <3>1
  <2>3. CASE LeaveLoop(r)
    <3>1. ret'[r] = "finalize"
      BY <1>a, <1>1, <2>3 DEF LeaveLoop, EnterSave, Saving, TypeOK
    <3> QED
      BY <3>1
  <2>4. CASE ~Starts(r) /\ ~LeaveLoop(r)
    <3>1. Saving(r) /\ it'[r] = it[r] /\ ret'[r] = ret[r] /\ (pc'[r] = "save" => pc[r] = "save")
      BY <1>1, <2>4, SavingSteps, RetSteps DEF StillSaving
    <3>2. ~StageAndSubmit(r)
      BY <1>a, <1>1 DEF StageAndSubmit, Saving, TypeOK
    <3>3. (inflight'[r] => inflight[r]) /\ stage'[r] = stage[r]
      BY <1>a, <3>2, InflightSteps, StageSteps
    <3> QED
      BY <3>1, <3>3 DEF Scheduled
  <2> QED
    BY <2>1, <2>2, <2>3, <2>4 DEF Starts
<1>2. ASSUME inflight'[r] PROVE SaveDue(stage'[r].it) \/ pc'[r] \in Left \/ pc'[r] = "failed"
  <2>1. CASE StageAndSubmit(r)
    <3>1. stage'[r] = mem[r] /\ pc'[r] = ret[r] /\ Saving(r) /\ Loaded(r)
      BY <1>a, <2>1, SubmitFacts DEF TypeOK
    <3>2. mem[r].it = it[r]
      BY <3>1 DEF Progress
    <3>3. ret[r] \in {"train", "stepend", "finalize"}
      BY <1>a DEF TypeOK
    <3> QED
      BY <1>a, <3>1, <3>2, <3>3 DEF Scheduled, Left
  <2>2. CASE ~StageAndSubmit(r)
    <3>1. inflight[r] /\ stage'[r] = stage[r]
      BY <1>a, <1>2, <2>2, InflightSteps, StageSteps
    <3> QED
      BY <1>a, <3>1, LeftStays, FailedStays DEF Scheduled
  <2> QED
    BY <2>1, <2>2
<1> QED
  BY <1>1, <1>2 DEF Scheduled, Saving

LEMMA HeardStep ==
    ASSUME Async, DInv, DInv', [Next]_vars, ~Restart, NEW r \in Ranks, Scheduled(r), Heard(r)
    PROVE  Heard(r)'
<1> SUFFICES ASSUME Loaded(r)'
             PROVE  \/ acked'[r] <= RestartAt'
                    \/ it'[r] - acked'[r] >= SaveIter
                    \/ Leaving(r)'
  BY DEF Heard
<1> USE DEF DInv, IInv
<1>a. /\ TypeOK /\ Lane(r) /\ it[r] \in Nat /\ it'[r] \in Nat /\ SaveIter \in Nat
      /\ acked[r] \in Int /\ RestartAt \in Int /\ RestartAt' \in Int /\ RestartAt <= RestartAt'
  <2>1. it[r] \in Iters /\ it'[r] \in Iters /\ acked[r] \in Iters /\ Lane(r)
    BY DEF TypeOK, Lanes
  <2> QED
    BY <2>1, ItersInt, RestartAtForward, DcpAssumption
<1>1. CASE ReadPointer(r) \/ LoadCheckpoint(r)
  <2>1. /\ acked'[r] = it'[r] /\ UNCHANGED latest
        /\ \/ it'[r] = 0 /\ latest \notin Iters
           \/ it'[r] = latest /\ latest \in Iters
    BY <1>1, StartAcked DEF ReadPointer, LoadCheckpoint, storageVars
  <2>2. RestartAt' = it'[r]
    BY <2>1 DEF RestartAt
  <2> QED
    BY <1>a, <2>1, <2>2
<1>2. CASE ReceiveResult(r)
  <2>1. /\ results[r] # <<>> /\ inflight[r] /\ pc[r] \in {"save", "closing"}
        /\ UNCHANGED <<it, ret, pc>> /\ acked'[r] = Head(results[r]).it
    <3>1. UNCHANGED pc /\ acked' = [acked EXCEPT ![r] = Head(results[r]).it]
      BY <1>2, AnswerFacts DEF Loaded
    <3>2. acked'[r] = Head(results[r]).it
      BY <3>1 DEF TypeOK
    <3> QED
      BY <1>2, <3>1, <3>2, AnswerFacts
  <2>2. acked'[r] = stage[r].it /\ stage[r].it \in Nat
    <3>1. stage[r] \in Version
      BY <1>a, <2>1 DEF Lane, AsyncLane
    <3> QED
      BY <2>1, <3>1, Numbers DEF Reported
  <2>3. CASE pc[r] = "closing" \/ ret[r] = "finalize"
    BY <2>1, <2>3 DEF Leaving, Left, Saving
  <2>4. CASE pc[r] = "save" /\ ret[r] = "stepend"
    <3>1. SaveDue(it[r]) /\ SaveDue(stage[r].it) /\ stage[r].it < it[r]
      BY <2>1, <2>4 DEF Scheduled, Saving, Left
    <3>2. it[r] - stage[r].it >= SaveIter
      BY <1>a, <2>2, <3>1, DueApart
    <3> QED
      BY <2>1, <2>2, <3>2
  <2>5. CASE pc[r] = "save" /\ ret[r] = "train"
    BY <2>1, <2>5 DEF Scheduled, Saving
  <2>6. ret[r] \in {"train", "stepend", "finalize"}
    BY <1>a DEF TypeOK
  <2> QED
    BY <2>1, <2>3, <2>4, <2>5, <2>6
<1>3. CASE acked'[r] = acked[r] /\ ~ReadPointer(r) /\ ~LoadCheckpoint(r)
  <2>1. Loaded(r)
    BY <1>3, BecomesLoaded
  <2>2. it[r] <= it'[r]
    BY <2>1, StartedStays DEF Loaded, Unstarted
  <2>3. Leaving(r) => Leaving(r)'
    BY <1>a, LeavingStays DEF Loaded
  <2> QED
    BY <1>a, <1>3, <2>1, <2>2, <2>3 DEF Heard
<1>4. ~FinishSyncSave(r)
  BY <1>a, FinishFacts
<1> QED
  BY <1>a, <1>1, <1>2, <1>3, <1>4, AckedSteps

LEMMA SkippedStep ==
    ASSUME DInv, JobStep, NEW r \in Ranks, Skipped(r)
    PROVE  Skipped(r)'
<1> USE DEF JobStep
<1>1. RestartAt \in Int /\ RestartAt' \in Int /\ RestartAt <= RestartAt'
  BY RestartAtForward, ItersInt
<1>2. CASE decision[r] = "skip"
  <2>1. pc'[r] = "done" /\ it'[r] = it[r] /\ it[r] \in Int
    BY <1>2, DoneStays, ItersInt DEF Skipped, DInv, IInv, TypeOK
  <2>2. it[r] - RestartAt < MinProgress /\ MinProgress \in Int
    BY <1>2, TerminationAssumption, DcpAssumption DEF Skipped
  <2> QED
    BY <1>1, <2>1, <2>2 DEF Skipped
<1> QED
  BY <1>2 DEF Skipped

LEMMA AckStep ==
    ASSUME ObjectStore, Async, TermInv, AckInv, [TermNext]_termVars
    PROVE  AckInv'
<1> USE DEF TermInv, AckInv
<1>a. TypeOK /\ SafeStorage
  BY DEF DInv, IInv, SafeStorage
<1>1. CASE JobStep
  <2>1. DInv'
    BY <1>a, <1>1, NextDurable DEF JobStep
  <2> QED
    BY <1>1, <2>1, ScheduledStep, HeardStep, SkippedStep DEF JobStep
<1>2. ASSUME NEW r \in Ranks, Poll(r) PROVE AckInv'
  <2>1. /\ UNCHANGED <<it, latest, inflight, stage, acked>>
        /\ \A q \in Ranks \ {r} : pc'[q] = pc[q] /\ ret'[q] = ret[q]
        /\ \/ pc[r] = "stepend" /\ pc'[r] = "save" /\ ret'[r] = "finalize"
           \/ pc[r] \in {"stepend", "barrier"} /\ pc'[r] = "done"
    BY <1>a, <1>2, PollFacts
  <2>2. RestartAt' = RestartAt
    BY <2>1 DEF RestartAt
  <2>3. ASSUME NEW q \in Ranks \ {r} PROVE Scheduled(q)' /\ Heard(q)' /\ Skipped(q)'
    <3>1. decision'[q] = decision[q]
      BY <1>2 DEF Poll, PollSkip, PollSave, EmergencyExit
    <3> QED
      BY <2>1, <2>2, <3>1 DEF Scheduled, Heard, Skipped, Saving, Loaded, Leaving
  <2>4. Scheduled(r)'
    BY <2>1 DEF Scheduled, Saving, Left
  <2>5. Heard(r)'
    BY <2>1 DEF Heard, Leaving, Left, Saving
  <2>6. CASE PollSkip(r)
    <3>1. /\ pc[r] = "stepend" /\ pc'[r] = "done" /\ LittleProgress(r)
      BY <1>a, <2>6 DEF PollSkip, TypeOK
    <3>2. it[r] \in Int /\ acked[r] \in Int /\ RestartAt \in Int
          /\ MinProgress \in Int /\ SaveIter \in Int /\ MinProgress <= SaveIter
      BY <1>a, ItersInt, RankZero, TerminationAssumption, DcpAssumption DEF TypeOK, RestartAt
    <3>3. acked[r] <= RestartAt
      BY <3>1, <3>2 DEF Heard, Loaded, Leaving, Left, Saving, LittleProgress
    <3>4. it[r] - RestartAt < MinProgress
      BY <3>1, <3>2, <3>3 DEF LittleProgress
    <3> QED
      BY <2>1, <2>2, <2>3, <2>4, <2>5, <3>1, <3>4 DEF Skipped
  <2>7. CASE PollSave(r)
    <3>1. decision'[r] = "save"
      BY <2>7 DEF PollSave
    <3> QED
      BY <2>3, <2>4, <2>5, <3>1 DEF Skipped
  <2>8. CASE EmergencyExit(r)
    <3>1. decision'[r] = "save"
      BY <2>8 DEF EmergencyExit
    <3> QED
      BY <2>3, <2>4, <2>5, <3>1 DEF Skipped
  <2> QED
    BY <1>2, <2>6, <2>7, <2>8 DEF Poll
<1>3. CASE Reboot /\ decision' = Everywhere("none")
  <2>1. Newborn'
    BY <1>3, RebootDurable
  <2>2. \A r \in Ranks : pc'[r] = "boot" /\ ~inflight'[r] /\ decision'[r] = "none"
    BY <1>3, <2>1 DEF Newborn, Everywhere
  <2> QED
    BY <2>2 DEF Scheduled, Heard, Skipped, Saving, Loaded
<1> QED
  BY <1>a, <1>1, <1>2, <1>3, TermSteps

LEMMA TermInitInv == TermInit => TermInv /\ AckInv
<1> SUFFICES ASSUME TermInit PROVE TermInv /\ AckInv
  OBVIOUS
<1>1. PInv
  BY InitProgress DEF TermInit
<1>2. /\ decision \in [Ranks -> Decisions] /\ 0 \in Ranks
      /\ \A r \in Ranks : pc[r] = "boot" /\ ~inflight[r] /\ decision[r] = "none"
  BY RankZero DEF TermInit, Init, Everywhere, Decisions
<1> QED
  BY <1>1, <1>2 DEF PInv, TermInv, AckInv, Committed, Scheduled, Heard, Skipped, Saving, Loaded
-----------------------------------------------------------------------------
(***************************************************************************)
(* The theorems                                                            *)
(***************************************************************************)

\* The job keeps its own invariant under the callback, and a rank that decided to
\* save leaves with that save and nothing else.
THEOREM TermInvariance == ObjectStore => (TermSpec => []TermInv)
<1> SUFFICES ASSUME ObjectStore PROVE TermSpec => []TermInv
  OBVIOUS
<1>1. TermInit => TermInv
  BY TermInitInv
<1>2. TermInv /\ [TermNext]_termVars => TermInv'
  BY TermStep
<1> QED
  BY <1>1, <1>2, PTL DEF TermSpec

\* Emergency saves, which are off the schedule of the trainer, and exits that kill the
\* background processes leave the pointer on a complete checkpoint of one job.
THEOREM TermPublishedIsIntact == ObjectStore => (TermSpec => []PublishedIntact)
<1>1. TermInv => PublishedIntact
  BY DEF TermInv, DInv, IInv
<1> QED
  BY <1>1, TermInvariance, PTL

\* When every rank has made its emergency save and left, that checkpoint is
\* complete and the one the next job will find.
THEOREM EmergencySaveIsDurable == ObjectStore => (TermSpec => []EmergencySaveDurable)
<1> SUFFICES ASSUME ObjectStore PROVE TermSpec => []EmergencySaveDurable
  OBVIOUS
<1>1. TermInv => EmergencySaveDurable
  <2> SUFFICES ASSUME TermInv,
                      \A r \in Ranks :
                         decision[r] = "save" /\ pc[r] = "done" /\ wk[r].st # "dead"
               PROVE  (\A r \in Ranks : latest = it[r]) /\ Intact(latest)
    BY DEF EmergencySaveDurable
  <2> USE DEF TermInv, DInv, IInv
  <2>1. 0 \in Ranks /\ latest = it[0] /\ it[0] \in Iters /\ it[0] \in Int
    BY RankZero, ItersInt DEF Drained, TypeOK
  <2>2. RestartAt = it[0]
    BY <2>1 DEF RestartAt
  <2>3. ASSUME NEW r \in Ranks PROVE it[r] = it[0]
    <3>1. it[r] \in Int /\ latest <= it[r]
      BY AtLeastPointer DEF Loaded
    <3>2. it[r] <= it[0]
      BY <2>1, <2>2, <3>1 DEF InStep
    <3> QED
      BY <2>1, <3>1, <3>2
  <2> QED
    BY <2>1, <2>3 DEF PublishedIntact
<1> QED
  BY <1>1, TermInvariance, PTL

\* What the callback remembers of the last success is behind the pointer when it
\* decides, or a whole interval behind.
THEOREM AckInvariance == ObjectStore /\ Async => (TermSpec => [](TermInv /\ AckInv))
<1> SUFFICES ASSUME ObjectStore, Async PROVE TermSpec => [](TermInv /\ AckInv)
  OBVIOUS
<1>1. TermInit => TermInv /\ AckInv
  BY TermInitInv
<1>2. TermInv /\ AckInv /\ [TermNext]_termVars => (TermInv /\ AckInv)'
  BY TermStep, AckStep
<1> QED
  BY <1>1, <1>2, PTL DEF TermSpec

\* A rank that exits without a save gives up fewer than MinProgress iterations
\* against the checkpoint the next job finds.
THEOREM SkipLosesLittleAlways == ObjectStore /\ Async => (TermSpec => []SkipLosesLittle)
<1> SUFFICES ASSUME ObjectStore, Async PROVE TermSpec => []SkipLosesLittle
  OBVIOUS
<1>1. TermInv /\ AckInv => SkipLosesLittle
  <2> SUFFICES ASSUME TermInv, AckInv, NEW r \in Ranks, decision[r] = "skip"
               PROVE  it[r] - (IF latest < 0 THEN 0 ELSE latest) < MinProgress
    BY DEF SkipLosesLittle
  <2>1. latest \in Pointers
    BY DEF TermInv, DInv, IInv, TypeOK
  <2>2. (IF latest < 0 THEN 0 ELSE latest) = RestartAt
    BY <2>1, Numbers, ItersInt DEF RestartAt
  <2> QED
    BY <2>2 DEF AckInv, Skipped
<1> QED
  BY <1>1, AckInvariance, PTL
=============================================================================
