--------------------------- MODULE HFExport_proofs ---------------------------
(***************************************************************************)
(* Proofs about HFExport.  The job of DcpCheckpoint keeps its invariant    *)
(* under the one step the callback adds to it, an error raised in rank 0;  *)
(* what the exports need besides is ExpInv: rank 0 asks for one export at  *)
(* a time, of ever later iterations, leaves none out that is due, and      *)
(* remembers a failure until it has raised it.                             *)
(***************************************************************************)
EXTENDS HFExport, DcpDurability_proofs

ExportTypes ==
    /\ thread \in [alive : BOOLEAN, next : 1 .. NumFiles + 2, weights : Version \cup {NoFile}]
    /\ files \in [Iters -> [Files -> Content]]
    /\ index \in [Iters -> Content]
    /\ copied \in [Iters -> [state : {"absent", "torn", "whole"}, by : Nat]]
    /\ asked \subseteq Version

\* A job that has not started on rank 0 has exported nothing.
NothingAsked == Unstarted(0) => asked = {} /\ failures = {} /\ ~thread.alive

\* Rank 0 asks for the weights it trains, and for one version of an iteration.
AskedInOrder ==
    /\ \A v \in asked : v.it <= it[0] /\ (v.it = it[0] => v = mem[0])
    /\ \A v, w \in asked : v.it = w.it => v = w

\* An export is delivered, or under way, or has failed.
Delivered(v) == Whole(v) /\ CopiedUnlessCut(v.it)
Accounted ==
    \A v \in asked : Delivered(v) \/ (thread.alive /\ v = thread.weights) \/ v.it \in failures

\* What is torn of the copied files an earlier job tore, or this one, which failed.
Cuts ==
    \A i \in Iters : /\ copied[i].by <= job
                     /\ copied[i].state = "torn" => copied[i].by < job \/ i \in failures

\* The thread works at the last export asked for.
UnderWay ==
    thread.alive =>
        /\ thread.weights \in asked
        /\ \A v \in asked : v.it <= Exporting
        /\ \A n \in Files : n < thread.next => files[Exporting][n] = Exported
        /\ thread.next = NumFiles + 2 => index[Exporting] = Exported

\* A failure is that of the last export asked for, and is kept until raised.
Remembered ==
    /\ failures # {} => error \/ pc[0] = "failed"
    /\ \A i \in failures : /\ \E v \in asked : v.it = i
                           /\ \A v \in asked : v.it <= i

Clean == Returned => ~error /\ ~thread.alive

\* Behind its first export, rank 0 leaves out none that is due.
NoneLeftOut ==
    \A v \in asked, i \in Iters :
        /\ SaveDue(i) /\ ExportDue(i) /\ v.it < i
        /\ i < it[0] \/ (i = it[0] /\ pc[0] \notin {"save", "failed"})
        => \E w \in asked : w.it = i

ExpInv ==
    /\ ExportTypes
    /\ NothingAsked
    /\ AskedInOrder
    /\ Accounted
    /\ Cuts
    /\ UnderWay
    /\ Remembered
    /\ Clean
    /\ NoneLeftOut
-----------------------------------------------------------------------------
(***************************************************************************)
(* The job under the callback                                              *)
(***************************************************************************)

\* Where rank 0 raises the error of an export.
Raising == pc[0] \in {"save", "finalize"} /\ RaiseStored

LEMMA RaisedInv ==
    ASSUME IInv, Raising
    PROVE  IInv'
<1> USE DEF IInv
<1>1. /\ pc[0] \in {"save", "finalize"} /\ pc' = [pc EXCEPT ![0] = "failed"]
      /\ UNCHANGED <<shard, meta, pkl, latest, job, it, mem, pos, resume, ret, acked,
                     inflight, stage, tasks, results, wk>>
  BY DEF Raising, RaiseStored, Raise, storageVars, asyncVars
<1>2. /\ 0 \in Ranks /\ pc'[0] = "failed" /\ \A q \in Ranks \ {0} : pc'[q] = pc[q]
      /\ \A q \in Ranks : /\ Unstarted(q)' => Unstarted(q) /\ pc'[q] = pc[q]
                          /\ Unstarted(q) => Unstarted(q)'
                          /\ Loaded(q)' => Loaded(q)
  BY <1>1, RankZero DEF TypeOK, Unstarted, Loaded
<1>3. TypeOK'
  BY <1>1 DEF TypeOK, MainStates
<1>4. Lanes'
  <2>1. ASSUME NEW q \in Ranks \ {0} PROVE Lane(q)'
    <3>1. Lane(q)
      BY DEF Lanes
    <3>2. LaneState(q)' = LaneState(q)
      BY <1>1, <1>2 DEF LaneState
    <3> QED
      BY <3>1, <3>2, LaneFrame
  <2>2. Lane(0)
    BY <1>2 DEF Lanes
  <2>3. Lane(0)'
    BY <1>1, <1>2, <2>2 DEF Lane, AsyncLane, SyncLane, Busy
  <2> QED
    BY <2>1, <2>3 DEF Lanes
<1>5. Booting'
  <2>1. RestartAt' = RestartAt
    BY <1>1 DEF RestartAt
  <2> QED
    BY <1>1, <1>2, <2>1 DEF Booting
<1>6. Progress'
  BY <1>1, <1>2 DEF Progress
<1>7. Lineage'
  <2>1. \A v \in Version : Alive(v)' => Alive(v)
    BY <1>1, <1>2 DEF Alive
  <2>2. \A q \in Ranks, v \in Version : Loaded(q)' /\ Alive(v) /\ v.it > it'[q] => v.job = job
    BY <1>1, <1>2 DEF Lineage
  <2> QED
    BY <1>1, <2>1, <2>2, LineageFrame
<1>8. Written'
  BY <1>1 DEF Written, Source
<1>9. Publishing'
  BY <1>1, <1>2 DEF Publishing, Intact, Source
<1>10. PublishedIntact'
  BY <1>1 DEF PublishedIntact, Intact
<1>11. Fresh'
  BY <1>1, <1>2 DEF Fresh
<1> QED
  BY <1>3, <1>4, <1>5, <1>6, <1>7, <1>8, <1>9, <1>10, <1>11

filesVars == <<thread, error, files, index, copied, asked, failures>>

\* A step of the job that the export does not take part in: rank 0 leaves an
\* export out only when none is due, and on_train_end only behind its thread.
Apart ==
    /\ [Next]_vars /\ ~Restart
    /\ UNCHANGED <<job, filesVars>>
    /\ pc[0] = "save" /\ pc'[0] \notin {"save", "failed"} => ~ExportDue(it[0])
    /\ Returned' => Returned \/ (~thread.alive /\ ~error)

Asking == /\ BeginSave(0) /\ StartThread
          /\ UNCHANGED <<error, files, index, copied, failures>>

LEMMA UnhookedApart ==
    ASSUME TypeOK, NEW r \in Ranks, Unhooked(r)
    PROVE  Apart
<1> USE DEF TypeOK
<1>1. 0 \in Ranks
  BY RankZero
<1>2. UNCHANGED filesVars
  BY DEF Unhooked, exportVars, filesVars
<1>3. ASSUME ReadPointer(r) \/ LoadCheckpoint(r) PROVE Apart
  <2>1. [Next]_vars /\ UNCHANGED job
    BY <1>3 DEF Next, Steps, Main, ReadPointer, LoadCheckpoint
  <2>2. pc[r] \in {"boot", "load"} /\ pc'[r] \in {"load", "save", "train", "failed"}
        /\ \A q \in Ranks \ {r} : pc'[q] = pc[q]
    BY <1>3 DEF ReadPointer, LoadCheckpoint, StartTraining, EnterSave, Raise
  <2> QED
    BY <1>1, <1>2, <2>1, <2>2, SameJob DEF Apart, Returned
<1>4. ASSUME \/ TrainingStep(r) \/ TrainingStepEnd(r) \/ LeaveLoop(r)
             \/ SaveLoaderStateInline(r) \/ StageAndSubmit(r) \/ FinishSyncSave(r)
      PROVE  Apart
  <2>1. [Next]_vars
    BY <1>4 DEF Next, Steps, Main
  <2>2. /\ UNCHANGED job
        /\ pc[r] \in {"train", "stepend", "pkl", "stage", "working"}
        /\ pc'[r] \in {"save", "stepend", "train", "finalize", "stage", "failed"}
        /\ \A q \in Ranks \ {r} : pc'[q] = pc[q]
    BY <1>4 DEF TrainingStep, TrainingStepEnd, LeaveLoop, SaveLoaderStateInline, StageAndSubmit,
                FinishSyncSave, EnterSave, Raise
  <2> QED
    BY <1>1, <1>2, <2>1, <2>2, SameJob DEF Apart, Returned
<1>5. ASSUME ReceiveResult(r) \/ ResultTimeout(r) PROVE Apart
  <2>1. [Next]_vars /\ UNCHANGED job
    BY <1>5 DEF Next, Steps, Main, ReceiveResult, ResultTimeout
  <2>2. pc'[r] \in {pc[r], "failed"} /\ \A q \in Ranks \ {r} : pc'[q] = pc[q]
    BY <1>5 DEF ReceiveResult, ResultTimeout, Raise
  <2> QED
    BY <1>1, <1>2, <2>1, <2>2, SameJob DEF Apart, Returned
<1>6. ASSUME SendTerminate(r) \/ JoinBackground(r) PROVE Apart
  <2>1. [Next]_vars /\ UNCHANGED job
    BY <1>6 DEF Next, Steps, Main, SendTerminate, JoinBackground
  <2>2. pc[r] \in {"closing", "join"} /\ \A q \in Ranks \ {r} : pc'[q] = pc[q]
    BY <1>6 DEF SendTerminate, JoinBackground
  <2> QED
    BY <1>1, <1>2, <2>1, <2>2, SameJob DEF Apart, Returned
<1> QED
  BY <1>3, <1>4, <1>5, <1>6 DEF Unhooked

\* What the callback takes no part in.
LEMMA OthersApart ==
    ASSUME TypeOK, UNCHANGED exportVars,
           \/ \E r \in Ranks : Worker(r) \/ LocalWriteFails(r) \/ BackgroundDies(r)
           \/ \E k \in Keys, i \in Iters : CommitKey(k, i)
           \/ CollectiveFails \/ FinishTraining \/ UNCHANGED vars
    PROVE  Apart
<1> USE DEF TypeOK
<1>1. 0 \in Ranks
  BY RankZero
<1>2. UNCHANGED filesVars
  BY DEF exportVars, filesVars
<1>3. ASSUME NEW r \in Ranks, Worker(r) PROVE Apart
  <2>1. [Next]_vars
    BY <1>3 DEF Next, Steps
  <2>2. UNCHANGED <<job, pc>>
    BY <1>3 DEF Worker, ReceiveTask, WriteShard, SaveLoaderState, WritePointer, ReportResult,
                PeerLost, mainVars
  <2> QED
    BY <1>2, <2>1, <2>2, SameJob DEF Apart, Returned
<1>4. ASSUME NEW r \in Ranks, LocalWriteFails(r) \/ BackgroundDies(r) PROVE Apart
  <2>1. [Next]_vars
    BY <1>4 DEF Next, Faults
  <2>2. UNCHANGED job /\ \/ UNCHANGED pc
                         \/ pc[r] = "pkl" /\ pc' = [pc EXCEPT ![r] = "failed"]
    BY <1>4 DEF LocalWriteFails, BackgroundDies, Raise, mainVars
  <2> QED
    BY <1>1, <1>2, <2>1, <2>2, SameJob DEF Apart, Returned
<1>5. ASSUME NEW k \in Keys, NEW i \in Iters, CommitKey(k, i) PROVE Apart
  <2>1. [Next]_vars
    BY <1>5 DEF Next, Steps
  <2>2. UNCHANGED <<job, pc>>
    BY <1>5 DEF CommitKey, mainVars
  <2> QED
    BY <1>2, <2>1, <2>2, SameJob DEF Apart, Returned
<1>6. CASE CollectiveFails
  <2>1. [Next]_vars
    BY <1>6 DEF Next, Faults
  <2>2. UNCHANGED <<job, pc>>
    BY <1>6 DEF CollectiveFails, mainVars
  <2> QED
    BY <1>2, <2>1, <2>2, SameJob DEF Apart, Returned
<1>7. CASE FinishTraining
  <2>1. [Next]_vars
    BY <1>7 DEF Next
  <2>2. UNCHANGED job /\ pc[0] = "barrier"
    BY <1>1, <1>7 DEF FinishTraining
  <2> QED
    BY <1>2, <2>1, <2>2, SameJob DEF Apart, Returned
<1>8. CASE UNCHANGED vars
  <2>1. UNCHANGED <<job, pc>>
    BY <1>8 DEF vars, mainVars
  <2> QED
    BY <1>2, <1>8, <2>1, SameJob DEF Apart, Returned
<1> QED
  BY <1>3, <1>4, <1>5, <1>6, <1>7, <1>8

LEMMA BeginFinalizeApart ==
    ASSUME TypeOK, NEW r \in Ranks, ExportBeginSave(r) \/ ExportFinalize(r)
    PROVE  Apart \/ (r = 0 /\ Asking)
<1> USE DEF TypeOK
<1>1. 0 \in Ranks
  BY RankZero
<1>2. CASE ExportBeginSave(r)
  <2>1. [Next]_vars /\ UNCHANGED job
    BY <1>2 DEF ExportBeginSave, Next, Steps, Main, BeginSave
  <2>2. /\ pc[r] = "save" /\ pc'[r] \in {"pkl", "stage", "working"}
        /\ \A q \in Ranks \ {r} : pc'[q] = pc[q]
    BY <1>2 DEF ExportBeginSave, BeginSave, AsyncSaveEntry
  <2>3. UNCHANGED <<error, files, index, copied, failures>>
    BY <1>2 DEF ExportBeginSave
  <2>4. CASE r = 0 /\ ExportDue(it[0])
    <3>1. BeginSave(0) /\ StartThread
      BY <1>2, <2>4 DEF ExportBeginSave
    <3> QED
      BY <2>3, <2>4, <3>1 DEF Asking
  <2>5. CASE ~(r = 0 /\ ExportDue(it[0]))
    <3>1. UNCHANGED <<thread, asked>>
      BY <1>2, <2>5 DEF ExportBeginSave
    <3>2. r = 0 => ~ExportDue(it[0])
      BY <2>5
    <3> QED
      BY <1>1, <2>1, <2>2, <2>3, <3>1, <3>2, SameJob DEF Apart, Returned, filesVars
  <2> QED
    BY <2>4, <2>5
<1>3. CASE ExportFinalize(r)
  <2>1. [Next]_vars /\ UNCHANGED job
    BY <1>3 DEF ExportFinalize, Next, Steps, Main, Finalize
  <2>2. /\ pc[r] = "finalize"
        /\ \A q \in Ranks \ {r} : pc'[q] = pc[q]
    BY <1>3 DEF ExportFinalize, Finalize
  <2>3. UNCHANGED filesVars /\ (r = 0 => ~thread.alive /\ ~error)
    BY <1>3 DEF ExportFinalize, EndsCleanly, ThreadEnded, exportVars, filesVars
  <2> QED
    BY <1>1, <2>1, <2>2, <2>3, SameJob DEF Apart, Returned
<1> QED
  BY <1>2, <1>3

\* A step of the thread: the job does not move.
Threading == UNCHANGED vars /\ (WriteFile \/ WriteIndex \/ CopyMissing \/ ExportFails)

LEMMA ExportSteps ==
    ASSUME TypeOK, [ExportNext]_hfVars
    PROVE  Apart \/ Asking \/ Threading \/ Raising \/ ExportRestart
<1>1. ASSUME NEW r \in Ranks, ExportMain(r) PROVE Apart \/ Asking \/ Raising
  <2>1. CASE JoinGather(r)
    <3>1. UNCHANGED vars /\ UNCHANGED filesVars
      BY <2>1 DEF JoinGather, filesVars
    <3>2. UNCHANGED <<job, pc>>
      BY <3>1 DEF vars, mainVars
    <3>3. UNCHANGED <<thread, error>>
      BY <3>1 DEF filesVars
    <3> QED
      BY <3>1, <3>2, <3>3, SameJob DEF Apart, Returned
  <2>2. CASE r = 0 /\ (RaiseInSave \/ RaiseAtEnd)
    BY <2>2 DEF RaiseInSave, RaiseAtEnd, Raising
  <2> QED
    BY <1>1, <2>1, <2>2, UnhookedApart, BeginFinalizeApart DEF ExportMain
<1>2. ASSUME \/ \E r \in Ranks : ExportWorker(r)
             \/ ExportCommit \/ ExportFinish
             \/ /\ CollectiveFails \/ \E r \in Ranks : LocalWriteFails(r) \/ BackgroundDies(r)
                /\ UNCHANGED exportVars
             \/ Terminated /\ UNCHANGED exportVars
             \/ UNCHANGED hfVars
      PROVE Apart
  BY <1>2, OthersApart DEF ExportWorker, ExportCommit, ExportFinish, Terminated, hfVars
<1>3. ASSUME ExportThread \/ ExportFails PROVE Threading
  BY <1>3 DEF ExportThread, Threading, WriteFile, WriteIndex, CopyMissing, ExportFails
<1> QED
  BY <1>1, <1>2, <1>3 DEF ExportNext

LEMMA ExportJobStep ==
    ASSUME SafeStorage, IInv, [ExportNext]_hfVars
    PROVE  IInv'
<1>1. CASE Apart \/ Asking \/ Threading \/ ExportRestart
  <2>1. [Next]_vars
    BY <1>1, RankZero DEF Apart, Asking, Threading, ExportRestart, Next, Steps, Main, Faults
  <2> QED
    BY <2>1, NextInv
<1>2. CASE Raising
  BY <1>2, RaisedInv
<1> QED
  BY <1>1, <1>2, ExportSteps DEF IInv
-----------------------------------------------------------------------------
(***************************************************************************)
(* The exports                                                             *)
(***************************************************************************)

\* How far rank 0 moves in a step that asks for nothing.
LEMMA ApartMoves ==
    ASSUME IInv, Apart, ~Unstarted(0)
    PROVE  /\ ~Unstarted(0)'
           /\ pc[0] = "failed" => pc'[0] = "failed"
           /\ it[0] \in Nat
           /\ \/ it'[0] = it[0] /\ mem'[0] = mem[0]
              \/ /\ pc[0] = "train" /\ it'[0] = it[0] + 1
                 /\ SaveDue(it'[0]) => pc'[0] = "save"
<1> USE DEF IInv, Apart
<1>1. 0 \in Ranks /\ it[0] \in Nat
  BY RankZero, ItersInt DEF TypeOK
<1>2. ~Unstarted(0)' /\ (pc[0] = "failed" => pc'[0] = "failed")
  BY <1>1, StartedStays, FailedStays
<1>3. CASE ~Starts(0)
  BY <1>1, <1>2, <1>3, MemSteps
<1>4. CASE Starts(0)
  <2>1. TrainingStep(0)
    BY <1>4 DEF Starts, ReadPointer, LoadCheckpoint, Unstarted
  <2>2. pc[0] = "train" /\ it'[0] = it[0] + 1
    BY <1>1, <2>1 DEF TrainingStep, TypeOK
  <2>3. SaveDue(it[0] + 1) => pc'[0] = "save"
    BY <1>1, <2>1 DEF TrainingStep, EnterSave, TypeOK
  <2> QED
    BY <1>1, <1>2, <2>2, <2>3
<1> QED
  BY <1>3, <1>4

LEMMA ApartExports ==
    ASSUME IInv, ExpInv, Apart
    PROVE  ExpInv'
<1> USE DEF ExpInv
<1>1. UNCHANGED <<thread, error, files, index, copied, asked, failures, job>>
  BY DEF Apart, filesVars
<1>2. 0 \in Ranks
  BY RankZero
<1>3. ExportTypes'
  BY <1>1 DEF ExportTypes
<1>4. NothingAsked'
  <2>1. Unstarted(0)' => Unstarted(0)
    BY <1>2, StartedStays DEF IInv, Apart
  <2> QED
    BY <1>1, <2>1 DEF NothingAsked
<1>5. ASSUME NEW v \in asked
      PROVE  /\ ~Unstarted(0) /\ v.it \in Nat
             /\ v.it <= it[0] /\ (v.it = it[0] => v = mem[0])
  BY ItersInt DEF NothingAsked, AskedInOrder, ExportTypes, Version
<1>6. AskedInOrder'
  <2>1. ASSUME NEW v \in asked PROVE v.it <= it'[0] /\ (v.it = it'[0] => v = mem'[0])
    BY <1>5, ApartMoves
  <2> QED
    BY <1>1, <2>1 DEF AskedInOrder
<1>7. Accounted' /\ Cuts' /\ UnderWay'
  BY <1>1 DEF Accounted, Delivered, CopiedUnlessCut, Cuts, UnderWay, Whole, Exporting, Exported
<1>8. Remembered'
  <2>1. ASSUME failures # {} PROVE error \/ pc'[0] = "failed"
    <3>1. ~Unstarted(0) /\ (error \/ pc[0] = "failed")
      BY <2>1 DEF NothingAsked, Remembered
    <3> QED
      BY <3>1, ApartMoves
  <2> QED
    BY <1>1, <2>1 DEF Remembered
<1>9. Clean'
  BY <1>1 DEF Clean, Apart
<1>10. NoneLeftOut'
  <2> SUFFICES ASSUME NEW v \in asked, NEW i \in Iters, SaveDue(i), ExportDue(i), v.it < i,
                      \/ i < it'[0]
                      \/ i = it'[0] /\ pc'[0] \notin {"save", "failed"}
               PROVE  \E w \in asked : w.it = i
    BY <1>1 DEF NoneLeftOut
  <2>1. i \in Nat /\ it[0] \in Nat /\ ~Unstarted(0)
    BY <1>2, <1>5, ItersInt DEF IInv, TypeOK
  <2>2. i < it[0] \/ (i = it[0] /\ pc[0] \notin {"save", "failed"})
    <3>1. CASE it'[0] = it[0]
      BY <2>1, <3>1, ApartMoves DEF Apart
    <3>2. CASE pc[0] = "train" /\ it'[0] = it[0] + 1 /\ (SaveDue(it'[0]) => pc'[0] = "save")
      BY <2>1, <3>2
    <3> QED
      BY <2>1, <3>1, <3>2, ApartMoves
  <2> QED
    BY <2>2 DEF NoneLeftOut
<1> QED
  BY <1>3, <1>4, <1>6, <1>7, <1>8, <1>9, <1>10

LEMMA AskingExports ==
    ASSUME IInv, ExpInv, Asking
    PROVE  ExpInv'
<1> USE DEF ExpInv
<1>1. /\ pc[0] = "save" /\ pc'[0] \in {"pkl", "stage", "working"}
      /\ UNCHANGED <<it, mem, job, error, files, index, copied, failures>>
      /\ ~thread.alive /\ ~error
      /\ thread' = [alive |-> TRUE, next |-> 1, weights |-> mem[0]]
      /\ asked' = asked \cup {[job |-> mem[0].job, it |-> it[0]]}
  BY RankZero DEF Asking, BeginSave, StartThread, ThreadEnded, AsyncSaveEntry, IInv, TypeOK
<1>2. /\ 0 \in Ranks /\ mem[0] \in Version /\ mem[0].it = it[0] /\ it[0] \in Nat
      /\ asked' = asked \cup {mem[0]}
  <2>1. 0 \in Ranks /\ mem[0] \in Version /\ it[0] \in Nat /\ Loaded(0)
    BY <1>1, RankZero, ItersInt DEF IInv, TypeOK, Loaded
  <2>2. mem[0].it = it[0]
    BY <2>1 DEF IInv, Progress
  <2>3. mem[0] = [job |-> mem[0].job, it |-> it[0]]
    BY <2>1, <2>2, VersionExt
  <2> QED
    BY <1>1, <2>1, <2>2, <2>3
<1>3. thread'.alive /\ thread'.next = 1 /\ thread'.weights = mem[0]
  BY <1>1
<1>4. failures = {}
  BY <1>1 DEF Remembered
<1>5. \A v \in asked : v.it \in Nat /\ v.it <= it[0] /\ (v.it = it[0] => v = mem[0])
  BY ItersInt DEF AskedInOrder, ExportTypes, Version
<1>6. ExportTypes'
  <2>1. thread' \in [alive : BOOLEAN, next : 1 .. NumFiles + 2, weights : Version \cup {NoFile}]
    BY <1>1, <1>2, ExportAssumption
  <2> QED
    BY <1>1, <1>2, <2>1 DEF ExportTypes
<1>7. NothingAsked' /\ Clean'
  BY <1>1 DEF NothingAsked, Clean, Unstarted, Returned
<1>8. AskedInOrder'
  BY <1>1, <1>2, <1>5 DEF AskedInOrder
<1>9. Accounted'
  <2>1. \A v \in asked : Delivered(v)
    BY <1>1, <1>4 DEF Accounted
  <2>2. \A v \in asked : Delivered(v)'
    BY <1>1, <2>1 DEF Delivered, Whole, CopiedUnlessCut
  <2> QED
    BY <1>2, <1>3, <2>2 DEF Accounted
<1>10. UnderWay'
  <2>1. \A n \in Files : ~(n < 1)
    BY DEF Files
  <2> QED
    BY <1>2, <1>3, <1>5, <2>1, ExportAssumption DEF UnderWay, Exporting
<1>11. Remembered' /\ Cuts'
  BY <1>1, <1>4 DEF Remembered, Cuts
<1>12. NoneLeftOut'
  <2> SUFFICES ASSUME NEW v \in asked', NEW i \in Iters, SaveDue(i), ExportDue(i), v.it < i,
                      i < it[0] \/ i = it[0]
               PROVE  \E w \in asked' : w.it = i
    BY <1>1 DEF NoneLeftOut
  <2>1. CASE i = it[0]
    BY <1>2, <2>1
  <2>2. CASE i < it[0]
    <3>1. i \in Nat
      BY ItersInt
    <3>2. v \in asked
      BY <1>2, <2>2, <3>1
    <3> QED
      BY <1>2, <2>2, <3>2 DEF NoneLeftOut
  <2> QED
    BY <2>1, <2>2
<1> QED
  BY <1>6, <1>7, <1>8, <1>9, <1>10, <1>11, <1>12

\* What holds of the thread while it is alive, and of the export it works at.
LEMMA ThreadFacts ==
    ASSUME ExpInv, thread.alive
    PROVE  /\ thread.weights \in asked /\ thread.weights \in Version /\ Exporting \in Iters
           /\ thread.next \in 1 .. NumFiles + 2 /\ NumFiles \in Nat
           /\ \A v \in asked : v # thread.weights => v.it # Exporting /\ v.it \in Iters
           /\ \A v \in asked : v.it \in Iters
           /\ ~Unstarted(0) /\ ~Returned
<1>1. thread.weights \in asked /\ asked \subseteq Version
  BY DEF ExpInv, UnderWay, ExportTypes
<1>2. \A v \in asked : v.it \in Iters
  BY <1>1 DEF Version
<1>3. thread.next \in 1 .. NumFiles + 2 /\ NumFiles \in Nat
  BY ExportAssumption DEF ExpInv, ExportTypes
<1> QED
  BY <1>1, <1>2, <1>3 DEF ExpInv, AskedInOrder, Exporting, NothingAsked, Clean

\* The files of the other exports are left alone.
OthersKept ==
    /\ job' = job
    /\ \A i \in Iters : i # Exporting =>
          files'[i] = files[i] /\ index'[i] = index[i] /\ copied'[i] = copied[i]

LEMMA DeliveredElsewhere ==
    ASSUME ExpInv, thread.alive, NEW v \in asked, v # thread.weights, Delivered(v), OthersKept
    PROVE  Delivered(v)'
BY ThreadFacts DEF Delivered, Whole, CopiedUnlessCut, OthersKept

LEMMA WriteFileExports ==
    ASSUME ExpInv, UNCHANGED vars, WriteFile
    PROVE  ExpInv'
<1>1. UNCHANGED <<pc, it, mem, job, error, index, copied, asked, failures>>
  BY DEF WriteFile, vars, mainVars
<1>2. thread.alive /\ thread.next \in Files
  BY DEF WriteFile
<1>3. thread' = [thread EXCEPT !.next = thread.next + 1]
  BY DEF WriteFile
<1>4. /\ thread'.alive /\ thread'.next = thread.next + 1 /\ thread'.weights = thread.weights
      /\ thread'.next # NumFiles + 2
      /\ thread' \in [alive : BOOLEAN, next : 1 .. NumFiles + 2, weights : Version \cup {NoFile}]
  <2>1. thread.next + 1 \in 1 .. NumFiles + 2 /\ thread.next + 1 # NumFiles + 2
    BY <1>2, ThreadFacts DEF Files
  <2> QED
    BY <1>2, <1>3, <2>1 DEF ExpInv, ExportTypes
<1>5. files' = [files EXCEPT ![Exporting][thread.next] = thread.weights]
  BY DEF WriteFile, Exported
<1>6. /\ OthersKept
      /\ \A n \in Files : files'[Exporting][n] =
             IF n = thread.next THEN thread.weights ELSE files[Exporting][n]
      /\ files' \in [Iters -> [Files -> Content]]
  <2>1. files \in [Iters -> [Files -> Content]] /\ Exporting \in Iters
        /\ thread.weights \in Content
    BY <1>2, ThreadFacts, VersionType DEF ExpInv, ExportTypes
  <2>2. files'[Exporting] = [files[Exporting] EXCEPT ![thread.next] = thread.weights]
    BY <1>5, <2>1
  <2> QED
    BY <1>1, <1>5, <2>1, <2>2 DEF OthersKept
<1>7. ExportTypes'
  BY <1>1, <1>4, <1>6 DEF ExpInv, ExportTypes
<1>8. NothingAsked' /\ Clean' /\ AskedInOrder' /\ Cuts'
  BY <1>1, <1>2, ThreadFacts
     DEF ExpInv, NothingAsked, Clean, AskedInOrder, Cuts, Unstarted, Returned
<1>9. Accounted'
  <2>1. ASSUME NEW v \in asked
        PROVE  Delivered(v)' \/ v = thread.weights \/ v.it \in failures
    BY <1>2, <1>6, DeliveredElsewhere DEF ExpInv, Accounted
  <2> QED
    BY <1>1, <1>4, <2>1 DEF Accounted
<1>10. UnderWay'
  <2>1. ASSUME NEW n \in Files, n < thread.next + 1 PROVE files'[Exporting][n] = thread.weights
    <3>1. n = thread.next \/ n < thread.next
      BY <1>2, <2>1, ThreadFacts DEF Files
    <3> QED
      BY <1>2, <1>6, <3>1 DEF ExpInv, UnderWay, Exported
  <2>2. \A v \in asked : v.it <= Exporting
    BY <1>2 DEF ExpInv, UnderWay
  <2> QED
    BY <1>1, <1>2, <1>4, <2>1, <2>2, ThreadFacts DEF UnderWay, Exporting, Exported
<1>11. Remembered' /\ NoneLeftOut'
  BY <1>1 DEF ExpInv, Remembered, NoneLeftOut
<1> QED
  BY <1>7, <1>8, <1>9, <1>10, <1>11 DEF ExpInv

LEMMA WriteIndexExports ==
    ASSUME ExpInv, UNCHANGED vars, WriteIndex
    PROVE  ExpInv'
<1>1. UNCHANGED <<pc, it, mem, job, error, files, copied, asked, failures>>
  BY DEF WriteIndex, vars, mainVars
<1>2. thread.alive /\ thread.next = NumFiles + 1
  BY DEF WriteIndex
<1>3. thread' = [thread EXCEPT !.next = thread.next + 1]
  BY DEF WriteIndex
<1>4. /\ thread'.alive /\ thread'.next = NumFiles + 2 /\ thread'.weights = thread.weights
      /\ thread' \in [alive : BOOLEAN, next : 1 .. NumFiles + 2, weights : Version \cup {NoFile}]
  BY <1>2, <1>3, ThreadFacts DEF ExpInv, ExportTypes
<1>5. /\ OthersKept
      /\ index'[Exporting] = thread.weights
      /\ index' \in [Iters -> Content]
  BY <1>1, <1>2, ThreadFacts, VersionType
     DEF WriteIndex, Exported, ExpInv, ExportTypes, OthersKept
<1>6. ExportTypes'
  BY <1>1, <1>4, <1>5 DEF ExpInv, ExportTypes
<1>7. NothingAsked' /\ Clean' /\ AskedInOrder' /\ Cuts' /\ Remembered' /\ NoneLeftOut'
  BY <1>1, <1>2, ThreadFacts
     DEF ExpInv, NothingAsked, Clean, AskedInOrder, Cuts, Remembered, NoneLeftOut, Unstarted,
         Returned
<1>8. Accounted'
  <2>1. ASSUME NEW v \in asked
        PROVE  Delivered(v)' \/ v = thread.weights \/ v.it \in failures
    BY <1>2, <1>5, DeliveredElsewhere DEF ExpInv, Accounted
  <2> QED
    BY <1>1, <1>4, <2>1 DEF Accounted
<1>9. UnderWay'
  <2>1. \A n \in Files : files[Exporting][n] = thread.weights
    <3>1. \A n \in Files : n < thread.next
      BY <1>2, ThreadFacts DEF Files
    <3> QED
      BY <1>2, <3>1 DEF ExpInv, UnderWay, Exported
  <2>2. \A v \in asked : v.it <= Exporting
    BY <1>2 DEF ExpInv, UnderWay
  <2> QED
    BY <1>1, <1>2, <1>4, <1>5, <2>1, <2>2, ThreadFacts DEF UnderWay, Exporting, Exported
<1> QED
  BY <1>6, <1>7, <1>8, <1>9 DEF ExpInv

LEMMA CopyMissingExports ==
    ASSUME IInv, ExpInv, UNCHANGED vars, CopyMissing
    PROVE  ExpInv'
<1>1. UNCHANGED <<pc, it, mem, job, error, files, index, asked, failures>>
  BY DEF CopyMissing, vars, mainVars
<1>2. thread.alive /\ thread.next = NumFiles + 2
  BY DEF CopyMissing
<1>3. /\ ~thread'.alive
      /\ thread' \in [alive : BOOLEAN, next : 1 .. NumFiles + 2, weights : Version \cup {NoFile}]
  BY DEF CopyMissing, Ended, ExpInv, ExportTypes
<1>4. job \in Nat
  BY DEF IInv, TypeOK, Jobs
<1>5. copied \in [Iters -> [state : {"absent", "torn", "whole"}, by : Nat]] /\ Exporting \in Iters
  BY <1>2, ThreadFacts DEF ExpInv, ExportTypes
<1>6. /\ OthersKept
      /\ copied' \in [Iters -> [state : {"absent", "torn", "whole"}, by : Nat]]
      /\ IF Missing(Exporting) THEN copied'[Exporting] = [state |-> "whole", by |-> job]
                               ELSE copied'[Exporting] = copied[Exporting]
  BY <1>1, <1>4, <1>5 DEF CopyMissing, Copy, OthersKept
<1>7. ExportTypes'
  BY <1>1, <1>3, <1>6 DEF ExpInv, ExportTypes
<1>8. NothingAsked' /\ Clean' /\ AskedInOrder' /\ UnderWay' /\ Remembered' /\ NoneLeftOut'
  BY <1>1, <1>3, <1>2, ThreadFacts
     DEF ExpInv, NothingAsked, Clean, AskedInOrder, UnderWay, Remembered, NoneLeftOut, Unstarted,
         Returned
<1>9. Cuts'
  BY <1>1, <1>4, <1>6 DEF ExpInv, Cuts, OthersKept
<1>10. Accounted'
  <2>1. ASSUME NEW v \in asked, v # thread.weights PROVE Delivered(v)' \/ v.it \in failures
    BY <1>2, <1>6, <2>1, DeliveredElsewhere DEF ExpInv, Accounted
  <2>2. ASSUME NEW v \in asked, v = thread.weights PROVE Delivered(v)' \/ v.it \in failures
    <3>1. \A n \in Files : n < thread.next
      BY <1>2, ThreadFacts DEF Files
    <3>2. index[Exporting] = thread.weights /\ \A n \in Files : files[Exporting][n] = thread.weights
      BY <1>2, <3>1 DEF ExpInv, UnderWay, Exported
    <3>3. Whole(v)'
      BY <1>1, <2>2, <3>2 DEF Whole, Exporting
    <3>4. LocalModel => copied'[Exporting].state \in {"torn", "whole"}
      BY <1>5, <1>6 DEF Missing
    <3>5. v.it = Exporting /\ v.it \in Iters
      BY <1>5, <2>2 DEF Exporting
    <3>6. CopiedUnlessCut(v.it)' \/ v.it \in failures
      BY <1>1, <1>9, <3>4, <3>5 DEF Cuts, CopiedUnlessCut
    <3> QED
      BY <3>3, <3>6 DEF Delivered
  <2> QED
    BY <1>1, <2>1, <2>2 DEF Accounted
<1> QED
  BY <1>7, <1>8, <1>9, <1>10 DEF ExpInv

\* What an export that ends early leaves behind.
LEMMA TearFacts ==
    ASSUME IInv, ExpInv, TearFile
    PROVE  /\ files' \in [Iters -> [Files -> Content]]
           /\ index' \in [Iters -> Content]
           /\ copied' \in [Iters -> [state : {"absent", "torn", "whole"}, by : Nat]]
           /\ \A i \in Iters : i # Exporting =>
                 files'[i] = files[i] /\ index'[i] = index[i] /\ copied'[i] = copied[i]
           /\ \A i \in Iters :
                 \/ copied'[i] = copied[i]
                 \/ copied'[i].by = job /\ i = Exporting
<1>1. /\ files \in [Iters -> [Files -> Content]]
      /\ index \in [Iters -> Content]
      /\ copied \in [Iters -> [state : {"absent", "torn", "whole"}, by : Nat]]
      /\ job \in Nat
  BY DEF ExpInv, ExportTypes, IInv, TypeOK, Jobs
<1>2. CASE UNCHANGED <<files, index, copied>>
  BY <1>1, <1>2
<1>3. CASE /\ thread.alive /\ files' = [files EXCEPT ![Exporting][thread.next] = Torn]
           /\ UNCHANGED <<index, copied>>
  <2>1. Exporting \in Iters /\ Torn \in Content
    BY <1>3, ThreadFacts, VersionType
  <2>2. files'[Exporting] = [files[Exporting] EXCEPT ![thread.next] = Torn]
    BY <1>1, <1>3, <2>1
  <2> QED
    BY <1>1, <1>3, <2>1, <2>2
<1>4. CASE /\ thread.alive /\ index' = [index EXCEPT ![Exporting] = Torn]
           /\ UNCHANGED <<files, copied>>
  <2>1. Exporting \in Iters /\ Torn \in Content
    BY <1>4, ThreadFacts, VersionType
  <2> QED
    BY <1>1, <1>4, <2>1
<1>5. CASE /\ thread.alive /\ copied' = [copied EXCEPT ![Exporting] = Copy("torn", job)]
           /\ UNCHANGED <<files, index>>
  <2>1. Exporting \in Iters
    BY <1>5, ThreadFacts
  <2> QED
    BY <1>1, <1>5, <2>1 DEF Copy
<1> QED
  BY <1>2, <1>3, <1>4, <1>5 DEF TearFile

LEMMA FailureExports ==
    ASSUME IInv, ExpInv, UNCHANGED vars, ExportFails
    PROVE  ExpInv'
<1>1. UNCHANGED <<pc, it, mem, job, asked>>
  BY DEF ExportFails, vars, mainVars
<1>2. thread.alive /\ TearFile /\ error' /\ failures' = failures \cup {Exporting}
  BY DEF ExportFails
<1>3. /\ ~thread'.alive
      /\ thread' \in [alive : BOOLEAN, next : 1 .. NumFiles + 2, weights : Version \cup {NoFile}]
  BY DEF ExportFails, Ended, ExpInv, ExportTypes
<1>4. ExportTypes'
  BY <1>1, <1>2, <1>3, TearFacts DEF ExpInv, ExportTypes
<1>5. NothingAsked' /\ Clean' /\ AskedInOrder' /\ UnderWay' /\ NoneLeftOut'
  BY <1>1, <1>3, <1>2, ThreadFacts
     DEF ExpInv, NothingAsked, Clean, AskedInOrder, UnderWay, NoneLeftOut, Unstarted, Returned
<1>6. Accounted'
  <2>1. OthersKept
    BY <1>1, <1>2, TearFacts DEF OthersKept
  <2>2. ASSUME NEW v \in asked, v # thread.weights PROVE Delivered(v)' \/ v.it \in failures
    BY <1>2, <2>1, <2>2, DeliveredElsewhere DEF ExpInv, Accounted
  <2>3. ASSUME NEW v \in asked, v = thread.weights PROVE v.it = Exporting
    BY <2>3 DEF Exporting
  <2> QED
    BY <1>1, <1>2, <2>2, <2>3 DEF Accounted
<1>7. Remembered'
  <2>1. \A v \in asked : v.it <= Exporting
    BY <1>2 DEF ExpInv, UnderWay
  <2>2. \E v \in asked : v.it = Exporting
    BY <1>2, ThreadFacts DEF Exporting
  <2> QED
    BY <1>1, <1>2, <2>1, <2>2 DEF ExpInv, Remembered
<1>8. Cuts'
  <2>1. job \in Nat
    BY DEF IInv, TypeOK, Jobs
  <2> QED
    BY <1>1, <1>2, <2>1, TearFacts DEF ExpInv, Cuts
<1> QED
  BY <1>4, <1>5, <1>6, <1>7, <1>8 DEF ExpInv

LEMMA RaisingExports ==
    ASSUME IInv, ExpInv, Raising
    PROVE  ExpInv'
<1>1. /\ UNCHANGED <<it, mem, job, thread, files, index, copied, asked, failures>>
      /\ pc[0] \in {"save", "finalize"} /\ pc'[0] = "failed" /\ ~thread.alive
  BY RankZero DEF Raising, RaiseStored, Raise, ThreadEnded, IInv, TypeOK
<1>2. ExportTypes' /\ NothingAsked' /\ Clean' /\ AskedInOrder' /\ UnderWay' /\ Remembered'
  BY <1>1 DEF ExpInv, ExportTypes, NothingAsked, Clean, AskedInOrder, UnderWay, Remembered,
              Unstarted, Returned
<1>3. Accounted' /\ Cuts'
  BY <1>1 DEF ExpInv, Accounted, Delivered, Whole, CopiedUnlessCut, Cuts
<1>4. NoneLeftOut'
  BY <1>1 DEF ExpInv, NoneLeftOut
<1> QED
  BY <1>2, <1>3, <1>4 DEF ExpInv

LEMMA RestartExports ==
    ASSUME IInv, ExpInv, ExportRestart
    PROVE  ExpInv'
<1>1. /\ thread' = NoThread /\ ~error' /\ asked' = {} /\ failures' = {}
      /\ files' \in [Iters -> [Files -> Content]] /\ index' \in [Iters -> Content]
      /\ copied' \in [Iters -> [state : {"absent", "torn", "whole"}, by : Nat]]
  BY TearFacts DEF ExportRestart
<1>2. ~thread'.alive
  BY <1>1 DEF NoThread
<1>3. thread' \in [alive : BOOLEAN, next : 1 .. NumFiles + 2, weights : Version \cup {NoFile}]
  BY <1>1, ExportAssumption DEF NoThread
<1>4. Cuts'
  <2>1. job' = job + 1 /\ job \in Nat
    BY DEF ExportRestart, Restart, Reboot, IInv, TypeOK, Jobs
  <2>2. \A i \in Iters : copied'[i].by \in Nat /\ copied'[i].by <= job
    BY <1>1, <2>1, TearFacts DEF ExportRestart, ExpInv, Cuts
  <2> QED
    BY <2>1, <2>2 DEF Cuts
<1> QED
  BY <1>1, <1>2, <1>3, <1>4 DEF ExpInv, ExportTypes, NothingAsked, Clean, AskedInOrder, UnderWay,
     Remembered, Accounted, NoneLeftOut

LEMMA ExportStep ==
    ASSUME IInv, ExpInv, [ExportNext]_hfVars
    PROVE  ExpInv'
BY ExportSteps, ApartExports, AskingExports, WriteFileExports, WriteIndexExports, CopyMissingExports,
   FailureExports, RaisingExports, RestartExports DEF IInv, Threading

LEMMA ExportInitInv == ExportInit => IInv /\ ExpInv
<1> SUFFICES ASSUME ExportInit PROVE IInv /\ ExpInv
  OBVIOUS
<1>1. IInv
  BY InitInv DEF ExportInit
<1>2. /\ thread = NoThread /\ ~error /\ asked = {} /\ failures = {}
      /\ files = [i \in Iters |-> [n \in Files |-> NoFile]]
      /\ index = [i \in Iters |-> NoFile]
      /\ copied = [i \in Iters |-> [state |-> "absent", by |-> 0]]
  BY DEF ExportInit, NoCopy, Copy
<1>3. ~thread.alive
  BY <1>2 DEF NoThread
<1>4. ExportTypes
  <2>1. thread \in [alive : BOOLEAN, next : 1 .. NumFiles + 2, weights : Version \cup {NoFile}]
    BY <1>2, ExportAssumption DEF NoThread
  <2> QED
    BY <1>2, <2>1, VersionType DEF ExportTypes
<1>5. Cuts
  BY <1>1, <1>2 DEF Cuts, IInv, TypeOK, Jobs
<1> QED
  BY <1>1, <1>2, <1>3, <1>4, <1>5 DEF ExpInv, NothingAsked, Clean, AskedInOrder, UnderWay,
     Remembered, Accounted, NoneLeftOut
-----------------------------------------------------------------------------
(***************************************************************************)
(* The theorems                                                            *)
(***************************************************************************)

\* The job keeps its own invariant under the callback, and the exports theirs.
THEOREM ExportInvariance == SafeStorage => (ExportSpec => [](IInv /\ ExpInv))
<1> SUFFICES ASSUME SafeStorage PROVE ExportSpec => [](IInv /\ ExpInv)
  OBVIOUS
<1>1. ExportInit => IInv /\ ExpInv
  BY ExportInitInv
<1>2. IInv /\ ExpInv /\ [ExportNext]_hfVars => (IInv /\ ExpInv)'
  BY ExportStep, ExportJobStep
<1> QED
  BY <1>1, <1>2, PTL DEF ExportSpec

\* When rank 0 has come through on_train_end, every export its job started has the
\* shards and the index of its iteration, and copied files that are torn only where
\* an earlier job tore them.
THEOREM ExportsAreDelivered == SafeStorage => (ExportSpec => []ExportsDelivered)
<1> SUFFICES ASSUME SafeStorage PROVE ExportSpec => []ExportsDelivered
  OBVIOUS
<1>1. ExpInv => ExportsDelivered
  <2> SUFFICES ASSUME ExpInv, Returned, NEW v \in asked
               PROVE  Whole(v) /\ CopiedUnlessCut(v.it)
    BY DEF ExportsDelivered
  <2>1. ~error /\ ~thread.alive /\ pc[0] # "failed"
    BY DEF ExpInv, Clean, Returned
  <2>2. failures = {}
    BY <2>1 DEF ExpInv, Remembered
  <2> QED
    BY <2>1, <2>2 DEF ExpInv, Accounted, Delivered
<1> QED
  BY <1>1, ExportInvariance, PTL

\* An export that raised stops rank 0 at the next export that is due, and at the
\* end of the training at the latest.
THEOREM ErrorsAreSurfaced == SafeStorage => (ExportSpec => []ErrorsSurface)
<1> SUFFICES ASSUME SafeStorage PROVE ExportSpec => []ErrorsSurface
  OBVIOUS
<1>1. IInv /\ ExpInv => ErrorsSurface
  <2> SUFFICES ASSUME IInv, ExpInv, NEW i \in failures
               PROVE  /\ ~Returned
                      /\ \A v \in asked : v.it <= i
                      /\ \A j \in i + 1 .. it[0] - 1 : ~(SaveDue(j) /\ ExportDue(j))
    BY DEF ErrorsSurface
  <2>1. ~Returned
    BY DEF ExpInv, Remembered, Clean, Returned
  <2>2. PICK v \in asked : v.it = i
    BY DEF ExpInv, Remembered
  <2>3. \A w \in asked : w.it <= i /\ w.it \in Nat
    BY ItersInt DEF ExpInv, Remembered, ExportTypes, Version
  <2>4. ASSUME NEW j \in i + 1 .. it[0] - 1, SaveDue(j), ExportDue(j) PROVE FALSE
    <3>1. i \in Nat /\ it[0] \in Nat /\ it[0] <= MaxIter /\ MaxIter \in Nat
      BY <2>2, <2>3, RankZero, DcpAssumption DEF IInv, TypeOK, Iters
    <3>2. j \in Iters /\ i < j /\ j < it[0]
      BY <3>1 DEF Iters
    <3>3. \E w \in asked : w.it = j
      BY <2>2, <2>4, <3>2 DEF ExpInv, NoneLeftOut
    <3> QED
      BY <2>3, <3>1, <3>2, <3>3
  <2> QED
    BY <2>1, <2>3, <2>4
<1> QED
  BY <1>1, ExportInvariance, PTL
=============================================================================
