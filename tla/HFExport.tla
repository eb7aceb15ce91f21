------------------------------ MODULE HFExport ------------------------------
(***************************************************************************)
(* The training job of DcpCheckpoint with the callback that exports the    *)
(* weights to HuggingFace files (callbacks/hf_export.py).                  *)
(*                                                                         *)
(* save() calls on_save_checkpoint before it writes anything: all ranks    *)
(* gather the weights (a collective), and a thread of rank 0 writes them.  *)
(* An error of the thread is kept, and raised by rank 0 at its next export *)
(* or in on_train_end, which the trainer calls between the last save and   *)
(* finalize.  The files outlive the job; the thread does not.              *)
(***************************************************************************)
EXTENDS DcpCheckpoint

CONSTANTS
    ExportEvery,   \* hf_export.export_every_n
    NumFiles,      \* safetensors shards of an export
    LocalModel     \* model_name_or_path is a local directory

ASSUME ExportAssumption ==
    /\ ExportEvery \in Nat \ {0}
    /\ NumFiles \in Nat \ {0}
    /\ LocalModel \in BOOLEAN

VARIABLES
    gathers,   \* weight gathers each rank of this job has joined
    inGather,  \* which ranks are in one
    thread,    \* _export_thread: whether it runs, its next file, its weights
    error,     \* _worker_exception is set
    files,     \* files[i][n]: shard n of hf_exports/iter_i
    index,     \* index[i]: its model.safetensors.index.json and config
    copied,    \* copied[i]: its .py and .json files, copied from the local model
    asked,     \* history: the versions this job was to export
    failures   \* history: the iterations whose export raised in this job

exportVars == <<gathers, inGather, thread, error, files, index, copied, asked, failures>>
hfVars     == <<vars, exportVars>>

Files    == 1 .. NumFiles
NoThread == [alive |-> FALSE, next |-> 1, weights |-> NoFile]

\* A copied file: whether it is there and complete, and which job copied it.
Copy(state, by) == [state |-> state, by |-> by]
NoCopy          == Copy("absent", 0)

ExportInit ==
    /\ Init
    /\ gathers = Everywhere(0) /\ inGather = Everywhere(FALSE)
    /\ thread = NoThread /\ error = FALSE
    /\ files = [i \in Iters |-> [n \in Files |-> NoFile]]
    /\ index = [i \in Iters |-> NoFile]
    /\ copied = [i \in Iters |-> NoCopy]
    /\ asked = {} /\ failures = {}
-----------------------------------------------------------------------------
(***************************************************************************)
(* The hooks                                                               *)
(***************************************************************************)

ExportDue(i) == i % ExportEvery = 0

\* on_save_checkpoint, behind the wait for the previous asynchronous save.
JoinGather(r) ==
    /\ pc[r] = "save"
    /\ NothingPending(r)
    /\ ExportDue(it[r])
    /\ ~inGather[r]
    /\ inGather' = [inGather EXCEPT ![r] = TRUE]
    /\ gathers' = [gathers EXCEPT ![r] = @ + 1]
    /\ UNCHANGED <<vars, thread, error, files, index, copied, asked, failures>>

\* full_tensor() returns once every rank has called it.
Gathered(r) == inGather[r] /\ \A q \in Ranks : gathers[q] >= gathers[r]

LeaveGather(r) == inGather' = [inGather EXCEPT ![r] = FALSE] /\ UNCHANGED gathers

\* Mutated form: the error is looked at before the thread has ended.
ThreadEndedUnchecked == TRUE
\* Rank 0 has joined the thread, or found it ended.
ThreadEnded == ~thread.alive

\* Rank 0 hands the gathered weights to a new thread.
StartThread ==
    /\ ThreadEnded
    /\ ~error
    /\ thread' = [alive |-> TRUE, next |-> 1, weights |-> mem[0]]
    /\ asked' = asked \cup {[job |-> mem[0].job, it |-> it[0]]}

\* The hooks return and save() goes on.
ExportBeginSave(r) ==
    /\ BeginSave(r)
    /\ IF ExportDue(it[r])
       THEN /\ Gathered(r)
            /\ LeaveGather(r)
            /\ IF r = 0 THEN StartThread ELSE UNCHANGED <<thread, asked>>
       ELSE UNCHANGED <<gathers, inGather, thread, asked>>
    /\ UNCHANGED <<error, files, index, copied, failures>>

\* Rank 0 raises the error of the previous export, and forgets it.
RaiseStored ==
    /\ ThreadEnded
    /\ error
    /\ error' = FALSE
    /\ Raise(0)
    /\ UNCHANGED <<storageVars, job, it, mem, pos, resume, ret, acked, asyncVars, wk,
                   thread, files, index, copied, asked, failures>>

RaiseInSave == pc[0] = "save" /\ Gathered(0) /\ RaiseStored /\ LeaveGather(0)

RaiseAtEnd == pc[0] = "finalize" /\ RaiseStored /\ UNCHANGED <<gathers, inGather>>

\* Mutated form: the last export is not waited for.
EndsCleanlyUnjoined(r) == r = 0 => ~error
\* on_train_end returns.
EndsCleanly(r) == r = 0 => ThreadEnded /\ ~error

ExportFinalize(r) == EndsCleanly(r) /\ Finalize(r) /\ UNCHANGED exportVars
-----------------------------------------------------------------------------
(***************************************************************************)
(* _save_and_upload, the thread                                            *)
(***************************************************************************)

Exporting == thread.weights.it

\* Mutated form: the thread reads the model that is being trained.
ExportedLive == mem[0]
\* What the thread writes: the copies made by the gather.
Exported == thread.weights

WriteFile ==
    /\ thread.alive
    /\ thread.next \in Files
    /\ files' = [files EXCEPT ![Exporting][thread.next] = Exported]
    /\ thread' = [thread EXCEPT !.next = @ + 1]
    /\ UNCHANGED <<vars, gathers, inGather, error, index, copied, asked, failures>>

\* The index and the configuration, written anew in every export.
WriteIndex ==
    /\ thread.alive
    /\ thread.next = NumFiles + 1
    /\ index' = [index EXCEPT ![Exporting] = Exported]
    /\ thread' = [thread EXCEPT !.next = @ + 1]
    /\ UNCHANGED <<vars, gathers, inGather, error, files, copied, asked, failures>>

\* Mutated form: an upload is tried until it succeeds.
EndedNever(t) == t
\* The thread ends, after its last step or an error.
Ended(t) == [t EXCEPT !.alive = FALSE]

\* There is something to copy, and no file of that name yet.
Missing(i) == LocalModel /\ copied[i].state = "absent"

\* Missing files are copied, others left as they are; what follows only warns.
CopyMissing ==
    /\ thread.alive
    /\ thread.next = NumFiles + 2
    /\ copied' = IF Missing(Exporting)
                 THEN [copied EXCEPT ![Exporting] = Copy("whole", job)]
                 ELSE copied
    /\ thread' = Ended(thread)
    /\ UNCHANGED <<vars, gathers, inGather, error, files, index, asked, failures>>

\* The file being written when the thread ends early is torn or not begun.
TearFile ==
    \/ UNCHANGED <<files, index, copied>>
    \/ /\ thread.alive /\ thread.next \in Files
       /\ files' = [files EXCEPT ![Exporting][thread.next] = Torn]
       /\ UNCHANGED <<index, copied>>
    \/ /\ thread.alive /\ thread.next = NumFiles + 1
       /\ index' = [index EXCEPT ![Exporting] = Torn]
       /\ UNCHANGED <<files, copied>>
    \/ /\ thread.alive /\ thread.next = NumFiles + 2 /\ Missing(Exporting)
       /\ copied' = [copied EXCEPT ![Exporting] = Copy("torn", job)]
       /\ UNCHANGED <<files, index>>

\* A write raises: _worker_exception is set before the thread ends.
ExportFails ==
    /\ job < MaxJobs
    /\ thread.alive
    /\ TearFile
    /\ error' = TRUE
    /\ thread' = Ended(thread)
    /\ failures' = failures \cup {Exporting}
    /\ UNCHANGED <<vars, gathers, inGather, asked>>

\* The job dies, and with it the daemon thread.
ExportRestart ==
    /\ Restart
    /\ TearFile
    /\ gathers' = Everywhere(0) /\ inGather' = Everywhere(FALSE)
    /\ thread' = NoThread /\ error' = FALSE
    /\ asked' = {} /\ failures' = {}
-----------------------------------------------------------------------------
\* What the callback leaves as it is.
Unhooked(r) ==
    /\ \/ ReadPointer(r) \/ LoadCheckpoint(r) \/ TrainingStep(r) \/ TrainingStepEnd(r)
       \/ LeaveLoop(r) \/ SaveLoaderStateInline(r) \/ StageAndSubmit(r)
       \/ FinishSyncSave(r) \/ ReceiveResult(r) \/ ResultTimeout(r)
       \/ SendTerminate(r) \/ JoinBackground(r)
    /\ UNCHANGED exportVars

ExportMain(r) ==
    \/ Unhooked(r) \/ JoinGather(r) \/ ExportBeginSave(r) \/ ExportFinalize(r)
    \/ r = 0 /\ (RaiseInSave \/ RaiseAtEnd)

ExportWorker(r) == Worker(r) /\ UNCHANGED exportVars
ExportCommit    == (\E k \in Keys, i \in Iters : CommitKey(k, i)) /\ UNCHANGED exportVars
ExportThread    == WriteFile \/ WriteIndex \/ CopyMissing
ExportFinish    == FinishTraining /\ UNCHANGED exportVars

ExportNext ==
    \/ \E r \in Ranks : ExportMain(r) \/ ExportWorker(r)
    \/ ExportCommit \/ ExportThread \/ ExportFinish
    \/ ExportFails \/ ExportRestart
    \/ /\ CollectiveFails \/ \E r \in Ranks : LocalWriteFails(r) \/ BackgroundDies(r)
       /\ UNCHANGED exportVars
    \/ Terminated /\ UNCHANGED exportVars

ExportFairness ==
    /\ \A r \in Ranks : WF_hfVars(ExportMain(r)) /\ WF_hfVars(ExportWorker(r))
    /\ WF_hfVars(ExportCommit) /\ WF_hfVars(ExportThread) /\ WF_hfVars(ExportFinish)
    /\ WF_hfVars(ExportRestart /\ \E r \in Ranks : pc[r] = "failed")

ExportSpec == ExportInit /\ [][ExportNext]_hfVars /\ ExportFairness
-----------------------------------------------------------------------------
(***************************************************************************)
(* Properties                                                              *)
(***************************************************************************)

\* The export of this version is there, and nothing of another one among it.
Whole(v) == index[v.it] = v /\ \A n \in Files : files[v.it][n] = v

\* The copied files are there, and complete unless an earlier job was cut short
\* while it copied them: a file that exists is not copied again.
CopiedUnlessCut(i) ==
    LocalModel =>
        \/ copied[i].state = "whole"
        \/ copied[i].state = "torn" /\ copied[i].by < job

Returned == pc[0] \in {"closing", "join", "barrier", "done"}

\* When rank 0 has come through on_train_end, every export its job started has
\* its shards and its index, all of the weights of its iteration, however long
\* the thread took, however far the training had gone on, and whatever shards and
\* index a crashed job left there.  The copied files it has too, but what an
\* earlier job left torn of them stays torn.
ExportsDelivered ==
    Returned => \A v \in asked : Whole(v) /\ CopiedUnlessCut(v.it)

\* What the code gives of "failures are never silently swallowed": an export that
\* raised stops rank 0 at the next export that is due, and at the end of training
\* at the latest.  The saves in between do not raise it (NextSaveRaises).
ErrorsSurface ==
    \A i \in failures :
        /\ ~Returned
        /\ \A v \in asked : v.it <= i
        /\ \A j \in i + 1 .. it[0] - 1 : ~(SaveDue(j) /\ ExportDue(j))

\* The promise of the callback's design notes, that a failure of the worker is
\* "re-raised on the next checkpoint or at train end": with a failure stored, rank
\* 0 begins no further save.  The code looks for it only where an export is due.
NextSaveRaises ==
    [][error /\ pc[0] = "save" /\ job' = job => pc'[0] \in {"save", "failed"}]_hfVars

\* With finitely many faults the job still trains to the end: neither the gather
\* nor the joins of the thread block it for ever.
ExportCompletion == <>(\A r \in Ranks : pc[r] = "done")
=============================================================================
