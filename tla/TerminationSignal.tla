------------------------- MODULE TerminationSignal -------------------------
(***************************************************************************)
(* The training job of DcpCheckpoint under a batch system that announces   *)
(* the end of an allocation (callbacks/termination_signal_checkpoint.py).  *)
(*                                                                         *)
(* The batch shell creates a sentinel file; every rank polls for it at the *)
(* end of each training step, by itself, and either exits at once (little  *)
(* progress since its last acknowledged checkpoint) or saves, finalizes    *)
(* and exits.  The allocation ends with a kill, and the job is requeued.   *)
(***************************************************************************)
EXTENDS DcpCheckpoint

CONSTANT MinProgress   \* int(save_iter * min_save_fraction)

ASSUME TerminationAssumption == MinProgress \in 0 .. SaveIter

VARIABLES
    sentinel,   \* $SLURM_LOG_DIR/SIGUSR1_RECEIVED exists
    decision    \* what each rank did about it

termVars == <<vars, sentinel, decision>>

Decisions == {"none", "skip", "save"}

TermInit == Init /\ sentinel = FALSE /\ decision = Everywhere("none")
-----------------------------------------------------------------------------
\* The batch shell's trap.  A kill follows, so an incarnation must be left.
SentinelAppears ==
    /\ job < MaxJobs
    /\ ~sentinel
    /\ sentinel' = TRUE
    /\ UNCHANGED <<vars, decision>>

\* on_training_step_end: the file is not there.
PollClear(r) ==
    /\ ~sentinel
    /\ TrainingStepEnd(r)
    /\ UNCHANGED <<sentinel, decision>>

\* Mutated form: the comparison is reversed.
LittleProgressReversed(r) == it[r] - acked[r] >= MinProgress
\* Too little progress since _last_checkpoint_iteration to be worth a save.
LittleProgress(r) == it[r] - acked[r] < MinProgress

\* sys.exit(0) without a save.  The interpreter's exit handlers terminate the
\* daemon background process, whatever it is doing.
PollSkip(r) ==
    /\ pc[r] = "stepend"
    /\ sentinel
    /\ LittleProgress(r)
    /\ decision' = [decision EXCEPT ![r] = "skip"]
    /\ pc' = [pc EXCEPT ![r] = "done"]
    /\ wk' = IF Async THEN [wk EXCEPT ![r] = At(r, "dead")] ELSE wk
    /\ UNCHANGED <<storageVars, job, it, mem, pos, resume, ret, acked, asyncVars, sentinel>>

\* Mutated form: the emergency save is not followed by finalize.
AfterEmergencySaveExit == "barrier"
AfterEmergencySave == "finalize"

\* checkpointer.save, then finalize.
PollSave(r) ==
    /\ pc[r] = "stepend"
    /\ sentinel
    /\ ~LittleProgress(r)
    /\ decision' = [decision EXCEPT ![r] = "save"]
    /\ EnterSave(r, AfterEmergencySave)
    /\ UNCHANGED <<storageVars, job, it, mem, pos, resume, acked, asyncVars, wk, sentinel>>

\* sys.exit(0) after finalize.
EmergencyExit(r) ==
    /\ pc[r] = "barrier"
    /\ decision[r] = "save"
    /\ pc' = [pc EXCEPT ![r] = "done"]
    /\ UNCHANGED <<storageVars, job, it, mem, pos, resume, ret, acked, asyncVars, wk,
                   sentinel, decision>>

\* The final barrier is never passed once a rank has left by sys.exit.
TermFinishTraining ==
    /\ FinishTraining
    /\ decision = Everywhere("none")
    /\ UNCHANGED <<sentinel, decision>>

\* The kill at the end of the allocation, or any other death of the job.  The
\* next incarnation may find the old sentinel if it shares the log directory.
TermRestart ==
    /\ Restart
    /\ sentinel' \in {FALSE, sentinel}
    /\ decision' = Everywhere("none")

\* Every rank left because of the sentinel; the job is requeued.
Requeue ==
    /\ \A r \in Ranks : pc[r] = "done"
    /\ \E r \in Ranks : decision[r] # "none"
    /\ Reboot
    /\ sentinel' = FALSE
    /\ decision' = Everywhere("none")

TermFaults ==
    \/ TermRestart
    \/ /\ CollectiveFails \/ \E r \in Ranks : LocalWriteFails(r) \/ BackgroundDies(r)
       /\ UNCHANGED <<sentinel, decision>>

TermNext ==
    \/ Steps /\ UNCHANGED <<sentinel, decision>>
    \/ \E r \in Ranks : PollClear(r) \/ PollSkip(r) \/ PollSave(r) \/ EmergencyExit(r)
    \/ TermFinishTraining
    \/ SentinelAppears
    \/ Requeue
    \/ TermFaults
    \/ Terminated /\ UNCHANGED <<sentinel, decision>>

TermFairness ==
    /\ \A r \in Ranks :
          /\ WF_termVars(Main(r) /\ UNCHANGED <<sentinel, decision>>)
          /\ WF_termVars(Worker(r) /\ UNCHANGED <<sentinel, decision>>)
          /\ WF_termVars(PollClear(r) \/ PollSkip(r) \/ PollSave(r) \/ EmergencyExit(r))
    /\ WF_termVars((\E k \in Keys, i \in Iters : CommitKey(k, i))
                   /\ UNCHANGED <<sentinel, decision>>)
    /\ WF_termVars(TermFinishTraining)
    /\ WF_termVars(TermRestart /\ \E r \in Ranks : pc[r] = "failed")

TermSpec     == TermInit /\ [][TermNext]_termVars
TermFairSpec == TermSpec /\ TermFairness
-----------------------------------------------------------------------------
(***************************************************************************)
(* Properties                                                              *)
(***************************************************************************)

\* A rank that exits without saving gives up fewer than MinProgress iterations,
\* measured against the checkpoint the next job will really find: the iteration
\* the callback remembers from on_save_checkpoint_success is never ahead of the
\* pointer when it decides.  (The async mode; see SuccessIsFinished in
\* MCDcpCheckpoint for the sync one.)
SkipLosesLittle ==
    \A r \in Ranks : decision[r] = "skip" =>
        it[r] - (IF latest < 0 THEN 0 ELSE latest) < MinProgress

\* When every rank has made its emergency save and left by sys.exit, the
\* checkpoint they made is complete and the one the next job will find, unless a
\* background process was killed meanwhile: save() and finalize() of the
\* callback wait for whatever was in progress before it.
EmergencySaveDurable ==
    (\A r \in Ranks : decision[r] = "save" /\ pc[r] = "done" /\ wk[r].st # "dead") =>
        /\ \A r \in Ranks : latest = it[r]
        /\ Intact(latest)

\* As the module's documentation says of on_training_step_end: an emergency save
\* is made only MinProgress iterations or more after the last checkpoint.
NoRedundantSave ==
    [][\A r \in Ranks : PollSave(r) =>
          it[r] - (IF latest < 0 THEN 0 ELSE latest) >= MinProgress]_termVars

\* As the module's documentation says of the polling, the time before the kill is
\* "sufficent for the poll to detect the sentinel and save a checkpoint": a rank
\* that detected it and began its emergency save completes it and leaves.
EmergencySaveCompletes ==
    \A r \in Ranks :
        decision[r] = "save" ~> (decision[r] = "none" \/ pc[r] = "done")
=============================================================================
