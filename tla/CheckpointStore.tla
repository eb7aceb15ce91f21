-------------------------- MODULE CheckpointStore --------------------------
(***************************************************************************)
(* What the training job is promised about its progress, whatever the      *)
(* storage, the ranks and the background processes do:                     *)
(*   - the committed iteration (the one latest_checkpoint.txt names) only  *)
(*     grows, and only to an iteration the current incarnation reached;    *)
(*   - a crash rolls the job back to the committed iteration, never before *)
(*     it, and so loses at most LossBound iterations of training.          *)
(* DcpCheckpoint is shown to implement this module.                        *)
(***************************************************************************)
EXTENDS Integers

CONSTANTS MaxIter,    \* config.trainer.max_iter
          LossBound   \* the most iterations a crash may cost

VARIABLES committed,  \* iteration of the latest checkpoint, -1 when there is none
          reached     \* the furthest iteration of the current incarnation

storeVars == <<committed, reached>>

\* Where a job started now would begin.
RestartPoint == IF committed < 0 THEN 0 ELSE committed

StoreInit ==
    /\ committed = -1
    /\ reached = 0

\* One optimizer step, refused when it would put too much progress at risk.
Train ==
    /\ reached < MaxIter
    /\ reached + 1 - RestartPoint <= LossBound
    /\ reached' = reached + 1
    /\ UNCHANGED committed

\* A checkpoint of an iteration this incarnation reached becomes the latest.
Commit ==
    /\ \E i \in 0 .. reached :
          /\ i > committed
          /\ committed' = i
    /\ UNCHANGED reached

\* The job dies and its successor restarts from the committed iteration.
Rollback ==
    /\ reached' = RestartPoint
    /\ UNCHANGED committed

StoreNext == Train \/ Commit \/ Rollback

StoreSpec == StoreInit /\ [][StoreNext]_storeVars

=============================================================================
