-------------------------- MODULE MCDcpCheckpoint --------------------------
(***************************************************************************)
(* What TLC checks of DcpCheckpoint.  The ranks are integers, of which     *)
(* rank 0 is special, so there is no symmetry to declare.                  *)
(*                                                                         *)
(* The two claims below are made by the comments of the code; the runs     *)
(* sync_success and rewrite_latest show executions that break them.        *)
(***************************************************************************)
EXTENDS DcpInvariant

\* utils/callback.py on on_save_checkpoint_success: it is called when "checkpoint
\* saving is fully finished", so the pointer names the checkpoint (or a later
\* one) and no rank's dataloader file is missing from it.
SuccessIsFinished ==
    \A r \in Ranks : Loaded(r) /\ acked[r] > 0 =>
        /\ latest >= acked[r]
        /\ LoaderState => \A q \in Ranks : pkl[acked[r]][q] # NoFile

\* keys_to_resume_during_load, "Resume training from the latest checkpoint of the
\* same model": what the pointer names can always be loaded again, whenever the
\* job is killed.
LatestLoadable == latest \in Iters => Readable(latest)
=============================================================================
