----------------------------- MODULE MCReaders -----------------------------
(***************************************************************************)
(* What TLC checks of the two parts that hand a caller its data while      *)
(* something else goes on beside or below it: the cached replay with its   *)
(* prefetch thread, and the stream with its failing connection.  They do   *)
(* not interact, so a behaviour is one of them, while the variables of the *)
(* other rest.                                                             *)
(***************************************************************************)
EXTENDS CachedReplay, RetryingStream

VARIABLE reader   \* the one in use

readersVars == <<vars, streamVars, reader>>

ReadersInit == Init /\ StreamInit /\ reader \in {"replay", "stream"}

ReadersNext ==
    \/ reader = "replay" /\ Next /\ UNCHANGED <<streamVars, reader>>
    \/ reader = "stream" /\ StreamNext /\ UNCHANGED <<vars, reader>>

\* Each part is scheduled as it says; the one that is not in use is not.
ReadersSpec ==
    /\ ReadersInit
    /\ [][ReadersNext]_readersVars
    /\ reader = "replay" => Fairness
    /\ reader = "stream" => StreamFairness
=============================================================================
