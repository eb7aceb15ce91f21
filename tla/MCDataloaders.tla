--------------------------- MODULE MCDataloaders ---------------------------
(***************************************************************************)
(* What TLC checks of the code that divides samples and packs them into    *)
(* batches.  Its parts do not interact: a job uses one of them, so a       *)
(* behaviour is one of the joint packing loop, of the pool packing, of the *)
(* division of the ranks, or of inference on several replicas, while the   *)
(* variables of the others rest.                                           *)
(***************************************************************************)
EXTENDS JointPacking, PoolPacking, RankPartition, ReplicaBatches

VARIABLE loader   \* the one in use

loaderVars == <<vars, poolVars, partVars, replicaVars, loader>>

\* Two datasets: the first has two turns in a round of three, and may look
\* further ahead.
MCRatios == <<2, 1>>
MCLookaheadLimits == <<2, 1>>

LoaderInit ==
    /\ Init /\ PoolInit /\ PartInit /\ ReplicaInit
    /\ loader \in {"joint", "pool", "partition", "replicas"}
    /\ loader # "joint" => \A d \in Datasets : size[d] = 0
    /\ loader # "replicas" => costs = <<1>> /\ ~keepGoing /\ ~profile

LoaderNext ==
    \/ loader = "joint" /\ Next /\ UNCHANGED <<poolVars, partVars, replicaVars, loader>>
    \/ loader = "pool" /\ PoolNext /\ UNCHANGED <<vars, partVars, replicaVars, loader>>
    \/ loader = "partition" /\ PartNext /\ UNCHANGED <<vars, poolVars, replicaVars, loader>>
    \/ loader = "replicas" /\ ReplicaNext /\ UNCHANGED <<vars, poolVars, partVars, loader>>

LoaderSpec == LoaderInit /\ [][LoaderNext]_loaderVars

\* The types of all four.
LoaderTypeOK == TypeOK /\ PoolTypeOK /\ PartTypeOK /\ ReplicaTypeOK
=============================================================================
