--------------------------- MODULE ReplicaBatches ---------------------------
(***************************************************************************)
(* Inference on several replicas (cosmos3/inference.py and                 *)
(* cosmos3/common/inference.py): the samples are divided among replicas,   *)
(* which batch theirs on their own; a replica with fewer batches is given  *)
(* padding, so that all ranks take part in the same collectives, and an    *)
(* error of one rank is made known to all by a collective.                 *)
(*                                                                         *)
(* A rank that waits in a collective is at one of the stages of            *)
(* WorldStages, or at "generate", whose collectives are of its replica.    *)
(***************************************************************************)
EXTENDS Integers, FiniteSets, SequencesExt

CONSTANTS
    NumReplicas,   \* num_replicas
    ReplicaSize,   \* replica_size
    Warmup,        \* warmup: passes over a batch whose outputs are thrown away
    Limit,         \* max_model_len, or max_num_seqs when every sample counts 1
    Costs,         \* the tokens of a sample
    MaxSamples     \* bound: samples of a call

ASSUME ReplicaAssumption ==
    /\ {NumReplicas, ReplicaSize} \subseteq Nat \ {0}
    /\ {Warmup, Limit, MaxSamples} \subseteq Nat
    /\ Costs \subseteq Nat \ {0}

World    == 0 .. NumReplicas * ReplicaSize - 1
Replicas == 0 .. NumReplicas - 1

VARIABLES
    costs,      \* the samples: sample_args_list
    keepGoing,  \* keep_going
    profile,    \* profile
    stage,      \* where each rank is
    round,      \* batches a rank has finished
    pass,       \* passes over the current batch it has finished
    raised,     \* error_flag: the rank raised in the section it synchronises
    globalMax,  \* global_max_batches
    answered    \* history: the outputs each sample was given

rankVars    == <<stage, round, pass, raised>>
replicaVars == <<costs, keepGoing, profile, rankVars, globalMax, answered>>

WorldStages == {"create", "count", "inputs", "outputs"}
Stages == WorldStages \cup {"plan", "next", "ready", "generate", "saving", "done", "failed"}

\* status of SampleOutputs.
Statuses == {"success", "error"}

ReplicaTypeOK ==
    /\ costs \in Seq(Costs)
    /\ {keepGoing, profile} \subseteq BOOLEAN
    /\ stage \in [World -> Stages]
    /\ round \in [World -> Nat]
    /\ pass \in [World -> 0 .. Warmup]
    /\ raised \in [World -> BOOLEAN]
    /\ globalMax \in Nat
    /\ answered \in [DOMAIN costs -> [Statuses -> Nat]]

\* dummy_sa takes the first sample: there is one.
ReplicaInit ==
    /\ costs \in UNION {[1 .. n -> Costs] : n \in 1 .. MaxSamples}
    /\ keepGoing \in BOOLEAN /\ profile \in BOOLEAN
    /\ stage = [r \in World |-> "create"]
    /\ round = [r \in World |-> 0]
    /\ pass = [r \in World |-> 0]
    /\ raised = [r \in World |-> FALSE]
    /\ globalMax = 0
    /\ answered = [i \in DOMAIN costs |-> [s \in Statuses |-> 0]]
-----------------------------------------------------------------------------
(***************************************************************************)
(* Division of the samples                                                 *)
(***************************************************************************)

ReplicaId(r) == r \div ReplicaSize

\* index_in_replica is 0.
Primary(r) == r % ReplicaSize = 0

\* Mutated form: the shards overlap.
ShardOverlapping(rep) == {i \in DOMAIN costs : i > rep}
\* sampler_indices of a replica.
Shard(rep) == {i \in DOMAIN costs : (i - 1) % NumReplicas = rep}

\* The batch being built, the last of bs, does not take one more sample.
Full(bs, i) ==
    LET running == FoldLeft(LAMBDA sum, j : sum + costs[j], 0, Last(bs))
    IN  running + costs[i] > Limit

\* The batches bs, and sample i with the last of them or in one of its own.
Batched(bs, i) ==
    IF bs = <<>> \/ Full(bs, i) THEN Append(bs, <<i>>)
    ELSE [bs EXCEPT ![Len(bs)] = Append(@, i)]

\* The batches of a replica when the samples up to n are divided.
Dividing(rep) ==
    LET bs[n \in 0 .. Len(costs)] ==
          IF n = 0 THEN <<>>
          ELSE IF n \in Shard(rep) THEN Batched(bs[n - 1], n) ELSE bs[n - 1]
    IN  bs

\* The batches of a replica, each a sequence of samples.
Batches(rep) == Dividing(rep)[Len(costs)]

NumLocalBatches(r) == Len(Batches(ReplicaId(r)))
IsPadding(r)       == round[r] >= NumLocalBatches(r)
Batch(r)           == Batches(ReplicaId(r))[round[r] + 1]

\* should_process_sample, for the samples of the current batch.
Processes(r) == Primary(r) /\ ~IsPadding(r)

\* Mutated form: a replica does not pad.
MoreUnpadded(r) == ~IsPadding(r)
\* create_batches has a batch left for the rank.
More(r) == round[r] < globalMax
-----------------------------------------------------------------------------
(***************************************************************************)
(* Steps of one rank                                                       *)
(***************************************************************************)

Goto(r, s) == stage' = [stage EXCEPT ![r] = s]

\* The error flag of the section a rank has just run.
Flag(r, e) == raised' = [raised EXCEPT ![r] = e]

\* The first step of the generator: batch boundaries, then the all-reduce of
\* their number.
Plan(r) ==
    /\ stage[r] = "plan"
    /\ Goto(r, "count")
    /\ UNCHANGED <<costs, keepGoing, profile, round, pass, raised, globalMax, answered>>

\* The generator yields a batch, one of the rank's own or padding.
Take(r) ==
    /\ stage[r] = "next"
    /\ More(r)
    /\ Goto(r, "ready")
    /\ UNCHANGED <<costs, keepGoing, profile, round, pass, raised, globalMax, answered>>

NoMoreBatches(r) ==
    /\ stage[r] = "next"
    /\ ~More(r)
    /\ Goto(r, "done")
    /\ UNCHANGED <<costs, keepGoing, profile, round, pass, raised, globalMax, answered>>

\* A rank raises outside of any section that synchronises errors: it plans its
\* batches, prepares the data of a batch of its own or of the padding, whether or
\* not there is any, or generates.
Raises(r) ==
    /\ \/ stage[r] \in {"plan", "generate"}
       \/ stage[r] = "next" /\ round[r] <= NumLocalBatches(r)
    /\ Goto(r, "failed")
    /\ UNCHANGED <<costs, keepGoing, profile, round, pass, raised, globalMax, answered>>

\* Processing of the inputs; any rank may raise.
ProcessInputs(r) ==
    /\ stage[r] = "ready"
    /\ Goto(r, "inputs")
    /\ \E e \in BOOLEAN : Flag(r, e)
    /\ UNCHANGED <<costs, keepGoing, profile, round, pass, globalMax, answered>>

\* Saving of the outputs, which only the first rank of the replica does.
SaveOutputs(r) ==
    /\ stage[r] = "saving"
    /\ Goto(r, "outputs")
    /\ \E e \in BOOLEAN : (e => Processes(r)) /\ Flag(r, e)
    /\ UNCHANGED <<costs, keepGoing, profile, round, pass, globalMax, answered>>
-----------------------------------------------------------------------------
(***************************************************************************)
(* Collectives                                                             *)
(***************************************************************************)

AllAt(ranks, s) == \A r \in ranks : stage[r] = s

\* What the sum of the error flags tells a rank.
SomeError(r) == \E q \in World : raised[q]

InWarmup(r) == pass[r] < Warmup

\* _handle_sample_exception is called, for each sample of the batch that the rank
\* reports, and raises.
Aborts(r) == SomeError(r) /\ Processes(r) /\ ~InWarmup(r) /\ ~keepGoing

\* Exporting the profile needs the output_dir of the batch, which padding has not.
ProfileFails(r) == profile /\ r = 0 /\ ~InWarmup(r) /\ IsPadding(r)

\* The ranks of rs return from generate_batch: to the next pass over the batch, to
\* the next batch, or out of the program.  The others are then as others says.
Return(rs, others) ==
    /\ stage' = [r \in World |->
                    IF r \notin rs THEN others[r]
                    ELSE IF Aborts(r) \/ ProfileFails(r) THEN "failed"
                    ELSE IF InWarmup(r) THEN "ready" ELSE "next"]
    /\ round' = [r \in World |-> IF r \in rs /\ ~InWarmup(r) THEN round[r] + 1 ELSE round[r]]
    /\ pass' = [r \in World |->
                    IF r \notin rs THEN pass[r]
                    ELSE IF InWarmup(r) THEN pass[r] + 1 ELSE 0]
    /\ raised' = [r \in World |-> r \notin rs /\ raised[r]]

\* generate_batch reports the samples of its batch, except in a warmup; those of
\* the ranks in bad are errors.
Answer(bad, rs) ==
    LET reports(i, s) ==
            {r \in rs : /\ Processes(r) /\ ~InWarmup(r) /\ ~Aborts(r)
                        /\ i \in Range(Batch(r))
                        /\ s = IF r \in bad THEN "error" ELSE "success"}
    IN  answered' = [i \in DOMAIN answered |->
                        [s \in Statuses |-> answered[i][s] + Cardinality(reports(i, s))]]

\* generate: the section around create_batches, which runs none of it yet.
Created ==
    /\ AllAt(World, "create")
    /\ stage' = [r \in World |-> "plan"]
    /\ UNCHANGED <<costs, keepGoing, profile, round, pass, raised, globalMax, answered>>

\* The all-reduce of the number of batches; one replica alone has its own number.
Counted ==
    /\ AllAt(World, "count")
    /\ \E n \in 0 .. Len(costs) :
          /\ \E r \in World : NumLocalBatches(r) = n
          /\ \A r \in World : NumLocalBatches(r) <= n
          /\ globalMax' = n
    /\ stage' = [r \in World |-> "next"]
    /\ UNCHANGED <<costs, keepGoing, profile, round, pass, raised, answered>>

\* An error while the inputs are processed: generate_batch is left.
InputsMet ==
    /\ AllAt(World, "inputs")
    /\ LET bad == {r \in World : SomeError(r)}
       IN  /\ Return(bad, [r \in World |-> "generate"])
           /\ Answer(bad, bad)
    /\ UNCHANGED <<costs, keepGoing, profile, globalMax>>

Team(rep) == {r \in World : ReplicaId(r) = rep}

\* The ranks of a replica have generated together.
Generated(rep) ==
    /\ AllAt(Team(rep), "generate")
    /\ \A r \in Team(rep) : ~InWarmup(r)
    /\ stage' = [r \in World |-> IF r \in Team(rep) THEN "saving" ELSE stage[r]]
    /\ UNCHANGED <<costs, keepGoing, profile, round, pass, raised, globalMax, answered>>

\* A warmup ends there.
WarmedUp(rep) ==
    /\ AllAt(Team(rep), "generate")
    /\ \A r \in Team(rep) : InWarmup(r)
    /\ Return(Team(rep), stage)
    /\ UNCHANGED <<costs, keepGoing, profile, globalMax, answered>>

\* The outputs are saved, or the ranks in bad know of an error.
Saved(bad) ==
    /\ AllAt(World, "outputs")
    /\ Return(World, stage)
    /\ Answer(bad, World)
    /\ UNCHANGED <<costs, keepGoing, profile, globalMax>>

\* Mutated form: errors of the section are not synchronised.
OutputsMetUnsynced == Saved({r \in World : raised[r]})
OutputsMet         == Saved({r \in World : SomeError(r)})

\* Every rank has ended, or one has failed: then the others wait until the
\* program is stopped from outside.
Stopped ==
    /\ (\E r \in World : stage[r] = "failed") \/ AllAt(World, "done")
    /\ UNCHANGED replicaVars

ReplicaNext ==
    \/ \E r \in World : \/ Plan(r) \/ Take(r) \/ NoMoreBatches(r) \/ Raises(r)
                        \/ ProcessInputs(r) \/ SaveOutputs(r)
    \/ \E rep \in Replicas : WarmedUp(rep) \/ Generated(rep)
    \/ Created \/ Counted \/ InputsMet \/ OutputsMet
    \/ Stopped

ReplicaSpec == ReplicaInit /\ [][ReplicaNext]_replicaVars
-----------------------------------------------------------------------------
(***************************************************************************)
(* Properties                                                              *)
(***************************************************************************)

\* Two ranks that wait in a collective of the whole world are in the same one, for
\* the same batch, and no rank waits in any collective while another has ended: the
\* padding and the synchronised errors keep the replicas together, however unequal
\* their batches.  A rank is only ever left waiting by one that raised.
CollectivesMeet ==
    \A r, q \in World :
        /\ stage[r] \in WorldStages /\ stage[q] \in WorldStages =>
              <<stage[r], round[r], pass[r]>> = <<stage[q], round[q], pass[q]>>
        /\ stage[r] \in WorldStages \cup {"generate"} => stage[q] # "done"

\* No sample is reported twice, and when all ranks have ended each was reported
\* once, a success or an error, whatever failed and was caught.
AnsweredOnce ==
    \A i \in DOMAIN costs :
        LET reports == answered[i]["success"] + answered[i]["error"]
        IN  reports <= 1 /\ (AllAt(World, "done") => reports = 1)

\* The samples the replicas generate side by side are all reported as successes or
\* all as errors: no replica is misled about the others.
RoundsAgree ==
    \A p, q \in Replicas : \A n \in 1 .. globalMax :
        /\ n <= Len(Batches(p)) /\ n <= Len(Batches(q))
        => \A i \in Range(Batches(p)[n]), j \in Range(Batches(q)[n]) :
              ~(answered[i]["success"] > 0 /\ answered[j]["error"] > 0)

\* As sync_distributed_errors says: "Ranks that succeeded will raise a generic error
\* so they gracefully abort too."  A rank that fails in a round with an error that
\* was synchronised leaves none that goes on to the next round.
AbortTogether ==
    [][(InputsMet \/ OutputsMet) /\ (\E r \in World : Aborts(r))
        => \A r \in World : stage'[r] = "failed"]_replicaVars
=============================================================================
