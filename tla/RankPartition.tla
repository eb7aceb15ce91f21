---------------------------- MODULE RankPartition ----------------------------
(***************************************************************************)
(* How RankPartitionedDataLoader (data/vfm/joint_dataloader.py) divides    *)
(* the ranks among the datasets: each gets its share of the ranks, rounded *)
(* down but at least one, and the sum is then repaired.  Every rank        *)
(* computes this for itself, from the same configuration, and then finds   *)
(* its own dataset and shard.  The fractions are exact here.               *)
(***************************************************************************)
EXTENDS Integers, Sequences, FiniteSets

CONSTANTS
    WorldSizes,    \* world sizes to try
    RatioValues,   \* the ratios a dataset may have
    MaxDatasets    \* bound: datasets with a positive ratio

ASSUME PartitionAssumption ==
    /\ WorldSizes \subseteq Nat \ {0}
    /\ RatioValues \subseteq Nat \ {0}
    /\ MaxDatasets \in Nat \ {0}

VARIABLES
    worldSize,     \* world_size
    ratios,        \* ratios
    allocations,   \* allocations
    partPc         \* where the constructor is

partVars == <<worldSize, ratios, allocations, partPc>>

PartTypeOK ==
    /\ worldSize \in WorldSizes \cup {0}
    /\ ratios \in Seq(RatioValues)
    /\ allocations \in Seq(Nat) /\ Len(allocations) = Len(ratios)
    /\ partPc \in {"start", "repair", "done"}

PartInit == worldSize = 0 /\ ratios = <<>> /\ allocations = <<>> /\ partPc = "start"
-----------------------------------------------------------------------------
\* The sums of the first terms of s; a recursive function, since the proofs need the
\* sums in between.
Sums(s) ==
    LET sum[i \in 0 .. Len(s)] == IF i = 0 THEN 0 ELSE sum[i - 1] + s[i]
    IN  sum
SumOf(s) == Sums(s)[Len(s)]

\* ideal[i] times total_ratio, for ratios rs and n ranks.
Ideal(rs, n, i) == rs[i] * n

\* max(1, int(ideal[i]))
Rounded(rs, n, i) ==
    LET share == Ideal(rs, n, i) \div SumOf(rs) IN IF share = 0 THEN 1 ELSE share

\* The constructor is called; it asserts that every dataset can have a rank.
Construct ==
    /\ partPc = "start"
    /\ worldSize' \in WorldSizes
    /\ \E k \in 1 .. MaxDatasets :
          /\ k <= worldSize'
          /\ ratios' \in [1 .. k -> RatioValues]
    /\ allocations' = [i \in DOMAIN ratios' |-> Rounded(ratios', worldSize', i)]
    /\ partPc' = "repair"

Remaining == worldSize - SumOf(allocations)

\* ideal[i] - allocations[i], times total_ratio.
Short(i) == Ideal(ratios, worldSize, i) - allocations[i] * SumOf(ratios)

\* Mutated form: the smallest remainders come first.
AheadAscending(i, j) == Short(i) < Short(j) \/ (Short(i) = Short(j) /\ i < j)
\* Dataset i is in front of dataset j in remainders.
Ahead(i, j) == Short(i) > Short(j) \/ (Short(i) = Short(j) /\ i < j)

\* Ranks that remain go to the largest remainders, one to each; the sum is not looked
\* at again.
GiveRemaining ==
    /\ partPc = "repair"
    /\ Remaining > 0
    /\ allocations' = [i \in DOMAIN allocations |->
           IF Cardinality({j \in DOMAIN ratios : Ahead(j, i)}) < Remaining
           THEN allocations[i] + 1 ELSE allocations[i]]
    /\ partPc' = "done"
    /\ UNCHANGED <<worldSize, ratios>>

\* Mutated form: any dataset may give up its only rank.
GiversAny == DOMAIN allocations
\* The datasets a rank can be taken from.
Givers == {i \in DOMAIN allocations : allocations[i] > 1}

\* Dataset i is taken from rather than dataset j.
TakenRather(i, j) ==
    \/ Short(i) < Short(j)
    \/ Short(i) = Short(j) /\ (\/ allocations[i] > allocations[j]
                               \/ allocations[i] = allocations[j] /\ i <= j)

\* One of the ranks that do not exist is taken back.
TakeBack ==
    /\ partPc = "repair"
    /\ Remaining < 0
    /\ LET best == CHOOSE i \in Givers : \A j \in Givers : TakenRather(i, j)
       IN  allocations' = [allocations EXCEPT ![best] = @ - 1]
    /\ UNCHANGED <<worldSize, ratios, partPc>>

Allocated ==
    /\ partPc = "repair"
    /\ Remaining = 0
    /\ partPc' = "done"
    /\ UNCHANGED <<worldSize, ratios, allocations>>

PartDone == partPc = "done" /\ UNCHANGED partVars

PartNext == Construct \/ GiveRemaining \/ TakeBack \/ Allocated \/ PartDone

PartSpec == PartInit /\ [][PartNext]_partVars

\* Ranks of the datasets before dataset i.
Cumulative(i) == Sums(allocations)[i - 1]

\* my_dataset_idx, shard_rank and shard_world_size of a rank.
MyDataset(rank) == CHOOSE i \in DOMAIN allocations :
                      /\ rank < Cumulative(i) + allocations[i]
                      /\ \A j \in 1 .. i - 1 : rank >= Cumulative(j) + allocations[j]
ShardRank(rank) == rank - Cumulative(MyDataset(rank))
-----------------------------------------------------------------------------
(***************************************************************************)
(* Properties                                                              *)
(***************************************************************************)

\* The shards of a dataset are read by exactly as many ranks as it was allocated,
\* each shard by one rank: no dataset is without a rank, no part of one is read
\* twice or by nobody, and no rank is left over, whatever the repair had to do.
ShardsCovered ==
    partPc = "done" =>
        \A i \in DOMAIN ratios :
            LET readers == {r \in 0 .. worldSize - 1 : MyDataset(r) = i}
            IN  /\ readers # {}
                /\ Cardinality(readers) = allocations[i]
                /\ {ShardRank(r) : r \in readers} = 0 .. allocations[i] - 1

\* A dataset never gets fewer ranks than one of a smaller ratio, and never a whole
\* rank more than its share unless that is its only one.
SharesFair ==
    partPc = "done" =>
        \A i, j \in DOMAIN ratios :
            /\ ratios[i] >= ratios[j] + 1 => allocations[i] >= allocations[j]
            /\ allocations[i] = 1 \/ Short(i) > -SumOf(ratios)
=============================================================================
