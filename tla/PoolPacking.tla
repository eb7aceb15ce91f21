----------------------------- MODULE PoolPacking -----------------------------
(***************************************************************************)
(* The packing engine of DataPackerDataLoader                              *)
(* (data/vfm/packing_iterable_dataset.py): a pool is kept full; its oldest *)
(* sample, the seed, begins a batch, and the candidate that costs least    *)
(* joins it as long as the padded batch fits into a budget of tokens.      *)
(***************************************************************************)
EXTENDS SampleNumbers, SequencesExt, FiniteSets, FiniteSetsExt

CONSTANTS
    MaxTokens,      \* max_tokens
    HalfFrom,       \* the length from which only half of it may be used (1000)
    PoolSize,       \* pool_size
    MaxBatchSize,   \* max_batch_size; 0 is no cap
    LongThreshold,  \* long_threshold
    PreferClosest,  \* batching_strategy is "prefer_closest", not "prefer_first"
    PoolLengths,    \* the token counts compute_sample_tokens may give
    Modalities,     \* what _get_modality tells apart
    MaxArrivals     \* bound: samples drawn from the datasets

ASSUME PoolAssumption ==
    /\ {MaxTokens, HalfFrom, MaxBatchSize, LongThreshold, MaxArrivals} \subseteq Nat
    /\ PoolSize \in Nat \ {0}
    /\ PreferClosest \in BOOLEAN
    /\ PoolLengths \subseteq Nat
    /\ Modalities # {}

\* A sample: its place among all drawn, its tokens and modality, and, as history,
\* the batches completed before it was drawn.
PoolSample == [n : 1 .. MaxArrivals, tokens : PoolLengths, modality : Modalities,
               since : Nat]

VARIABLES
    pool,      \* _pool
    chosen,    \* chosen: the batch being built
    curMax,    \* cur_max: the longest sample in it
    poolPc,    \* where _best_fit_batch is
    arrived,   \* samples drawn so far
    batches,   \* history: batches completed
    emitted    \* history: the samples of these batches

poolVars == <<pool, chosen, curMax, poolPc, arrived, batches, emitted>>

PoolTypeOK ==
    /\ pool \in Seq(PoolSample) /\ Len(pool) <= PoolSize
    /\ chosen \in Seq(PoolSample) /\ curMax \in Nat
    /\ poolPc \in {"fill", "choose"}
    /\ arrived \in 0 .. MaxArrivals /\ batches \in Nat
    /\ emitted \subseteq PoolSample

PoolInit ==
    /\ pool = <<>> /\ chosen = <<>> /\ curMax = 0
    /\ poolPc = "fill"
    /\ arrived = 0 /\ batches = 0 /\ emitted = {}
-----------------------------------------------------------------------------
\* _fill_pool draws a sample of any of the datasets; one that is exhausted is
\* iterated again.
Fill ==
    /\ poolPc = "fill"
    /\ Len(pool) < PoolSize
    /\ arrived < MaxArrivals
    /\ arrived' = arrived + 1
    /\ \E t \in PoolLengths, m \in Modalities :
          pool' = Append(pool, [n |-> arrived + 1, tokens |-> t, modality |-> m,
                                since |-> batches])
    /\ UNCHANGED <<chosen, curMax, poolPc, batches, emitted>>

\* _max_tokens: the budget of a batch whose longest sample has so many tokens.
Budget(longest) == IF longest < HalfFrom THEN MaxTokens ELSE MaxTokens \div 2

\* The seed is a batch by itself.
SeedAlone(seed) == seed.tokens >= LongThreshold \/ seed.tokens >= Budget(seed.tokens)

\* The batch is yielded.
Emit(samples) ==
    /\ emitted' = emitted \cup ToSet(samples)
    /\ batches' = batches + 1
    /\ chosen' = <<>> /\ curMax' = 0
    /\ poolPc' = "fill"

\* The oldest sample begins a batch.
TakeSeed ==
    /\ poolPc = "fill"
    /\ Len(pool) = PoolSize
    /\ pool' = Tail(pool)
    /\ IF SeedAlone(Head(pool))
       THEN Emit(<<Head(pool)>>)
       ELSE /\ chosen' = <<Head(pool)>>
            /\ curMax' = Head(pool).tokens
            /\ poolPc' = "choose"
            /\ UNCHANGED <<batches, emitted>>
    /\ UNCHANGED arrived

\* new_max, the longest sample of the batch with candidate i.
NewMax(i) == Max({curMax, pool[i].tokens})

\* Mutated form: the candidate's own length does not count.
PaddedCostStale(i) == curMax * (Len(chosen) + 1)
\* _padded_cost of the batch with candidate i.
PaddedCost(i) == NewMax(i) * (Len(chosen) + 1)

LengthDiff(i) == LET d == pool[i].tokens - curMax IN Max({d, -d})

SameModality(i) == pool[i].modality = chosen[1].modality

\* Candidates of the seed's modality that fit; the budget is that of the batch
\* without the candidate.
Fitting == {i \in DOMAIN pool : SameModality(i) /\ PaddedCost(i) <= Budget(curMax)}

\* Candidate i is preferred to candidate j.
Preferred(i, j) ==
    \/ PaddedCost(i) < PaddedCost(j)
    \/ /\ PaddedCost(i) = PaddedCost(j)
       /\ \/ PreferClosest /\ LengthDiff(i) < LengthDiff(j)
          \/ (PreferClosest => LengthDiff(i) = LengthDiff(j)) /\ i <= j

\* _find_best_candidate returns i; it returns nothing if no candidate fits.
BestCandidate(i) == i \in Fitting /\ \A j \in Fitting : Preferred(i, j)

\* Mutated form: the pool is not rotated back.
WithoutRotated(i) == SubSeq(pool, i + 1, Len(pool)) \o SubSeq(pool, 1, i - 1)
\* Mutated form: the last of the pool is taken out instead.
WithoutLast(i) == SubSeq(pool, 1, Len(pool) - 1)
\* _remove_from_pool leaves the others in their order.
PoolWithout(i) == RemoveAt(pool, i)

BatchFull == MaxBatchSize # 0 /\ Len(chosen) >= MaxBatchSize

AddCandidate ==
    /\ poolPc = "choose"
    /\ ~BatchFull
    /\ \E i \in DOMAIN pool :
          /\ BestCandidate(i)
          /\ chosen' = Append(chosen, pool[i])
          /\ curMax' = NewMax(i)
          /\ pool' = PoolWithout(i)
    /\ UNCHANGED <<poolPc, arrived, batches, emitted>>

EmitBatch ==
    /\ poolPc = "choose"
    /\ BatchFull \/ Fitting = {}
    /\ Emit(chosen)
    /\ UNCHANGED <<pool, arrived>>

\* No sample is left within the bound.
PoolDrained ==
    /\ poolPc = "fill" /\ Len(pool) < PoolSize /\ arrived = MaxArrivals
    /\ UNCHANGED poolVars

PoolNext == Fill \/ TakeSeed \/ AddCandidate \/ EmitBatch \/ PoolDrained

PoolSpec == PoolInit /\ [][PoolNext]_poolVars
-----------------------------------------------------------------------------
(***************************************************************************)
(* Properties                                                              *)
(***************************************************************************)

\* No sample starves: for every batch completed since it came it has moved up a
\* place, so it is a seed after fewer than PoolSize batches although others of the
\* pool keep overtaking it, and samples taken from the middle leave the order.
NoneStarves ==
    \A i \in DOMAIN pool :
        i + (batches - pool[i].since) <= PoolSize - (IF poolPc = "choose" THEN 1 ELSE 0)

\* Every sample drawn is in the pool, in the batch, or was emitted, and only in one
\* of these places and once: nothing is lost or repeated by the removals from the
\* middle.
EmittedOnce ==
    LET out == {s.n : s \in emitted}
    IN  /\ Distinct(pool) /\ Distinct(chosen)
        /\ Numbers(pool) \cap Numbers(chosen) = {}
        /\ out \cap (Numbers(pool) \cup Numbers(chosen)) = {}
        /\ Numbers(pool) \cup Numbers(chosen) \cup out = 1 .. arrived

\* A batch of several samples is of one modality and keeps its padded cost within
\* max_tokens, though its budget is computed before each candidate joins.
PaddedWithinBudget ==
    Len(chosen) > 1 =>
        \A i \in DOMAIN chosen :
            /\ chosen[i].tokens * Len(chosen) <= MaxTokens
            /\ chosen[i].modality = chosen[1].modality
=============================================================================
