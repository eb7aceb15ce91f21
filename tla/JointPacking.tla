---------------------------- MODULE JointPacking ----------------------------
(***************************************************************************)
(* The packing loop of the joint dataloaders (data/vfm/joint_dataloader.py)*)
(* on one rank: a dataset is selected, its samples are packed into a batch *)
(* up to a token budget, and a sample that does not fit any more is put    *)
(* aside, for a limited number of samples, to look for a smaller one.      *)
(*                                                                         *)
(* IterativeJointDataLoader and RandomJointDataLoader run this loop over   *)
(* several datasets, PackingDataLoader over one.                           *)
(***************************************************************************)
EXTENDS SampleNumbers, SequencesExt, FiniteSets

CONSTANTS
    Ratios,          \* data_ratios: one positive number per dataset
    RoundRobin,      \* seed is None: the datasets take turns
    MaxLength,       \* max_sequence_length; max_samples_per_batch is then None
    LookaheadLimits, \* lookahead_limits: one for each dataset
    Tokens,          \* the token counts a sample may have
    CollateSize,     \* samples in a collated batch of an inner dataloader
    MaxSize          \* bound: collated batches of a dataset

ASSUME PackingAssumption ==
    /\ Ratios \in Seq(Nat \ {0}) /\ Ratios # <<>>
    /\ RoundRobin \in BOOLEAN
    /\ MaxLength \in Nat \ {0}
    /\ LookaheadLimits \in Seq(Nat) /\ DOMAIN LookaheadLimits = DOMAIN Ratios
    /\ Tokens \subseteq Nat \ {0} /\ Tokens # {}
    /\ CollateSize \in Nat \ {0}
    /\ MaxSize \in Nat

Datasets == DOMAIN Ratios

\* A sample: its dataset, its place in the dataset, its tokens, and, as history,
\* how often it was put aside.
Sample == [ds : Datasets, n : 1 .. CollateSize * MaxSize, tokens : Tokens,
           skips : Nat]

VARIABLES
    size,       \* collated batches in each dataset; it never changes
    pc,         \* control state of the generator
    index,      \* index_id
    globalId,   \* global_id
    drawn,      \* collated batches each inner dataloader has given
    buffers,    \* buffers
    batch,      \* output_batch
    length,     \* current_sequence_length
    skipped,    \* skipped_samples
    lookahead,  \* lookahead_count
    delivered,  \* history: what was yielded
    dropped     \* history: what was discarded

packVars == <<batch, length, skipped, lookahead>>
vars     == <<size, pc, index, globalId, drawn, buffers, packVars, delivered, dropped>>

PackStates == {"prewarm", "select", "pack", "finish", "yielded", "ended"}

TypeOK ==
    /\ size \in [Datasets -> 0 .. MaxSize]
    /\ pc \in PackStates
    /\ index \in Datasets
    /\ globalId \in Nat
    /\ drawn \in [Datasets -> 0 .. MaxSize]
    /\ buffers \in [Datasets -> Seq(Sample)]
    /\ batch \in Seq(Sample) /\ skipped \in Seq(Sample)
    /\ length \in Nat
    /\ lookahead \in 0 .. LookaheadLimits[index]
    /\ delivered \subseteq Sample /\ dropped \subseteq Sample

Init ==
    /\ size \in [Datasets -> 0 .. MaxSize]
    /\ pc = "prewarm"
    /\ index = 1
    /\ globalId = 0
    /\ drawn = [d \in Datasets |-> 0]
    /\ buffers = [d \in Datasets |-> <<>>]
    /\ batch = <<>> /\ length = 0 /\ skipped = <<>> /\ lookahead = 0
    /\ delivered = {} /\ dropped = {}
-----------------------------------------------------------------------------
\* The samples of the next collated batch of dataset d, with token counts ts.
Collated(d, ts) ==
    [j \in 1 .. CollateSize |->
        [ds |-> d, n |-> CollateSize * drawn[d] + j, tokens |-> ts[j], skips |-> 0]]

\* A collated batch is drawn and split into its samples.
Draw(d) ==
    /\ drawn[d] < size[d]
    /\ drawn' = [drawn EXCEPT ![d] = @ + 1]
    /\ \E ts \in [1 .. CollateSize -> Tokens] :
          buffers' = [buffers EXCEPT ![d] = @ \o Collated(d, ts)]

\* _prewarm_dataloaders: one collated batch of every dataset that has one.
Prewarm ==
    /\ pc = "prewarm"
    /\ \/ Draw(index)
       \/ drawn[index] = size[index] /\ UNCHANGED <<drawn, buffers>>
    /\ IF index = Len(Ratios)
       THEN pc' = "select" /\ index' = 1
       ELSE index' = index + 1 /\ UNCHANGED pc
    /\ UNCHANGED <<size, globalId, packVars, delivered, dropped>>

RatioSum == FoldSeq(+, 0, Ratios)

\* The ids of a round before those of dataset i.
IdsBefore(i) == FoldSeq(+, 0, SubSeq(Ratios, 1, i - 1))

\* _get_dataloader_index: dataset i has Ratios[i] consecutive ids of a round.
HasId(i, id) == IdsBefore(i) <= id /\ id < IdsBefore(i) + Ratios[i]

Selectable ==
    IF RoundRobin THEN {i \in Datasets : HasId(i, globalId % RatioSum)} ELSE Datasets

\* The next batch is begun.
Select ==
    /\ pc = "select"
    /\ index' \in Selectable
    /\ batch' = <<>> /\ length' = 0 /\ skipped' = <<>> /\ lookahead' = 0
    /\ pc' = "pack"
    /\ UNCHANGED <<size, globalId, drawn, buffers, delivered, dropped>>

\* Mutated form: the limit is off by one.
TriedEnoughLate == batch # <<>> /\ lookahead > LookaheadLimits[index]
\* Enough samples were put aside for this batch.
TriedEnough     == batch # <<>> /\ lookahead >= LookaheadLimits[index]

StopPacking ==
    /\ pc = "pack"
    /\ TriedEnough
    /\ pc' = "finish"
    /\ UNCHANGED <<size, index, globalId, drawn, buffers, packVars, delivered, dropped>>

\* _get_next_sample finds the buffer empty.
Refill ==
    /\ pc = "pack"
    /\ ~TriedEnough
    /\ buffers[index] = <<>>
    /\ Draw(index)
    /\ UNCHANGED <<size, pc, index, globalId, packVars, delivered, dropped>>

\* StopIteration of the inner dataloader.
Exhausted ==
    /\ pc = "pack"
    /\ ~TriedEnough
    /\ buffers[index] = <<>>
    /\ drawn[index] = size[index]
    /\ pc' = "finish"
    /\ UNCHANGED <<size, index, globalId, drawn, buffers, packVars, delivered, dropped>>

\* The sample at the head of the buffer.
Candidate == Head(buffers[index])

\* _get_next_sample takes it.
TakeCandidate ==
    /\ pc = "pack"
    /\ ~TriedEnough
    /\ buffers[index] # <<>>
    /\ buffers' = [buffers EXCEPT ![index] = Tail(@)]

\* The sample does not fit into what is left of the budget.
TooLong == length + Candidate.tokens >= MaxLength

\* A sample that does not fit is discarded if the batch is empty.
Discarded == batch = <<>>

Discard ==
    /\ TakeCandidate
    /\ TooLong /\ Discarded
    /\ dropped' = dropped \cup {Candidate}
    /\ UNCHANGED <<size, pc, index, globalId, drawn, packVars, delivered>>

Skip ==
    /\ TakeCandidate
    /\ TooLong /\ ~Discarded
    /\ skipped' = Append(skipped, [Candidate EXCEPT !.skips = @ + 1])
    /\ lookahead' = lookahead + 1
    /\ UNCHANGED <<size, pc, index, globalId, drawn, batch, length, delivered, dropped>>

Pack ==
    /\ TakeCandidate
    /\ ~TooLong
    /\ batch' = Append(batch, Candidate)
    /\ length' = length + Candidate.tokens
    /\ UNCHANGED <<size, pc, index, globalId, drawn, skipped, lookahead, delivered, dropped>>

\* Mutated form: what was put aside is forgotten.
PutBackNothing(b) == b
\* Mutated form: each is put at the head in the order it was skipped in.
PutBackReversed(b) == Reverse(skipped) \o b
\* Mutated form: they are put behind what is buffered.
PutBackBehind(b) == b \o skipped
\* What was put aside goes back to the head of the buffer, in its order.
PutBack(b) == skipped \o b

\* The batch is yielded; without a sample the generator returns.
Finish ==
    /\ pc = "finish"
    /\ buffers' = [buffers EXCEPT ![index] = PutBack(@)]
    /\ skipped' = <<>>
    /\ IF batch = <<>>
       THEN pc' = "ended" /\ UNCHANGED <<globalId, delivered>>
       ELSE /\ globalId' = globalId + 1
            /\ delivered' = delivered \cup ToSet(batch)
            /\ pc' = "yielded"
    /\ UNCHANGED <<size, index, drawn, batch, length, lookahead, dropped>>

\* The trainer asks for the next batch, or starts a new generator.
Resume ==
    /\ pc \in {"yielded", "ended"}
    /\ pc' = "select"
    /\ UNCHANGED <<size, index, globalId, drawn, buffers, packVars, delivered, dropped>>

Next == \/ Prewarm \/ Select \/ StopPacking \/ Refill \/ Exhausted
        \/ Discard \/ Skip \/ Pack \/ Finish \/ Resume

Spec == Init /\ [][Next]_vars
-----------------------------------------------------------------------------
(***************************************************************************)
(* Properties                                                              *)
(***************************************************************************)

\* What waits for dataset d, in the order it will be looked at.
Waiting(d) == (IF d = index THEN skipped ELSE <<>>) \o buffers[d]

\* However often samples are put aside and put back, those of a dataset wait in
\* its order, and the first of a batch is older than all that still wait: no
\* batch overtakes the oldest sample.
OldestFirst ==
    /\ \A d \in Datasets : Increasing(Waiting(d))
    /\ Increasing(batch)
    /\ pc \in {"pack", "finish", "yielded"} /\ batch # <<>> =>
          \A i \in DOMAIN Waiting(index) : batch[1].n < Waiting(index)[i].n

\* A sample is put aside at most lookahead_limit times before it is delivered:
\* large samples are not starved by small ones.
SkipsBounded ==
    \A d \in Datasets :
        \A i \in DOMAIN Waiting(d) : Waiting(d)[i].skips <= LookaheadLimits[d]

\* Every sample drawn waits, is in the batch, was delivered or was discarded, and
\* is never in two of these places.
NothingLost ==
    \A d \in Datasets :
        LET packed == IF d = index /\ pc \in {"pack", "finish"} THEN Numbers(batch) ELSE {}
            out    == {s.n : s \in {t \in delivered \cup dropped : t.ds = d}}
        IN  /\ Distinct(Waiting(d)) /\ Distinct(batch)
            /\ Numbers(Waiting(d)) \cap packed = {}
            /\ out \cap (Numbers(Waiting(d)) \cup packed) = {}
            /\ Numbers(Waiting(d)) \cup packed \cup out = 1 .. CollateSize * drawn[d]
=============================================================================
