------------------------ MODULE CachedReplay_proofs ------------------------
(***************************************************************************)
(* Theorems about CachedReplay, for every cache size, every concat_size    *)
(* and every number of batches.                                            *)
(***************************************************************************)
EXTENDS CachedReplay, FiniteSetTheorems, TLAPS

(***************************************************************************)
(* The inductive invariant                                                 *)
(***************************************************************************)

\* The cache is within its bound, cache_size.
Bounded == IsFiniteSet(cache) /\ Cardinality(cache) <= CacheSize

\* What exists comes from a raw batch that was fetched, so the next one is new.
Fetched ==
    /\ pending \cup cache \cup collected \cup handed \subseteq made
    /\ \A b \in made : b.raw <= fetched

\* Hands are empty where the code starts a new round.
HandsEmpty ==
    /\ prefetch \in {"loop", "fetch"} => pending = {}
    /\ consumer \in {"loop", "yielded"} => collected = {}

\* The event is set exactly when close() has begun.
StopIsClose == stop <=> closer # "open"

\* The loop over concat_size has collected one batch in every round.
Rounds ==
    /\ IsFiniteSet(collected)
    /\ consumer \in {"take", "wait"} =>
          left > 0 /\ Cardinality(collected) + left = ConcatSize
    /\ consumer = "collected" =>
          Cardinality(collected) = ConcatSize \/ (stop /\ ConcatSize > 1)

\* A join that succeeded leaves nobody to set the error.
Joined ==
    /\ joined => prefetch = "done" /\ closer \in {"clearing", "checking", "closed"}
    /\ CloseReports

ReplayInv ==
    /\ TypeOK
    /\ Bounded /\ OneOwner /\ Fetched /\ HandsEmpty /\ Lossless
    /\ StopIsClose /\ NoLostWakeup /\ ClosedStaysEmpty
    /\ Rounds /\ NeverShort
    /\ Joined
-----------------------------------------------------------------------------
LEMMA InitInv == Init => ReplayInv
<1> SUFFICES ASSUME Init PROVE ReplayInv
  OBVIOUS
<1> USE ReplayAssumption DEF Init
<1>0. Flags
  BY Zenon DEF Flags
<1>1. TypeOK
  BY <1>0 DEF TypeOK, PrefetchStates, ConsumerStates, CloserStates
<1>2. Bounded /\ Rounds
  BY FS_EmptySet DEF Bounded, Rounds
<1>3. OneOwner /\ Fetched /\ HandsEmpty /\ Lossless
  BY DEF OneOwner, Fetched, HandsEmpty, Lossless
<1>4. StopIsClose /\ NoLostWakeup /\ ClosedStaysEmpty /\ NeverShort /\ Joined
  BY DEF StopIsClose, NoLostWakeup, ClosedStaysEmpty, NeverShort, Joined, CloseReports
<1> QED
  BY <1>1, <1>2, <1>3, <1>4 DEF ReplayInv

LEMMA FlagsStep == Flags /\ [Next]_vars => Flags'
<1> SUFFICES ASSUME Flags, [Next]_vars PROVE Flags'
  OBVIOUS
<1> USE DEF Flags
<1>1. CASE FetchFails
  BY Zenon, <1>1 DEF FetchFails, closeVars
<1>2. CASE SetStop \/ Join \/ CheckOnClose
  BY Zenon, <1>2 DEF SetStop, Join, CheckOnClose, SeenError, consumerVars
<1>3. CASE Yield
  BY Zenon, <1>3 DEF Yield, closeVars
<1>4. ASSUME ~FetchFails, ~SetStop, ~Join, ~CheckOnClose, ~Yield
      PROVE  UNCHANGED <<stop, error, short, joined, raised>>
  BY <1>4 DEF Next, Prefetch, Consumer, Close, Terminated, vars, prefetchVars, consumerVars,
     closeVars, PrefetchLoop, Fetch, Put, PutDone, WaitForSpace, DropPending, PrefetchTimeout,
     ConsumerLoop, WaitForBatch, RaiseError, LeaveCollecting, Take, EndAfterCollecting,
     ConcatFails, Resume, ConsumerTimeout, NotifyStop, Clear
<1> QED
  BY Zenon, <1>1, <1>2, <1>3, <1>4

LEMMA TypeStep == TypeOK /\ Rounds /\ [Next]_vars => TypeOK'
<1> SUFFICES ASSUME TypeOK, Rounds, [Next]_vars PROVE TypeOK'
  OBVIOUS
<1>0. Flags'
  BY FlagsStep DEF TypeOK
<1> USE <1>0, ReplayAssumption DEF TypeOK, PrefetchStates, ConsumerStates, CloserStates, vars,
        prefetchVars, consumerVars, closeVars, NotifyPrefetch, NotifyConsumer
<1>1. CASE PrefetchLoop \/ FetchFails \/ PutDone \/ WaitForSpace \/ DropPending \/ PrefetchTimeout
  BY <1>1 DEF PrefetchLoop, FetchFails, WakeOnError, PutDone, WaitForSpace, DropPending,
              PrefetchTimeout
<1>2. CASE Fetch
  <2>1. PICK n \in 0 .. MaxCopies : pending' = [raw : {fetched + 1}, copy : 1 .. n]
    BY <1>2 DEF Fetch
  <2>2. fetched < MaxFetch /\ fetched' = fetched + 1 /\ made' = made \cup pending'
    BY <1>2 DEF Fetch
  <2>3. pending' \subseteq Batch
    BY <2>1, <2>2 DEF Batch
  <2> QED
    BY <1>2, <2>2, <2>3 DEF Fetch
<1>3. CASE Put
  BY <1>3 DEF Put
<1>4. CASE ConsumerLoop \/ WaitForBatch \/ RaiseError \/ LeaveCollecting \/ EndAfterCollecting
           \/ ConcatFails \/ Resume \/ ConsumerTimeout
  BY <1>4 DEF ConsumerLoop, WaitForBatch, RaiseError, LeaveCollecting, EndAfterCollecting,
              ConcatFails, Resume, ConsumerTimeout
<1>5. CASE Take
  <2>1. left > 0
    BY <1>5 DEF Take, Rounds
  <2> QED
    BY <1>5, <2>1 DEF Take, WakeOnTake, Without, AfterTake
<1>6. CASE Yield
  BY <1>6 DEF Yield
<1>7. CASE Close
  BY <1>7 DEF Close, SetStop, NotifyStop, Join, Clear, CheckOnClose
<1>8. CASE UNCHANGED vars
  BY <1>8
<1> QED
  BY <1>1, <1>2, <1>3, <1>4, <1>5, <1>6, <1>7, <1>8 DEF Next, Prefetch, Consumer, Terminated

\* A full cache takes no more.
LEMMA BoundedStep == Bounded /\ StopIsClose /\ [Next]_vars => Bounded'
<1> SUFFICES ASSUME Bounded, StopIsClose, [Next]_vars PROVE Bounded'
  OBVIOUS
<1> USE ReplayAssumption DEF Bounded
<1>1. CASE Put
  <2>1. PICK b \in pending : cache' = cache \cup {b}
    BY <1>1 DEF Put
  <2>2. Cardinality(cache) < CacheSize
    BY <1>1, FS_CardinalityType DEF Put, Full, GivesUp
  <2>3. IsFiniteSet(cache') /\ Cardinality(cache') <= Cardinality(cache) + 1
    BY <2>1, FS_AddElement, FS_CardinalityType
  <2> QED
    BY <2>2, <2>3, FS_CardinalityType
<1>2. CASE Take
  <2>1. CASE cache' = cache
    BY <2>1
  <2>2. CASE \E b \in cache : cache' = cache \ {b}
    <3>1. PICK b \in cache : cache' = cache \ {b}
      BY <2>2
    <3>2. IsFiniteSet(cache') /\ Cardinality(cache') = Cardinality(cache) - 1
      BY <3>1, FS_RemoveElement
    <3> QED
      BY <3>2, FS_CardinalityType
  <2> QED
    BY <1>2, <2>1, <2>2 DEF Take, Without
<1>3. CASE Clear
  BY <1>3, FS_EmptySet DEF Clear
<1>4. ASSUME ~Put, ~Take, ~Clear PROVE cache' = cache
  BY <1>4 DEF Next, Prefetch, Consumer, Close, Terminated, vars, PrefetchLoop, Fetch, FetchFails,
     PutDone, WaitForSpace, DropPending, PrefetchTimeout, ConsumerLoop, WaitForBatch, RaiseError,
     LeaveCollecting, Yield, EndAfterCollecting, ConcatFails, Resume, ConsumerTimeout, SetStop,
     NotifyStop, Join, CheckOnClose
<1> QED
  BY <1>1, <1>2, <1>3, <1>4

-----------------------------------------------------------------------------
(***************************************************************************)
(* Who owns a batch                                                        *)
(***************************************************************************)

dataVars == <<cache, fetched, made, pending, collected, handed>>

\* The steps that move batches are few.
LEMMA OtherSteps ==
    ASSUME [Next]_vars, ~Fetch, ~Put, ~DropPending, ~ConsumerLoop, ~Take, ~Yield, ~Clear
    PROVE  UNCHANGED dataVars
BY DEF Next, Prefetch, Consumer, Close, Terminated, vars, dataVars, prefetchVars, consumerVars,
   closeVars, PrefetchLoop, FetchFails, PutDone, WaitForSpace, PrefetchTimeout, WaitForBatch,
   RaiseError, LeaveCollecting, EndAfterCollecting, ConcatFails, Resume, ConsumerTimeout, SetStop,
   NotifyStop, Join, CheckOnClose

\* A batch that was just made is new.
LEMMA FetchFresh ==
    ASSUME TypeOK, Fetched, Fetch
    PROVE  /\ pending' \cap made = {}
           /\ \A b \in pending' : b.raw = fetched'
           /\ fetched' = fetched + 1 /\ made' = made \cup pending'
           /\ UNCHANGED <<cache, collected, handed>>
<1>1. PICK n \in 0 .. MaxCopies : pending' = [raw : {fetched + 1}, copy : 1 .. n]
  BY DEF Fetch
<1>2. fetched' = fetched + 1 /\ made' = made \cup pending'
  BY DEF Fetch
<1>3. \A b \in pending' : b.raw = fetched + 1
  BY <1>1
<1>4. \A b \in made : b.raw <= fetched /\ fetched \in Nat
  BY DEF Fetched, TypeOK
<1> QED
  BY <1>2, <1>3, <1>4 DEF Fetch, consumerVars

LEMMA OwnerStep ==
    ASSUME TypeOK, OneOwner, Fetched, [Next]_vars
    PROVE  OneOwner' /\ Fetched'
<1> USE DEF OneOwner, Fetched, prefetchVars, consumerVars
<1>1. CASE Fetch
  <2>1. \A b \in made : b.raw <= fetched'
    BY <1>1, FetchFresh, ReplayAssumption DEF TypeOK, Batch
  <2>2. \A b \in pending' : b.raw <= fetched'
    BY <1>1, FetchFresh, ReplayAssumption DEF TypeOK
  <2> QED
    BY <1>1, <2>1, <2>2, FetchFresh
<1>2. CASE Put
  BY <1>2 DEF Put
<1>3. CASE DropPending
  BY <1>3 DEF DropPending
<1>4. CASE ConsumerLoop
  BY <1>4 DEF ConsumerLoop
<1>5. CASE Take
  <2>1. UNCHANGED <<fetched, made, pending, handed>>
    BY <1>5 DEF Take
  <2>2. CASE UNCHANGED <<cache, collected>>
    BY <2>1, <2>2
  <2>3. CASE \E b \in cache : cache' = cache \ {b} /\ collected' = collected \cup {b}
    BY <2>1, <2>3
  <2> QED
    BY <1>5, <2>2, <2>3 DEF Take, Without
<1>6. CASE Yield
  BY <1>6 DEF Yield
<1>7. CASE Clear
  BY <1>7 DEF Clear
<1>8. CASE UNCHANGED dataVars
  BY <1>8 DEF dataVars
<1> QED
  BY <1>1, <1>2, <1>3, <1>4, <1>5, <1>6, <1>7, <1>8, OtherSteps

LEMMA HandsStep ==
    ASSUME HandsEmpty, [Next]_vars
    PROVE  HandsEmpty'
<1> USE DEF HandsEmpty, vars, prefetchVars, consumerVars, closeVars, NotifyPrefetch, NotifyConsumer
<1>1. CASE Prefetch \/ PrefetchTimeout
  BY <1>1 DEF Prefetch, PrefetchLoop, Fetch, FetchFails, WakeOnError, PutDone, WaitForSpace,
              DropPending, Put, PrefetchTimeout
<1>2. CASE Consumer \/ ConsumerTimeout \/ Resume
  BY <1>2 DEF Consumer, ConsumerLoop, WaitForBatch, RaiseError, LeaveCollecting, Take, AfterTake,
              WakeOnTake, Yield, EndAfterCollecting, ConcatFails, Resume, ConsumerTimeout
<1>3. CASE Close \/ UNCHANGED vars
  BY <1>3 DEF Close, SetStop, NotifyStop, Join, Clear, CheckOnClose
<1> QED
  BY <1>1, <1>2, <1>3 DEF Next, Terminated

\* The event stays set and an error ends the generator for good.
LEMMA OneWay ==
    ASSUME [Next]_vars
    PROVE  (stop => stop') /\ (consumer = "raised" => consumer' = "raised")
<1> USE DEF vars, prefetchVars, consumerVars, closeVars, NotifyPrefetch, NotifyConsumer
<1>1. CASE Prefetch \/ PrefetchTimeout
  BY <1>1 DEF Prefetch, PrefetchLoop, Fetch, FetchFails, WakeOnError, PutDone, WaitForSpace,
              DropPending, Put, PrefetchTimeout
<1>2. CASE Consumer \/ ConsumerTimeout \/ Resume
  BY <1>2 DEF Consumer, ConsumerLoop, WaitForBatch, RaiseError, LeaveCollecting, Take, AfterTake,
              WakeOnTake, Yield, EndAfterCollecting, ConcatFails, Resume, ConsumerTimeout
<1>3. CASE Close \/ UNCHANGED vars
  BY <1>3 DEF Close, SetStop, NotifyStop, Join, Clear, CheckOnClose
<1> QED
  BY <1>1, <1>2, <1>3 DEF Next, Terminated

LEMMA LosslessStep ==
    ASSUME TypeOK, OneOwner, Fetched, HandsEmpty, Lossless, StopIsClose, [Next]_vars
    PROVE  Lossless'
<1> SUFFICES ASSUME ~stop', consumer' # "raised"
             PROVE  made' = pending' \cup cache' \cup collected' \cup handed'
  BY OwnerStep DEF Lossless
<1>0. ~stop /\ made = pending \cup cache \cup collected \cup handed
  BY OneWay DEF Lossless
<1> USE <1>0 DEF prefetchVars, consumerVars
<1>1. CASE Fetch
  BY <1>1, FetchFresh DEF HandsEmpty, Fetch
<1>2. CASE Put
  BY <1>2 DEF Put
<1>3. ~DropPending /\ ~Clear
  BY DEF DropPending, GivesUp, Clear, StopIsClose
<1>4. CASE ConsumerLoop
  BY <1>4 DEF ConsumerLoop, HandsEmpty
<1>5. CASE Take
  <2>1. UNCHANGED <<fetched, made, pending, handed>>
    BY <1>5 DEF Take
  <2>2. CASE UNCHANGED <<cache, collected>>
    BY <2>1, <2>2
  <2>3. CASE \E b \in cache : cache' = cache \ {b} /\ collected' = collected \cup {b}
    BY <2>1, <2>3
  <2> QED
    BY <1>5, <2>2, <2>3 DEF Take, Without
<1>6. CASE Yield
  BY <1>6 DEF Yield
<1>7. CASE UNCHANGED dataVars
  BY <1>7 DEF dataVars
<1> QED
  BY <1>1, <1>2, <1>3, <1>4, <1>5, <1>6, <1>7, OtherSteps
-----------------------------------------------------------------------------
(***************************************************************************)
(* Waiting, closing, and the loop over concat_size                         *)
(***************************************************************************)

LEMMA StopStep ==
    ASSUME StopIsClose, [Next]_vars
    PROVE  StopIsClose'
<1> USE DEF StopIsClose
<1>1. CASE Close
  BY <1>1 DEF Close, SetStop, NotifyStop, Join, Clear, CheckOnClose
<1>2. CASE ~Close
  <2>1. UNCHANGED closeVars
    BY <1>2 DEF Next, Prefetch, Consumer, Terminated, vars, PrefetchLoop, Fetch, FetchFails,
       PutDone, WaitForSpace, DropPending, Put, PrefetchTimeout, ConsumerLoop, WaitForBatch,
       RaiseError, LeaveCollecting, Take, Yield, EndAfterCollecting, ConcatFails, Resume,
       ConsumerTimeout
  <2> QED
    BY <2>1 DEF closeVars
<1> QED
  BY <1>1, <1>2

\* The prefetch thread: only a take makes room, and it wakes the thread.
LEMMA PrefetchAwake ==
    ASSUME StopIsClose, NoLostWakeup, [Next]_vars, prefetch' = "wait"
    PROVE  (Full' /\ ~stop') \/ closer' = "stopping"
<1> USE DEF NoLostWakeup, StopIsClose, prefetchVars, consumerVars, closeVars
<1>1. CASE WaitForSpace
  BY <1>1 DEF WaitForSpace, Full
<1>2. CASE Put \/ PrefetchLoop \/ Fetch \/ FetchFails \/ PutDone \/ DropPending \/ PrefetchTimeout
  BY <1>2 DEF Put, PrefetchLoop, Fetch, FetchFails, PutDone, DropPending, PrefetchTimeout
<1>3. CASE Take
  BY <1>3 DEF Take, WakeOnTake, NotifyPrefetch, Full
<1>4. CASE SetStop
  BY <1>4 DEF SetStop
<1>5. CASE NotifyStop
  BY <1>5 DEF NotifyStop, NotifyPrefetch
<1>6. CASE Join \/ Clear \/ CheckOnClose
  BY <1>6 DEF Join, Clear, CheckOnClose
<1>7. CASE \/ ConsumerLoop \/ WaitForBatch \/ RaiseError \/ LeaveCollecting \/ Yield
           \/ EndAfterCollecting \/ ConcatFails \/ Resume \/ ConsumerTimeout \/ UNCHANGED vars
  <2>1. UNCHANGED <<cache, prefetch, stop, closer>>
    BY <1>7 DEF ConsumerLoop, WaitForBatch, RaiseError, LeaveCollecting, Yield,
       EndAfterCollecting, ConcatFails, Resume, ConsumerTimeout, vars
  <2> QED
    BY <2>1 DEF Full
<1> QED
  BY <1>1, <1>2, <1>3, <1>4, <1>5, <1>6, <1>7 DEF Next, Prefetch, Consumer, Close, Terminated

\* The consumer: what it waits for comes with a notification.
LEMMA ConsumerAwake ==
    ASSUME StopIsClose, NoLostWakeup, [Next]_vars, consumer' = "wait"
    PROVE  NothingToDo' \/ closer' = "stopping"
<1> USE DEF NoLostWakeup, StopIsClose, NothingToDo, prefetchVars, consumerVars, closeVars
<1>1. CASE WaitForBatch
  BY <1>1 DEF WaitForBatch
<1>2. CASE Put \/ FetchFails
  BY <1>2 DEF Put, FetchFails, WakeOnError, NotifyConsumer
<1>3. CASE Take
  BY <1>3 DEF Take, AfterTake
<1>4. CASE SetStop
  BY <1>4 DEF SetStop
<1>5. CASE NotifyStop
  BY <1>5 DEF NotifyStop, NotifyConsumer
<1>6. CASE Join \/ Clear \/ CheckOnClose
  BY <1>6 DEF Join, Clear, CheckOnClose
<1>7. CASE \/ PrefetchLoop \/ Fetch \/ PutDone \/ WaitForSpace \/ DropPending \/ PrefetchTimeout
           \/ UNCHANGED vars
  BY <1>7 DEF PrefetchLoop, Fetch, PutDone, WaitForSpace, DropPending, PrefetchTimeout, vars
<1>8. CASE \/ ConsumerLoop \/ RaiseError \/ LeaveCollecting \/ Yield \/ EndAfterCollecting
           \/ ConcatFails \/ Resume \/ ConsumerTimeout
  BY <1>8 DEF ConsumerLoop, RaiseError, LeaveCollecting, Yield, EndAfterCollecting, ConcatFails,
              Resume, ConsumerTimeout
<1> QED
  BY <1>1, <1>2, <1>3, <1>4, <1>5, <1>6, <1>7, <1>8 DEF Next, Prefetch, Consumer, Close, Terminated

\* After the cache is cleared the event has long been set.
LEMMA ClosedStep ==
    ASSUME StopIsClose, ClosedStaysEmpty, [Next]_vars
    PROVE  ClosedStaysEmpty'
<1> USE DEF ClosedStaysEmpty, StopIsClose, prefetchVars, consumerVars, closeVars
<1>1. CASE Put
  BY <1>1 DEF Put, GivesUp
<1>2. CASE Take
  BY <1>2 DEF Take
<1>3. CASE Close
  BY <1>3 DEF Close, SetStop, NotifyStop, Join, Clear, CheckOnClose
<1>4. CASE ~Put /\ ~Take /\ ~Close
  <2>1. UNCHANGED <<cache, closer>>
    BY <1>4 DEF Next, Prefetch, Consumer, Terminated, vars, PrefetchLoop, Fetch, FetchFails,
       PutDone, WaitForSpace, DropPending, PrefetchTimeout, ConsumerLoop, WaitForBatch,
       RaiseError, LeaveCollecting, Yield, EndAfterCollecting, ConcatFails, Resume,
       ConsumerTimeout
  <2> QED
    BY <2>1
<1> QED
  BY <1>1, <1>2, <1>3, <1>4

LEMMA RoundsStep ==
    ASSUME TypeOK, OneOwner, StopIsClose, Rounds, [Next]_vars
    PROVE  Rounds'
<1> USE ReplayAssumption DEF Rounds, vars, prefetchVars, consumerVars, closeVars
<1>0. stop => stop'
  BY OneWay
<1>1. CASE ConsumerLoop
  BY <1>1, FS_EmptySet DEF ConsumerLoop
<1>2. CASE Take
  <2>1. PICK b \in cache : collected' = collected \cup {b}
    BY <1>2 DEF Take, NothingToDo
  <2>2. IsFiniteSet(collected') /\ Cardinality(collected') = Cardinality(collected) + 1
    BY <2>1, FS_AddElement DEF OneOwner
  <2>3. left' = left - 1 /\ consumer' = AfterTake(left - 1)
    BY <1>2 DEF Take
  <2>4. left \in Nat /\ Cardinality(collected) \in Nat
    BY FS_CardinalityType DEF TypeOK
  <2>5. left > 0 /\ Cardinality(collected) + left = ConcatSize
    BY <1>2 DEF Take
  <2> QED
    BY <2>2, <2>3, <2>4, <2>5 DEF AfterTake
<1>3. CASE Yield
  BY <1>3, FS_EmptySet DEF Yield
<1>4. CASE LeaveCollecting
  BY <1>4 DEF LeaveCollecting
<1>5. CASE \/ WaitForBatch \/ RaiseError \/ EndAfterCollecting \/ ConcatFails \/ Resume
           \/ ConsumerTimeout
  BY <1>5 DEF WaitForBatch, RaiseError, EndAfterCollecting, ConcatFails, Resume, ConsumerTimeout
<1>6. CASE Prefetch \/ PrefetchTimeout \/ Close \/ UNCHANGED vars
  <2>1. UNCHANGED <<collected, left>>
    BY <1>6 DEF Prefetch, PrefetchTimeout, Close, PrefetchLoop, Fetch, FetchFails, PutDone,
       WaitForSpace, DropPending, Put, SetStop, NotifyStop, Join, Clear, CheckOnClose
  <2>2. consumer' = consumer \/ (consumer = "wait" /\ consumer' = "take")
    BY <1>6 DEF Prefetch, PrefetchTimeout, Close, PrefetchLoop, Fetch, FetchFails, WakeOnError,
       PutDone, WaitForSpace, DropPending, Put, NotifyConsumer, SetStop, NotifyStop, Join, Clear,
       CheckOnClose
  <2> QED
    BY <1>0, <2>1, <2>2
<1> QED
  BY <1>1, <1>2, <1>3, <1>4, <1>5, <1>6 DEF Next, Consumer, Terminated

LEMMA NeverShortStep ==
    ASSUME Flags, Rounds, NeverShort, [Next]_vars
    PROVE  NeverShort'
<1> USE ReplayAssumption DEF NeverShort
<1>1. CASE Yield
  <2>1. Cardinality(collected) = ConcatSize
    BY <1>1 DEF Yield, Rounds
  <2>2. ~(Cardinality(collected) < ConcatSize)
    BY <2>1
  <2> QED
    BY Zenon, <1>1, <2>2 DEF Yield
<1>2. CASE ~Yield
  BY <1>2 DEF Next, Prefetch, Consumer, Close, Terminated, vars, consumerVars, PrefetchLoop, Fetch,
     FetchFails, PutDone, WaitForSpace, DropPending, Put, PrefetchTimeout, ConsumerLoop,
     WaitForBatch, RaiseError, LeaveCollecting, Take, EndAfterCollecting, ConcatFails, Resume,
     ConsumerTimeout, SetStop, NotifyStop, Join, Clear, CheckOnClose
<1> QED
  BY <1>1, <1>2

LEMMA JoinedStep ==
    ASSUME Flags, Joined, [Next]_vars
    PROVE  Joined'
<1> USE DEF Joined, CloseReports, Flags, vars, prefetchVars, consumerVars, closeVars
<1>1. CASE Join
  BY Zenon, <1>1 DEF Join
<1>2. CASE CheckOnClose
  BY Zenon, <1>2 DEF CheckOnClose, SeenError
<1>3. CASE SetStop \/ NotifyStop \/ Clear
  BY <1>3 DEF SetStop, NotifyStop, NotifyPrefetch, Clear
<1>4. CASE Prefetch \/ PrefetchTimeout
  BY <1>4 DEF Prefetch, PrefetchTimeout, PrefetchLoop, Fetch, FetchFails, PutDone, WaitForSpace,
              DropPending, Put
<1>5. CASE Consumer \/ ConsumerTimeout \/ Resume \/ UNCHANGED vars
  BY <1>5 DEF Consumer, ConsumerLoop, WaitForBatch, RaiseError, LeaveCollecting, Take, WakeOnTake,
              NotifyPrefetch, Yield, EndAfterCollecting, ConcatFails, Resume, ConsumerTimeout
<1> QED
  BY <1>1, <1>2, <1>3, <1>4, <1>5 DEF Next, Close, Terminated

LEMMA InvStep == ReplayInv /\ [Next]_vars => ReplayInv'
<1> SUFFICES ASSUME ReplayInv, [Next]_vars PROVE ReplayInv'
  OBVIOUS
<1> USE DEF ReplayInv
<1>1. TypeOK' /\ Bounded' /\ OneOwner' /\ Fetched' /\ HandsEmpty' /\ Lossless'
  BY TypeStep, BoundedStep, OwnerStep, HandsStep, LosslessStep
<1>2. StopIsClose' /\ NoLostWakeup' /\ ClosedStaysEmpty'
  BY StopStep, PrefetchAwake, ConsumerAwake, ClosedStep DEF NoLostWakeup
<1>3. Rounds' /\ NeverShort' /\ Joined'
  BY RoundsStep, NeverShortStep, JoinedStep DEF TypeOK
<1> QED
  BY <1>1, <1>2, <1>3
-----------------------------------------------------------------------------
(***************************************************************************)
(* The theorems                                                            *)
(***************************************************************************)

\* ReplayInv is an invariant of the loader, its prefetch thread and close().
THEOREM ReplayInvariance == Spec => []ReplayInv
BY InitInv, InvStep, PTL DEF Spec

\* The cache stays within cache_size, and every batch made is on its way to the
\* trainer or delivered until an error is raised or close() is called; none is
\* handed out twice.
THEOREM ReplayLossless == Spec => [](Cardinality(cache) <= CacheSize /\ Lossless)
<1>1. ReplayInv => Cardinality(cache) <= CacheSize /\ Lossless
  BY DEF ReplayInv, Bounded
<1> QED
  BY <1>1, ReplayInvariance, PTL

\* No thread waits for something that has happened: the one-second timeouts of
\* the waits are never needed.
THEOREM ReplayWakes == Spec => []NoLostWakeup
<1>1. ReplayInv => NoLostWakeup
  BY DEF ReplayInv
<1> QED
  BY <1>1, ReplayInvariance, PTL

\* In every state the variables have their types.
THEOREM ReplayTypeCorrect == Spec => []TypeOK
<1>1. ReplayInv => TypeOK
  BY DEF ReplayInv
<1> QED
  BY <1>1, ReplayInvariance, PTL

\* After close() has emptied the cache nobody puts anything there.
THEOREM ReplayCloses == Spec => []ClosedStaysEmpty
<1>1. ReplayInv => ClosedStaysEmpty
  BY DEF ReplayInv
<1> QED
  BY <1>1, ReplayInvariance, PTL

\* When close() returns without raising, no error of a joined thread is stored.
THEOREM ReplayCloseReports == Spec => []CloseReports
<1>1. ReplayInv => CloseReports
  BY DEF ReplayInv, Joined
<1> QED
  BY <1>1, ReplayInvariance, PTL

\* What is yielded is always a full concatenation.
THEOREM ReplayNeverShort == Spec => []NeverShort
<1>1. ReplayInv => NeverShort
  BY DEF ReplayInv
<1> QED
  BY <1>1, ReplayInvariance, PTL
=============================================================================
