---------------------------- MODULE CachedReplay ----------------------------
(***************************************************************************)
(* CachedReplayDataLoader (data/vfm/cached_replay_dataloader.py): a thread *)
(* that prefetches and augments raw batches into a bounded cache, the      *)
(* iterator that takes them out again, and close().                        *)
(*                                                                         *)
(* The three meet at one lock and its condition variable.  Whatever is     *)
(* done while the lock is held, up to a wait, is one action; _stop_event   *)
(* is set without the lock, so setting it and notifying are two.  Every    *)
(* wait also has a timeout of one second.                                  *)
(*                                                                         *)
(* The generator shuffles what it adds and takes from a random place, so   *)
(* the cache is a set and both choices are free.                           *)
(***************************************************************************)
EXTENDS Integers, FiniteSets

CONSTANTS
    CacheSize,    \* cache_size
    ConcatSize,   \* concat_size
    MaxCopies,    \* bound: the most batches cache_augmentation_fn makes of one
    MaxFetch      \* bound: raw batches before the underlying loader raises

ASSUME ReplayAssumption ==
    /\ CacheSize \in Nat \ {0}
    /\ ConcatSize \in Nat \ {0}
    /\ MaxCopies \in Nat
    /\ MaxFetch \in Nat

\* An augmented batch: the raw batch it was made of, and which copy it is.
Batch == [raw : 1 .. MaxFetch, copy : 1 .. MaxCopies]

VARIABLES
    stop,        \* _stop_event
    error,       \* _prefetch_exception is set
    cache,       \* _cache
    fetched,     \* raw batches the underlying loader has given
    made,        \* history: every augmented batch made so far
    pending,     \* augmented_batches not yet in the cache
    prefetch,    \* control state of the prefetch thread
    consumer,    \* control state of the generator of __iter__
    collected,   \* collected_batches
    left,        \* what remains of the loop over concat_size
    handed,      \* history: every augmented batch yielded
    short,       \* history: a batch of fewer than concat_size was yielded
    closer,      \* control state of close()
    joined,      \* close() saw the prefetch thread end
    raised       \* close() raised the stored error

prefetchVars == <<fetched, made, pending, prefetch>>
consumerVars == <<consumer, collected, left, handed, short>>
closeVars    == <<stop, closer, joined, raised>>
vars         == <<error, cache, prefetchVars, consumerVars, closeVars>>

PrefetchStates == {"loop", "fetch", "put", "wait", "done"}
ConsumerStates == {"loop", "take", "wait", "collected", "yielded", "ended", "raised"}
CloserStates   == {"open", "stopping", "joining", "clearing", "checking", "closed"}

Flags ==
    /\ stop \in BOOLEAN /\ error \in BOOLEAN
    /\ short \in BOOLEAN /\ joined \in BOOLEAN /\ raised \in BOOLEAN

TypeOK ==
    /\ Flags
    /\ cache \subseteq Batch /\ made \subseteq Batch /\ pending \subseteq Batch
    /\ collected \subseteq Batch /\ handed \subseteq Batch
    /\ fetched \in 0 .. MaxFetch
    /\ left \in 0 .. ConcatSize
    /\ prefetch \in PrefetchStates
    /\ consumer \in ConsumerStates
    /\ closer \in CloserStates

Init ==
    /\ stop = FALSE /\ error = FALSE
    /\ cache = {} /\ made = {} /\ pending = {} /\ collected = {} /\ handed = {}
    /\ fetched = 0
    /\ left = 0
    /\ prefetch = "loop"
    /\ consumer = "loop"
    /\ closer = "open"
    /\ short = FALSE /\ joined = FALSE /\ raised = FALSE

\* notify_all, as far as each of the two possible waiters goes: it will look at
\* its condition again.
NotifyPrefetch == prefetch' = IF prefetch = "wait" THEN "put" ELSE prefetch
NotifyConsumer == consumer' = IF consumer = "wait" THEN "take" ELSE consumer
-----------------------------------------------------------------------------
(***************************************************************************)
(* _prefetch_loop                                                          *)
(***************************************************************************)

PrefetchLoop ==
    /\ prefetch = "loop"
    /\ prefetch' = IF stop THEN "done" ELSE "fetch"
    /\ UNCHANGED <<error, cache, fetched, made, pending, consumerVars, closeVars>>

\* The next raw batch arrives and is augmented, to no batch at all perhaps.
Fetch ==
    /\ prefetch = "fetch"
    /\ fetched < MaxFetch
    /\ fetched' = fetched + 1
    /\ \E n \in 0 .. MaxCopies : pending' = [raw : {fetched + 1}, copy : 1 .. n]
    /\ made' = made \cup pending'
    /\ prefetch' = "put"
    /\ UNCHANGED <<error, cache, consumerVars, closeVars>>

\* Mutated form: nobody is told of the error.
WakeOnErrorNobody == UNCHANGED consumer
WakeOnError == NotifyConsumer

\* The loader or the augmentation raises, StopIteration included: _set_exception.
FetchFails ==
    /\ prefetch = "fetch"
    /\ error' = TRUE
    /\ WakeOnError
    /\ prefetch' = "done"
    /\ UNCHANGED <<cache, fetched, made, pending, collected, left, handed, short, closeVars>>

Full == Cardinality(cache) >= CacheSize

PutDone ==
    /\ prefetch = "put"
    /\ pending = {}
    /\ prefetch' = "loop"
    /\ UNCHANGED <<error, cache, fetched, made, pending, consumerVars, closeVars>>

WaitForSpace ==
    /\ prefetch = "put"
    /\ pending # {}
    /\ Full /\ ~stop
    /\ prefetch' = "wait"
    /\ UNCHANGED <<error, cache, fetched, made, pending, consumerVars, closeVars>>

\* Mutated form: the event is looked at while waiting only.
GivesUpWaiting == FALSE
\* What makes the thread drop the batches it still holds.
GivesUp == stop

DropPending ==
    /\ prefetch = "put"
    /\ pending # {}
    /\ GivesUp
    /\ pending' = {}
    /\ prefetch' = "loop"
    /\ UNCHANGED <<error, cache, fetched, made, consumerVars, closeVars>>

Put ==
    /\ prefetch = "put"
    /\ ~Full \/ stop
    /\ ~GivesUp
    /\ \E b \in pending :
          /\ cache' = cache \cup {b}
          /\ pending' = pending \ {b}
    /\ NotifyConsumer
    /\ UNCHANGED <<error, fetched, made, prefetch, collected, left, handed, short, closeVars>>

PrefetchTimeout ==
    /\ prefetch = "wait"
    /\ prefetch' = "put"
    /\ UNCHANGED <<error, cache, fetched, made, pending, consumerVars, closeVars>>
-----------------------------------------------------------------------------
(***************************************************************************)
(* __iter__                                                                *)
(***************************************************************************)

ConsumerLoop ==
    /\ consumer = "loop"
    /\ consumer' = IF stop THEN "ended" ELSE "take"
    /\ collected' = {}
    /\ left' = ConcatSize
    /\ UNCHANGED <<error, cache, handed, short, prefetchVars, closeVars>>

\* Mutated form: an empty cache is not waited for.
NothingToDoNever == FALSE
\* The condition of the wait.
NothingToDo == cache = {} /\ ~stop /\ ~error

WaitForBatch ==
    /\ consumer = "take"
    /\ NothingToDo
    /\ consumer' = "wait"
    /\ UNCHANGED <<error, cache, collected, left, handed, short, prefetchVars, closeVars>>

\* _check_for_errors raises through the generator, whatever is in the cache or
\* already collected.
RaiseError ==
    /\ consumer = "take"
    /\ ~NothingToDo
    /\ error
    /\ consumer' = "raised"
    /\ UNCHANGED <<error, cache, collected, left, handed, short, prefetchVars, closeVars>>

LeaveCollecting ==
    /\ consumer = "take"
    /\ ~NothingToDo
    /\ ~error /\ stop
    /\ consumer' = IF ConcatSize = 1 THEN "ended" ELSE "collected"
    /\ UNCHANGED <<error, cache, collected, left, handed, short, prefetchVars, closeVars>>

\* One round of the loop is over.  With a concat_size of one the batch is yielded
\* at once, without a last look at the event.
AfterTake(n) == IF n > 0 THEN "take" ELSE "collected"

\* Mutated form: the batch stays in the cache.
WithoutNothing(b) == cache
Without(b) == cache \ {b}

\* Mutated form: the prefetch thread is not told of the free place.
WakeOnTakeNobody == UNCHANGED prefetch
WakeOnTake == NotifyPrefetch

\* A round without a batch ("if cache is still empty after timeout") is lost.
Take ==
    /\ consumer = "take"
    /\ ~NothingToDo
    /\ ~error /\ ~stop
    /\ \/ /\ cache = {}
          /\ UNCHANGED <<cache, collected, prefetch>>
       \/ /\ \E b \in cache :
                /\ cache' = Without(b)
                /\ collected' = collected \cup {b}
          /\ WakeOnTake
    /\ left' = left - 1
    /\ consumer' = AfterTake(left - 1)
    /\ UNCHANGED <<error, fetched, made, pending, handed, short, closeVars>>

\* What was collected is concatenated and yielded, if it is anything at all.
Yield ==
    /\ consumer = "collected"
    /\ ~stop \/ ConcatSize = 1
    /\ IF collected = {}
       THEN consumer' = "loop" /\ UNCHANGED <<handed, short>>
       ELSE /\ handed' = handed \cup collected
            /\ short' = (short \/ Cardinality(collected) < ConcatSize)
            /\ consumer' = "yielded"
    /\ collected' = {}
    /\ UNCHANGED <<error, cache, left, prefetchVars, closeVars>>

EndAfterCollecting ==
    /\ consumer = "collected"
    /\ stop /\ ConcatSize > 1
    /\ consumer' = "ended"
    /\ UNCHANGED <<error, cache, collected, left, handed, short, prefetchVars, closeVars>>

\* Batches that do not fit together: concatenate_batches raises.
ConcatFails ==
    /\ consumer = "collected"
    /\ ~stop /\ ConcatSize > 1
    /\ collected # {}
    /\ consumer' = "raised"
    /\ UNCHANGED <<error, cache, collected, left, handed, short, prefetchVars, closeVars>>

\* The trainer asks for the next batch.
Resume ==
    /\ consumer = "yielded"
    /\ consumer' = "loop"
    /\ UNCHANGED <<error, cache, collected, left, handed, short, prefetchVars, closeVars>>

ConsumerTimeout ==
    /\ consumer = "wait"
    /\ consumer' = "take"
    /\ UNCHANGED <<error, cache, collected, left, handed, short, prefetchVars, closeVars>>
-----------------------------------------------------------------------------
(***************************************************************************)
(* close                                                                   *)
(***************************************************************************)

SetStop ==
    /\ closer = "open"
    /\ stop' = TRUE
    /\ closer' = "stopping"
    /\ UNCHANGED <<error, cache, prefetchVars, consumerVars, joined, raised>>

\* Mutated form: the event is set and nobody is woken.
NotifyStopSilently ==
    /\ closer = "stopping"
    /\ closer' = "joining"
    /\ UNCHANGED <<error, cache, prefetchVars, consumerVars, stop, joined, raised>>
NotifyStop ==
    /\ closer = "stopping"
    /\ NotifyPrefetch
    /\ NotifyConsumer
    /\ closer' = "joining"
    /\ UNCHANGED <<error, cache, fetched, made, pending, collected, left, handed, short,
                   stop, joined, raised>>

\* The thread has ended, or five seconds have passed.
Join ==
    /\ closer = "joining"
    /\ joined' = (prefetch = "done")
    /\ closer' = "clearing"
    /\ UNCHANGED <<error, cache, prefetchVars, consumerVars, stop, raised>>

Clear ==
    /\ closer = "clearing"
    /\ cache' = {}
    /\ closer' = "checking"
    /\ UNCHANGED <<error, prefetchVars, consumerVars, stop, joined, raised>>

\* Mutated form: what the join made visible is not looked at.
SeenErrorNever == FALSE
SeenError == error

CheckOnClose ==
    /\ closer = "checking"
    /\ raised' = SeenError
    /\ closer' = "closed"
    /\ UNCHANGED <<error, cache, prefetchVars, consumerVars, stop, joined>>
-----------------------------------------------------------------------------
Prefetch == \/ PrefetchLoop \/ Fetch \/ FetchFails
            \/ PutDone \/ WaitForSpace \/ DropPending \/ Put

Consumer == \/ ConsumerLoop \/ WaitForBatch \/ RaiseError \/ LeaveCollecting
            \/ Take \/ Yield \/ EndAfterCollecting \/ ConcatFails

Close == SetStop \/ NotifyStop \/ Join \/ Clear \/ CheckOnClose

Terminated ==
    /\ prefetch = "done" /\ consumer \in {"ended", "raised"} /\ closer = "closed"
    /\ UNCHANGED vars

Next == \/ Prefetch \/ PrefetchTimeout
        \/ Consumer \/ ConsumerTimeout \/ Resume
        \/ Close
        \/ Terminated

\* Both threads are scheduled and a close() that has begun goes on.  Neither the
\* timeouts nor the next call of the trainer are taken for granted.
Fairness ==
    /\ WF_vars(Prefetch)
    /\ WF_vars(Consumer)
    /\ WF_vars(Close /\ closer # "open")

Spec     == Init /\ [][Next]_vars
FairSpec == Spec /\ Fairness
-----------------------------------------------------------------------------
(***************************************************************************)
(* Properties                                                              *)
(***************************************************************************)

\* A batch belongs to one of the two threads, to the cache or to the trainer.
OneOwner ==
    /\ pending \cap (cache \cup collected \cup handed) = {}
    /\ cache \cap (collected \cup handed) = {}
    /\ collected \cap handed = {}

\* No batch is handed out twice, and until an error is raised or close() is
\* called every batch made is on its way or delivered.
Lossless ==
    /\ OneOwner
    /\ ~stop /\ consumer # "raised" =>
          made = pending \cup cache \cup collected \cup handed

\* Nobody sleeps through what it waits for.  A thread that waits still has to,
\* unless close() is about to notify it, so the one-second timeouts of the waits
\* never matter.
NoLostWakeup ==
    /\ prefetch = "wait" => (Full /\ ~stop) \/ closer = "stopping"
    /\ consumer = "wait" => NothingToDo \/ closer = "stopping"

\* Once close() has cleared the cache it stays empty, also when the join timed
\* out and the prefetch thread is still alive.
ClosedStaysEmpty == closer \in {"checking", "closed"} => cache = {}

\* What is yielded always consists of concat_size batches: the branch that would
\* concatenate fewer is never taken.
NeverShort == ~short

\* close() hides no error of a prefetch thread it saw end.
CloseReports == closer = "closed" /\ joined /\ error => raised

\* Whoever asks for a batch gets one, or the error, or the end, and without any
\* help of the timeouts.
Served == consumer \in {"take", "wait"} ~> consumer \in {"yielded", "raised", "ended"}

\* After close() both threads leave, again without the timeouts.
ShutsDown == stop ~> /\ prefetch = "done" /\ closer = "closed"
                     /\ consumer \in {"yielded", "raised", "ended"}
=============================================================================
