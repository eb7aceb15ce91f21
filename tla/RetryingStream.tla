--------------------------- MODULE RetryingStream ---------------------------
(***************************************************************************)
(* Reading one object of a store through a connection that may fail        *)
(* (webdataset/utils/stream.py), from gopen_s3 (iterators.py) that opens   *)
(* it to the last read() of the tar reader.                                *)
(*                                                                         *)
(* An error of the connection is retried: the stream is closed and opened  *)
(* again at the last byte that was counted.  A watchdog replaces a slow    *)
(* connection by a fresh one at the byte after the chunk just read.        *)
(*                                                                         *)
(* Bytes are abstracted to their places in the object.  The store answers, *)
(* or raises, by choice; the object does not change while it is read.      *)
(***************************************************************************)
EXTENDS Integers

CONSTANTS
    Size,          \* content_size
    Retries,       \* retries
    OpenAttempts   \* _NUM_OBJECT_STORE_READ_ATTEMPTS

ASSUME StreamAssumption ==
    /\ Size \in Nat
    /\ Retries \in Nat \ {0}
    /\ OpenAttempts \in Nat \ {0}

VARIABLES
    pc,          \* control state of the caller's thread
    opens,       \* attempt, of gopen_s3
    attempt,     \* attempt of _retry_operation, cur_retry_idx of read
    body,        \* stream: whether it is open, and the byte it gives next
    amountRead,  \* _amount_read
    chunk,       \* the chunk read and not returned yet
    delivered,   \* history: bytes the caller was given
    answer       \* what the last read() returned or raised

streamVars == <<pc, opens, attempt, body, amountRead, chunk, delivered, answer>>

Reader == INSTANCE ByteReader

States == {"length", "body", "idle", "read", "check", "handle", "failed"}

\* RETRYABLE_EXCEPTIONS, EndpointConnectionError, ClientError, anything else.
Errors == {"retryable", "endpoint", "client", "other"}

\* A chunk: the bytes c[1] .. c[2] - 1 of the object.
Chunks     == {c \in (0 .. Size) \X (0 .. Size) : c[1] <= c[2]}
Opened(at) == [open |-> TRUE, at |-> at]

StreamTypeOK ==
    /\ pc \in States
    /\ opens \in 0 .. OpenAttempts
    /\ attempt \in 0 .. Retries - 1
    /\ body \in [open : BOOLEAN, at : 0 .. Size]
    /\ amountRead \in 0 .. Size
    /\ chunk \in Chunks
    /\ delivered \in 0 .. Size
    /\ answer \in [kind : {"none", "bytes", "end", "error"}, from : 0 .. Size, to : 0 .. Size]

StreamInit ==
    /\ pc = "length"
    /\ opens = 0
    /\ attempt = 0
    /\ body = [open |-> FALSE, at |-> 0]
    /\ amountRead = 0
    /\ chunk = <<0, 0>>
    /\ delivered = 0
    /\ answer = Reader!Unanswered

Raise ==
    /\ pc' = "failed"
    /\ answer' = Reader!Error

\* Mutated form: an attempt does not count.
NextAttemptUncounted == attempt
NextAttempt == attempt + 1

LastAttempt == attempt = Retries - 1
-----------------------------------------------------------------------------
(***************************************************************************)
(* gopen_s3 and the constructor                                            *)
(***************************************************************************)

\* get_length succeeds.
GetLength ==
    /\ pc = "length"
    /\ pc' = "body"
    /\ attempt' = 0
    /\ UNCHANGED <<opens, body, amountRead, chunk, delivered, answer>>

\* The first get_stream succeeds.
GetFirstStream ==
    /\ pc = "body"
    /\ body' = Opened(0)
    /\ pc' = "idle"
    /\ UNCHANGED <<opens, attempt, amountRead, chunk, delivered, answer>>

\* _retry_operation retries what is transient ...
OpenRetried(e) ==
    /\ pc \in {"length", "body"}
    /\ e \in {"retryable", "endpoint"}
    /\ ~LastAttempt
    /\ attempt' = NextAttempt
    /\ UNCHANGED <<pc, opens, body, amountRead, chunk, delivered, answer>>

\* ... and gopen_s3 constructs a new stream after a ClientError, some times.
OpenedAgain(e) ==
    /\ pc \in {"length", "body"}
    /\ e = "client"
    /\ opens' = opens + 1
    /\ IF opens' < OpenAttempts
       THEN pc' = "length" /\ attempt' = 0 /\ UNCHANGED answer
       ELSE Raise /\ UNCHANGED attempt
    /\ UNCHANGED <<body, amountRead, chunk, delivered>>

OpenRaises(e) ==
    /\ pc \in {"length", "body"}
    /\ e = "other" \/ (e \in {"retryable", "endpoint"} /\ LastAttempt)
    /\ Raise
    /\ UNCHANGED <<opens, attempt, body, amountRead, chunk, delivered>>
-----------------------------------------------------------------------------
(***************************************************************************)
(* read                                                                    *)
(***************************************************************************)

\* The tar reader asks for the next bytes; it always names an amount.
Call ==
    /\ pc = "idle"
    /\ pc' = "read"
    /\ attempt' = 0
    /\ UNCHANGED <<opens, body, amountRead, chunk, delivered, answer>>

\* An empty chunk although bytes are missing.
Premature(from, to) == from = to /\ amountRead # Size

\* The connection gives some bytes, or none: at the end of the object, when it
\* was cut, or when the stream is closed.
ReadChunk ==
    /\ pc = "read"
    /\ \E to \in body.at .. (IF body.open THEN Size ELSE body.at) :
          /\ chunk' = <<body.at, to>>
          /\ body' = [body EXCEPT !.at = to]
          /\ pc' = IF Premature(body.at, to) THEN "handle" ELSE "check"
    /\ UNCHANGED <<opens, attempt, amountRead, delivered, answer>>

\* The connection raises, and what it had received by then is gone.
ReadRaises(e) ==
    /\ pc = "read"
    /\ \E at \in body.at .. Size : body' = [body EXCEPT !.at = at]
    /\ IF e = "retryable"
       THEN pc' = "handle" /\ UNCHANGED answer
       ELSE Raise
    /\ UNCHANGED <<opens, attempt, amountRead, chunk, delivered>>

\* Behind the chunk in hand.
NewPosition == amountRead + chunk[2] - chunk[1]

\* The chunk is counted and returned; an empty one means the end to the caller.
Return ==
    /\ amountRead' = NewPosition
    /\ delivered' = delivered + chunk[2] - chunk[1]
    /\ answer' = IF chunk[1] = chunk[2] THEN Reader!EndOfStream
                 ELSE Reader!Answer("bytes", chunk[1], chunk[2])
    /\ pc' = "idle"
    /\ UNCHANGED <<opens, attempt, chunk>>

\* The throughput is not checked now, or is good enough.
ReturnChunk ==
    /\ pc = "check"
    /\ Return
    /\ UNCHANGED body

\* The throughput is too low; never so behind the last byte.
Slow == pc = "check" /\ NewPosition < Size

WatchdogPosition == NewPosition

WatchdogReconnects ==
    /\ Slow
    /\ body' = Opened(WatchdogPosition)
    /\ Return

\* The watchdog's own get_stream fails: the slow stream is kept, or the whole
\* attempt has failed and the chunk is read again.
WatchdogRaises(e) ==
    /\ Slow
    /\ \/ e \in {"endpoint", "client"} /\ Return
       \/ /\ e = "retryable"
          /\ pc' = "handle"
          /\ UNCHANGED <<opens, attempt, amountRead, chunk, delivered, answer>>
       \/ e = "other" /\ Raise /\ UNCHANGED <<opens, attempt, amountRead, chunk, delivered>>
    /\ UNCHANGED body

\* The last attempt re-raises.
GiveUp ==
    /\ pc = "handle"
    /\ LastAttempt
    /\ Raise
    /\ UNCHANGED <<opens, attempt, body, amountRead, chunk, delivered>>

\* Mutated form: the old stream stays open when it cannot be replaced.
ClosedNot == body
\* A closed stream gives no more bytes.
Closed == [body EXCEPT !.open = FALSE]

\* Mutated form: the new stream starts where the old one was.
ResumeAtStream == body.at
ResumeAt == amountRead

\* A range that starts at the end of the object is refused by the store.
Satisfiable(start) == start = 0 \/ start < Size

Reconnect ==
    /\ pc = "handle"
    /\ ~LastAttempt
    /\ Satisfiable(ResumeAt)
    /\ body' = Opened(ResumeAt)
    /\ attempt' = NextAttempt
    /\ pc' = "read"
    /\ UNCHANGED <<opens, amountRead, chunk, delivered, answer>>

\* The next attempt reads from the closed stream, or the error is the caller's.
ReconnectRaises(e) ==
    /\ pc = "handle"
    /\ ~LastAttempt
    /\ body' = Closed
    /\ IF e \in {"retryable", "endpoint"}
       THEN pc' = "read" /\ attempt' = NextAttempt /\ UNCHANGED answer
       ELSE Raise /\ UNCHANGED attempt
    /\ UNCHANGED <<opens, amountRead, chunk, delivered>>

Open == \/ GetLength \/ GetFirstStream
        \/ \E e \in Errors : OpenRetried(e) \/ OpenedAgain(e) \/ OpenRaises(e)

Read == \/ ReadChunk \/ ReturnChunk \/ WatchdogReconnects \/ GiveUp \/ Reconnect
        \/ \E e \in Errors : ReadRaises(e) \/ WatchdogRaises(e) \/ ReconnectRaises(e)

\* The caller abandons a stream that raised.
Abandoned == pc = "failed" /\ UNCHANGED streamVars

StreamNext == Open \/ Call \/ Read \/ Abandoned

\* The caller need not read on; a call that has begun runs, and the store answers
\* it in one way or another (botocore has timeouts).
StreamFairness == WF_streamVars(Read)

StreamSpec     == StreamInit /\ [][StreamNext]_streamVars
StreamFairSpec == StreamSpec /\ StreamFairness
-----------------------------------------------------------------------------
(***************************************************************************)
(* Properties                                                              *)
(***************************************************************************)

\* Whenever read() asks the connection for more, an open stream stands at the
\* first byte that was not counted: after an error inside a chunk, a watchdog that
\* failed, and any number of failed reconnections.
InSync ==
    /\ pc = "read" /\ body.open => body.at = amountRead
    /\ pc = "check" => chunk[1] = amountRead

\* The caller gets the object's bytes in order, none twice and none left out, and
\* is told of the end only behind the last one (ByteReader).
ImplementsReader == Reader!ReaderSpec

\* A read() is answered, with bytes, the end or an error: the retries end.
Answered == pc = "read" ~> pc \in {"idle", "failed"}
=============================================================================
