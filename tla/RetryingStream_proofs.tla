----------------------- MODULE RetryingStream_proofs -----------------------
(***************************************************************************)
(* RetryingStream implements ByteReader, for every size of the object and  *)
(* every number of attempts.                                               *)
(***************************************************************************)
EXTENDS RetryingStream, TLAPS

(***************************************************************************)
(* The inductive invariant                                                 *)
(***************************************************************************)

\* What was counted is what was delivered, and no connection is behind it.
Counted == delivered = amountRead /\ amountRead <= body.at

\* Nothing is counted while the object is opened, with attempts left.
\* Between two calls, and before each attempt, an open stream stands at the count;
\* with a chunk in hand it stands behind that chunk.
Aligned ==
    /\ pc \in {"length", "body"} => amountRead = 0 /\ opens < OpenAttempts
    /\ pc \in {"idle", "read"} /\ body.open => body.at = amountRead
    /\ pc = "check" =>
          /\ chunk[1] = amountRead /\ chunk[2] = body.at
          /\ chunk[1] = chunk[2] => amountRead = Size

\* An error is the last answer.
Final == answer.kind = "error" <=> pc = "failed"

StreamInv == StreamTypeOK /\ Counted /\ Aligned /\ Final
-----------------------------------------------------------------------------
LEMMA StreamInitInv == StreamInit => StreamInv
<1> USE StreamAssumption
<1> SUFFICES ASSUME StreamInit PROVE StreamInv
  OBVIOUS
<1>1. StreamTypeOK
  BY DEF StreamInit, StreamTypeOK, States, Chunks, Reader!Unanswered, Reader!Answer
<1>2. Counted /\ Aligned /\ Final
  BY DEF StreamInit, Counted, Aligned, Final, Reader!Unanswered, Reader!Answer
<1> QED
  BY <1>1, <1>2 DEF StreamInv

\* Opening the object changes neither the count nor what was delivered.
LEMMA OpenInv == StreamInv /\ Open => StreamInv'
<1> USE StreamAssumption DEF Reader!Error, Reader!Answer, Opened
<1> SUFFICES ASSUME StreamInv, Open PROVE StreamInv'
  OBVIOUS
<1> USE DEF StreamInv, StreamTypeOK, States, Chunks, Counted, Aligned, Final
<1>1. CASE GetLength
  BY <1>1 DEF GetLength
<1>2. CASE GetFirstStream
  BY <1>2 DEF GetFirstStream
<1>3. ASSUME NEW e \in Errors, OpenRetried(e) PROVE StreamInv'
  BY <1>3 DEF OpenRetried, LastAttempt, NextAttempt
<1>4. ASSUME NEW e \in Errors, OpenedAgain(e) PROVE StreamInv'
  BY <1>4 DEF OpenedAgain, Raise
<1>5. ASSUME NEW e \in Errors, OpenRaises(e) PROVE StreamInv'
  BY <1>5 DEF OpenRaises, Raise
<1> QED
  BY <1>1, <1>2, <1>3, <1>4, <1>5 DEF Open

\* A chunk in hand is returned: it is counted once and the stream, the old one or
\* one opened at NewPosition, stands behind it.
LEMMA ReturnInv ==
  ASSUME StreamInv, pc = "check", Return, body' = body \/ body' = Opened(NewPosition)
  PROVE  StreamInv'
<1> USE StreamAssumption DEF StreamInv, StreamTypeOK, Chunks, Counted, Aligned
<1>1. chunk[1] = amountRead /\ chunk[2] = body.at /\ chunk[1] <= chunk[2] /\ chunk[2] \in 0 .. Size
  OBVIOUS
<1>2. amountRead' = body.at /\ delivered' = body.at /\ pc' = "idle"
  BY <1>1 DEF Return, NewPosition
<1>3. body'.at = body.at /\ body' \in [open : BOOLEAN, at : 0 .. Size]
  <2>1. NewPosition = body.at /\ body.at \in 0 .. Size
    BY <1>1 DEF NewPosition
  <2>2. CASE body' = body
    BY <2>2
  <2>3. CASE body' = Opened(NewPosition)
    BY <2>1, <2>3 DEF Opened
  <2> QED
    BY <2>2, <2>3
<1>4. /\ answer'.kind \in {"bytes", "end"}
      /\ answer' \in [kind : {"none", "bytes", "end", "error"}, from : 0 .. Size, to : 0 .. Size]
  BY <1>1 DEF Return, Reader!EndOfStream, Reader!Answer
<1>5. opens' = opens /\ attempt' = attempt /\ chunk' = chunk
  BY DEF Return
<1>6. StreamTypeOK' /\ Counted' /\ Aligned'
  BY <1>1, <1>2, <1>3, <1>4, <1>5 DEF States
<1>7. Final'
  BY <1>2, <1>4 DEF Final
<1> QED
  BY <1>6, <1>7

LEMMA ReadInv == StreamInv /\ (Call \/ Read) => StreamInv'
<1> USE StreamAssumption
<1> SUFFICES ASSUME StreamInv, Call \/ Read PROVE StreamInv'
  OBVIOUS
<1>1. CASE Call
  BY <1>1 DEF Call, StreamInv, StreamTypeOK, States, Chunks, Counted, Aligned, Final
<1>2. CASE ReadChunk
  <2>1. PICK to \in body.at .. (IF body.open THEN Size ELSE body.at) :
            /\ chunk' = <<body.at, to>>
            /\ body' = [body EXCEPT !.at = to]
            /\ pc' = IF Premature(body.at, to) THEN "handle" ELSE "check"
    BY <1>2 DEF ReadChunk
  <2>2. to \in 0 .. Size /\ body.at <= to
    BY <2>1 DEF StreamInv, StreamTypeOK
  <2>3. StreamTypeOK'
    BY <1>2, <2>1, <2>2 DEF ReadChunk, StreamInv, StreamTypeOK, States, Chunks
  <2>4. pc' = "check" => chunk'[1] = amountRead /\ (chunk'[1] = chunk'[2] => amountRead = Size)
    BY <1>2, <2>1, <2>2 DEF ReadChunk, StreamInv, StreamTypeOK, Counted, Aligned, Premature
  <2> QED
    BY <1>2, <2>1, <2>2, <2>3, <2>4 DEF ReadChunk, StreamInv, StreamTypeOK, Counted, Aligned, Final
<1>3. CASE ReturnChunk
  BY <1>3, ReturnInv DEF ReturnChunk
<1>4. CASE WatchdogReconnects
  BY <1>4, ReturnInv DEF WatchdogReconnects, Slow, WatchdogPosition
<1>5. CASE GiveUp
  BY <1>5 DEF GiveUp, Raise, Reader!Error, Reader!Answer,
              StreamInv, StreamTypeOK, States, Chunks, Counted, Aligned, Final
<1>6. CASE Reconnect
  BY <1>6 DEF Reconnect, ResumeAt, Opened, NextAttempt, LastAttempt,
              StreamInv, StreamTypeOK, States, Chunks, Counted, Aligned, Final
<1>7. ASSUME NEW e \in Errors, ReadRaises(e) PROVE StreamInv'
  <2>1. PICK at \in body.at .. Size : body' = [body EXCEPT !.at = at]
    BY <1>7 DEF ReadRaises
  <2> QED
    BY <1>7, <2>1 DEF ReadRaises, Raise, Reader!Error, Reader!Answer,
                      StreamInv, StreamTypeOK, States, Chunks, Counted, Aligned, Final
<1>8. ASSUME NEW e \in Errors, WatchdogRaises(e) PROVE StreamInv'
  <2>1. CASE e \in {"endpoint", "client"} /\ Return
    BY <1>8, <2>1, ReturnInv DEF WatchdogRaises, Slow
  <2>2. CASE ~(e \in {"endpoint", "client"} /\ Return)
    BY <1>8, <2>2 DEF WatchdogRaises, Slow, Raise, Reader!Error, Reader!Answer,
                      StreamInv, StreamTypeOK, States, Chunks, Counted, Aligned, Final
  <2> QED
    BY <2>1, <2>2
<1>9. ASSUME NEW e \in Errors, ReconnectRaises(e) PROVE StreamInv'
  <2>1. body' = [open |-> FALSE, at |-> body.at]
    BY <1>9 DEF ReconnectRaises, Closed, StreamInv, StreamTypeOK
  <2> QED
    BY <1>9, <2>1 DEF ReconnectRaises, Raise, Reader!Error, Reader!Answer, NextAttempt,
              LastAttempt, StreamInv, StreamTypeOK, States, Chunks, Counted, Aligned, Final
<1> QED
  BY <1>1, <1>2, <1>3, <1>4, <1>5, <1>6, <1>7, <1>8, <1>9 DEF Read

\* The stream is in step with its count in every reachable state.
THEOREM StreamInvariance == StreamSpec => []StreamInv
<1>1. StreamInv /\ [StreamNext]_streamVars => StreamInv'
  <2> SUFFICES ASSUME StreamInv, [StreamNext]_streamVars PROVE StreamInv'
    OBVIOUS
  <2>1. CASE StreamNext
    <3>1. CASE Abandoned
      BY <3>1 DEF Abandoned, streamVars, StreamInv, StreamTypeOK, Counted, Aligned, Final
    <3> QED
      BY <2>1, <3>1, OpenInv, ReadInv DEF StreamNext
  <2>2. CASE UNCHANGED streamVars
    BY <2>2 DEF streamVars, StreamInv, StreamTypeOK, Counted, Aligned, Final
  <2> QED
    BY <2>1, <2>2
<1> QED
  BY StreamInitInv, <1>1, PTL DEF StreamSpec

\* Every state of the stream is well typed: no attempt is counted beyond the last,
\* and no byte beyond the end.
THEOREM StreamTypeCorrect == StreamSpec => []StreamTypeOK
<1>1. StreamInv => StreamTypeOK
  BY DEF StreamInv
<1> QED
  BY <1>1, StreamInvariance, PTL

\* Before every attempt an open stream stands at the first byte not counted.
THEOREM StreamInSync == StreamSpec => []InSync
<1>1. StreamInv => InSync
  BY DEF StreamInv, Aligned, InSync
<1> QED
  BY <1>1, StreamInvariance, PTL
-----------------------------------------------------------------------------
(***************************************************************************)
(* The refinement                                                          *)
(***************************************************************************)

ReaderNext == Reader!Deliver \/ Reader!AnnounceEnd \/ Reader!Fail

\* Returning a chunk delivers the bytes that follow, or announces the end.
LEMMA ReturnDelivers ==
  ASSUME StreamInv, pc = "check", Return
  PROVE  ReaderNext
<1> USE StreamAssumption
<1>1. /\ chunk[1] = delivered /\ chunk[1] <= chunk[2] /\ chunk[2] \in 0 .. Size
      /\ delivered \in 0 .. Size /\ (chunk[1] = chunk[2] => delivered = Size)
      /\ answer.kind # "error"
  BY DEF StreamInv, StreamTypeOK, Chunks, Counted, Aligned, Final
<1>2. answer # Reader!Error
  BY <1>1 DEF Reader!Error, Reader!Answer
<1>3. CASE chunk[1] = chunk[2]
  BY <1>1, <1>2, <1>3 DEF Return, ReaderNext, Reader!AnnounceEnd
<1>4. CASE chunk[1] # chunk[2]
  <2>1. chunk[2] \in delivered + 1 .. Size
    BY <1>1, <1>4
  <2>2. answer' = Reader!Answer("bytes", delivered, chunk[2]) /\ delivered' = chunk[2]
    BY <1>1, <1>4 DEF Return
  <2> QED
    BY <1>2, <2>1, <2>2 DEF ReaderNext, Reader!Deliver
<1> QED
  BY <1>3, <1>4

LEMMA RaiseFails == Raise /\ UNCHANGED delivered => ReaderNext
  BY DEF Raise, ReaderNext, Reader!Fail

LEMMA StepRefines == StreamInv /\ [StreamNext]_streamVars => [ReaderNext]_<<delivered, answer>>
<1> SUFFICES ASSUME StreamInv, [StreamNext]_streamVars, ~UNCHANGED <<delivered, answer>>
             PROVE ReaderNext
  OBVIOUS
<1>1. ~UNCHANGED streamVars
  BY DEF streamVars
<1>2. CASE Open
  BY <1>2, RaiseFails DEF Open, GetLength, GetFirstStream, OpenRetried, OpenedAgain, OpenRaises
<1>3. CASE Call
  BY <1>3 DEF Call
<1>4. CASE Read
  <2>1. CASE ReadChunk \/ Reconnect
    BY <2>1 DEF ReadChunk, Reconnect
  <2>2. CASE ReturnChunk \/ WatchdogReconnects
    BY <2>2, ReturnDelivers DEF ReturnChunk, WatchdogReconnects, Slow
  <2>3. CASE GiveUp
    BY <2>3, RaiseFails DEF GiveUp
  <2>4. ASSUME NEW e \in Errors, ReadRaises(e) \/ ReconnectRaises(e) PROVE ReaderNext
    BY <2>4, RaiseFails DEF ReadRaises, ReconnectRaises
  <2>5. ASSUME NEW e \in Errors, WatchdogRaises(e) PROVE ReaderNext
    BY <2>5, RaiseFails, ReturnDelivers DEF WatchdogRaises, Slow
  <2> QED
    BY <1>4, <2>1, <2>2, <2>3, <2>4, <2>5 DEF Read
<1>5. CASE Abandoned
  BY <1>1, <1>5 DEF Abandoned
<1> QED
  BY <1>1, <1>2, <1>3, <1>4, <1>5 DEF StreamNext

\* The caller of read() gets the bytes of the object in order, each once, and the
\* end only behind the last: the stream with its retries and its watchdog
\* implements ByteReader.
THEOREM StreamImplementsReader == StreamSpec => ImplementsReader
<1>1. StreamInit => Reader!ReaderInit
  BY DEF StreamInit, Reader!ReaderInit, Reader!Unanswered, Reader!Answer
<1>2. StreamInv /\ [StreamNext]_streamVars =>
        [Reader!Deliver \/ Reader!AnnounceEnd \/ Reader!Fail]_(Reader!readerVars)
  BY StepRefines DEF ReaderNext, Reader!readerVars
<1> QED
  BY <1>1, <1>2, StreamInvariance, PTL DEF StreamSpec, ImplementsReader, Reader!ReaderSpec
=============================================================================
