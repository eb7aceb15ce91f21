----------------------------- MODULE ByteReader -----------------------------
(***************************************************************************)
(* What whoever reads an object through a stream is promised, whatever the *)
(* connection does: the answers to read() are consecutive pieces of the    *)
(* object from its first byte on, the end of the stream is only announced  *)
(* behind its last byte, and after an error nothing more is answered.      *)
(* RetryingStream is shown to implement this module.                       *)
(***************************************************************************)
EXTENDS Integers

CONSTANT Size        \* bytes in the object

VARIABLES delivered, \* bytes the caller was given
          answer     \* the last answer of the stream

readerVars == <<delivered, answer>>

\* An answer: the bytes from .. to - 1 of the object, its end, or an error.
Answer(kind, from, to) == [kind |-> kind, from |-> from, to |-> to]
Unanswered  == Answer("none", 0, 0)
EndOfStream == Answer("end", Size, Size)
Error       == Answer("error", 0, 0)

ReaderInit == delivered = 0 /\ answer = Unanswered

Deliver ==
    /\ answer # Error
    /\ \E to \in delivered + 1 .. Size :
          /\ answer' = Answer("bytes", delivered, to)
          /\ delivered' = to

AnnounceEnd ==
    /\ answer # Error
    /\ delivered = Size
    /\ answer' = EndOfStream
    /\ UNCHANGED delivered

Fail == answer' = Error /\ UNCHANGED delivered

ReaderSpec == ReaderInit /\ [][Deliver \/ AnnounceEnd \/ Fail]_readerVars
=============================================================================
