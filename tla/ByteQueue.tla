------------------------------ MODULE ByteQueue ------------------------------
(***************************************************************************)
(* What a buffer promises: a queue of bytes.  Bytes are accepted at the    *)
(* end, numbered in the order in which they come; they leave at the front, *)
(* and only when the reader or the IO has received them.  An IO may        *)
(* receive bytes more than once, and it may be passed, or pass on, bytes   *)
(* that never enter the queue, but only when none is before them.          *)
(***************************************************************************)
EXTENDS Integers, Sequences, FiniteSetsExt

CONSTANT Sizes  \* how many bytes may be accepted at once

VARIABLES
    queue,     \* the bytes that were accepted and are still to be read
    accepted,  \* how many bytes were accepted
    received   \* the reader or the IO has received the bytes up to this one

Init == queue = <<>> /\ accepted = 0 /\ received = 0

Put(n) ==
    /\ queue' = queue \o [i \in 1 .. n |-> accepted + i]
    /\ accepted' = accepted + n
    /\ UNCHANGED received

Deliver(n) == /\ received' = Max({received, queue[n]})
              /\ UNCHANGED accepted

\* The reader, or an IO, gets the first n bytes for good.
Take(n) == Deliver(n) /\ queue' = SubSeq(queue, n + 1, Len(queue))

\* An IO gets the first n bytes but its write raises: they stay.
Repeat(n) == Deliver(n) /\ UNCHANGED queue

Pass(n) == /\ queue = <<>>
           /\ accepted' = accepted + n /\ received' = accepted + n
           /\ UNCHANGED queue

Next == \/ \E n \in Sizes : Put(n) \/ Pass(n)
        \/ \E n \in 1 .. Len(queue) : Take(n) \/ Repeat(n)

Spec == Init /\ [][Next]_<<queue, accepted, received>>
=============================================================================
