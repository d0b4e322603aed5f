---------------------------- MODULE TouchQueue ----------------------------
(***************************************************************************)
(* What the stroke FIFO of hello_world.c promises to its one producer (the *)
(* touch interrupt) and its one consumer (the main loop), with no ring, no *)
(* indices and no shared memory: a bounded queue of touch numbers.         *)
(*                                                                         *)
(* TouchBuffers implements this specification; the mapping is there.       *)
(***************************************************************************)
EXTENDS Naturals, Sequences

CONSTANTS
    Capacity,    \* touches the queue can hold
    MaxTouches   \* bound: touches offered in one behaviour

VARIABLES
    offered,     \* touches offered so far; the n-th touch is the number n
    queue,       \* touches accepted and not yet taken, oldest first
    out,         \* the touch handed over by the last Take
    flushing     \* a flush has emptied the queue and has not returned yet

queueVars == <<offered, queue, out, flushing>>

Init ==
    /\ offered = 0
    /\ queue = <<>>
    /\ out = 0
    /\ flushing = FALSE

\* The touch is accepted: there is room for it.
Accept ==
    /\ offered < MaxTouches
    /\ Len(queue) < Capacity
    /\ offered' = offered + 1
    /\ queue' = Append(queue, offered + 1)
    /\ UNCHANGED <<out, flushing>>

\* The touch is dropped, and only for one of two reasons: the queue is full,
\* or it arrived while a flush was being carried out.
Drop ==
    /\ offered < MaxTouches
    /\ Len(queue) = Capacity \/ flushing
    /\ offered' = offered + 1
    /\ UNCHANGED <<queue, out, flushing>>

\* The consumer takes the oldest touch.
Take ==
    /\ ~flushing
    /\ queue # <<>>
    /\ out' = Head(queue)
    /\ queue' = Tail(queue)
    /\ UNCHANGED <<offered, flushing>>

\* The consumer throws away everything queued so far ...
FlushBegin ==
    /\ ~flushing
    /\ queue' = <<>>
    /\ flushing' = TRUE
    /\ UNCHANGED <<offered, out>>

\* ... and what was accepted during the flush is kept.
FlushEnd ==
    /\ flushing
    /\ flushing' = FALSE
    /\ UNCHANGED <<offered, queue, out>>

Next == Accept \/ Drop \/ Take \/ FlushBegin \/ FlushEnd

Spec == Init /\ [][Next]_queueVars
=============================================================================
