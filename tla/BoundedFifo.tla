---------------------------- MODULE BoundedFifo -----------------------------
(* What a pipe promises: the bytes written come out once, in order, and at    *)
(* most Capacity of them are in flight.                                       *)
EXTENDS Naturals, Sequences

CONSTANTS Bytes, Capacity

VARIABLE fifo

FifoInit == fifo = <<>>

Put == Len(fifo) < Capacity /\ \E b \in Bytes : fifo' = Append(fifo, b)
Get == fifo # <<>> /\ fifo' = Tail(fifo)

FifoNext == Put \/ Get

FifoSpec == FifoInit /\ [][FifoNext]_fifo
=============================================================================
