---------------------------- MODULE BoundedFifo ----------------------------
(***************************************************************************)
(* What a bounded first-in first-out channel between one producer and one  *)
(* consumer promises: values arrive in the order in which they were        *)
(* accepted, none twice, none lost, and at most Limit are on the way.  A   *)
(* push may be refused at any time and a pop may find nothing at any time: *)
(* when that may not go on for ever is a liveness property of the          *)
(* implementation.                                                         *)
(***************************************************************************)
EXTENDS Naturals, Sequences

CONSTANTS Values, Limit, None

VARIABLES
    queue,     \* values accepted and not yet delivered
    delivered  \* the value the last successful pop returned

fifoVars == <<queue, delivered>>

FifoInit == queue = <<>> /\ delivered = None

Accept(v) ==
    /\ Len(queue) < Limit
    /\ queue' = Append(queue, v)
    /\ UNCHANGED delivered

Deliver ==
    /\ queue # <<>>
    /\ delivered' = Head(queue)
    /\ queue' = Tail(queue)

FifoNext == (\E v \in Values : Accept(v)) \/ Deliver

FifoSpec == FifoInit /\ [][FifoNext]_fifoVars
=============================================================================
