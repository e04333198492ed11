----------------------------- MODULE SPSCQueue -----------------------------
(***************************************************************************)
(* The lock-free single-producer single-consumer ring of                   *)
(* fsw/core/SPSCQueue.hpp.  Each atomic load and store, and each access to *)
(* the ring, is a step of its own; a thread works on its own copy of the   *)
(* other thread's index (headSeen, tailSeen), which an acquire load brings *)
(* to a value the other thread has released, not necessarily the latest:   *)
(* Refresh... may happen at any time, or late.  What was written to the    *)
(* ring before an index was released is visible to the thread that has     *)
(* seen the index, which is what acquire/release guarantees.               *)
(***************************************************************************)
EXTENDS Integers, Sequences

CONSTANTS Values, Capacity, None

ASSUME QueueAssumption ==
    /\ Capacity \in Nat \ {0}
    /\ None \notin Values

VARIABLES
    head, tail,  \* head_, tail_
    headSeen,    \* the value of head_ that a load by the producer returns
    tailSeen,    \* the value of tail_ that a load by the consumer returns
    buffer,      \* buffer_
    producer,    \* [pc, item]: where push is, and its argument
    consumer,    \* [pc, item]: where pop is, and out_item
    delivered    \* the value the last successful pop returned

vars == <<head, tail, headSeen, tailSeen, buffer, producer, consumer, delivered>>

Slots == 0..(Capacity - 1)

TypeOK ==
    /\ {head, tail, headSeen, tailSeen} \subseteq Slots
    /\ buffer \in [Slots -> Values \cup {None}]
    /\ producer \in [pc: {"idle", "check", "write", "publish"}, item: Values \cup {None}]
    /\ consumer \in [pc: {"idle", "check", "read", "release"}, item: Values \cup {None}]
    /\ delivered \in Values \cup {None}

Init ==
    /\ head = 0 /\ tail = 0
    /\ headSeen = 0 /\ tailSeen = 0
    /\ buffer = [i \in Slots |-> None]
    /\ producer = [pc |-> "idle", item |-> None]
    /\ consumer = [pc |-> "idle", item |-> None]
    /\ delivered = None

\* (i + 1) & (Capacity - 1), for a Capacity that is a power of two.
NextIndex(i) == IF i + 1 = Capacity THEN 0 ELSE i + 1

(***************************************************************************)
(* push                                                                    *)
(***************************************************************************)
CallPush(v) ==
    /\ producer.pc = "idle"
    /\ producer' = [pc |-> "check", item |-> v]
    /\ UNCHANGED <<head, tail, headSeen, tailSeen, buffer, consumer, delivered>>

\* Mutant: push overwrites the oldest value.
NeverFull == FALSE

\* Mutant: the head is compared with the tail itself, not with its successor.
FullWhenEqual == tail = headSeen

IsFull == NextIndex(tail) = headSeen

CheckFull ==
    /\ producer.pc = "check"
    /\ producer' = [producer EXCEPT !.pc = IF IsFull THEN "idle" ELSE "write"]
    /\ UNCHANGED <<head, tail, headSeen, tailSeen, buffer, consumer, delivered>>

WriteItem ==
    /\ producer.pc = "write"
    /\ buffer' = [buffer EXCEPT ![tail] = producer.item]
    /\ producer' = [producer EXCEPT !.pc = "publish"]
    /\ UNCHANGED <<head, tail, headSeen, tailSeen, consumer, delivered>>

StoreTail ==
    /\ producer.pc = "publish"
    /\ tail' = NextIndex(tail)
    /\ producer' = [producer EXCEPT !.pc = "idle"]
    /\ UNCHANGED <<head, headSeen, tailSeen, buffer, consumer, delivered>>

(***************************************************************************)
(* pop                                                                     *)
(***************************************************************************)
CallPop ==
    /\ consumer.pc = "idle"
    /\ consumer' = [consumer EXCEPT !.pc = "check"]
    /\ UNCHANGED <<head, tail, headSeen, tailSeen, buffer, producer, delivered>>

\* Mutant: pop does not look at the tail.
NeverEmpty == FALSE

IsEmpty == head = tailSeen

CheckEmpty ==
    /\ consumer.pc = "check"
    /\ consumer' = [consumer EXCEPT !.pc = IF IsEmpty THEN "idle" ELSE "read"]
    /\ UNCHANGED <<head, tail, headSeen, tailSeen, buffer, producer, delivered>>

ReadItem ==
    /\ consumer.pc = "read"
    /\ consumer' = [pc |-> "release", item |-> buffer[head]]
    /\ UNCHANGED <<head, tail, headSeen, tailSeen, buffer, producer, delivered>>

StoreHead ==
    /\ consumer.pc = "release"
    /\ head' = NextIndex(head)
    /\ consumer' = [consumer EXCEPT !.pc = "idle"]
    /\ delivered' = consumer.item
    /\ UNCHANGED <<tail, headSeen, tailSeen, buffer, producer>>

(***************************************************************************)
(* The memory system.                                                      *)
(***************************************************************************)
RefreshHead ==
    /\ headSeen' = head
    /\ UNCHANGED <<head, tail, tailSeen, buffer, producer, consumer, delivered>>

RefreshTail ==
    /\ tailSeen' = tail
    /\ UNCHANGED <<head, tail, headSeen, buffer, producer, consumer, delivered>>

Push == (\E v \in Values : CallPush(v)) \/ CheckFull \/ WriteItem \/ StoreTail

Pop == CallPop \/ CheckEmpty \/ ReadItem \/ StoreHead

Next == Push \/ Pop \/ RefreshHead \/ RefreshTail

Spec == Init /\ [][Next]_vars

\* An operation that has started finishes, and every store becomes visible in
\* finite time.  Nobody has to start a push or a pop.
Fairness ==
    /\ WF_vars(CheckFull \/ WriteItem \/ StoreTail)
    /\ WF_vars(CheckEmpty \/ ReadItem \/ StoreHead)
    /\ WF_vars(RefreshHead)
    /\ WF_vars(RefreshTail)

(***************************************************************************)
(* Properties                                                              *)
(***************************************************************************)
\* Slots from index a forward to index b.
Distance(a, b) == IF b >= a THEN b - a ELSE b - a + Capacity

\* The four indices keep their order around the ring: what the producer knows
\* of the head is behind the head, which is behind what the consumer knows of
\* the tail, which is behind the tail, less than one turn in all.  A stale
\* index therefore only ever makes the ring look fuller or emptier than it is.
RingOrder ==
    Distance(headSeen, head) + Distance(head, tailSeen) + Distance(tailSeen, tail) < Capacity

\* The two threads never touch the same slot of the unprotected buffer_ at
\* the same time (a data race otherwise): while push writes buffer_[tail] and
\* pop reads buffer_[head], the two slots differ.
NoSlotConflict ==
    producer.pc = "write" /\ consumer.pc = "read" => tail # head

\* The values in flight, in the order of the ring.
SlotOf(k) == IF head + k - 1 < Capacity THEN head + k - 1 ELSE head + k - 1 - Capacity

InFlight == [k \in 1..Distance(head, tail) |-> buffer[SlotOf(k)]]

\* The ring implements a bounded first-in first-out channel of Capacity - 1
\* values: a push takes effect when it stores the tail, a pop when it stores
\* the head, in every interleaving of the two and with stale indices.
Fifo == INSTANCE BoundedFifo WITH queue <- InFlight, Limit <- Capacity - 1

ImplementsFifo == Fifo!FifoSpec

\* A producer that keeps calling push is not refused for ever by a ring whose
\* consumer keeps calling pop, as the two threads of performance_test.cpp do:
\* between the two the ring can neither stay full nor appear so, although each
\* sees the other's index late.
PushEventuallyAccepted ==
    []<>(producer.pc = "check") /\ []<>(consumer.pc = "check") => []<>(producer.pc = "publish")
=============================================================================
