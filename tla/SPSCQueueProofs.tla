--------------------------- MODULE SPSCQueueProofs ----------------------------
(***************************************************************************)
(* The ring buffer, proved for every capacity: its safety invariant, the   *)
(* refinement of a bounded FIFO, and the history the recorder keeps.       *)
(***************************************************************************)
EXTENDS Recording, TLAPS

(***************************************************************************)
(* Arithmetic of the ring.                                                 *)
(***************************************************************************)

\* The successor of a slot is a slot.
LEMMA NextIndexType == \A i \in Slots : NextIndex(i) \in Slots
  BY QueueAssumption DEF Slots, NextIndex

\* A distance is less than one turn, and zero only from a slot to itself.
LEMMA DistanceType ==
    \A a, b \in Slots :
        /\ Distance(a, b) \in 0..(Capacity - 1)
        /\ Distance(a, b) = 0 <=> a = b
  BY QueueAssumption DEF Slots, Distance

\* Distances add up as long as the sum is less than one turn.
LEMMA DistanceAdds ==
    \A a, b, c \in Slots :
        Distance(a, b) + Distance(b, c) < Capacity => Distance(a, b) + Distance(b, c) = Distance(a, c)
  BY QueueAssumption DEF Slots, Distance

\* Moving the far end forward makes the distance one longer, unless the ring
\* is then closed.
LEMMA DistanceNextFar ==
    \A a, b \in Slots :
        /\ NextIndex(b) # a => Distance(a, NextIndex(b)) = Distance(a, b) + 1
        /\ NextIndex(b) = a <=> Distance(a, b) = Capacity - 1
  BY QueueAssumption DEF Slots, Distance, NextIndex

\* Moving the near end forward makes it one shorter.
LEMMA DistanceNextNear ==
    \A a, b \in Slots : a # b => Distance(NextIndex(a), b) = Distance(a, b) - 1
  BY QueueAssumption DEF Slots, Distance, NextIndex

(***************************************************************************)
(* The inductive invariant.  A push that has seen room keeps it although   *)
(* the loads that follow may be stale: the consumer can only make more.  A *)
(* pop that has seen a value keeps it likewise.                            *)
(***************************************************************************)
Span == Distance(headSeen, head) + Distance(head, tailSeen) + Distance(tailSeen, tail)

RoomForPush == producer.pc \in {"write", "publish"} => Span < Capacity - 1

ItemForPop == consumer.pc \in {"read", "release"} => head # tailSeen

RingInv == TypeOK /\ RingOrder /\ RoomForPush /\ ItemForPop

\* The constructor establishes it.
LEMMA RingInvInit == Init => RingInv
  BY QueueAssumption DEF Init, RingInv, TypeOK, Slots, RingOrder, RoomForPush, ItemForPop, Distance

\* The indices and their distances, as numbers.
LEMMA RingNumbers ==
    ASSUME TypeOK
    PROVE  /\ Capacity \in Nat \ {0}
           /\ head \in Slots /\ tail \in Slots /\ headSeen \in Slots /\ tailSeen \in Slots
           /\ Distance(headSeen, head) \in Nat
           /\ Distance(head, tailSeen) \in Nat
           /\ Distance(tailSeen, tail) \in Nat
  <1>1. head \in Slots /\ tail \in Slots /\ headSeen \in Slots /\ tailSeen \in Slots
    BY DEF TypeOK
  <1> QED  BY <1>1, DistanceType, QueueAssumption

\* Every step of either thread, and of the memory, preserves it.
LEMMA RingInvNext == RingInv /\ [Next]_vars => RingInv'
  <1> SUFFICES ASSUME RingInv, [Next]_vars PROVE RingInv'
    OBVIOUS
  <1>t. TypeOK /\ RingOrder /\ RoomForPush /\ ItemForPop
    BY DEF RingInv
  <1>n. /\ Capacity \in Nat \ {0}
        /\ head \in Slots /\ tail \in Slots /\ headSeen \in Slots /\ tailSeen \in Slots
        /\ Distance(headSeen, head) \in Nat
        /\ Distance(head, tailSeen) \in Nat
        /\ Distance(tailSeen, tail) \in Nat
    BY <1>t, RingNumbers
  <1>s. Span \in Nat /\ Span < Capacity /\ Span = Distance(headSeen, tail)
    <2>1. Distance(headSeen, head) + Distance(head, tailSeen) = Distance(headSeen, tailSeen)
      BY <1>n, <1>t, DistanceAdds DEF RingOrder
    <2>2. Distance(headSeen, tailSeen) + Distance(tailSeen, tail) = Distance(headSeen, tail)
      BY <1>n, <1>t, <2>1, DistanceAdds DEF RingOrder
    <2> QED  BY <1>n, <1>t, <2>1, <2>2 DEF RingOrder, Span
  <1>1. ASSUME NEW v \in Values, CallPush(v)
        PROVE  RingInv'
    BY <1>1, <1>t DEF CallPush, RingInv, TypeOK, RingOrder, RoomForPush, ItemForPop, Span, Distance
  <1>2. CASE CheckFull
    <2>1. TypeOK'
      BY <1>2, <1>t DEF CheckFull, TypeOK
    <2>2. UNCHANGED <<head, tail, headSeen, tailSeen, consumer>>
      BY <1>2 DEF CheckFull
    <2>3. ~IsFull => Span < Capacity - 1
      <3>1. ~IsFull => Distance(headSeen, tail) # Capacity - 1
        BY <1>n, DistanceNextFar DEF IsFull
      <3> QED  BY <1>n, <1>s, <3>1
    <2>4. producer'.pc \in {"write", "publish"} => ~IsFull
      BY <1>2, <1>t DEF CheckFull, TypeOK
    <2> QED
      BY <1>t, <2>1, <2>2, <2>3, <2>4 DEF RingInv, RingOrder, RoomForPush, ItemForPop, Span, Distance
  <1>3. CASE WriteItem
    <2>1. TypeOK' /\ UNCHANGED <<head, tail, headSeen, tailSeen, consumer>>
      BY <1>3, <1>t DEF WriteItem, TypeOK
    <2> QED
      BY <1>3, <1>t, <2>1 DEF WriteItem, RingInv, RingOrder, RoomForPush, ItemForPop, Span, Distance
  <1>4. CASE StoreTail
    <2>1. TypeOK' /\ tail' = NextIndex(tail) /\ UNCHANGED <<head, headSeen, tailSeen, consumer>>
      BY <1>4, <1>t, <1>n, NextIndexType DEF StoreTail, TypeOK
    <2>2. Span < Capacity - 1 /\ producer'.pc = "idle"
      BY <1>4, <1>t DEF StoreTail, RoomForPush, TypeOK
    <2>3. Distance(tailSeen, tail) < Capacity - 1
      BY <1>n, <2>2 DEF Span
    <2>4. Distance(tailSeen, NextIndex(tail)) = Distance(tailSeen, tail) + 1
      BY <1>n, <2>3, DistanceNextFar
    <2>5. RingOrder'
      BY <1>n, <2>1, <2>2, <2>4 DEF RingOrder, Span, Distance
    <2> QED  BY <1>t, <2>1, <2>2, <2>5 DEF RingInv, RoomForPush, ItemForPop
  <1>5. CASE CallPop \/ CheckEmpty
    <2>1. TypeOK' /\ UNCHANGED <<head, tail, headSeen, tailSeen, producer>>
      BY <1>5, <1>t DEF CallPop, CheckEmpty, TypeOK
    <2>2. consumer'.pc \in {"read", "release"} => head # tailSeen
      BY <1>5, <1>t DEF CallPop, CheckEmpty, IsEmpty, TypeOK
    <2> QED
      BY <1>t, <2>1, <2>2 DEF RingInv, RingOrder, RoomForPush, ItemForPop, Span, Distance
  <1>6. CASE ReadItem
    <2>1. TypeOK' /\ UNCHANGED <<head, tail, headSeen, tailSeen, producer>>
      BY <1>6, <1>t, <1>n DEF ReadItem, TypeOK
    <2> QED
      BY <1>6, <1>t, <2>1 DEF ReadItem, RingInv, RingOrder, RoomForPush, ItemForPop, Span, Distance
  <1>7. CASE StoreHead
    <2>1. TypeOK' /\ head' = NextIndex(head) /\ UNCHANGED <<tail, headSeen, tailSeen, producer>>
      BY <1>7, <1>t, <1>n, NextIndexType DEF StoreHead, TypeOK
    <2>2. head # tailSeen /\ consumer'.pc = "idle"
      BY <1>7, <1>t DEF StoreHead, ItemForPop, TypeOK
    <2>3. Distance(NextIndex(head), tailSeen) = Distance(head, tailSeen) - 1 /\ Distance(head, tailSeen) # 0
      BY <1>n, <2>2, DistanceNextNear, DistanceType
    <2>4. Distance(headSeen, head) # Capacity - 1
      BY <1>n, <1>s, <2>3 DEF Span
    <2>5. Distance(headSeen, NextIndex(head)) = Distance(headSeen, head) + 1
      BY <1>n, <2>4, DistanceNextFar
    <2>6. Span' = Span
      BY <1>n, <2>1, <2>3, <2>5 DEF Span, Distance
    <2> QED
      BY <1>t, <2>1, <2>2, <2>6 DEF RingInv, RingOrder, RoomForPush, ItemForPop, Span
  <1>8. CASE RefreshHead
    <2>1. TypeOK' /\ headSeen' = head /\ UNCHANGED <<head, tail, tailSeen, producer, consumer>>
      BY <1>8, <1>t DEF RefreshHead, TypeOK
    <2>2. Span' = Distance(head, tailSeen) + Distance(tailSeen, tail)
      BY <1>n, <2>1 DEF Span, Distance, Slots
    <2>3. Span' <= Span /\ Span' \in Nat
      BY <1>n, <2>2 DEF Span
    <2> QED
      BY <1>t, <1>n, <1>s, <2>1, <2>3 DEF RingInv, RingOrder, RoomForPush, ItemForPop, Span
  <1>9. CASE RefreshTail
    <2>1. TypeOK' /\ tailSeen' = tail /\ UNCHANGED <<head, tail, headSeen, producer, consumer>>
      BY <1>9, <1>t DEF RefreshTail, TypeOK
    <2>2. Distance(head, tailSeen) + Distance(tailSeen, tail) = Distance(head, tail)
      BY <1>n, <1>s, DistanceAdds DEF Span
    <2>3. Span' = Distance(headSeen, head) + Distance(head, tail)
      BY <1>n, <2>1 DEF Span, Distance, Slots
    <2>4. Span' = Span
      BY <1>n, <2>2, <2>3 DEF Span
    <2>5. head # tailSeen => head # tail
      BY <1>n, <2>2, DistanceType
    <2> QED
      BY <1>t, <2>1, <2>4, <2>5 DEF RingInv, RingOrder, RoomForPush, ItemForPop, Span
  <1>10. CASE UNCHANGED vars
    BY <1>t, <1>10 DEF vars, RingInv, TypeOK, RingOrder, RoomForPush, ItemForPop, Span, Distance
  <1> QED
    BY <1>1, <1>2, <1>3, <1>4, <1>5, <1>6, <1>7, <1>8, <1>9, <1>10 DEF Next, Push, Pop

\* While one thread writes a slot and the other reads one, they differ.
LEMMA RingInvNoConflict == RingInv => NoSlotConflict
  <1> SUFFICES ASSUME RingInv, consumer.pc = "read", tail = head PROVE FALSE
    BY DEF NoSlotConflict
  <1>1. TypeOK /\ RingOrder /\ head # tailSeen
    BY DEF RingInv, ItemForPop
  <1>2. /\ Capacity \in Nat \ {0}
        /\ head \in Slots /\ tailSeen \in Slots
        /\ Distance(headSeen, head) \in Nat
    BY <1>1, RingNumbers
  <1>3. Distance(head, tailSeen) + Distance(tailSeen, head) = Capacity
    BY <1>1, <1>2 DEF Slots, Distance
  <1>4. Distance(head, tailSeen) \in Nat /\ Distance(tailSeen, head) \in Nat
    BY <1>2, DistanceType
  <1> QED  BY <1>1, <1>2, <1>3, <1>4 DEF RingOrder

\* For every capacity, the indices keep their order around the ring and push
\* and pop never meet on a slot of the unprotected buffer_.
THEOREM RingSafe == Spec => [](TypeOK /\ RingOrder /\ NoSlotConflict)
  <1>1. Spec => []RingInv
    BY RingInvInit, RingInvNext, PTL DEF Spec
  <1>2. RingInv => TypeOK /\ RingOrder /\ NoSlotConflict
    BY RingInvNoConflict DEF RingInv
  <1> QED  BY <1>1, <1>2, PTL

-----------------------------------------------------------------------------
(***************************************************************************)
(* The ring buffer implements a bounded FIFO.                              *)
(***************************************************************************)
(***************************************************************************)
(* What the threads hold, next to the order of the indices.                *)
(***************************************************************************)
PushHolds ==
    /\ producer.pc # "idle" => producer.item \in Values
    /\ producer.pc = "publish" => buffer[tail] = producer.item

PopHolds == consumer.pc = "release" => consumer.item = buffer[head]

FifoInv == RingInv /\ PushHolds /\ PopHolds

\* A pop under way works on another slot than the next push.
LEMMA PopAwayFromTail ==
    ASSUME RingInv, consumer.pc \in {"read", "release"}
    PROVE  head # tail
  <1> SUFFICES ASSUME tail = head PROVE FALSE
    OBVIOUS
  <1>1. TypeOK /\ RingOrder /\ head # tailSeen
    BY DEF RingInv, ItemForPop
  <1>2. /\ Capacity \in Nat \ {0}
        /\ head \in Slots /\ tailSeen \in Slots
        /\ Distance(headSeen, head) \in Nat
    BY <1>1, RingNumbers
  <1>3. Distance(head, tailSeen) + Distance(tailSeen, head) = Capacity
    BY <1>1, <1>2 DEF Slots, Distance
  <1>4. Distance(head, tailSeen) \in Nat /\ Distance(tailSeen, head) \in Nat
    BY <1>2, DistanceType
  <1> QED  BY <1>1, <1>2, <1>3, <1>4 DEF RingOrder

\* The invariant is inductive.
LEMMA FifoInvInit == Init => FifoInv
  BY RingInvInit DEF Init, FifoInv, PushHolds, PopHolds

\* Only the producer writes the ring, and never the slot that a pop has read
\* and not yet released.
LEMMA FifoInvNext == FifoInv /\ [Next]_vars => FifoInv'
  <1> SUFFICES ASSUME FifoInv, [Next]_vars PROVE FifoInv'
    OBVIOUS
  <1>t. RingInv /\ TypeOK /\ PushHolds /\ PopHolds
    BY DEF FifoInv, RingInv
  <1>r. RingInv'
    BY <1>t, RingInvNext
  <1>1. PushHolds'
    <2>1. CASE Push
      BY <1>t, <2>1 DEF Push, CallPush, CheckFull, WriteItem, StoreTail, PushHolds, TypeOK
    <2>2. CASE UNCHANGED <<producer, tail, buffer>>
      BY <1>t, <2>2 DEF PushHolds
    <2> QED
      BY <2>1, <2>2 DEF Next, Pop, CallPop, CheckEmpty, ReadItem, StoreHead, RefreshHead, RefreshTail, vars
  <1>2. PopHolds'
    <2>1. CASE Pop
      BY <1>t, <2>1 DEF Pop, CallPop, CheckEmpty, ReadItem, StoreHead, PopHolds, TypeOK
    <2>2. CASE WriteItem
      <3>1. consumer.pc = "release" => head # tail
        BY <1>t, PopAwayFromTail
      <3> QED  BY <1>t, <2>2, <3>1 DEF WriteItem, PopHolds, TypeOK
    <2>3. CASE UNCHANGED <<consumer, head, buffer>>
      BY <1>t, <2>3 DEF PopHolds
    <2> QED
      BY <2>1, <2>2, <2>3 DEF Next, Push, CallPush, CheckFull, StoreTail, RefreshHead, RefreshTail, vars
  <1> QED  BY <1>r, <1>1, <1>2 DEF FifoInv

(***************************************************************************)
(* The values in flight.                                                   *)
(***************************************************************************)

\* The k-th slot after the head lies before the tail, and the one after the
\* last is the tail.
LEMMA SlotOfRange ==
    ASSUME TypeOK
    PROVE  /\ Distance(head, tail) \in Nat
           /\ \A k \in 1..Distance(head, tail) : SlotOf(k) \in Slots /\ SlotOf(k) # tail
           /\ SlotOf(Distance(head, tail) + 1) = tail
           /\ SlotOf(1) = head
  <1>1. head \in Slots /\ tail \in Slots /\ Capacity \in Nat \ {0}
    BY RingNumbers
  <1> QED  BY <1>1 DEF Slots, Distance, SlotOf

\* They form a sequence as long as the distance from head to tail.
InFlightIsSeq ==
    /\ InFlight \in Seq(Values \cup {None})
    /\ Len(InFlight) = Distance(head, tail)
    /\ \A k \in 1..Distance(head, tail) : InFlight[k] = buffer[SlotOf(k)]

\* So in every state of the ring that is well-formed.
LEMMA InFlightType == TypeOK => InFlightIsSeq
  <1> SUFFICES ASSUME TypeOK PROVE InFlightIsSeq
    OBVIOUS
  <1>1. Distance(head, tail) \in Nat /\ \A k \in 1..Distance(head, tail) : SlotOf(k) \in Slots
    BY SlotOfRange
  <1>2. \A k \in 1..Distance(head, tail) : buffer[SlotOf(k)] \in Values \cup {None}
    BY <1>1 DEF TypeOK
  <1>3. InFlight \in [1..Distance(head, tail) -> Values \cup {None}]
    BY <1>2 DEF InFlight
  <1>4. InFlight \in Seq(Values \cup {None})
    BY <1>1, <1>3
  <1> QED  BY <1>1, <1>3, <1>4 DEF InFlight, InFlightIsSeq

\* The store of the tail appends the pushed value.
LEMMA StoreTailAccepts ==
    ASSUME FifoInv, TypeOK', StoreTail
    PROVE  Fifo!Accept(producer.item) /\ producer.item \in Values
  <1>t. TypeOK /\ RoomForPush /\ PushHolds /\ producer.pc = "publish"
    BY DEF FifoInv, RingInv, StoreTail
  <1>n. /\ Capacity \in Nat \ {0}
        /\ head \in Slots /\ tail \in Slots /\ headSeen \in Slots /\ tailSeen \in Slots
        /\ Distance(headSeen, head) \in Nat
        /\ Distance(head, tailSeen) \in Nat
        /\ Distance(tailSeen, tail) \in Nat
    BY <1>t, RingNumbers
  <1> DEFINE d == Distance(head, tail)
  <1>1. d \in Nat /\ d < Capacity - 1
    <2>1. Span < Capacity - 1
      BY <1>t DEF RoomForPush
    <2>2. Distance(head, tailSeen) + Distance(tailSeen, tail) = d
      BY <1>n, <2>1, DistanceAdds DEF Span
    <2> QED  BY <1>n, <2>1, <2>2 DEF Span
  <1>2. Distance(head, NextIndex(tail)) = d + 1
    BY <1>n, <1>1, DistanceNextFar
  <1>3. /\ InFlight \in Seq(Values \cup {None})
        /\ Len(InFlight) = d
        /\ \A k \in 1..d : InFlight[k] = buffer[SlotOf(k)]
    BY <1>t, InFlightType DEF InFlightIsSeq
  <1>4. /\ InFlight' \in Seq(Values \cup {None})
        /\ Len(InFlight') = d + 1
        /\ \A k \in 1..(d + 1) : InFlight'[k] = buffer[SlotOf(k)]
    <2>1. InFlightIsSeq'
      BY InFlightType, PTL
    <2>2. head' = head /\ tail' = NextIndex(tail) /\ buffer' = buffer
      BY DEF StoreTail
    <2>3. \A k : SlotOf(k)' = SlotOf(k)
      BY <2>2 DEF SlotOf
    <2>4. /\ InFlight' \in Seq(Values \cup {None})
          /\ Len(InFlight') = Distance(head, NextIndex(tail))
          /\ \A k \in 1..Distance(head, NextIndex(tail)) : InFlight'[k] = buffer[SlotOf(k)]
      BY <2>1, <2>2, <2>3 DEF InFlightIsSeq, Distance
    <2> QED  BY <1>2, <2>4
  <1>5. buffer[SlotOf(d + 1)] = producer.item
    BY <1>t, SlotOfRange DEF PushHolds
  <1>6. InFlight' = Append(InFlight, producer.item)
    BY <1>1, <1>3, <1>4, <1>5
  <1> QED
    BY <1>t, <1>1, <1>3, <1>6 DEF Fifo!Accept, StoreTail, PushHolds
\* The store of the head delivers the oldest value.
LEMMA StoreHeadDelivers ==
    ASSUME FifoInv, TypeOK', StoreHead
    PROVE  Fifo!Deliver
  <1>t. RingInv /\ TypeOK /\ PopHolds /\ consumer.pc = "release"
    BY DEF FifoInv, RingInv, StoreHead
  <1>n. Capacity \in Nat \ {0} /\ head \in Slots /\ tail \in Slots
    BY <1>t, RingNumbers
  <1> DEFINE d == Distance(head, tail)
  <1>1. head # tail
    BY <1>t, PopAwayFromTail
  <1>2. d \in Nat /\ d > 0 /\ Distance(NextIndex(head), tail) = d - 1
    BY <1>n, <1>1, DistanceType, DistanceNextNear
  <1>3. /\ InFlight \in Seq(Values \cup {None})
        /\ Len(InFlight) = d
        /\ \A k \in 1..d : InFlight[k] = buffer[SlotOf(k)]
    BY <1>t, InFlightType DEF InFlightIsSeq
  <1>4. head' = NextIndex(head) /\ tail' = tail /\ buffer' = buffer
    BY DEF StoreHead
  <1>5. \A k \in 1..(d - 1) : SlotOf(k)' = SlotOf(k + 1)
    BY <1>n, <1>2, <1>4 DEF SlotOf, Slots, Distance, NextIndex
  <1>6. /\ InFlight' \in Seq(Values \cup {None})
        /\ Len(InFlight') = d - 1
        /\ \A k \in 1..(d - 1) : InFlight'[k] = buffer[SlotOf(k + 1)]
    <2>1. InFlightIsSeq'
      BY InFlightType, PTL
    <2>2. Distance(head, tail)' = d - 1
      BY <1>2, <1>4 DEF Distance
    <2> QED  BY <1>4, <1>5, <2>1, <2>2 DEF InFlightIsSeq
  <1>7. \A k \in 1..(d - 1) : InFlight'[k] = InFlight[k + 1]
    BY <1>2, <1>3, <1>6
  <1>8. InFlight # <<>> /\ InFlight' = Tail(InFlight)
    BY <1>2, <1>3, <1>6, <1>7
  <1>9. delivered' = Head(InFlight)
    <2>1. Head(InFlight) = buffer[head]
      BY <1>t, <1>2, <1>3, SlotOfRange
    <2> QED  BY <1>t, <2>1 DEF StoreHead, PopHolds
  <1> QED  BY <1>8, <1>9 DEF Fifo!Deliver

\* The write of a slot touches no value in flight.
LEMMA WriteItemStutters ==
    ASSUME FifoInv, WriteItem
    PROVE  UNCHANGED <<InFlight, delivered>>
  <1>1. TypeOK /\ head' = head /\ tail' = tail /\ delivered' = delivered
    BY DEF FifoInv, RingInv, WriteItem
  <1>2. \A k \in 1..Distance(head, tail) : SlotOf(k) \in Slots /\ SlotOf(k) # tail
    BY <1>1, SlotOfRange
  <1>3. \A k \in 1..Distance(head, tail) : buffer'[SlotOf(k)] = buffer[SlotOf(k)]
    BY <1>1, <1>2 DEF WriteItem, TypeOK
  <1>4. InFlight' = [k \in 1..Distance(head, tail) |-> buffer'[SlotOf(k)]]
    BY <1>1 DEF InFlight, Distance, SlotOf
  <1> QED  BY <1>1, <1>3, <1>4 DEF InFlight

\* push and pop of the lock-free ring are, for every capacity and under every
\* interleaving and delay of the index loads, those of a first-in first-out
\* channel of Capacity - 1 values.
THEOREM RingImplementsFifo == Spec => ImplementsFifo
  <1>1. Init => Fifo!FifoInit
    <2> SUFFICES ASSUME Init PROVE InFlight = <<>> /\ delivered = None
      BY DEF Fifo!FifoInit
    <2>1. Distance(head, tail) = 0
      BY DEF Init, Distance
    <2>2. InFlight = [k \in 1..0 |-> buffer[SlotOf(k)]]
      BY <2>1 DEF InFlight
    <2> QED  BY <2>2 DEF Init
  <1>2. FifoInv /\ TypeOK' /\ [Next]_vars => [Fifo!FifoNext]_(Fifo!fifoVars)
    <2> SUFFICES ASSUME FifoInv, TypeOK', [Next]_vars
                 PROVE  Fifo!FifoNext \/ UNCHANGED <<InFlight, delivered>>
      BY DEF Fifo!fifoVars
    <2>1. CASE StoreTail
      BY <2>1, StoreTailAccepts DEF Fifo!FifoNext
    <2>2. CASE StoreHead
      BY <2>2, StoreHeadDelivers DEF Fifo!FifoNext
    <2>3. CASE WriteItem
      BY <2>3, WriteItemStutters
    <2>4. CASE UNCHANGED <<head, tail, buffer, delivered>>
      BY <2>4 DEF InFlight, Distance, SlotOf
    <2> QED
      BY <2>1, <2>2, <2>3, <2>4
         DEF Next, Push, Pop, CallPush, CheckFull, CallPop, CheckEmpty, ReadItem, RefreshHead, RefreshTail, vars
  <1>3. Spec => []FifoInv
    BY FifoInvInit, FifoInvNext, PTL DEF Spec
  <1>4. FifoInv => TypeOK
    BY DEF FifoInv, RingInv
  <1> QED
    BY <1>1, <1>2, <1>3, <1>4, PTL DEF Spec, ImplementsFifo, Fifo!FifoSpec
-----------------------------------------------------------------------------
(***************************************************************************)
(* The state history next to the ring.                                     *)
(***************************************************************************)

\* The remainder of a row number that has gone around at most once.
LEMMA RemainderOnce ==
    ASSUME NEW x \in Nat, x < MaxSize + MaxSize
    PROVE  x % MaxSize = IF x < MaxSize THEN x ELSE x - MaxSize
  BY RecordingAssumption

\* The row after a row is a row.
AfterRow(i) == IF i + 1 = MaxSize THEN 0 ELSE i + 1

\* The row of the k-th estimate.
RowOf(k) ==
    LET oldest == IF size < MaxSize THEN 0 ELSE next
    IN  IF oldest + k - 1 < MaxSize THEN oldest + k - 1 ELSE oldest + k - 1 - MaxSize

(***************************************************************************)
(* The inductive invariant: until the matrix is full its rows are filled   *)
(* from the top, afterwards the row written next is the oldest.            *)
(***************************************************************************)
HistoryTypeOK ==
    /\ rows \in [0..(MaxSize - 1) -> Values \cup {None}]
    /\ next \in 0..(MaxSize - 1)
    /\ size \in 0..MaxSize
    /\ recent \in Seq(Values \cup {None})

FilledFromTop == size < MaxSize => next = size

RowsAreRecent ==
    /\ Len(recent) = size
    /\ \A k \in 1..size : recent[k] = rows[RowOf(k)]

RecordInv == RingInv /\ HistoryTypeOK /\ FilledFromTop /\ RowsAreRecent

\* An empty history.
LEMMA RecordInvInit == RecordInit => RecordInv
  <1> SUFFICES ASSUME RecordInit PROVE RecordInv
    OBVIOUS
  <1>1. RingInv
    BY RingInvInit DEF RecordInit
  <1>2. HistoryTypeOK /\ FilledFromTop /\ RowsAreRecent
    BY RecordingAssumption DEF RecordInit, HistoryTypeOK, FilledFromTop, RowsAreRecent
  <1> QED  BY <1>1, <1>2 DEF RecordInv

\* addState writes the newest estimate, over the oldest when the matrix is full.
LEMMA AddStateKeeps ==
    ASSUME HistoryTypeOK, FilledFromTop, RowsAreRecent, NEW v \in Values \cup {None}, AddState(v),
           recent' = IF Len(recent) < MaxSize THEN Append(recent, v) ELSE Append(Tail(recent), v)
    PROVE  HistoryTypeOK' /\ FilledFromTop' /\ RowsAreRecent'
  <1>m. MaxSize \in Nat \ {0}
    BY RecordingAssumption
  <1>t. /\ rows \in [0..(MaxSize - 1) -> Values \cup {None}]
        /\ next \in 0..(MaxSize - 1) /\ size \in 0..MaxSize
        /\ recent \in Seq(Values \cup {None})
        /\ Len(recent) = size
        /\ size < MaxSize => next = size
    BY DEF HistoryTypeOK, FilledFromTop, RowsAreRecent
  <1>1. next' = AfterRow(next)
    <2>1. PICK x \in Nat : x = next + 1 /\ x <= MaxSize
      BY <1>m, <1>t
    <2>2. x < MaxSize + MaxSize
      BY <1>m, <2>1
    <2>3. x % MaxSize = IF x < MaxSize THEN x ELSE x - MaxSize
      BY <2>2, RemainderOnce
    <2>4. next' = x % MaxSize
      BY <2>1 DEF AddState
    <2> QED  BY <1>m, <2>1, <2>3, <2>4 DEF AfterRow
  <1>2. /\ rows' = [rows EXCEPT ![next] = v]
        /\ size' = IF size < MaxSize THEN size + 1 ELSE size
    BY DEF AddState
  <1>3. recent' \in Seq(Values \cup {None}) /\ Len(recent') = size'
    <2>1. CASE size < MaxSize
      BY <1>t, <1>2, <2>1
    <2>2. CASE ~(size < MaxSize)
      <3>1. size = MaxSize /\ recent # <<>>
        BY <1>m, <1>t, <2>2
      <3>2. Tail(recent) \in Seq(Values \cup {None}) /\ Len(Tail(recent)) = size - 1
        BY <1>m, <1>t, <3>1
      <3> QED  BY <1>m, <1>t, <1>2, <2>2, <3>1, <3>2
    <2> QED  BY <2>1, <2>2
  <1>4. HistoryTypeOK'
    BY <1>m, <1>t, <1>1, <1>2, <1>3 DEF HistoryTypeOK, AfterRow
  <1>5. FilledFromTop'
    BY <1>m, <1>t, <1>1, <1>2 DEF FilledFromTop, AfterRow
  <1>6. ASSUME NEW k \in 1..size' PROVE recent'[k] = rows'[RowOf(k)']
    <2>1. CASE size < MaxSize
      <3>1. recent' = Append(recent, v) /\ size' = size + 1 /\ next = size
        BY <1>t, <1>2, <2>1
      <3>2. RowOf(k)' = k - 1
        BY <1>m, <1>t, <1>1, <3>1, <2>1 DEF RowOf, AfterRow
      <3>3. CASE k = size + 1
        BY <1>t, <1>2, <3>1, <3>2, <3>3
      <3>4. CASE k # size + 1
        <4>1. k \in 1..size /\ RowOf(k) = k - 1
          BY <1>m, <1>t, <2>1, <3>1, <3>4 DEF RowOf
        <4>2. recent[k] = rows[k - 1]
          BY <4>1 DEF RowsAreRecent
        <4>3. recent'[k] = recent[k] /\ rows'[k - 1] = rows[k - 1]
          BY <1>t, <1>2, <3>1, <4>1
        <4> QED  BY <3>2, <4>2, <4>3
      <3> QED  BY <3>3, <3>4
    <2>2. CASE ~(size < MaxSize)
      <3>1. size = MaxSize /\ size' = MaxSize /\ recent # <<>> /\ recent' = Append(Tail(recent), v)
        BY <1>m, <1>t, <1>2, <2>2
      <3>2. Tail(recent) \in Seq(Values \cup {None}) /\ Len(Tail(recent)) = size - 1
        BY <1>m, <1>t, <3>1
      <3>3. CASE k = MaxSize
        <4>1. RowOf(k)' = next
          BY <1>m, <1>t, <1>1, <3>1, <3>3 DEF RowOf, AfterRow
        <4>2. recent'[k] = v
          BY <1>m, <3>1, <3>2, <3>3
        <4> QED  BY <1>t, <1>2, <4>1, <4>2
      <3>4. CASE k # MaxSize
        <4>1. k + 1 \in 1..size /\ k \in 1..(size - 1)
          BY <1>m, <3>1, <3>4
        <4>2. RowOf(k)' = RowOf(k + 1) /\ RowOf(k + 1) \in 0..(MaxSize - 1) /\ RowOf(k + 1) # next
          BY <1>m, <1>t, <1>1, <3>1, <4>1 DEF RowOf, AfterRow
        <4>3. recent[k + 1] = rows[RowOf(k + 1)]
          BY <4>1 DEF RowsAreRecent
        <4>4. recent'[k] = Tail(recent)[k] /\ Tail(recent)[k] = recent[k + 1]
          BY <1>m, <1>t, <3>1, <3>2, <4>1
        <4>5. rows'[RowOf(k + 1)] = rows[RowOf(k + 1)]
          BY <1>t, <1>2, <4>2
        <4> QED  BY <4>2, <4>3, <4>4, <4>5
      <3> QED  BY <3>3, <3>4
    <2> QED  BY <2>1, <2>2
  <1> QED  BY <1>3, <1>4, <1>5, <1>6 DEF RowsAreRecent

\* Every step with its effect on the history.
LEMMA RecordInvNext == RecordInv /\ [RecordPush \/ RecordOther]_recordVars => RecordInv'
  <1> SUFFICES ASSUME RecordInv, [RecordPush \/ RecordOther]_recordVars PROVE RecordInv'
    OBVIOUS
  <1>t. RingInv /\ HistoryTypeOK /\ FilledFromTop /\ RowsAreRecent
    BY DEF RecordInv
  <1>1. [Next]_vars
    BY DEF RecordPush, RecordOther, Next, recordVars
  <1>2. RingInv'
    BY <1>t, <1>1, RingInvNext
  <1>3. CASE RecordPush /\ PushEnds
    <2>1. producer.item \in Values \cup {None}
      BY <1>t DEF RingInv, TypeOK
    <2>2. /\ AddState(producer.item)
          /\ recent' = IF Len(recent) < MaxSize THEN Append(recent, producer.item)
                       ELSE Append(Tail(recent), producer.item)
      BY <1>3 DEF RecordPush
    <2>3. HistoryTypeOK' /\ FilledFromTop' /\ RowsAreRecent'
      BY <1>t, <2>1, <2>2, AddStateKeeps
    <2> QED  BY <1>2, <2>3 DEF RecordInv
  <1>4. CASE UNCHANGED historyVars
    <2>1. HistoryTypeOK' /\ FilledFromTop' /\ RowsAreRecent'
      BY <1>t, <1>4 DEF historyVars, HistoryTypeOK, FilledFromTop, RowsAreRecent, RowOf
    <2> QED  BY <1>2, <2>1 DEF RecordInv
  <1> QED
    BY <1>3, <1>4 DEF RecordPush, RecordOther, recordVars

\* The rows in use, read as the reader of getComponentHistory reads them.
LEMMA RecordInvRecent == RecordInv => HistoryIsRecent
  <1> SUFFICES ASSUME RecordInv PROVE HistoryIsRecent
    OBVIOUS
  <1> DEFINE oldest == IF size < MaxSize THEN 0 ELSE next
  <1>m. MaxSize \in Nat \ {0}
    BY RecordingAssumption
  <1>t. /\ next \in 0..(MaxSize - 1) /\ size \in 0..MaxSize /\ Len(recent) = size
        /\ \A k \in 1..size : recent[k] = rows[RowOf(k)]
    BY DEF RecordInv, HistoryTypeOK, RowsAreRecent
  <1>1. ASSUME NEW k \in 1..size
        PROVE  recent[k] = ComponentHistory[((oldest + k - 1) % MaxSize) + 1]
    <2>0. oldest \in 0..(MaxSize - 1) /\ k \in 1..MaxSize
      BY <1>m, <1>t
    <2>1. PICK x \in Nat : x = oldest + k - 1 /\ x < MaxSize + MaxSize
      <3> HIDE DEF oldest
      <3> QED  BY <1>m, <2>0
    <2>2. x % MaxSize = RowOf(k)
      <3>1. x % MaxSize = IF x < MaxSize THEN x ELSE x - MaxSize
        BY <2>1, RemainderOnce
      <3>2. RowOf(k) = IF x < MaxSize THEN x ELSE x - MaxSize
        BY <1>m, <1>t, <2>0, <2>1 DEF RowOf
      <3> QED  BY <3>1, <3>2
    <2> DEFINE i == RowOf(k) + 1
    <2>3. i \in 1..size /\ i - 1 = RowOf(k)
      BY <1>m, <1>t DEF RowOf
    <2>h. i = RowOf(k) + 1
      OBVIOUS
    <2> HIDE DEF i
    <2>4. ComponentHistory[i] = rows[i - 1]
      BY <2>3 DEF ComponentHistory
    <2>5. ComponentHistory[i] = rows[RowOf(k)]
      BY <2>3, <2>4
    <2>6. (oldest + k - 1) % MaxSize = RowOf(k)
      BY <2>1, <2>2, Zenon
    <2>7. ComponentHistory[((oldest + k - 1) % MaxSize) + 1] = ComponentHistory[i]
      BY <2>h, <2>6, Zenon
    <2> QED  BY <1>t, <2>5, <2>7
  <1> QED  BY <1>t, <1>1 DEF HistoryIsRecent

\* For every capacity of the queue and every size of the history: after any
\* number of wrap-arounds, and whatever the queue refused, the history holds
\* exactly the newest estimates, each once and in order.
THEOREM HistoryCorrect == RecordSpec => []HistoryIsRecent
  <1>1. RecordSpec => []RecordInv
    BY RecordInvInit, RecordInvNext, PTL DEF RecordSpec
  <1> QED  BY <1>1, RecordInvRecent, PTL

\* The recorder is a user of the ring like any other: what is proved of the
\* ring holds while it records.
LEMMA RecordingUsesRing == RecordSpec => Spec
  <1>1. RecordInit => Init
    BY DEF RecordInit
  <1>2. [RecordPush \/ RecordOther]_recordVars => [Next]_vars
    BY DEF RecordPush, RecordOther, Next, recordVars
  <1> QED  BY <1>1, <1>2, PTL DEF RecordSpec, Spec

\* While the flight software records into a ring of any capacity, the indices
\* and the copies the two threads have of them keep their order around the ring,
\* and the threads never meet on a slot.
THEOREM RecordingKeepsOrder == RecordSpec => [](RingOrder /\ NoSlotConflict)
  <1>1. TypeOK /\ RingOrder /\ NoSlotConflict => RingOrder /\ NoSlotConflict
    OBVIOUS
  <1> QED  BY <1>1, RecordingUsesRing, RingSafe, PTL

\* And the consumer gets the estimates through a first-in first-out channel.
THEOREM RecordingThroughFifo == RecordSpec => ImplementsFifo
  BY RecordingUsesRing, RingImplementsFifo, PTL
===============================================================================
