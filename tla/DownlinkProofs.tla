---------------------------- MODULE DownlinkProofs ----------------------------
(***************************************************************************)
(* Telemetry from the data store to the ground, proved for all periods,    *)
(* counter and field widths, numbers of publications and losses.           *)
(***************************************************************************)
EXTENDS Downlink, FiniteSetTheorems, FunctionTheorems, TLAPS

\* A remainder is less than the divisor.
LEMMA RemainderType ==
    ASSUME NEW x \in Nat, NEW n \in Nat \ {0}
    PROVE  x % n \in 0..(n - 1)
  OBVIOUS

(***************************************************************************)
(* Encoding and decoding.                                                  *)
(***************************************************************************)

\* readDouble takes back what appendDouble wrote.
LEMMA DoubleRoundTrip ==
    ASSUME NEW n \in Nat
    PROVE  AppendDouble(n) \in Seq(Nat) /\ ReadDouble(AppendDouble(n)) = n
  <1>1. AppendDouble(n) = <<0, n>>
    <2> DEFINE s == <<n, 0>>
    <2>1. Len(s) = 2 /\ s[1] = n /\ s[2] = 0
      OBVIOUS
    <2>2. Reverse(s) = [i \in 1..2 |-> s[(2 - i) + 1]]
      BY <2>1 DEF Reverse
    <2>3. [i \in 1..2 |-> s[(2 - i) + 1]] = <<0, n>>
      BY <2>1
    <2> QED  BY <2>2, <2>3 DEF AppendDouble
  <1>2. ReadDouble(<<0, n>>) = n
    <2> DEFINE s == <<0, n>>
    <2>1. Len(s) = 2 /\ s[1] = 0 /\ s[2] = n
      OBVIOUS
    <2>2. Reverse(s) = [i \in 1..2 |-> s[(2 - i) + 1]]
      BY <2>1 DEF Reverse
    <2>3. [i \in 1..2 |-> s[(2 - i) + 1]][1] = n
      BY <2>1
    <2> QED  BY <2>2, <2>3 DEF ReadDouble
  <1> QED  BY <1>1, <1>2

\* The ground reads from a packet the values that went into it.
LEMMA EncodeContent ==
    ASSUME NEW p \in Kinds, NEW v \in Value, ~IsPair(p) => v[2] = 0, count[p] \in Nat
    PROVE  /\ Encode(p, v) \in Packet
           /\ Content(Encode(p, v)) = v
           /\ Encode(p, v).apid = p
           /\ Encode(p, v).seq = count[p] % FieldSize
           /\ Encode(p, v).size = PacketSize(p)
  <1>v. v[1] \in Nat /\ v[2] \in Nat /\ v = <<v[1], v[2]>>
    BY DEF Value
  <1>1. /\ AppendDouble(v[1]) \in Seq(Nat) /\ ReadDouble(AppendDouble(v[1])) = v[1]
        /\ AppendDouble(v[2]) \in Seq(Nat) /\ ReadDouble(AppendDouble(v[2])) = v[2]
    BY <1>v, DoubleRoundTrip
  <1>2. Payload(p, v) \in Seq(Seq(Nat)) /\ Decoded(p, Payload(p, v)) = v
    <2>1. CASE IsPair(p)
      <3> DEFINE a == AppendDouble(v[1])
                 b == AppendDouble(v[2])
      <3>1. Payload(p, v) = <<a, b>>
        BY <2>1 DEF Payload
      <3>2. Decoded(p, <<a, b>>) = <<ReadDouble(a), ReadDouble(b)>>
        BY <2>1 DEF Decoded
      <3>3. <<a, b>> \in Seq(Seq(Nat))
        <4> HIDE DEF a, b
        <4>1. a \in Seq(Nat) /\ b \in Seq(Nat)
          BY <1>1 DEF a, b
        <4> QED  BY <4>1
      <3> QED  BY <1>v, <1>1, <3>1, <3>2, <3>3
    <2>2. CASE ~IsPair(p)
      <3>1. Payload(p, v) = << <<v[1]>> >>
        BY <2>2 DEF Payload
      <3>2. Decoded(p, << <<v[1]>> >>) = <<v[1], 0>>
        BY <2>2 DEF Decoded
      <3>3. << <<v[1]>> >> \in Seq(Seq(Nat))
        BY <1>v
      <3> QED  BY <1>v, <2>2, <3>1, <3>2, <3>3
    <2> QED  BY <2>1, <2>2
  <1>3. count[p] % FieldSize \in 0..(FieldSize - 1)
    BY DownlinkAssumption
  <1>4. PacketSize(p) \in Nat
    <2>1. p \in {"ATTITUDE", "ORBIT", "HEALTH"}
      BY DownlinkAssumption DEF Kinds, Range
    <2> QED  BY <2>1 DEF PacketSize
  <1>5. Encode(p, v) = [apid |-> p, seq |-> count[p] % FieldSize, payload |-> Payload(p, v), size |-> PacketSize(p)]
    BY DEF Encode, PreparePacket
  <1> QED
    BY <1>2, <1>3, <1>4, <1>5 DEF Packet, Content
(***************************************************************************)
(* What the steps do, for the proofs below.                                *)
(***************************************************************************)

\* Neither store, packets nor ground; no first value is kept.
QuietStep ==
    /\ UNCHANGED <<made, store, count, packets, link, ground, heard, missed>>
    /\ q' = 0

\* The first value of a pair is read.
ReadFirst(p) ==
    /\ UNCHANGED <<made, store, count, packets, link, ground, heard, missed>>
    /\ q = 0 /\ q' = store[p][1] /\ q' # 0
    /\ todo # <<>> /\ todo' = todo /\ p = Head(todo) /\ IsPair(p)

\* A packet of product p with the values v is made.
MakePacket(p, v) ==
    /\ UNCHANGED <<made, store, link, ground, heard, missed>>
    /\ packets' = Append(packets, Encode(p, v))
    /\ count' = [count EXCEPT ![p] = (@ + 1) % CounterSize]
    /\ q' = 0
    /\ todo # <<>> /\ p = Head(todo)
    /\ \/ ~IsPair(p) /\ v = <<store[p][1], 0>> /\ v[1] # 0
       \/ IsPair(p) /\ q # 0 /\ v = <<q, store[p][2]>> /\ v[2] # 0

(***************************************************************************)
(* Types.  A first value is kept only in a branch that is being taken, and *)
(* what is in a packet can be decoded.                                     *)
(***************************************************************************)
InBranch == q # 0 => Due(Head(todo))

Decodable(ps) == \A i \in DOMAIN ps : Content(ps[i]) \in Value

TypeInv == DownlinkTypeOK /\ InBranch /\ Decodable(packets) /\ Decodable(link)

\* The constructors establish it.
LEMMA TypeInvInit == DownlinkInit => TypeInv
  <1> SUFFICES ASSUME DownlinkInit PROVE TypeInv
    OBVIOUS
  <1>1. FieldSize \in Nat \ {0} /\ CounterSize \in Nat \ {0}
    BY DownlinkAssumption
  <1>2. <<0, 0>> \in Value
    BY DEF Value
  <1>3. DownlinkTypeOK
    BY <1>1, <1>2 DEF DownlinkInit, DownlinkTypeOK, FreshGround
  <1>4. DOMAIN packets = {} /\ DOMAIN link = {} /\ q = 0
    BY DEF DownlinkInit
  <1> QED  BY <1>3, <1>4 DEF TypeInv, InBranch, Decodable

\* A product of a running update is a kind.
LEMMA HeadIsKind ==
    ASSUME DownlinkTypeOK, todo # <<>>
    PROVE  Head(todo) \in Kinds /\ Tail(todo) \in Seq(Kinds)
  BY DEF DownlinkTypeOK

\* The steps of an update.
LEMMA UpdateCases ==
    ASSUME TypeInv, UpdateStep
    PROVE  /\ DownlinkTypeOK' /\ InBranch'
           /\ \/ QuietStep
              \/ \E p \in Kinds : ReadFirst(p)
              \/ \E p \in Kinds, v \in Value : MakePacket(p, v)
  <1>t. DownlinkTypeOK /\ InBranch
    BY DEF TypeInv
  <1>n. FieldSize \in Nat \ {0} /\ CounterSize \in Nat \ {0} /\ Steps \subseteq Nat
    BY DownlinkAssumption
  <1>1. ASSUME NEW dt \in Steps, BeginUpdate(dt)
        PROVE  DownlinkTypeOK' /\ InBranch' /\ QuietStep
    <2>1. q = 0
      BY <1>t, <1>1 DEF BeginUpdate, Updating, DownlinkTypeOK
    <2>2. Products \in Seq(Kinds)
      <3>1. Products \in Seq({"ATTITUDE", "ORBIT", "HEALTH"})
        BY DownlinkAssumption
      <3>2. \A i \in 1..Len(Products) : Products[i] \in Kinds
        BY <3>1 DEF Kinds, Range
      <3> QED  BY <3>1, <3>2
    <2>3. timer' \in [Kinds -> Nat]
      <3>1. timer \in [Kinds -> Nat] /\ dt \in Nat /\ timer' = [p \in Kinds |-> timer[p] + dt]
        BY <1>t, <1>n, <1>1 DEF BeginUpdate, DownlinkTypeOK
      <3> QED  BY <3>1
    <2>4. q' = 0 /\ todo' = Products
          /\ UNCHANGED <<made, store, count, packets, link, ground, heard, missed>>
      BY <1>1, <2>1 DEF BeginUpdate, storeVars, groundVars
    <2>5. DownlinkTypeOK'
      BY <1>t, <2>2, <2>3, <2>4 DEF DownlinkTypeOK
    <2> QED  BY <2>4, <2>5 DEF QuietStep, InBranch
  <1>2. CASE NotDue
    <2>1. q = 0 /\ todo # <<>>
      BY <1>t, <1>2 DEF NotDue, InBranch, Updating
    <2>2. q' = 0 /\ todo' = Tail(todo)
          /\ UNCHANGED <<made, store, timer, count, packets, link, ground, heard, missed>>
      BY <1>2, <2>1 DEF NotDue, storeVars, groundVars
    <2>3. DownlinkTypeOK'
      BY <1>t, <2>1, <2>2, HeadIsKind DEF DownlinkTypeOK
    <2> QED  BY <2>2, <2>3 DEF QuietStep, InBranch
  <1>3. ASSUME todo # <<>>, Skip, UNCHANGED <<storeVars, groundVars>>
        PROVE  DownlinkTypeOK' /\ InBranch' /\ QuietStep
    <2>1. q' = 0 /\ todo' = Tail(todo) /\ timer' = [timer EXCEPT ![Head(todo)] = 0]
          /\ UNCHANGED <<made, store, count, packets, link, ground, heard, missed>>
      BY <1>3 DEF Skip, EndBranch, storeVars, groundVars
    <2>2. timer' \in [Kinds -> Nat]
      BY <1>t, <1>3, <2>1, HeadIsKind DEF DownlinkTypeOK
    <2>3. DownlinkTypeOK'
      BY <1>t, <1>3, <2>1, <2>2, HeadIsKind DEF DownlinkTypeOK
    <2> QED  BY <2>1, <2>3 DEF QuietStep, InBranch
  <1>4. ASSUME todo # <<>>, NEW v \in Value, Generate(v), UNCHANGED <<storeVars, groundVars>>,
               \/ ~IsPair(Head(todo)) /\ v = <<store[Head(todo)][1], 0>> /\ v[1] # 0
               \/ IsPair(Head(todo)) /\ q # 0 /\ v = <<q, store[Head(todo)][2]>> /\ v[2] # 0
        PROVE  DownlinkTypeOK' /\ InBranch' /\ \E p \in Kinds, w \in Value : MakePacket(p, w)
    <2> DEFINE p == Head(todo)
    <2>0. p \in Kinds /\ Tail(todo) \in Seq(Kinds)
      BY <1>t, <1>4, HeadIsKind
    <2>1. /\ q' = 0 /\ todo' = Tail(todo) /\ timer' = [timer EXCEPT ![p] = 0]
          /\ packets' = Append(packets, Encode(p, v))
          /\ count' = [count EXCEPT ![p] = (@ + 1) % CounterSize]
          /\ UNCHANGED <<made, store, link, ground, heard, missed>>
      BY <1>4 DEF Generate, EndBranch, storeVars, groundVars
    <2>2. timer' \in [Kinds -> Nat]
      BY <1>t, <2>0, <2>1 DEF DownlinkTypeOK
    <2>3. count[p] \in Nat /\ (count[p] + 1) % CounterSize \in 0..(CounterSize - 1)
      <3>1. count[p] \in 0..(CounterSize - 1)
        BY <1>t, <2>0 DEF DownlinkTypeOK
      <3> DEFINE x == count[p] + 1
      <3>2. count[p] \in Nat /\ x \in Nat /\ CounterSize \in Nat \ {0}
        BY <1>n, <3>1
      <3> HIDE DEF x
      <3>3. x % CounterSize \in 0..(CounterSize - 1)
        BY <3>2, RemainderType
      <3> QED  BY <3>2, <3>3 DEF x
    <2>4. count' \in [Kinds -> 0..(CounterSize - 1)]
      BY <1>t, <2>0, <2>1, <2>3 DEF DownlinkTypeOK
    <2>5. ~IsPair(p) => v[2] = 0
      BY <1>4
    <2>6. Encode(p, v) \in Packet
      BY <2>0, <2>3, <2>5, EncodeContent
    <2>7. packets' \in Seq(Packet)
      BY <1>t, <2>1, <2>6 DEF DownlinkTypeOK
    <2>8. DownlinkTypeOK'
      BY <1>t, <2>0, <2>1, <2>2, <2>4, <2>7 DEF DownlinkTypeOK
    <2>9. MakePacket(p, v)
      BY <1>4, <2>1 DEF MakePacket
    <2> QED  BY <2>0, <2>1, <2>8, <2>9 DEF InBranch
  <1>5. CASE FirstGet
    <2> DEFINE p == Head(todo)
               v == store[p][1]
    <2>1. todo # <<>> /\ q = 0 /\ Due(p) /\ UNCHANGED <<storeVars, groundVars>>
      BY <1>5 DEF FirstGet, Updating
    <2>2. p \in Kinds
      BY <1>t, <2>1, HeadIsKind
    <2>3. v \in Nat
      BY <1>t, <2>2 DEF DownlinkTypeOK, Value
    <2>4. \/ v = 0 /\ Skip
          \/ v # 0 /\ ~IsPair(p) /\ Generate(<<v, 0>>)
          \/ v # 0 /\ IsPair(p) /\ q' = v /\ UNCHANGED <<timer, todo, count, packets>>
      BY <1>5 DEF FirstGet, Get
    <2>5. CASE v = 0 /\ Skip
      BY <1>3, <2>1, <2>5
    <2>6. CASE v # 0 /\ ~IsPair(p) /\ Generate(<<v, 0>>)
      <3>1. <<v, 0>> \in Value
        BY <2>3 DEF Value
      <3> QED  BY <1>4, <2>1, <2>6, <3>1
    <2>7. CASE v # 0 /\ IsPair(p) /\ q' = v /\ UNCHANGED <<timer, todo, count, packets>>
      <3>1. UNCHANGED <<made, store, timer, todo, count, packets, link, ground, heard, missed>>
        BY <2>1, <2>7 DEF storeVars, groundVars
      <3>2. ReadFirst(p)
        BY <2>1, <2>7, <3>1 DEF ReadFirst
      <3>3. DownlinkTypeOK'
        BY <1>t, <2>1, <2>3, <2>7, <3>1 DEF DownlinkTypeOK
      <3>4. InBranch'
        BY <2>1, <3>1 DEF InBranch, Due
      <3> QED  BY <2>2, <3>2, <3>3, <3>4
    <2> QED  BY <2>4, <2>5, <2>6, <2>7
  <1>6. CASE SecondGet
    <2> DEFINE p == Head(todo)
               w == store[p][2]
    <2>1. q # 0 /\ todo # <<>> /\ IsPair(p) /\ UNCHANGED <<storeVars, groundVars>>
      BY <1>t, <1>6 DEF SecondGet, DownlinkTypeOK
    <2>2. p \in Kinds
      BY <1>t, <2>1, HeadIsKind
    <2>3. <<q, w>> \in Value
      BY <1>t, <2>2 DEF DownlinkTypeOK, Value
    <2>4. (w = 0 /\ Skip) \/ (w # 0 /\ Generate(<<q, w>>))
      BY <1>6 DEF SecondGet, Get
    <2> QED  BY <1>3, <1>4, <2>1, <2>3, <2>4
  <1> QED  BY <1>1, <1>2, <1>5, <1>6 DEF UpdateStep

\* One packet more, or one less, leaves the others decodable.
LEMMA TypeInvNext == TypeInv /\ [DownlinkNext]_downlinkVars => TypeInv'
  <1> SUFFICES ASSUME TypeInv, [DownlinkNext]_downlinkVars PROVE TypeInv'
    OBVIOUS
  <1>t. DownlinkTypeOK /\ InBranch /\ Decodable(packets) /\ Decodable(link)
    BY DEF TypeInv
  <1>n. FieldSize \in Nat \ {0}
    BY DownlinkAssumption
  <1>1. ASSUME NEW p \in Kinds, Publish(p) PROVE TypeInv'
    <2> DEFINE n == made[p] + 1
               v == IF IsPair(p) /\ n % 2 = 0 THEN <<store[p][1], n>> ELSE <<n, store[p][2]>>
    <2>0. made \in [Kinds -> Nat] /\ store \in [Kinds -> Value]
      BY <1>t DEF DownlinkTypeOK
    <2>v. n \in Nat /\ v \in Value
      <3>1. n \in Nat /\ store[p][1] \in Nat /\ store[p][2] \in Nat
        BY <2>0 DEF Value
      <3> HIDE DEF n
      <3> QED  BY <3>1 DEF Value
    <2>1. made' \in [Kinds -> Nat] /\ store' \in [Kinds -> Value]
      <3>1. made' = [made EXCEPT ![p] = n] /\ store' = [store EXCEPT ![p] = v]
        BY <1>1, <2>0 DEF Publish
      <3> HIDE DEF n, v
      <3> QED  BY <2>0, <2>v, <3>1
    <2>2. UNCHANGED <<timer, todo, q, count, packets, link, ground, heard, missed>>
      BY <1>1 DEF Publish, managerVars, groundVars
    <2> QED  BY <1>t, <2>1, <2>2 DEF TypeInv, DownlinkTypeOK, InBranch, Due, Decodable
  <1>2. CASE ResetStore
    <2>1. store' \in [Kinds -> Value]
      BY <1>2 DEF ResetStore, Value
    <2>2. UNCHANGED <<made, timer, todo, q, count, packets, link, ground, heard, missed>>
      BY <1>2 DEF ResetStore, managerVars, groundVars
    <2> QED  BY <1>t, <2>1, <2>2 DEF TypeInv, DownlinkTypeOK, InBranch, Due, Decodable
  <1>3. CASE UpdateStep
    <2>1. DownlinkTypeOK' /\ InBranch'
      BY <1>3, UpdateCases
    <2>2. CASE UNCHANGED <<packets, link>>
      BY <1>t, <2>1, <2>2 DEF TypeInv, Decodable
    <2>3. ASSUME NEW p \in Kinds, NEW v \in Value, MakePacket(p, v) PROVE TypeInv'
      <3>1. link' = link /\ packets' = Append(packets, Encode(p, v)) /\ packets \in Seq(Packet)
        BY <1>t, <2>3 DEF MakePacket, DownlinkTypeOK
      <3>2. Content(Encode(p, v)) = v
        <4>1. count[p] \in Nat
          BY <1>t, DownlinkAssumption DEF DownlinkTypeOK
        <4>2. ~IsPair(p) => v[2] = 0
          BY <2>3 DEF MakePacket
        <4> QED  BY <4>1, <4>2, EncodeContent
      <3>3. Decodable(packets')
        BY <1>t, <3>1, <3>2 DEF Decodable
      <3> QED  BY <1>t, <2>1, <3>1, <3>3 DEF TypeInv, Decodable
    <2> QED  BY <1>3, <2>2, <2>3, UpdateCases DEF QuietStep, ReadFirst
  <1>4. CASE FlushPackets
    <2>1. /\ link' = packets /\ packets' = <<>>
          /\ UNCHANGED <<made, store, timer, todo, q, count, ground, heard, missed>>
      BY <1>4 DEF FlushPackets, storeVars
    <2>2. Decodable(packets') /\ Decodable(link')
      BY <1>t, <2>1 DEF Decodable
    <2> QED  BY <1>t, <2>1, <2>2 DEF TypeInv, DownlinkTypeOK, InBranch, Due, Decodable
  <1>5. ASSUME NEW cut \in Cuts, ProcessTelemetry(cut) PROVE TypeInv'
    <2> DEFINE packet == Received(cut)
               p == packet.apid
    <2>1. link # <<>> /\ link \in Seq(Packet) /\ link' = Tail(link)
      BY <1>t, <1>5 DEF ProcessTelemetry, DownlinkTypeOK
    <2>2. Head(link) \in Packet /\ Head(link) = link[1] /\ 1 \in DOMAIN link
      BY <2>1
    <2>3. /\ p = Head(link).apid /\ packet.seq = Head(link).seq
          /\ packet.payload = Head(link).payload
      BY <2>2 DEF Received, Packet
    <2>4. p \in Kinds /\ packet.seq \in 0..(FieldSize - 1) /\ Decoded(p, packet.payload) \in Value
      BY <1>t, <2>2, <2>3 DEF Packet, Decodable, Content
    <2> HIDE DEF packet
    <2>5. /\ UNCHANGED <<made, store, timer, todo, q, count, packets>>
          /\ \/ /\ ground' = [ground EXCEPT ![p] = Decoded(p, packet.payload)]
                /\ heard' = [heard EXCEPT ![p] = packet.seq]
                /\ missed' = [missed EXCEPT ![p] = 0]
             \/ /\ missed' = [missed EXCEPT ![p] = (@ + 1) % FieldSize]
                /\ UNCHANGED <<ground, heard>>
      BY <1>5 DEF ProcessTelemetry, packet, storeVars, managerVars
    <2>6. (missed[p] + 1) % FieldSize \in 0..(FieldSize - 1) /\ 0 \in 0..(FieldSize - 1)
      <3>1. missed[p] \in 0..(FieldSize - 1)
        BY <1>t, <2>4 DEF DownlinkTypeOK
      <3> DEFINE x == missed[p] + 1
      <3>2. x \in Nat
        BY <1>n, <3>1
      <3>3. 0 \in 0..(FieldSize - 1) /\ FieldSize \in Nat \ {0}
        BY <1>n
      <3> HIDE DEF x
      <3>4. x % FieldSize \in 0..(FieldSize - 1)
        BY <3>2, <3>3, RemainderType
      <3> QED  BY <3>3, <3>4 DEF x
    <2>7. /\ ground' \in [Kinds -> Value]
          /\ heard' \in [Kinds -> 0..(FieldSize - 1)]
          /\ missed' \in [Kinds -> 0..(FieldSize - 1)]
      BY <1>t, <2>4, <2>5, <2>6 DEF DownlinkTypeOK
    <2>8. link' \in Seq(Packet) /\ Decodable(link')
      BY <1>t, <2>1 DEF Decodable
    <2>9. DownlinkTypeOK'
      BY <1>t, <2>5, <2>7, <2>8 DEF DownlinkTypeOK
    <2> QED  BY <1>t, <2>5, <2>8, <2>9 DEF TypeInv, InBranch, Due, Decodable
  <1>6. CASE UNCHANGED downlinkVars
    BY <1>t, <1>6 DEF downlinkVars, storeVars, managerVars, groundVars, TypeInv, DownlinkTypeOK, InBranch, Due, Decodable
  <1> QED  BY <1>1, <1>2, <1>3, <1>4, <1>5, <1>6 DEF DownlinkNext, Contact

\* The types, the widths of counter and field among them.
THEOREM DownlinkTypes == DownlinkSpec => []DownlinkTypeOK
  <1>1. TypeInv => DownlinkTypeOK
    BY DEF TypeInv
  <1> QED  BY <1>1, TypeInvInit, TypeInvNext, PTL DEF DownlinkSpec
(***************************************************************************)
(* The values of a product that left the store: on the ground, on the link *)
(* and on board.                                                           *)
(***************************************************************************)
Contents(ps, p) == {Content(ps[i]) : i \in {k \in DOMAIN ps : ps[k].apid = p}}

Known(p) == {ground[p]} \cup Contents(link, p) \cup Contents(packets, p)

\* Every packet of a sequence of packets has a product.
LEMMA PacketKind ==
    ASSUME NEW ps \in Seq(Packet), NEW i \in DOMAIN ps
    PROVE  ps[i] \in Packet /\ ps[i].apid \in Kinds
  <1>1. ps[i] \in Packet
    OBVIOUS
  <1> QED  BY <1>1 DEF Packet

\* They are pairs of numbers.
LEMMA KnownType == TypeInv => \A p \in Kinds : Known(p) \subseteq Value
  BY DEF TypeInv, DownlinkTypeOK, Decodable, Known, Contents

\* A packet that is appended adds its content.
LEMMA ContentsAppend ==
    ASSUME NEW ps \in Seq(Packet), NEW k \in Packet, NEW p
    PROVE  Contents(Append(ps, k), p) = Contents(ps, p) \cup (IF k.apid = p THEN {Content(k)} ELSE {})
  <1> DEFINE a == Append(ps, k)
             L == Len(ps)
  <1>1. /\ L \in Nat /\ DOMAIN a = 1..(L + 1) /\ DOMAIN ps = 1..L
        /\ a[L + 1] = k /\ \A i \in 1..L : a[i] = ps[i]
    OBVIOUS
  <1>2. 1..(L + 1) = (1..L) \cup {L + 1}
    BY <1>1
  <1> HIDE DEF a, L
  <1>3. Contents(a, p) = Contents(ps, p) \cup (IF k.apid = p THEN {Content(k)} ELSE {})
    BY <1>1, <1>2 DEF Contents
  <1> QED  BY <1>3 DEF a

\* The tail has nothing new, and the first packet is one of those known.
LEMMA ContentsTail ==
    ASSUME NEW ps \in Seq(Packet), ps # <<>>, NEW p
    PROVE  /\ Contents(Tail(ps), p) \subseteq Contents(ps, p)
           /\ Head(ps).apid = p => Content(Head(ps)) \in Contents(ps, p)
  <1> DEFINE t == Tail(ps)
             L == Len(ps)
  <1>1. /\ L \in Nat /\ L >= 1 /\ DOMAIN t = 1..(L - 1) /\ DOMAIN ps = 1..L
        /\ \A i \in 1..(L - 1) : t[i] = ps[i + 1]
        /\ Head(ps) = ps[1]
    OBVIOUS
  <1> HIDE DEF t, L
  <1>2. ASSUME NEW i \in 1..(L - 1), t[i].apid = p PROVE Content(t[i]) \in Contents(ps, p)
    <2>1. i + 1 \in DOMAIN ps /\ t[i] = ps[i + 1]
      BY <1>1
    <2> QED  BY <1>2, <2>1 DEF Contents
  <1>3. Contents(t, p) \subseteq Contents(ps, p)
    BY <1>1, <1>2 DEF Contents
  <1>4. 1 \in DOMAIN ps
    BY <1>1
  <1> QED  BY <1>1, <1>3, <1>4 DEF Contents, t

\* Only a new packet adds to what is known of a product.
LEMMA KnownStep ==
    ASSUME TypeInv, [DownlinkNext]_downlinkVars
    PROVE  \/ \A r \in Kinds : Known(r)' \subseteq Known(r)
           \/ \E p \in Kinds, v \in Value :
                 /\ MakePacket(p, v)
                 /\ \A r \in Kinds : Known(r)' = Known(r) \cup (IF r = p THEN {v} ELSE {})
  <1>t. DownlinkTypeOK
    BY DEF TypeInv
  <1>1. CASE UNCHANGED <<ground, link, packets>>
    BY <1>1 DEF Known
  <1>2. ASSUME NEW p \in Kinds, NEW v \in Value, MakePacket(p, v)
        PROVE  \A r \in Kinds : Known(r)' = Known(r) \cup (IF r = p THEN {v} ELSE {})
    <2>1. count[p] \in Nat
      BY <1>t, DownlinkAssumption DEF DownlinkTypeOK
    <2>2. ~IsPair(p) => v[2] = 0
      BY <1>2 DEF MakePacket
    <2>3. Encode(p, v) \in Packet /\ Content(Encode(p, v)) = v /\ Encode(p, v).apid = p
      BY <2>1, <2>2, EncodeContent
    <2>4. ground' = ground /\ link' = link /\ packets' = Append(packets, Encode(p, v)) /\ packets \in Seq(Packet)
      BY <1>t, <1>2 DEF MakePacket, DownlinkTypeOK
    <2>5. \A r \in Kinds : Contents(packets', r) = Contents(packets, r) \cup (IF r = p THEN {v} ELSE {})
      BY <2>3, <2>4, ContentsAppend
    <2> QED  BY <2>4, <2>5 DEF Known
  <1>3. CASE FlushPackets
    <2>1. ground' = ground /\ link' = packets /\ packets' = <<>>
      BY <1>3 DEF FlushPackets
    <2>2. \A r : Contents(<<>>, r) = {}
      BY DEF Contents
    <2> QED  BY <2>1, <2>2 DEF Known
  <1>4. ASSUME NEW cut \in Cuts, ProcessTelemetry(cut)
        PROVE  \A r \in Kinds : Known(r)' \subseteq Known(r)
    <2>1. link # <<>> /\ link \in Seq(Packet) /\ link' = Tail(link) /\ packets' = packets
      BY <1>t, <1>4 DEF ProcessTelemetry, DownlinkTypeOK, managerVars
    <2>2. ground' = ground \/ ground' = [ground EXCEPT ![Head(link).apid] = Content(Head(link))]
      <3>1. Head(link) \in Packet
        BY <2>1
      <3>2. Received(cut).apid = Head(link).apid /\ Received(cut).payload = Head(link).payload
        BY <3>1 DEF Received, Packet
      <3> QED  BY <1>4, <3>2 DEF ProcessTelemetry, Content
    <2>3. ASSUME NEW r \in Kinds PROVE Known(r)' \subseteq Known(r)
      <3>1. /\ Contents(link', r) \subseteq Contents(link, r)
            /\ Head(link).apid = r => Content(Head(link)) \in Contents(link, r)
        BY <2>1, ContentsTail
      <3>2. ground'[r] = ground[r] \/ (Head(link).apid = r /\ ground'[r] = Content(Head(link)))
        BY <1>t, <2>2 DEF DownlinkTypeOK
      <3> QED  BY <2>1, <3>1, <3>2 DEF Known
    <2> QED  BY <2>3
  <1>5. ASSUME UpdateStep
        PROVE  \/ UNCHANGED <<ground, link, packets>>
               \/ \E p \in Kinds, v \in Value : MakePacket(p, v)
    BY <1>5, UpdateCases DEF QuietStep, ReadFirst
  <1>6. (\E p \in Kinds : Publish(p)) \/ ResetStore \/ UNCHANGED downlinkVars => UNCHANGED <<ground, link, packets>>
    BY DEF Publish, ResetStore, downlinkVars, managerVars, groundVars
  <1> QED  BY <1>1, <1>2, <1>3, <1>4, <1>5, <1>6 DEF DownlinkNext, Contact

(***************************************************************************)
(* The inductive invariant.  In the store, the second value of a pair is   *)
(* that of the last publication with an even number or none; nothing that  *)
(* left the store is newer than what is in it.                             *)
(***************************************************************************)
StoreInv ==
    \A p \in Kinds :
        /\ store[p][1] <= made[p] /\ store[p][2] <= made[p]
        /\ IsPair(p) /\ store[p][2] # 0 => store[p][2] = made[p] - (made[p] % 2)

NotNewer(v, p) ==
    /\ v[1] <= made[p] /\ v[2] <= made[p]
    /\ store[p][1] # 0 => v[1] <= store[p][1]
    /\ store[p][2] # 0 => v[2] <= store[p][2]
    /\ ~IsPair(p) => v[2] = 0

KnownInv == \A p \in Kinds : \A v \in Known(p) : NotNewer(v, p) /\ ~Lags(v)

FirstInv ==
    q # 0 =>
        /\ q <= made[Head(todo)]
        /\ store[Head(todo)][1] # 0 => q <= store[Head(todo)][1]
        /\ \A v \in Known(Head(todo)) : v[1] <= q

ValueInv == TypeInv /\ StoreInv /\ KnownInv /\ FirstInv

\* Nothing published, nothing known.
LEMMA ValueInvInit == DownlinkInit => ValueInv
  <1> SUFFICES ASSUME DownlinkInit PROVE ValueInv
    OBVIOUS
  <1>1. TypeInv
    BY TypeInvInit
  <1>2. /\ store = [p \in Kinds |-> <<0, 0>>] /\ made = [p \in Kinds |-> 0] /\ q = 0
        /\ ground = [p \in Kinds |-> <<0, 0>>] /\ link = <<>> /\ packets = <<>>
    BY DEF DownlinkInit, FreshGround
  <1>3. \A p \in Kinds : Known(p) = {<<0, 0>>}
    BY <1>2 DEF Known, Contents
  <1>4. StoreInv /\ FirstInv
    BY <1>2 DEF StoreInv, FirstInv
  <1>5. KnownInv
    BY <1>2, <1>3 DEF KnownInv, NotNewer, Lags
  <1> QED  BY <1>1, <1>4, <1>5 DEF ValueInv

\* A publication is newer than everything before it.
LEMMA PublishValues ==
    ASSUME ValueInv, NEW p \in Kinds, Publish(p), \A r \in Kinds : Known(r)' = Known(r)
    PROVE  StoreInv' /\ KnownInv' /\ FirstInv'
  <1>t. DownlinkTypeOK /\ TypeInv /\ StoreInv /\ KnownInv /\ FirstInv
    BY DEF ValueInv, TypeInv
  <1>m. made \in [Kinds -> Nat] /\ store \in [Kinds -> Value] /\ UNCHANGED <<q, todo>>
    BY <1>t DEF DownlinkTypeOK, Publish, managerVars
  <1>1. \A r \in Kinds : made[r] \in Nat /\ store[r][1] \in Nat /\ store[r][2] \in Nat
    BY <1>m DEF Value
  <1>2. \A r \in Kinds \ {p} : made'[r] = made[r] /\ store'[r] = store[r]
    BY <1>m DEF Publish
  <1>3. /\ made'[p] = made[p] + 1
        /\ \/ /\ IsPair(p) /\ (made[p] + 1) % 2 = 0
              /\ store'[p] = <<store[p][1], made[p] + 1>>
           \/ /\ ~(IsPair(p) /\ (made[p] + 1) % 2 = 0)
              /\ store'[p] = <<made[p] + 1, store[p][2]>>
    BY <1>m DEF Publish
  <1>4. StoreInv'
    <2>1. ASSUME NEW r \in Kinds
          PROVE  /\ store'[r][1] <= made'[r] /\ store'[r][2] <= made'[r]
                 /\ IsPair(r) /\ store'[r][2] # 0 => store'[r][2] = made'[r] - (made'[r] % 2)
      <3>1. CASE r # p
        BY <1>t, <1>2, <3>1 DEF StoreInv
      <3>2. CASE r = p
        <4>1. /\ store[p][1] <= made[p] /\ store[p][2] <= made[p]
              /\ IsPair(p) /\ store[p][2] # 0 => store[p][2] = made[p] - (made[p] % 2)
          BY <1>t DEF StoreInv
        <4>2. made[p] \in Nat /\ store[p][1] \in Nat /\ store[p][2] \in Nat
          BY <1>1
        <4> QED  BY <1>3, <3>2, <4>1, <4>2
      <3> QED  BY <3>1, <3>2
    <2> QED  BY <2>1 DEF StoreInv
  <1>5. KnownInv'
    <2>1. ASSUME NEW r \in Kinds, NEW v \in Known(r) PROVE NotNewer(v, r)' /\ ~Lags(v)
      <3>1. NotNewer(v, r) /\ ~Lags(v) /\ v[1] \in Nat /\ v[2] \in Nat
        BY <1>t, KnownType DEF KnownInv, Value
      <3>2. CASE r # p
        BY <1>2, <3>1, <3>2 DEF NotNewer
      <3>3. CASE r = p
        <4>1. made[p] \in Nat
          BY <1>1
        <4> QED  BY <1>3, <3>1, <3>3, <4>1 DEF NotNewer
      <3> QED  BY <3>2, <3>3
    <2> QED  BY <2>1 DEF KnownInv
  <1>6. FirstInv'
    <2> SUFFICES ASSUME q # 0
                 PROVE  /\ q <= made'[Head(todo)]
                        /\ store'[Head(todo)][1] # 0 => q <= store'[Head(todo)][1]
                        /\ \A v \in Known(Head(todo))' : v[1] <= q
      BY <1>m DEF FirstInv
    <2> DEFINE h == Head(todo)
    <2>1. h \in Kinds /\ q \in Nat
      BY <1>t, HeadIsKind DEF DownlinkTypeOK
    <2>2. q <= made[h] /\ (store[h][1] # 0 => q <= store[h][1]) /\ \A v \in Known(h) : v[1] <= q
      BY <1>t DEF FirstInv
    <2> HIDE DEF h
    <2>3. Known(h)' = Known(h)
      BY <1>m, <2>1 DEF h
    <2>4. q <= made'[h] /\ (store'[h][1] # 0 => q <= store'[h][1])
      <3>1. CASE h # p
        BY <1>2, <2>1, <2>2, <3>1
      <3>2. CASE h = p
        <4>1. made[p] \in Nat
          BY <1>1
        <4> QED  BY <1>3, <2>1, <2>2, <3>2, <4>1
      <3> QED  BY <3>1, <3>2
    <2> QED  BY <1>m, <2>2, <2>3, <2>4 DEF h
  <1> QED  BY <1>4, <1>5, <1>6
\* A packet is made of the newest values, the second read after the first.
LEMMA MakePacketValues ==
    ASSUME ValueInv, NEW p \in Kinds, NEW v \in Value, MakePacket(p, v)
    PROVE  /\ NotNewer(v, p) /\ ~Lags(v)
           /\ \A w \in Known(p) : w[1] <= v[1] /\ w[2] <= v[2]
  <1>t. DownlinkTypeOK /\ TypeInv /\ StoreInv /\ KnownInv /\ FirstInv
    BY DEF ValueInv, TypeInv
  <1>1. made[p] \in Nat /\ store[p][1] \in Nat /\ store[p][2] \in Nat /\ q \in Nat
    BY <1>t DEF DownlinkTypeOK, Value
  <1>2. /\ store[p][1] <= made[p] /\ store[p][2] <= made[p]
        /\ IsPair(p) /\ store[p][2] # 0 => store[p][2] = made[p] - (made[p] % 2)
    BY <1>t DEF StoreInv
  <1>3. \A w \in Known(p) : NotNewer(w, p) /\ w[1] \in Nat /\ w[2] \in Nat
    BY <1>t, KnownType DEF KnownInv, Value
  <1>4. CASE ~IsPair(p)
    <2>1. v = <<store[p][1], 0>> /\ v[1] # 0
      BY <1>4 DEF MakePacket
    <2>2. NotNewer(v, p) /\ ~Lags(v)
      BY <1>1, <1>2, <1>4, <2>1 DEF NotNewer, Lags
    <2> QED  BY <1>3, <1>4, <2>1, <2>2 DEF NotNewer
  <1>5. CASE IsPair(p)
    <2>1. v = <<q, store[p][2]>> /\ v[2] # 0 /\ q # 0 /\ p = Head(todo)
      BY <1>5 DEF MakePacket
    <2>2. q <= made[p] /\ (store[p][1] # 0 => q <= store[p][1]) /\ \A w \in Known(p) : w[1] <= q
      BY <1>t, <2>1 DEF FirstInv
    <2>3. NotNewer(v, p)
      BY <1>1, <1>2, <1>5, <2>1, <2>2 DEF NotNewer
    <2>4. ~Lags(v)
      BY <1>1, <1>2, <1>5, <2>1, <2>2 DEF Lags
    <2> QED  BY <1>3, <2>1, <2>2, <2>3, <2>4 DEF NotNewer
  <1> QED  BY <1>4, <1>5

\* Every step preserves it.
LEMMA ValueInvNext == ValueInv /\ [DownlinkNext]_downlinkVars => ValueInv'
  <1> SUFFICES ASSUME ValueInv, [DownlinkNext]_downlinkVars PROVE ValueInv'
    OBVIOUS
  <1>t. DownlinkTypeOK /\ TypeInv /\ StoreInv /\ KnownInv /\ FirstInv
    BY DEF ValueInv, TypeInv
  <1>i. TypeInv'
    BY <1>t, TypeInvNext
  <1>1. ASSUME NEW p \in Kinds, Publish(p) PROVE ValueInv'
    <2>1. \A r \in Kinds : Known(r)' = Known(r)
      BY <1>1 DEF Publish, Known, groundVars, managerVars
    <2> QED  BY <1>1, <1>i, <2>1, PublishValues DEF ValueInv
  <1>2. CASE ResetStore
    <2>1. /\ \A r \in Kinds : Known(r)' = Known(r)
          /\ made' = made /\ q' = q /\ todo' = todo
          /\ store' = [p \in Kinds |-> <<0, 0>>]
      BY <1>2 DEF ResetStore, Known, groundVars, managerVars
    <2>2. \A p \in Kinds : made[p] \in Nat /\ store'[p][1] = 0 /\ store'[p][2] = 0
      BY <1>t, <2>1 DEF DownlinkTypeOK
    <2>3. StoreInv'
      BY <2>1, <2>2 DEF StoreInv
    <2>4. KnownInv'
      BY <1>t, <2>1, <2>2 DEF KnownInv, NotNewer
    <2>5. FirstInv'
      <3>1. q # 0 => Head(todo) \in Kinds
        BY <1>t, HeadIsKind DEF DownlinkTypeOK
      <3> QED  BY <1>t, <2>1, <2>2, <3>1 DEF FirstInv
    <2> QED  BY <1>i, <2>3, <2>4, <2>5 DEF ValueInv
  <1>3. CASE UpdateStep \/ Contact \/ UNCHANGED downlinkVars
    <2>1. made' = made /\ store' = store
      <3>1. UpdateStep => made' = made /\ store' = store
        BY UpdateCases DEF ValueInv, QuietStep, ReadFirst, MakePacket
      <3> QED  BY <1>3, <3>1 DEF Contact, FlushPackets, ProcessTelemetry, storeVars, downlinkVars
    <2>2. StoreInv'
      BY <1>t, <2>1 DEF StoreInv
    <2>3. KnownInv'
      <3>1. CASE \A r \in Kinds : Known(r)' \subseteq Known(r)
        BY <1>t, <2>1, <3>1 DEF KnownInv, NotNewer
      <3>2. ASSUME NEW p \in Kinds, NEW v \in Value, MakePacket(p, v),
                   \A r \in Kinds : Known(r)' = Known(r) \cup (IF r = p THEN {v} ELSE {})
            PROVE  KnownInv'
        <4>1. NotNewer(v, p) /\ ~Lags(v)
          BY <3>2, MakePacketValues
        <4> QED  BY <1>t, <2>1, <3>2, <4>1 DEF KnownInv, NotNewer
      <3> QED  BY <1>t, <3>1, <3>2, KnownStep
    <2>4. FirstInv'
      <3>1. CASE q' = 0
        BY <3>1 DEF FirstInv
      <3>2. ASSUME NEW p \in Kinds, ReadFirst(p) PROVE FirstInv'
        <4>1. /\ q' = store[p][1] /\ q' # 0 /\ todo' = todo /\ p = Head(todo)
              /\ UNCHANGED <<ground, link, packets>>
          BY <3>2 DEF ReadFirst
        <4>2. Known(p)' = Known(p)
          BY <4>1 DEF Known
        <4>3. \A v \in Known(p) : v[1] <= store[p][1]
          BY <1>t, <4>1 DEF KnownInv, NotNewer
        <4>4. store[p][1] <= made[p] /\ store[p][1] \in Nat
          BY <1>t DEF StoreInv, DownlinkTypeOK, Value
        <4> QED  BY <2>1, <4>1, <4>2, <4>3, <4>4 DEF FirstInv
      <3>3. ASSUME UNCHANGED <<q, todo>>, \A r \in Kinds : Known(r)' \subseteq Known(r) PROVE FirstInv'
        <4>1. q # 0 => Head(todo) \in Kinds
          BY <1>t, HeadIsKind DEF DownlinkTypeOK
        <4>2. q # 0 => Known(Head(todo))' \subseteq Known(Head(todo))
          BY <3>3, <4>1
        <4> QED  BY <1>t, <2>1, <3>3, <4>2 DEF FirstInv
      <3>4. CASE UpdateStep
        BY <1>t, <3>1, <3>2, <3>4, UpdateCases DEF QuietStep, MakePacket
      <3>5. CASE Contact \/ UNCHANGED downlinkVars
        <4>1. UNCHANGED <<q, todo>>
          BY <3>5 DEF Contact, FlushPackets, ProcessTelemetry, managerVars, downlinkVars
        <4>2. CASE \A r \in Kinds : Known(r)' \subseteq Known(r)
          BY <3>3, <4>1, <4>2
        <4>3. CASE \E p \in Kinds, v \in Value : MakePacket(p, v)
          BY <3>1, <4>3 DEF MakePacket
        <4> QED  BY <1>t, <4>2, <4>3, KnownStep
      <3> QED  BY <1>3, <3>4, <3>5
    <2> QED  BY <1>i, <2>2, <2>3, <2>4 DEF ValueInv
  <1> QED  BY <1>1, <1>2, <1>3 DEF DownlinkNext

\* For any number of publications, and of Resets of the store, between the two
\* gets of a pair: the second value in a packet, on board, on the link or used
\* by the ground, is never older than the one published just before the first.
THEOREM PairsNeverLag == DownlinkSpec => []PairNeverLags
  <1>1. ValueInv => PairNeverLags
    <2> SUFFICES ASSUME ValueInv PROVE PairNeverLags
      OBVIOUS
    <2>1. DownlinkTypeOK /\ \A p \in Kinds : \A v \in Known(p) : ~Lags(v)
      BY DEF ValueInv, TypeInv, KnownInv
    <2>2. \A i \in DOMAIN packets : packets[i].apid \in Kinds
      BY <2>1, PacketKind DEF DownlinkTypeOK
    <2>3. \A i \in DOMAIN link : link[i].apid \in Kinds
      BY <2>1, PacketKind DEF DownlinkTypeOK
    <2>4. \A i \in DOMAIN packets : Content(packets[i]) \in Known(packets[i].apid)
      BY DEF Known, Contents
    <2>5. \A i \in DOMAIN link : Content(link[i]) \in Known(link[i].apid)
      BY DEF Known, Contents
    <2>6. \A p \in Kinds : ground[p] \in Known(p)
      BY DEF Known
    <2> QED  BY <2>1, <2>2, <2>3, <2>4, <2>5, <2>6 DEF PairNeverLags
  <1> QED  BY <1>1, ValueInvInit, ValueInvNext, PTL DEF DownlinkSpec
(***************************************************************************)
(* Order: on the ground, on the link and on board, the values of a product *)
(* get newer.                                                              *)
(***************************************************************************)
Leq(v, w) == v[1] <= w[1] /\ v[2] <= w[2]

InOrder(ps) ==
    \A i, j \in DOMAIN ps : i < j /\ ps[i].apid = ps[j].apid => Leq(Content(ps[i]), Content(ps[j]))

OrderInv ==
    /\ InOrder(link) /\ InOrder(packets)
    /\ \A p \in Kinds :
          /\ \A v \in Contents(link, p) \cup Contents(packets, p) : Leq(ground[p], v)
          /\ \A v \in Contents(link, p), w \in Contents(packets, p) : Leq(v, w)

\* A packet newer than all is appended in order.
LEMMA InOrderAppend ==
    ASSUME NEW ps \in Seq(Packet), InOrder(ps), NEW k \in Packet,
           \A v \in Contents(ps, k.apid) : Leq(v, Content(k))
    PROVE  InOrder(Append(ps, k))
  <1> DEFINE a == Append(ps, k)
             L == Len(ps)
  <1>1. /\ L \in Nat /\ DOMAIN a = 1..(L + 1) /\ DOMAIN ps = 1..L
        /\ a[L + 1] = k /\ \A i \in 1..L : a[i] = ps[i]
    OBVIOUS
  <1> HIDE DEF a, L
  <1>2. ASSUME NEW i \in DOMAIN a, NEW j \in DOMAIN a, i < j, a[i].apid = a[j].apid
        PROVE  Leq(Content(a[i]), Content(a[j]))
    <2>1. i \in DOMAIN ps /\ a[i] = ps[i]
      BY <1>1, <1>2
    <2>2. CASE j = L + 1
      <3>1. a[j] = k /\ Content(ps[i]) \in Contents(ps, k.apid)
        BY <1>1, <1>2, <2>1, <2>2 DEF Contents
      <3> QED  BY <2>1, <3>1
    <2>3. CASE j # L + 1
      <3>1. j \in DOMAIN ps /\ a[j] = ps[j]
        BY <1>1, <1>2, <2>3
      <3> QED  BY <1>2, <2>1, <3>1 DEF InOrder
    <2> QED  BY <2>2, <2>3
  <1>3. InOrder(a)
    BY <1>2 DEF InOrder
  <1> QED  BY <1>3 DEF a

\* Without its first packet, which is the oldest of its product, a sequence is
\* still in order.
LEMMA InOrderTail ==
    ASSUME NEW ps \in Seq(Packet), InOrder(ps), ps # <<>>
    PROVE  /\ InOrder(Tail(ps))
           /\ \A v \in Contents(Tail(ps), Head(ps).apid) : Leq(Content(Head(ps)), v)
  <1> DEFINE t == Tail(ps)
             L == Len(ps)
  <1>1. /\ L \in Nat /\ L >= 1 /\ DOMAIN t = 1..(L - 1) /\ DOMAIN ps = 1..L
        /\ \A i \in 1..(L - 1) : t[i] = ps[i + 1]
        /\ Head(ps) = ps[1]
    OBVIOUS
  <1> HIDE DEF t, L
  <1>2. ASSUME NEW i \in DOMAIN t, NEW j \in DOMAIN t, i < j, t[i].apid = t[j].apid
        PROVE  Leq(Content(t[i]), Content(t[j]))
    <2>1. i + 1 \in DOMAIN ps /\ j + 1 \in DOMAIN ps /\ i + 1 < j + 1 /\ t[i] = ps[i + 1] /\ t[j] = ps[j + 1]
      BY <1>1, <1>2
    <2> QED  BY <1>2, <2>1 DEF InOrder
  <1>3. ASSUME NEW i \in DOMAIN t, t[i].apid = Head(ps).apid
        PROVE  Leq(Content(Head(ps)), Content(t[i]))
    <2>1. 1 \in DOMAIN ps /\ i + 1 \in DOMAIN ps /\ 1 < i + 1 /\ t[i] = ps[i + 1]
      BY <1>1
    <2> QED  BY <1>1, <1>3, <2>1 DEF InOrder
  <1>4. InOrder(t) /\ \A v \in Contents(t, Head(ps).apid) : Leq(Content(Head(ps)), v)
    BY <1>2, <1>3 DEF InOrder, Contents
  <1> QED  BY <1>4 DEF t

\* Nothing to order at the start.
LEMMA OrderInvInit == DownlinkInit => OrderInv
  <1> SUFFICES ASSUME DownlinkInit PROVE OrderInv
    OBVIOUS
  <1>1. DOMAIN link = {} /\ DOMAIN packets = {}
    BY DEF DownlinkInit
  <1> QED  BY <1>1 DEF OrderInv, InOrder, Contents

\* The effect of a packet on the ground.
LEMMA ProcessEffect ==
    ASSUME TypeInv, NEW cut \in Cuts, ProcessTelemetry(cut)
    PROVE  /\ link # <<>> /\ link \in Seq(Packet) /\ link' = Tail(link) /\ packets' = packets
           /\ Head(link) \in Packet /\ Head(link).apid \in Kinds
           /\ \/ /\ ground' = [ground EXCEPT ![Head(link).apid] = Content(Head(link))]
                 /\ heard' = [heard EXCEPT ![Head(link).apid] = Head(link).seq]
                 /\ missed' = [missed EXCEPT ![Head(link).apid] = 0]
              \/ /\ missed' = [missed EXCEPT ![Head(link).apid] = (@ + 1) % FieldSize]
                 /\ ground' = ground /\ heard' = heard
           /\ count' = count
  <1>1. link # <<>> /\ link \in Seq(Packet) /\ link' = Tail(link) /\ packets' = packets /\ count' = count
    BY DEF ProcessTelemetry, TypeInv, DownlinkTypeOK, managerVars
  <1>2. Head(link) \in Packet
    BY <1>1
  <1>3. Head(link).apid \in Kinds
    BY <1>2 DEF Packet
  <1>4. /\ Received(cut).apid = Head(link).apid
        /\ Received(cut).payload = Head(link).payload
        /\ Received(cut).seq = Head(link).seq
    BY <1>2 DEF Received, Packet
  <1> QED  BY <1>1, <1>2, <1>3, <1>4 DEF ProcessTelemetry, Content

\* Every step keeps the order.
LEMMA OrderInvNext == ValueInv /\ OrderInv /\ [DownlinkNext]_downlinkVars => OrderInv'
  <1> SUFFICES ASSUME ValueInv, OrderInv, [DownlinkNext]_downlinkVars PROVE OrderInv'
    OBVIOUS
  <1>t. DownlinkTypeOK /\ TypeInv
    BY DEF ValueInv, TypeInv
  <1>o. /\ InOrder(link) /\ InOrder(packets)
        /\ \A p \in Kinds :
              /\ \A v \in Contents(link, p) \cup Contents(packets, p) : Leq(ground[p], v)
              /\ \A v \in Contents(link, p), w \in Contents(packets, p) : Leq(v, w)
    BY DEF OrderInv
  <1>s. ground \in [Kinds -> Value] /\ link \in Seq(Packet) /\ packets \in Seq(Packet)
    BY <1>t DEF DownlinkTypeOK
  <1>1. CASE UNCHANGED <<ground, link, packets>>
    BY <1>o, <1>1 DEF OrderInv, InOrder
  <1>2. ASSUME NEW p \in Kinds, NEW v \in Value, MakePacket(p, v) PROVE OrderInv'
    <2>1. \A w \in Known(p) : Leq(w, v)
      BY <1>2, MakePacketValues DEF Leq
    <2>2. count[p] \in Nat
      BY <1>t, DownlinkAssumption DEF DownlinkTypeOK
    <2>3. ~IsPair(p) => v[2] = 0
      BY <1>2 DEF MakePacket
    <2>4. Encode(p, v) \in Packet /\ Content(Encode(p, v)) = v /\ Encode(p, v).apid = p
      BY <2>2, <2>3, EncodeContent
    <2>5. ground' = ground /\ link' = link /\ packets' = Append(packets, Encode(p, v))
      BY <1>2 DEF MakePacket
    <2>6. InOrder(packets')
      BY <1>o, <1>s, <2>1, <2>4, <2>5, InOrderAppend DEF Known
    <2>7. \A r \in Kinds : Contents(packets', r) = Contents(packets, r) \cup (IF r = p THEN {v} ELSE {})
      BY <1>s, <2>4, <2>5, ContentsAppend
    <2>8. ASSUME NEW r \in Kinds
          PROVE  /\ \A w \in Contents(link, r) \cup Contents(packets', r) : Leq(ground[r], w)
                 /\ \A u \in Contents(link, r), w \in Contents(packets', r) : Leq(u, w)
      <3>1. r = p => Leq(ground[r], v) /\ \A u \in Contents(link, r) : Leq(u, v)
        BY <2>1 DEF Known
      <3> QED  BY <1>o, <2>7, <3>1
    <2> QED  BY <1>o, <2>5, <2>6, <2>8 DEF OrderInv
  <1>3. CASE FlushPackets
    <2>1. ground' = ground /\ link' = packets /\ packets' = <<>>
      BY <1>3 DEF FlushPackets
    <2>2. InOrder(<<>>) /\ \A r : Contents(<<>>, r) = {}
      BY DEF InOrder, Contents
    <2> QED  BY <1>o, <2>1, <2>2 DEF OrderInv
  <1>4. ASSUME NEW cut \in Cuts, ProcessTelemetry(cut) PROVE OrderInv'
    <2> DEFINE k == Head(link)
    <2>1. /\ link # <<>> /\ link' = Tail(link) /\ packets' = packets
          /\ k.apid \in Kinds
          /\ ground' = ground \/ ground' = [ground EXCEPT ![k.apid] = Content(k)]
      BY <1>t, <1>4, ProcessEffect
    <2>2. /\ InOrder(link')
          /\ \A v \in Contents(link', k.apid) : Leq(Content(k), v)
      BY <1>o, <1>s, <2>1, InOrderTail
    <2>3. /\ \A r \in Kinds : Contents(link', r) \subseteq Contents(link, r)
          /\ Content(k) \in Contents(link, k.apid)
      BY <1>s, <2>1, ContentsTail
    <2> HIDE DEF k
    <2>4. \A v \in Contents(packets, k.apid) : Leq(Content(k), v)
      BY <1>o, <2>1, <2>3
    <2>5. ASSUME NEW r \in Kinds
          PROVE  \A v \in Contents(link', r) \cup Contents(packets, r) : Leq(ground'[r], v)
      <3>1. ground'[r] = ground[r] \/ (r = k.apid /\ ground'[r] = Content(k))
        BY <1>s, <2>1
      <3> QED  BY <1>o, <2>2, <2>3, <2>4, <3>1
    <2> QED  BY <1>o, <2>1, <2>2, <2>3, <2>5 DEF OrderInv
  <1>5. CASE UpdateStep
    BY <1>t, <1>1, <1>2, <1>5, UpdateCases DEF QuietStep, ReadFirst
  <1>6. (\E p \in Kinds : Publish(p)) \/ ResetStore \/ UNCHANGED downlinkVars => UNCHANGED <<ground, link, packets>>
    BY DEF Publish, ResetStore, downlinkVars, managerVars, groundVars
  <1> QED  BY <1>1, <1>3, <1>4, <1>5, <1>6 DEF DownlinkNext, Contact

\* For any losses, cuts and Resets of the store, and although the ground looks
\* at no sequence count: what it shows of a product is never replaced by
\* something older.
THEOREM GroundMonotone == DownlinkSpec => GroundNeverGoesBack
  <1>1. ValueInv /\ OrderInv /\ [DownlinkNext]_downlinkVars
          => [\A p \in Kinds : ground'[p][1] >= ground[p][1] /\ ground'[p][2] >= ground[p][2]]_groundVars
    <2> SUFFICES ASSUME ValueInv, OrderInv, [DownlinkNext]_downlinkVars, NEW p \in Kinds
                 PROVE  ground'[p][1] >= ground[p][1] /\ ground'[p][2] >= ground[p][2]
      OBVIOUS
    <2>t. DownlinkTypeOK /\ TypeInv
      BY DEF ValueInv, TypeInv
    <2>g. ground[p][1] \in Nat /\ ground[p][2] \in Nat /\ ground \in [Kinds -> Value] /\ link \in Seq(Packet)
      BY <2>t DEF DownlinkTypeOK, Value
    <2>1. CASE ground' = ground
      BY <2>g, <2>1
    <2>2. ASSUME NEW cut \in Cuts, ProcessTelemetry(cut)
          PROVE  ground'[p][1] >= ground[p][1] /\ ground'[p][2] >= ground[p][2]
      <3> DEFINE k == Head(link)
      <3>1. /\ link # <<>> /\ k.apid \in Kinds
            /\ ground' = ground \/ ground' = [ground EXCEPT ![k.apid] = Content(k)]
        BY <2>t, <2>2, ProcessEffect
      <3>2. Content(k) \in Contents(link, k.apid)
        BY <2>g, <3>1, ContentsTail
      <3>3. Leq(ground[k.apid], Content(k))
        BY <3>1, <3>2 DEF OrderInv
      <3>4. Content(k)[1] \in Nat /\ Content(k)[2] \in Nat
        BY <2>t, <3>1, <3>2, KnownType DEF Known, Value
      <3> HIDE DEF k
      <3>5. CASE p = k.apid /\ ground' = [ground EXCEPT ![k.apid] = Content(k)]
        BY <2>g, <3>3, <3>4, <3>5 DEF Leq
      <3>6. CASE ~(p = k.apid /\ ground' = [ground EXCEPT ![k.apid] = Content(k)])
        <4>1. ground'[p] = ground[p]
          BY <2>g, <3>1, <3>6
        <4> QED  BY <2>g, <4>1
      <3> QED  BY <3>5, <3>6
    <2>3. UpdateStep => ground' = ground
      BY <2>t, UpdateCases DEF QuietStep, ReadFirst, MakePacket
    <2> QED
      BY <2>1, <2>2, <2>3 DEF DownlinkNext, Contact, Publish, ResetStore, FlushPackets, downlinkVars, groundVars
  <1> QED
    BY <1>1, ValueInvInit, ValueInvNext, OrderInvInit, OrderInvNext, PTL DEF DownlinkSpec, GroundNeverGoesBack

(***************************************************************************)
(* Sequence counts.  Same(a, b) says that a and b are the same number in   *)
(* the field of a header.                                                  *)
(***************************************************************************)
Same(a, b) == \E k \in Int : a - b = k * FieldSize

\* It is an equivalence, and sums respect it.
LEMMA SameIsCongruence ==
    ASSUME NEW a \in Int, NEW b \in Int, NEW c \in Int, Same(a, b)
    PROVE  Same(a, a) /\ Same(b, a) /\ Same(a + c, b + c) /\ (Same(b, c) => Same(a, c))
  <1>n. FieldSize \in Int
    BY DownlinkAssumption
  <1>1. PICK k \in Int : a - b = k * FieldSize
    BY DEF Same
  <1>2. a - a = 0 * FieldSize
    BY <1>n
  <1>3. b - a = (-k) * FieldSize /\ -k \in Int
    BY <1>n, <1>1
  <1>4. (a + c) - (b + c) = k * FieldSize
    BY <1>n, <1>1
  <1>5. ASSUME Same(b, c) PROVE Same(a, c)
    <2>1. PICK j \in Int : b - c = j * FieldSize
      BY <1>5 DEF Same
    <2>2. a - c = (k + j) * FieldSize /\ k + j \in Int
      BY <1>n, <1>1, <2>1
    <2> QED  BY <2>2 DEF Same
  <1> QED  BY <1>2, <1>3, <1>4, <1>5 DEF Same

\* Putting a number into the field changes nothing of this, and two numbers that
\* are the same are equal there.
LEMMA SameRemainder ==
    ASSUME NEW a \in Nat, NEW b \in Nat
    PROVE  Same(a % FieldSize, a) /\ (Same(a, b) => a % FieldSize = b % FieldSize)
  <1>n. FieldSize \in Nat \ {0}
    BY DownlinkAssumption
  <1>1. ASSUME NEW f \in Nat \ {0}, NEW x \in Nat
        PROVE  x = f * (x \div f) + (x % f) /\ x \div f \in Int /\ x % f \in 0..(f - 1)
    BY <1>1
  <1>2. ASSUME NEW x \in Nat
        PROVE  (x % FieldSize) - x = (-(x \div FieldSize)) * FieldSize /\ -(x \div FieldSize) \in Int
    <2> DEFINE d == x \div FieldSize
               r == x % FieldSize
    <2>1. x = FieldSize * d + r /\ d \in Int /\ r \in Int
      BY <1>n, <1>1
    <2> HIDE DEF d, r
    <2>2. r - x = (-d) * FieldSize /\ -d \in Int
      BY <1>n, <2>1
    <2> QED  BY <2>2 DEF d, r
  <1>3. ASSUME Same(a, b) PROVE a % FieldSize = b % FieldSize
    <2> DEFINE r == a % FieldSize
               s == b % FieldSize
    <2>1. r \in 0..(FieldSize - 1) /\ s \in 0..(FieldSize - 1)
      BY <1>n, <1>1
    <2>2. Same(r, a) /\ Same(s, b)
      BY <1>2 DEF Same
    <2> HIDE DEF r, s
    <2>3. r \in Int /\ s \in Int
      BY <1>n, <2>1
    <2>4. Same(r, b) /\ Same(b, s)
      BY <1>3, <2>2, <2>3, SameIsCongruence
    <2>5. Same(r, s)
      BY <2>3, <2>4, SameIsCongruence
    <2>6. PICK k \in Int : r - s = k * FieldSize
      BY <2>5 DEF Same
    <2>7. r = s
      <3>1. ASSUME NEW f \in Nat \ {0}, NEW x \in 0..(f - 1), NEW y \in 0..(f - 1), NEW j \in Int, x - y = j * f
            PROVE  x = y
        <4>1. j >= 1 => j * f >= f
          OBVIOUS
        <4>2. j <= -1 => j * f <= -f
          OBVIOUS
        <4> QED  BY <3>1, <4>1, <4>2
      <3> QED  BY <1>n, <2>1, <2>6, <3>1
    <2> QED  BY <2>7 DEF r, s
  <1> QED  BY <1>2, <1>3 DEF Same

\* The wider counter wraps at a multiple of the field's size.
LEMMA SameAfterWrap ==
    ASSUME NEW a \in Nat
    PROVE  Same(a % CounterSize, a)
  <1>n. FieldSize \in Nat \ {0} /\ CounterSize \in Nat \ {0} /\ CounterSize % FieldSize = 0
    BY DownlinkAssumption
  <1>1. ASSUME NEW f \in Nat \ {0}, NEW x \in Nat
        PROVE  x = f * (x \div f) + (x % f) /\ x \div f \in Int /\ x % f \in 0..(f - 1)
    BY <1>1
  <1> DEFINE d == CounterSize \div FieldSize
             e == a \div CounterSize
             r == a % CounterSize
  <1>2. CounterSize = FieldSize * d /\ d \in Int
    BY <1>n, <1>1
  <1>3. a = CounterSize * e + r /\ e \in Int /\ r \in Int
    BY <1>n, <1>1
  <1> HIDE DEF d, e, r
  <1>4. CounterSize * e = (d * e) * FieldSize /\ d * e \in Int
    BY <1>n, <1>2, <1>3
  <1>5. r - a = (-(d * e)) * FieldSize /\ -(d * e) \in Int
    BY <1>n, <1>3, <1>4
  <1> QED  BY <1>5 DEF Same, r

\* Counting the packets of a product from the front.
LEMMA AmongNext ==
    ASSUME NEW ps, NEW p, NEW n \in Nat
    PROVE  /\ Among(ps, p, n) \in Nat
           /\ Among(ps, p, 0) = 0
           /\ ps[n + 1].apid = p => Among(ps, p, n + 1) = Among(ps, p, n) + 1
           /\ ps[n + 1].apid # p => Among(ps, p, n + 1) = Among(ps, p, n)
  <1> DEFINE S(m) == {i \in 1..m : ps[i].apid = p}
  <1>1. IsFiniteSet(S(n)) /\ Cardinality(S(n)) \in Nat
    <2>1. IsFiniteSet(1..n) /\ S(n) \in SUBSET (1..n)
      BY FS_Interval
    <2> HIDE DEF S
    <2>2. IsFiniteSet(S(n))
      BY <2>1, FS_Subset
    <2> QED  BY <2>2, FS_CardinalityType
  <1>2. S(0) = {}
    OBVIOUS
  <1>3. S(n + 1) = IF ps[n + 1].apid = p THEN S(n) \cup {n + 1} ELSE S(n)
    <2>1. 1..(n + 1) = (1..n) \cup {n + 1}
      OBVIOUS
    <2> QED  BY <2>1
  <1>4. n + 1 \notin S(n)
    OBVIOUS
  <1>5. Among(ps, p, n) = Cardinality(S(n)) /\ Among(ps, p, 0) = Cardinality(S(0))
        /\ Among(ps, p, n + 1) = Cardinality(S(n + 1))
    BY DEF Among
  <1> HIDE DEF S
  <1>6. Cardinality(S(n) \cup {n + 1}) = Cardinality(S(n)) + 1
    BY <1>1, <1>4, FS_AddElement
  <1> QED  BY <1>1, <1>2, <1>3, <1>5, <1>6, FS_EmptySet

\* It depends only on the packets counted.
LEMMA AmongPrefix ==
    ASSUME NEW ps, NEW rs, NEW p, NEW n \in Nat, \A i \in 1..n : ps[i] = rs[i]
    PROVE  Among(ps, p, n) = Among(rs, p, n)
  <1>1. {i \in 1..n : ps[i].apid = p} = {i \in 1..n : rs[i].apid = p}
    OBVIOUS
  <1> QED  BY <1>1 DEF Among

\* Without the first packet there is one less of its product.
LEMMA AmongTail ==
    ASSUME NEW ps \in Seq(Packet), ps # <<>>, NEW p, NEW n \in 0..(Len(ps) - 1)
    PROVE  Among(ps, p, n + 1) = Among(Tail(ps), p, n) + (IF Head(ps).apid = p THEN 1 ELSE 0)
  <1> DEFINE t == Tail(ps)
             S == {i \in 1..n : t[i].apid = p}
             T == {i \in 2..(n + 1) : ps[i].apid = p}
             U == {i \in 1..(n + 1) : ps[i].apid = p}
  <1>1. /\ n \in Nat /\ Head(ps) = ps[1] /\ \A i \in 1..n : t[i] = ps[i + 1]
    OBVIOUS
  <1>2. IsFiniteSet(S) /\ Cardinality(S) \in Nat
    <2>1. IsFiniteSet(1..n) /\ S \in SUBSET (1..n)
      BY <1>1, FS_Interval
    <2> HIDE DEF S
    <2>2. IsFiniteSet(S)
      BY <2>1, FS_Subset
    <2> QED  BY <2>2, FS_CardinalityType
  <1>3. IsFiniteSet(T) /\ Cardinality(T) = Cardinality(S)
    <2> HIDE DEF t
    <2> DEFINE f == [i \in S |-> i + 1]
    <2>1. f \in [S -> T]
      BY <1>1
    <2>2. \A a, b \in S : f[a] = f[b] => a = b
      BY <1>1
    <2>3. ASSUME NEW j \in T PROVE \E i \in S : f[i] = j
      <3>1. j - 1 \in S /\ f[j - 1] = j
        BY <1>1
      <3> QED  BY <3>1
    <2> HIDE DEF f, S, T
    <2>4. f \in Bijection(S, T)
      BY <2>1, <2>2, <2>3, Fun_IsBij
    <2>5. ExistsBijection(S, T)
      BY <2>4 DEF ExistsBijection
    <2> QED  BY <1>2, <2>5, FS_Bijection
  <1>4. U = IF Head(ps).apid = p THEN T \cup {1} ELSE T
    <2>1. 1..(n + 1) = (2..(n + 1)) \cup {1}
      BY <1>1
    <2> QED  BY <1>1, <2>1
  <1>5. 1 \notin T
    BY <1>1
  <1>6. Among(ps, p, n + 1) = Cardinality(U) /\ Among(t, p, n) = Cardinality(S)
    BY DEF Among
  <1> HIDE DEF S, T, U
  <1>7. Cardinality(T \cup {1}) = Cardinality(T) + 1
    BY <1>3, <1>5, FS_AddElement
  <1> QED  BY <1>2, <1>3, <1>4, <1>6, <1>7

(***************************************************************************)
(* Every packet on the way has the number the ground expects of it if all  *)
(* before it were received or counted as missed, and the counter the one   *)
(* after them.                                                             *)
(***************************************************************************)
Waiting(ps, p) == Among(ps, p, Len(ps))

\* The packets of ps have the numbers from e on, by product.
Numbered(ps, e) ==
    \A i \in DOMAIN ps : Same(ps[i].seq, e[ps[i].apid] + Among(ps, ps[i].apid, i - 1))

\* The next number on the link, and the next in the buffer.
NextHeard == [p \in Kinds |-> heard[p] + missed[p] + 1]
NextFlushed == [p \in Kinds |-> NextHeard[p] + Waiting(link, p)]

GapInv ==
    /\ Numbered(link, NextHeard)
    /\ Numbered(packets, NextFlushed)
    /\ \A p \in Kinds : Same(count[p], NextFlushed[p] + Waiting(packets, p))

\* One side of a sum may be replaced.
LEMMA SameMove ==
    ASSUME NEW x \in Int, NEW b \in Int, NEW c \in Int, NEW m \in Int, Same(x, b + m), Same(c, b)
    PROVE  Same(x, c + m)
  <1>1. Same(b, c)
    BY SameIsCongruence
  <1>2. Same(b + m, c + m)
    BY <1>1, SameIsCongruence
  <1> QED
    <2>1. b + m \in Int /\ c + m \in Int
      OBVIOUS
    <2> QED  BY <1>2, <2>1, SameIsCongruence

\* The packets of a sequence.
LEMMA PacketFields ==
    ASSUME NEW ps \in Seq(Packet), NEW i \in DOMAIN ps
    PROVE  /\ ps[i].apid \in Kinds /\ ps[i].seq \in Int
           /\ i \in 1..Len(ps) /\ Len(ps) \in Nat /\ i - 1 \in Nat
           /\ \A p : Among(ps, p, i - 1) \in Nat
  <1>1. ps[i] \in Packet /\ i \in 1..Len(ps) /\ Len(ps) \in Nat /\ i - 1 \in Nat
    OBVIOUS
  <1>2. ps[i].apid \in Kinds /\ ps[i].seq \in Int
    BY <1>1, DownlinkAssumption DEF Packet
  <1>3. ASSUME NEW p PROVE Among(ps, p, i - 1) \in Nat
    BY <1>1, AmongNext
  <1> QED  BY <1>1, <1>2, <1>3

\* The number of packets that wait.
LEMMA WaitingType ==
    ASSUME NEW ps \in Seq(Packet), NEW p
    PROVE  Waiting(ps, p) \in Nat /\ Waiting(<<>>, p) = 0
  <1>1. Len(ps) \in Nat /\ Len(<<>>) = 0
    OBVIOUS
  <1> QED  BY <1>1, AmongNext DEF Waiting

\* A packet with the next number may be appended.
LEMMA NumberedAppend ==
    ASSUME NEW ps \in Seq(Packet), NEW e, Numbered(ps, e), NEW k \in Packet,
           Same(k.seq, e[k.apid] + Waiting(ps, k.apid))
    PROVE  /\ Numbered(Append(ps, k), e)
           /\ \A p : Waiting(Append(ps, k), p) = Waiting(ps, p) + (IF k.apid = p THEN 1 ELSE 0)
  <1> DEFINE a == Append(ps, k)
             L == Len(ps)
  <1>1. /\ L \in Nat /\ Len(a) = L + 1 /\ DOMAIN a = 1..(L + 1) /\ DOMAIN ps = 1..L
        /\ a[L + 1] = k /\ \A i \in 1..L : a[i] = ps[i]
    OBVIOUS
  <1>2. \A p : Waiting(ps, p) = Among(ps, p, L)
    BY DEF Waiting
  <1> HIDE DEF a, L
  <1>3. ASSUME NEW p, NEW n \in Nat, n <= L PROVE Among(a, p, n) = Among(ps, p, n)
    <2>1. \A i \in 1..n : a[i] = ps[i]
      BY <1>1, <1>3
    <2> QED  BY <2>1, AmongPrefix
  <1>n. L \in Nat /\ L <= L
    BY <1>1
  <1>4. ASSUME NEW p PROVE Waiting(a, p) = Waiting(ps, p) + (IF k.apid = p THEN 1 ELSE 0)
    <2>1. /\ k.apid = p => Among(a, p, L + 1) = Among(a, p, L) + 1
          /\ k.apid # p => Among(a, p, L + 1) = Among(a, p, L)
          /\ Among(a, p, L) \in Nat
      BY <1>1, <1>n, AmongNext
    <2>2. Among(a, p, L) = Waiting(ps, p)
      BY <1>2, <1>3, <1>n
    <2>3. Waiting(a, p) = Among(a, p, L + 1)
      BY <1>1 DEF Waiting
    <2> QED  BY <1>1, <2>1, <2>2, <2>3
  <1>5. ASSUME NEW i \in DOMAIN a PROVE Same(a[i].seq, e[a[i].apid] + Among(a, a[i].apid, i - 1))
    <2>1. CASE i = L + 1
      <3>1. a[i] = k /\ i - 1 = L
        BY <1>1, <2>1
      <3>2. Among(a, k.apid, L) = Waiting(ps, k.apid)
        BY <1>2, <1>3, <1>n
      <3> QED  BY <3>1, <3>2
    <2>2. CASE i # L + 1
      <3>1. i \in DOMAIN ps /\ a[i] = ps[i] /\ i - 1 \in Nat /\ i - 1 <= L
        BY <1>1, <2>2
      <3>2. Among(a, a[i].apid, i - 1) = Among(ps, a[i].apid, i - 1)
        BY <1>3, <3>1
      <3>3. Same(ps[i].seq, e[ps[i].apid] + Among(ps, ps[i].apid, i - 1))
        BY <3>1 DEF Numbered
      <3> QED  BY <3>1, <3>2, <3>3
    <2> QED  BY <2>1, <2>2
  <1>6. Numbered(a, e) /\ \A p : Waiting(a, p) = Waiting(ps, p) + (IF k.apid = p THEN 1 ELSE 0)
    BY <1>4, <1>5 DEF Numbered
  <1> QED  BY <1>6 DEF a

\* When the first packet is gone, the others follow on the next number.
LEMMA NumberedTail ==
    ASSUME NEW ps \in Seq(Packet), ps # <<>>, NEW e \in [Kinds -> Int], Numbered(ps, e),
           NEW f \in [Kinds -> Int],
           \A p \in Kinds : Same(f[p], e[p] + (IF Head(ps).apid = p THEN 1 ELSE 0))
    PROVE  /\ Numbered(Tail(ps), f)
           /\ \A p \in Kinds : Same(f[p] + Waiting(Tail(ps), p), e[p] + Waiting(ps, p))
  <1> DEFINE t == Tail(ps)
             L == Len(ps)
             D(p) == IF Head(ps).apid = p THEN 1 ELSE 0
  <1>1. /\ L \in Nat /\ L >= 1 /\ DOMAIN t = 1..(L - 1) /\ DOMAIN ps = 1..L /\ Len(t) = L - 1
        /\ \A i \in 1..(L - 1) : t[i] = ps[i + 1]
        /\ t \in Seq(Packet)
    OBVIOUS
  <1>2. ASSUME NEW p, NEW n \in 0..(L - 1) PROVE Among(ps, p, n + 1) = Among(t, p, n) + D(p)
    BY AmongTail
  <1>3. ASSUME NEW p \in Kinds
        PROVE  D(p) \in Int /\ e[p] \in Int /\ f[p] \in Int /\ Same(f[p], e[p] + D(p))
    OBVIOUS
  <1> HIDE DEF t, L, D
  <1>4. ASSUME NEW i \in DOMAIN t PROVE Same(t[i].seq, f[t[i].apid] + Among(t, t[i].apid, i - 1))
    <2> DEFINE p == t[i].apid
               x == t[i].seq
               m == Among(t, p, i - 1)
    <2>1. /\ i + 1 \in DOMAIN ps /\ t[i] = ps[i + 1] /\ i - 1 \in 0..(L - 1)
          /\ (i - 1) + 1 = i /\ (i + 1) - 1 = i
      BY <1>1
    <2>2. p \in Kinds /\ x \in Int /\ m \in Int
      BY <1>1, PacketFields
    <2>3. Among(ps, p, i) = m + D(p)
      <3>1. Among(ps, p, (i - 1) + 1) = m + D(p)
        BY <1>2, <2>1
      <3> QED  BY <2>1, <3>1
    <2>4. Same(x, e[p] + Among(ps, p, i))
      <3>1. Same(ps[i + 1].seq, e[ps[i + 1].apid] + Among(ps, ps[i + 1].apid, (i + 1) - 1))
        BY <2>1 DEF Numbered
      <3> QED  BY <2>1, <3>1
    <2> HIDE DEF p, x, m
    <2>5. e[p] + (m + D(p)) = (e[p] + D(p)) + m /\ e[p] + D(p) \in Int
      BY <1>3, <2>2
    <2>6. Same(x, (e[p] + D(p)) + m)
      BY <2>3, <2>4, <2>5
    <2>7. Same(x, f[p] + m)
      <3> DEFINE b == e[p] + D(p)
      <3>1. b \in Int /\ Same(x, b + m) /\ Same(f[p], b)
        BY <1>3, <2>2, <2>5, <2>6
      <3> HIDE DEF b
      <3> QED  BY <1>3, <2>2, <3>1, SameMove
    <2> QED  BY <2>7 DEF p, x, m
  <1>5. ASSUME NEW p \in Kinds PROVE Same(f[p] + Waiting(t, p), e[p] + Waiting(ps, p))
    <2> DEFINE w == Waiting(t, p)
               b == e[p] + D(p)
    <2>1. w \in Int /\ b \in Int /\ f[p] \in Int /\ Same(f[p], b)
      BY <1>1, <1>3, WaitingType
    <2>2. Waiting(ps, p) = w + D(p)
      <3>1. L - 1 \in 0..(L - 1) /\ (L - 1) + 1 = L
        BY <1>1
      <3>2. Among(ps, p, (L - 1) + 1) = Among(t, p, L - 1) + D(p)
        BY <1>2, <3>1
      <3> QED  BY <1>1, <3>1, <3>2 DEF Waiting, L
    <2>3. e[p] + (w + D(p)) = b + w
      BY <1>3, <2>1
    <2> HIDE DEF w, b
    <2>4. Same(f[p] + w, b + w)
      BY <2>1, SameIsCongruence
    <2> QED  BY <2>2, <2>3, <2>4 DEF w
  <1>6. Numbered(t, f) /\ \A p \in Kinds : Same(f[p] + Waiting(t, p), e[p] + Waiting(ps, p))
    BY <1>4, <1>5 DEF Numbered
  <1> QED  BY <1>6 DEF t

\* Numbers that are the same in the field will do.
LEMMA NumberedMove ==
    ASSUME NEW ps \in Seq(Packet), NEW e \in [Kinds -> Int], Numbered(ps, e),
           NEW f \in [Kinds -> Int], \A p \in Kinds : Same(f[p], e[p])
    PROVE  Numbered(ps, f)
  <1> SUFFICES ASSUME NEW i \in DOMAIN ps
               PROVE  Same(ps[i].seq, f[ps[i].apid] + Among(ps, ps[i].apid, i - 1))
    BY DEF Numbered
  <1> DEFINE p == ps[i].apid
             x == ps[i].seq
             m == Among(ps, p, i - 1)
  <1>1. p \in Kinds /\ x \in Int /\ m \in Int
    BY PacketFields
  <1>2. Same(x, e[p] + m)
    BY DEF Numbered
  <1> HIDE DEF p, x, m
  <1>3. Same(x, f[p] + m)
    BY <1>1, <1>2, SameMove
  <1> QED  BY <1>3 DEF p, x, m

\* The numbers of the ground and of the buffer are integers.
LEMMA GapType ==
    ASSUME TypeInv
    PROVE  /\ NextHeard \in [Kinds -> Int] /\ NextFlushed \in [Kinds -> Int]
           /\ link \in Seq(Packet) /\ packets \in Seq(Packet)
           /\ \A p \in Kinds : heard[p] \in Nat /\ missed[p] \in Nat /\ count[p] \in Nat
           /\ \A p \in Kinds : Waiting(link, p) \in Nat /\ Waiting(packets, p) \in Nat
  <1>1. link \in Seq(Packet) /\ packets \in Seq(Packet)
    BY DEF TypeInv, DownlinkTypeOK
  <1>2. \A p \in Kinds : heard[p] \in Nat /\ missed[p] \in Nat /\ count[p] \in Nat
    BY DownlinkAssumption DEF TypeInv, DownlinkTypeOK
  <1>3. \A p : Waiting(link, p) \in Nat /\ Waiting(packets, p) \in Nat
    BY <1>1, WaitingType
  <1>4. NextHeard \in [Kinds -> Int]
    BY <1>2 DEF NextHeard
  <1>5. NextFlushed \in [Kinds -> Int]
    BY <1>3, <1>4 DEF NextFlushed
  <1> QED  BY <1>1, <1>2, <1>3, <1>4, <1>5

\* The first packet has number 0, and the ground expects it.
LEMMA GapInvInit == DownlinkInit => GapInv
  <1> SUFFICES ASSUME DownlinkInit PROVE GapInv
    OBVIOUS
  <1>1. link = <<>> /\ packets = <<>> /\ DOMAIN link = {} /\ DOMAIN packets = {}
    BY DEF DownlinkInit
  <1>2. ASSUME NEW p \in Kinds PROVE Same(count[p], NextFlushed[p] + Waiting(packets, p))
    <2>1. Waiting(link, p) = 0 /\ Waiting(packets, p) = 0
      <3>1. <<>> \in Seq(Packet)
        OBVIOUS
      <3> QED  BY <1>1, <3>1, WaitingType
    <2>2. count[p] = 0 /\ NextHeard[p] = FieldSize /\ FieldSize \in Nat
      BY DownlinkAssumption DEF DownlinkInit, NextHeard
    <2>3. NextFlushed[p] = FieldSize
      BY <2>1, <2>2 DEF NextFlushed
    <2>4. 0 - (FieldSize + 0) = (-1) * FieldSize
      BY <2>2
    <2> QED  BY <2>1, <2>2, <2>3, <2>4 DEF Same
  <1> QED  BY <1>1, <1>2 DEF GapInv, Numbered

\* A new packet takes the counter's number.
LEMMA GapInvMake ==
    ASSUME TypeInv, GapInv, NEW p \in Kinds, NEW v \in Value, MakePacket(p, v)
    PROVE  GapInv'
  <1> DEFINE k == Encode(p, v)
             c == count[p]
             n == NextFlushed[p]
             w == Waiting(packets, p)
  <1>s. packets \in Seq(Packet) /\ count \in [Kinds -> 0..(CounterSize - 1)]
    BY DEF TypeInv, DownlinkTypeOK
  <1>c. c \in Nat /\ n \in Int /\ w \in Int /\ Same(c, n + w)
    BY GapType DEF GapInv
  <1>k. k \in Packet /\ k.apid = p /\ k.seq = c % FieldSize
    <2>1. ~IsPair(p) => v[2] = 0
      BY DEF MakePacket
    <2> QED  BY <1>c, <2>1, EncodeContent
  <1>1. /\ link' = link /\ packets' = Append(packets, k) /\ heard' = heard /\ missed' = missed
        /\ count' = [count EXCEPT ![p] = (c + 1) % CounterSize]
    BY DEF MakePacket
  <1>2. NextHeard' = NextHeard /\ NextFlushed' = NextFlushed
    BY <1>1 DEF NextHeard, NextFlushed
  <1> HIDE DEF k, c, n, w
  <1>3. Same(k.seq, n + w)
    <2> DEFINE x == c % FieldSize
               y == n + w
    <2>1. x \in 0..(FieldSize - 1) /\ FieldSize \in Nat
      BY <1>c, RemainderType, DownlinkAssumption
    <2>2. Same(x, c) /\ x \in Int /\ y \in Int /\ Same(c, y)
      BY <1>c, <2>1, SameRemainder
    <2> HIDE DEF x, y
    <2>3. Same(x, y)
      BY <1>c, <2>2, SameIsCongruence
    <2> QED  BY <1>k, <2>3 DEF x, y
  <1>4. /\ Numbered(packets', NextFlushed)
        /\ \A r : Waiting(packets', r) = Waiting(packets, r) + (IF p = r THEN 1 ELSE 0)
    <2>1. Numbered(packets, NextFlushed) /\ Same(k.seq, NextFlushed[k.apid] + Waiting(packets, k.apid))
      BY <1>3, <1>k DEF GapInv, n, w
    <2>2. /\ Numbered(Append(packets, k), NextFlushed)
          /\ \A r : Waiting(Append(packets, k), r) = Waiting(packets, r) + (IF k.apid = r THEN 1 ELSE 0)
      BY <1>s, <1>k, <2>1, NumberedAppend
    <2> QED  BY <1>1, <1>k, <2>2
  <1>5. Same((c + 1) % CounterSize, n + (w + 1))
    <2> DEFINE x == (c + 1) % CounterSize
               y == c + 1
               z == n + (w + 1)
               u == n + w
    <2>1. x \in 0..(CounterSize - 1) /\ CounterSize \in Nat /\ y \in Nat
      BY <1>c, RemainderType, DownlinkAssumption
    <2>2. Same(x, y) /\ x \in Int /\ z = u + 1 /\ u \in Int /\ z \in Int
      BY <1>c, <2>1, SameAfterWrap
    <2>3. Same(y, u + 1)
      <3>1. Same(c, u) /\ c \in Int /\ u \in Int /\ y = c + 1 /\ 1 \in Int
        BY <1>c, <2>2
      <3> HIDE DEF u, y
      <3> QED  BY <3>1, SameIsCongruence
    <2> HIDE DEF x, y, z, u
    <2>4. Same(x, z)
      BY <2>1, <2>2, <2>3, SameIsCongruence
    <2> QED  BY <2>4 DEF x, z
  <1>6. ASSUME NEW r \in Kinds PROVE Same(count'[r], NextFlushed[r] + Waiting(packets', r))
    <2>1. CASE r = p
      <3>1. count'[r] = (c + 1) % CounterSize /\ NextFlushed[r] = n /\ Waiting(packets', r) = w + 1
        BY <1>s, <1>1, <1>4, <2>1 DEF n, w
      <3> QED  BY <1>5, <3>1
    <2>2. CASE r # p
      <3>1. Waiting(packets, r) \in Nat /\ Same(count[r], NextFlushed[r] + Waiting(packets, r))
        BY GapType DEF GapInv
      <3>2. count'[r] = count[r] /\ Waiting(packets', r) = Waiting(packets, r)
        BY <1>s, <1>1, <1>4, <2>2, <3>1
      <3> QED  BY <3>1, <3>2
    <2> QED  BY <2>1, <2>2
  <1> QED  BY <1>1, <1>2, <1>4, <1>6 DEF GapInv

\* A packet that is received, or lost, moves on what the ground expects of its
\* product by one.
LEMMA ExpectedMoves ==
    ASSUME TypeInv, GapInv, NEW cut \in Cuts, ProcessTelemetry(cut), NEW r \in Kinds
    PROVE  Same(NextHeard'[r], NextHeard[r] + (IF Head(link).apid = r THEN 1 ELSE 0))
  <1> DEFINE k == Head(link)
             h == heard[r]
             m == missed[r]
             e == NextHeard[r]
  <1>1. /\ link # <<>> /\ link \in Seq(Packet) /\ k \in Packet /\ k.apid \in Kinds
        /\ \/ /\ heard' = [heard EXCEPT ![k.apid] = k.seq]
              /\ missed' = [missed EXCEPT ![k.apid] = 0]
           \/ /\ missed' = [missed EXCEPT ![k.apid] = (@ + 1) % FieldSize]
              /\ heard' = heard
    BY ProcessEffect
  <1>2. /\ h \in Nat /\ m \in Nat /\ e = (h + m) + 1 /\ e \in Int
        /\ heard \in [Kinds -> 0..(FieldSize - 1)] /\ missed \in [Kinds -> 0..(FieldSize - 1)]
        /\ NextHeard'[r] = (heard'[r] + missed'[r]) + 1
    BY GapType DEF NextHeard, TypeInv, DownlinkTypeOK
  <1>3. CASE r # k.apid
    <2>1. heard'[r] = h /\ missed'[r] = m
      BY <1>1, <1>2, <1>3
    <2>2. NextHeard'[r] = e
      BY <1>2, <2>1
    <2>3. e - (e + 0) = 0 * FieldSize
      BY <1>2, DownlinkAssumption
    <2> QED  BY <1>3, <2>2, <2>3 DEF Same
  <1>4. CASE r = k.apid /\ heard' = [heard EXCEPT ![k.apid] = k.seq] /\ missed' = [missed EXCEPT ![k.apid] = 0]
    <2> DEFINE x == k.seq
    <2>1. 1 \in DOMAIN link /\ link[1] = k
      BY <1>1
    <2>2. x \in Int
      BY <1>1, <2>1, PacketFields
    <2>3. Same(x, e)
      <3>1. Same(link[1].seq, NextHeard[link[1].apid] + Among(link, link[1].apid, 1 - 1))
        BY <2>1 DEF GapInv, Numbered
      <3>2. Among(link, r, 0) = 0 /\ 1 - 1 = 0
        BY AmongNext
      <3>3. e + 0 = e
        BY <1>2
      <3> QED  BY <1>4, <2>1, <3>1, <3>2, <3>3
    <2>4. NextHeard'[r] = x + 1
      <3>1. heard'[r] = x /\ missed'[r] = 0
        BY <1>2, <1>4
      <3> HIDE DEF x
      <3> QED  BY <1>2, <2>2, <3>1
    <2> HIDE DEF x, e
    <2>5. Same(x + 1, e + 1)
      <3>1. x \in Int /\ e \in Int /\ 1 \in Int /\ Same(x, e)
        BY <1>2, <2>2, <2>3
      <3> QED  BY <3>1, SameIsCongruence
    <2> QED  BY <1>4, <2>4, <2>5 DEF e
  <1>5. CASE r = k.apid /\ missed' = [missed EXCEPT ![k.apid] = (@ + 1) % FieldSize] /\ heard' = heard
    <2> DEFINE x == (m + 1) % FieldSize
               y == m + 1
               z == h + 1
    <2>1. heard'[r] = h /\ missed'[r] = x
      BY <1>2, <1>5
    <2>2. y \in Nat /\ z \in Int /\ x \in 0..(FieldSize - 1) /\ FieldSize \in Nat
      <3>1. y \in Nat /\ z \in Int /\ FieldSize \in Nat \ {0}
        BY <1>2, DownlinkAssumption
      <3> HIDE DEF y, z
      <3>2. y % FieldSize \in 0..(FieldSize - 1)
        BY <3>1, RemainderType
      <3> QED  BY <3>1, <3>2 DEF y
    <2>3. Same(x, y) /\ x \in Int
      BY <2>2, SameRemainder
    <2>4. y + z = e + 1
      BY <1>2
    <2>5. x + z = NextHeard'[r]
      <3> HIDE DEF x
      <3> QED  BY <1>2, <2>1, <2>3
    <2> HIDE DEF x, y, z
    <2>6. Same(x + z, y + z)
      <3>1. y \in Int
        BY <2>2
      <3> QED  BY <2>2, <2>3, <3>1, SameIsCongruence
    <2> QED  BY <1>5, <2>4, <2>5, <2>6
  <1> QED  BY <1>1, <1>3, <1>4, <1>5

\* The packets behind it keep the numbers the ground expects of them.
LEMMA GapInvProcess ==
    ASSUME TypeInv, TypeInv', GapInv, NEW cut \in Cuts, ProcessTelemetry(cut)
    PROVE  GapInv'
  <1>1. link # <<>> /\ link' = Tail(link) /\ packets' = packets /\ count' = count
    BY ProcessEffect
  <1>2. /\ NextHeard \in [Kinds -> Int] /\ NextFlushed \in [Kinds -> Int]
        /\ link \in Seq(Packet) /\ packets \in Seq(Packet)
        /\ \A p \in Kinds : count[p] \in Nat /\ Waiting(packets, p) \in Nat
    BY GapType
  <1>3. NextHeard' \in [Kinds -> Int] /\ NextFlushed' \in [Kinds -> Int]
    <2>1. /\ link' \in Seq(Packet) /\ heard' \in [Kinds -> 0..(FieldSize - 1)]
          /\ missed' \in [Kinds -> 0..(FieldSize - 1)] /\ FieldSize \in Nat
      BY DownlinkAssumption DEF TypeInv, DownlinkTypeOK
    <2>2. NextHeard' \in [Kinds -> Int]
      BY <2>1 DEF NextHeard
    <2>3. \A p : Waiting(link', p) \in Nat
      BY <2>1, WaitingType
    <2> QED  BY <2>2, <2>3 DEF NextFlushed
  <1>4. /\ Numbered(link', NextHeard')
        /\ \A p \in Kinds : Same(NextHeard'[p] + Waiting(link', p), NextHeard[p] + Waiting(link, p))
    <2>1. \A p \in Kinds : Same(NextHeard'[p], NextHeard[p] + (IF Head(link).apid = p THEN 1 ELSE 0))
      BY ExpectedMoves
    <2>2. Numbered(link, NextHeard)
      BY DEF GapInv
    <2>3. /\ Numbered(Tail(link), NextHeard')
          /\ \A p \in Kinds : Same(NextHeard'[p] + Waiting(Tail(link), p), NextHeard[p] + Waiting(link, p))
      BY <1>1, <1>2, <1>3, <2>1, <2>2, NumberedTail
    <2> QED  BY <1>1, <2>3
  <1>5. \A p \in Kinds : Same(NextFlushed'[p], NextFlushed[p])
    BY <1>4 DEF NextFlushed
  <1>6. Numbered(packets', NextFlushed')
    <2>1. Numbered(packets, NextFlushed')
      BY <1>2, <1>3, <1>5, NumberedMove DEF GapInv
    <2> QED  BY <1>1, <2>1
  <1>7. ASSUME NEW p \in Kinds PROVE Same(count'[p], NextFlushed'[p] + Waiting(packets', p))
    <2>1. /\ count[p] \in Int /\ NextFlushed[p] \in Int /\ NextFlushed'[p] \in Int /\ Waiting(packets, p) \in Int
          /\ Same(count[p], NextFlushed[p] + Waiting(packets, p)) /\ Same(NextFlushed'[p], NextFlushed[p])
      BY <1>2, <1>3, <1>5 DEF GapInv
    <2>2. Same(count[p], NextFlushed'[p] + Waiting(packets, p))
      BY <2>1, SameMove
    <2> QED  BY <1>1, <2>2
  <1> QED  BY <1>4, <1>6, <1>7 DEF GapInv

\* All that waits goes onto the link at once.
LEMMA GapInvFlush ==
    ASSUME TypeInv, GapInv, FlushPackets
    PROVE  GapInv'
  <1>1. /\ link = <<>> /\ link' = packets /\ packets' = <<>>
        /\ UNCHANGED <<count, heard, missed>>
    BY DEF FlushPackets
  <1>2. /\ NextHeard \in [Kinds -> Int] /\ packets \in Seq(Packet)
        /\ \A p \in Kinds : Waiting(packets, p) \in Nat
    BY GapType
  <1>3. \A p : Waiting(link, p) = 0 /\ Waiting(packets', p) = 0
    BY <1>1, <1>2, WaitingType
  <1>4. NextHeard' = NextHeard
    BY <1>1 DEF NextHeard
  <1>5. NextFlushed = NextHeard
    BY <1>2, <1>3 DEF NextFlushed
  <1>6. \A p \in Kinds : NextFlushed'[p] = NextHeard[p] + Waiting(packets, p)
    BY <1>1, <1>4 DEF NextFlushed
  <1>7. Numbered(link', NextHeard')
    BY <1>1, <1>4, <1>5 DEF GapInv
  <1>8. Numbered(packets', NextFlushed')
    BY <1>1 DEF Numbered
  <1>9. ASSUME NEW p \in Kinds PROVE Same(count'[p], NextFlushed'[p] + Waiting(packets', p))
    <2>1. Same(count[p], NextHeard[p] + Waiting(packets, p))
      BY <1>5 DEF GapInv
    <2>2. NextFlushed'[p] + Waiting(packets', p) = NextHeard[p] + Waiting(packets, p)
      BY <1>2, <1>3, <1>6
    <2> QED  BY <1>1, <2>1, <2>2
  <1> QED  BY <1>7, <1>8, <1>9 DEF GapInv

\* Every step keeps the numbers.
LEMMA GapInvNext == TypeInv /\ GapInv /\ [DownlinkNext]_downlinkVars => GapInv'
  <1> SUFFICES ASSUME TypeInv, GapInv, [DownlinkNext]_downlinkVars PROVE GapInv'
    OBVIOUS
  <1>1. CASE UNCHANGED <<count, packets, link, heard, missed>>
    BY <1>1 DEF GapInv, NextHeard, NextFlushed
  <1>2. CASE UpdateStep
    BY <1>1, <1>2, UpdateCases, GapInvMake DEF QuietStep, ReadFirst
  <1>3. CASE Contact
    BY <1>3, TypeInvNext, GapInvFlush, GapInvProcess DEF Contact
  <1>4. (\E p \in Kinds : Publish(p)) \/ ResetStore \/ UNCHANGED downlinkVars
          => UNCHANGED <<count, packets, link, heard, missed>>
    BY DEF Publish, ResetStore, downlinkVars, managerVars, groundVars
  <1> QED  BY <1>1, <1>2, <1>3, <1>4 DEF DownlinkNext

\* For any widths of counter and field of which the second divides the first,
\* and any losses: a gap in the numbers the ground sees is a loss of so many
\* packets, modulo the size of the field.
THEOREM LossesAccounted == DownlinkSpec => []GapsAreLosses
  <1>1. TypeInv /\ GapInv => GapsAreLosses
    <2> SUFFICES ASSUME TypeInv, GapInv, NEW p \in Kinds
                 PROVE  LET waiting == Among(link, p, Len(link)) + Among(packets, p, Len(packets))
                        IN  count[p] % FieldSize = (((heard[p] + 1) + missed[p]) + waiting) % FieldSize
      BY DEF GapsAreLosses
    <2> DEFINE a == Waiting(link, p)
               b == Waiting(packets, p)
               n == NextFlushed[p] + b
    <2>1. /\ a \in Nat /\ b \in Nat
          /\ count[p] \in Nat /\ heard[p] \in Nat /\ missed[p] \in Nat
      BY GapType
    <2>2. Same(count[p], n)
      BY DEF GapInv
    <2>3. n = ((heard[p] + 1) + missed[p]) + (a + b) /\ n \in Nat
      BY <2>1 DEF NextFlushed, NextHeard
    <2>4. count[p] % FieldSize = n % FieldSize
      <3> HIDE DEF n
      <3> QED  BY <2>1, <2>2, <2>3, SameRemainder
    <2> QED  BY <2>3, <2>4 DEF Waiting
  <1> QED  BY <1>1, TypeInvInit, TypeInvNext, GapInvInit, GapInvNext, PTL DEF DownlinkSpec
===============================================================================
