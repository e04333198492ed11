------------------------------ MODULE Downlink ------------------------------
(***************************************************************************)
(* Telemetry, from the data store to the ground: TelemetryManager at the   *)
(* end of FlightSoftware::step, the numbering of packets in                *)
(* TelemetryService, and GroundStation::processTelemetry.                  *)
(*                                                                         *)
(* Three threads: the producers publish, the control thread generates      *)
(* packets, the link takes them.  The manager locks its packet buffer for  *)
(* a whole update, but the store only for one get, so what goes into one   *)
(* packet may be published in between.                                     *)
(*                                                                         *)
(* A product is made of one topic (HEALTH) or two, published in turn; a    *)
(* value is the number of its publication, 0 when there is none.           *)
(***************************************************************************)
EXTENDS Integers, FiniteSets, SequencesExt

CONSTANTS
    Products,     \* the kinds of telemetry, in the order update takes them
    Period,       \* [products -> time between two packets]: 1 / ..._FREQ
    Steps,        \* dt of update
    MaxMade,      \* [products -> Nat]: bound on the publications
    CounterSize,  \* values of an element of sequence_counts_: 2^16
    FieldSize,    \* values of the sequence count of a header: 2^14
    MaxBuffer,    \* bound on the packets waiting for the link and on it
    Cuts          \* numbers of bytes the link may cut off a packet

Kinds == Range(Products)

ASSUME DownlinkAssumption ==
    /\ Products \in Seq({"ATTITUDE", "ORBIT", "HEALTH"})
    /\ Period \in [Kinds -> Nat]
    /\ Steps \subseteq Nat \ {0}
    /\ MaxMade \in [Kinds -> Nat]
    /\ FieldSize \in Nat \ {0}
    /\ CounterSize \in Nat \ {0}
    /\ CounterSize % FieldSize = 0
    /\ MaxBuffer \in Nat
    /\ Cuts \subseteq Nat

VARIABLES
    made,     \* publications so far, by product
    store,    \* data_map_: <<first, second>> topic of each product
    timer,    \* attitude_timer_, orbit_timer_, health_timer_
    todo,     \* products whose branch the running update has still to take
    q,        \* the first value of a pair, between the two gets
    count,    \* sequence_counts_
    packets,  \* packet_buffer_
    link,     \* what flushPackets returned and processTelemetry has still to look at
    ground,   \* last_attitude_, last_orbit_, health_map_
    heard,    \* history: sequence count of the last packet the ground used
    missed    \* history: packets lost since then, modulo FieldSize

storeVars == <<made, store>>
managerVars == <<timer, todo, q, count, packets>>
groundVars == <<link, ground, heard, missed>>
downlinkVars == <<storeVars, managerVars, groundVars>>

Value == Nat \X Nat

\* Attitude and rate, position and velocity; one status.
IsPair(p) == p # "HEALTH"

\* Bytes of a packet: 7 or 6 doubles, or status, length and the name "GYRO".
PacketSize(p) ==
    6 + CASE p = "ATTITUDE" -> 56
          [] p = "ORBIT"    -> 48
          [] p = "HEALTH"   -> 6

\* A double is two bytes here, in memory <<its number, 0>>; appendDouble and
\* readDouble each reverse the bytes.
AppendDouble(n) == Reverse(<<n, 0>>)
ReadDouble(bytes) == Reverse(bytes)[1]

\* The fields of the payload, each a sequence of bytes.
Packet == [apid: Kinds, seq: 0..(FieldSize - 1), payload: Seq(Seq(Nat)), size: Nat]

DownlinkTypeOK ==
    /\ made \in [Kinds -> Nat]
    /\ store \in [Kinds -> Value]
    /\ timer \in [Kinds -> Nat]
    /\ todo \in Seq(Kinds)
    /\ q \in Nat
    /\ q # 0 => todo # <<>> /\ IsPair(Head(todo))
    /\ count \in [Kinds -> 0..(CounterSize - 1)]
    /\ packets \in Seq(Packet)
    /\ link \in Seq(Packet)
    /\ ground \in [Kinds -> Value]
    /\ heard \in [Kinds -> 0..(FieldSize - 1)]
    /\ missed \in [Kinds -> 0..(FieldSize - 1)]

\* Zero until something is received.
FreshGround == [p \in Kinds |-> <<0, 0>>]

DownlinkInit ==
    /\ made = [p \in Kinds |-> 0]
    /\ store = [p \in Kinds |-> <<0, 0>>]
    /\ timer = [p \in Kinds |-> 0]
    /\ todo = <<>>
    /\ q = 0
    /\ count = [p \in Kinds |-> 0]
    /\ packets = <<>>
    /\ link = <<>>
    /\ ground = FreshGround
    /\ heard = [p \in Kinds |-> FieldSize - 1]
    /\ missed = [p \in Kinds |-> 0]

(***************************************************************************)
(* The store.  publish, get and Reset hold its mutex for the whole call.   *)
(***************************************************************************)
\* The publications of a pair alternate between its two topics.
Publish(p) ==
    LET n == made[p] + 1
    IN  /\ n <= MaxMade[p]
        /\ made' = [made EXCEPT ![p] = n]
        /\ store' = [store EXCEPT ![p] =
                        IF IsPair(p) /\ n % 2 = 0 THEN <<@[1], n>> ELSE <<n, @[2]>>]
        /\ UNCHANGED <<managerVars, groundVars>>

\* A topic nobody published, or with a value of another type, has none.
Get(p, i) == store[p][i]

ResetStore ==
    /\ store' = [p \in Kinds |-> <<0, 0>>]
    /\ UNCHANGED <<made, managerVars, groundVars>>

(***************************************************************************)
(* TelemetryManager::update, one step per access to the store.             *)
(***************************************************************************)
Updating == todo # <<>>

Due(p) == timer[p] >= Period[p]

\* The code's update never waits and its buffer has no limit.  MaxBuffer bounds
\* the exploration: a behaviour may end there, and no property relies on it.
BeginUpdate(dt) ==
    /\ ~Updating
    /\ timer' = [p \in Kinds |-> timer[p] + dt]
    /\ todo' = Products
    /\ Len(link) + Len(packets) + Cardinality({p \in Kinds : Due(p)'}) <= MaxBuffer
    /\ UNCHANGED <<storeVars, q, count, packets, groundVars>>

\* encodeAttitude, encodeOrbit, encodeHealth: seven or six doubles come
\* down to two, a status is a byte.
Payload(p, v) ==
    IF IsPair(p) THEN <<AppendDouble(v[1]), AppendDouble(v[2])>> ELSE << <<v[1]>> >>

\* Mutant: the counter goes into the field without a mask.
PreparePacketUnmasked(p, payload) ==
    [apid |-> p, seq |-> count[p], payload |-> payload, size |-> PacketSize(p)]

\* The header has 14 bits for the sequence count.
PreparePacket(p, payload) ==
    [apid |-> p, seq |-> count[p] % FieldSize, payload |-> payload, size |-> PacketSize(p)]

Encode(p, v) == PreparePacket(p, Payload(p, v))

\* The end of a product's branch: the timer starts again in any case.
EndBranch ==
    /\ timer' = [timer EXCEPT ![Head(todo)] = 0]
    /\ todo' = Tail(todo)
    /\ q' = 0

\* Mutant: a number is used up for a packet that is not made.
SkipCounted ==
    /\ EndBranch
    /\ count' = [count EXCEPT ![Head(todo)] = (@ + 1) % CounterSize]
    /\ UNCHANGED packets

\* A get failed: no packet.
Skip ==
    /\ EndBranch
    /\ UNCHANGED <<count, packets>>

Generate(v) ==
    /\ EndBranch
    /\ packets' = Append(packets, Encode(Head(todo), v))
    /\ count' = [count EXCEPT ![Head(todo)] = (@ + 1) % CounterSize]

\* The timer has not run out: the branch is not taken.
NotDue ==
    /\ Updating
    /\ ~Due(Head(todo))
    /\ todo' = Tail(todo)
    /\ UNCHANGED <<storeVars, timer, q, count, packets, groundVars>>

FirstGet ==
    LET p == Head(todo)
        v == Get(p, 1)
    IN  /\ Updating
        /\ Due(p)
        /\ q = 0
        /\ \/ v = 0 /\ Skip
           \/ v # 0 /\ ~IsPair(p) /\ Generate(<<v, 0>>)
           \/ v # 0 /\ IsPair(p) /\ q' = v /\ UNCHANGED <<timer, todo, count, packets>>
        /\ UNCHANGED <<storeVars, groundVars>>

SecondGet ==
    LET w == Get(Head(todo), 2)
    IN  /\ q # 0
        /\ \/ w = 0 /\ Skip
           \/ w # 0 /\ Generate(<<q, w>>)
        /\ UNCHANGED <<storeVars, groundVars>>

\* Mutant: the topics of a pair are read in the opposite order.
UpdateStepSwapped ==
    LET p == Head(todo)
        v == Get(p, 1)
        w == Get(p, 2)
    IN  \/ \E dt \in Steps : BeginUpdate(dt)
        \/ NotDue
        \/ /\ Updating
           /\ Due(p)
           /\ \/ q = 0 /\ IsPair(p) /\ w = 0 /\ Skip
              \/ q = 0 /\ IsPair(p) /\ w # 0 /\ q' = w /\ UNCHANGED <<timer, todo, count, packets>>
              \/ q # 0 /\ v # 0 /\ Generate(<<v, q>>)
              \/ (q # 0 \/ ~IsPair(p)) /\ v = 0 /\ Skip
              \/ ~IsPair(p) /\ v # 0 /\ Generate(<<v, 0>>)
           /\ UNCHANGED <<storeVars, groundVars>>

UpdateStep == (\E dt \in Steps : BeginUpdate(dt)) \/ NotDue \/ FirstGet \/ SecondGet

(***************************************************************************)
(* The contact.                                                            *)
(***************************************************************************)
Decoded(p, payload) ==
    IF IsPair(p) THEN <<ReadDouble(payload[1]), ReadDouble(payload[2])>> ELSE <<payload[1][1], 0>>

\* Mutant: the size check is off by one.
IsWholeLonger(packet) == packet.size > PacketSize(packet.apid)

IsWhole(packet) == packet.size >= PacketSize(packet.apid)

\* The link keeps the order, and may cut off the end of a packet or, as the
\* case of all its bytes, lose it.
Received(cut) ==
    [Head(link) EXCEPT !.size = IF @ > cut THEN @ - cut ELSE 0]

\* One packet in the loop of processTelemetry; too short a one changes nothing.
ProcessTelemetry(cut) ==
    LET packet == Received(cut)
        p == packet.apid
    IN  /\ link # <<>>
        /\ link' = Tail(link)
        /\ \/ /\ IsWhole(packet)
              /\ ground' = [ground EXCEPT ![p] = Decoded(p, packet.payload)]
              /\ heard' = [heard EXCEPT ![p] = packet.seq]
              /\ missed' = [missed EXCEPT ![p] = 0]
           \/ /\ ~IsWhole(packet)
              /\ missed' = [missed EXCEPT ![p] = (@ + 1) % FieldSize]
              /\ UNCHANGED <<ground, heard>>
        /\ UNCHANGED <<storeVars, managerVars>>

\* Mutant: the buffer is copied.
FlushPacketsCopies ==
    /\ ~Updating
    /\ link = <<>>
    /\ packets # <<>>
    /\ link' = packets
    /\ UNCHANGED <<storeVars, managerVars, ground, heard, missed>>

\* flushPackets waits for an update to end.  The next flush comes when the
\* packets of the last one are through.
FlushPackets ==
    /\ ~Updating
    /\ link = <<>>
    /\ packets # <<>>
    /\ link' = packets
    /\ packets' = <<>>
    /\ UNCHANGED <<storeVars, timer, todo, q, count, ground, heard, missed>>

Contact == FlushPackets \/ \E cut \in Cuts : ProcessTelemetry(cut)

\* A packet of product p arrives as it was sent.
CleanContact(p) == link # <<>> /\ Head(link).apid = p /\ ProcessTelemetry(0)

DownlinkNext ==
    \/ \E p \in Kinds : Publish(p)
    \/ ResetStore
    \/ UpdateStep
    \/ Contact

\* Nobody has to do anything.
DownlinkSpec == DownlinkInit /\ [][DownlinkNext]_downlinkVars

(***************************************************************************)
(* Properties                                                              *)
(***************************************************************************)
Lags(v) == v[2] # 0 /\ v[2] < v[1] - 1

\* What the ground will show of a packet.
Content(packet) == Decoded(packet.apid, packet.payload)

\* The two values of a packet are read under two locks, and publications,
\* or a Reset of the store, may come in between: even so the second is never
\* older than the one published just before the first, on board, on the link or
\* on the ground.  (It may be newer than the first by any number of publications.)
PairNeverLags ==
    /\ \A i \in DOMAIN packets : ~Lags(Content(packets[i]))
    /\ \A i \in DOMAIN link : ~Lags(Content(link[i]))
    /\ \A p \in Kinds : ~Lags(ground[p])

\* What the ground shows is never replaced by something older, although
\* packets are lost and cut and nothing on the ground looks at their sequence
\* counts: every packet is sent once, and in order.
GroundNeverGoesBack ==
    [][\A p \in Kinds : ground'[p][1] >= ground[p][1] /\ ground'[p][2] >= ground[p][2]]_groundVars

\* The packets of product p among the first n of ps.
Among(ps, p, n) == Cardinality({i \in 1..n : ps[i].apid = p})

\* Sequence counts account for every packet: the next number is the last one
\* the ground has used, plus one, plus the packets lost since and those still
\* on the way, modulo the 14 bits of the field.  No number is skipped when a get
\* fails or when the wider counter wraps, so a gap on the ground is a loss.
GapsAreLosses ==
    \A p \in Kinds :
        LET waiting == Among(link, p, Len(link)) + Among(packets, p, Len(packets))
        IN  count[p] % FieldSize = (heard[p] + 1 + missed[p] + waiting) % FieldSize

\* A product that stops changing arrives, provided that packets of it go on
\* being made and arriving whole: once the store keeps the same values of it, the
\* ground comes to show them and keeps showing them, however many older packets
\* were waiting, and whatever is lost in between.  One packet is not enough, as
\* it may be an old one; that the later ones are newer is the code's part.
GroundCatchesUp ==
    \A p \in Kinds :
        (/\ <>[][store'[p] = store[p]]_storeVars
         /\ <>[](store[p][1] # 0 /\ (IsPair(p) => store[p][2] # 0))
         /\ []<><<CleanContact(p)>>_downlinkVars)
            => <>[](ground[p] = store[p])
=============================================================================
