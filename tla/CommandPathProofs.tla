-------------------------- MODULE CommandPathProofs --------------------------
(***************************************************************************)
(* The command path, proved for any number of packets in a step, any       *)
(* targets and gains, and any bytes missing.                               *)
(***************************************************************************)
EXTENDS CommandPath, WellFoundedInduction, TLAPS

(***************************************************************************)
(* Induction.  A set of numbers that is not empty has a smallest one.      *)
(***************************************************************************)

\* The order of the natural numbers is well-founded.
LEMMA SmallestNumber ==
    ASSUME NEW T \in SUBSET Nat, T # {}
    PROVE  \E n \in T : \A m \in T : n <= m
  <1> DEFINE R == {ss \in Nat \X Nat : ss[1] < ss[2]}
  <1>1. IsWellFoundedOn(R, Nat)
    BY NatLessThanWellFounded DEF OpToRel
  <1>2. PICK n \in T : \A m \in T : ~(<<m, n>> \in R)
    <2> HIDE DEF R
    <2> QED  BY <1>1, WFMin
  <1>3. ASSUME NEW m \in T PROVE n <= m
    <2>1. m \in Nat /\ n \in Nat
      OBVIOUS
    <2>2. m < n => <<m, n>> \in R
      BY <2>1
    <2> QED  BY <1>2, <2>1, <2>2
  <1> QED  BY <1>3

\* A set that has 0, and with every number below n the next one, has 0 to n.
LEMMA UpTo ==
    ASSUME NEW n \in Nat, NEW S, 0 \in S, \A i \in 1..n : i - 1 \in S => i \in S
    PROVE  0..n \subseteq S
  <1> SUFFICES ASSUME (0..n) \ S # {} PROVE FALSE
    OBVIOUS
  <1>1. PICK m \in (0..n) \ S : \A k \in (0..n) \ S : m <= k
    <2>1. (0..n) \ S \in SUBSET Nat
      OBVIOUS
    <2> QED  BY <2>1, SmallestNumber
  <1>2. m \in 1..n /\ m - 1 \in 0..n /\ ~(m <= m - 1)
    BY <1>1
  <1>3. m - 1 \in S
    BY <1>1, <1>2
  <1> QED  BY <1>1, <1>2, <1>3

\* f starts with s and goes on with the steps 1 to n.
GoesOn(f, n, s, step) == f[0] = s /\ \A i \in 1..n : f[i] = step[i][f[i - 1]]

\* There is such a function, if each step stays in a set.
LEMMA RecursionExists ==
    ASSUME NEW n \in Nat, NEW S, NEW s \in S, NEW step \in [1..n -> [S -> S]]
    PROVE  \E f \in [0..n -> S] : GoesOn(f, n, s, step)
  <1> DEFINE T == {m \in 0..n : \E f \in [0..m -> S] : GoesOn(f, m, s, step)}
  <1>1. 0 \in T
    <2> DEFINE f == [i \in 0..0 |-> s]
    <2>1. f \in [0..0 -> S] /\ GoesOn(f, 0, s, step)
      BY DEF GoesOn
    <2> HIDE DEF f
    <2>2. 0 \in 0..n
      OBVIOUS
    <2> QED  BY <2>1, <2>2
  <1>2. ASSUME NEW i \in 1..n, i - 1 \in T PROVE i \in T
    <2>1. PICK f \in [0..(i - 1) -> S] : GoesOn(f, i - 1, s, step)
      BY <1>2
    <2> DEFINE g == [j \in 0..i |-> IF j = i THEN step[i][f[i - 1]] ELSE f[j]]
    <2>2. \A j \in 0..(i - 1) : g[j] = f[j]
      OBVIOUS
    <2>3. f[i - 1] \in S /\ step[i][f[i - 1]] \in S
      OBVIOUS
    <2>4. g \in [0..i -> S]
      BY <2>3
    <2>5. ASSUME NEW j \in 1..i PROVE g[j] = step[j][g[j - 1]]
      <3>1. CASE j = i
        BY <2>2, <3>1
      <3>2. CASE j # i
        <4>1. j \in 1..(i - 1) /\ j \in 0..(i - 1) /\ j - 1 \in 0..(i - 1)
          BY <3>2
        <4>2. f[j] = step[j][f[j - 1]]
          BY <2>1, <4>1 DEF GoesOn
        <4> QED  BY <2>2, <4>1, <4>2
      <3> QED  BY <3>1, <3>2
    <2>6. GoesOn(g, i, s, step)
      <3>1. 0 \in 0..(i - 1) /\ f[0] = s
        BY <2>1 DEF GoesOn
      <3>2. g[0] = s
        BY <2>2, <3>1
      <3> HIDE DEF g
      <3> QED  BY <2>5, <3>2 DEF GoesOn
    <2> HIDE DEF g
    <2>7. i \in 0..n
      OBVIOUS
    <2> QED  BY <2>4, <2>6, <2>7
  <1>3. n \in T
    <2> HIDE DEF T
    <2>1. 0..n \subseteq T
      BY <1>1, <1>2, UpTo
    <2> QED  BY <2>1
  <1> QED  BY <1>3

(***************************************************************************)
(* The commands of a step, one after the other.                            *)
(***************************************************************************)
Subscribers ==
    [guidance: [mode: {"SUN", "NADIR", "TARGET"}, target: Quaternion],
     gains: [nominal: Gains, large: Gains],
     pid: [kp: Int \X Int, ki: Int, kd: Int \X Int]]

\* Each command works on what the one before it has left.
LEMMA ExecutionsGoOn ==
    ASSUME NEW s \in Subscribers, NEW n \in Nat, NEW queue,
           \A i \in 1..n, t \in Subscribers : Execute(t, queue[i]) \in Subscribers
    PROVE  /\ Executions(s, queue, n) \in [0..n -> Subscribers]
           /\ Executions(s, queue, n)[0] = s
           /\ \A i \in 1..n : Executions(s, queue, n)[i] = Execute(Executions(s, queue, n)[i - 1], queue[i])
  <1> DEFINE step == [i \in 1..n |-> [t \in Subscribers |-> Execute(t, queue[i])]]
             Good(f) == f = [i \in 0..n |-> IF i = 0 THEN s ELSE Execute(f[i - 1], queue[i])]
  <1>1. step \in [1..n -> [Subscribers -> Subscribers]]
    OBVIOUS
  <1>2. PICK f \in [0..n -> Subscribers] : GoesOn(f, n, s, step)
    <2> HIDE DEF step
    <2> QED  BY <1>1, RecursionExists
  <1>3. ASSUME NEW i \in 1..n PROVE step[i][f[i - 1]] = Execute(f[i - 1], queue[i])
    <2>1. f[i - 1] \in Subscribers
      <3>1. i - 1 \in 0..n
        OBVIOUS
      <3> QED  BY <3>1
    <2> QED  BY <2>1
  <1>4. Good(f)
    <2> HIDE DEF step
    <2>1. \A i \in 0..n : f[i] = IF i = 0 THEN s ELSE Execute(f[i - 1], queue[i])
      <3>1. ASSUME NEW i \in 1..n PROVE f[i] = Execute(f[i - 1], queue[i])
        BY <1>2, <1>3 DEF GoesOn
      <3>2. \A i \in 0..n : i = 0 \/ i \in 1..n
        OBVIOUS
      <3> QED  BY <1>2, <3>1, <3>2 DEF GoesOn
    <2>2. f = [i \in 0..n |-> f[i]]
      OBVIOUS
    <2> QED  BY <2>1, <2>2
  <1> DEFINE e == Executions(s, queue, n)
  <1>5. e = CHOOSE g : Good(g)
    BY DEF Executions
  <1>6. Good(e)
    <2> HIDE DEF Good, e
    <2> QED  BY <1>4, <1>5
  <1> HIDE DEF e
  <1>7. e[0] = s /\ \A i \in 1..n : e[i] = Execute(e[i - 1], queue[i])
    <2>1. ASSUME NEW i \in 0..n PROVE e[i] = IF i = 0 THEN s ELSE Execute(e[i - 1], queue[i])
      <3> DEFINE h == [j \in 0..n |-> IF j = 0 THEN s ELSE Execute(e[j - 1], queue[j])]
      <3>1. h[i] = IF i = 0 THEN s ELSE Execute(e[i - 1], queue[i])
        OBVIOUS
      <3>2. e = h
        BY <1>6
      <3> HIDE DEF h
      <3> QED  BY <3>1, <3>2
    <2>2. 0 \in 0..n /\ \A i \in 1..n : i \in 0..n /\ i # 0
      OBVIOUS
    <2> HIDE DEF Good, step
    <2> QED  BY <2>1, <2>2
  <1>8. 0..n \subseteq {i \in 0..n : e[i] \in Subscribers}
    <2> DEFINE S == {i \in 0..n : e[i] \in Subscribers}
    <2>1. 0 \in S
      BY <1>7
    <2>2. \A i \in 1..n : i - 1 \in S => i \in S
      BY <1>7
    <2> HIDE DEF S
    <2>3. 0..n \subseteq S
      BY <2>1, <2>2, UpTo
    <2> QED  BY <2>3 DEF S
  <1>9. e \in [0..n -> Subscribers]
    <2>1. e = [i \in 0..n |-> e[i]]
      BY <1>6
    <2>2. \A i \in 0..n : e[i] \in Subscribers
      BY <1>8
    <2> QED  BY <2>1, <2>2
  <1> QED  BY <1>7, <1>9 DEF e

(***************************************************************************)
(* Parsing takes back what the ground encoded, if it arrived whole, and    *)
(* nothing else.                                                           *)
(***************************************************************************)

\* A slew to nadir.
LEMMA ParseNadir ==
    ASSUME NEW r \in Received, r.request = [kind |-> "nadir"]
    PROVE  Parse(RawPacket(r)) = IF r.cut = 0 THEN [name |-> "SlewToNadir"] ELSE NoCommand
  <1> DEFINE p == RawPacket(r)
  <1>1. r.cut \in Nat
    BY CommandAssumption DEF Received
  <1>2. Encode(r.request) = [type |-> 1, apid |-> "GNC", code |-> "SLEW_TO_NADIR", fields |-> <<>>, size |-> 7]
    BY DEF Encode, CreateSlewToNadirCommand, CommandPacket, CommandSize, HeaderSize
  <1>3. p.type = 1 /\ p.apid = "GNC" /\ p.code = "SLEW_TO_NADIR" /\ p.size = 7 - r.cut
    BY <1>2 DEF RawPacket
  <1> HIDE DEF p
  <1>4. CASE r.cut = 0
    BY <1>1, <1>3, <1>4 DEF Parse, HeaderSize, CommandSize, p
  <1>5. CASE r.cut # 0
    BY <1>1, <1>3, <1>5 DEF Parse, HeaderSize, CommandSize, p
  <1> QED  BY <1>4, <1>5

\* A slew to a target.
LEMMA ParseTarget ==
    ASSUME NEW r \in Received, NEW q \in Targets, r.request = [kind |-> "target", q |-> q]
    PROVE  Parse(RawPacket(r)) = IF r.cut = 0 THEN [name |-> "SlewToTarget", target |-> q] ELSE NoCommand
  <1> DEFINE p == RawPacket(r)
             f == <<q.x, q.y, q.z, q.w>>
  <1>1. r.cut \in Nat /\ q \in Quaternion
    BY CommandAssumption DEF Received
  <1>2. Encode(r.request) = [type |-> 1, apid |-> "GNC", code |-> "POINT_TARGET", fields |-> f, size |-> 39]
    BY DEF Encode, CreateSlewToTargetCommand, CommandPacket, CommandSize, HeaderSize
  <1>3. p.type = 1 /\ p.apid = "GNC" /\ p.code = "POINT_TARGET" /\ p.size = 39 - r.cut /\ p.fields = f
    BY <1>2 DEF RawPacket
  <1>4. f[1] = q.x /\ f[2] = q.y /\ f[3] = q.z /\ f[4] = q.w
    OBVIOUS
  <1> HIDE DEF p, f
  <1>5. CASE r.cut = 0
    <2>1. p.size = 39
      BY <1>3, <1>5
    <2>2. ReadDouble(p, 1) = q.x /\ ReadDouble(p, 2) = q.y /\ ReadDouble(p, 3) = q.z /\ ReadDouble(p, 4) = q.w
      BY <1>3, <1>4, <2>1 DEF ReadDouble, HeaderSize, CommandSize
    <2>3. q = [x |-> q.x, y |-> q.y, z |-> q.z, w |-> q.w]
      BY <1>1 DEF Quaternion
    <2>4. Parse(p) = [name |-> "SlewToTarget",
                      target |-> [x |-> ReadDouble(p, 1), y |-> ReadDouble(p, 2),
                                  z |-> ReadDouble(p, 3), w |-> ReadDouble(p, 4)]]
      BY <1>3, <2>1 DEF Parse, RemainingSize, HeaderSize, CommandSize
    <2> QED  BY <1>5, <2>2, <2>3, <2>4 DEF p
  <1>6. CASE r.cut # 0
    BY <1>1, <1>3, <1>6 DEF Parse, RemainingSize, HeaderSize, CommandSize, p
  <1> QED  BY <1>5, <1>6

\* A set of gains.
LEMMA ParseGains ==
    ASSUME NEW r \in Received, NEW g \in GainSets, NEW b \in BOOLEAN,
           r.request = [kind |-> "gains", g |-> g, nominal |-> b]
    PROVE  Parse(RawPacket(r)) = IF r.cut = 0 THEN [name |-> "SetPidGains", gains |-> g, nominal |-> b] ELSE NoCommand
  <1> DEFINE p == RawPacket(r)
             f == <<g.kp, g.ki, g.kd, b>>
  <1>1. r.cut \in Nat /\ g \in Gains
    BY CommandAssumption DEF Received
  <1>2. Encode(r.request) = [type |-> 1, apid |-> "GNC", code |-> "SET_GAINS", fields |-> f, size |-> 32]
    BY DEF Encode, CreateSetPidGainsCommand, CommandPacket, CommandSize, HeaderSize
  <1>3. p.type = 1 /\ p.apid = "GNC" /\ p.code = "SET_GAINS" /\ p.size = 32 - r.cut /\ p.fields = f
    BY <1>2 DEF RawPacket
  <1>4. f[1] = g.kp /\ f[2] = g.ki /\ f[3] = g.kd /\ f[4] = b
    OBVIOUS
  <1> HIDE DEF p, f
  <1>5. CASE r.cut = 0
    <2>1. p.size = 32
      BY <1>3, <1>5
    <2>2. ReadDouble(p, 1) = g.kp /\ ReadDouble(p, 2) = g.ki /\ ReadDouble(p, 3) = g.kd
      BY <1>3, <1>4, <2>1 DEF ReadDouble, HeaderSize, CommandSize
    <2>b. ReadBool(p, 4) = b
      <3>1. ~(CommandSize + 8 * (4 - 1) + 1 > p.size)
        BY <2>1 DEF HeaderSize, CommandSize
      <3>2. ReadBool(p, 4) = p.fields[4]
        BY <3>1, Zenon DEF ReadBool
      <3> QED  BY <1>3, <1>4, <3>2, Zenon
    <2>3. g = [kp |-> g.kp, ki |-> g.ki, kd |-> g.kd]
      BY <1>1 DEF Gains
    <2>4. Parse(p) = [name    |-> "SetPidGains",
                      gains   |-> [kp |-> ReadDouble(p, 1), ki |-> ReadDouble(p, 2), kd |-> ReadDouble(p, 3)],
                      nominal |-> ReadBool(p, 4)]
      BY <1>3, <2>1 DEF Parse, RemainingSize, HeaderSize, CommandSize
    <2> QED  BY <1>5, <2>2, <2>b, <2>3, <2>4 DEF p
  <1>6. CASE r.cut # 0
    BY <1>1, <1>3, <1>6 DEF Parse, RemainingSize, HeaderSize, CommandSize, p
  <1> QED  BY <1>5, <1>6

\* A packet that is no command.
LEMMA ParseForeign ==
    ASSUME NEW r \in Received, NEW f \in ForeignPackets, r.request = [kind |-> "foreign", packet |-> f]
    PROVE  Parse(RawPacket(r)) = NoCommand
  <1> DEFINE p == RawPacket(r)
  <1>1. r.cut \in Nat
    BY CommandAssumption DEF Received
  <1>2. Encode(r.request) = f
    BY DEF Encode
  <1>3. /\ f.type = 0 \/ f.apid = "SYSTEM" \/ f.code = "SLEW_TO_SUN"
        /\ f \in [type: {0, 1}, apid: {"GNC", "SYSTEM"}, code: {"SLEW_TO_NADIR", "SLEW_TO_SUN"}, fields: {<<>>}, size: {7}]
    BY DEF ForeignPackets, CreateSlewToNadirCommand, CommandPacket, CommandSize, HeaderSize
  <1>4. p.type = f.type /\ p.apid = f.apid /\ p.code = f.code /\ p.size = 7 - r.cut
    BY <1>2, <1>3 DEF RawPacket
  <1> HIDE DEF p
  <1>5. p.size < 7 \/ p.size = 7
    BY <1>1, <1>4
  <1> QED  BY <1>1, <1>3, <1>4, <1>5 DEF Parse, HeaderSize, CommandSize, p

(***************************************************************************)
(* What a received packet does to the subscribers.                         *)
(***************************************************************************)

\* The three parts of the subscribers' state.
State(guide, gain, loops) == [guidance |-> guide, gains |-> gain, pid |-> loops]

\* A slew command sets the guidance and nothing else.
LEMMA ExecuteSlew ==
    ASSUME NEW s \in Subscribers, NEW q \in Quaternion
    PROVE  /\ Execute(s, [name |-> "SlewToNadir"])
                = State([mode |-> "NADIR", target |-> s.guidance.target], s.gains, s.pid)
           /\ Execute(s, [name |-> "SlewToTarget", target |-> q])
                = State([mode |-> "TARGET", target |-> q], s.gains, s.pid)
  <1> DEFINE m == s.guidance.mode
             t == s.guidance.target
             u == State([mode |-> m, target |-> q], s.gains, s.pid)
  <1>1. s = State([mode |-> m, target |-> t], s.gains, s.pid)
    BY DEF Subscribers, State
  <1>2. Execute(s, [name |-> "SlewToNadir"]) = [s EXCEPT !.guidance.mode = "NADIR"]
    BY DEF Execute, SlewToNadir, Publish
  <1>3. [s EXCEPT !.guidance.mode = "NADIR"] = State([mode |-> "NADIR", target |-> t], s.gains, s.pid)
    BY <1>1 DEF State
  <1>4. Execute(s, [name |-> "SlewToTarget", target |-> q])
          = [[s EXCEPT !.guidance.target = q] EXCEPT !.guidance.mode = "TARGET"]
    BY DEF Execute, SlewToTarget, Publish
  <1>5. [s EXCEPT !.guidance.target = q] = u
    BY <1>1 DEF State
  <1>6. [u EXCEPT !.guidance.mode = "TARGET"] = State([mode |-> "TARGET", target |-> q], s.gains, s.pid)
    BY DEF State
  <1> QED  BY <1>2, <1>3, <1>4, <1>5, <1>6

\* A gain command sets the gains of its set, those of the nominal set in the PID
\* loops as well.
LEMMA ExecuteGains ==
    ASSUME NEW s \in Subscribers, NEW g \in Gains, NEW b \in BOOLEAN
    PROVE  Execute(s, [name |-> "SetPidGains", gains |-> g, nominal |-> b])
             = IF b THEN State(s.guidance, [nominal |-> g, large |-> s.gains.large], Unblended(g))
                    ELSE State(s.guidance, [nominal |-> s.gains.nominal, large |-> g], s.pid)
  <1> DEFINE n == s.gains.nominal
             l == s.gains.large
  <1>1. s = State(s.guidance, [nominal |-> n, large |-> l], s.pid)
    BY DEF Subscribers, State
  <1>2. Execute(s, [name |-> "SetPidGains", gains |-> g, nominal |-> b])
          = IF b THEN [s EXCEPT !.gains.nominal = g, !.pid = Unblended(g)] ELSE [s EXCEPT !.gains.large = g]
    BY DEF Execute, SetPidGains, Publish, SetGains
  <1>3. [s EXCEPT !.gains.nominal = g, !.pid = Unblended(g)]
          = State(s.guidance, [nominal |-> g, large |-> l], Unblended(g))
    <2> DEFINE v == State(s.guidance, [nominal |-> g, large |-> l], s.pid)
               u == Unblended(g)
    <2>1. [s EXCEPT !.gains.nominal = g] = v
      BY <1>1 DEF State
    <2>2. [v EXCEPT !.pid = u] = State(s.guidance, [nominal |-> g, large |-> l], u)
      <3> HIDE DEF u
      <3> QED  BY DEF State
    <2>3. [s EXCEPT !.gains.nominal = g, !.pid = u] = [[s EXCEPT !.gains.nominal = g] EXCEPT !.pid = u]
      <3> HIDE DEF u
      <3> QED  BY <1>1 DEF State
    <2> QED  BY <2>1, <2>2, <2>3
  <1>4. [s EXCEPT !.gains.large = g] = State(s.guidance, [nominal |-> n, large |-> g], s.pid)
    BY <1>1 DEF State
  <1> QED  BY <1>2, <1>3, <1>4

\* In one line per kind of packet.
Effect(s, r, t) ==
    /\ t \in Subscribers
    /\ AimOf(t.guidance) = IF IsSlew(r) THEN AimedAt(r.request) ELSE AimOf(s.guidance)
    /\ t.gains.nominal = IF IsGains(r, TRUE) THEN r.request.g ELSE s.gains.nominal
    /\ t.gains.large = IF IsGains(r, FALSE) THEN r.request.g ELSE s.gains.large
    /\ s.pid.ki = s.gains.nominal.ki => t.pid.ki = t.gains.nominal.ki

\* The kinds of requests exclude each other.
LEMMA RequestKinds ==
    ASSUME NEW r \in Received
    PROVE  \/ r.request = [kind |-> "nadir"] /\ r.request \in SlewRequests /\ r.request \notin GainRequests
           \/ \E q \in Targets : r.request = [kind |-> "target", q |-> q]
                                 /\ r.request \in SlewRequests /\ r.request \notin GainRequests
           \/ \E g \in GainSets, b \in BOOLEAN :
                 /\ r.request = [kind |-> "gains", g |-> g, nominal |-> b]
                 /\ r.request \in GainRequests /\ r.request \notin SlewRequests
           \/ \E f \in ForeignPackets : r.request = [kind |-> "foreign", packet |-> f]
                                        /\ r.request \notin SlewRequests /\ r.request \notin GainRequests
  <1>1. r.request \in Requests
    BY DEF Received
  <1>2. r.request.kind = "nadir" \/ r.request.kind = "target" <=> r.request \in SlewRequests
    BY <1>1 DEF Requests, SlewRequests, GainRequests, ForeignRequests
  <1>3. r.request.kind = "gains" <=> r.request \in GainRequests
    BY <1>1 DEF Requests, SlewRequests, GainRequests, ForeignRequests
  <1>4. CASE r.request = [kind |-> "nadir"]
    BY <1>2, <1>3, <1>4
  <1>5. CASE r.request \in [kind: {"target"}, q: Targets]
    <2>1. PICK q \in Targets : r.request = [kind |-> "target", q |-> q]
      BY <1>5
    <2> QED  BY <1>2, <1>3, <2>1
  <1>6. CASE r.request \in GainRequests
    <2>1. PICK g \in GainSets, b \in BOOLEAN : r.request = [kind |-> "gains", g |-> g, nominal |-> b]
      BY <1>6 DEF GainRequests
    <2> QED  BY <1>2, <1>3, <2>1
  <1>7. CASE r.request \in ForeignRequests
    <2>1. PICK f \in ForeignPackets : r.request = [kind |-> "foreign", packet |-> f]
      BY <1>7 DEF ForeignRequests
    <2> QED  BY <1>2, <1>3, <2>1
  <1> QED  BY <1>1, <1>4, <1>5, <1>6, <1>7 DEF Requests, SlewRequests

\* Every packet has this effect.
LEMMA PacketEffect ==
    ASSUME NEW s \in Subscribers, NEW r \in Received
    PROVE  Effect(s, r, Execute(s, Parse(RawPacket(r))))
  <1> DEFINE t == Execute(s, Parse(RawPacket(r)))
  <1>s. /\ s.guidance \in [mode: {"SUN", "NADIR", "TARGET"}, target: Quaternion]
        /\ s.gains \in [nominal: Gains, large: Gains]
        /\ s.pid \in [kp: Int \X Int, ki: Int, kd: Int \X Int]
    BY DEF Subscribers
  <1>n. ASSUME Parse(RawPacket(r)) = NoCommand, ~IsSlew(r), ~IsGains(r, TRUE), ~IsGains(r, FALSE)
        PROVE  Effect(s, r, t)
    <2>1. t = s
      BY <1>n DEF Execute, NoCommand
    <2> QED  BY <1>n, <2>1 DEF Effect
  <1>1. ASSUME r.request = [kind |-> "nadir"], r.request \in SlewRequests, r.request \notin GainRequests
        PROVE  Effect(s, r, t)
    <2>1. CASE r.cut = 0
      <3> DEFINE g == [mode |-> "NADIR", target |-> s.guidance.target]
      <3>1. t = State(g, s.gains, s.pid)
        <4>1. PICK q : q \in Quaternion
          BY CommandAssumption
        <4> QED  BY <1>1, <2>1, <4>1, ParseNadir, ExecuteSlew
      <3>2. t.guidance = g /\ t.gains = s.gains /\ t.pid = s.pid
        BY <3>1 DEF State
      <3>3. AimOf(g) = [at |-> "nadir", q |-> <<>>] /\ AimedAt(r.request) = [at |-> "nadir", q |-> <<>>]
        BY <1>1 DEF AimOf, AimedAt
      <3>4. t \in Subscribers
        BY <1>s, <3>1 DEF State, Subscribers
      <3>5. IsSlew(r) /\ ~IsGains(r, TRUE) /\ ~IsGains(r, FALSE)
        BY <1>1, <2>1 DEF IsSlew, IsGains
      <3> HIDE DEF t, g
      <3> QED  BY <3>2, <3>3, <3>4, <3>5 DEF Effect
    <2>2. CASE r.cut # 0
      BY <1>1, <1>n, <2>2, ParseNadir DEF IsSlew, IsGains
    <2> QED  BY <2>1, <2>2
  <1>2. ASSUME NEW q \in Targets, r.request = [kind |-> "target", q |-> q],
               r.request \in SlewRequests, r.request \notin GainRequests
        PROVE  Effect(s, r, t)
    <2>1. CASE r.cut = 0
      <3> DEFINE g == [mode |-> "TARGET", target |-> q]
      <3>0. q \in Quaternion
        BY CommandAssumption
      <3>1. t = State(g, s.gains, s.pid)
        BY <1>2, <2>1, <3>0, ParseTarget, ExecuteSlew
      <3>2. t.guidance = g /\ t.gains = s.gains /\ t.pid = s.pid
        BY <3>1 DEF State
      <3>3. AimOf(g) = [at |-> "target", q |-> <<q>>] /\ AimedAt(r.request) = [at |-> "target", q |-> <<q>>]
        BY <1>2 DEF AimOf, AimedAt
      <3>4. t \in Subscribers
        BY <1>s, <3>0, <3>1 DEF State, Subscribers
      <3>5. IsSlew(r) /\ ~IsGains(r, TRUE) /\ ~IsGains(r, FALSE)
        BY <1>2, <2>1 DEF IsSlew, IsGains
      <3> HIDE DEF t, g
      <3> QED  BY <3>2, <3>3, <3>4, <3>5 DEF Effect
    <2>2. CASE r.cut # 0
      BY <1>2, <1>n, <2>2, ParseTarget DEF IsSlew, IsGains
    <2> QED  BY <2>1, <2>2
  <1>3. ASSUME NEW g \in GainSets, NEW b \in BOOLEAN, r.request = [kind |-> "gains", g |-> g, nominal |-> b],
               r.request \in GainRequests, r.request \notin SlewRequests
        PROVE  Effect(s, r, t)
    <2>0. g \in Gains /\ r.request.g = g /\ r.request.nominal = b
      BY <1>3, CommandAssumption
    <2>c. CASE r.cut = 0
      <3>1. t = Execute(s, [name |-> "SetPidGains", gains |-> g, nominal |-> b])
        BY <1>3, <2>c, ParseGains
      <3>2. ~IsSlew(r) /\ (IsGains(r, TRUE) <=> b = TRUE) /\ (IsGains(r, FALSE) <=> b = FALSE)
        BY <1>3, <2>0, <2>c, Zenon DEF IsSlew, IsGains
      <3>3. CASE b = TRUE
        <4> DEFINE n == [nominal |-> g, large |-> s.gains.large]
        <4>1. t = State(s.guidance, n, Unblended(g))
          BY <2>0, <3>1, <3>3, ExecuteGains
        <4>2. t.guidance = s.guidance /\ t.gains = n /\ t.pid = Unblended(g)
          BY <4>1 DEF State
        <4>3. Unblended(g) \in [kp: Int \X Int, ki: Int, kd: Int \X Int] /\ Unblended(g).ki = g.ki
          BY <2>0 DEF Unblended, Gains
        <4>4. t \in Subscribers
          <5>1. n \in [nominal: Gains, large: Gains]
            BY <1>s, <2>0
          <5> HIDE DEF n
          <5> QED  BY <1>s, <4>1, <4>3, <5>1 DEF State, Subscribers
        <4>5. IsGains(r, TRUE) /\ ~IsGains(r, FALSE) /\ n.nominal = g /\ n.large = s.gains.large
          BY <3>2, <3>3
        <4> HIDE DEF t, n
        <4> QED  BY <2>0, <3>2, <4>2, <4>3, <4>4, <4>5 DEF Effect
      <3>4. CASE b = FALSE
        <4> DEFINE n == [nominal |-> s.gains.nominal, large |-> g]
        <4>1. t = State(s.guidance, n, s.pid)
          BY <2>0, <3>1, <3>4, ExecuteGains
        <4>2. t.guidance = s.guidance /\ t.gains = n /\ t.pid = s.pid
          BY <4>1 DEF State
        <4>4. t \in Subscribers
          <5>1. n \in [nominal: Gains, large: Gains]
            BY <1>s, <2>0
          <5> HIDE DEF n
          <5> QED  BY <1>s, <4>1, <5>1 DEF State, Subscribers
        <4>5. ~IsGains(r, TRUE) /\ IsGains(r, FALSE) /\ n.nominal = s.gains.nominal /\ n.large = g
          BY <3>2, <3>4
        <4> HIDE DEF t, n
        <4> QED  BY <2>0, <3>2, <4>2, <4>4, <4>5 DEF Effect
      <3> QED  BY <3>3, <3>4
    <2>d. CASE r.cut # 0
      BY <1>3, <1>n, <2>d, ParseGains DEF IsSlew, IsGains
    <2> QED  BY <2>c, <2>d
  <1>4. ASSUME NEW f \in ForeignPackets, r.request = [kind |-> "foreign", packet |-> f],
               r.request \notin SlewRequests, r.request \notin GainRequests
        PROVE  Effect(s, r, t)
    BY <1>4, <1>n, ParseForeign DEF IsSlew, IsGains
  <1> HIDE DEF t
  <1>5. Effect(s, r, t)
    BY <1>1, <1>2, <1>3, <1>4, RequestKinds
  <1> QED  BY <1>5 DEF t

(***************************************************************************)
(* All packets of a step: what counts is the last one of its kind.         *)
(***************************************************************************)

\* The largest of a set of numbers, if there is one.
LEMMA MaxIs ==
    ASSUME NEW H \in SUBSET Nat, NEW m \in H, \A k \in H : k <= m
    PROVE  Max(H) = m
  <1>1. \E x \in H : \A k \in H : x >= k
    OBVIOUS
  <1>2. Max(H) \in H /\ \A k \in H : Max(H) >= k
    BY <1>1 DEF Max
  <1>3. Max(H) \in Nat /\ m \in Nat /\ Max(H) >= m /\ Max(H) <= m
    BY <1>2
  <1> QED  BY <1>3

\* What is set at the numbers of H, and kept at the others, is in the end what
\* was set last.
LEMMA LastCounts ==
    ASSUME NEW n \in Nat, NEW H \in SUBSET (1..n), NEW v, NEW w,
           \A i \in 1..n : v[i] = IF i \in H THEN w[i] ELSE v[i - 1]
    PROVE  v[n] = IF H = {} THEN v[0] ELSE w[Max(H)]
  <1> DEFINE G(m) == H \cap (1..m)
             S == {m \in 0..n : v[m] = IF G(m) = {} THEN v[0] ELSE w[Max(G(m))]}
  <1>1. 0 \in S
    OBVIOUS
  <1>2. ASSUME NEW i \in 1..n, i - 1 \in S PROVE i \in S
    <2>1. v[i - 1] = IF G(i - 1) = {} THEN v[0] ELSE w[Max(G(i - 1))]
      BY <1>2
    <2>2. i \in 0..n /\ v[i] = IF i \in H THEN w[i] ELSE v[i - 1]
      OBVIOUS
    <2>3. CASE i \in H
      <3>1. G(i) \in SUBSET Nat /\ i \in G(i) /\ \A k \in G(i) : k <= i
        BY <2>3
      <3> HIDE DEF G
      <3>2. Max(G(i)) = i
        BY <3>1, MaxIs
      <3> QED  BY <2>2, <2>3, <3>1, <3>2
    <2>4. CASE i \notin H
      <3>1. G(i) = G(i - 1)
        BY <2>4
      <3> HIDE DEF G
      <3> QED  BY <2>1, <2>2, <2>4, <3>1
    <2> QED  BY <2>3, <2>4
  <1>3. n \in S
    <2> HIDE DEF S
    <2>1. 0..n \subseteq S
      BY <1>1, <1>2, UpTo
    <2> QED  BY <2>1
  <1>4. G(n) = H
    OBVIOUS
  <1> HIDE DEF G
  <1> QED  BY <1>3, <1>4

\* The subscribers after all packets of a step.
LEMMA UpdateEffect ==
    ASSUME NEW s \in Subscribers, NEW raw \in RawCommands
    PROVE  LET t       == Update(s, raw)
               slews   == {i \in DOMAIN raw : IsSlew(raw[i])}
               sets(b) == {i \in DOMAIN raw : IsGains(raw[i], b)}
           IN  /\ t \in Subscribers
               /\ AimOf(t.guidance) = IF slews = {} THEN AimOf(s.guidance) ELSE AimedAt(raw[Max(slews)].request)
               /\ t.gains.nominal = IF sets(TRUE) = {} THEN s.gains.nominal ELSE raw[Max(sets(TRUE))].request.g
               /\ t.gains.large = IF sets(FALSE) = {} THEN s.gains.large ELSE raw[Max(sets(FALSE))].request.g
               /\ s.pid.ki = s.gains.nominal.ki => t.pid.ki = t.gains.nominal.ki
  <1>1. PICK n \in Nat : raw \in [1..n -> Received]
    BY DEF RawCommands
  <1>2. DOMAIN raw = 1..n /\ Len(raw) = n /\ \A i \in 1..n : raw[i] \in Received
    BY <1>1
  <1> DEFINE queue == CommandQueue(raw)
             e == Executions(s, queue, n)
  <1>3. \A i \in 1..n : queue[i] = Parse(RawPacket(raw[i]))
    BY <1>2 DEF CommandQueue
  <1> HIDE DEF queue
  <1>4. \A i \in 1..n, t \in Subscribers : Execute(t, queue[i]) \in Subscribers
    BY <1>2, <1>3, PacketEffect DEF Effect
  <1>5. /\ e \in [0..n -> Subscribers]
        /\ e[0] = s
        /\ \A i \in 1..n : e[i] = Execute(e[i - 1], queue[i])
    BY <1>4, ExecutionsGoOn
  <1>t. Update(s, raw) = e[n]
    BY <1>2 DEF Update, queue
  <1> HIDE DEF e
  <1>6. ASSUME NEW i \in 1..n PROVE Effect(e[i - 1], raw[i], e[i])
    <2>1. e[i - 1] \in Subscribers
      <3>1. i - 1 \in 0..n
        OBVIOUS
      <3> QED  BY <1>5, <3>1
    <2>2. e[i] = Execute(e[i - 1], Parse(RawPacket(raw[i])))
      BY <1>3, <1>5
    <2> QED  BY <1>2, <2>1, <2>2, PacketEffect
  <1> DEFINE A == {i \in DOMAIN raw : IsSlew(raw[i])}
             G(b) == {i \in DOMAIN raw : IsGains(raw[i], b)}
  <1>m. /\ A \in SUBSET (1..n) /\ G(TRUE) \in SUBSET (1..n) /\ G(FALSE) \in SUBSET (1..n)
        /\ \A i \in 1..n : (i \in A <=> IsSlew(raw[i])) /\ (i \in G(TRUE) <=> IsGains(raw[i], TRUE))
                            /\ (i \in G(FALSE) <=> IsGains(raw[i], FALSE))
    BY <1>2
  <1>x. /\ A # {} => Max(A) \in 1..n
        /\ G(TRUE) # {} => Max(G(TRUE)) \in 1..n
        /\ G(FALSE) # {} => Max(G(FALSE)) \in 1..n
    <2>1. ASSUME NEW H \in SUBSET (1..n), H # {} PROVE Max(H) \in 1..n
      <3> DEFINE T == {k \in 0..n : \A h \in H : h <= k}
      <3>1. T \in SUBSET Nat /\ n \in T
        OBVIOUS
      <3>2. PICK k \in T : \A j \in T : k <= j
        <4> HIDE DEF T
        <4>1. T # {}
          BY <3>1
        <4> QED  BY <3>1, <4>1, SmallestNumber
      <3>3. k \in H
        <4> SUFFICES ASSUME k \notin H PROVE FALSE
          OBVIOUS
        <4>1. PICK h \in H : TRUE
          BY <2>1
        <4>2. k \in Nat /\ h \in 1..n /\ h <= k /\ \A j \in H : j <= k /\ j # k /\ j \in 1..n
          OBVIOUS
        <4>3. k - 1 \in 0..n /\ \A j \in H : j <= k - 1
          BY <4>2
        <4>4. k - 1 \in T
          BY <4>3
        <4> QED  BY <3>2, <4>2, <4>4
      <3>4. Max(H) = k
        <4>1. H \in SUBSET Nat /\ \A j \in H : j <= k
          OBVIOUS
        <4> QED  BY <3>3, <4>1, MaxIs
      <3> QED  BY <3>3, <3>4
    <2> HIDE DEF A, G
    <2> QED  BY <1>m, <2>1
  <1> HIDE DEF A, G
  <1>7. AimOf(e[n].guidance) = IF A = {} THEN AimOf(s.guidance) ELSE AimedAt(raw[Max(A)].request)
    <2> DEFINE v == [i \in 0..n |-> AimOf(e[i].guidance)]
               w == [i \in 1..n |-> AimedAt(raw[i].request)]
    <2>1. ASSUME NEW i \in 1..n PROVE v[i] = IF i \in A THEN w[i] ELSE v[i - 1]
      <3>1. v[i] = AimOf(e[i].guidance) /\ w[i] = AimedAt(raw[i].request) /\ v[i - 1] = AimOf(e[i - 1].guidance)
        OBVIOUS
      <3>2. AimOf(e[i].guidance) = IF IsSlew(raw[i]) THEN AimedAt(raw[i].request) ELSE AimOf(e[i - 1].guidance)
        BY <1>6 DEF Effect
      <3> HIDE DEF v, w
      <3> QED  BY <1>m, <3>1, <3>2
    <2>2. v[0] = AimOf(s.guidance) /\ v[n] = AimOf(e[n].guidance)
      BY <1>5
    <2>3. A # {} => w[Max(A)] = AimedAt(raw[Max(A)].request)
      BY <1>x
    <2> HIDE DEF v, w
    <2>4. v[n] = IF A = {} THEN v[0] ELSE w[Max(A)]
      BY <1>m, <2>1, LastCounts
    <2> QED  BY <2>2, <2>3, <2>4
  <1>8. e[n].gains.nominal = IF G(TRUE) = {} THEN s.gains.nominal ELSE raw[Max(G(TRUE))].request.g
    <2> DEFINE v == [i \in 0..n |-> e[i].gains.nominal]
               w == [i \in 1..n |-> raw[i].request.g]
               H == G(TRUE)
    <2>1. ASSUME NEW i \in 1..n PROVE v[i] = IF i \in H THEN w[i] ELSE v[i - 1]
      <3>1. v[i] = e[i].gains.nominal /\ w[i] = raw[i].request.g /\ v[i - 1] = e[i - 1].gains.nominal
        OBVIOUS
      <3>2. e[i].gains.nominal = IF IsGains(raw[i], TRUE) THEN raw[i].request.g ELSE e[i - 1].gains.nominal
        BY <1>6 DEF Effect
      <3> HIDE DEF v, w
      <3> QED  BY <1>m, <3>1, <3>2
    <2>2. v[0] = s.gains.nominal /\ v[n] = e[n].gains.nominal
      BY <1>5
    <2>3. H # {} => w[Max(H)] = raw[Max(H)].request.g
      BY <1>x
    <2>h. H \in SUBSET (1..n)
      BY <1>m
    <2> HIDE DEF v, w, H
    <2>4. v[n] = IF H = {} THEN v[0] ELSE w[Max(H)]
      BY <2>1, <2>h, LastCounts
    <2> QED  BY <2>2, <2>3, <2>4 DEF H
  <1>9. e[n].gains.large = IF G(FALSE) = {} THEN s.gains.large ELSE raw[Max(G(FALSE))].request.g
    <2> DEFINE v == [i \in 0..n |-> e[i].gains.large]
               w == [i \in 1..n |-> raw[i].request.g]
               H == G(FALSE)
    <2>1. ASSUME NEW i \in 1..n PROVE v[i] = IF i \in H THEN w[i] ELSE v[i - 1]
      <3>1. v[i] = e[i].gains.large /\ w[i] = raw[i].request.g /\ v[i - 1] = e[i - 1].gains.large
        OBVIOUS
      <3>2. e[i].gains.large = IF IsGains(raw[i], FALSE) THEN raw[i].request.g ELSE e[i - 1].gains.large
        BY <1>6 DEF Effect
      <3> HIDE DEF v, w
      <3> QED  BY <1>m, <3>1, <3>2
    <2>2. v[0] = s.gains.large /\ v[n] = e[n].gains.large
      BY <1>5
    <2>3. H # {} => w[Max(H)] = raw[Max(H)].request.g
      BY <1>x
    <2>h. H \in SUBSET (1..n)
      BY <1>m
    <2> HIDE DEF v, w, H
    <2>4. v[n] = IF H = {} THEN v[0] ELSE w[Max(H)]
      BY <2>1, <2>h, LastCounts
    <2> QED  BY <2>2, <2>3, <2>4 DEF H
  <1>10. ASSUME s.pid.ki = s.gains.nominal.ki PROVE e[n].pid.ki = e[n].gains.nominal.ki
    <2> DEFINE S == {i \in 0..n : e[i].pid.ki = e[i].gains.nominal.ki}
    <2>1. 0 \in S
      BY <1>5, <1>10
    <2>2. ASSUME NEW i \in 1..n, i - 1 \in S PROVE i \in S
      <3>1. e[i - 1].pid.ki = e[i - 1].gains.nominal.ki
        BY <2>2
      <3>2. e[i].pid.ki = e[i].gains.nominal.ki
        BY <1>6, <3>1 DEF Effect
      <3>3. i \in 0..n
        OBVIOUS
      <3> QED  BY <3>2, <3>3
    <2> HIDE DEF S
    <2>3. 0..n \subseteq S
      BY <2>1, <2>2, UpTo
    <2>4. n \in S
      BY <2>3
    <2> QED  BY <2>4 DEF S
  <1>11. e[n] \in Subscribers
    BY <1>5
  <1> QED  BY <1>t, <1>7, <1>8, <1>9, <1>10, <1>11 DEF A, G

(***************************************************************************)
(* The inductive invariant: the subscribers hold what the commands amount  *)
(* to also while nothing is pointed (in SAFE), when the two properties say *)
(* nothing of the target and of the blend in the loops.                    *)
(***************************************************************************)
Errors == {"small", "between", "large"}

CommandInv ==
    /\ CommandTypeOK
    /\ wanted.aim = AimOf(guidance)
    /\ wanted.nominal = gains.nominal
    /\ wanted.large = gains.large
    /\ pid.ki = gains.nominal.ki
    /\ aim # NoAim => /\ aim = AimOf(guidance)
                      /\ \E error \in Errors : pid = Schedule(gains, error)

\* The gains of the configuration, or any two sets of them, blend to gains.
LEMMA ScheduleType ==
    ASSUME NEW gs \in [nominal: Gains, large: Gains], NEW error
    PROVE  /\ Schedule(gs, error) \in [kp: Int \X Int, ki: Int, kd: Int \X Int]
           /\ Schedule(gs, error).ki = gs.nominal.ki
  BY DEF Schedule, Gains

\* Start-up establishes it.
LEMMA CommandInvInit == CommandInit => CommandInv
  <1> SUFFICES ASSUME CommandInit PROVE CommandInv
    OBVIOUS
  <1>1. guidance \in [mode: {"SUN", "NADIR", "TARGET"}, target: Quaternion]
    BY CommandAssumption DEF CommandInit
  <1>2. gains \in [nominal: Gains, large: Gains]
    BY CommandAssumption DEF CommandInit
  <1>3. pid \in [kp: Int \X Int, ki: Int, kd: Int \X Int] /\ pid.ki = gains.nominal.ki
    BY CommandAssumption DEF CommandInit, Unblended, Gains
  <1>4. /\ wanted.aim = AimOf(guidance)
        /\ wanted.nominal = gains.nominal
        /\ wanted.large = gains.large
        /\ aim = NoAim
    BY DEF CommandInit
  <1> QED  BY <1>1, <1>2, <1>3, <1>4 DEF CommandInv, CommandTypeOK

\* Every step preserves it.
LEMMA CommandInvNext == CommandInv /\ [CommandNext]_commandVars => CommandInv'
  <1> SUFFICES ASSUME CommandInv, [CommandNext]_commandVars PROVE CommandInv'
    OBVIOUS
  <1>1. ASSUME NEW raw \in RawCommands, NEW safe \in BOOLEAN, NEW error \in Errors,
               CommandStep(raw, safe, error)
        PROVE  CommandInv'
    <2> DEFINE s == [guidance |-> guidance, gains |-> gains, pid |-> pid]
               t == Update(s, raw)
               A == {i \in DOMAIN raw : IsSlew(raw[i])}
               G(b) == {i \in DOMAIN raw : IsGains(raw[i], b)}
    <2>1. s \in Subscribers
      BY DEF CommandInv, CommandTypeOK, Subscribers
    <2>2. /\ t \in Subscribers
          /\ AimOf(t.guidance) = IF A = {} THEN AimOf(guidance) ELSE AimedAt(raw[Max(A)].request)
          /\ t.gains.nominal = IF G(TRUE) = {} THEN gains.nominal ELSE raw[Max(G(TRUE))].request.g
          /\ t.gains.large = IF G(FALSE) = {} THEN gains.large ELSE raw[Max(G(FALSE))].request.g
          /\ pid.ki = gains.nominal.ki => t.pid.ki = t.gains.nominal.ki
      <3>1. s.guidance = guidance /\ s.gains = gains /\ s.pid = pid
        OBVIOUS
      <3> HIDE DEF s
      <3> QED  BY <2>1, <3>1, UpdateEffect
    <2>3. /\ guidance' = t.guidance
          /\ gains' = t.gains
          /\ pid' = IF safe THEN t.pid ELSE Schedule(t.gains, error)
          /\ aim' = IF safe THEN NoAim ELSE AimOf(t.guidance)
      BY <1>1 DEF CommandStep
    <2>4. /\ wanted'.aim = IF A = {} THEN wanted.aim ELSE AimedAt(raw[Max(A)].request)
          /\ wanted'.nominal = IF G(TRUE) = {} THEN wanted.nominal ELSE raw[Max(G(TRUE))].request.g
          /\ wanted'.large = IF G(FALSE) = {} THEN wanted.large ELSE raw[Max(G(FALSE))].request.g
      BY <1>1 DEF CommandStep, WantedAfter
    <2> HIDE DEF t, A, G
    <2>5. /\ wanted'.aim = AimOf(t.guidance)
          /\ wanted'.nominal = t.gains.nominal
          /\ wanted'.large = t.gains.large
          /\ t.pid.ki = t.gains.nominal.ki
      BY <2>2, <2>4 DEF CommandInv
    <2>6. /\ t.guidance \in [mode: {"SUN", "NADIR", "TARGET"}, target: Quaternion]
          /\ t.gains \in [nominal: Gains, large: Gains]
          /\ t.pid \in [kp: Int \X Int, ki: Int, kd: Int \X Int]
      BY <2>2 DEF Subscribers
    <2>7. /\ pid' \in [kp: Int \X Int, ki: Int, kd: Int \X Int]
          /\ pid'.ki = t.gains.nominal.ki
      BY <2>3, <2>5, <2>6, ScheduleType
    <2>8. aim' # NoAim => aim' = AimOf(t.guidance) /\ pid' = Schedule(t.gains, error)
      BY <2>3
    <2>9. /\ CommandTypeOK'
          /\ wanted'.aim = AimOf(guidance')
          /\ wanted'.nominal = gains'.nominal
          /\ wanted'.large = gains'.large
          /\ pid'.ki = gains'.nominal.ki
      BY <2>3, <2>5, <2>6, <2>7 DEF CommandTypeOK
    <2>10. aim' # NoAim => aim' = AimOf(guidance') /\ pid' = Schedule(gains', error)
      BY <2>3, <2>8
    <2> QED  BY <2>9, <2>10 DEF CommandInv
  <1>2. CASE UNCHANGED commandVars
    BY <1>2 DEF commandVars, CommandInv, CommandTypeOK
  <1> QED  BY <1>1, <1>2 DEF CommandNext, Errors

\* The subscribers always hold what the commands received whole amount to.
LEMMA CommandInvAlways == CommandSpec => []CommandInv
  BY CommandInvInit, CommandInvNext, PTL DEF CommandSpec

\* FlightSoftware::step points at what the last slew command that arrived whole
\* asked for, for every set of targets and gains, any loss at the end of the
\* packets, and any number of packets in a step.
THEOREM AimObeyed == CommandSpec => []AimsAsCommanded
  <1>1. CommandInv => AimsAsCommanded
    BY DEF CommandInv, AimsAsCommanded
  <1> QED  BY <1>1, CommandInvAlways, PTL

\* AttitudeController runs with the gains of the last gain commands that arrived
\* whole, each set its own, under the same assumptions.
THEOREM GainsObeyed == CommandSpec => []GainsAsCommanded
  <1>1. CommandInv => GainsAsCommanded
    <2> SUFFICES ASSUME CommandInv PROVE GainsAsCommanded
      OBVIOUS
    <2>1. gains = [nominal |-> wanted.nominal, large |-> wanted.large]
      BY DEF CommandInv, CommandTypeOK
    <2> QED  BY <2>1 DEF CommandInv, GainsAsCommanded, Errors
  <1> QED  BY <1>1, CommandInvAlways, PTL
==============================================================================
