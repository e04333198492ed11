---------------------------- MODULE CommandPath ----------------------------
(***************************************************************************)
(* A telecommand from the ground station to the control law: the encoding  *)
(* in sim/GroundStation, the parser, the queue of CommandManager, the      *)
(* commands themselves, which publish to the DataStore, and the            *)
(* subscribers, FlightSoftware (guidance) and AttitudeController (gains).  *)
(* All of it happens within one call of FlightSoftware::step: the queue is *)
(* empty again when update returns, and publish runs the subscribers       *)
(* before it returns, so neither keeps state between two steps.  Nothing   *)
(* polls the values of these topics.                                       *)
(*                                                                         *)
(* The link is not part of the program: step is handed any packets, whole, *)
(* cut short, repeated, in any order, and packets that are no commands.    *)
(***************************************************************************)
EXTENDS Integers, Sequences, FiniteSetsExt

CONSTANTS
    Targets,       \* quaternions [w, x, y, z] the ground may ask for
    GainSets,      \* gains [kp, ki, kd] the ground may ask for
    InitialGains,  \* [nominal, large]: nominal_pid and large_error_pid of the configuration
    Identity,      \* the initial target_q_
    Cuts,          \* numbers of bytes that may be missing at the end of a packet
    MaxRaw         \* bound: packets handed to one step

Quaternion == [w: Int, x: Int, y: Int, z: Int]

Gains == [kp: Int, ki: Int, kd: Int]

ASSUME CommandAssumption ==
    /\ Targets \subseteq Quaternion
    /\ Identity \in Quaternion
    /\ GainSets \subseteq Gains
    /\ InitialGains \in [nominal: Gains, large: Gains]
    /\ Cuts \subseteq Nat
    /\ MaxRaw \in Nat

VARIABLES
    guidance,  \* [mode, target]: guidance_mode_, target_q_
    gains,     \* [nominal, large]: the two PID configurations of the controller
    pid,       \* [kp, ki, kd]: the gains the PID loops work with
    aim,       \* target.q of the last step, NoAim if it was in SAFE
    wanted     \* history: what the commands received whole amount to

commandVars == <<guidance, gains, pid, aim, wanted>>

(***************************************************************************)
(* GroundStation.  Of the header only what the parser looks at is kept;    *)
(* size is the number of bytes: 6 of header, 1 of secondary header, 8 per  *)
(* double, 1 per bool.                                                     *)
(***************************************************************************)
HeaderSize == 6

CommandSize == HeaderSize + 1

CommandPacket(code, fields, bytes) ==
    [type |-> 1, apid |-> "GNC", code |-> code, fields |-> fields, size |-> CommandSize + bytes]

CreateSlewToNadirCommand == CommandPacket("SLEW_TO_NADIR", <<>>, 0)

CreateSlewToTargetCommand(q) == CommandPacket("POINT_TARGET", <<q.x, q.y, q.z, q.w>>, 32)

CreateSetPidGainsCommand(g, nominal) ==
    CommandPacket("SET_GAINS", <<g.kp, g.ki, g.kd, nominal>>, 25)

(***************************************************************************)
(* What the ground asks for, and the packets that are no command: a        *)
(* telemetry packet, another APID, and SLEW_TO_SUN, which CommandProtocol  *)
(* names and the parser does not know.                                     *)
(***************************************************************************)
SlewRequests == {[kind |-> "nadir"]} \cup [kind: {"target"}, q: Targets]

GainRequests == [kind: {"gains"}, g: GainSets, nominal: BOOLEAN]

ForeignPackets ==
    {[CreateSlewToNadirCommand EXCEPT !.type = 0],
     [CreateSlewToNadirCommand EXCEPT !.apid = "SYSTEM"],
     [CreateSlewToNadirCommand EXCEPT !.code = "SLEW_TO_SUN"]}

ForeignRequests == [kind: {"foreign"}, packet: ForeignPackets]

Requests == SlewRequests \cup GainRequests \cup ForeignRequests

Encode(req) ==
    CASE req.kind = "nadir"   -> CreateSlewToNadirCommand
      [] req.kind = "target"  -> CreateSlewToTargetCommand(req.q)
      [] req.kind = "gains"   -> CreateSetPidGainsCommand(req.g, req.nominal)
      [] req.kind = "foreign" -> req.packet

\* A request on the link, with the bytes that got lost at its end.
Received == [request: Requests, cut: Cuts]

RawPacket(r) == [Encode(r.request) EXCEPT !.size = @ - r.cut]

(***************************************************************************)
(* CommandParser and CommandParameterReader.                               *)
(***************************************************************************)
\* A double that is not there whole reads as zero, a bool as false.
ReadDouble(p, i) == IF CommandSize + 8 * i > p.size THEN 0 ELSE p.fields[i]

ReadBool(p, i) == IF CommandSize + 8 * (i - 1) + 1 > p.size THEN FALSE ELSE p.fields[i]

RemainingSize(p) == p.size - CommandSize

NoCommand == [name |-> "none"]

\* Mutant: the size of the gains forgets the bool behind the doubles.
ParseShortGains(p) ==
    IF p.size < HeaderSize \/ p.type # 1 \/ p.size < CommandSize \/ p.apid # "GNC" THEN NoCommand
    ELSE IF p.code = "SLEW_TO_NADIR"
    THEN [name |-> "SlewToNadir"]
    ELSE IF p.code = "SET_GAINS" /\ RemainingSize(p) >= 24
    THEN [name    |-> "SetPidGains",
          gains   |-> [kp |-> ReadDouble(p, 1), ki |-> ReadDouble(p, 2), kd |-> ReadDouble(p, 3)],
          nominal |-> ReadBool(p, 4)]
    ELSE IF p.code = "POINT_TARGET" /\ RemainingSize(p) >= 32
    THEN [name   |-> "SlewToTarget",
          target |-> [x |-> ReadDouble(p, 1), y |-> ReadDouble(p, 2),
                      z |-> ReadDouble(p, 3), w |-> ReadDouble(p, 4)]]
    ELSE NoCommand

Parse(p) ==
    IF p.size < HeaderSize \/ p.type # 1 \/ p.size < CommandSize \/ p.apid # "GNC" THEN NoCommand
    ELSE IF p.code = "SLEW_TO_NADIR"
    THEN [name |-> "SlewToNadir"]
    ELSE IF p.code = "SET_GAINS" /\ RemainingSize(p) >= 25
    THEN [name    |-> "SetPidGains",
          gains   |-> [kp |-> ReadDouble(p, 1), ki |-> ReadDouble(p, 2), kd |-> ReadDouble(p, 3)],
          nominal |-> ReadBool(p, 4)]
    ELSE IF p.code = "POINT_TARGET" /\ RemainingSize(p) >= 32
    THEN [name   |-> "SlewToTarget",
          target |-> [x |-> ReadDouble(p, 1), y |-> ReadDouble(p, 2),
                      z |-> ReadDouble(p, 3), w |-> ReadDouble(p, 4)]]
    ELSE NoCommand

(***************************************************************************)
(* The commands, through the DataStore, on the state s of the subscribers: *)
(* [guidance, gains, pid].                                                 *)
(***************************************************************************)
\* The PID loops blend the proportional and derivative gains of the two
\* configurations; a blend is the pair of what is blended.
Unblended(g) == [kp |-> <<g.kp, g.kp>>, ki |-> g.ki, kd |-> <<g.kd, g.kd>>]

SetGains(s, g, nominal) ==
    IF nominal
    THEN [s EXCEPT !.gains.nominal = g, !.pid = Unblended(g)]
    ELSE [s EXCEPT !.gains.large = g]

\* publish runs the one subscriber of a topic before it returns.
Publish(s, topic, data) ==
    CASE topic = "guidance/target_mode"       -> [s EXCEPT !.guidance.mode = data]
      [] topic = "guidance/target_quaternion" -> [s EXCEPT !.guidance.target = data]
      [] topic = "gnc/att_gains"              -> SetGains(s, data.gains, data.nominal)

SlewToNadir(s) == Publish(s, "guidance/target_mode", "NADIR")

SlewToTarget(s, q) ==
    Publish(Publish(s, "guidance/target_quaternion", q), "guidance/target_mode", "TARGET")

SetPidGains(s, payload) == Publish(s, "gnc/att_gains", payload)

\* What parse did not know was not queued.
Execute(s, cmd) ==
    CASE cmd.name = "none"         -> s
      [] cmd.name = "SlewToNadir"  -> SlewToNadir(s)
      [] cmd.name = "SlewToTarget" -> SlewToTarget(s, cmd.target)
      [] cmd.name = "SetPidGains"  -> SetPidGains(s, [gains |-> cmd.gains, nominal |-> cmd.nominal])

\* Mutant: the newest command is executed first.
CommandQueueReversed(raw) ==
    [i \in 1..Len(raw) |-> Parse(RawPacket(raw[Len(raw) + 1 - i]))]

\* What parse returned is queued, in the order of the packets.
CommandQueue(raw) == [i \in 1..Len(raw) |-> Parse(RawPacket(raw[i]))]

\* The subscribers after each of the first n commands.
Executions(s, queue, n) ==
    LET after[i \in 0..n] == IF i = 0 THEN s ELSE Execute(after[i - 1], queue[i])
    IN  after

\* The queue is executed to its end.
Update(s, raw) == Executions(s, CommandQueue(raw), Len(raw))[Len(raw)]

(***************************************************************************)
(* Guidance and the gain schedule of AttitudeController::update.           *)
(***************************************************************************)
NoAim == [at |-> "none", q |-> <<>>]

AimOf(g) ==
    CASE g.mode = "NADIR"  -> [at |-> "nadir", q |-> <<>>]
      [] g.mode = "TARGET" -> [at |-> "target", q |-> <<g.target>>]
      [] OTHER             -> [at |-> "sun", q |-> <<>>]

\* Small errors use the nominal gains, large ones the proportional and the
\* derivative gain of the other set; the integral gain stays nominal.
Schedule(gs, error) ==
    LET blend(a, b) == CASE error = "small" -> <<a, a>>
                         [] error = "large" -> <<b, b>>
                         [] OTHER           -> <<a, b>>
    IN  [kp |-> blend(gs.nominal.kp, gs.large.kp),
         ki |-> gs.nominal.ki,
         kd |-> blend(gs.nominal.kd, gs.large.kd)]

(***************************************************************************)
(* The history variable: the last request of each kind that arrived whole. *)
(***************************************************************************)
\* The slew commands that arrived whole, and the gain commands for either set.
IsSlew(r) == r.cut = 0 /\ r.request \in SlewRequests

IsGains(r, nominal) == r.cut = 0 /\ r.request \in GainRequests /\ r.request.nominal = nominal

AimedAt(q) ==
    IF q.kind = "nadir" THEN [at |-> "nadir", q |-> <<>>] ELSE [at |-> "target", q |-> <<q.q>>]

WantedAfter(raw) ==
    LET slews   == {i \in DOMAIN raw : IsSlew(raw[i])}
        sets(n) == {i \in DOMAIN raw : IsGains(raw[i], n)}
    IN  [aim     |-> IF slews = {} THEN wanted.aim ELSE AimedAt(raw[Max(slews)].request),
         nominal |-> IF sets(TRUE) = {} THEN wanted.nominal ELSE raw[Max(sets(TRUE))].request.g,
         large   |-> IF sets(FALSE) = {} THEN wanted.large ELSE raw[Max(sets(FALSE))].request.g]

(***************************************************************************)
(* One call of step.  Whether the mode is SAFE in it, and how large the    *)
(* attitude error is, is up to the mode manager and the plant.             *)
(***************************************************************************)
CommandInit ==
    /\ guidance = [mode |-> "SUN", target |-> Identity]
    /\ gains = InitialGains
    /\ pid = Unblended(InitialGains.nominal)
    /\ aim = NoAim
    /\ wanted = [aim |-> AimOf(guidance), nominal |-> gains.nominal, large |-> gains.large]

CommandStep(raw, safe, error) ==
    LET s == Update([guidance |-> guidance, gains |-> gains, pid |-> pid], raw)
    IN  /\ guidance' = s.guidance
        /\ gains' = s.gains
        /\ pid' = IF safe THEN s.pid ELSE Schedule(s.gains, error)
        /\ aim' = IF safe THEN NoAim ELSE AimOf(s.guidance)
        /\ wanted' = WantedAfter(raw)

RawCommands == UNION {[1..n -> Received] : n \in 0..MaxRaw}

CommandNext ==
    \E raw \in RawCommands, safe \in BOOLEAN, error \in {"small", "between", "large"} :
        CommandStep(raw, safe, error)

CommandSpec == CommandInit /\ [][CommandNext]_commandVars

(***************************************************************************)
(* Properties                                                              *)
(***************************************************************************)
CommandTypeOK ==
    /\ guidance \in [mode: {"SUN", "NADIR", "TARGET"}, target: Quaternion]
    /\ gains \in [nominal: Gains, large: Gains]
    /\ pid \in [kp: Int \X Int, ki: Int, kd: Int \X Int]

\* Outside SAFE the attitude controller is pointed, in the same step, at what
\* the last slew command that arrived whole asked for, component by component:
\* a packet that was cut short, misrouted or unknown changes nothing, and a
\* target is not disturbed by the commands around it in the same step.
AimsAsCommanded == aim # NoAim => aim = wanted.aim

\* The gains the PID loops run with are those of the last gain commands that
\* arrived whole: each set keeps its own, their integral gain is the nominal
\* one at all times, and a step that points blends exactly these two sets,
\* although a step in SAFE leaves an older blend in the loops.
GainsAsCommanded ==
    /\ gains = [nominal |-> wanted.nominal, large |-> wanted.large]
    /\ pid.ki = wanted.nominal.ki
    /\ aim # NoAim =>
           pid \in {Schedule([nominal |-> wanted.nominal, large |-> wanted.large], error) :
                      error \in {"small", "between", "large"}}
=============================================================================
