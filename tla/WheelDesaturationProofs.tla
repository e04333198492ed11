----------------------- MODULE WheelDesaturationProofs -----------------------
(***************************************************************************)
(* Proofs about the simulated wheels (SimRW) and momentum management       *)
(* (WheelDesaturation).                                                    *)
(***************************************************************************)
EXTENDS WheelDesaturation, TLAPS

\* A stuck wheel is at the speed it sticks at, and one with the SATURATED fault
\* is not beyond the momentum limit.
WheelSound(rw) ==
    /\ rw \in RWState
    /\ rw.speed \in SpeedRange
    /\ rw.fault = "STUCK" => rw.speed = rw.stuck
    /\ rw.fault = "SATURATED" => rw.speed \in -MaxMomentum..MaxMomentum

\* The controller's clock and the history variables tell the same time in each
\* state: the cooldown counts the rest, the desaturation its own duration, and
\* the controller is idle only after the rest.
ClockSound ==
    /\ desat.state = "IDLE" => rested > MinTimeBetweenDesat
    /\ desat.state = "COOLDOWN" => rested = desat.time
    /\ desat.state = "DESATURATING" => lasted = desat.time /\ desat.max > 0

DesatInv ==
    /\ DesatTypeOK
    /\ \A i \in 1..3 : WheelSound(wheel[i])
    /\ ClockSound

-----------------------------------------------------------------------------
(***************************************************************************)
(* The wheel.                                                              *)
(***************************************************************************)

\* The quotient of a number that is at most t times n is at most t.
LEMMA DivWithin ==
    ASSUME NEW x \in Int, NEW n \in Nat \ {0}, NEW t \in Nat, x <= t * n, x >= -t * n
    PROVE  x \div n \in -t..t
<1> DEFINE q == x \div n
<1>1. q \in Int /\ n * q <= x /\ x < n * q + n
  OBVIOUS
<1> HIDE DEF q
<1>2. ASSUME q > t PROVE FALSE
  <2>1. q >= t + 1
    BY <1>1, <1>2
  <2>2. n * q >= n * (t + 1)
    BY <2>1, <1>1
  <2>3. n * (t + 1) = t * n + n
    OBVIOUS
  <2> QED BY <1>1, <2>2, <2>3
<1>3. ASSUME q < -t PROVE FALSE
  <2>1. q + 1 <= -t
    BY <1>1, <1>3
  <2>2. n * (q + 1) <= n * (-t)
    BY <2>1, <1>1
  <2>3. n * (q + 1) = n * q + n /\ n * (-t) = -t * n
    BY <1>1
  <2> QED BY <1>1, <2>2, <2>3
<1>4. q \in -t..t
  BY <1>1, <1>2, <1>3
<1> QED BY <1>4 DEF q

\* An efficiency of at most one leaves the motor within its torque limit.
LEMMA MotorWithin ==
    ASSUME NEW t \in -MaxTorque..MaxTorque, NEW e \in 0..Full
    PROVE  (t * e) \div Full \in -MaxTorque..MaxTorque
<1>0. MaxTorque \in Nat /\ Full \in Nat \ {0}
  BY WheelAssumption
<1>1. t * e <= MaxTorque * e /\ MaxTorque * e <= MaxTorque * Full
  BY <1>0
<1>2. t * e >= (-MaxTorque) * e /\ (-MaxTorque) * e >= (-MaxTorque) * Full
  BY <1>0
<1>3. t * e \in Int /\ MaxTorque * e \in Int /\ (-MaxTorque) * e \in Int
      /\ MaxTorque * Full \in Int /\ (-MaxTorque) * Full = -MaxTorque * Full
  BY <1>0
<1> DEFINE x == t * e
<1>4. x \in Int /\ x <= MaxTorque * Full /\ x >= -MaxTorque * Full
  BY <1>1, <1>2, <1>3
<1> HIDE DEF x
<1>5. x \div Full \in -MaxTorque..MaxTorque
  BY <1>0, <1>4, DivWithin
<1> QED BY <1>5 DEF x

\* The net torque before the cut: the motor's, and with friction all of the
\* wheel's momentum as well.
LEMMA MotorTorqueValue ==
    ASSUME NEW rw \in RWState
    PROVE  /\ MotorTorque(rw) \in Int
           /\ Friction = 0 => MotorTorque(rw) \in -MaxTorque..MaxTorque
           /\ Friction = 1 => MotorTorque(rw) + rw.speed \in -MaxTorque..MaxTorque
<1> DEFINE t == IF rw.dead THEN 0 ELSE rw.torque
           motor == (t * rw.eff) \div Full
<1>0. MaxTorque \in Nat /\ Friction \in {0, 1} /\ rw.speed \in Int /\ rw.eff \in 0..Full
  BY WheelAssumption DEF RWState
<1>1. t \in -MaxTorque..MaxTorque
  BY <1>0 DEF RWState
<1>2. motor \in -MaxTorque..MaxTorque
  <2> HIDE DEF t
  <2> QED BY <1>0, <1>1, MotorWithin
<1>3. MotorTorque(rw) = motor - Friction * rw.speed
  BY DEF MotorTorque
<1> HIDE DEF motor
<1> QED BY <1>0, <1>2, <1>3

\* At the momentum limit the net torque never speeds the wheel up.
LEMMA NetTorqueValue ==
    ASSUME NEW rw \in RWState
    PROVE  /\ HeldSpeed(rw) \in Int
           /\ NetTorque(rw) \in Int
           /\ NetTorque(rw) = 0 \/ NetTorque(rw) = MotorTorque(rw)
           /\ (AtLimit(rw) \/ rw.fault = "SATURATED") /\ HeldSpeed(rw) > 0 => NetTorque(rw) <= 0
           /\ (AtLimit(rw) \/ rw.fault = "SATURATED") /\ HeldSpeed(rw) < 0 => NetTorque(rw) >= 0
<1>0. MaxMomentum \in Nat /\ rw.speed \in Int
  BY WheelAssumption DEF RWState
<1>1. HeldSpeed(rw) \in Int
  BY <1>0 DEF HeldSpeed
<1>2. MotorTorque(rw) \in Int
  BY MotorTorqueValue
<1> QED BY <1>1, <1>2 DEF NetTorque

\* One step of a sound wheel: it stays sound, and unless it is held at the
\* limit the body gets what the wheel loses.
LEMMA StepSound ==
    ASSUME NEW rw, WheelSound(rw)
    PROVE  /\ WheelSound(StepRW(rw))
           /\ rw.fault # "SATURATED" => ReactionTorque(rw) = rw.speed - StepRW(rw).speed
<1> DEFINE net == NetTorque(rw)
           held == HeldSpeed(rw)
           motor == MotorTorque(rw)
           after == IF rw.fault = "STUCK" THEN rw.stuck ELSE held + net
<1>0. /\ MaxTorque \in Nat /\ MaxMomentum \in Nat /\ MaxTorque <= MaxMomentum
      /\ Friction \in {0, 1}
      /\ rw \in RWState /\ rw.speed \in Int /\ rw.stuck \in Int
      /\ rw.speed <= MaxMomentum + MaxTorque /\ rw.speed >= -(MaxMomentum + MaxTorque)
  BY WheelAssumption DEF RWState, WheelSound, SpeedRange
<1>1. /\ held \in Int
      /\ net \in Int
      /\ net = 0 \/ net = motor
      /\ (AtLimit(rw) \/ rw.fault = "SATURATED") /\ held > 0 => net <= 0
      /\ (AtLimit(rw) \/ rw.fault = "SATURATED") /\ held < 0 => net >= 0
  BY <1>0, NetTorqueValue
<1>2. /\ motor \in Int
      /\ Friction = 0 => motor \in -MaxTorque..MaxTorque
      /\ Friction = 1 => motor + rw.speed \in -MaxTorque..MaxTorque
  BY <1>0, MotorTorqueValue
<1>3. AtLimit(rw) <=> rw.speed >= MaxMomentum \/ -rw.speed >= MaxMomentum
  BY DEF AtLimit
<1>4. held = IF rw.fault # "SATURATED" THEN rw.speed
             ELSE IF rw.speed >= 0 THEN MaxMomentum ELSE -MaxMomentum
  BY DEF HeldSpeed
<1> HIDE DEF net, held, motor
<1>5. after \in Int /\ after \in -(MaxMomentum + MaxTorque)..(MaxMomentum + MaxTorque)
  <2>1. CASE rw.fault = "STUCK"
    <3>1. after = rw.speed
      BY <2>1 DEF WheelSound
    <3> QED BY <1>0, <3>1
  <2>2. CASE rw.fault = "SATURATED"
    <3>1. rw.speed <= MaxMomentum /\ rw.speed >= -MaxMomentum
      BY <1>0, <2>2 DEF WheelSound
    <3>2. after = held + net
      BY <2>2
    <3>3. CASE net = 0
      BY <1>0, <1>1, <1>4, <3>2, <3>3
    <3>4. CASE net = motor /\ Friction = 0
      BY <1>0, <1>1, <1>2, <1>4, <2>2, <3>2, <3>4
    <3>5. CASE net = motor /\ Friction = 1
      BY <1>0, <1>1, <1>2, <1>4, <2>2, <3>1, <3>2, <3>5
    <3> QED BY <1>0, <1>1, <3>3, <3>4, <3>5
  <2>3. CASE rw.fault # "STUCK" /\ rw.fault # "SATURATED"
    <3>1. after = rw.speed + net /\ held = rw.speed
      BY <1>4, <2>3
    <3>2. CASE net = 0
      BY <1>0, <1>1, <3>1, <3>2
    <3>3. CASE net = motor /\ Friction = 0
      BY <1>0, <1>1, <1>2, <1>3, <3>1, <3>3
    <3>4. CASE net = motor /\ Friction = 1
      BY <1>0, <1>1, <1>2, <3>1, <3>4
    <3> QED BY <1>0, <1>1, <3>2, <3>3, <3>4
  <2> QED BY <2>1, <2>2, <2>3
<1>6. rw.fault = "SATURATED" => after \in -MaxMomentum..MaxMomentum
  <2> SUFFICES ASSUME rw.fault = "SATURATED" PROVE after \in -MaxMomentum..MaxMomentum
    OBVIOUS
  <2>1. rw.speed <= MaxMomentum /\ rw.speed >= -MaxMomentum
    BY <1>0 DEF WheelSound
  <2>2. after = held + net
    OBVIOUS
  <2>3. CASE net = 0
    BY <1>0, <1>1, <1>4, <2>2, <2>3
  <2>4. CASE net = motor /\ Friction = 0
    BY <1>0, <1>1, <1>2, <1>4, <2>2, <2>4
  <2>5. CASE net = motor /\ Friction = 1
    BY <1>0, <1>1, <1>2, <1>4, <2>1, <2>2, <2>5
  <2> QED BY <1>0, <1>1, <2>3, <2>4, <2>5
<1>7. /\ StepRW(rw).speed = after
      /\ StepRW(rw).fault = rw.fault
      /\ StepRW(rw).stuck = rw.stuck
      /\ StepRW(rw) \in RWState
  <2> HIDE DEF after
  <2>1. StepRW(rw) = [rw EXCEPT !.torque = IF rw.dead THEN 0 ELSE @, !.speed = after]
    BY DEF StepRW, after, held, net
  <2>2. (IF rw.dead THEN 0 ELSE rw.torque) \in -MaxTorque..MaxTorque
    BY <1>0 DEF RWState
  <2> QED BY <1>0, <1>5, <2>1, <2>2 DEF RWState
<1>8. rw.fault = "STUCK" => after = rw.stuck
  OBVIOUS
<1>9. WheelSound(StepRW(rw))
  <2> HIDE DEF after
  <2> QED BY <1>5, <1>6, <1>7, <1>8 DEF WheelSound, SpeedRange
<1>10. ASSUME rw.fault # "SATURATED" PROVE ReactionTorque(rw) = rw.speed - StepRW(rw).speed
  <2>1. CASE rw.fault = "STUCK"
    <3>1. after = rw.speed
      BY <2>1 DEF WheelSound
    <3>2. ReactionTorque(rw) = 0
      BY <2>1 DEF ReactionTorque
    <3> QED BY <1>0, <1>7, <3>1, <3>2
  <2>2. CASE rw.fault # "STUCK"
    <3>1. after = rw.speed + net
      BY <1>4, <1>10, <2>2
    <3>2. ReactionTorque(rw) = -net
      BY <2>2 DEF ReactionTorque, net
    <3> QED BY <1>0, <1>1, <1>7, <3>1, <3>2
  <2> QED BY <2>1, <2>2
<1> QED BY <1>9, <1>10

\* The commands and faults keep a wheel sound, whatever state it is in.
LEMMA CallsSound ==
    ASSUME NEW rw, WheelSound(rw)
    PROVE  /\ \A t \in Int : WheelSound(SetTorqueCommand(rw, t))
           /\ WheelSound(InjectDead(rw))
           /\ \A e \in 0..Full : WheelSound(SetEfficiency(rw, e))
           /\ \A v \in SpeedRange : WheelSound(InjectStuck(rw, v))
           /\ WheelSound(InjectSaturated(rw))
           /\ \A e \in 0..Full : WheelSound(InjectDegradedTorque(rw, e))
           /\ WheelSound(ResetFaults(rw))
<1>0. /\ MaxTorque \in Nat /\ MaxMomentum \in Nat /\ Full \in Nat
      /\ rw \in RWState
      /\ SpeedRange \subseteq Int /\ MaxMomentum \in SpeedRange
  BY WheelAssumption DEF WheelSound, SpeedRange
<1>1. ASSUME NEW t \in Int PROVE WheelSound(SetTorqueCommand(rw, t))
  <2>1. Clamp(t, MaxTorque) \in -MaxTorque..MaxTorque
    BY <1>0 DEF Clamp
  <2> QED BY <1>0, <2>1 DEF SetTorqueCommand, WheelSound, RWState
<1>2. WheelSound(InjectDead(rw))
  BY <1>0 DEF InjectDead, WheelSound, RWState
<1>3. ASSUME NEW e \in 0..Full
      PROVE  WheelSound(SetEfficiency(rw, e)) /\ WheelSound(InjectDegradedTorque(rw, e))
  BY <1>0 DEF SetEfficiency, InjectDegradedTorque, WheelSound, RWState, RWFaultType
<1>4. ASSUME NEW v \in SpeedRange PROVE WheelSound(InjectStuck(rw, v))
  BY <1>0 DEF InjectStuck, WheelSound, RWState, RWFaultType
<1>5. WheelSound(InjectSaturated(rw))
  <2> DEFINE r == InjectSaturated(rw)
  <2>1. r \in RWState /\ r.fault = "SATURATED" /\ r.speed = MaxMomentum
    BY <1>0 DEF InjectSaturated, RWState, RWFaultType
  <2>2. MaxMomentum \in -MaxMomentum..MaxMomentum
    BY <1>0
  <2> QED BY <1>0, <2>1, <2>2 DEF WheelSound
<1>6. WheelSound(ResetFaults(rw))
  <2> DEFINE r == ResetFaults(rw)
  <2>1. Full \in 0..Full /\ 0 \in Int
    BY <1>0
  <2>2. r \in RWState /\ r.fault = "NONE" /\ r.speed = rw.speed
    BY <1>0, <2>1 DEF ResetFaults, RWState, RWFaultType
  <2> QED BY <1>0, <2>2 DEF WheelSound
<1> QED BY <1>1, <1>2, <1>3, <1>4, <1>5, <1>6

-----------------------------------------------------------------------------
(***************************************************************************)
(* The controller.                                                         *)
(***************************************************************************)
\* The triple product behind TorqueAcrossMomentum, in components: with the
\* dipole m = -(c x b), c = h x b, the torque m x b has no part along h.
LEMMA TripleProduct ==
    ASSUME NEW h1 \in Int, NEW h2 \in Int, NEW h3 \in Int,
           NEW b1 \in Int, NEW b2 \in Int, NEW b3 \in Int,
           NEW c1 \in Int, NEW c2 \in Int, NEW c3 \in Int,
           NEW m1 \in Int, NEW m2 \in Int, NEW m3 \in Int,
           c1 = h2 * b3 - h3 * b2, c2 = h3 * b1 - h1 * b3, c3 = h1 * b2 - h2 * b1,
           m1 = -(c2 * b3 - c3 * b2), m2 = -(c3 * b1 - c1 * b3), m3 = -(c1 * b2 - c2 * b1)
    PROVE  (m2 * b3 - m3 * b2) * h1 + (m3 * b1 - m1 * b3) * h2 + (m1 * b2 - m2 * b1) * h3 = 0
<1>1. (m2 * b3 - m3 * b2) * h1 + (m3 * b1 - m1 * b3) * h2 + (m1 * b2 - m2 * b1) * h3
        = m1 * (h3 * b2 - h2 * b3) + m2 * (h1 * b3 - h3 * b1) + m3 * (h2 * b1 - h1 * b2)
  OBVIOUS
<1>2. /\ h3 * b2 - h2 * b3 = -c1
      /\ h1 * b3 - h3 * b1 = -c2
      /\ h2 * b1 - h1 * b2 = -c3
  OBVIOUS
<1>3. m1 * (-c1) + m2 * (-c2) + m3 * (-c3)
        = (c2 * b3 - c3 * b2) * c1 + (c3 * b1 - c1 * b3) * c2 + (c1 * b2 - c2 * b1) * c3
  OBVIOUS
<1>4. (c2 * b3 - c3 * b2) * c1 + (c3 * b1 - c1 * b3) * c2 + (c1 * b2 - c2 * b1) * c3 = 0
  OBVIOUS
<1> QED BY <1>1, <1>2, <1>3, <1>4

\* With a whole momentum and field the law is the triple product.
LEMMA LawAcross ==
    ASSUME NEW h1 \in Int, NEW h2 \in Int, NEW h3 \in Int, NEW b \in [1..3 -> Int]
    PROVE  LET h == <<h1, h2, h3>>
               m == ComputeBCrossH(h, b)
           IN  /\ m[1] \in Int /\ m[2] \in Int /\ m[3] \in Int
               /\ Dot(Cross(m, b), h) = 0
<1> DEFINE h == <<h1, h2, h3>>
           c == Cross(h, b)
           m == ComputeBCrossH(h, b)
<1>0. b[1] \in Int /\ b[2] \in Int /\ b[3] \in Int
  OBVIOUS
<1>1. /\ c[1] = h2 * b[3] - h3 * b[2] /\ c[2] = h3 * b[1] - h1 * b[3]
      /\ c[3] = h1 * b[2] - h2 * b[1]
      /\ c[1] \in Int /\ c[2] \in Int /\ c[3] \in Int
  BY <1>0 DEF Cross
<1>2. /\ m[1] = (-1) * (c[2] * b[3] - c[3] * b[2]) /\ m[2] = (-1) * (c[3] * b[1] - c[1] * b[3])
      /\ m[3] = (-1) * (c[1] * b[2] - c[2] * b[1])
  <2> DEFINE k == Cross(c, b)
  <2>1. m[1] = (-1) * k[1] /\ m[2] = (-1) * k[2] /\ m[3] = (-1) * k[3]
    BY DEF ComputeBCrossH, Scaled
  <2>2. /\ k[1] = c[2] * b[3] - c[3] * b[2] /\ k[2] = c[3] * b[1] - c[1] * b[3]
        /\ k[3] = c[1] * b[2] - c[2] * b[1]
    BY DEF Cross
  <2> HIDE DEF c, m, k
  <2> QED BY <2>1, <2>2
<1> HIDE DEF c, m
<1>3. /\ m[1] = -(c[2] * b[3] - c[3] * b[2]) /\ m[2] = -(c[3] * b[1] - c[1] * b[3])
      /\ m[3] = -(c[1] * b[2] - c[2] * b[1])
      /\ m[1] \in Int /\ m[2] \in Int /\ m[3] \in Int
  BY <1>0, <1>1, <1>2
<1>4. (m[2] * b[3] - m[3] * b[2]) * h1 + (m[3] * b[1] - m[1] * b[3]) * h2
        + (m[1] * b[2] - m[2] * b[1]) * h3 = 0
  BY <1>0, <1>1, <1>3, TripleProduct
<1>5. Dot(Cross(m, b), h) = (m[2] * b[3] - m[3] * b[2]) * h1 + (m[3] * b[1] - m[1] * b[3]) * h2
        + (m[1] * b[2] - m[2] * b[1]) * h3
  BY DEF Dot, Cross
<1> QED BY <1>3, <1>4, <1>5 DEF m

\* updateStateMachine stays, or takes one of its three transitions for its reason.
LEMMA MachineMoves ==
    ASSUME NEW d \in [state: State, time: 0..TimeCap, max: Nat], NEW h
    PROVE  LET e == UpdateStateMachine(d, h)
           IN  /\ e \in [state: State, time: 0..TimeCap, max: Nat]
               /\ e.max = d.max
               /\ \/ e = d
                  \/ d.state = "IDLE" /\ Overloaded(h, d.max) /\ e.state = "DESATURATING" /\ e.time = 0
                  \/ /\ d.state = "DESATURATING" /\ e.state = "COOLDOWN" /\ e.time = 0
                     /\ Unloaded(h, d.max) \/ d.time > MaxDesatDuration
                  \/ /\ d.state = "COOLDOWN" /\ e.state = "IDLE" /\ e.time = 0
                     /\ d.time > MinTimeBetweenDesat
<1> DEFINE e == UpdateStateMachine(d, h)
           P == d.state = "IDLE" /\ Overloaded(h, d.max)
           Q == d.state = "DESATURATING" /\ (Unloaded(h, d.max) \/ d.time > MaxDesatDuration)
           R == d.state = "COOLDOWN" /\ d.time > MinTimeBetweenDesat
<1>0. 0 \in 0..TimeCap /\ {"IDLE", "DESATURATING", "COOLDOWN"} \subseteq State
  BY DesatAssumption DEF State, TimeCap
<1>1. CASE P
  <2>1. e = [d EXCEPT !.state = "DESATURATING", !.time = 0]
    BY <1>1 DEF UpdateStateMachine
  <2> QED BY <1>0, <1>1, <2>1
<1>2. CASE Q
  <2>1. e = [d EXCEPT !.state = "COOLDOWN", !.time = 0]
    BY <1>2 DEF UpdateStateMachine
  <2> QED BY <1>0, <1>2, <2>1
<1>3. CASE R
  <2>1. e = [d EXCEPT !.state = "IDLE", !.time = 0]
    BY <1>3 DEF UpdateStateMachine
  <2> QED BY <1>0, <1>3, <2>1
<1>4. CASE ~P /\ ~Q /\ ~R
  <2>1. e = d
    BY <1>4 DEF UpdateStateMachine
  <2> QED BY <2>1
<1> QED BY <1>1, <1>2, <1>3, <1>4

\* The capped clock does not run back, and its cap is beyond the rest time.
LEMMA ElapsedTime ==
    ASSUME NEW t \in 0..TimeCap, NEW dt \in Steps
    PROVE  /\ Elapsed(t, dt) \in 0..TimeCap
           /\ Elapsed(t, dt) >= t
           /\ TimeCap > MinTimeBetweenDesat /\ TimeCap \in Nat
BY DesatAssumption DEF Elapsed, TimeCap

\* The momentum update works on is a whole vector.
LEMMA MomentumWhole ==
    ASSUME DesatInv
    PROVE  \E h1, h2, h3 \in Int : TotalMomentum = <<h1, h2, h3>>
<1>1. \A i \in 1..3 : wheel[i].speed \in Int
  BY DEF DesatInv, DesatTypeOK, RWState
<1>2. CASE listed >= 3
  <2>1. wheel[1].speed \in Int /\ wheel[2].speed \in Int /\ wheel[3].speed \in Int
    BY <1>1
  <2> QED BY <1>2, <2>1 DEF TotalMomentum
<1>3. CASE ~(listed >= 3)
  BY <1>3 DEF TotalMomentum
<1> QED BY <1>2, <1>3

\* update keeps the invariant, starts only after the rest and ends only unloaded or late.
LEMMA UpdateSound ==
    ASSUME DesatInv, NEW b \in Fields, NEW dt \in Steps, Update(b, dt)
    PROVE  /\ DesatInv'
           /\ desat.state # "DESATURATING" /\ desat'.state = "DESATURATING"
                => rested > MinTimeBetweenDesat
           /\ desat.state = "DESATURATING" /\ desat'.state = "COOLDOWN"
                => Unloaded(TotalMomentum, desat.max) \/ lasted' > MaxDesatDuration
<1> DEFINE h == TotalMomentum
           max == IF desat.max > 0 THEN desat.max ELSE TotalMaxMomentum
           time == Elapsed(desat.time, dt)
           d == [desat EXCEPT !.time = time, !.max = max]
<1>1. /\ desat' = UpdateStateMachine(d, h)
      /\ torquer' = SetDipole(DipoleCommand(desat', h, b), b)
      /\ lasted' = IF desat.state = "DESATURATING" THEN Elapsed(lasted, dt) ELSE 0
      /\ rested' = IF desat.state = "DESATURATING" THEN 0 ELSE Elapsed(rested, dt)
      /\ UNCHANGED <<wheel, listed>>
  BY DEF Update
<1>2. /\ desat \in [state: State, time: 0..TimeCap, max: Nat]
      /\ lasted \in 0..TimeCap /\ rested \in 0..TimeCap
      /\ desat.time \in 0..TimeCap /\ desat.max \in Nat
  BY DEF DesatInv, DesatTypeOK
<1>3. max \in Nat
  BY <1>2, WheelAssumption DEF TotalMaxMomentum
<1>4. /\ time \in 0..TimeCap
      /\ Elapsed(rested, dt) \in 0..TimeCap /\ Elapsed(rested, dt) >= rested
      /\ Elapsed(lasted, dt) \in 0..TimeCap
      /\ MinTimeBetweenDesat \in Nat /\ TimeCap \in Nat
  BY <1>2, ElapsedTime, DesatAssumption
<1> HIDE DEF time, max, h
<1>5. /\ d \in [state: State, time: 0..TimeCap, max: Nat]
      /\ d.state = desat.state /\ d.time = time /\ d.max = max
  BY <1>2, <1>3, <1>4
<1> HIDE DEF d
<1>6. /\ desat' \in [state: State, time: 0..TimeCap, max: Nat]
      /\ desat'.max = max
      /\ \/ desat' = d
         \/ /\ d.state = "IDLE" /\ Overloaded(h, max)
            /\ desat'.state = "DESATURATING" /\ desat'.time = 0
         \/ /\ d.state = "DESATURATING" /\ desat'.state = "COOLDOWN" /\ desat'.time = 0
            /\ Unloaded(h, max) \/ time > MaxDesatDuration
         \/ /\ d.state = "COOLDOWN" /\ desat'.state = "IDLE" /\ desat'.time = 0
            /\ time > MinTimeBetweenDesat
  BY <1>1, <1>5, MachineMoves
<1>7. ClockSound
  BY DEF DesatInv
<1>8. ClockSound'
  <2>1. desat'.state = "IDLE" => rested' > MinTimeBetweenDesat
    BY <1>1, <1>2, <1>4, <1>5, <1>6, <1>7 DEF ClockSound, time
  <2>2. desat'.state = "COOLDOWN" => rested' = desat'.time
    BY <1>1, <1>2, <1>4, <1>5, <1>6, <1>7 DEF ClockSound, time
  <2>3. desat'.state = "DESATURATING" => lasted' = desat'.time
    BY <1>1, <1>2, <1>4, <1>5, <1>6, <1>7 DEF ClockSound, time
  <2>4. desat'.state = "DESATURATING" => desat'.max > 0
    BY <1>1, <1>2, <1>4, <1>5, <1>6, <1>7 DEF ClockSound, Overloaded, max
  <2> QED BY <2>1, <2>2, <2>3, <2>4 DEF ClockSound
<1>9. torquer' \in [1..3 -> Int]
  <2>0. b \in [1..3 -> Int]
    BY DesatAssumption
  <2> DEFINE m == DipoleCommand(desat', h, b)
  <2>1. \A i \in 1..3 : m[i] \in Int
    <3>1. PICK h1 \in Int, h2 \in Int, h3 \in Int : h = <<h1, h2, h3>>
      BY MomentumWhole DEF h
    <3> DEFINE k == ComputeBCrossH(h, b)
    <3>2. k[1] \in Int /\ k[2] \in Int /\ k[3] \in Int
      BY <2>0, <3>1, LawAcross
    <3>3. m = k \/ m = <<0, 0, 0>>
      BY DEF DipoleCommand
    <3> HIDE DEF m, k
    <3>4. m[1] \in Int /\ m[2] \in Int /\ m[3] \in Int
      BY <3>2, <3>3
    <3> QED BY <3>4
  <2>2. Dot(b, b) \in Int /\ MaxDipole \in Int
    <3>1. b[1] \in Int /\ b[2] \in Int /\ b[3] \in Int
      BY <2>0
    <3> QED BY <3>1, DesatAssumption DEF Dot
  <2> DEFINE limit == MaxDipole * Dot(b, b)
  <2>3. limit \in Int
    BY <2>2
  <2>4. torquer' = [i \in 1..3 |-> Clamp(m[i], limit)]
    BY <1>1 DEF SetDipole
  <2> HIDE DEF m, limit
  <2>5. \A i \in 1..3 : Clamp(m[i], limit) \in Int
    BY <2>1, <2>3 DEF Clamp
  <2> QED BY <2>4, <2>5
<1>10. lasted' \in 0..TimeCap /\ rested' \in 0..TimeCap
  BY <1>1, <1>4
<1>11. DesatTypeOK'
  BY <1>1, <1>6, <1>9, <1>10 DEF DesatInv, DesatTypeOK
<1>12. DesatInv'
  BY <1>1, <1>8, <1>11 DEF DesatInv
<1>13. ASSUME desat.state # "DESATURATING", desat'.state = "DESATURATING"
       PROVE  rested > MinTimeBetweenDesat
  BY <1>5, <1>6, <1>7, <1>13 DEF ClockSound
<1>14. ASSUME desat.state = "DESATURATING", desat'.state = "COOLDOWN"
       PROVE  Unloaded(h, desat.max) \/ lasted' > MaxDesatDuration
  <2>1. desat.max > 0 /\ lasted = desat.time
    BY <1>7, <1>14 DEF ClockSound
  <2>2. max = desat.max /\ lasted' = time
    BY <1>1, <1>14, <2>1 DEF max, time
  <2>3. Unloaded(h, max) \/ time > MaxDesatDuration
    BY <1>5, <1>6, <1>14
  <2> QED BY <2>2, <2>3
<1> QED BY <1>12, <1>13, <1>14 DEF h

\* The controller starts rested, the wheels at speeds they run at.
LEMMA DesatInitInv == DesatInit => DesatInv
<1> SUFFICES ASSUME DesatInit PROVE DesatInv
  OBVIOUS
<1>0. /\ MaxTorque \in Nat /\ MaxMomentum \in Nat /\ Full \in Nat
      /\ TimeCap \in Nat /\ TimeCap > MinTimeBetweenDesat
  BY WheelAssumption, DesatAssumption DEF TimeCap
<1>1. PICK s \in InitialSpeeds : wheel = [i \in 1..3 |-> FreshRW(s[i])]
  BY DEF DesatInit
<1>2. \A i \in 1..3 : s[i] \in SpeedRange
  BY DesatAssumption
<1>3. \A v \in SpeedRange : FreshRW(v) \in RWState /\ WheelSound(FreshRW(v))
  <2> SUFFICES ASSUME NEW v \in SpeedRange PROVE FreshRW(v) \in RWState /\ WheelSound(FreshRW(v))
    OBVIOUS
  <2>1. v \in Int /\ 0 \in -MaxTorque..MaxTorque /\ Full \in 0..Full
    BY <1>0 DEF SpeedRange
  <2>2. FreshRW(v) \in RWState /\ FreshRW(v).speed = v /\ FreshRW(v).fault = "NONE"
    BY <2>1 DEF FreshRW, RWState, RWFaultType
  <2> QED BY <2>2 DEF WheelSound
<1>4. \A i \in 1..3 : WheelSound(wheel[i])
  BY <1>1, <1>2, <1>3
<1>5. wheel \in [1..3 -> RWState]
  BY <1>1, <1>2, <1>3
<1>6. torquer \in [1..3 -> Int]
  BY DEF DesatInit
<1>7. DesatTypeOK
  BY <1>0, <1>5, <1>6 DEF DesatInit, DesatTypeOK, State
<1>8. ClockSound
  BY <1>0 DEF DesatInit, ClockSound
<1> QED BY <1>4, <1>7, <1>8 DEF DesatInv

\* Only update and reset touch the controller, and only the wheels' own calls
\* touch the wheels.
LEMMA OtherStepsSound ==
    ASSUME DesatInv, Reset \/ StepWheels \/ CommandTorque \/ WheelFault
    PROVE  DesatInv' /\ desat'.state \in {desat.state, "IDLE"}
<1>0. /\ wheel \in [1..3 -> RWState]
      /\ \A i \in 1..3 : WheelSound(wheel[i])
      /\ TimeCap \in Nat /\ TimeCap > MinTimeBetweenDesat
  BY DesatAssumption DEF DesatInv, DesatTypeOK, TimeCap
<1>1. CASE Reset
  <2>1. desat' = [desat EXCEPT !.state = "IDLE", !.time = 0] /\ rested' = TimeCap
        /\ UNCHANGED <<wheel, listed, torquer, lasted>>
    BY <1>1 DEF Reset
  <2>2. desat' \in [state: State, time: 0..TimeCap, max: Nat] /\ desat'.state = "IDLE"
    <3>1. desat \in [state: State, time: 0..TimeCap, max: Nat]
      BY DEF DesatInv, DesatTypeOK
    <3>2. 0 \in 0..TimeCap /\ "IDLE" \in State
      BY <1>0 DEF State
    <3> QED BY <2>1, <3>1, <3>2
  <2>3. DesatTypeOK' /\ ClockSound'
    BY <1>0, <2>1, <2>2 DEF DesatInv, DesatTypeOK, ClockSound
  <2> QED BY <1>0, <2>1, <2>2, <2>3 DEF DesatInv
<1>2. ASSUME UNCHANGED <<listed, desat, torquer, lasted, rested>>,
             wheel' \in [1..3 -> RWState], \A i \in 1..3 : WheelSound(wheel'[i])
      PROVE  DesatInv' /\ desat'.state \in {desat.state, "IDLE"}
  BY <1>2 DEF DesatInv, DesatTypeOK, ClockSound, WheelSound
<1>3. CASE StepWheels
  <2>1. wheel' = [i \in 1..3 |-> StepRW(wheel[i])] /\ UNCHANGED <<listed, desat, torquer, lasted, rested>>
    BY <1>3 DEF StepWheels
  <2>2. \A i \in 1..3 : WheelSound(StepRW(wheel[i]))
    BY <1>0, StepSound
  <2>3. wheel' \in [1..3 -> RWState] /\ \A i \in 1..3 : WheelSound(wheel'[i])
    BY <2>1, <2>2 DEF WheelSound
  <2> QED BY <1>2, <2>1, <2>3
<1>4. ASSUME NEW rw, WheelSound(rw), Wheel1(rw)
      PROVE  DesatInv' /\ desat'.state \in {desat.state, "IDLE"}
  <2>1. wheel' = [wheel EXCEPT ![1] = rw] /\ UNCHANGED <<listed, desat, torquer, lasted, rested>>
    BY <1>4 DEF Wheel1
  <2>2. wheel' \in [1..3 -> RWState] /\ \A i \in 1..3 : WheelSound(wheel'[i])
    BY <1>0, <1>4, <2>1 DEF WheelSound
  <2> QED BY <1>2, <2>1, <2>2
<1>5. WheelSound(wheel[1])
  BY <1>0
<1>6. CASE CommandTorque
  BY <1>4, <1>5, <1>6, CallsSound, DesatAssumption DEF CommandTorque
<1>7. CASE WheelFault
  BY <1>4, <1>5, <1>7, CallsSound, DesatAssumption DEF WheelFault
<1> QED BY <1>1, <1>3, <1>6, <1>7

-----------------------------------------------------------------------------
(***************************************************************************)
(* The theorems.                                                           *)
(***************************************************************************)

\* Every call preserves the invariant.
LEMMA DesatStepInv == DesatInv /\ [DesatNext]_desatVars => DesatInv'
<1> SUFFICES ASSUME DesatInv, [DesatNext]_desatVars PROVE DesatInv'
  OBVIOUS
<1>1. CASE Controller
  BY <1>1, UpdateSound DEF Controller
<1>2. CASE Reset \/ StepWheels \/ CommandTorque \/ WheelFault
  BY <1>2, OtherStepsSound
<1>3. CASE UNCHANGED desatVars
  BY <1>3 DEF desatVars, DesatInv, DesatTypeOK, WheelSound, ClockSound
<1> QED BY <1>1, <1>2, <1>3 DEF DesatNext

\* So it holds throughout.
LEMMA DesatInvariant == DesatSpec => []DesatInv
BY DesatInitInv, DesatStepInv, PTL DEF DesatSpec

\* For every motor, momentum limit and efficiency and whatever faults come and
\* go, no wheel passes its momentum limit by more than the torque of one step.
THEOREM WheelsWithinLimits == DesatSpec => []MomentumBounded
<1>1. DesatInv => MomentumBounded
  BY DEF DesatInv, WheelSound, MomentumBounded
<1> QED BY <1>1, DesatInvariant, PTL

\* The torque a wheel's step puts on the body is the momentum the wheel loses,
\* in every reachable state of a wheel that is not held at its limit.
THEOREM MomentumExchanged == DesatSpec => []ReactionIsMomentumLost
<1>1. DesatInv => ReactionIsMomentumLost
  BY StepSound DEF DesatInv, ReactionIsMomentumLost
<1> QED BY <1>1, DesatInvariant, PTL

\* For every threshold, duration, rest time and sequence of steps dt the
\* controller rests its time out between two desaturations.
THEOREM RestGuaranteed == DesatSpec => RestsBetweenDesaturations
<1>1. DesatInv /\ [DesatNext]_desatVars
        => [desat.state # "DESATURATING" /\ desat'.state = "DESATURATING"
              => rested > MinTimeBetweenDesat]_desatVars
  <2> SUFFICES ASSUME DesatInv, DesatNext,
                      desat.state # "DESATURATING", desat'.state = "DESATURATING"
               PROVE  rested > MinTimeBetweenDesat
    OBVIOUS
  <2>1. CASE Controller
    BY <2>1, UpdateSound DEF Controller
  <2>2. CASE Reset \/ StepWheels \/ CommandTorque \/ WheelFault
    BY <2>2, OtherStepsSound
  <2> QED BY <2>1, <2>2 DEF DesatNext
<1> QED BY <1>1, DesatInvariant, PTL DEF DesatSpec, RestsBetweenDesaturations

\* A desaturation ends below the lower threshold or after its full duration.
THEOREM EndJustified == DesatSpec => EndsUnloadedOrLate
<1>1. DesatInv /\ [DesatNext]_desatVars
        => [desat.state = "DESATURATING" /\ desat'.state = "COOLDOWN"
              => Unloaded(TotalMomentum, desat.max) \/ lasted' > MaxDesatDuration]_desatVars
  <2> SUFFICES ASSUME DesatInv, DesatNext,
                      desat.state = "DESATURATING", desat'.state = "COOLDOWN"
               PROVE  Unloaded(TotalMomentum, desat.max) \/ lasted' > MaxDesatDuration
    OBVIOUS
  <2>1. CASE Controller
    BY <2>1, UpdateSound DEF Controller
  <2>2. CASE Reset \/ StepWheels \/ CommandTorque \/ WheelFault
    BY <2>2, OtherStepsSound
  <2> QED BY <2>1, <2>2 DEF DesatNext
<1> QED BY <1>1, DesatInvariant, PTL DEF DesatSpec, EndsUnloadedOrLate

\* For every field and every momentum: the unsaturated magnetic torque is
\* perpendicular to the momentum it is meant to reduce.
THEOREM TorqueTurnsMomentum == DesatSpec => TorqueAcrossMomentum
<1>1. DesatInv /\ [DesatNext]_desatVars
        => [torquer' # torquer =>
              \A b \in Fields, dt \in Steps :
                  Update(b, dt) /\ torquer' = DipoleCommand(desat', TotalMomentum, b)
                      => Dot(Cross(torquer', b), TotalMomentum) = 0]_desatVars
  <2> SUFFICES ASSUME DesatInv, NEW b \in Fields,
                      torquer' = DipoleCommand(desat', TotalMomentum, b)
               PROVE  Dot(Cross(torquer', b), TotalMomentum) = 0
    OBVIOUS
  <2>1. PICK h1 \in Int, h2 \in Int, h3 \in Int : TotalMomentum = <<h1, h2, h3>>
    BY MomentumWhole
  <2>2. b \in [1..3 -> Int] /\ b[1] \in Int /\ b[2] \in Int /\ b[3] \in Int
    BY DesatAssumption
  <2>3. CASE torquer' = ComputeBCrossH(TotalMomentum, b)
    BY <2>1, <2>2, <2>3, LawAcross
  <2>4. CASE torquer' = <<0, 0, 0>>
    BY <2>1, <2>2, <2>4 DEF Dot, Cross
  <2> QED BY <2>3, <2>4 DEF DipoleCommand
<1> QED BY <1>1, DesatInvariant, PTL DEF DesatSpec, TorqueAcrossMomentum
==============================================================================
