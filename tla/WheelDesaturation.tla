-------------------------- MODULE WheelDesaturation --------------------------
(***************************************************************************)
(* Momentum management (fsw/gnc/control/WheelDesaturation) on the          *)
(* simulated wheels and magnetorquers, as wheel_desaturation_demo.cpp and  *)
(* integration_test.cpp run it: the controller and the wheels are called   *)
(* in turn, torques are commanded and faults injected in between.          *)
(*                                                                         *)
(* Vectors have integer components.  Norms are compared by their squares,  *)
(* which are exact.  A dipole is given in units of desat_gain / |B|^2.     *)
(***************************************************************************)
EXTENDS SimRW

CONSTANTS
    InitialSpeeds,        \* speeds of the three wheels at the start
    Commands,             \* torques commanded to wheel 1
    StuckSpeeds,          \* speeds it may stick at
    Efficiencies,         \* efficiencies it may be given
    ListSizes,            \* lengths of the wheel list that update is called with
    Fields,               \* magnetic fields in the body frame
    Steps,                \* dt of update
    Num, Den,             \* momentum_threshold_ratio = Num / Den
    MaxDesatDuration,     \* max_desat_duration
    MinTimeBetweenDesat,  \* min_time_between_desat
    MinFieldSq,           \* min_b_field_magnitude squared
    MaxDipole             \* of a magnetorquer

\* The speeds a wheel runs at: up to the momentum limit and one step beyond.
SpeedRange == -(MaxMomentum + MaxTorque)..(MaxMomentum + MaxTorque)

\* Wheels start, and are made to stick, at speeds they run at.
ASSUME DesatAssumption ==
    /\ InitialSpeeds \subseteq [1..3 -> SpeedRange]
    /\ Commands \subseteq Int
    /\ StuckSpeeds \subseteq SpeedRange
    /\ Efficiencies \subseteq 0..Full
    /\ ListSizes \subseteq Nat
    /\ Fields \subseteq [1..3 -> Int]
    /\ Steps \subseteq Nat \ {0}
    /\ Num \in Nat \ {0} /\ Den \in Nat \ {0}
    /\ MaxDesatDuration \in Nat
    /\ MinTimeBetweenDesat \in Nat
    /\ MinFieldSq \in Nat
    /\ MaxDipole \in Nat

VARIABLES
    wheel,    \* the three SimRW objects
    listed,   \* how many wheels the embedder hands to update
    desat,    \* state_, time_in_state_, and max_momentum_ squared
    torquer,  \* current_dipole_ of the three magnetorquers
    lasted,   \* history: time since the current desaturation began
    rested    \* history: time since the last one ended

desatVars == <<wheel, listed, desat, torquer, lasted, rested>>

State == {"IDLE", "DESATURATING", "COOLDOWN"}

\* Times are compared with two limits only, and stop above both.
TimeCap == MaxDesatDuration + MinTimeBetweenDesat + 1

Elapsed(t, dt) == IF t + dt > TimeCap THEN TimeCap ELSE t + dt

DesatTypeOK ==
    /\ wheel \in [1..3 -> RWState]
    /\ listed \in ListSizes
    /\ desat \in [state: State, time: 0..TimeCap, max: Nat]
    /\ torquer \in [1..3 -> Int]
    /\ lasted \in 0..TimeCap
    /\ rested \in 0..TimeCap

DesatInit ==
    /\ \E s \in InitialSpeeds : wheel = [i \in 1..3 |-> FreshRW(s[i])]
    /\ listed \in ListSizes
    /\ desat = [state |-> "IDLE", time |-> 0, max |-> 0]
    /\ torquer = <<0, 0, 0>>
    /\ lasted = 0
    /\ rested = TimeCap

(***************************************************************************)
(* Vectors.                                                                *)
(***************************************************************************)
Dot(u, v) == u[1] * v[1] + u[2] * v[2] + u[3] * v[3]

Cross(u, v) ==
    <<u[2] * v[3] - u[3] * v[2], u[3] * v[1] - u[1] * v[3], u[1] * v[2] - u[2] * v[1]>>

Scaled(a, u) == <<a * u[1], a * u[2], a * u[3]>>

(***************************************************************************)
(* The controller.                                                         *)
(***************************************************************************)
\* computeTotalMomentum: the first three wheels are taken as X, Y and Z; a
\* shorter list counts as no momentum.
TotalMomentum ==
    IF listed >= 3 THEN <<wheel[1].speed, wheel[2].speed, wheel[3].speed>> ELSE <<0, 0, 0>>

\* computeMaxMomentum, squared; all wheels are of one kind.
TotalMaxMomentum == IF listed >= 3 THEN 3 * MaxMomentum * MaxMomentum ELSE 0

\* momentum_ratio > momentum_threshold_ratio
Overloaded(h, max) == max > 0 /\ Den * Den * Dot(h, h) > Num * Num * max

\* momentum_ratio < momentum_threshold_ratio * 0.7
Unloaded(h, max) == max = 0 \/ 100 * Den * Den * Dot(h, h) < 49 * Num * Num * max

\* Mutant: the clock runs on from one state to the next.
UpdateStateMachineClockRuns(d, h) ==
    CASE d.state = "IDLE" /\ Overloaded(h, d.max) -> [d EXCEPT !.state = "DESATURATING"]
      [] d.state = "DESATURATING" /\ (Unloaded(h, d.max) \/ d.time > MaxDesatDuration)
            -> [d EXCEPT !.state = "COOLDOWN"]
      [] d.state = "COOLDOWN" /\ d.time > MinTimeBetweenDesat -> [d EXCEPT !.state = "IDLE"]
      [] OTHER -> d

\* Mutant: a desaturation that timed out starts again without cooling down.
UpdateStateMachineNoRest(d, h) ==
    CASE d.state = "IDLE" /\ Overloaded(h, d.max)
            -> [d EXCEPT !.state = "DESATURATING", !.time = 0]
      [] d.state = "DESATURATING" /\ Unloaded(h, d.max)
            -> [d EXCEPT !.state = "COOLDOWN", !.time = 0]
      [] d.state = "DESATURATING" /\ ~Unloaded(h, d.max) /\ d.time > MaxDesatDuration
            -> [d EXCEPT !.state = "IDLE", !.time = 0]
      [] d.state = "COOLDOWN" /\ d.time > MinTimeBetweenDesat
            -> [d EXCEPT !.state = "IDLE", !.time = 0]
      [] OTHER -> d

\* Mutant: there is no timeout.
UpdateStateMachineNoTimeout(d, h) ==
    CASE d.state = "IDLE" /\ Overloaded(h, d.max)
            -> [d EXCEPT !.state = "DESATURATING", !.time = 0]
      [] d.state = "DESATURATING" /\ Unloaded(h, d.max)
            -> [d EXCEPT !.state = "COOLDOWN", !.time = 0]
      [] d.state = "COOLDOWN" /\ d.time > MinTimeBetweenDesat
            -> [d EXCEPT !.state = "IDLE", !.time = 0]
      [] OTHER -> d

UpdateStateMachine(d, h) ==
    CASE d.state = "IDLE" /\ Overloaded(h, d.max)
            -> [d EXCEPT !.state = "DESATURATING", !.time = 0]
      [] d.state = "DESATURATING" /\ (Unloaded(h, d.max) \/ d.time > MaxDesatDuration)
            -> [d EXCEPT !.state = "COOLDOWN", !.time = 0]
      [] d.state = "COOLDOWN" /\ d.time > MinTimeBetweenDesat
            -> [d EXCEPT !.state = "IDLE", !.time = 0]
      [] OTHER -> d

\* Mutant: the dipole is h x B, whose torque is against h.
ComputeBCrossHOnce(h, b) == Cross(h, b)

\* -(h x B) x B; the division by |B|^2 is in the unit.
ComputeBCrossH(h, b) == Scaled(-1, Cross(Cross(h, b), b))

\* The dipole update returns; the field has to be strong enough.
DipoleCommand(d, h, b) ==
    IF d.state = "DESATURATING" /\ Dot(b, b) > MinFieldSq THEN ComputeBCrossH(h, b) ELSE <<0, 0, 0>>

\* SimTorquer::setDipole, one magnetorquer per axis, each saturating by itself.
SetDipole(m, b) == [i \in 1..3 |-> Clamp(m[i], MaxDipole * Dot(b, b))]

Update(b, dt) ==
    LET h == TotalMomentum
        d == [desat EXCEPT !.time = Elapsed(@, dt),
                           !.max = IF @ > 0 THEN @ ELSE TotalMaxMomentum]
    IN  /\ desat' = UpdateStateMachine(d, h)
        /\ torquer' = SetDipole(DipoleCommand(desat', h, b), b)
        /\ lasted' = IF desat.state = "DESATURATING" THEN Elapsed(lasted, dt) ELSE 0
        /\ rested' = IF desat.state = "DESATURATING" THEN 0 ELSE Elapsed(rested, dt)
        /\ UNCHANGED <<wheel, listed>>

\* Reset to IDLE from outside; nothing is promised about the rest after it.
Reset ==
    /\ desat' = [desat EXCEPT !.state = "IDLE", !.time = 0]
    /\ rested' = TimeCap
    /\ UNCHANGED <<wheel, listed, torquer, lasted>>

(***************************************************************************)
(* The wheels.  Wheel 1 is commanded and may fail, the others coast.       *)
(***************************************************************************)
StepWheels ==
    /\ wheel' = [i \in 1..3 |-> StepRW(wheel[i])]
    /\ UNCHANGED <<listed, desat, torquer, lasted, rested>>

Wheel1(rw) ==
    /\ wheel' = [wheel EXCEPT ![1] = rw]
    /\ UNCHANGED <<listed, desat, torquer, lasted, rested>>

CommandTorque == \E t \in Commands : Wheel1(SetTorqueCommand(wheel[1], t))

WheelFault ==
    \/ Wheel1(InjectDead(wheel[1]))
    \/ \E e \in Efficiencies : Wheel1(SetEfficiency(wheel[1], e))
    \/ \E s \in StuckSpeeds : Wheel1(InjectStuck(wheel[1], s))
    \/ Wheel1(InjectSaturated(wheel[1]))
    \/ \E e \in Efficiencies : Wheel1(InjectDegradedTorque(wheel[1], e))
    \/ Wheel1(ResetFaults(wheel[1]))

Controller == \E b \in Fields, dt \in Steps : Update(b, dt)

DesatNext == Controller \/ Reset \/ StepWheels \/ CommandTorque \/ WheelFault

\* The control loop calls update for ever.
DesatSpec ==
    /\ DesatInit
    /\ [][DesatNext]_desatVars
    /\ WF_desatVars(Controller)

(***************************************************************************)
(* Properties                                                              *)
(***************************************************************************)
\* Unless it is reset from outside, the controller rests at least
\* min_time_between_desat between two desaturations, however the first one
\* ended and whatever the momentum did meanwhile: each state's time is
\* counted from its own beginning.
RestsBetweenDesaturations ==
    [][desat.state # "DESATURATING" /\ desat'.state = "DESATURATING"
          => rested > MinTimeBetweenDesat]_desatVars

\* A desaturation is given up for the cooldown only once the momentum is below
\* 70% of the threshold, or after max_desat_duration of it: time spent idle
\* before does not count, and a fault that changes a wheel's speed between two
\* calls does not cut it short above the lower threshold.
EndsUnloadedOrLate ==
    [][desat.state = "DESATURATING" /\ desat'.state = "COOLDOWN"
          => Unloaded(TotalMomentum, desat.max) \/ lasted' > MaxDesatDuration]_desatVars

\* In every reachable wheel state the torque step puts on the body is the
\* momentum the wheel loses, for a healthy, dead, weak or stuck wheel and at
\* the momentum limit.  (A wheel with the SATURATED fault is set back to its
\* maximum speed in each step, without a torque for it.)
ReactionIsMomentumLost ==
    \A i \in 1..3 :
        wheel[i].fault # "SATURATED"
            => ReactionTorque(wheel[i]) = wheel[i].speed - StepRW(wheel[i]).speed

\* The torque limit at maximum momentum acts a step late, so a wheel may pass
\* the limit by the torque of one step, and by no more, in either direction
\* and whatever faults come and go.
MomentumBounded == \A i \in 1..3 : wheel[i].speed \in SpeedRange

\* As long as no magnetorquer saturates, the magnetic torque is perpendicular
\* to the wheels' momentum: the dipole is proportional to the part of the
\* momentum across the field, so the law turns the momentum it is to reduce.
TorqueAcrossMomentum ==
    [][torquer' # torquer =>
          \A b \in Fields, dt \in Steps :
              Update(b, dt) /\ torquer' = DipoleCommand(desat', TotalMomentum, b)
                  => Dot(Cross(torquer', b), TotalMomentum) = 0]_desatVars

\* WheelDesaturation.cpp on the sign of the dipole: "torque opposes h".  A
\* dipole commanded while there is momentum across the field gives a torque
\* with a component against the momentum.
TorqueOpposesMomentum ==
    [][torquer' # torquer =>
          \A b \in Fields, dt \in Steps :
              Update(b, dt) /\ torquer' # <<0, 0, 0>>
                  => Dot(Cross(torquer', b), TotalMomentum) < 0]_desatVars

\* While the momentum stays above the threshold, desaturations begin and end
\* for ever: they time out, whatever the field, cool down, are reset from
\* outside, and start again.
DesaturationsRecur ==
    <>[]Overloaded(TotalMomentum, TotalMaxMomentum)
        => []<>(desat.state = "DESATURATING") /\ []<>(desat.state # "DESATURATING")
==============================================================================
