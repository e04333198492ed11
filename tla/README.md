# CubeSat flight software: TLA+ specifications

TLA+ models of the flight software and GNC code in `src/src`, the TLC configurations that
check them and TLAPS proofs of their main properties.

## The system

The program is a single-process flight software for a CubeSat together with the simulated
plant it flies on. `FlightSoftware::step` is one control cycle and calls everything else in a
fixed order:

1. the telecommands that came with the cycle: parse, queue, execute;
2. the estimator;
3. reaction wheel FDIR, if wheel telemetry came with the cycle, and from its verdict the
   health flags of the control allocator;
4. the mode manager, fed with the estimated body rate;
5. guidance and the attitude controller with the torque allocation, whose failure forces SAFE;
   in SAFE the B-dot controller instead;
6. the queue of state estimates, the state history and telemetry.

Around it are a cyclic executive (`TaskScheduler`), a lock-free queue between two threads
(`SPSCQueue`), a publish/subscribe store (`DataStore`), and on the ground side a
`GroundStation` that encodes telecommands and decodes telemetry. Momentum management
(`WheelDesaturation`) and the simulated wheels and magnetorquers it works on are called by the
embedder, next to `step`.

| Component | State | Operations | Correct when |
|---|---|---|---|
| ModeManager | mode, previous mode, time in mode | update, commandMode, forceModeChange, reset | automatic transitions stay the minimum time apart, whoever else changes the mode |
| SensorHealthMonitor | status, stuck count, history, feature flags | update, reset, enable... | the verdict is the one the readings justify |
| FDIRManager | monitors, redundancy groups, wheel monitors, switches | register..., updateSensor, updateWheels, resetAll, enableAuto... | an advertised spare is usable; a lost critical sensor always leads to SAFE; wheel faults are counted correctly |
| ControlAllocator | health flag per wheel | setWheelHealth, allocate | failed wheels get no torque; too few wheels are noticed |
| FlightSoftware | last torques, queue, pointing mode | step, enqueueCommand | the parts agree at the end of every step; the vehicle converges |
| SPSCQueue | ring, two indices | push, pop | bounded FIFO, no race on a slot, no lasting refusal while somebody pops |
| TaskScheduler | tasks, clock, running flag | registerTask, run, step, stop, reset, clearTasks | tasks are called on time, by priority, once per cycle |
| Command path: GroundStation encoding, CommandParser, CommandManager, commands, DataStore | queue, guidance mode and target, gains | create...Command, parse, enqueueCommand, update, execute, publish | the vehicle aims at, and works with, what the last intact command asked for |
| AttitudeController, PID, Bdot | last torque, gains, integral and last error, previous field | update, setGains, reset | torque changes are limited; the integral unwinds; B-dot sees the rate of the field |
| MEKF | attitude, bias, rate, covariance | update, reset, isValid | a bad measurement is noticed and a reset cures it |
| Recording: queue of estimates, StateHistory | ring; rows, write index, size | push; addState, getComponentHistory | the newest estimates are kept, in order |
| DataStore, TelemetryManager, TelemetryService, GroundStation decoding | values by topic; timers, counts, packets; last values on the ground | publish, get, Reset; update, flushPackets; processTelemetry | the second value of a pair does not lag behind the first; numbers have no gaps but losses; the ground does not go back and catches up |
| WheelDesaturation, SimRW, SimTorquer | state, time in it, maximum momentum; speed, command, faults; dipole | update, reset; setTorqueCommand, step, inject...; setDipole | timeout and rest are kept; momentum balance and limit hold |
| Logger, rigid body, orbit, optimisation | | | see "Not modelled" |

### Where it is hard

* **Several writers of one state.** The mode is written by the automatic transitions, the
  ground, sensor FDIR, wheel FDIR and the allocation failure path, each with rules of its own
  about the dwell time. Two of them can act in one control cycle.
* **Edges instead of levels.** Sensor and wheel responses fire when a status or a count
  *changes*. Anything that happens while nothing changes (a ground command in between, a reset,
  the other sensor of a pair recovering) is seen by nobody.
* **Latches.** `backup_available` and the FAILED status of a wheel are never set back;
  `stuck_count_` survives disabling the detection.
* **State kept across a missing input.** A cycle without wheel telemetry leaves other data
  behind than a cycle with it. The control laws remember their own last call, which may be many
  cycles ago when the mode has changed in between.
* **Two ends of an encoding.** Commands are packed and unpacked by separate code, over a link
  that may shorten, repeat or reorder packets.
* **Threads.** The ring buffer has no locks; the scheduler can be stopped, reset and
  reconfigured while it runs; the data store is locked per access, so what goes into one packet
  can change in between.
* **Values that are not numbers.** No comparison in the code is written with NaN in mind: each
  one falls to one of its sides, and state that is added to keeps the NaN.

`PROJECT.json` lists each hazard at its line with the properties that cover it.

## Modules

| Module | Models | State and actions |
|---|---|---|
| `ModeManager` | `fsw/core/ModeManager` | `mm` is the object. Methods are functions from object to object because other components call several of them within one cycle; `Cycle`, `Command`, `ForceMode`, `Reset` are the calls. |
| `ModeDwell` | the same plus a history variable | `sinceAuto`: real time since the last automatic transition. |
| `SensorHealthMonitor` | `fsw/fdir/SensorHealthMonitor.hpp` | `monitors`: one record per sensor; one action per public method that changes state. |
| `SensorWindow` | the same plus history variables | `window`: the newest readings themselves; `paused`: the detection has missed a sample. |
| `FDIRManager` | `fsw/fdir/FDIRManager`, composed with the mode manager and the monitors | `groups`, `wheels`, `auto`, and of the estimator only whether it has just been reset (`mekf`). |
| `WheelHistory` | the wheel monitors plus a history variable | `seen`: the whole telemetry of each wheel. |
| `MEKF` | `fsw/gnc/ekf/MEKF` | the filter as a record of which of its parts are numbers; one operator each for `predict`, `update_quat`, `update`, `reset` and `isValid`. `initialize`, called at set-up with an identity attitude, a zero bias and configured variances (`GNCComponentFactory.hpp:39`), gives the same record as the constructor (`FreshFilter`). |
| `BadReadings` | `SensorWindow`, `MEKF`, FDIR's response to a lost gyro, and the torque of `AttitudeController` | `filter`, `att`; history variables `tainted` and `blind` tell from the readings what the filter and the controller went through. |
| `FlightSoftware` | `FlightSoftware::step` and `ControlAllocator`, composed with all of the above | `StepWheels` and `StepDirect` are one whole call of `step`, with and without wheel telemetry. |
| `UnattendedFlight` | `FlightSoftware` between two ground contacts, plus a history variable | `fatal`: a critical sensor has failed and nothing could take over. |
| `CommandPath` | `GroundStation::create...Command`, `CommandParser`, `CommandParameterReader`, `CommandManager`, the command classes, `DataStore::publish`, guidance in `step`, the gains of `AttitudeController` | `guidance`, `gains`, `pid`, `aim`; `CommandStep` is the part of `step` that handles commands, guidance and gains. The queue is empty between steps; an entry `NoCommand` stands for a packet that `parse` did not know and `enqueueCommand` did not queue. History variable `wanted`: what the intact commands amount to, computed from the requests and not from packets. |
| `ControlCycle` | `FlightSoftware` plus `Bdot` and the rate limit of `AttitudeController` | `att`, `bdot`, `torque`: what the two laws and `step` remember; `field`, `law` are history variables. |
| `PidCycle` | `ControlCycle` with the gain schedule and `fsw/gnc/control/PID` in place of the arbitrary demand | `pid`: integral, last error, first-run flag. |
| `ControlAllocator` | the pyramid, the rank test and the pseudo-inverse | no state: exact integer arithmetic, with two assumptions that TLC evaluates. |
| `SimRW` | `sim/models/SimRW` | a wheel is a record; one operator per method, fault injection included. |
| `WheelDesaturation` | `fsw/gnc/control/WheelDesaturation` on three `SimRW` and the magnetorquers | `desat`, `wheel`, `torquer`; history variables `lasted`, `rested`. |
| `Downlink` | `DataStore`, `TelemetryManager`, `TelemetryService`, `CCSDS`, `GroundStation::processTelemetry` | each access to the store in an update is one step, and so is each packet in the loop of `processTelemetry`; `count`, `packets` (the buffer on board), `link` (what a flush handed over and the ground has not looked at yet), `ground`; history variables `heard`, `missed`. |
| `Recording` | the end of `step`: the queue push and `StateHistory`, composed with `SPSCQueue` | `rows`, `next`, `size`; history variable `recent`. The program only pushes; the other thread of the class's contract may pop or not. |
| `SPSCQueue` | `fsw/core/SPSCQueue.hpp` | each atomic access and each buffer access is one step of `Push` or `Pop`. |
| `BoundedFifo` | the abstract channel `SPSCQueue` implements | |
| `TaskScheduler` | `fsw/core/TaskScheduler` | `pc` is the executing thread inside `run`/`step`, where reading `running_` and taking the mutex are two steps; the other calls belong to other threads. |
| `MC*` | values of function-valued constants, symmetry | |
| `*Proofs` | the theorems, see below | |

`PidCycle` refines `ControlCycle`, and that `FlightSoftware`, by leaving variables out: a demand the
PID computes is one of the demands the cycle allows. The refinement of `BoundedFifo` maps the ring's occupied slots, read from `head_` to `tail_`,
to the abstract queue.

### Abstractions

* Rates, times and readings are integers in arbitrary units; the code only compares them. The
  vector monitors are represented by the scalar instantiation of the same template: it reads a
  measurement through `computeMagnitude` and `computeDifference` only. A
  reading may be NaN, for which every comparison is false. `MEKF` keeps of all values only whether
  they are numbers; overflow to infinity is left out there.
* `time_in_current_mode_`, `stuck_count_` and the wheel counters saturate at the threshold they
  are compared with. The comparison is `>=` in each case, so no behaviour is lost. Of
  `measurement_history_` only the newest entry is ever read again.
* Wheel telemetry is one of the five classes that `updateWheels` distinguishes. Which class
  comes next is arbitrary, so a torque vector read out of bounds adds no behaviour to
  `StepWheels`.
* Torques are the set of wheels that may be driven. The rank test of the allocator is a count
  of healthy wheels: of the four-wheel pyramid any three span the axes and no two do, which the
  exact arithmetic of `ControlAllocator` shows (`ThreeWheelsSpan`).
* The embedder registers a redundant pair while neither of its sensors is FAILED. Without this
  restriction a pair registered over a FAILED backup would advertise it.
* Primary and backup sensors of all groups are distinct, and tasks have distinct names.
* Callbacks do not call back into the object that calls them. For the scheduler this would be
  a second lock of a mutex the thread holds. A task's callback throws nothing but
  `std::exception`, which the scheduler catches; anything else would leave `run` or `step`.
* A packet is the record of the fields the parser looks at and its size in bytes; a field is
  readable when all its bytes are there. Byte order is not represented: encoder and reader both
  reverse a double as a whole. The sequence count and the length field of a command are not read
  by anyone on board. In `Downlink` a double is two bytes and both reversals are there.
* The attitude error is small, between the thresholds or large; a blend of two gains is the pair
  of what is blended.
* `ControlCycle` has one axis, integer torques and a fixed `dt` above 1e-6 s (below it B-dot
  returns zero), with both controllers configured; the demand of the PID loops is an arbitrary
  input. In `PidCycle` the sampling period is the unit of time, gains and torques are in parts of
  the width of the gain schedule, so that its interpolation is exact. The anti-windup limit is
  positive: with zero the integral is always zero and there is nothing to unwind.
* In `WheelDesaturation` speeds are momenta and norms are compared by their squares. All wheels are
  of one kind; the first three stand for the axes, as in the code. Elapsed times stop above the two
  limits they are compared with. Wheels start, and are made to stick, at speeds a wheel can run at, and
  one step at full torque does not take a wheel from rest beyond its momentum limit (0.05 Nm against
  0.1 Nms in `pointing_test.cpp`, with a step of a fraction of a second).
* `MaxBuffer` bounds the packets in `Downlink`: `update` begins only if there is room. The code never
  waits and its buffer has no limit, so behaviours beyond the bound are not explored by TLC; no
  property takes the waiting for granted, and the proofs hold for every bound.
* In `Downlink` a value is the number of its publication. The publishers are the embedder's: nobody
  in `src` publishes the telemetry topics. One sensor reports its health.
* The embedder gives every gyro reading to FDIR and to `step` (`BadReadings`), as
  `fdir_integration_test.cpp` does.
* An acquire load may return any value the other thread has released, as long as values never
  go backwards: the `...Seen` variables lag behind arbitrarily.

## Runs

| Run | Shows | Bounds |
|---|---|---|
| `mode_dwell` | automatic transitions stay apart although the ground and FDIR write the mode | minimum time 5, steps 0..2: the clock passes the limit exactly, by overshoot and not at all; rates below, at, between and above both thresholds |
| `sensor_readings` | FAILED is exactly "the last N samples repeated their predecessor"; a NaN spoils the estimate until FDIR resets the filter, `isValid` tells it one update late, and one pointing step on it spoils the torque for good | N = 3; readings below, at and above every limit, and NaN; star tracker readings good and bad; any mode in any step |
| `fdir_sensors` | an advertised spare is usable, a group keeps a FAILED sensor only without one, every loss is answered | one pair and an ungrouped sensor as in `fdir_integration_test.cpp`; a good and an out-of-range reading, repeated or alternating, reach all three statuses |
| `wheel_history` | the counters compute the verdict of the whole telemetry; the mode tells the number of lost wheels | 2 wheels (three lost wheels take the same branch as two), all five classes, four samples: one more than the longest limit |
| `fsw_unattended` | between ground contacts the vehicle converges to SAFE while it tumbles, and out of it afterwards unless a fatal sensor failure sent it there | a pair of gyros, two wheels, rates below, at and above the thresholds; a reading in range and one out of it, repeated or alternating, reach all three statuses |
| `command_path` | outside SAFE the controller is aimed where the last intact slew command says, with the gains of the last intact gain commands, although packets are cut, repeated, reordered or foreign | two targets and two gain sets whose components all differ; up to two packets per step, and any number of steps; 0 to 2 bytes missing, which crosses every size check of the parser |
| `control_cycle` | no failed wheel is driven, lost wheels end in SAFE, torque changes between pointing steps are limited, B-dot in two SAFE steps sees exactly the change between them, the integral unwinds | two wheels of which one is enough, so that a step can point with one lost, without telemetry, and fail to allocate; errors of both signs, inside the gain schedule and at its end, that drive integral, output and rate into their limits; two fields |
| `spsc_queue` | the ring is a FIFO, race-free; pushes get through as long as somebody pops; once nobody does, the ring is full for good and overwrites nothing; the history next to it keeps the newest estimates, refused ones too | capacity 4, two values: the ring wraps, fills and empties with every lag of the two indices; a history of two rows, which wraps too |
| `task_scheduler` | tasks are on time and in order while other threads interfere | three tasks: one with the base period, one with a multiple, one with neither; one throws; two calls of `run`, bounded and unbounded, and manual steps |
| `downlink` | pairs never lag, counts account for losses modulo the size of the field, the ground never goes back and catches up while packets arrive | a pair and a single topic, five publications and one; counter of 4 and field of 2 values instead of 2^16 and 2^14: the field wraps inside the counter and both wrap; two packets waiting on board or on the link, each of which arrives whole or cut by a byte |
| `desaturation` | timeout and rest of the controller, its progress, momentum balance and limit of the wheels, direction of the torque | one wheel commanded in both directions and with every fault, the others loaded across and beyond the threshold; fields too weak, along an axis and oblique; lists of two and three wheels |
| `desat_unloads` | the control law does not do what its comment says (below) | as `desaturation` |

`wheel_history` stops when the history is full, so deadlock is not checked there.

**Fairness.** `fsw_unattended` assumes weak fairness of `Step`: `step` is called periodically for
as long as the vehicle operates (the loop in `main_config.cpp`, which simulates a finite stretch
of that). Sensor samples need not arrive. `spsc_queue` assumes that a started push or pop finishes
and that a store becomes visible eventually, which the C++ memory model asks of implementations.
Nobody has to start a push or a pop: in the program nothing pops `telemetry_queue_`.
`PushEventuallyAccepted` therefore has a polling producer and a polling consumer, the threads of
`performance_test.cpp`, as its hypothesis, and `FullWithoutConsumer` says what becomes of the program as it is.
`downlink` assumes no fairness. What the environment has to contribute is the hypothesis of
`GroundCatchesUp`: packets of the product go on being made and arriving whole. `desaturation` assumes
that the control loop goes on calling `update`.

### Disagreements between code and documents

One has a run in which TLC finds the documented behaviour violated.

* `desat_unloads`: the comment at `WheelDesaturation.cpp:135` says of the dipole "torque opposes h".
  The double cross product is the part of the momentum across the field, so the torque it gives is
  perpendicular to the momentum (`TorqueAcrossMomentum`, as long as no torquer saturates) and never
  reduces it.

Others, visible in the models and not given a run:

* `docs/fdir.md:27` answers a diverged estimate with "Reset MEKF state"; a NaN that has reached the
  estimate in a pointing step stays in the torque limiter after the reset (`TorqueLostForGood`).
* `docs/control.md:9` gives B-dot as the derivative of the field; `Bdot` is not reset when SAFE is
  left, so its first command after a return to SAFE differentiates over one `dt` against a sample
  from before the excursion.
* a cycle without wheel telemetry outside SAFE clears the torque vector (`FlightSoftware.cpp:145`)
  that `updateWheels` indexes in the next cycle with telemetry (`FDIRManager.cpp:268`).
* `StateHistory::getComponentHistory` returns rows in the order of the matrix, which is not the
  order in time once the buffer has wrapped (`HistoryIsRecent` says which row is the oldest).
* `docs/fdir.md:15-16` says that the system fails over to the backup and that continuous
  monitoring determines availability; a backup that failed once and recovered is never used again,
  because nothing sets `backup_available` after `FDIRManager.cpp:188` has cleared it.
* `docs/fdir.md:26` says of a fatal failure "Detumble and wait for ground instruction."; the rate
  logic makes no difference between the reasons for SAFE and leaves it by itself once the rate is
  low. `DetumbledLeavesSafe` is about the other ways into SAFE only (`fatal`).
* `docs/architecture.md:11` promises "deterministic intervals"; a second call of `run` sets the clock
  back but not the tasks' execution times, so every task waits for the length of the first run
  again. `TaskOnTime` excepts this case (`restarted`).
* `docs/control.md:26` limits the change of the commanded torque; the limit refers to the last
  pointing torque, so it does not hold from a step in SAFE, or one whose allocation failed, to the
  next pointing step.
* `CommandProtocol.hpp:18` has SLEW_TO_SUN, which `CommandParser` does not know: sun pointing cannot
  be commanded again after a slew.
* `CCSDS.hpp:20` gives the length field as "Total bytes - 7"; `createCommandHeader` passes the total
  to `setLength`, which stores total - 1.
* `docs/control.md:21-23` schedules gains between two sets; the integral gain of the large-error set
  can be commanded but is never used.

* `ModeManager.hpp:88` says of `forceModeChange` "Unlike commandMode(), this does not check
  minimum time in mode."; `commandMode` does not check it either.
* `SensorHealthMonitor.hpp:19` speaks of "no change for N consecutive samples"; after the
  detection was off for a while the old count is continued whatever the readings did meanwhile.
* `docs/fdir.md:25` says "Maintain `NOMINAL` mode if backup is healthy"; a failover always goes to
  DEGRADED.
* the comment at `FDIRManager.cpp:225` says "if not already in a worse mode"; only NOMINAL is left
  for a degraded sensor, SCIENCE and DOWNLINK are not.
* `FDIRManager.hpp:117` says "Reset all monitors to healthy state"; the wheel monitors are not
  reset.
* `SPSCQueue.hpp:18` calls `Capacity` the "maximum number of elements"; it is one less.

## Proofs

The theorems hold for every value of the constants that satisfies the assumptions named in the
modules: any number of sensors, wheels, tasks, packets and samples, and any threshold, limit, period
and gain. Every invariant and every action property that a run checks is the subject of a theorem;
liveness is not.

| Module | Theorems | Inductive invariant, and why the properties need it |
|---|---|---|
| `FDIRManagerProofs`, modes | `ClockCorrect`, `TransitionsApart` | `DwellInv`: types and `ClockNeverAhead`. A transition needs the object's clock, and so the real clock, to have reached the minimum. |
| `FDIRManagerProofs`, sensors | `RedundancyCorrect`, `LossAnswered` | `FDIRInv`: neither redundancy invariant is inductive alone. That a FAILED active sensor has no spare depends on the active sensor being one of the pair (`ActiveInPair`), on the usable spare and on the types. `LossAnswered` follows because a failover switches to a sensor that is not FAILED. |
| `FDIRManagerProofs`, wheels | `WheelVerdictExact`, `ModeFollowsWheels` | `HistoryInv`: the status says nothing of the counters, so `CountersCount` says what each of them has counted of the telemetry, for wheels that have not FAILED: in a FAILED wheel they may stand still. `ModeInv` adds that FDIR's switch is on; that several wheels may be lost in one sample is a count of finite sets. |
| `ControlCycleProofs` | `ActuatorsCorrect`, `RedundancyInFlight`, `ControlLawsCorrect`, `CycleImplementsFSW`, `PidImplementsCycle`, `FailedWheelsIdle`, `LostWheelsSafe`, `PidLawsCorrect`, `AntiWindupWorks` | `FSWInv`: a step with two lost wheels that did not end in SAFE would have found enough wheels to allocate, which a count of finite sets excludes. `LawState` ties the state of a law to the last step only if that law ran in it. The two refinements are proved step by step (the saturated output plus the rate feedback is one of the demands of the cycle) and carry the theorems about `FlightSoftware` down to the cycle with its PID arithmetic. |
| `BadReadingsProofs` | `VerdictExact`, `VerdictExactInLoop`, `TaintExact`, `SpoiltNoticed`, `TorqueLost` | `WindowInv`: the count is exactly the number of repetitions at the end of the window (`CountsRepeats`, which also says that it is not too small), unless the detection has missed a sample, and the monitor's previous sample is the newest reading. `TaintInv`: a spoilt filter has lost attitude, bias and rate together. |
| `SPSCQueueProofs` | `RingSafe`, `RingImplementsFifo`, `HistoryCorrect`, `RecordingKeepsOrder`, `RecordingThroughFifo` | `RingInv`: the order of the indices is inductive once two facts about the middle of an operation are added, that a push that passed its check has room and a pop that passed its check has an item. `FifoInv` adds what the two threads hold. `RecordInv`: rows are filled from the top until the matrix is full, and then the row written next is the oldest. |
| `TaskSchedulerProofs` | `PriorityRespected`, `TasksOnTime`, `CallsNotEarly` | `SchedulerInv`: the list is sorted and only tasks before the current position were called in this cycle; a task's clock is not behind the time that passed since its last call (until `run` sets the clock back) and, if it does not throw, not ahead of it; before its turn a task has waited less than its period and one cycle, after its turn less than its period. |
| `WheelDesaturationProofs` | `WheelsWithinLimits`, `MomentumExchanged`, `RestGuaranteed`, `EndJustified`, `TorqueTurnsMomentum` | `DesatInv`: a stuck wheel is at the speed it sticks at and a saturated one within its limit (`WheelSound`); the controller's one clock tells the rest in COOLDOWN and the duration in DESATURATING (`ClockSound`). `TorqueTurnsMomentum` is the identity h . ((b x (b x h)) x b) = 0, for all integers. |
| `DownlinkProofs` | `DownlinkTypes`, `PairsNeverLag`, `GroundMonotone`, `LossesAccounted` | `ValueInv`: nothing that left the store is newer than what is in it, and the value between the two gets is not older than anything sent. `OrderInv`: buffer, link and ground are in the order of publication. `GapInv`: every packet on the way has the number the ground expects of it if all before it arrived or were missed, and the counter the one after the last, up to a multiple of the field's size. |
| `CommandPathProofs` | `AimObeyed`, `GainsObeyed` | `CommandInv`: the subscribers hold what the commands amount to also in SAFE, when nothing is aimed. Lemmas show that parsing takes back what the ground encoded if it arrived whole and else nothing; `UpdateEffect` that after all packets of a step the last of each kind counts. |

The queue of a step is executed by a recursive function. That it is defined by its equations, and
what it yields for any number of packets, needs induction over the naturals. It is obtained from the
well-foundedness of their order: a set of numbers that is not empty has a smallest one
(`SmallestNumber`), so a set that contains 0 and each successor up to n contains 0..n (`UpTo`).

Assumptions on constants that carry a proof, and where the code gives them: the minimum time and all
limits are naturals; the groups' sensors are distinct (`FDIRAssumption`); the vehicle has at most one
wheel more than it needs (`FlightSoftware`; the pyramid has four wheels and three axes); the size of
the sequence field divides that of the counter (`Downlink`; 2^14 and 2^16: with other sizes a wrap of
the counter would look like a loss); torque, speed and anti-windup limits as under "Abstractions";
targets and gains have integer components (`CommandPath`; the parser does no arithmetic on them).

Only model-checked is liveness, as TLAPS 1.4.5 does not handle fairness or ENABLED:
`TumbleEndsInSafe`, `DetumbledLeavesSafe`, `PushEventuallyAccepted`, `FullWithoutConsumer`,
`GroundCatchesUp`
and `DesaturationsRecur`. So are the two assumptions of `ControlAllocator` about the pyramid, which
TLC evaluates: they are about one matrix.

## Plan

1. Done: modes, sensor and wheel FDIR, the control cycle with its control laws and the PID, the
   command path, the ring and the state history, the scheduler, telemetry to the ground,
   momentum management on the simulated wheels, the flow of NaNs through filter and controller;
   and theorems for all safety properties of the runs.
2. Next: an abstract specification of the downlink (a lossy register per product) that `Downlink`
   implements; the safety half of the liveness properties,
   e.g. that the dwell time is the only thing that keeps a tumbling vehicle out of SAFE.

### Not modelled

* Rigid body, orbit, integrator, sensor noise (`sim/`), LQR and LQG, and the accuracy of the Kalman
  filter are real-valued numerics. `PointingStrategies` is quaternion geometry.
* The lifetimes of `DataStore`'s subscribers (C++ object lifetimes), and `reset` of the controllers,
  which nobody calls.
* The HAL is interfaces. Optimisation and Monte Carlo are offline tools driven by random numbers.
  `DataLogger`, logging, profiling and configuration loading are input and output.
