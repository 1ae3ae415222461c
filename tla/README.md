# Dettlaff-STM: a verification project in TLA+

Dettlaff-STM is the firmware of a foam-dart blaster. It grafts the control loop of
a blaster (`src/src/main/dettlaff/`) on the Betaflight flight controller: the
blaster is one task of Betaflight's cooperative scheduler and speaks to the
electronic speed controllers through Betaflight's motor outputs. This project
models the program's own logic, checks it with TLC and proves what matters most
with TLAPS. Paths below are relative to the repository's `src/main`.

## 1. Inventory

### What the program does

Two to four flywheels throw a dart that a pusher (a solenoid, or a geared motor
with a home switch) shoves between them. Once per millisecond `dettlaffUpdate`
debounces the switches, works out the shots owed, moves the flywheel state machine
`STATE_IDLE -> STATE_ACCELERATING -> STATE_FULLSPEED -> STATE_IDLE`, runs the
pusher, computes a throttle per wheel and stores the outputs in `motor[]`.

### Components

| Component | State | Operations | Correct when |
|---|---|---|---|
| Control loop, `dettlaff/dettlaff.c`, `CONFIGURATION.h` | `flywheelState`, `shotsToFire`, `firing`, `reverseBraking`, `pusherDwelling`, `fromIdle`, `targetRPM`, `throttleValue`, five timers | `dettlaffInit`, `dettlaffUpdate` | darts only when asked, only through powered wheels at full speed; pusher never left on; comes to rest when released |
| Debouncing, `dettlaff/dettlaff.c:124-248` | level, last sample, time of last change, edge flags | `initSwitch`, `updateSwitchState`, `updateCycleSwitchState` | one edge per pull, in time, across the wrap of the clock |
| Scheduler, `scheduler/scheduler.c` | task queue, dynamic priorities, anticipated execution times, guard | `queueAdd/Remove`, `scheduler`, `schedulerExecuteTask` | queue sorted and terminated, gyro delayed by overruns only, no task starved |
| Mixer and motor output, `flight/mixer.c`, `drivers/motor.c` | `motor[]`, enabled flag | `mixTable`, `writeMotors`, `motorEnable`, `motorDisable` | the outputs written are those of the last owner |
| DShot command queue, `drivers/dshot_command.c` | ring of commands, each with state, repeats and delay | `dshotCommandWrite`, `dshotCommandOutputIsEnabled` | each command sent as often as asked, in order, only to idle motors |
| Failsafe, `flight/failsafe.c` | phase, link state, five time stamps | `failsafeUpdateState` and the receiver's callbacks | loss leads to disarm, recovery only after its period |
| Dispatch, `fc/dispatch.c` | sorted list of delayed callbacks | `dispatchAdd`, `dispatchProcess` | called once, in time order |
| Boot and tasks, `fc/init.c`, `fc/tasks.c` | none of its own | `init`, `tasksInit` | `dettlaffInit` before the first update |
| Receiver and arming, `rx/rx.c`, `fc/core.c`, `fc/rc_controls.c` | signal and frame flags, switches, arming flags | `rxFrameCheck`, `taskUpdateRxMain`, `tryArm`, `disarm` | arms only with the link up and the switch moved |

The rest is Betaflight's control laws, sensors, telemetry, storage, host and
display code, the vendored libraries, and the original ESP32 program the
control loop was ported from; none of it takes part in the blaster's behaviour.

### How they interact

The scheduler calls `dettlaffUpdate` (task `TASK_DETTLAFF`, 1 kHz, high priority)
when no gyro cycle is due. Nothing preempts it but interrupts, which share no state
with it. The loop reads pins through `IORead`, the battery through
`getBatteryVoltage`, the clocks `micros` and `millis`. Its outputs go to the global
`motor[]`, which is also written by `mixTable` (in every PID loop, with the
disarmed values when the craft is not armed, `flight/mixer.c:483`) and is sent only
by `writeMotors`, called from `fc/core.c:1309` after `mixTable`. What is written may
be held back or replaced by a DShot command (`drivers/dshot_command.c`). The failsafe
runs inside the gyro pass of the scheduler, next to the search for received frames,
and meets the RX task only through the state they share; both arm and disarm.

### What is hard

There is no second thread inside the blaster: what is hard is the product of five
timers, three pusher types, three firing modes that can change at any moment, two
triggers, a home switch and a battery, all sampled in one update whose sections are
ordered. The hazards are listed, at their lines, in `PROJECT.json`. Those that bite most:

- the pusher is active longer than shots are owed, and three parts of the code stop
  the wheels;
- a trigger is released in another mode than it was pulled in;
- time delay and timeout of a spin-up are tested one after the other in one update;
- the low-battery return skips half of the idle state;
- integer arithmetic in the throttle and in the spin-down;
- two clocks that wrap.

Around the blaster it is the sharing of one processor and one set of wires: the
scheduler picks a task with estimates and measures the time left twice; the PID loop, the
host, the beeper and arming hand commands to a ring that stops the motor frames while
it counts them; the failsafe reads switches that the RX task may have
taken from frames older than the loss.

## 2. Modules

| Module | Models | Built on |
|---|---|---|
| `Dettlaff` | the control loop, one step per call of `dettlaffUpdate` | `Integers` |
| `Debounce` | one switch, one step per sample | `Integers` |
| `Blaster` | the promise of a solenoid blaster to its user | |
| `CleanSwitch` | what the control loop expects of a switch | |
| `MCDettlaff` | values of the constants for TLC | `Dettlaff` |
| `Dettlaff_proofs` | types, wheels, shots, pusher, solenoid, refinement of `Blaster` | `Dettlaff`, `TLAPS` |
| `Pusher_proofs` | the pusher motor; power while a dart is pushed | `Dettlaff_proofs` |
| `Debounce_proofs` | all of debouncing, refinement of `CleanSwitch` | `Debounce`, `TLAPS` |
| `Scheduler` | the cooperative scheduler, one step per pass | `Integers`, `FiniteSets` |
| `MCScheduler` | four tasks for TLC | `Scheduler` |
| `Scheduler_proofs` | the queue, types, the delay of the gyro | `Scheduler`, `FiniteSetTheorems`, `WellFoundedInduction`, `TLAPS` |
| `DshotCommand` | the ring of commands, as operators on a record | `Integers` |
| `CommandFifo` | what the ring promises: a queue of commands | `Sequences` |
| `MotorOutput` | blaster, mixer, arming, host, beeper and the wires | `DshotCommand`, `CommandFifo` |
| `MCMotorOutput` | two motors for TLC | `MotorOutput` |
| `MotorOutput_proofs` | types, stopped motors, spacing, stopping | `MotorOutput`, `TLAPS` |
| `Fifo_proofs` | refinement of `CommandFifo` | `MotorOutput_proofs`, `SequenceTheorems` |
| `Failsafe` | link loss, recovery and arming | `Integers` |
| `MCFailsafe` | two configurations for TLC | `Failsafe` |
| `Failsafe_proofs` | all of the failsafe but liveness | `Failsafe`, `TLAPS` |

### Dettlaff

A step is a whole update: `ReadInputs` (sections 1, 2 and 4 of the code),
`TriggerLogic` and `ShotsAfterTrigger` (section 3), and then one of
`LowBatteryCutoff`, `SpinWheels` (`STATE_IDLE`, `STATE_ACCELERATING`) and
`FullSpeed`. The last two end in `MotorControl` (section 6);
the first returns before it, as the code does. Every branch of the code is an
operator of its own, named for what it does, whose guard contains the negations of
the branches tried before it.

How state corresponds:

- `trigger`, `rev`, `cycle` and `selected` are the `currentState` of the debounced
  switches. `pressed` and `released` are derived from their old and new values:
  that they are edges is what `Debounce` shows (`SeesCleanSwitch`).
- A time stamp `t` becomes the age `time_ms - t`: `revAge` for `lastRevTime_ms`,
  `pusherAge` for `pusherTimer_ms`, `triggerAge` for `triggerTime_ms`. An age stops
  at a horizon larger than every duration it is compared with, so stopping changes
  no comparison. `revStartTime_us` is set with `lastRevTime_ms` when the spin-up starts and
  neither changes until it ends, so `revAge` stands for both. `revved` is `lastRevTime_ms > 0`.
- `throttleValue[i]` is 0 or 1. In the open-loop and two-level modes this is exact,
  because the quotient is an integer; under PID control 1 stands for any throttle
  above zero and the choice is nondeterministic.
- `pusherCommand` is the last command the pusher's driver was given: `Forward` or `Reverse` by
  `pusher_drive`, `Off` by `pusher_coast` and `pusher_brake`. The duty cycle of a drive is left out (it is
  positive whenever the configured voltages are), and `pusherReverseDirection` only swaps the directions.
  The driver stores its command in `motor[]`, as section 7 does the throttles; the module has
  no `motor[]`, because the values do not stay there. Their fate is in `MotorOutput`.
- `sinceHome` is a history variable: the time since the home switch last closed.
- `motorRPM` is 0: the code declares it as telemetry and never assigns it.
- `loopTime` is `loopTime_us`, an input: how long the previous update took.
- `LowBattery` also needs two seconds of uptime (`loopStartTimer_us > 2000000`), which
  is false again after every wrap of the microsecond counter. The model allows both
  outcomes whenever the battery is low.

Compile-time settings are constants, with assumptions (`ConfigAssumption`,
`RpmAssumption`, `TimeAssumption`) no stronger than the types of
`CONFIGURATION.h`, except that the idling speed is assumed not to exceed the
firing speed and each horizon to exceed the durations it serves.

### Debounce

One switch sampled at arbitrary gaps by a pin that may bounce at will, with time
modulo `Wrap`. `heldFor` and `sincePulse` are history variables used by
properties only. A switch without a pin (`hasPin` false) reports nothing. Both C
functions are the same code with another debounce time, here a constant.

### Blaster and CleanSwitch

`Blaster` has four variables and no timers: darts are owed only because the trigger
moved, a push needs ready wheels and pays for exactly one shot, wheels are let go
only with the pusher home and nothing owed, and a pusher that is out comes back.
`Dettlaff` implements it with `wheels` mapped from `flywheelState`, `owed` from
`shotsToFire` and `pushing` from `firing`; the pusher types other than a solenoid
pay for a shot at the end of a stroke and cancel shots on a stall, so the promise
is stated of the solenoid. `CleanSwitch` says that an edge flag is
up for exactly the update that changed the level; it has the time of the update as
a variable, so that a flag left up one update too long is a step and no stutter.

### Scheduler

A step is one pass of `scheduler()` with the gyro enabled, or a task enabled or disabled
between two passes. A pass is one of `RunGyro` (the gyro is near: poll for it and run
the realtime tasks), `LookAtTasks` (walk the queue, select, recheck, run or expedite) and
`PassBy` (neither). After a gyro run the code still compares with the old target, which is
past, so the same pass looks at no other task; that is why the three exclude each other.

- `left` is `nextTargetCycles` minus the cycle counter before the skip of lost periods,
  which `DueIn` applies. `age[t]` and `signal[t]` are the times since
  `lastExecutedAtUs` and `lastSignaledAtUs`; `signal[t] = -1` stands for a
  `dynamicPriority` of 0.
- `queue` is `taskQueueArray` with `taskQueueSize`; `queueAdd` and `queueRemove` move the
  elements as the two `memmove` calls do, terminator included.
- `taskAgePeriods` and `dynamicPriority` are computed where the code stores them.
- `ExecTimes` is what a run may take, `CheckTimes` what a walk takes: both are inputs. `excess` is a
  history variable, the time tasks took beyond their estimate and guard: of the last overrun, or, while a period
  is lost, of all overruns since, each earlier one counted up to the end of the period it reached (`WholePeriods`).
  A task that keeps to its reserve adds nothing.
- The estimate shrinks by one per run (in units of `1/Scale`) and to 9/10 when a task was passed over.

### DshotCommand, MotorOutput and CommandFifo

`DshotCommand` gives each function of `drivers/dshot_command.c` as an operator that takes a
ring and returns one. `MotorOutput` has the state and the actors; tasks do not preempt each other, so a
handler is a step, but for the one that sends a blocking command.

- `PidLoop` is `subTaskMotorUpdate`: `mixTable` decides what `motor[]` becomes, `Write` is
  `motorWriteAll` with `pwmWriteDshotInt` for each motor and the completion, which asks
  `dshotCommandOutputIsEnabled`. The bit-banged driver has the same calls.
- `value` is what is loaded for each motor (`protocolControl.value`), `wires` the last output each ESC
  received that was no command. They differ while a command holds frames back.
- `tryArm`, `disarm` and `updateArmingStatus` are restricted to crash flip mode and the
  commands they send. `HostCommand`, `SetMotor` and `BlockingStart` come from MSP or the CLI, `beeperUpdate` from
  the beeper.
- A blocking command is `BlockingStart`, a `BlockingFrame` per repeat and `BlockingEnd`, and no `Task` runs in between. Each
  frame is a `Write` like any other: an inline command at the tail that is being sent takes it over, one that waits holds it
  back or is advanced by it. `BlockingStart` looks at nothing but a full ring, as the code does (`dshot_command.c:174`): it
  overwrites whatever command is at the tail, and `BlockingEnd` clears the slot that is at the tail then.
- A throttle is `Spin`, whatever its size; the blaster's 1.0 is `Full`, because `lrintf` makes of it
  the number 1, which DShot takes for a command.

`CommandFifo` has a sequence of accepted commands with the frames each still needs, what the first of them was
sent as, if it was, and whether a blocking command has the first place: `Borrow` and `Return` overwrite what the first command
says, but not its place nor its number of frames, and meanwhile nothing is accepted. `MotorOutput` implements it with `Pending`, the part of the ring from tail to head.

### Failsafe

Two actors. The gyro pass (`FailsafePass` every `PERIOD_RXDATA_FAILURE`, `FramePass` in
between) looks for frames and runs `failsafeCheckDataFailurePeriod` and
`failsafeUpdateState`. The RX task has three parts, `processRx`, `processRxModes` and
`RxUpdate`, with gyro passes in between. A third action, `saveConfig`, resets the failsafe.

- `failsafeState` is the C structure, times relative to now. `Step` is one round of
  the switch, `Reprocess` the do-while, as eight rounds of which those after the last change nothing
  (`Failsafe_proofs` shows that seven are enough); what the code reads once per call is `Inputs`.
- `rcRaw`, `rcData` and `modes` are the arm and failsafe switches as received, accepted and acted on.
- `disabled` holds the arming block flags that take part; a further reason may keep a craft
  from arming at any time.
- `saveConfig` may come whenever the craft is disarmed, in any phase.
- Three history variables are read by properties only. `mayRearm`: since the failsafe last disarmed the arm switch was
  off in a frame, or in one on its way to the RX task at that moment; or the RX task was held up for longer than the recovery period, or
  that failsafe was to recover at once. `stall`: ticks since the last part of an RX update under way.
  `savedActive`: settings were saved while the failsafe was active.

## 3. Runs

Times are scaled to ticks, speeds to thousands of rpm, voltages to volts. The last two keep
the integer quotient of rpm by millivolts. The order of the configured
delays is kept in every run.

| Run | Instance | Shows |
|---|---|---|
| `debounce` | counter modulo 16, debounce time 4, gaps 1, 3 and 11 | `TypeOK`, `TakenOverInTime`, `OnlyStableLevels`, `EdgesSpaced`, refinement `SeesCleanSwitch` |
| `solenoid_auto` | AUTO, delays of mode 1 in ticks of 5 ms, 12 V | stops on release, settles, stops its wheels, reaches full speed, pushes through powered wheels, keeps `Blaster` with its liveness |
| `solenoid_modes` | selector moving between AUTO, BURST, BINARY; battery 9 or 12 V | `TypeOK`, the shots, the solenoid and its command, the short delay, safety of `Blaster` |
| `pusher_motor` | home switch at any moment, slow wheels under two-level control, reverse braking, no dwell | bounds on what drive and braking command |
| `closed_loop` | PID, dwell, no reversing, a mode with slow wheels that reach speed and one whose wheels never do | active only at full speed, strokes end, settles |
| `scheduler` | gyro period 7 of which 2 are taken, a task of 2 or 17 that comes and goes, an event-driven task, the blaster's | queue sound, gyro delayed by overruns only, no task starved |
| `motor_output` | two motors, three slots, every source of commands, inline and blocking, repeats 2, delays of one and two frames | stopped motors, spacing, stopping, refinement of `CommandFifo`, draining |
| `failsafe` | landing with the switch for stage 2, dropping with the switch to kill | phases, disarming on loss, arming, rearming, recovery |
| `throttle_12v` | configured motors, 40000 rpm, 12 V | a disagreement, see section 6 |
| `wheels_never_stop` | updates of 20 microseconds | a disagreement |
| `auto_mode_switch` | configured modes, selector moving | a disagreement |
| `unwired` | the blaster asks for its motors for ever, nobody else uses them | a disagreement |

### Bounds, and why they are enough

- Steps are 1 or 2 ticks, so a deadline is met exactly or overshot, and each timer
  is seen on both sides of its bound; `solenoid_modes` takes steps of 0 and 1, where
  0 is two updates in one millisecond. Horizons are one more than the longest duration.
- Bursts are of 1 to 4 shots: long enough for a request to find shots still owed and
  for a release to cut some. The counter is not bounded otherwise; `ShotsBounded` is
  what keeps the state space finite, and it is proved for all lengths.
- Two voltages, one below the cutoff: sagging and recovering at any update.
- `LoopTimes` is 400 microseconds where wheels are to stop (in fact any value from 34
  at the configured 30 rpm step), 20 where they do not, and both in `pusher_motor`.
  `solenoid_modes` shortens the spin-down to a few steps.
- Two wheels are wired in most runs, one in `closed_loop`. The wheels differ only
  in their configured speeds. Channels 0, 1 and the pusher's channel 2 exist in all.
- `scheduler`: 17 ticks fit no gyro period and cost two or three; polling starts 2 or 3 ticks early, so that an
  idle pass fits, as it does in the code; `DeferPasses` is 2 (8 in the code), the
  guard has two values, `Horizon` is eight gyro periods and several of every task. Walks take
  two ticks, which is their margin. With `Scale` 1 an estimate loses a whole tick per run, where the code loses 1/128 microsecond:
  estimates then fall more often below what a run takes.
- `motor_output`: a ring of three slots holds two commands, so it is empty, with a last command,
  and full. The command delay is no multiple of the PID loop, so
  rounding counts. The host sends one command, inline or blocking, to all motors; mixer and host drive the first motor only, the
  blaster asks for both.
- `failsafe`: the failure period is 2 ticks, the recovery period 1, one frame with the switch off disarms
  (4 in the code), frames may be missing at any tick. Any number of gyro passes and ticks may come between two parts of
  the RX task, and settings may be saved in any phase. The two configurations kept reach every action.
- The idle time is cut to 300 ms, and the bursts of 100 and 5 shots to 4 and 3.
- Deadlock is checked in every run: an update is always possible.

Each property is backed by a mutant of the code that breaks it: the definitions
`Mutant_...`, each placed before the definition it replaces.

### Fairness

`FairSpec` is `Spec` with weak fairness on `QuietUpdate`, an update that finds the
inputs where they were. That the task keeps running is the scheduler's business: it
is a periodic task of high priority. Fairness is not put on `Next` alone, which
would do as well for the properties here, to make it plain that no user input is
ever forced; what the user must do is a premise of each liveness property
(`<>[]UserAtRest`, `<>[]rev`). Runs with fairness use steps of at least one tick,
for time must pass. Properties of safety alone are checked under `Spec`.

`Scheduler` is fair to `tasksInit` and `scheduler`: `main` calls the one once and the other for
ever. `NoStarvation` has a premise about the passes themselves: those in which every
task may be selected (`scheduleCount` a multiple of 8) must not all fall on the gyro. If a
gyro period always took the same multiple of passes they could. `MotorOutput` is weakly fair to
the frames of a blocking command, a loop with nothing in its way, and strongly fair to `PidLoop`, which runs in the gyro
cycle but not during a blocking command. `Failsafe` is fair to the RX task, which is event-driven and expedited, and says that
`FailsafePass` comes again and again, which it can in every state: the gyro pass keeps coming.

## 4. Proofs

`Dettlaff_proofs` holds for every configuration the assumptions allow: all times,
burst lengths, speeds, voltages, wiring, pusher types and control modes.

| Theorem | Says |
|---|---|
| `TypeCorrect` | `Spec => []TypeOK` |
| `FullCommand` | `Spec => []FullCommandWhileActive` |
| `IdleShortcut` | `Spec => []IdleShortcutSound` |
| `ShotsStayBounded` | `Spec => []ShotsBounded` |
| `PusherOnlyAtFullSpeed` | `Spec => []FiringOnlyAtFullSpeed` |
| `SolenoidReleased` | `Spec => []SolenoidNeverHeld` |
| `SolenoidOutputFollows` | `Spec => []SolenoidFollowsFiring` |
| `SolenoidKeepsPromise` | `Spec => KeepsSafePromise`, if the pusher is a solenoid |
| `IdleShortcutRunsOut` | `Spec => []IdleShortcutExpires`, if no reading of the battery is below the cutoff |
| `AutoStops` | `Spec => []AutoStopsOnRelease`, if there is no selector, or every mode is AUTO |

The arguments:

- Types: `ShotsType`, `SpindownType`, `ThrottleType` bound what the
  operators compute; `SpinWheelsType` and `FireType` go through the branches.
- Wheels: the two wheel invariants are inductive only together. Reaching full speed
  arms the short delay, and that is sound because accelerating wheels are commanded full speed,
  which is at least the idling speed; idling lowers them to the idling
  floor (`SpindownType`), and shutting down disarms.
- Shots: an update requests at most one burst, and only on top of less than a burst
  or of a single shot (`TriggerBounded`); after that it can only take shots off
  (`ShotsOnlySpent`).
- Pusher: `FiringOnlyAtFullSpeed` is not inductive. A retracting solenoid, or a last
  stroke with no reverse braking configured, clears `firing` without looking at
  `reverseBraking`. `PusherInv` adds that braking happens only with a pusher motor
  and a braking time. Leaving full speed needs `~firing` in every branch.
- Solenoid: `SolenoidCases` reduces an update to five cases, from which the two
  solenoid invariants follow.
- Refinement: each branch maps to an action of `Blaster`. Two facts carry it:
  with the trigger still, the trigger logic leaves the shots owed alone
  (`OnlyTriggerAdds`), and a time delay cannot override a timed-out spin-up
  (`DelayOrTimeout`), which would lose shots on the way to full speed. The second
  holds because the override wants telemetry of every wheel and there is none.
- The short delay: `IdleShortcutExpires` fails when the battery sags, because the low-battery
  return skips the idle state in which the delay expires; hence the hypothesis.
- AUTO: `AutoStopsOnRelease` says nothing of the other modes, whose shots the
  selector may hand to AUTO; `OwedByMode` bounds what is owed by the mode selected. With a selector between AUTO and
  another mode it is false (`auto_mode_switch`).

`Pusher_proofs` adds the pusher motor. Each theorem has the weakest hypothesis found, and TLC
finds the property violated without it. Each but the last holds for the shipped configuration with a motor
wired as the comment at `CONFIGURATION.h:28` has it: no dwell, 5 ms of braking, 750 ms until a stall.

| Theorem | Says | If |
|---|---|---|
| `StrokesAreBounded` | `Spec => []StrokeBounded` | no dwell, or dwell and braking that leave room for the stall to be seen |
| `DrivenForShots` | `Spec => []DrivenOnlyForShots` | no dwell |
| `ReversalsAreBounded` | `Spec => []ReversePolarityBounded` | no braking, or a dwell no longer than it |
| `PushesThroughPoweredWheels` | `Spec => []FiresOnlyThroughPoweredWheels` | no PID; full speed opens the throttle at each voltage |

- `PusherMotorInv` ties the command to the flags: a pusher that is not active is off, a dwell
  is no older than configured, and without a dwell braking means that the motor is
  reversed. `PusherMotorCases` reduces an update to the branches of the pusher motor.
- The hypotheses on the dwell are there because the last stroke leaves `pusherDwelling` set
  (`dettlaff.c:529`): a dwell that outlives its stroke holds whatever the command is, forward or reversed.
- `ReversePolarityBounded` counts from the last closing of the home switch. A closing while braking counts as another last stroke and
  restarts the timer (`dettlaff.c:500`), so there is no bound on a reversal as a whole. `ReversalInv` adds that the timer is no younger than
  the last closing.
- `PoweredAtFullSpeed` is what `throttle_12v` lacks: its integer quotient is 0.

`Debounce_proofs` holds for any width of the counter, any debounce time below it and any gaps between
updates the assumption allows.

| Theorem | Says |
|---|---|
| `TypeCorrect` | `Spec => []TypeOK` |
| `NeverDeaf` | `Spec => []TakenOverInTime` |
| `BouncesIgnored` | `Spec => OnlyStableLevels` |
| `NoDoubleEdge` | `Spec => EdgesSpaced` |
| `ImplementsCleanSwitch` | `Spec => SeesCleanSwitch` |

- The inductive invariant `DInv` adds to the types that the difference of the counter and `lastChangeTimeUs`
  tells how long the level has been held (`TimerTellsHeld`, through the wrap), and that a level not
  taken over has been held for less than the debounce time (`NotYetTakenOver`).
- Once the level is taken over the age of the stamp may wrap: whatever the comparison then says, the sample is
  the level already taken over, and the first other sample sets the stamp anew.

`MotorOutput_proofs` holds for any number of motors and slots, any delays, repeats and PID loop
times, and any command sets the assumptions allow.

| Theorem | Says |
|---|---|
| `TypeCorrect` | `Spec => []TypeOK` |
| `CommandsToStoppedMotors` | `Spec => []OnlyToStoppedMotors` |
| `StopsAtOnce` | `Spec => StopNeverDelayed` |
| `CommandsAreSpaced` | `Spec => CommandsSpaced` |

- `IInv` is `TypeOK`, `OnlyToStoppedMotors` and `StopReachesWires`: a stop value that is loaded
  has also reached its wire. The last one is what makes the test `allMotorsAreIdle`, which
  looks at what is loaded, say something about the wires; it holds because a frame is held back
  only when it carries a command or the wires are stopped already.
- `SpacedInv` adds `Spaced`: the frames since the last command and those still to wait
  together make the command delay. The subtle case is the delay that is one frame shorter when another command
  follows, because `dshotCommandQueueUpdate` costs a frame of its own.

`Fifo_proofs` proves `ImplementsFifo`, `Spec => KeepsFifo`, for the same constants.

- `Contents` reads the ring from tail to head as a sequence of commands and the frames each still
  needs; lemmas on places of the ring (`Turn`) carry this across its wrap.
- `KeptInv` is `TypeOK` and `Kept`: a command has frames left until it waits for its last delay, and only the
  one at the tail ever does. So `Retire` never meets a command with frames left, nor `Send` one without.
- Every handler that arms, disarms, beeps or obeys the host only makes the ring grow, by the commands that
  `Accept` takes, one or several. Each frame of a motor update waits, sends the command at the tail, or retires it.
- A blocking command maps to `Borrow`, a `Send`, `Retire` or wait for each frame, and `Return` (`OverwriteKeeps`, `BlockingImplements`). It changes the
  command number of the slot at the tail, never its state, repeats or delay, which is why places and counts survive.

`Scheduler_proofs` holds for any tasks, priorities, periods and execution times, and any gyro period.

| Theorem | Says |
|---|---|
| `QueueStaysSound` | `Spec => []QueueSound` |
| `TypeCorrect` | `Spec => []TypeOK` |
| `GyroLateByLag` | `Spec => []LateBy(lag)`, if passes outlast their margins by at most `lag`: while no whole period is lost, only `lag` and what tasks overran make the gyro late |
| `GyroDelay` | `Spec => []GyroDelayBounded`, if passes fit their margins: while no whole period is lost, the gyro is late only by what tasks overran (`LateByOverruns`), and a period is lost only to an overrun that reaches past it (`LostPeriodsPaid`) |

- The array alone is sound by induction: `PlaceExists` finds the slot before the first lower
  priority, `InsertSound` and `RemoveSound` show that the two moves keep order and terminator. That an array of
  a sound queue has room follows from the guard against a task added twice.
- `StepEffect` reduces a pass to what the delay depends on: the gyro ran, the queue was only walked, a task ran,
  or neither. A task is started only if its estimate, the guard and the walk fit before the target.
- `TypeCorrect` needs the steps by which guard and polling time shrink to be no larger than their minima, which
  the code's constants satisfy (`scheduler.h:37-45`): the code tests before it subtracts.
- The first half of `GyroDelay` is `GyroLateByLag` with a lag of 0. The second, `OnlyOverrunsLosePeriods`, rests on `LostToTasks`: once a period is lost, a task
  that keeps to its reserve ends before the boundary the gyro waits for, so the lateness stays below the periods already lost to overruns, and
  only another overrun adds to it. Both need `PassesFit`: a walk takes no longer than `CheckGuard`, and an idle pass less than the
  time by which polling starts early. Both fail for a reason, see section 6. With a lag that counts in the longest pass,
  `GyroLateByLag` holds for passes of any length.

`Failsafe_proofs` holds for all periods, delays, procedures and switch modes (of `LossDisarms`, GPS rescue is excepted).

| Theorem | Says | If |
|---|---|---|
| `TypeCorrect` | `Spec => []TypeOK` | |
| `FailsafeRests` | `Spec => []RestsInPhase` | |
| `LossIsDisarmed` | `Spec => LossDisarms` | |
| `ArmingNeedsLink` | `Spec => ArmsOnlyWithLink` | the failsafe value of the arm channel is not on |
| `RearmingNeedsSwitchOff` | `Spec => RearmNeedsSwitchOff` | the failsafe value does not turn the switch off |

- The do-while: `Rank` is at most 7 and falls with every round, so it ends and `Rounds`, which
  allows eight, is no bound. `RoundInv` goes through it once for all: what a round keeps, when it disarms, lands, blocks, and waits for the recovery period.
- `FailsafeInv` is `TypeOK`, `RestsInPhase`, `LinkInv` (the block for a lost link and the link agree with the
  age of the last data), `FlightInv` (armed without data only while landing, and then the age and
  the rest of the landing time together stay within the bound) and `TaskInv` (what one part of the RX task
  leaves for the next).
- Arming: `ActiveInv` says, for each part of the RX task, which block stands in the way while the failsafe is active and has
  not disarmed. Failsafe values that turn the switch on would break it.
- Rearming: `RearmInv` says that until the switch is seen off it is on in the frame, in the channel and in the mode, and
  either latched or still blocked by what disarmed.
  With passes between the parts of an RX update this rests on the recovery period: the disarming starts it anew (`Waits` of
  `RoundInv`), so unless the update is held up for that long the block is still there when the part that latches the switch runs.

Every invariant and every action or safety property the passing runs check is so stated by a theorem. Only model-checked is
what the prover cannot reach, liveness under fairness: `SettlesWhenReleased`, `WheelsEventuallyStop`, `RevReachesFullSpeed`,
`KeepsPromise` (the liveness of `Blaster`), `NoStarvation`, `QueueDrains` and `FailsafeEnds`.

## 5. Not modelled

- Floating point: PID arithmetic, duty cycles, the mixer.
- The wrap of the millisecond clock. Every timer but the dwell and the two
  microsecond ones compares `time_ms` with a sum; 49.7 days after boot a sum may
  wrap before the clock does, and for its duration the comparison is wrong.
- The PID division converts a negative `closedLoopRPM` to unsigned, so a negative demand
  asks for full throttle (lines 608 and 610); under PID the model lets the
  throttle be anything.
- `Dettlaff` says what the task commands, not what `motor[]` holds; what reaches the wires is in `MotorOutput`.
- Scheduler: `rescheduleTask` (periods are constant), a scheduler without gyro, statistics, the lock of the gyro phase
  other than as a skew of the target, the overflow of the 16-bit priorities (a task several
  hundred periods old).
- DShot: the intervals of the beacon and the guard between beacon and arming (either may come
  at any time), the detection delay at boot, telemetry, protocols other than DShot.
- Failsafe: arming by sticks, 3D mode and the automatic disarming at low throttle, the suspension of the receiver
  (`failsafeOnRxSuspend`, PWM and PPM), the beeper and the flight mode flags, the time a save takes, the
  five seconds after power-on. GPS rescue is in the module and in no run: it has no bound on how long it stays armed.
- The composition of all modules: each stands for the others by what it allows them to do. `Dettlaff`
  takes its steps from the scheduler, `MotorOutput` takes any output of the blaster.
- Components marked `not_modelled` in `PROJECT.json`, with the reasons there.

## 6. Where the code disagrees with its comments

Four disagreements have a run and a finding:

1. `throttle_12v`: the throttle is a quotient of integers. At 12 V and 40000 rpm
   with 3200 kV it is 0, and the blaster pushes darts into wheels at rest.
2. `wheels_never_stop`: `loopTime_us` measures the update, not the period, so the
   spin-down step is 0 for short updates and idle wheels keep full speed.
3. `auto_mode_switch`: the release of the trigger is judged by the mode selected at
   that moment; an automatic burst can outlive the trigger.
4. `unwired`: `mixTable` overwrites every channel of `motor[]` before the only `writeMotors`, so
   what the blaster's task stores there never reaches a wire. If it did, its 1.0 would
   be sent as DShot number 1, a beacon command.

Others seen while modelling, without a run of their own:

- All four entries of `motors` are true, and `PUSHER_SOLENOID_MOTOR_INDEX` is 2, though
  the comment at `CONFIGURATION.h:28` gives flywheels only channels 0 and 1. The copy of the
  throttles (`dettlaff.c:645`) then overwrites the pusher's command in the same update.
  The properties of the pusher are about the commands given to its driver and say nothing of `motor[]`.
- A home-switch edge while braking counts as another last stroke and sets the timer back (`dettlaff.c:500`): a bouncing or hand-turned cam
  prolongs the reversal without limit. `ReversePolarityBounded` counts from the last closing for that reason.
- `motorRPM` is never assigned, so closed-loop control never counts a wheel as at
  speed.
- With `NO_PUSHER` shots are never taken off: one pull spins the wheels for ever.
- In BINARY mode the burst of the release is dropped while the burst of the pull is still
  owed in full (`dettlaff.c:379`), as it is when the trigger is released during spin-up.
- The low-battery return leaves `fromIdle` and the shots owed as they are.
- A rev trigger held for longer than the idle time, without a shot, skips idling.
- With a dwell configured, a home-switch edge during the dwell ends the burst, and the end of
  the dwell then drives the pusher forward with no shot owed.
- `firstSchedulingOpportunity` (`scheduler.c:773`) says that the first task after the gyro runs without a recheck, but
  it is set only in a pass that looks at no task, and is local.
- A pass that ignores the fit only selects (`scheduler.c:745`); the recheck drops the task
  all the same, so a long task waits until its estimate has shrunk.
- A blocking command with inline commands pending overwrites the one at the tail
  (`dshot_command.c:211`; the comment there counts on it not happening, nothing prevents it): that one is sent as the blocking
  command, or as stop frames. The pending command also holds frames of the blocking one back. Both are in the model and `CommandFifo` allows them.
- Disarming leaves `crashFlipModeActive` set. So the sticks still spin the motors after a disarm in crash flip
  mode (`mixer.c:285`; the comment at line 342 says disarming stops them), and an arming with the switch still
  on is taken for a successful flip and flies normally (the comment at `core.c:564` excludes it).
- A command that repeats every millisecond goes out on every ninth update of an 8 kHz loop, not every eighth
  (`dshot_command.c:286`): the delay counts the updates in between.
- `delayAfterCommandUs` of a beacon is chosen and then overwritten (`dshot_command.c:257`).
- The command that sets the direction back at disarm (`core.c:508`) is lost when the ring is full, or
  within three seconds of a blocking command; the comment says always.
- Saving settings while the failsafe waits for the link resets its phase to idle, but not `active` nor the arming block
  (`config.c:166`): from then on nothing ever ends that failsafe, and the craft cannot be armed before a restart. The
  model saves in any phase, and `FailsafeEnds` excepts what a save while active leaves behind.
- With the arm channel set to off on loss, a craft disarmed by the failsafe arms again
  when the link returns, with the switch left on; the comment at `failsafe.c:390` says this is prevented.
  The same happens when a failsafe pass comes between two parts of one RX update and the failsafe began with its
  switch on: the recovery period is then 0 (`failsafe.c:338`), the pass ends the failsafe before the arm switch is latched,
  and `processRxModes` arms. It also happens when an update is held up between two parts for longer than the recovery period.
  `RearmNeedsSwitchOff` excepts these two, through `mayRearm`, and TLC finds it violated with either exception taken out. It is also
  violated with `ArmFailValue = {FALSE}`, which run and theorem exclude.
- A pass that takes longer than its margin, once a gyro period has been lost, misses the next boundary too
  (`scheduler.c:526`) and costs another. TLC finds the bounds on the delay violated with walks
  that may exceed `CheckGuard`, and with an idle pass as long as the time polling starts early.

## 7. Plan

1. `rescheduleTask` in `Scheduler`, with periods as variables: the proofs use no more of a period than that it is
   a positive number.
2. The composition of `Dettlaff`'s outputs with `MotorOutput`, once the blaster's outputs are wired.
3. `fc/dispatch.c`, if any blaster code comes to use it.
4. A bound on the delay of the gyro when a period is lost and passes outlast their margins (it would have to count the
   passes).
