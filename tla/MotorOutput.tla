----------------------------- MODULE MotorOutput -----------------------------
(***************************************************************************)
(* Who writes motor[] and what reaches the wires: the blaster's task, the  *)
(* mixer and writeMotors in every PID loop (flight/mixer.c, fc/core.c,     *)
(* drivers/motor.c), and the DShot commands that take the frames over.     *)
(* Tasks run one at a time, so a handler is a step, but for the one that   *)
(* sends a blocking command, which takes a step for every frame.  The ESCs *)
(* are past their detection delay at the start.  The seconds a beacon and  *)
(* an arming keep apart are not counted: either may come at any time.      *)
(***************************************************************************)
EXTENDS DshotCommand

CONSTANTS
  Full,             \* the blaster's 1.0, which lrintf makes the number 1
  Beacon, Normal, Reversed, EdtEnable,   \* the commands the firmware sends
  HostCommands,     \* those a host sends over MSP
  HostIndexes,      \* the sets of motors it addresses
  Throttles,        \* the outputs of mixer and host
  BlasterOutputs,
  UseEdt            \* motorConfig()->dev.useDshotEdt, with telemetry

ASSUME OutputAssumption ==
  /\ {Beacon, Normal, Reversed, EdtEnable} \cup HostCommands \subseteq Commands
  /\ HostIndexes \subseteq SUBSET Motors
  /\ Throttles \subseteq [Motors -> {Stop, Spin}]
  /\ BlasterOutputs \subseteq [Motors -> {Stop, Full}]
  /\ Full \notin Commands \cup {Stop, Spin}
  /\ UseEdt \in BOOLEAN

VARIABLES
  queue,           \* the ring of inline commands
  motor,           \* motor[]
  motor_disarmed,  \* motor_disarmed[]
  value,           \* protocolControl.value: what is loaded for each motor
  armed,           \* ARMING_FLAG(ARMED)
  crashFlipModeActive,
  streaming,       \* dshotStreamingCommandsAreEnabled()
  blocking,        \* the blocking dshotCommandWrite: whether it runs, its
                   \* frame, and how often that is still to be sent
  \* History, read by properties only.
  wires,           \* the last output on each wire that was no command
  lastFrame,       \* what the command at the tail was sent as, if it was
  sinceCommand     \* motor updates since then, up to CommandCycles

outputs == <<motor, motor_disarmed, value>>
mode    == <<armed, crashFlipModeActive>>
sending == <<streaming, blocking>>
history == <<wires, lastFrame, sinceCommand>>
vars    == <<queue, outputs, mode, sending, history>>

Throttle == [Motors -> {Stop, Spin}]
Output   == {Stop, Spin, Full}

BlockingWrite ==
  {b \in [on : BOOLEAN, frame : Frame, left : 0..SettingRepeats] : b.left > 0 => b.on}
NotBlocking == [on |-> FALSE, frame |-> AllStop, left |-> 0]

Init ==
  /\ queue = EmptyRing
  /\ motor = AllStop /\ motor_disarmed = AllStop /\ value = AllStop
  /\ armed = FALSE /\ crashFlipModeActive = FALSE
  /\ streaming = TRUE /\ blocking = NotBlocking
  /\ wires = AllStop /\ lastFrame = AllStop /\ sinceCommand = CommandCycles

-----------------------------------------------------------------------------
(* The blaster and the PID loop.                                           *)

\* Section 7 of dettlaffUpdate.
BlasterTask ==
  /\ motor' \in BlasterOutputs
  /\ UNCHANGED <<queue, motor_disarmed, value, mode, sending, history>>

\* Mutant: a disarmed craft leaves motor[] to the blaster.
Mutant_mixTable ==
  IF armed \/ crashFlipModeActive THEN Throttles ELSE {motor}

\* What mixTable may leave in motor[].  Crash flip mode drives the motors by
\* the sticks whether the craft is armed or not; an armed craft is mixed, or
\* stopped at low throttle; a disarmed one takes motor_disarmed[].
mixTable ==
  IF armed \/ crashFlipModeActive THEN Throttles ELSE {motor_disarmed}

\* pwmWriteDshotInt, bbWriteInt: a command that is being sent takes the frame.
Loaded(q, out) ==
  IF dshotCommandIsProcessing(q) THEN Current(q).command ELSE out

\* pwmCompleteDshotMotorUpdate, bbUpdateComplete.
Complete(q, loaded) ==
  IF dshotCommandQueueEmpty(q) THEN [queue |-> q, send |-> TRUE]
  ELSE dshotCommandOutputIsEnabled(q, loaded)

OnWires(before, frame) ==
  [i \in Motors |-> IF frame[i] \in Commands THEN before[i] ELSE frame[i]]

\* An inline command goes out in this update.
CommandFrame(q, done) == done.send /\ dshotCommandIsProcessing(q)

\* writeMotors of these outputs, with the motors enabled.
Write(out) ==
  LET done == Complete(queue, Loaded(queue, out)) IN
  /\ value' = Loaded(queue, out)
  /\ queue' = done.queue
  /\ wires' = IF done.send THEN OnWires(wires, value') ELSE wires
  /\ IF CommandFrame(queue, done)
     THEN lastFrame' = value' /\ sinceCommand' = 0
     ELSE /\ lastFrame' = IF queue'.tail = queue.tail THEN lastFrame ELSE AllStop
          /\ sinceCommand' = IF sinceCommand < CommandCycles
                             THEN sinceCommand + 1 ELSE sinceCommand

\* subTaskMotorUpdate.
PidLoop ==
  /\ motor' \in mixTable
  /\ Write(motor')
  /\ UNCHANGED <<motor_disarmed, mode, sending>>

-----------------------------------------------------------------------------
(* Who sends inline commands.                                              *)

\* dshotCommandWrite of an inline command by any task but the PID loop.
dshotCommandWrite(q, index, c) ==
  IF streaming THEN addCommand(q, value, index, c) ELSE q

EdtOnArming(q) ==
  IF UseEdt THEN dshotCommandWrite(q, Motors, EdtEnable) ELSE q

\* flip: the crash flip switch is on; success: the flip turned the craft over.
\* Without either, an active crash flip mode ends and blocks arming.
FlipFailed(flip, success) == crashFlipModeActive /\ ~flip /\ ~success

\* The part of updateArmingStatus about crash flip mode.
updateArmingStatus(flip, success) ==
  /\ ~armed /\ FlipFailed(flip, success)
  /\ crashFlipModeActive' = FALSE
  /\ UNCHANGED <<queue, outputs, armed, sending, history>>

\* Crash flip mode that is still active is taken for a flip that succeeded,
\* and ends; a craft not in it enters it by the switch.  wanted is the switch,
\* ignored if a beacon held the arming up.
tryArm(flip, success, wanted) ==
  LET flipping == wanted /\ ~crashFlipModeActive IN
  /\ ~armed /\ ~FlipFailed(flip, success) /\ (wanted => flip)
  /\ armed' = TRUE
  /\ crashFlipModeActive' = flipping
  /\ queue' = IF flipping
              THEN dshotCommandWrite(EdtOnArming(queue), Motors, Reversed)
              ELSE EdtOnArming(queue)
  /\ UNCHANGED <<outputs, sending, history>>

disarm ==
  /\ armed
  /\ armed' = FALSE
  /\ queue' = dshotCommandWrite(queue, Motors, Normal)
  /\ UNCHANGED <<outputs, crashFlipModeActive, sending, history>>

areMotorsRunning == armed \/ \E i \in Motors : motor_disarmed[i] # Stop

beeperUpdate ==
  /\ ~areMotorsRunning
  /\ queue' = dshotCommandWrite(queue, Motors, Beacon)
  /\ UNCHANGED <<outputs, mode, sending, history>>

\* MSP_SET_MOTOR, and the CLI's motor command.
SetMotor ==
  /\ motor_disarmed' \in Throttles
  /\ UNCHANGED <<queue, motor, value, mode, sending, history>>

\* MSP2_SEND_DSHOT_COMMAND, inline.
HostCommand ==
  /\ ~armed
  /\ \E index \in HostIndexes, c \in HostCommands :
       queue' = dshotCommandWrite(queue, index, c)
  /\ UNCHANGED <<outputs, mode, sending, history>>

-----------------------------------------------------------------------------
(* Blocking commands, with the motors disabled from start to end.          *)

\* MSP2_SEND_DSHOT_COMMAND, blocking, and the CLI's dshotprog: motorDisable,
\* dshotCommandWrite, motorEnable, which starts the detection delay.  The write
\* fakes a command in the slot at the tail, and does not look whether an inline
\* command is there; only a full ring refuses it.
BlockingStart ==
  /\ ~armed /\ streaming' = FALSE
  /\ \E index \in HostIndexes, c \in HostCommands :
       IF dshotCommandQueueFull(queue)
       THEN UNCHANGED <<queue, blocking>>
       ELSE /\ queue' = [queue EXCEPT !.slots[queue.tail].command = FrameFor(index, c)]
            /\ blocking' = [on |-> TRUE, frame |-> FrameFor(index, c), left |-> Repeats(c)]
  /\ UNCHANGED <<outputs, mode, history>>

\* One of its frames.  An inline command that is being sent takes it over, and
\* one that waits may hold it back.  Frames are CommandDelay apart.
BlockingFrame ==
  /\ blocking.left > 0
  /\ Write(blocking.frame)
  /\ blocking' = [blocking EXCEPT !.left = @ - 1]
  /\ UNCHANGED <<motor, motor_disarmed, mode, streaming>>

\* The slot that is then at the tail is cleared.
BlockingEnd ==
  /\ blocking.on /\ blocking.left = 0
  /\ queue' = [queue EXCEPT !.slots[queue.tail].command = AllStop]
  /\ blocking' = NotBlocking
  /\ UNCHANGED <<outputs, mode, streaming, history>>

\* DSHOT_PROTOCOL_DETECTION_DELAY_MS have passed.
DetectionDelayEnds ==
  /\ ~streaming /\ streaming' = TRUE
  /\ UNCHANGED <<queue, outputs, mode, blocking, history>>

-----------------------------------------------------------------------------
Task ==
  \/ BlasterTask \/ PidLoop
  \/ \E flip, success \in BOOLEAN :
       \/ updateArmingStatus(flip, success)
       \/ \E wanted \in BOOLEAN : tryArm(flip, success, wanted)
  \/ disarm \/ beeperUpdate \/ SetMotor
  \/ HostCommand \/ BlockingStart \/ DetectionDelayEnds

\* No task runs while the blocking write does.
Next ==
  \/ ~blocking.on /\ Task
  \/ BlockingFrame \/ BlockingEnd

Spec == Init /\ [][Next]_vars

\* A handler returns, and between any two of them the PID loop runs, as part of
\* every gyro cycle.
FairSpec ==
  /\ Spec /\ WF_vars(BlockingFrame \/ BlockingEnd)
  /\ SF_vars(~blocking.on /\ PidLoop)

-----------------------------------------------------------------------------
(* Properties.                                                             *)

TypeOK ==
  /\ queue \in Ring
  /\ motor \in [Motors -> Output] /\ motor_disarmed \in Throttle
  /\ value \in [Motors -> Commands \cup {Stop, Spin}]
  /\ armed \in BOOLEAN /\ crashFlipModeActive \in BOOLEAN
  /\ streaming \in BOOLEAN
  /\ blocking \in BlockingWrite
  /\ wires \in Throttle
  /\ lastFrame \in Frame
  /\ sinceCommand \in 0..CommandCycles

\* The ESCs act on commands only when stopped: from the start delay of the
\* command at the tail until its last delay ends, every wire carries the stop
\* value, whatever is asked of the motors meanwhile.
OnlyToStoppedMotors ==
  ~dshotCommandQueueEmpty(queue) /\ Current(queue).state # "IDLEWAIT"
    => \A i \in Motors : wires[i] = Stop

\* Commands are never nearer than the delay that is due between two of them,
\* whether they are repeats of one or two that follow each other.
CommandsSpaced ==
  [][CommandFrame(queue, Complete(queue, value')) /\ (PidLoop \/ BlockingFrame)
       => (sinceCommand + 1) * PidLoopTime >= CommandDelay]_vars

\* A PID loop that finds the craft disarmed, and out of crash flip mode, stops
\* every motor the host does not ask for, though commands hold frames back.
StopNeverDelayed ==
  [][PidLoop /\ ~armed /\ ~crashFlipModeActive
       => \A i \in Motors : wires'[i] = Spin => motor_disarmed[i] = Spin]_vars

\* The inline commands of the ring, each with the frames it still needs.
Pending ==
  [k \in 1..((queue.head - queue.tail) % Slots) |->
     LET control == queue.slots[(queue.tail + k - 1) % Slots]
     IN [command |-> control.command, left |-> control.repeats]]

Fifo == INSTANCE CommandFifo
  WITH Frames <- Frame, MaxRepeats <- SettingRepeats, Capacity <- Slots - 1,
       Nothing <- AllStop, pending <- Pending, borrowed <- blocking.on

\* No inline command is lost, doubled or overtaken, and none is overwritten in
\* the ring but the one a blocking command meets at the tail.
KeepsFifo == Fifo!Spec

Calm ==
  ~armed /\ ~crashFlipModeActive /\ \A i \in Motors : motor_disarmed[i] = Stop

\* Once nothing asks for a spinning motor, the command at the tail goes out
\* and makes room, however many are written meanwhile.
QueueDrains ==
  <>[]Calm => \A t \in Slot :
                []<>(dshotCommandQueueEmpty(queue) \/ queue.tail # t)

\* Disagreement, dettlaff.c:642, "Update Motor Outputs": a blaster that asks
\* for its motors again and again, with nobody else using them, sees one driven.
BlasterDrivesMotors ==
  []Calm /\ []<><<BlasterTask /\ \A i \in Motors : motor'[i] = Full>>_vars
    => <>(\E i \in Motors : wires[i] = Full)
=============================================================================
