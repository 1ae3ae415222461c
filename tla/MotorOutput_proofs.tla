-------------------------- MODULE MotorOutput_proofs --------------------------
(***************************************************************************)
(* Proofs about MotorOutput, for any number of motors, ring size, delays   *)
(* and PID loop time: the types, that no command reaches a motor that was  *)
(* last told to spin, and that commands do not keep a motor from being     *)
(* stopped.                                                                *)
(***************************************************************************)
EXTENDS MotorOutput, TLAPS

USE DshotAssumption, OutputAssumption

-----------------------------------------------------------------------------
(* The ring and the operators on it.                                       *)

\* The next slot of the ring is a slot.
LEMMA SuccSlot == ASSUME NEW s \in Slot PROVE Succ(s) \in Slot
<1>1. Slots \in Nat \ {0} /\ s \in 0..(Slots - 1)
  BY DEF Slot
<1>2. (s + 1) % Slots \in 0..(Slots - 1)
  BY <1>1
<1> QED BY <1>2 DEF Succ, Slot

\* Delays take a number of motor frames.
LEMMA CyclesNat ==
  ASSUME NEW d \in Nat PROVE dshotCommandCyclesFromTime(d) \in Nat
<1>1. d + PidLoopTime - 1 \in Nat /\ PidLoopTime \in Nat \ {0}
  OBVIOUS
<1> QED BY <1>1 DEF dshotCommandCyclesFromTime

\* Both delays do, and the one between commands at least one.
LEMMA CyclesTypes ==
  InitialCycles \in Nat /\ CommandCycles \in Nat /\ CommandCycles >= 1
<1>1. InitialCycles \in Nat /\ CommandCycles \in Nat
  BY CyclesNat DEF InitialCycles, CommandCycles
<1>2. (CommandDelay + PidLoopTime - 1) \div PidLoopTime >= 1
  OBVIOUS
<1> QED BY <1>1, <1>2 DEF CommandCycles, dshotCommandCyclesFromTime

\* A command frame is one command for some motors and stop for the others.
LEMMA FrameForType ==
  ASSUME NEW index, NEW c \in Commands PROVE FrameFor(index, c) \in Frame
BY DEF FrameFor, Frame

LEMMA CurrentType ==
  ASSUME NEW q \in Ring PROVE Current(q) \in dshotCommandControl_t
BY DEF Ring, Current

\* Writing a slot's control keeps a ring a ring.
LEMMA SlotType ==
  ASSUME NEW q \in Ring, NEW s \in Slot, NEW control \in dshotCommandControl_t
  PROVE  [q EXCEPT !.slots[s] = control] \in Ring
BY DEF Ring

\* Adding a command, refused or not, leaves a ring.
LEMMA AddType ==
  ASSUME NEW q \in Ring, NEW val, NEW index, NEW c \in Commands
  PROVE  addCommand(q, val, index, c) \in Ring
<1>1. NewControl(val, index, c) \in dshotCommandControl_t
  BY CyclesTypes, FrameForType DEF NewControl, Repeats, dshotCommandControl_t
<1>2. Succ(q.head) \in Slot
  BY SuccSlot DEF Ring
<1> QED BY <1>1, <1>2 DEF addCommand, Ring

\* One motor frame of the command at the tail leaves a ring, and says whether
\* the frame goes out.
LEMMA OutputType ==
  ASSUME NEW q \in Ring, NEW val
  PROVE  /\ dshotCommandOutputIsEnabled(q, val).queue \in Ring
         /\ dshotCommandOutputIsEnabled(q, val).send \in BOOLEAN
<1> DEFINE control == Current(q)
<1>1. control \in dshotCommandControl_t /\ q.tail \in Slot /\ Succ(q.tail) \in Slot
  BY CurrentType, SuccSlot DEF Ring
<1>2. control.nextCommandCycleDelay \in Nat /\ control.repeats \in 0..255
  BY <1>1 DEF dshotCommandControl_t
<1>3. CASE control.state = "IDLEWAIT"
  <2>1. [control EXCEPT !.state = "STARTDELAY", !.nextCommandCycleDelay = InitialCycles]
          \in dshotCommandControl_t
    BY <1>1, CyclesTypes DEF dshotCommandControl_t
  <2>2. IdleWait(q, val).queue \in Ring /\ IdleWait(q, val).send \in BOOLEAN
    BY <2>1, <1>1, SlotType DEF IdleWait, Outcome
  <2> QED BY <2>2, <1>3 DEF dshotCommandOutputIsEnabled
<1>4. CASE control.state # "IDLEWAIT" /\ control.nextCommandCycleDelay > 0
  <2>1. [control EXCEPT !.nextCommandCycleDelay = @ - 1] \in dshotCommandControl_t
    BY <1>1, <1>2, <1>4 DEF dshotCommandControl_t
  <2>2. CountDown(q).queue \in Ring /\ CountDown(q).send \in BOOLEAN
    BY <2>1, <1>1, SlotType DEF CountDown, Outcome
  <2> QED BY <2>2, <1>4 DEF dshotCommandOutputIsEnabled
<1>5. CASE control.state \in {"STARTDELAY", "ACTIVE"}
             /\ control.nextCommandCycleDelay = 0
  <2> DEFINE left == (control.repeats - 1) % 256
             delay == IF left > 0 \/ isLastDshotCommand(q)
                      THEN CommandCycles ELSE CommandCycles - 1
  <2>1. left \in 0..255
    BY <1>2
  <2>2. delay \in Nat
    BY CyclesTypes
  <2> HIDE DEF left, delay
  <2>3. [control EXCEPT !.state = IF left > 0 THEN "ACTIVE" ELSE "POSTDELAY",
                        !.repeats = left, !.nextCommandCycleDelay = delay]
          \in dshotCommandControl_t
    BY <2>1, <2>2, <1>1 DEF dshotCommandControl_t
  <2>4. SendOnce(q).queue \in Ring /\ SendOnce(q).send \in BOOLEAN
    BY <2>3, <1>1, SlotType DEF SendOnce, Outcome, left, delay
  <2> QED BY <2>4, <1>5 DEF dshotCommandOutputIsEnabled
<1>6. CASE control.state = "POSTDELAY" /\ control.nextCommandCycleDelay = 0
  <2> DEFINE rest == [q EXCEPT !.tail = Succ(@)]
  <2>1. rest \in Ring
    BY <1>1 DEF Ring
  <2>2. rest.tail \in Slot /\ Current(rest) \in dshotCommandControl_t
    BY <2>1, CurrentType DEF Ring
  <2> HIDE DEF rest
  <2>3. [Current(rest) EXCEPT !.state = "ACTIVE", !.nextCommandCycleDelay = 0]
          \in dshotCommandControl_t
    BY <2>2 DEF dshotCommandControl_t
  <2>4. [rest EXCEPT !.slots[rest.tail] =
           [Current(rest) EXCEPT !.state = "ACTIVE", !.nextCommandCycleDelay = 0]] \in Ring
    BY <2>1, <2>2, <2>3, SlotType
  <2>5. NextCommand(q).queue \in Ring /\ NextCommand(q).send \in BOOLEAN
    BY <2>1, <2>4 DEF NextCommand, Outcome, rest
  <2> QED BY <2>5, <1>6 DEF dshotCommandOutputIsEnabled
<1>7. control.state \in {"IDLEWAIT", "STARTDELAY", "ACTIVE", "POSTDELAY"}
  BY <1>1 DEF dshotCommandControl_t
<1> QED BY <1>2, <1>3, <1>4, <1>5, <1>6, <1>7

\* Faking a command at the tail leaves a ring, of the same commands otherwise.
LEMMA OverwriteType ==
  ASSUME NEW q \in Ring, NEW frame \in Frame
  PROVE  LET r == [q EXCEPT !.slots[q.tail].command = frame] IN
         /\ r \in Ring /\ r.head = q.head /\ r.tail = q.tail
         /\ r.slots = [q.slots EXCEPT ![q.tail] = [Current(q) EXCEPT !.command = frame]]
         /\ Current(r) = [Current(q) EXCEPT !.command = frame]
         /\ Current(r).state = Current(q).state
         /\ Current(r).nextCommandCycleDelay = Current(q).nextCommandCycleDelay
<1> DEFINE r == [q EXCEPT !.slots[q.tail].command = frame]
           control == [Current(q) EXCEPT !.command = frame]
<1>1. Current(q) \in dshotCommandControl_t /\ q.tail \in Slot
  BY CurrentType DEF Ring
<1>2. /\ control \in dshotCommandControl_t /\ control.state = Current(q).state
      /\ control.nextCommandCycleDelay = Current(q).nextCommandCycleDelay
  BY <1>1 DEF dshotCommandControl_t
<1>3. r = [q EXCEPT !.slots[q.tail] = control]
  BY <1>1 DEF Current, Ring
<1> HIDE DEF control
<1>4. r \in Ring
  BY <1>1, <1>2, <1>3, SlotType
<1>5. /\ r.head = q.head /\ r.tail = q.tail /\ Current(r) = control
      /\ r.slots = [q.slots EXCEPT ![q.tail] = control]
  BY <1>1, <1>3 DEF Current, Ring
<1> QED BY <1>2, <1>4, <1>5 DEF control

\* An update ends the idle wait only for motors that are all idle, and during
\* the rest of a command sends only the command itself, or after its end.
LEMMA OutputStops ==
  ASSUME NEW q \in Ring, NEW val
  PROVE  LET done == dshotCommandOutputIsEnabled(q, val) IN
         /\ Current(q).state = "IDLEWAIT" =>
              /\ done.send
              /\ Current(done.queue).state # "IDLEWAIT" => allMotorsAreIdle(val)
         /\ Current(q).state # "IDLEWAIT" /\ done.send /\ ~dshotCommandQueueEmpty(q) =>
              dshotCommandIsProcessing(q) \/ dshotCommandQueueEmpty(done.queue)
<1> DEFINE control == Current(q)
           done == dshotCommandOutputIsEnabled(q, val)
<1>1. /\ control.state \in {"IDLEWAIT", "STARTDELAY", "ACTIVE", "POSTDELAY"}
      /\ control.nextCommandCycleDelay \in Nat
  BY CurrentType DEF dshotCommandControl_t
<1>2. CASE control.state = "IDLEWAIT"
  <2>1. done = IdleWait(q, val)
    BY <1>2 DEF dshotCommandOutputIsEnabled
  <2>2. CASE allMotorsAreIdle(val)
    BY <2>1, <2>2, <1>2 DEF IdleWait, Outcome
  <2>3. CASE ~allMotorsAreIdle(val)
    <3>1. done.queue = [q EXCEPT !.slots[q.tail] = q.slots[q.tail]] /\ done.send
      BY <2>1, <2>3 DEF IdleWait, Outcome, Current
    <3>2. Current(done.queue) = Current(q)
      BY <3>1 DEF Ring, Current
    <3> QED BY <3>1, <3>2, <1>2
  <2> QED BY <2>2, <2>3
<1>3. CASE control.state # "IDLEWAIT" /\ control.nextCommandCycleDelay > 0
  <2>1. done = CountDown(q)
    BY <1>3 DEF dshotCommandOutputIsEnabled
  <2> QED BY <2>1, <1>3 DEF CountDown, Outcome
<1>4. CASE control.state \in {"STARTDELAY", "ACTIVE"}
  BY <1>4 DEF dshotCommandIsProcessing
<1>5. CASE control.state = "POSTDELAY" /\ control.nextCommandCycleDelay = 0
  <2>1. done = NextCommand(q)
    BY <1>5 DEF dshotCommandOutputIsEnabled
  <2> QED BY <2>1, <1>5 DEF NextCommand, Outcome
<1> QED BY <1>1, <1>2, <1>3, <1>4, <1>5

-----------------------------------------------------------------------------
(* The invariant.                                                          *)

\* What is loaded as stop is stop on the wire: a frame held back leaves the
\* wires as they were, but it is held back only for motors already stopped.
StopReachesWires == \A i \in Motors : value[i] = Stop => wires[i] = Stop

IInv == TypeOK /\ OnlyToStoppedMotors /\ StopReachesWires

LEMMA EmptyRingType == EmptyRing \in Ring
<1>1. 0 \in Slot
  BY DEF Slot
<1> QED BY <1>1 DEF EmptyRing, Ring, dshotCommandControl_t, Frame, AllStop

LEMMA InitInv == Init => IInv
<1> SUFFICES ASSUME Init PROVE IInv
  OBVIOUS
<1>1. TypeOK
  <2>1. /\ AllStop \in [Motors -> Output] /\ AllStop \in Throttle /\ AllStop \in Frame
        /\ AllStop \in [Motors -> Commands \cup {Stop, Spin}]
    BY DEF AllStop, Output, Throttle, Frame
  <2>2. CommandCycles \in 0..CommandCycles
    BY CyclesTypes
  <2>3. NotBlocking \in BlockingWrite
    BY <2>1 DEF NotBlocking, BlockingWrite
  <2> QED BY <2>1, <2>2, <2>3, EmptyRingType DEF Init, TypeOK
<1>2. dshotCommandQueueEmpty(queue)
  BY DEF Init, EmptyRing, dshotCommandQueueEmpty
<1> QED BY <1>1, <1>2 DEF Init, IInv, OnlyToStoppedMotors, StopReachesWires, AllStop

\* Adding a command never puts one with its idle wait behind it at the tail
\* of the ring while a motor spins.
LEMMA AddStops ==
  ASSUME IInv, NEW q \in Ring, NEW index, NEW c,
         ~dshotCommandQueueEmpty(q) /\ Current(q).state # "IDLEWAIT"
           => \A i \in Motors : wires[i] = Stop,
         LET after == addCommand(q, value, index, c)
         IN ~dshotCommandQueueEmpty(after) /\ Current(after).state # "IDLEWAIT"
  PROVE  \A i \in Motors : wires[i] = Stop
<1> DEFINE after == addCommand(q, value, index, c)
<1>1. CASE dshotCommandQueueFull(q)
  BY <1>1 DEF addCommand
<1>2. CASE ~dshotCommandQueueFull(q)
  <2>1. after.tail = q.tail /\ q.head \in Slot /\ q.tail \in Slot
        /\ after.slots = [q.slots EXCEPT ![q.head] = NewControl(value, index, c)]
    BY <1>2 DEF addCommand, Ring
  <2>2. CASE q.head # q.tail
    <3>1. Current(after) = Current(q)
      BY <2>1, <2>2 DEF Current, Ring
    <3> QED BY <3>1, <2>2 DEF dshotCommandQueueEmpty
  <2>3. CASE q.head = q.tail
    <3>1. Current(after) = NewControl(value, index, c)
      BY <2>1, <2>3 DEF Current, Ring
    <3>2. allMotorsAreIdle(value)
      BY <3>1 DEF NewControl
    <3> QED BY <3>2 DEF allMotorsAreIdle, IInv, StopReachesWires
  <2> QED BY <2>2, <2>3
<1> QED BY <1>1, <1>2

\* What every handler that writes inline commands keeps: a ring in which the
\* command at the tail is past its idle wait only over stopped motors.
Sound(q) ==
  /\ q \in Ring
  /\ ~dshotCommandQueueEmpty(q) /\ Current(q).state # "IDLEWAIT"
       => \A i \in Motors : wires[i] = Stop

LEMMA WriteSound ==
  ASSUME IInv, NEW q, Sound(q), NEW index, NEW c \in Commands
  PROVE  Sound(dshotCommandWrite(q, index, c))
<1>1. addCommand(q, value, index, c) \in Ring
  BY AddType DEF Sound
<1>2. ASSUME ~dshotCommandQueueEmpty(addCommand(q, value, index, c)),
             Current(addCommand(q, value, index, c)).state # "IDLEWAIT"
      PROVE  \A i \in Motors : wires[i] = Stop
  BY <1>2, AddStops DEF Sound
<1> QED BY <1>1, <1>2 DEF dshotCommandWrite, Sound

\* A handler that leaves the outputs alone, and the ring sound, keeps the
\* invariant.
LEMMA HandlerKeepsInv ==
  ASSUME IInv, Sound(queue'), UNCHANGED <<value, wires, lastFrame, sinceCommand>>,
         motor' \in [Motors -> Output], motor_disarmed' \in Throttle,
         armed' \in BOOLEAN, crashFlipModeActive' \in BOOLEAN, streaming' \in BOOLEAN,
         blocking' \in BlockingWrite
  PROVE  IInv'
BY DEF IInv, Sound, TypeOK, OnlyToStoppedMotors, StopReachesWires,
       dshotCommandQueueEmpty, Current

\* Commands and throttles are values to load.
LEMMA FrameThrottle ==
  /\ Frame \subseteq [Motors -> Commands \cup {Stop, Spin}]
  /\ Throttle \subseteq [Motors -> Commands \cup {Stop, Spin}]
BY DEF Frame, Throttle

\* On the wires, a command leaves a motor what it was told before.
LEMMA OnWiresType ==
  ASSUME IInv, NEW out \in [Motors -> Commands \cup {Stop, Spin}]
  PROVE  /\ OnWires(wires, out) \in Throttle
         /\ \A i \in Motors : out[i] = Stop => OnWires(wires, out)[i] = Stop
         /\ out \in Throttle => OnWires(wires, out) = out
BY DEF IInv, TypeOK, OnWires, Throttle

\* An update leaves the ring sound, and either what was asked of the motors
\* or stop on every wire.
LEMMA WriteStops ==
  ASSUME IInv, NEW out \in [Motors -> Commands \cup {Stop, Spin}], Write(out)
  PROVE  /\ queue' \in Ring
         /\ value' \in [Motors -> Commands \cup {Stop, Spin}]
         /\ lastFrame' \in Frame /\ sinceCommand' \in 0..CommandCycles
         /\ wires' = OnWires(wires, out) \/ wires' = AllStop
         /\ OnlyToStoppedMotors' /\ StopReachesWires'
<1> DEFINE val == Loaded(queue, out)
           done == Complete(queue, val)
<1>1. queue \in Ring /\ wires \in Throttle /\ lastFrame \in Frame
      /\ sinceCommand \in 0..CommandCycles
  BY DEF IInv, TypeOK
<1>2. value' = val /\ queue' = done.queue
      /\ wires' = IF done.send THEN OnWires(wires, val) ELSE wires
  BY DEF Write
<1>3. /\ val \in [Motors -> Commands \cup {Stop, Spin}]
      /\ \/ val = out
         \/ dshotCommandIsProcessing(queue) /\ val \in Frame
  <2>1. CASE dshotCommandIsProcessing(queue)
    <3>1. val = Current(queue).command /\ val \in Frame
      BY <2>1, <1>1, CurrentType DEF Loaded, dshotCommandControl_t
    <3> HIDE DEF val
    <3> QED BY <3>1, <2>1, FrameThrottle
  <2>2. CASE ~dshotCommandIsProcessing(queue)
    BY <2>2 DEF Loaded
  <2> QED BY <2>1, <2>2
<1>4. queue' \in Ring
  BY <1>1, <1>2, OutputType DEF Complete
<1>5. lastFrame' \in Frame /\ sinceCommand' \in 0..CommandCycles
  <2>1. CASE CommandFrame(queue, done)
    <3>1. dshotCommandIsProcessing(queue) /\ lastFrame' = value' /\ sinceCommand' = 0
      BY <2>1 DEF Write, CommandFrame
    <3>2. value' = Current(queue).command /\ Current(queue).command \in Frame
      BY <3>1, <1>1, <1>2, CurrentType DEF Loaded, dshotCommandControl_t
    <3> QED BY <3>1, <3>2, CyclesTypes
  <2>2. CASE ~CommandFrame(queue, done)
    <3>1. lastFrame' \in {lastFrame, AllStop} /\ AllStop \in Frame
      BY <2>2 DEF Write, AllStop, Frame
    <3>2. sinceCommand' \in 0..CommandCycles
      BY <2>2, <1>1, CyclesTypes DEF Write
    <3> QED BY <3>1, <3>2, <1>1
  <2> QED BY <2>1, <2>2
\* What is loaded as stop goes out as stop.
<1>6. \A i \in Motors : out[i] = Stop => OnWires(wires, out)[i] = Stop
  BY OnWiresType
<1>7. CASE dshotCommandQueueEmpty(queue)
  <2>1. val = out /\ done.send /\ dshotCommandQueueEmpty(done.queue)
    BY <1>7 DEF Loaded, Complete, dshotCommandIsProcessing
  <2> HIDE DEF val, done
  <2> QED BY <2>1, <1>2, <1>3, <1>4, <1>5, <1>6
          DEF OnlyToStoppedMotors, StopReachesWires, dshotCommandQueueEmpty
<1>8. CASE ~dshotCommandQueueEmpty(queue) /\ Current(queue).state = "IDLEWAIT"
  <2>1. val = out
    BY <1>8 DEF Loaded, dshotCommandIsProcessing
  <2>2. /\ done.send
        /\ Current(done.queue).state # "IDLEWAIT" => allMotorsAreIdle(val)
    BY <1>8, <1>1, OutputStops DEF Complete
  <2>3. wires' = OnWires(wires, out) /\ value' = out
    BY <2>1, <2>2, <1>2
  <2> QED BY <2>1, <2>2, <2>3, <1>2, <1>3, <1>4, <1>5, <1>6
          DEF OnlyToStoppedMotors, StopReachesWires, Current, allMotorsAreIdle
<1>9. CASE ~dshotCommandQueueEmpty(queue) /\ Current(queue).state # "IDLEWAIT"
  <2>1. wires = AllStop
    BY <1>9, <1>1 DEF IInv, OnlyToStoppedMotors, Throttle, AllStop
  <2>2. CASE ~done.send
    BY <2>1, <2>2, <1>2, <1>3, <1>4, <1>5
       DEF OnlyToStoppedMotors, StopReachesWires, AllStop
  <2>3. CASE val # out
    <3>1. wires' = AllStop
      BY <2>1, <2>3, <1>2, <1>3 DEF OnWires, AllStop, Frame
    <3> QED BY <3>1, <1>2, <1>3, <1>4, <1>5
            DEF OnlyToStoppedMotors, StopReachesWires, AllStop
  <2>4. CASE done.send /\ val = out
    <3>1. wires' = OnWires(wires, out) /\ value' = out
      BY <2>4, <1>2
    <3>2. dshotCommandIsProcessing(queue) \/ dshotCommandQueueEmpty(done.queue)
      BY <2>4, <1>9, <1>1, OutputStops DEF Complete
    <3>3. CASE dshotCommandQueueEmpty(done.queue)
      BY <3>1, <3>3, <1>2, <1>3, <1>4, <1>5, <1>6
         DEF OnlyToStoppedMotors, StopReachesWires, dshotCommandQueueEmpty
    <3>4. CASE dshotCommandIsProcessing(queue)
      <4>1. val = Current(queue).command /\ val \in Frame
        BY <3>4, <1>1, CurrentType DEF Loaded, dshotCommandControl_t
      <4>2. wires' = AllStop
        BY <4>1, <2>1, <2>4, <1>2 DEF OnWires, AllStop, Frame
      <4> QED BY <4>2, <1>2, <1>3, <1>4, <1>5
              DEF OnlyToStoppedMotors, StopReachesWires, AllStop
    <3> QED BY <3>2, <3>3, <3>4
  <2> QED BY <2>2, <2>3, <2>4
<1> QED BY <1>7, <1>8, <1>9

-----------------------------------------------------------------------------
(* The invariant holds in every step.                                      *)

\* So an update that leaves the craft's state alone keeps the invariant.
LEMMA WriteKeepsInv ==
  ASSUME IInv, NEW out \in [Motors -> Commands \cup {Stop, Spin}], Write(out),
         UNCHANGED <<motor_disarmed, mode, streaming>>,
         motor' \in [Motors -> Output], blocking' \in BlockingWrite
  PROVE  IInv'
<1>1. wires' \in Throttle
  BY WriteStops, OnWiresType DEF Throttle, AllStop
<1> QED BY <1>1, WriteStops DEF IInv, TypeOK, mode

\* Whatever the mixer leaves in motor[] is a throttle for every motor.
LEMMA MixThrottle == IInv => mixTable \subseteq Throttle
BY DEF IInv, TypeOK, mixTable, Throttle

LEMMA ThrottleOutput == Throttle \subseteq [Motors -> Output]
BY DEF Throttle, Output

LEMMA CommandSources ==
  ASSUME IInv
  PROVE  /\ Sound(queue)
         /\ Sound(EdtOnArming(queue))
         /\ Sound(dshotCommandWrite(EdtOnArming(queue), Motors, Reversed))
         /\ Sound(dshotCommandWrite(queue, Motors, Normal))
         /\ Sound(dshotCommandWrite(queue, Motors, Beacon))
         /\ \A index \in HostIndexes, c \in HostCommands :
              Sound(dshotCommandWrite(queue, index, c))
         /\ \A frame \in Frame : Sound([queue EXCEPT !.slots[queue.tail].command = frame])
<1>1. Sound(queue)
  BY DEF Sound, IInv, TypeOK, OnlyToStoppedMotors
<1>2. Sound(EdtOnArming(queue))
  BY <1>1, WriteSound DEF EdtOnArming
<1>3. \A frame \in Frame : Sound([queue EXCEPT !.slots[queue.tail].command = frame])
  BY <1>1, OverwriteType DEF Sound, dshotCommandQueueEmpty
<1> QED BY <1>1, <1>2, <1>3, WriteSound

LEMMA NextInv == IInv /\ [Next]_vars => IInv'
<1> SUFFICES ASSUME IInv, [Next]_vars PROVE IInv'
  OBVIOUS
<1> USE DEF outputs, mode, sending, history
<1>1. /\ Sound(queue) /\ motor \in [Motors -> Output] /\ motor_disarmed \in Throttle
      /\ armed \in BOOLEAN /\ crashFlipModeActive \in BOOLEAN /\ streaming \in BOOLEAN
      /\ blocking \in BlockingWrite
  BY CommandSources DEF IInv, TypeOK
<1>2. CASE BlasterTask
  <2>1. motor' \in [Motors -> Output]
    BY <1>2 DEF BlasterTask, Output
  <2> QED BY <2>1, <1>1, <1>2, HandlerKeepsInv DEF BlasterTask, Sound
<1>3. CASE PidLoop
  <2>1. motor' \in Throttle /\ Write(motor')
    BY <1>3, MixThrottle DEF PidLoop
  <2>2. motor' \in [Motors -> Output] /\ motor' \in [Motors -> Commands \cup {Stop, Spin}]
    BY <2>1, ThrottleOutput, FrameThrottle
  <2> QED BY <2>1, <2>2, <1>1, <1>3, WriteKeepsInv DEF PidLoop
<1>4. ASSUME NEW flip \in BOOLEAN, NEW success \in BOOLEAN, updateArmingStatus(flip, success)
      PROVE  IInv'
  BY <1>1, <1>4, HandlerKeepsInv DEF updateArmingStatus, Sound
<1>5. ASSUME NEW flip \in BOOLEAN, NEW success \in BOOLEAN, NEW wanted \in BOOLEAN,
             tryArm(flip, success, wanted)
      PROVE  IInv'
  <2>1. UNCHANGED wires /\ queue' \in {EdtOnArming(queue),
           dshotCommandWrite(EdtOnArming(queue), Motors, Reversed)}
    BY <1>5 DEF tryArm
  <2>2. Sound(queue')
    BY <2>1, CommandSources DEF Sound
  <2> QED BY <2>2, <1>1, <1>5, HandlerKeepsInv DEF tryArm
<1>6. CASE disarm
  <2>1. Sound(queue')
    BY <1>6, CommandSources DEF disarm, Sound
  <2> QED BY <2>1, <1>1, <1>6, HandlerKeepsInv DEF disarm
<1>7. CASE beeperUpdate
  <2>1. Sound(queue')
    BY <1>7, CommandSources DEF beeperUpdate, Sound
  <2> QED BY <2>1, <1>1, <1>7, HandlerKeepsInv DEF beeperUpdate
<1>8. CASE SetMotor
  BY <1>1, <1>8, HandlerKeepsInv DEF SetMotor, Sound, Throttle
<1>9. CASE HostCommand
  <2>1. Sound(queue')
    BY <1>9, CommandSources DEF HostCommand, Sound
  <2> QED BY <2>1, <1>1, <1>9, HandlerKeepsInv DEF HostCommand
<1>10. CASE DetectionDelayEnds
  BY <1>1, <1>10, HandlerKeepsInv DEF DetectionDelayEnds, Sound
<1>11. CASE BlockingStart
  <2> PICK index \in HostIndexes, c \in HostCommands :
        IF dshotCommandQueueFull(queue)
        THEN UNCHANGED <<queue, blocking>>
        ELSE /\ queue' = [queue EXCEPT !.slots[queue.tail].command = FrameFor(index, c)]
             /\ blocking' = [on |-> TRUE, frame |-> FrameFor(index, c), left |-> Repeats(c)]
    BY <1>11 DEF BlockingStart
  <2>1. FrameFor(index, c) \in Frame /\ Repeats(c) \in 0..SettingRepeats
    BY FrameForType DEF Repeats
  <2>2. Sound(queue') /\ blocking' \in BlockingWrite
    <3>1. CASE dshotCommandQueueFull(queue)
      BY <3>1, <1>1
    <3>2. CASE ~dshotCommandQueueFull(queue)
      <4>1. Sound(queue')
        BY <3>2, <2>1, CommandSources
      <4>2. blocking' \in BlockingWrite
        <5>1. blocking' = [on |-> TRUE, frame |-> FrameFor(index, c), left |-> Repeats(c)]
          BY <3>2
        <5>2. [on |-> TRUE, frame |-> FrameFor(index, c), left |-> Repeats(c)] \in BlockingWrite
          BY <2>1, Zenon DEF BlockingWrite
        <5> QED BY <5>1, <5>2
      <4> QED BY <4>1, <4>2
    <3> QED BY <3>1, <3>2
  <2> QED BY <2>2, <1>1, <1>11, HandlerKeepsInv DEF BlockingStart
<1>12. CASE BlockingFrame
  <2>1. blocking.frame \in [Motors -> Commands \cup {Stop, Spin}] /\ Write(blocking.frame)
    BY <1>1, <1>12, FrameThrottle DEF BlockingFrame, BlockingWrite
  <2>2. blocking' \in BlockingWrite
    BY <1>1, <1>12 DEF BlockingFrame, BlockingWrite
  <2> QED BY <2>1, <2>2, <1>1, <1>12, WriteKeepsInv DEF BlockingFrame
<1>13. CASE BlockingEnd
  <2>1. AllStop \in Frame
    BY DEF AllStop, Frame
  <2>2. Sound(queue')
    BY <2>1, <1>13, CommandSources DEF BlockingEnd, Sound
  <2>3. NotBlocking \in BlockingWrite
    BY <2>1 DEF NotBlocking, BlockingWrite
  <2> QED BY <2>2, <2>3, <1>1, <1>13, HandlerKeepsInv DEF BlockingEnd
<1>14. CASE UNCHANGED vars
  BY <1>1, <1>14, HandlerKeepsInv DEF vars, Sound
<1> QED BY <1>2, <1>3, <1>4, <1>5, <1>6, <1>7, <1>8, <1>9, <1>10, <1>11, <1>12,
           <1>13, <1>14 DEF Next, Task

-----------------------------------------------------------------------------
(* The theorems.                                                           *)

\* The invariant is one: whatever the tasks do, in whatever order.
THEOREM Invariance == Spec => []IInv
<1>1. Init => IInv
  BY InitInv
<1>2. IInv /\ [Next]_vars => IInv'
  BY NextInv
<1> QED BY <1>1, <1>2, PTL DEF Spec

\* Every ring, output and counter keeps its type; above all, the head and the
\* tail stay in the ring.
THEOREM TypeCorrect == Spec => []TypeOK
<1>1. IInv => TypeOK
  BY DEF IInv
<1> QED BY <1>1, Invariance, PTL

\* From its start delay to its last delay, a command finds every wire at stop.
THEOREM CommandsToStoppedMotors == Spec => []OnlyToStoppedMotors
<1>1. IInv => OnlyToStoppedMotors
  BY DEF IInv
<1> QED BY <1>1, Invariance, PTL

\* A disarmed craft, out of crash flip mode, has its motors stopped by the next
\* PID loop, commands or not.
THEOREM StopsAtOnce == Spec => StopNeverDelayed
<1>1. ASSUME IInv, PidLoop, ~armed, ~crashFlipModeActive,
             NEW i \in Motors, wires'[i] = Spin
      PROVE  motor_disarmed[i] = Spin
  <2>1. motor' = motor_disarmed /\ Write(motor_disarmed) /\ motor_disarmed \in Throttle
    BY <1>1 DEF PidLoop, mixTable, IInv, TypeOK
  <2>2. wires' = motor_disarmed \/ wires' = AllStop
    <3>1. motor_disarmed \in [Motors -> Commands \cup {Stop, Spin}]
      BY <2>1, FrameThrottle
    <3> QED BY <2>1, <3>1, <1>1, WriteStops, OnWiresType
  <2> QED BY <2>2, <1>1 DEF AllStop
<1>2. IInv =>
        [PidLoop /\ ~armed /\ ~crashFlipModeActive
           => \A i \in Motors : wires'[i] = Spin => motor_disarmed[i] = Spin]_vars
  BY <1>1
<1> QED BY <1>2, Invariance, PTL DEF StopNeverDelayed

-----------------------------------------------------------------------------
(* The spacing of commands.                                                *)

\* The frames since the last command and those still to wait make up the
\* delay; the frame that takes a command off the ring is the one not waited.
Spaced(q, since) ==
  IF dshotCommandQueueEmpty(q) \/ Current(q).state \in {"IDLEWAIT", "STARTDELAY"}
  THEN since = CommandCycles
  ELSE since + Current(q).nextCommandCycleDelay >=
         IF Current(q).state = "POSTDELAY" /\ ~isLastDshotCommand(q)
         THEN CommandCycles - 1 ELSE CommandCycles

\* The counter of the frames since a command.
Later(since) == IF since < CommandCycles THEN since + 1 ELSE since

\* Going round the ring.
LEMMA SuccValue ==
  ASSUME NEW s \in Slot PROVE Succ(s) = IF s = Slots - 1 THEN 0 ELSE s + 1
<1>1. Slots \in Nat \ {0} /\ s \in 0..(Slots - 1)
  BY DEF Slot
<1>2. (s + 1) % Slots = IF s = Slots - 1 THEN 0 ELSE s + 1
  BY <1>1
<1> QED BY <1>2 DEF Succ

\* The control at the tail, written over, is the current one.
LEMMA OutcomeCurrent ==
  ASSUME NEW q \in Ring, NEW control, NEW mayGo
  PROVE  Current(Outcome(q, control, mayGo).queue) = control
BY DEF Outcome, Current, Ring

\* In a frame of the ring the spacing is kept, and a command goes out only
\* when its delay is over.
LEMMA OutputSpaced ==
  ASSUME NEW q \in Ring, ~dshotCommandQueueEmpty(q), NEW val,
         NEW since \in 0..CommandCycles, Spaced(q, since)
  PROVE  LET done == dshotCommandOutputIsEnabled(q, val) IN
         IF done.send /\ dshotCommandIsProcessing(q)
         THEN since = CommandCycles /\ Spaced(done.queue, 0)
         ELSE Spaced(done.queue, Later(since))
<1> DEFINE control == Current(q)
           done == dshotCommandOutputIsEnabled(q, val)
<1>1. /\ control.state \in {"IDLEWAIT", "STARTDELAY", "ACTIVE", "POSTDELAY"}
      /\ control.nextCommandCycleDelay \in Nat /\ control.repeats \in 0..255
      /\ control \in dshotCommandControl_t
      /\ CommandCycles \in Nat /\ CommandCycles >= 1 /\ InitialCycles \in Nat
  BY CurrentType, CyclesTypes DEF dshotCommandControl_t
<1> SUFFICES IF done.send /\ dshotCommandIsProcessing(q)
             THEN since = CommandCycles /\ Spaced(done.queue, 0)
             ELSE Spaced(done.queue, Later(since))
  OBVIOUS
<1> HIDE DEF done
<1>2. CASE control.state = "IDLEWAIT"
  <2>1. done = IdleWait(q, val) /\ ~dshotCommandIsProcessing(q) /\ since = CommandCycles
    BY <1>2 DEF dshotCommandOutputIsEnabled, dshotCommandIsProcessing, Spaced, done
  <2>2. Current(done.queue).state \in {"IDLEWAIT", "STARTDELAY"}
    <3>1. CASE allMotorsAreIdle(val)
      <4> DEFINE started == [control EXCEPT !.state = "STARTDELAY",
                                            !.nextCommandCycleDelay = InitialCycles]
      <4>1. done = Outcome(q, started, TRUE)
        BY <2>1, <3>1 DEF IdleWait
      <4>2. started.state = "STARTDELAY"
        BY <1>1 DEF dshotCommandControl_t
      <4> HIDE DEF started
      <4> QED BY <4>1, <4>2, OutcomeCurrent
    <3>2. CASE ~allMotorsAreIdle(val)
      <4>1. done = Outcome(q, control, TRUE)
        BY <2>1, <3>2 DEF IdleWait
      <4> QED BY <4>1, <1>2, OutcomeCurrent
    <3> QED BY <3>1, <3>2
  <2> QED BY <2>1, <2>2, <1>1 DEF Spaced, Later
<1>3. CASE control.state # "IDLEWAIT" /\ control.nextCommandCycleDelay > 0
  <2>1. done = CountDown(q) /\ ~done.send
    BY <1>3 DEF dshotCommandOutputIsEnabled, CountDown, Outcome, done
  <2> DEFINE waited == [control EXCEPT !.nextCommandCycleDelay = @ - 1]
  <2>2. done = Outcome(q, waited, FALSE)
    BY <2>1 DEF CountDown
  <2>3. /\ waited.state = control.state
        /\ waited.nextCommandCycleDelay = control.nextCommandCycleDelay - 1
    BY <1>1 DEF dshotCommandControl_t
  <2> HIDE DEF waited
  <2>4. /\ Current(done.queue) = waited
        /\ done.queue.head = q.head /\ done.queue.tail = q.tail
    <3>1. Current(done.queue) = waited
      BY <2>2, OutcomeCurrent
    <3>2. done.queue.head = q.head /\ done.queue.tail = q.tail
      BY <2>2 DEF Outcome, Ring
    <3> QED BY <3>1, <3>2
  <2> QED BY <2>1, <2>3, <2>4, <1>1, <1>3
          DEF Spaced, Later, dshotCommandQueueEmpty, isLastDshotCommand
<1>4. CASE control.state \in {"STARTDELAY", "ACTIVE"}
             /\ control.nextCommandCycleDelay = 0
  <2> DEFINE left == (control.repeats - 1) % 256
             delay == IF left > 0 \/ isLastDshotCommand(q)
                      THEN CommandCycles ELSE CommandCycles - 1
             sent == [control EXCEPT !.state = IF left > 0 THEN "ACTIVE" ELSE "POSTDELAY",
                                     !.repeats = left, !.nextCommandCycleDelay = delay]
  <2>1. done = Outcome(q, sent, TRUE)
    <3>1. done = SendOnce(q)
      BY <1>4 DEF dshotCommandOutputIsEnabled, done
    <3> QED BY <3>1 DEF SendOnce
  <2>2. done.send
    BY <2>1 DEF Outcome
  <2>3. sent.state = (IF left > 0 THEN "ACTIVE" ELSE "POSTDELAY")
        /\ sent.nextCommandCycleDelay = delay
    BY <1>1 DEF dshotCommandControl_t
  <2>4. left \in 0..255
    BY <1>1
  <2>5. since = CommandCycles
    BY <1>1, <1>4 DEF Spaced
  <2>6. dshotCommandIsProcessing(q)
    BY <1>4 DEF dshotCommandIsProcessing
  <2> HIDE DEF sent, left
  <2>7. /\ Current(done.queue) = sent
        /\ done.queue.head = q.head /\ done.queue.tail = q.tail
    <3>1. Current(done.queue) = sent
      BY <2>1, OutcomeCurrent
    <3>2. done.queue.head = q.head /\ done.queue.tail = q.tail
      BY <2>1 DEF Outcome, Ring
    <3> QED BY <3>1, <3>2
  <2>8. Spaced(done.queue, 0)
    BY <2>3, <2>4, <2>7, <1>1 DEF Spaced, dshotCommandQueueEmpty, isLastDshotCommand
  <2> QED BY <2>2, <2>5, <2>6, <2>8
<1>5. CASE control.state = "POSTDELAY" /\ control.nextCommandCycleDelay = 0
  <2> DEFINE rest == [q EXCEPT !.tail = Succ(@)]
  <2>1. done = NextCommand(q)
    BY <1>5 DEF dshotCommandOutputIsEnabled, done
  <2>2. rest \in Ring /\ rest.head = q.head /\ rest.tail = Succ(q.tail)
    BY SuccSlot DEF Ring
  <2>3. CASE dshotCommandQueueEmpty(rest)
    <3>1. isLastDshotCommand(q) /\ ~dshotCommandIsProcessing(q)
      BY <2>2, <2>3, <1>5 DEF dshotCommandQueueEmpty, isLastDshotCommand,
                              dshotCommandIsProcessing
    <3>2. since = CommandCycles
      BY <3>1, <1>1, <1>5 DEF Spaced
    <3>3. done.queue = rest
      BY <2>1, <2>3 DEF NextCommand
    <3> QED BY <3>1, <3>2, <3>3, <2>3, <1>1 DEF Spaced, Later
  <2>4. CASE ~dshotCommandQueueEmpty(rest)
    <3> DEFINE next == [Current(rest) EXCEPT !.state = "ACTIVE",
                                             !.nextCommandCycleDelay = 0]
    <3>1. done = Outcome(rest, next, FALSE)
      BY <2>1, <2>4 DEF NextCommand
    <3>2. Current(done.queue) = next /\ ~done.send
      <4> HIDE DEF next, rest
      <4>1. ~done.send
        BY <3>1 DEF Outcome
      <4> QED BY <4>1, <3>1, <2>2, OutcomeCurrent
    <3>3. next.state = "ACTIVE" /\ next.nextCommandCycleDelay = 0
      BY <2>2, CurrentType DEF dshotCommandControl_t
    <3>4. Later(since) = CommandCycles
      BY <1>1, <1>5 DEF Spaced, Later
    <3> QED BY <3>2, <3>3, <3>4, <1>1 DEF Spaced
  <2> QED BY <2>3, <2>4
<1> QED BY <1>1, <1>2, <1>3, <1>4, <1>5

\* A command added keeps the spacing.
LEMMA AddSpaced ==
  ASSUME NEW q \in Ring, NEW since \in 0..CommandCycles, Spaced(q, since),
         NEW val, NEW index, NEW c
  PROVE  Spaced(addCommand(q, val, index, c), since)
<1> DEFINE after == addCommand(q, val, index, c)
<1>1. CASE dshotCommandQueueFull(q)
  BY <1>1 DEF addCommand
<1>2. CASE ~dshotCommandQueueFull(q)
  <2>1. /\ after.tail = q.tail /\ after.head = Succ(q.head)
        /\ after.slots = [q.slots EXCEPT ![q.head] = NewControl(val, index, c)]
        /\ q.head \in Slot /\ q.tail \in Slot
    BY <1>2 DEF addCommand, Ring
  <2>2. CASE q.head = q.tail
    <3>1. Current(after) = NewControl(val, index, c)
      BY <2>1, <2>2 DEF Current, Ring
    <3>2. Current(after).state \in {"IDLEWAIT", "STARTDELAY"}
      BY <3>1 DEF NewControl
    <3>3. since = CommandCycles
      BY <2>2 DEF Spaced, dshotCommandQueueEmpty
    <3> QED BY <3>2, <3>3 DEF Spaced
  <2>3. CASE q.head # q.tail
    <3>1. Current(after) = Current(q)
      BY <2>1, <2>3 DEF Current, Ring
    <3>2. ~isLastDshotCommand(after)
      BY <2>1, <2>3, SuccValue DEF isLastDshotCommand, Slot
    <3>3. ~dshotCommandQueueEmpty(q) /\ ~dshotCommandQueueEmpty(after)
      BY <2>1, <2>3, <1>2 DEF dshotCommandQueueEmpty, dshotCommandQueueFull
    <3>4. Current(q).nextCommandCycleDelay \in Nat /\ CommandCycles \in Nat
      BY CurrentType, CyclesTypes DEF dshotCommandControl_t
    <3> HIDE DEF after
    <3>5. Spaced(after, since)
      BY <3>1, <3>2, <3>3, <3>4 DEF Spaced
    <3> QED BY <3>5 DEF after
  <2> QED BY <2>2, <2>3
<1> QED BY <1>1, <1>2

SpacedInv == IInv /\ Spaced(queue, sinceCommand)

LEMMA WriteSpaced ==
  ASSUME SpacedInv, NEW q \in Ring, Spaced(q, sinceCommand), NEW index, NEW c \in Commands
  PROVE  /\ dshotCommandWrite(q, index, c) \in Ring
         /\ Spaced(dshotCommandWrite(q, index, c), sinceCommand)
<1>1. sinceCommand \in 0..CommandCycles
  BY DEF SpacedInv, IInv, TypeOK
<1>2. Spaced(addCommand(q, value, index, c), sinceCommand)
  BY <1>1, AddSpaced
<1> QED BY <1>2, AddType DEF dshotCommandWrite

LEMMA SpacedSources ==
  ASSUME SpacedInv
  PROVE  /\ Spaced(EdtOnArming(queue), sinceCommand)
         /\ Spaced(dshotCommandWrite(EdtOnArming(queue), Motors, Reversed), sinceCommand)
         /\ Spaced(dshotCommandWrite(queue, Motors, Normal), sinceCommand)
         /\ Spaced(dshotCommandWrite(queue, Motors, Beacon), sinceCommand)
         /\ \A index \in HostIndexes, c \in HostCommands :
              Spaced(dshotCommandWrite(queue, index, c), sinceCommand)
<1>1. queue \in Ring /\ Spaced(queue, sinceCommand)
  BY DEF SpacedInv, IInv, TypeOK
<1>2. EdtOnArming(queue) \in Ring /\ Spaced(EdtOnArming(queue), sinceCommand)
  BY <1>1, WriteSpaced DEF EdtOnArming
<1> QED BY <1>1, <1>2, WriteSpaced

\* An update keeps the spacing, and sends a command only when it is due.
LEMMA WriteKeepsSpacing ==
  ASSUME SpacedInv, NEW out, Write(out)
  PROVE  /\ Spaced(queue, sinceCommand)'
         /\ CommandFrame(queue, Complete(queue, value')) => sinceCommand = CommandCycles
<1> DEFINE val == Loaded(queue, out)
           done == Complete(queue, val)
<1>1. queue \in Ring /\ sinceCommand \in 0..CommandCycles /\ CommandCycles \in Nat
      /\ Spaced(queue, sinceCommand)
  BY CyclesTypes DEF SpacedInv, IInv, TypeOK
<1>2. /\ value' = val /\ queue' = done.queue
      /\ sinceCommand' = IF CommandFrame(queue, done) THEN 0 ELSE Later(sinceCommand)
  BY DEF Write, Later
<1>3. CASE dshotCommandQueueEmpty(queue)
  <2>1. queue' = queue /\ ~CommandFrame(queue, done) /\ sinceCommand = CommandCycles
    BY <1>1, <1>2, <1>3 DEF Complete, CommandFrame, dshotCommandIsProcessing, Spaced
  <2>2. sinceCommand' = CommandCycles
    <3>1. sinceCommand' = Later(sinceCommand)
      BY <2>1, <1>2, Zenon
    <3>2. Later(sinceCommand) = sinceCommand
      BY <2>1, <1>1 DEF Later
    <3> QED BY <2>1, <3>1, <3>2
  <2> QED BY <2>1, <2>2, <1>2, <1>3 DEF Spaced, dshotCommandQueueEmpty
<1>4. CASE ~dshotCommandQueueEmpty(queue)
  <2>1. done = dshotCommandOutputIsEnabled(queue, val)
    BY <1>4 DEF Complete
  <2>2. IF CommandFrame(queue, done)
        THEN sinceCommand = CommandCycles /\ Spaced(done.queue, 0)
        ELSE Spaced(done.queue, Later(sinceCommand))
    BY <2>1, <1>1, <1>4, OutputSpaced DEF CommandFrame
  <2>3. Spaced(queue', sinceCommand')
    BY <2>2, <1>2
  <2>4. Spaced(queue, sinceCommand)' <=> Spaced(queue', sinceCommand')
    BY DEF Spaced, dshotCommandQueueEmpty, Current, isLastDshotCommand
  <2> QED BY <2>2, <2>3, <2>4, <1>2
<1> QED BY <1>3, <1>4

LEMMA SpacedNext == SpacedInv /\ [Next]_vars => Spaced(queue, sinceCommand)'
<1> SUFFICES ASSUME SpacedInv, [Next]_vars PROVE Spaced(queue, sinceCommand)'
  OBVIOUS
<1> USE DEF outputs, mode, sending, history
\* Only the updates move the counter, and they and the sources the ring.
<1>1. ASSUME UNCHANGED sinceCommand, Spaced(queue', sinceCommand)
      PROVE  Spaced(queue, sinceCommand)'
  BY <1>1 DEF Spaced, dshotCommandQueueEmpty, Current, isLastDshotCommand
<1>2. ASSUME UNCHANGED <<queue, sinceCommand>> PROVE Spaced(queue, sinceCommand)'
  BY <1>1, <1>2 DEF SpacedInv
<1>3. CASE BlasterTask
  BY <1>2, <1>3 DEF BlasterTask
<1>4. CASE PidLoop \/ BlockingFrame
  BY <1>4, WriteKeepsSpacing DEF PidLoop, BlockingFrame
<1>5. ASSUME NEW flip \in BOOLEAN, NEW success \in BOOLEAN, updateArmingStatus(flip, success)
      PROVE  Spaced(queue, sinceCommand)'
  BY <1>2, <1>5 DEF updateArmingStatus
<1>6. ASSUME NEW flip \in BOOLEAN, NEW success \in BOOLEAN, NEW wanted \in BOOLEAN,
             tryArm(flip, success, wanted)
      PROVE  Spaced(queue, sinceCommand)'
  BY <1>1, <1>6, SpacedSources DEF tryArm
<1>7. CASE disarm
  BY <1>1, <1>7, SpacedSources DEF disarm
<1>8. CASE beeperUpdate
  BY <1>1, <1>8, SpacedSources DEF beeperUpdate
<1>9. CASE SetMotor
  BY <1>2, <1>9 DEF SetMotor
<1>10. CASE HostCommand
  BY <1>1, <1>10, SpacedSources DEF HostCommand
<1>11. CASE DetectionDelayEnds
  BY <1>2, <1>11 DEF DetectionDelayEnds
<1>12. CASE BlockingStart \/ BlockingEnd
  <2>1. queue \in Ring /\ Spaced(queue, sinceCommand)
    BY DEF SpacedInv, IInv, TypeOK
  <2>2. AllStop \in Frame /\ \A index \in HostIndexes, c \in HostCommands : FrameFor(index, c) \in Frame
    BY FrameForType DEF AllStop, Frame
  <2>3. \A frame \in Frame :
          Spaced([queue EXCEPT !.slots[queue.tail].command = frame], sinceCommand)
    <3> TAKE frame \in Frame
    <3> DEFINE r == [queue EXCEPT !.slots[queue.tail].command = frame]
    <3>1. /\ r.head = queue.head /\ r.tail = queue.tail
          /\ Current(r).state = Current(queue).state
          /\ Current(r).nextCommandCycleDelay = Current(queue).nextCommandCycleDelay
      BY <2>1, OverwriteType
    <3> HIDE DEF r
    <3>2. Spaced(r, sinceCommand)
      BY <3>1, <2>1 DEF Spaced, dshotCommandQueueEmpty, isLastDshotCommand
    <3> QED BY <3>2 DEF r
  <2>4. \/ UNCHANGED queue
        \/ \E frame \in Frame : queue' = [queue EXCEPT !.slots[queue.tail].command = frame]
    BY <2>2, <1>12 DEF BlockingStart, BlockingEnd
  <2>5. UNCHANGED sinceCommand
    BY <1>12 DEF BlockingStart, BlockingEnd
  <2> QED BY <1>1, <2>1, <2>3, <2>4, <2>5
<1>13. CASE UNCHANGED vars
  BY <1>2, <1>13 DEF vars
<1> QED BY <1>3, <1>4, <1>5, <1>6, <1>7, <1>8, <1>9, <1>10, <1>11, <1>12, <1>13
        DEF Next, Task

\* The frames of a delay take at least the delay.
LEMMA CyclesEnough ==
  CommandCycles \in Nat /\ (CommandCycles + 1) * PidLoopTime >= CommandDelay
<1>1. PidLoopTime \in Nat \ {0} /\ CommandDelay + PidLoopTime - 1 \in Nat
  OBVIOUS
<1>2. ASSUME NEW a \in Nat, NEW p \in Nat \ {0} PROVE (a \div p) * p + (a % p) = a
  BY <1>2
<1>3. ASSUME NEW a \in Nat, NEW p \in Nat \ {0} PROVE a % p < p
  BY <1>3
<1> DEFINE a == CommandDelay + PidLoopTime - 1
           cycles == a \div PidLoopTime
<1>4. cycles * PidLoopTime + (a % PidLoopTime) = a /\ a % PidLoopTime < PidLoopTime
      /\ a % PidLoopTime \in Nat /\ cycles \in Nat
  BY <1>1, <1>2, <1>3
<1>5. cycles = CommandCycles
  BY DEF CommandCycles, dshotCommandCyclesFromTime
<1>6. (CommandCycles + 1) * PidLoopTime = CommandCycles * PidLoopTime + PidLoopTime
  BY <1>4, <1>5
<1> QED BY <1>4, <1>5, <1>6

\* No two commands, repeats or not, are nearer than the delay between them.
THEOREM CommandsAreSpaced == Spec => CommandsSpaced
<1>1. Init => SpacedInv
  BY InitInv DEF Init, SpacedInv, Spaced, EmptyRing, dshotCommandQueueEmpty
<1>2. SpacedInv /\ [Next]_vars => SpacedInv'
  BY NextInv, SpacedNext DEF SpacedInv
<1>3. ASSUME SpacedInv, PidLoop \/ BlockingFrame,
             CommandFrame(queue, Complete(queue, value'))
      PROVE  (sinceCommand + 1) * PidLoopTime >= CommandDelay
  <2>1. sinceCommand = CommandCycles
    BY <1>3, WriteKeepsSpacing DEF PidLoop, BlockingFrame
  <2> QED BY <2>1, CyclesEnough
<1>4. SpacedInv =>
        [CommandFrame(queue, Complete(queue, value')) /\ (PidLoop \/ BlockingFrame)
           => (sinceCommand + 1) * PidLoopTime >= CommandDelay]_vars
  BY <1>3
<1> QED BY <1>1, <1>2, <1>4, PTL DEF Spec, CommandsSpaced
=============================================================================
