---------------------------- MODULE DshotCommand ----------------------------
(***************************************************************************)
(* The inline commands of drivers/dshot_command.c: a ring of commands that *)
(* takes over the motor frames, and the state machine that times them in   *)
(* motor frames.  The ring, its head and its tail are one record, so that  *)
(* the operators compose: each takes a ring and returns one.               *)
(***************************************************************************)
EXTENDS Integers

CONSTANTS
  Motors,        \* 0..motorDeviceCount()-1
  Commands,      \* command numbers, 1 to DSHOT_CMD_MAX
  Settings,      \* those that are repeated
  SettingRepeats,
  Stop,          \* DSHOT_CMD_MOTOR_STOP, also the disarmed output
  Spin,          \* any throttle, from DSHOT_MIN_THROTTLE up
  Slots,         \* DSHOT_MAX_COMMANDS + 1
  PidLoopTime, InitialDelay, CommandDelay   \* microseconds

ASSUME DshotAssumption ==
  /\ Settings \subseteq Commands
  /\ Stop \notin Commands /\ Spin \notin Commands /\ Stop # Spin
  /\ SettingRepeats \in 1..255
  /\ Slots \in Nat /\ Slots > 1
  /\ PidLoopTime \in Nat \ {0}
  /\ InitialDelay \in Nat /\ CommandDelay \in Nat \ {0}

Slot == 0..(Slots - 1)
Frame == [Motors -> Commands \cup {Stop}]
AllStop == [i \in Motors |-> Stop]

\* The fewest motor frames that take delayUs.
dshotCommandCyclesFromTime(delayUs) ==
  (delayUs + PidLoopTime - 1) \div PidLoopTime

InitialCycles == dshotCommandCyclesFromTime(InitialDelay)
CommandCycles == dshotCommandCyclesFromTime(CommandDelay)

dshotCommandControl_t ==
  [state : {"IDLEWAIT", "STARTDELAY", "ACTIVE", "POSTDELAY"},
   nextCommandCycleDelay : Nat, repeats : 0..255, command : Frame]

Ring == [slots : [Slot -> dshotCommandControl_t], head : Slot, tail : Slot]

\* Zero-initialised.
EmptyRing ==
  [slots |-> [s \in Slot |-> [state |-> "IDLEWAIT", nextCommandCycleDelay |-> 0,
                              repeats |-> 0, command |-> AllStop]],
   head |-> 0, tail |-> 0]

Succ(s) == (s + 1) % Slots

dshotCommandQueueFull(q)  == Succ(q.head) = q.tail
dshotCommandQueueEmpty(q) == q.head = q.tail
isLastDshotCommand(q)     == Succ(q.tail) = q.head
Current(q)                == q.slots[q.tail]

\* Mutant: a command takes the frames as soon as it is in the ring.
Mutant_dshotCommandIsProcessing(q) == ~dshotCommandQueueEmpty(q)

dshotCommandIsProcessing(q) ==
  /\ ~dshotCommandQueueEmpty(q)
  /\ \/ Current(q).state \in {"STARTDELAY", "ACTIVE"}
     \/ Current(q).state = "POSTDELAY" /\ ~isLastDshotCommand(q)

-----------------------------------------------------------------------------
(* Writing a command.                                                      *)

\* value is protocolControl.value, what each motor was last given to send.
allMotorsAreIdle(value) == \A i \in Motors : value[i] = Stop

Repeats(c) == IF c \in Settings THEN SettingRepeats ELSE 1

FrameFor(index, c) == [i \in Motors |-> IF i \in index THEN c ELSE Stop]

\* Motors that are idle need no idle wait.
NewControl(value, index, c) ==
  [state |-> IF allMotorsAreIdle(value) THEN "STARTDELAY" ELSE "IDLEWAIT",
   nextCommandCycleDelay |-> IF allMotorsAreIdle(value) THEN InitialCycles ELSE 0,
   repeats |-> Repeats(c),
   command |-> FrameFor(index, c)]

\* Mutant: the ring is taken for full one slot too late.
Mutant_addCommandWhenFull(q, value, index, c) ==
  [q EXCEPT !.head = Succ(@), !.slots[q.head] = NewControl(value, index, c)]

\* addCommand and the rest of an inline dshotCommandWrite.  A full ring
\* refuses the command, and nobody is told.
addCommand(q, value, index, c) ==
  IF dshotCommandQueueFull(q) THEN q
  ELSE [q EXCEPT !.head = Succ(@), !.slots[q.head] = NewControl(value, index, c)]

-----------------------------------------------------------------------------
(* dshotCommandOutputIsEnabled: one step of the command at the tail, in a  *)
(* ring that is not empty, and whether this motor frame may go out.        *)

Outcome(q, control, mayGo) ==
  [queue |-> [q EXCEPT !.slots[q.tail] = control], send |-> mayGo]

CountDown(q) ==
  Outcome(q, [Current(q) EXCEPT !.nextCommandCycleDelay = @ - 1], FALSE)

\* Mutant: the wait ends when any motor is idle.
Mutant_IdleWait(q, value) ==
  Outcome(q, IF \E i \in Motors : value[i] = Stop
             THEN [Current(q) EXCEPT !.state = "STARTDELAY",
                                     !.nextCommandCycleDelay = InitialCycles]
             ELSE Current(q), TRUE)

IdleWait(q, value) ==
  Outcome(q, IF allMotorsAreIdle(value)
             THEN [Current(q) EXCEPT !.state = "STARTDELAY",
                                     !.nextCommandCycleDelay = InitialCycles]
             ELSE Current(q), TRUE)

\* Mutant: a repeat follows on the next frame.
Mutant_SendOnce(q) ==
  LET left == (Current(q).repeats - 1) % 256
      delay == IF left > 0 THEN 0
               ELSE CommandCycles - (IF isLastDshotCommand(q) THEN 0 ELSE 1)
  IN Outcome(q, [Current(q) EXCEPT
                   !.state = IF left > 0 THEN "ACTIVE" ELSE "POSTDELAY",
                   !.repeats = left, !.nextCommandCycleDelay = delay], TRUE)

\* The command goes out once more.  The delay after the last time is one
\* frame shorter when another command follows.
SendOnce(q) ==
  LET left == (Current(q).repeats - 1) % 256
      delay == IF left > 0 \/ isLastDshotCommand(q)
               THEN CommandCycles ELSE CommandCycles - 1
  IN Outcome(q, [Current(q) EXCEPT
                   !.state = IF left > 0 THEN "ACTIVE" ELSE "POSTDELAY",
                   !.repeats = left, !.nextCommandCycleDelay = delay], TRUE)

\* dshotCommandQueueUpdate: the next command needs no start delay.
NextCommand(q) ==
  LET rest == [q EXCEPT !.tail = Succ(@)]
  IN IF dshotCommandQueueEmpty(rest) THEN [queue |-> rest, send |-> TRUE]
     ELSE Outcome(rest, [Current(rest) EXCEPT !.state = "ACTIVE",
                                              !.nextCommandCycleDelay = 0], FALSE)

dshotCommandOutputIsEnabled(q, value) ==
  CASE Current(q).state = "IDLEWAIT" -> IdleWait(q, value)
    [] Current(q).state # "IDLEWAIT" /\ Current(q).nextCommandCycleDelay > 0 -> CountDown(q)
    [] Current(q).state \in {"STARTDELAY", "ACTIVE"}
         /\ Current(q).nextCommandCycleDelay = 0 -> SendOnce(q)
    [] Current(q).state = "POSTDELAY"
         /\ Current(q).nextCommandCycleDelay = 0 -> NextCommand(q)
=============================================================================
