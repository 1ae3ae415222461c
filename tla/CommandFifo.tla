----------------------------- MODULE CommandFifo -----------------------------
(***************************************************************************)
(* What drivers/dshot_command.c promises of inline commands: those that    *)
(* are accepted go out in the order they came, each as often as it is to   *)
(* be repeated, none of them twice and none of them lost.  What goes out   *)
(* is what was handed over, unless a blocking command came in between: it  *)
(* borrows the first place, whosever that is, and leaves nothing there.    *)
(***************************************************************************)
EXTENDS Naturals, Sequences

CONSTANTS
  Frames,     \* what a command frame holds: one command number per motor
  Nothing,    \* the frame that commands nothing
  MaxRepeats,
  Capacity    \* DSHOT_MAX_COMMANDS

VARIABLES
  pending,    \* the commands accepted, each with the frames it still needs
  borrowed,   \* a blocking command has the first place
  lastFrame   \* what the first command was sent as, if it was

vars == <<pending, borrowed, lastFrame>>

Pending == [command : Frames, left : 0..MaxRepeats]

Init == pending = <<>> /\ borrowed = FALSE /\ lastFrame = Nothing

\* One handler may hand over several commands: arming hands over two.
Accept ==
  /\ ~borrowed
  /\ Len(pending') \in (Len(pending) + 1)..Capacity
  /\ SubSeq(pending', 1, Len(pending)) = pending
  /\ \A k \in (Len(pending) + 1)..Len(pending') :
       pending'[k] \in Pending /\ pending'[k].left > 0
  /\ UNCHANGED <<borrowed, lastFrame>>

Send ==
  /\ pending # <<>> /\ Head(pending).left > 0
  /\ lastFrame' = Head(pending).command
  /\ pending' = [pending EXCEPT ![1].left = @ - 1]
  /\ UNCHANGED borrowed

Retire ==
  /\ pending # <<>> /\ Head(pending).left = 0
  /\ pending' = Tail(pending) /\ lastFrame' = Nothing
  /\ UNCHANGED borrowed

Overwritten(frame) ==
  IF pending = <<>> THEN pending ELSE [pending EXCEPT ![1].command = frame]

Borrow ==
  /\ ~borrowed /\ borrowed' = TRUE
  /\ \E frame \in Frames : pending' = Overwritten(frame)
  /\ UNCHANGED lastFrame

Return ==
  /\ borrowed /\ borrowed' = FALSE
  /\ pending' = Overwritten(Nothing)
  /\ UNCHANGED lastFrame

Next == Accept \/ Send \/ Retire \/ Borrow \/ Return

Spec == Init /\ [][Next]_vars
==============================================================================
