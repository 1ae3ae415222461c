----------------------------- MODULE MCScheduler -----------------------------
(***************************************************************************)
(* Tasks for TLC: the gyro, the receiver, the blaster and a task, enabled  *)
(* and disabled at run time, that may take longer than the gyro leaves.    *)
(***************************************************************************)
EXTENDS Scheduler

ByTask(r, b, l) ==
  [t \in {"RX", "DETTLAFF", "GIMBAL"} |->
     CASE t = "RX" -> r [] t = "DETTLAFF" -> b [] t = "GIMBAL" -> l]

Priorities == [t \in Tasks |-> IF t = "GYRO" THEN -1 ELSE ByTask(5, 5, 3)[t]]
Periods    == ByTask(12, 6, 8)
Runs       == ByTask({1}, {1}, {2, 17})
NoAnnouncement == ByTask({}, {}, {})
RelaxedRx  == ByTask(1, 0, 0)
=============================================================================
