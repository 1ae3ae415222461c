------------------------------- MODULE Debounce -------------------------------
(***************************************************************************)
(* The switch debouncing of dettlaff/dettlaff.c: initSwitch and            *)
(* updateSwitchState, and updateCycleSwitchState, which differs only in    *)
(* its debounce time.  The switch is read from a bouncing pin once per     *)
(* update; time is the 32-bit microsecond counter, which wraps at Wrap.    *)
(***************************************************************************)
EXTENDS Integers

CONSTANTS
  Wrap,           \* the counter's modulus, 2^32 in the code
  DebounceTime,   \* debounceTime_ms * 1000, or pusherDebounceTime_ms * 1000
  Gaps            \* times between two updates

\* Two updates are never so far apart that the counter comes round.
ASSUME TimeAssumption ==
  /\ Wrap \in Nat /\ DebounceTime \in Nat \ {0}
  /\ Gaps \subseteq Nat \ {0}
  /\ \A g \in Gaps : g + DebounceTime < Wrap
  /\ DebounceTime < Wrap

VARIABLES
  hasPin,                       \* ioTag is not IO_TAG_NONE
  now,                          \* currentTimeUs of the last update
  currentState, previousState,  \* debounced level, and last level sampled
  lastChangeTimeUs,
  pressed, released,
  heldFor,     \* history: how long the samples have agreed, up to DebounceTime
  sincePulse   \* history: how long since the level changed, up to DebounceTime

code == <<hasPin, now, currentState, previousState, lastChangeTimeUs,
          pressed, released>>
vars == <<code, heldFor, sincePulse>>

\* Mutant: the counter does not wrap.
Mutant_PlusUnbounded(a, b) == a + b

\* uint32_t arithmetic on times.
Plus(a, b)  == IF a + b < Wrap THEN a + b ELSE a + b - Wrap
Minus(a, b) == IF a >= b THEN a - b ELSE a - b + Wrap

UpTo(limit, n) == IF n <= limit THEN n ELSE limit

\* The pin is read once at init; no edge is reported for its first level.
initSwitch ==
  /\ now \in 0..(Wrap - 1)
  /\ hasPin \in BOOLEAN
  /\ currentState \in {s \in BOOLEAN : s => hasPin}
  /\ previousState = currentState
  /\ lastChangeTimeUs = now
  /\ pressed = FALSE /\ released = FALSE

Init ==
  /\ initSwitch
  /\ heldFor = DebounceTime /\ sincePulse = DebounceTime

\* Mutant: the sum is compared instead of the difference.
Mutant_StableBySum(sample, time) ==
  sample = previousState /\ time >= Plus(lastChangeTimeUs, DebounceTime)

\* The sampled level has not changed for the debounce time.
Stable(sample, time) ==
  /\ sample = previousState
  /\ Minus(time, lastChangeTimeUs) >= DebounceTime

\* Mutant: the timer is not restarted when the samples change.
Mutant_NoRestart(sample, time) == lastChangeTimeUs' = lastChangeTimeUs

RestartTimer(sample, time) ==
  lastChangeTimeUs' = IF sample # previousState THEN time ELSE lastChangeTimeUs

\* Mutant: the edge flags stay up until the next edge.
Mutant_StickyEdges(level) ==
  /\ pressed' = IF level = currentState THEN pressed ELSE level
  /\ released' = IF level = currentState THEN released ELSE ~level

ReportEdge(level) ==
  /\ pressed' = (level /\ ~currentState)
  /\ released' = (~level /\ currentState)

\* One sample of a switch that has a pin.
Debounced(sample, time) ==
  /\ currentState' = IF Stable(sample, time) THEN sample ELSE currentState
  /\ ReportEdge(currentState')
  /\ RestartTimer(sample, time)
  /\ previousState' = sample

\* A switch without a pin reports no edges and keeps its level.
NoPin ==
  /\ pressed' = FALSE /\ released' = FALSE
  /\ UNCHANGED <<currentState, previousState, lastChangeTimeUs>>

updateSwitchState(sample, gap) ==
  /\ now' = Plus(now, gap)
  /\ UNCHANGED hasPin
  /\ \/ hasPin /\ Debounced(sample, now')
     \/ ~hasPin /\ NoPin

Observe(gap) ==
  /\ heldFor' = IF previousState' # previousState THEN 0
                ELSE UpTo(DebounceTime, heldFor + gap)
  /\ sincePulse' = IF currentState' # currentState THEN 0
                   ELSE UpTo(DebounceTime, sincePulse + gap)

Next ==
  \E sample \in BOOLEAN, gap \in Gaps :
    updateSwitchState(sample, gap) /\ Observe(gap)

Spec == Init /\ [][Next]_vars

-----------------------------------------------------------------------------
(* Properties. *)

TypeOK ==
  /\ {now, lastChangeTimeUs} \subseteq 0..(Wrap - 1)
  /\ {hasPin, currentState, previousState, pressed, released} \subseteq BOOLEAN
  /\ {heldFor, sincePulse} \subseteq 0..DebounceTime

\* A level that has been sampled for the whole debounce time has been taken
\* over: the counter's wrap never makes the switch deaf.
TakenOverInTime == currentState # previousState => heldFor < DebounceTime

\* A level is only taken over once every sample of the debounce time agreed.
OnlyStableLevels ==
  [][currentState' # currentState => heldFor' >= DebounceTime]_vars

\* Two edges of one switch are at least the debounce time apart, so no
\* bounce is ever counted as a second pull.
EdgesSpaced ==
  [][pressed' \/ released' =>
       sincePulse + Minus(now', now) >= DebounceTime]_vars

\* The control loop sees a clean switch: an edge flag is up for exactly the
\* update that changed the level, so one pull is never read twice.
Clean == INSTANCE CleanSwitch
SeesCleanSwitch == Clean!Spec
=============================================================================
