---------------------------- MODULE Debounce_proofs ----------------------------
(***************************************************************************)
(* Proofs about Debounce, for every debounce time, counter width and set   *)
(* of update intervals: what the switch reports is what the pin did, and   *)
(* the counter's wrap makes no difference to it.                           *)
(***************************************************************************)
EXTENDS Debounce, TLAPS

USE TimeAssumption

Time == 0..(Wrap - 1)

-----------------------------------------------------------------------------
(* Arithmetic on the wrapping counter.                                     *)

LEMMA PlusType == ASSUME NEW a \in Time, NEW g \in Gaps PROVE Plus(a, g) \in Time
<1>1. g \in Nat /\ g < Wrap
  OBVIOUS
<1> QED BY <1>1 DEF Plus, Time

LEMMA MinusType == ASSUME NEW a \in Time, NEW b \in Time PROVE Minus(a, b) \in Time
BY DEF Minus, Time

\* The time since an earlier update grows by the gap, as long as the sum stays
\* below the wrap.
LEMMA Later ==
  ASSUME NEW a \in Time, NEW b \in Time, NEW g \in Gaps, Minus(a, b) + g < Wrap
  PROVE  Minus(Plus(a, g), b) = Minus(a, b) + g
<1>1. g \in Nat /\ g < Wrap
  OBVIOUS
<1> QED BY <1>1 DEF Minus, Plus, Time

\* An update is a gap after the one before, and never at the same count.
LEMMA GapLater ==
  ASSUME NEW a \in Time, NEW g \in Gaps
  PROVE  Minus(Plus(a, g), a) = g /\ Plus(a, g) # a
<1>1. g \in Nat \ {0} /\ g < Wrap
  OBVIOUS
<1>2. Minus(a, a) = 0
  BY DEF Minus, Time
<1> QED BY <1>1, <1>2, Later DEF Plus, Time

-----------------------------------------------------------------------------
(* The inductive invariant.                                                *)

\* Until the debounce time is over, the timer tells for how long the samples
\* have agreed.
TimerTellsHeld == hasPin /\ heldFor < DebounceTime => Minus(now, lastChangeTimeUs) = heldFor

\* A level that differs from the samples is an agreement not yet old enough,
\* which began after the last change of level.
NotYetTakenOver ==
  currentState # previousState =>
    hasPin /\ heldFor < DebounceTime /\ heldFor <= sincePulse

DInv == TypeOK /\ TimerTellsHeld /\ NotYetTakenOver

LEMMA DInit == Init => DInv
<1> SUFFICES ASSUME Init PROVE DInv
  OBVIOUS
<1>1. /\ now \in Time /\ lastChangeTimeUs = now /\ hasPin \in BOOLEAN
      /\ currentState \in BOOLEAN /\ previousState = currentState
      /\ pressed = FALSE /\ released = FALSE
      /\ heldFor = DebounceTime /\ sincePulse = DebounceTime
  BY DEF Init, initSwitch, Time
<1>2. {heldFor, sincePulse} \subseteq 0..DebounceTime
  <2>1. DebounceTime \in 0..DebounceTime
    OBVIOUS
  <2> QED BY <1>1, <2>1
<1>3. {now, lastChangeTimeUs} \subseteq 0..(Wrap - 1)
  BY <1>1 DEF Time
<1>4. {hasPin, currentState, previousState, pressed, released} \subseteq BOOLEAN
  BY <1>1
<1> QED BY <1>1, <1>2, <1>3, <1>4 DEF TypeOK, DInv, TimerTellsHeld, NotYetTakenOver

\* With an unchanged sample, the timer shows a stable level exactly when the
\* samples have agreed for the debounce time.
LEMMA StableIsHeld ==
  ASSUME DInv, hasPin, NEW sample \in BOOLEAN, NEW gap \in Gaps, heldFor < DebounceTime,
         sample = previousState
  PROVE  /\ Stable(sample, Plus(now, gap)) <=> heldFor + gap >= DebounceTime
         /\ Minus(Plus(now, gap), lastChangeTimeUs) = heldFor + gap
<1>1. Minus(now, lastChangeTimeUs) = heldFor /\ heldFor \in 0..DebounceTime
      /\ now \in Time /\ lastChangeTimeUs \in Time
  BY DEF DInv, TypeOK, TimerTellsHeld, Time
<1>2. gap \in Nat /\ gap + DebounceTime < Wrap
  OBVIOUS
<1>3. Minus(Plus(now, gap), lastChangeTimeUs) = heldFor + gap
  BY <1>1, <1>2, Later
<1> QED BY <1>1, <1>2, <1>3 DEF Stable

\* What one update with a pin does.
LEMMA DebouncedStep ==
  ASSUME DInv, hasPin, NEW sample \in BOOLEAN, NEW gap \in Gaps,
         updateSwitchState(sample, gap), Observe(gap)
  PROVE  /\ DInv'
         /\ currentState' # currentState =>
              heldFor' = DebounceTime /\ sincePulse + gap >= DebounceTime
<1>1. /\ now' = Plus(now, gap) /\ hasPin' = hasPin
      /\ previousState' = sample
      /\ currentState' = IF Stable(sample, now') THEN sample ELSE currentState
      /\ lastChangeTimeUs' = IF sample # previousState THEN now' ELSE lastChangeTimeUs
      /\ pressed' = (currentState' /\ ~currentState)
      /\ released' = (~currentState' /\ currentState)
  BY DEF updateSwitchState, Debounced, ReportEdge, RestartTimer
<1>2. /\ now \in Time /\ lastChangeTimeUs \in Time /\ now' \in Time
      /\ {currentState, previousState} \subseteq BOOLEAN
      /\ heldFor \in 0..DebounceTime /\ sincePulse \in 0..DebounceTime
      /\ gap \in Nat \ {0}
  BY <1>1, PlusType DEF DInv, TypeOK, Time
<1>3. /\ heldFor' = IF previousState' # previousState THEN 0
                    ELSE UpTo(DebounceTime, heldFor + gap)
      /\ sincePulse' = IF currentState' # currentState THEN 0
                       ELSE UpTo(DebounceTime, sincePulse + gap)
  BY DEF Observe
<1>4. TypeOK'
  BY <1>1, <1>2, <1>3 DEF DInv, TypeOK, Time, UpTo
<1>5. CASE sample # previousState
  <2>1. ~Stable(sample, now') /\ currentState' = currentState /\ heldFor' = 0
    BY <1>1, <1>3, <1>5 DEF Stable
  <2>2. Minus(now', lastChangeTimeUs') = 0
    BY <1>1, <1>2, <1>5 DEF Minus, Time
  <2>3. heldFor' <= sincePulse'
    BY <2>1, <1>4 DEF TypeOK
  <2> QED BY <1>1, <1>4, <2>1, <2>2, <2>3 DEF DInv, TimerTellsHeld, NotYetTakenOver
<1>6. CASE sample = previousState /\ heldFor < DebounceTime
  <2>1. /\ Stable(sample, now') <=> heldFor + gap >= DebounceTime
        /\ Minus(now', lastChangeTimeUs') = heldFor + gap
    BY <1>1, <1>6, StableIsHeld
  <2>2. heldFor' = UpTo(DebounceTime, heldFor + gap)
    BY <1>1, <1>3, <1>6
  <2>3. TimerTellsHeld'
    BY <1>2, <2>1, <2>2 DEF TimerTellsHeld, UpTo
  <2>4. currentState # previousState => heldFor <= sincePulse
    BY DEF DInv, NotYetTakenOver
  <2>5. NotYetTakenOver'
    BY <1>1, <1>2, <1>3, <1>6, <2>1, <2>2, <2>4 DEF NotYetTakenOver, UpTo
  <2>6. currentState' # currentState =>
          heldFor' = DebounceTime /\ sincePulse + gap >= DebounceTime
    BY <1>1, <1>2, <1>6, <2>1, <2>2, <2>4 DEF UpTo
  <2> QED BY <1>4, <2>3, <2>5, <2>6 DEF DInv
<1>7. CASE sample = previousState /\ ~(heldFor < DebounceTime)
  <2>1. currentState = previousState /\ heldFor = DebounceTime
    BY <1>2, <1>7 DEF DInv, NotYetTakenOver
  <2>2. currentState' = currentState /\ previousState' = currentState'
    BY <1>1, <1>7, <2>1
  <2>3. heldFor' = DebounceTime
    BY <1>1, <1>2, <1>3, <1>7, <2>1 DEF UpTo
  <2> QED BY <1>4, <2>2, <2>3 DEF DInv, TimerTellsHeld, NotYetTakenOver
<1> QED BY <1>5, <1>6, <1>7

\* One update of a switch without a pin changes no level.
LEMMA NoPinStep ==
  ASSUME DInv, ~hasPin, NEW sample \in BOOLEAN, NEW gap \in Gaps,
         updateSwitchState(sample, gap), Observe(gap)
  PROVE  DInv' /\ currentState' = currentState
<1>1. /\ now' = Plus(now, gap) /\ hasPin' = hasPin /\ ~pressed' /\ ~released'
      /\ {pressed', released'} \subseteq BOOLEAN
      /\ UNCHANGED <<currentState, previousState, lastChangeTimeUs>>
  BY DEF updateSwitchState, NoPin
<1>2. now \in Time /\ now' \in Time /\ gap \in Nat
  BY <1>1, PlusType DEF DInv, TypeOK, Time
<1>3. TypeOK'
  BY <1>1, <1>2 DEF DInv, TypeOK, Observe, UpTo, Time
<1>4. TimerTellsHeld' /\ NotYetTakenOver'
  BY <1>1 DEF DInv, TimerTellsHeld, NotYetTakenOver
<1> QED BY <1>1, <1>3, <1>4 DEF DInv

LEMMA DNext == DInv /\ [Next]_vars => DInv'
<1> SUFFICES ASSUME DInv, [Next]_vars PROVE DInv'
  OBVIOUS
<1>1. CASE Next
  BY <1>1, DebouncedStep, NoPinStep DEF Next
<1>2. CASE UNCHANGED vars
  BY <1>2 DEF vars, code, DInv, TypeOK, TimerTellsHeld, NotYetTakenOver
<1> QED BY <1>1, <1>2

-----------------------------------------------------------------------------
(* The properties.                                                         *)

\* Every variable keeps its type: the counter stays below its wrap.
THEOREM TypeCorrect == Spec => []TypeOK
<1>1. DInv => TypeOK
  BY DEF DInv
<1> QED BY <1>1, DInit, DNext, PTL DEF Spec

\* The wrap never makes the switch deaf: a level sampled for the debounce time
\* has been taken over.
THEOREM NeverDeaf == Spec => []TakenOverInTime
<1>1. DInv => TakenOverInTime
  BY DEF DInv, NotYetTakenOver, TakenOverInTime
<1> QED BY <1>1, DInit, DNext, PTL DEF Spec

\* A level is only taken over after a debounce time of agreeing samples.
THEOREM BouncesIgnored == Spec => OnlyStableLevels
<1>1. DInv /\ [Next]_vars =>
        [currentState' # currentState => heldFor' >= DebounceTime]_vars
  <2> SUFFICES ASSUME DInv, Next, currentState' # currentState
               PROVE  heldFor' >= DebounceTime
    BY DEF vars
  <2> QED BY DebouncedStep, NoPinStep DEF Next
<1> QED BY <1>1, DInit, DNext, PTL DEF Spec, OnlyStableLevels

\* Two edges are at least the debounce time apart.
THEOREM NoDoubleEdge == Spec => EdgesSpaced
<1>1. DInv /\ [Next]_vars =>
        [pressed' \/ released' => sincePulse + Minus(now', now) >= DebounceTime]_vars
  <2> SUFFICES ASSUME DInv, Next, pressed' \/ released'
               PROVE  sincePulse + Minus(now', now) >= DebounceTime
    OBVIOUS
  <2>1. PICK sample \in BOOLEAN, gap \in Gaps :
          updateSwitchState(sample, gap) /\ Observe(gap)
    BY DEF Next
  <2>2. hasPin /\ Debounced(sample, now')
    BY <2>1 DEF updateSwitchState, NoPin
  <2>4. currentState' # currentState
    BY <2>2 DEF Debounced, ReportEdge
  <2>3. Minus(now', now) = gap
    BY <2>1, GapLater DEF updateSwitchState, DInv, TypeOK, Time
  <2> QED BY <2>1, <2>2, <2>3, <2>4, DebouncedStep
<1> QED BY <1>1, DInit, DNext, PTL DEF Spec, EdgesSpaced

\* The debounced switch is a clean one: an edge flag is up for exactly the
\* update that changed the level.
THEOREM ImplementsCleanSwitch == Spec => SeesCleanSwitch
<1>1. Init => Clean!Init
  BY DEF Init, initSwitch, Clean!Init
<1>2. DInv /\ [Next]_vars => [Clean!Update]_Clean!vars
  <2> SUFFICES ASSUME DInv, Next PROVE Clean!Update
    BY DEF vars, code, Clean!vars
  <2>1. PICK sample \in BOOLEAN, gap \in Gaps :
          updateSwitchState(sample, gap) /\ Observe(gap)
    BY DEF Next
  <2>2. now' # now
    BY <2>1, GapLater DEF updateSwitchState, DInv, TypeOK, Time
  <2>3. currentState' \in BOOLEAN
    BY <2>1, DebouncedStep, NoPinStep DEF DInv, TypeOK
  <2>4. /\ pressed' = (currentState' /\ ~currentState)
        /\ released' = (currentState /\ ~currentState')
    <3>1. CASE hasPin /\ Debounced(sample, now')
      BY <3>1 DEF Debounced, ReportEdge
    <3>2. CASE ~hasPin /\ NoPin
      <4>1. ~pressed' /\ ~released' /\ {pressed', released'} \subseteq BOOLEAN
            /\ currentState' = currentState /\ currentState \in BOOLEAN
        BY <3>2 DEF NoPin, DInv, TypeOK
      <4> QED BY <4>1
    <3> QED BY <2>1, <3>1, <3>2 DEF updateSwitchState
  <2> QED BY <2>2, <2>3, <2>4 DEF Clean!Update
<1> QED BY <1>1, <1>2, DInit, DNext, PTL DEF Spec, SeesCleanSwitch, Clean!Spec
=============================================================================
