---------------------------- MODULE Failsafe_proofs ----------------------------
(***************************************************************************)
(* Proofs about Failsafe, for every period, delay and choice of settings.  *)
(* The heart is the do-while of failsafeUpdateState: RoundInv is what every *)
(* round of it keeps, and Rank is what every round uses up, so that a call *)
(* ends in a phase that waits.                                             *)
(***************************************************************************)
EXTENDS Failsafe, TLAPS

USE FailsafeAssumption

-----------------------------------------------------------------------------
(* The state failsafe.c works on, and what a call of it reads.             *)

Work ==
  [phase : Phases, linkUp : BOOLEAN, received : 0..Oldest,
   failed : -1..(RecoveryPeriod + 1), throttleLowIn : -1..ThrottleLowDelay,
   landingIn : -1..LandingTime, receivingIn : -1..RecoveryPeriod,
   preset : {0, RecoveryPeriod}, boxWasOn : BOOLEAN, active : BOOLEAN,
   armed : BOOLEAN, disabled : SUBSET Flags, again : BOOLEAN]

Reads == [box : BOOLEAN, receiving : BOOLEAN, armed : BOOLEAN, throttleLow : BOOLEAN,
          crashed : BOOLEAN, sticksActive : BOOLEAN]

Resting == {"IDLE", "LANDING", "GPS_RESCUE", "RX_LOSS_MONITORING"}

Blocked(s) == "FAILSAFE" \in s.disabled

\* What no round touches: the link and its times, and the other reasons not
\* to arm.
Keeps(r, s) ==
  /\ r.linkUp = s.linkUp /\ r.received = s.received /\ r.failed = s.failed
  /\ \A flag \in Flags \ {"FAILSAFE"} : flag \in r.disabled <=> flag \in s.disabled

LEMMA Settings == config \in Configs => config.procedure \in Procedures
BY DEF Procedures

\* Only LANDED disarms and only it and RX_LOSS_RECOVERED change the block.
Untouched(r, s) == r.armed = s.armed /\ r.disabled = s.disabled

\* Moving on to another phase changes nothing else.
LEMMA AgainKeeps ==
  ASSUME NEW s \in Work, NEW phase \in Phases
  PROVE  LET r == Again(s, phase) IN
         /\ r \in Work /\ Keeps(r, s) /\ Untouched(r, s)
         /\ r.phase = phase /\ r.again /\ r.active = s.active
         /\ r.landingIn = s.landingIn /\ r.receivingIn = s.receivingIn
         /\ r.preset = s.preset
BY DEF Again, Work, Keeps, Untouched

-----------------------------------------------------------------------------
(* The rounds, one lemma per phase.                                        *)

\* Every round starts by assuming that it is the last.
Last(s) == [s EXCEPT !.again = FALSE]

LEMMA LastKeeps ==
  ASSUME NEW s \in Work
  PROVE  LET r == Last(s) IN
         /\ r \in Work /\ Keeps(r, s) /\ Untouched(r, s) /\ ~r.again
         /\ r.phase = s.phase /\ r.active = s.active
         /\ r.landingIn = s.landingIn /\ r.receivingIn = s.receivingIn
         /\ r.preset = s.preset /\ r.boxWasOn = s.boxWasOn
BY DEF Last, Work, Keeps, Untouched

LEMMA IdleRound ==
  ASSUME NEW s \in Work, NEW in \in Reads, s.phase = "IDLE"
  PROVE  LET r == Step(s, in) IN
         /\ r \in Work /\ Keeps(r, s) /\ Untouched(r, s)
         /\ \/ /\ r.phase = "IDLE" /\ ~r.again /\ r.active = s.active
               /\ ~in.armed \/ in.receiving
            \/ /\ r.phase = "LANDED" /\ r.again /\ in.armed
               /\ ~in.receiving \/ in.box
            \/ /\ r.phase = "RX_LOSS_DETECTED" /\ r.again /\ r.active = s.active
               /\ in.armed /\ ~in.receiving
<1> DEFINE t == [s EXCEPT !.again = FALSE]
           delay == IF ~in.armed THEN -1
                    ELSE IF in.throttleLow THEN t.throttleLowIn ELSE ThrottleLowDelay
           seen == [t EXCEPT !.boxWasOn = in.box, !.throttleLowIn = delay]
<1>1. delay \in -1..ThrottleLowDelay /\ in.box \in BOOLEAN
  BY DEF Work, Reads
<1>2. seen \in Work /\ Keeps(seen, s) /\ Untouched(seen, s) /\ seen.active = s.active
      /\ seen.phase = "IDLE" /\ ~seen.again
  BY <1>1 DEF Work, Keeps, Untouched
<1>3. Step(s, in) = Idle(t, in)
  BY DEF Step
<1> DEFINE landed == [Again(seen, "LANDED") EXCEPT !.active = TRUE,
                                                   !.preset = RecoveryPeriod]
           detected == Again(seen, "RX_LOSS_DETECTED")
<1>4. \/ Idle(t, in) = seen /\ (~in.armed \/ in.receiving)
      \/ Idle(t, in) = landed /\ in.armed /\ (~in.receiving \/ in.box)
      \/ Idle(t, in) = detected /\ in.armed /\ ~in.receiving
  BY DEF Idle, Kill
<1> HIDE DEF seen
<1>5. landed \in Work /\ Keeps(landed, s) /\ Untouched(landed, s)
      /\ landed.phase = "LANDED" /\ landed.again
  BY <1>2 DEF Work, Keeps, Untouched, Again, Phases
<1>6. detected \in Work /\ Keeps(detected, s) /\ Untouched(detected, s)
      /\ detected.phase = "RX_LOSS_DETECTED" /\ detected.again
      /\ detected.active = s.active
  BY <1>2 DEF Work, Keeps, Untouched, Again, Phases
<1> HIDE DEF landed, detected, t
<1> QED BY <1>2, <1>3, <1>4, <1>5, <1>6

LEMMA DetectedRound ==
  ASSUME NEW s \in Work, NEW in \in Reads, s.phase = "RX_LOSS_DETECTED",
         config \in Configs
  PROVE  LET r == Step(s, in) IN
         /\ r \in Work /\ Keeps(r, s) /\ Untouched(r, s) /\ r.again
         /\ \/ r.phase = "RX_LOSS_RECOVERED" /\ in.receiving
            \/ /\ ~in.receiving
               /\ \/ /\ r.phase = "LANDING" /\ r.landingIn = LandingTime
                     /\ config.procedure = "AUTO_LANDING"
                  \/ r.phase = "LANDED"
                  \/ r.phase = "GPS_RESCUE" /\ config.procedure = "GPS_RESCUE"
<1> DEFINE t == Last(s)
           phase == CASE config.procedure = "AUTO_LANDING" -> "LANDING"
                      [] config.procedure = "DROP_IT"      -> "LANDED"
                      [] config.procedure = "GPS_RESCUE"   -> "GPS_RESCUE"
           on == Again(t, phase)
           landingIn == IF config.procedure = "AUTO_LANDING" THEN LandingTime
                        ELSE on.landingIn
           preset == IF t.boxWasOn THEN 0 ELSE RecoveryPeriod
           lost == [on EXCEPT !.active = TRUE, !.landingIn = landingIn, !.preset = preset]
<1>1. Step(s, in) = IF in.receiving THEN Again(t, "RX_LOSS_RECOVERED") ELSE lost
  BY DEF Step, LossDetected, Last
<1>2. config.procedure \in {"AUTO_LANDING", "DROP_IT", "GPS_RESCUE"}
  BY Settings DEF Procedures
<1>3. t \in Work /\ Keeps(t, s) /\ Untouched(t, s)
  BY LastKeeps
<1>4. phase \in Phases /\ "RX_LOSS_RECOVERED" \in Phases
  BY <1>2 DEF Phases
<1> HIDE DEF t, phase
<1>5. \A p \in Phases :
        LET r == Again(t, p) IN
        /\ r \in Work /\ Keeps(r, s) /\ Untouched(r, s) /\ r.phase = p /\ r.again
  BY <1>3, AgainKeeps DEF Keeps, Untouched
<1>6. on \in Work /\ Keeps(on, s) /\ Untouched(on, s) /\ on.phase = phase /\ on.again
  BY <1>4, <1>5
<1> HIDE DEF on
<1>7. landingIn \in -1..LandingTime /\ preset \in {0, RecoveryPeriod}
  BY <1>6 DEF Work
<1>8. /\ lost \in Work /\ Keeps(lost, s) /\ Untouched(lost, s)
      /\ lost.phase = phase /\ lost.again /\ lost.landingIn = landingIn
  BY <1>6, <1>7 DEF Work, Keeps, Untouched
<1>9. CASE in.receiving
  BY <1>1, <1>4, <1>5, <1>9
<1>10. CASE ~in.receiving
  <2>1. Step(s, in) = lost
    BY <1>1, <1>10
  <2> HIDE DEF lost
  <2> QED BY <1>2, <1>8, <1>10, <2>1 DEF phase
<1> QED BY <1>9, <1>10

LEMMA LandingRound ==
  ASSUME NEW s \in Work, NEW in \in Reads, s.phase = "LANDING"
  PROVE  LET r == Step(s, in) IN
         /\ r \in Work /\ Keeps(r, s) /\ Untouched(r, s)
         /\ r.active = s.active /\ r.landingIn = s.landingIn
         /\ \/ r.phase = "RX_LOSS_RECOVERED" /\ r.again /\ in.receiving
            \/ r.phase = "LANDED" /\ r.again /\ ~in.receiving
            \/ /\ r.phase = "LANDING" /\ ~r.again /\ ~in.receiving
               /\ s.landingIn >= 0 /\ in.armed
<1> DEFINE t == Last(s)
<1>1. Step(s, in) = Landing(t, in)
  BY DEF Step, Last
<1>2. /\ t \in Work /\ Keeps(t, s) /\ Untouched(t, s) /\ ~t.again
      /\ t.phase = s.phase /\ t.active = s.active /\ t.landingIn = s.landingIn
  BY LastKeeps
<1>3. \/ in.receiving /\ Landing(t, in) = Again(t, "RX_LOSS_RECOVERED")
      \/ ~in.receiving /\ Landing(t, in) = Again(t, "LANDED")
      \/ ~in.receiving /\ ~Over(t.landingIn) /\ in.armed /\ Landing(t, in) = t
  BY DEF Landing
<1>4. t.landingIn \in Int
  BY <1>2 DEF Work
<1> HIDE DEF t
<1>5. ~Over(t.landingIn) => s.landingIn >= 0
  BY <1>2, <1>4 DEF Over
<1>6. \A phase \in {"RX_LOSS_RECOVERED", "LANDED"} :
        LET r == Again(t, phase) IN
        /\ r \in Work /\ Keeps(r, s) /\ Untouched(r, s) /\ r.phase = phase /\ r.again
        /\ r.active = s.active /\ r.landingIn = s.landingIn
  BY <1>2, AgainKeeps DEF Keeps, Untouched, Phases
<1> QED BY <1>1, <1>2, <1>3, <1>5, <1>6

LEMMA RescueRound ==
  ASSUME NEW s \in Work, NEW in \in Reads, s.phase = "GPS_RESCUE"
  PROVE  LET r == Step(s, in) IN
         /\ r \in Work /\ Keeps(r, s) /\ Untouched(r, s) /\ r.active = s.active
         /\ \/ r.phase = "RX_LOSS_RECOVERED" /\ r.again /\ in.receiving
            \/ r.phase = "LANDED" /\ r.again /\ ~in.receiving
            \/ r.phase = "GPS_RESCUE" /\ ~r.again
BY DEF Step, GpsRescue, Again, Work, Keeps, Untouched, Phases

LEMMA LandedRound ==
  ASSUME NEW s \in Work, NEW in \in Reads, s.phase = "LANDED"
  PROVE  LET r == Step(s, in) IN
         /\ r \in Work /\ Keeps(r, s) /\ r.active = s.active
         /\ r.phase = "RX_LOSS_MONITORING" /\ r.again /\ ~r.armed /\ Blocked(r)
         /\ r.receivingIn >= 0 /\ r.receivingIn = r.preset
<1> DEFINE t == Last(s)
           on == Again(t, "RX_LOSS_MONITORING")
           r == [on EXCEPT !.armed = FALSE, !.disabled = on.disabled \cup {"FAILSAFE"},
                           !.receivingIn = t.preset]
<1>1. Step(s, in) = r
  BY DEF Step, Landed, Last
<1>2. /\ on \in Work /\ Keeps(on, s) /\ Untouched(on, s) /\ on.active = s.active
      /\ on.phase = "RX_LOSS_MONITORING" /\ on.again
      /\ t.preset = s.preset /\ on.preset = s.preset
  BY LastKeeps, AgainKeeps DEF Keeps, Untouched, Phases
<1>3. s.preset \in {0, RecoveryPeriod}
  BY DEF Work
<1> HIDE DEF on, t
<1>4. on.disabled \cup {"FAILSAFE"} \in SUBSET Flags
  BY <1>2 DEF Work, Flags
<1>5. t.preset \in -1..RecoveryPeriod
  BY <1>2, <1>3
<1>6. r \in Work
  BY <1>2, <1>4, <1>5 DEF Work
<1>7. /\ r.linkUp = on.linkUp /\ r.received = on.received /\ r.failed = on.failed
      /\ r.disabled = on.disabled \cup {"FAILSAFE"} /\ r.receivingIn = s.preset
      /\ r.preset = s.preset
      /\ r.active = on.active /\ r.phase = on.phase /\ r.again = on.again /\ ~r.armed
  BY <1>2 DEF Work
<1> HIDE DEF r
<1>8. Keeps(r, s)
  BY <1>2, <1>7 DEF Keeps
<1> QED BY <1>1, <1>2, <1>3, <1>6, <1>7, <1>8 DEF Blocked

LEMMA MonitoringRound ==
  ASSUME NEW s \in Work, NEW in \in Reads, s.phase = "RX_LOSS_MONITORING"
  PROVE  LET r == Step(s, in) IN
         /\ r \in Work /\ Keeps(r, s) /\ Untouched(r, s) /\ r.active = s.active
         /\ \/ /\ r.phase = "RX_LOSS_RECOVERED" /\ r.again
               /\ in.receiving /\ Over(s.receivingIn)
            \/ /\ r.phase = "RX_LOSS_MONITORING" /\ ~r.again /\ r.preset = s.preset
               /\ r.receivingIn = IF in.receiving THEN s.receivingIn ELSE s.preset
               /\ s.receivingIn >= 0 => r.receivingIn >= 0
<1> DEFINE t == Last(s)
           waiting == [t EXCEPT !.receivingIn = t.preset]
<1>1. Step(s, in) = Monitoring(t, in)
  BY DEF Step, Last
<1>2. /\ t \in Work /\ Keeps(t, s) /\ Untouched(t, s) /\ ~t.again
      /\ t.phase = s.phase /\ t.active = s.active /\ t.receivingIn = s.receivingIn
      /\ t.preset = s.preset
  BY LastKeeps
<1>3. \/ ~in.receiving /\ Monitoring(t, in) = waiting
      \/ /\ in.receiving /\ Over(t.receivingIn)
         /\ Monitoring(t, in) = Again(t, "RX_LOSS_RECOVERED")
      \/ in.receiving /\ Monitoring(t, in) = t
  BY DEF Monitoring
<1> HIDE DEF t
<1>4. /\ waiting \in Work /\ Keeps(waiting, s) /\ Untouched(waiting, s) /\ ~waiting.again
      /\ waiting.phase = s.phase /\ waiting.active = s.active /\ waiting.receivingIn >= 0
      /\ waiting.receivingIn = s.preset /\ waiting.preset = s.preset
  BY <1>2 DEF Work, Keeps, Untouched
<1>5. LET r == Again(t, "RX_LOSS_RECOVERED") IN
      /\ r \in Work /\ Keeps(r, s) /\ Untouched(r, s) /\ r.phase = "RX_LOSS_RECOVERED"
      /\ r.again /\ r.active = s.active
  BY <1>2, AgainKeeps DEF Keeps, Untouched, Phases
<1> QED BY <1>1, <1>2, <1>3, <1>4, <1>5

LEMMA RecoveredRound ==
  ASSUME NEW s \in Work, NEW in \in Reads, s.phase = "RX_LOSS_RECOVERED"
  PROVE  LET r == Step(s, in) IN
         /\ r \in Work /\ Keeps(r, s) /\ r.armed = s.armed
         /\ r.phase = "IDLE" /\ r.again /\ ~r.active /\ ~Blocked(r)
<1> DEFINE t == Last(s)
           on == Again(t, "IDLE")
           r == [on EXCEPT !.throttleLowIn = ThrottleLowDelay, !.active = FALSE,
                           !.disabled = on.disabled \ {"FAILSAFE"}]
<1>1. Step(s, in) = r
  BY DEF Step, Recovered, Last
<1>2. on \in Work /\ Keeps(on, s) /\ Untouched(on, s) /\ on.phase = "IDLE" /\ on.again
  BY LastKeeps, AgainKeeps DEF Keeps, Untouched, Phases
<1> HIDE DEF on, t
<1>3. on.disabled \ {"FAILSAFE"} \in SUBSET Flags
      /\ ThrottleLowDelay \in -1..ThrottleLowDelay
  BY <1>2 DEF Work, Flags
<1>4. r \in Work
  BY <1>2, <1>3 DEF Work
<1>5. /\ r.linkUp = on.linkUp /\ r.received = on.received /\ r.failed = on.failed
      /\ r.disabled = on.disabled \ {"FAILSAFE"}
      /\ ~r.active /\ r.phase = on.phase /\ r.again = on.again /\ r.armed = on.armed
  BY <1>2 DEF Work
<1> HIDE DEF r
<1>6. Keeps(r, s)
  BY <1>2, <1>5 DEF Keeps
<1> QED BY <1>1, <1>2, <1>4, <1>5, <1>6 DEF Blocked, Untouched
-----------------------------------------------------------------------------
(* What every round of a call keeps.  s0 is the state the call began with, *)
(* in what it read.                                                        *)

\* It disarms at most once, in LANDED, which blocks arming and waits.
Disarms(t, in) ==
  /\ t.armed => in.armed
  /\ in.armed => \/ t.armed
                 \/ t.phase = "RX_LOSS_MONITORING" /\ t.receivingIn >= 0
  /\ t.phase = "RX_LOSS_MONITORING" => ~t.armed /\ Blocked(t)
  /\ ~t.again => t.phase \in Resting

\* While it flies on without data, data have not been missing for too long.
Lands(t, in) ==
  /\ t.phase = "IDLE" =>
       \/ ~in.armed \/ in.receiving
       \/ t.again /\ t.received <= FailurePeriod + 1
  /\ t.phase = "RX_LOSS_DETECTED" =>
       in.armed /\ ~in.receiving /\ t.received <= FailurePeriod + 1
  /\ t.phase = "LANDING" =>
       /\ config.procedure = "AUTO_LANDING"
       /\ t.received <= FailurePeriod + 1 + (LandingTime - t.landingIn)
       /\ ~t.again => t.landingIn >= 0
  /\ t.phase = "GPS_RESCUE" => config.procedure = "GPS_RESCUE"
  /\ t.phase = "RX_LOSS_RECOVERED" => in.receiving

\* A failsafe that turns active does so armed, for a reason it has read; one
\* that disarmed keeps arming blocked, and stays with it as long as the reason.
Blocks(t, s0, in) ==
  /\ t.active /\ ~Blocked(t) =>
       \/ s0.active /\ ~Blocked(s0)
       \/ t.armed /\ (~in.receiving \/ in.box)
  /\ t.armed \/ t.phase \in {"LANDING", "GPS_RESCUE"} => ~Blocked(t)
  /\ in.armed /\ t.phase \in {"LANDED", "RX_LOSS_MONITORING"} => in.box \/ ~in.receiving
  /\ ~in.armed /\ s0.phase = "IDLE" => t.phase = s0.phase /\ t.disabled = s0.disabled

\* The recovery period begins at the disarming, and again in every call without
\* data; until it is over the failsafe waits.
Waits(t, s0, in) ==
  /\ in.armed /\ t.phase = "RX_LOSS_MONITORING" => t.receivingIn = t.preset
  /\ (~in.armed /\ s0.phase = "RX_LOSS_MONITORING"
        /\ ~(in.receiving /\ Over(s0.receivingIn))) =>
          /\ t.phase = "RX_LOSS_MONITORING"
          /\ t.disabled = s0.disabled /\ t.preset = s0.preset
          /\ \/ t.receivingIn = s0.preset
             \/ t.receivingIn = s0.receivingIn /\ (in.receiving \/ t.again)

RoundInv(t, s0, in) ==
  /\ t \in Work /\ Keeps(t, s0)
  /\ Disarms(t, in) /\ Lands(t, in) /\ Blocks(t, s0, in) /\ Waits(t, s0, in)

\* The rounds a call may still take.
Rank(t, in) ==
  IF ~t.again THEN 0
  ELSE CASE t.phase = "RX_LOSS_MONITORING" -> IF in.receiving /\ Over(t.receivingIn) THEN 7 ELSE 1
         [] t.phase = "LANDED"             -> 2
         [] t.phase \in {"LANDING", "GPS_RESCUE"} -> IF in.receiving THEN 7 ELSE 3
         [] t.phase = "RX_LOSS_DETECTED"   -> 4
         [] t.phase = "IDLE"               -> 5
         [] t.phase = "RX_LOSS_RECOVERED"  -> 6

LEMMA RankType ==
  ASSUME NEW t \in Work, NEW in PROVE Rank(t, in) \in 0..7 /\ (Rank(t, in) = 0 => ~t.again)
BY DEF Rank, Work, Phases

\* A round keeps RoundInv and uses up some of the rank.
LEMMA RoundStep ==
  ASSUME NEW s0 \in Work, NEW in \in Reads, NEW t, RoundInv(t, s0, in), t.again,
         config \in Configs
  PROVE  /\ RoundInv(Step(t, in), s0, in)
         /\ Rank(Step(t, in), in) < Rank(t, in)
<1> DEFINE r == Step(t, in)
<1>1. t \in Work /\ Keeps(t, s0)
  BY DEF RoundInv
<1>2. /\ t.received \in Nat /\ t.landingIn \in Int /\ t.receivingIn \in Int
      /\ FailurePeriod \in Nat /\ LandingTime \in Nat
  BY <1>1 DEF Work, Oldest
<1>3. t.phase \in {"IDLE", "RX_LOSS_DETECTED", "LANDING", "LANDED", "RX_LOSS_MONITORING",
                  "RX_LOSS_RECOVERED", "GPS_RESCUE"}
  BY <1>1 DEF Work, Phases
<1>4. Disarms(t, in) /\ Lands(t, in) /\ Blocks(t, s0, in) /\ Waits(t, s0, in)
  BY DEF RoundInv
<1>5. SUFFICES ASSUME TRUE
               PROVE  /\ r \in Work /\ Keeps(r, t) /\ Disarms(r, in) /\ Lands(r, in)
                      /\ Blocks(r, s0, in) /\ Waits(r, s0, in)
                      /\ Rank(r, in) < Rank(t, in)
  BY <1>1 DEF RoundInv, Keeps
<1> HIDE DEF r
<1>6. CASE t.phase = "IDLE"
  <2>1. /\ r \in Work /\ Keeps(r, t) /\ Untouched(r, t)
        /\ \/ /\ r.phase = "IDLE" /\ ~r.again /\ r.active = t.active
              /\ ~in.armed \/ in.receiving
           \/ /\ r.phase = "LANDED" /\ r.again /\ in.armed
              /\ ~in.receiving \/ in.box
           \/ /\ r.phase = "RX_LOSS_DETECTED" /\ r.again /\ r.active = t.active
              /\ in.armed /\ ~in.receiving
    BY <1>1, <1>6, IdleRound DEF r
  <2>2. Rank(r, in) < Rank(t, in)
    BY <1>6, <2>1 DEF Rank
  <2>3. Disarms(r, in)
    BY <1>4, <1>6, <2>1 DEF Disarms, Untouched, Resting
  <2>4. Lands(r, in)
    BY <1>2, <1>4, <1>6, <2>1 DEF Lands, Keeps
  <2>5. Blocks(r, s0, in)
    BY <1>4, <1>6, <2>1 DEF Blocks, Disarms, Untouched, Blocked
  <2>6. Waits(r, s0, in)
    BY <1>4, <1>6, <2>1 DEF Waits
  <2> QED BY <2>1, <2>2, <2>3, <2>4, <2>5, <2>6
<1>7. CASE t.phase = "RX_LOSS_DETECTED"
  <2>1. /\ r \in Work /\ Keeps(r, t) /\ Untouched(r, t) /\ r.again
        /\ \/ r.phase = "RX_LOSS_RECOVERED" /\ in.receiving
           \/ /\ ~in.receiving
              /\ \/ /\ r.phase = "LANDING" /\ r.landingIn = LandingTime
                    /\ config.procedure = "AUTO_LANDING"
                 \/ r.phase = "LANDED"
                 \/ r.phase = "GPS_RESCUE" /\ config.procedure = "GPS_RESCUE"
    BY <1>1, <1>7, DetectedRound DEF r
  <2>2. in.armed /\ ~in.receiving /\ t.received <= FailurePeriod + 1 /\ t.armed
    BY <1>4, <1>7 DEF Lands, Disarms
  <2>3. Rank(r, in) < Rank(t, in)
    BY <1>7, <2>1, <2>2 DEF Rank
  <2>4. Disarms(r, in)
    BY <1>4, <1>7, <2>1, <2>2 DEF Disarms, Untouched
  <2>5. Lands(r, in)
    BY <1>2, <2>1, <2>2 DEF Lands, Keeps
  <2>6. Blocks(r, s0, in)
    BY <1>4, <1>7, <2>1, <2>2 DEF Blocks, Untouched, Blocked
  <2>7. Waits(r, s0, in)
    BY <1>4, <1>7, <2>1 DEF Waits
  <2> QED BY <2>1, <2>3, <2>4, <2>5, <2>6, <2>7
<1>8. CASE t.phase = "LANDING"
  <2>1. /\ r \in Work /\ Keeps(r, t) /\ Untouched(r, t)
        /\ r.active = t.active /\ r.landingIn = t.landingIn
        /\ \/ r.phase = "RX_LOSS_RECOVERED" /\ r.again /\ in.receiving
           \/ r.phase = "LANDED" /\ r.again /\ ~in.receiving
           \/ /\ r.phase = "LANDING" /\ ~r.again /\ ~in.receiving
              /\ t.landingIn >= 0 /\ in.armed
    BY <1>1, <1>8, LandingRound DEF r
  <2>2. Rank(r, in) < Rank(t, in)
    BY <1>8, <2>1 DEF Rank
  <2>3. Disarms(r, in)
    BY <1>4, <1>8, <2>1 DEF Disarms, Untouched, Resting
  <2>4. Lands(r, in)
    BY <1>2, <1>4, <1>8, <2>1 DEF Lands, Keeps
  <2>5. Blocks(r, s0, in)
    BY <1>4, <1>8, <2>1 DEF Blocks, Disarms, Untouched, Blocked
  <2>6. Waits(r, s0, in)
    BY <1>4, <1>8, <2>1 DEF Waits
  <2> QED BY <2>1, <2>2, <2>3, <2>4, <2>5, <2>6
<1>9. CASE t.phase = "GPS_RESCUE"
  <2>1. /\ r \in Work /\ Keeps(r, t) /\ Untouched(r, t) /\ r.active = t.active
        /\ \/ r.phase = "RX_LOSS_RECOVERED" /\ r.again /\ in.receiving
           \/ r.phase = "LANDED" /\ r.again /\ ~in.receiving
           \/ r.phase = "GPS_RESCUE" /\ ~r.again
    BY <1>1, <1>9, RescueRound DEF r
  <2>2. Rank(r, in) < Rank(t, in)
    BY <1>9, <2>1 DEF Rank
  <2>3. Disarms(r, in)
    BY <1>4, <1>9, <2>1 DEF Disarms, Untouched, Resting
  <2>4. Lands(r, in)
    BY <1>2, <1>4, <1>9, <2>1 DEF Lands
  <2>5. Blocks(r, s0, in)
    BY <1>4, <1>9, <2>1 DEF Blocks, Disarms, Untouched, Blocked
  <2>6. Waits(r, s0, in)
    BY <1>4, <1>9, <2>1 DEF Waits
  <2> QED BY <2>1, <2>2, <2>3, <2>4, <2>5, <2>6
<1>10. CASE t.phase = "LANDED"
  <2>1. /\ r \in Work /\ Keeps(r, t) /\ r.active = t.active
        /\ r.phase = "RX_LOSS_MONITORING" /\ r.again /\ ~r.armed /\ Blocked(r)
        /\ r.receivingIn >= 0 /\ r.receivingIn = r.preset
    BY <1>1, <1>10, LandedRound DEF r
  <2>2. r.receivingIn \in Int
    BY <2>1 DEF Work
  <2>3. Rank(r, in) < Rank(t, in)
    BY <1>10, <2>1, <2>2 DEF Rank, Over
  <2>4. Disarms(r, in)
    BY <2>1 DEF Disarms
  <2>5. Lands(r, in)
    BY <2>1 DEF Lands
  <2>6. Blocks(r, s0, in)
    BY <1>4, <1>10, <2>1 DEF Blocks
  <2>7. Waits(r, s0, in)
    BY <1>4, <1>10, <2>1 DEF Waits
  <2> QED BY <2>1, <2>3, <2>4, <2>5, <2>6, <2>7
<1>11. CASE t.phase = "RX_LOSS_MONITORING"
  <2>1. /\ r \in Work /\ Keeps(r, t) /\ Untouched(r, t) /\ r.active = t.active
        /\ \/ /\ r.phase = "RX_LOSS_RECOVERED" /\ r.again
              /\ in.receiving /\ Over(t.receivingIn)
           \/ /\ r.phase = "RX_LOSS_MONITORING" /\ ~r.again /\ r.preset = t.preset
              /\ r.receivingIn = IF in.receiving THEN t.receivingIn ELSE t.preset
              /\ t.receivingIn >= 0 => r.receivingIn >= 0
    BY <1>1, <1>11, MonitoringRound DEF r
  <2>2. Rank(r, in) < Rank(t, in)
    BY <1>11, <2>1 DEF Rank
  <2>3. Over(t.receivingIn) => ~(t.receivingIn >= 0)
    BY <1>2 DEF Over
  <2>4. Disarms(r, in)
    BY <1>4, <1>11, <2>1, <2>3 DEF Disarms, Untouched, Blocked, Resting
  <2>5. Lands(r, in)
    BY <2>1 DEF Lands
  <2>6. Blocks(r, s0, in)
    BY <1>4, <1>11, <2>1, <2>3 DEF Blocks, Disarms, Untouched, Blocked
  <2>7. s0.preset \in Nat /\ t.preset \in Nat
    BY <1>1 DEF Work
  <2>8. Waits(r, s0, in)
    BY <1>4, <1>11, <2>1, <2>7 DEF Waits, Untouched, Over
  <2> QED BY <2>1, <2>2, <2>4, <2>5, <2>6, <2>8
<1>12. CASE t.phase = "RX_LOSS_RECOVERED"
  <2>1. /\ r \in Work /\ Keeps(r, t) /\ r.armed = t.armed
        /\ r.phase = "IDLE" /\ r.again /\ ~r.active /\ ~Blocked(r)
    BY <1>1, <1>12, RecoveredRound DEF r
  <2>2. Rank(r, in) < Rank(t, in)
    BY <1>12, <2>1 DEF Rank
  <2>3. Disarms(r, in)
    BY <1>4, <1>12, <2>1 DEF Disarms
  <2>4. Lands(r, in)
    BY <1>4, <1>12, <2>1 DEF Lands
  <2>5. Blocks(r, s0, in)
    BY <1>4, <1>12, <2>1 DEF Blocks
  <2>6. Waits(r, s0, in)
    BY <1>4, <1>12, <2>1 DEF Waits
  <2> QED BY <2>1, <2>2, <2>3, <2>4, <2>5, <2>6
<1> QED BY <1>3, <1>6, <1>7, <1>8, <1>9, <1>10, <1>11, <1>12

-----------------------------------------------------------------------------
(* A call of failsafeUpdateState.                                          *)

\* Where a call may still be after some rounds, with k more to take.
Ready(S, s0, in, k) == \A t \in S : RoundInv(t, s0, in) /\ Rank(t, in) <= k

LEMMA RoundReady ==
  ASSUME NEW s0 \in Work, NEW in \in Reads, NEW k \in Nat, NEW S,
         Ready(S, s0, in, k + 1), config \in Configs
  PROVE  Ready(Round(S, in), s0, in, k)
<1> SUFFICES ASSUME NEW t \in S
             PROVE  LET r == IF t.again THEN Step(t, in) ELSE t
                    IN RoundInv(r, s0, in) /\ Rank(r, in) <= k
  BY DEF Ready, Round
<1>1. RoundInv(t, s0, in) /\ Rank(t, in) <= k + 1 /\ t \in Work
  BY DEF Ready, RoundInv
<1>2. CASE t.again
  <2>1. RoundInv(Step(t, in), s0, in) /\ Rank(Step(t, in), in) < Rank(t, in)
    BY <1>1, <1>2, RoundStep
  <2>2. Rank(t, in) \in Int /\ Rank(Step(t, in), in) \in Int
    BY <1>1, <2>1, RankType DEF RoundInv
  <2> QED BY <1>1, <1>2, <2>1, <2>2
<1>3. CASE ~t.again
  <2>1. Rank(t, in) = 0
    BY <1>3 DEF Rank
  <2> QED BY <1>1, <1>3, <2>1
<1> QED BY <1>2, <1>3

\* A call that begins well keeps RoundInv, and has enough rounds to end.
LEMMA CallEnds ==
  ASSUME NEW s \in Work, NEW in \in Reads, config \in Configs,
         RoundInv([s EXCEPT !.again = TRUE], s, in),
         NEW t \in Reprocess(s, in)
  PROVE  RoundInv(t, s, in) /\ ~t.again
<1> DEFINE S == {[s EXCEPT !.again = TRUE]}
<1>1. Ready(S, s, in, 8)
  <2> SUFFICES ASSUME NEW u \in S PROVE RoundInv(u, s, in) /\ Rank(u, in) <= 8
    BY DEF Ready
  <2>1. RoundInv(u, s, in) /\ u \in Work
    BY DEF RoundInv
  <2> QED BY <2>1, RankType
<1> HIDE DEF S
<1>2. ASSUME NEW T, NEW k \in Nat, Ready(T, s, in, k + 2)
      PROVE  Ready(TwoRounds(T, in), s, in, k)
  <2>1. k + 1 \in Nat /\ (k + 1) + 1 = k + 2
    OBVIOUS
  <2>2. Ready(Round(T, in), s, in, k + 1)
    BY <1>2, <2>1, RoundReady
  <2> QED BY <2>2, RoundReady DEF TwoRounds
<1> DEFINE A == TwoRounds(S, in)
           B == TwoRounds(A, in)
           C == TwoRounds(B, in)
           D == TwoRounds(C, in)
<1>3. Ready(A, s, in, 6)
  BY <1>1, <1>2
<1> HIDE DEF A
<1>4. Ready(B, s, in, 4)
  BY <1>2, <1>3
<1> HIDE DEF B
<1>5. Ready(C, s, in, 2)
  BY <1>2, <1>4
<1> HIDE DEF C
<1>6. Ready(D, s, in, 0)
  BY <1>2, <1>5
<1>7. t \in D
  BY DEF Reprocess, Rounds, A, B, C, S
<1>8. RoundInv(t, s, in) /\ Rank(t, in) <= 0 /\ t \in Work
  BY <1>6, <1>7 DEF Ready, RoundInv
<1> QED BY <1>8, RankType

-----------------------------------------------------------------------------
(* The inductive invariant: the properties, and what they rest on.         *)

\* The arming block for the link and the link itself agree with the age of
\* the last valid data.
LinkInv ==
  LET f == failsafeState IN
  /\ "RX_FAILSAFE" \notin disabled => f.linkUp
  /\ f.linkUp => f.received <= FailurePeriod

\* It flies on without data only while it lands, or is rescued.
FlightInv ==
  LET f == failsafeState IN
  /\ armed /\ f.phase = "IDLE" => f.received <= FailurePeriod
  /\ f.phase = "LANDING" =>
       /\ config.procedure = "AUTO_LANDING" /\ f.landingIn >= 0
       /\ f.received <= FailurePeriod + 1 + (LandingTime - f.landingIn)
  /\ f.phase = "GPS_RESCUE" => config.procedure = "GPS_RESCUE"
  /\ armed \/ f.phase \in {"LANDING", "GPS_RESCUE"} => "FAILSAFE" \notin disabled

\* What the parts of the RX task left for each other.
TaskInv ==
  /\ rxState # "MODES" => modes = rcData
  /\ rxState = "MODES" /\ modes.failsafe => "RX_FAILSAFE" \in disabled

FailsafeInv == TypeOK /\ RestsInPhase /\ LinkInv /\ FlightInv /\ TaskInv

LEMMA InitInv == Init => FailsafeInv
<1> SUFFICES ASSUME Init PROVE FailsafeInv
  OBVIOUS
<1>1. TypeOK
  <2>1. failsafeState = [phase |-> "IDLE", linkUp |-> FALSE, received |-> Oldest,
                         failed |-> 0, throttleLowIn |-> -1, landingIn |-> -1,
                         receivingIn |-> -1, preset |-> RecoveryPeriod,
                         boxWasOn |-> FALSE, active |-> FALSE]
    BY DEF Init, failsafeReset
  <2>2. Oldest \in 0..Oldest
    BY DEF Oldest
  <2>3. NoSwitch \in Switches /\ {"RX_FAILSAFE"} \in SUBSET Flags
    BY DEF NoSwitch, Switches, Flags
  <2>4. failsafeState \in
          [phase : Phases, linkUp : BOOLEAN, received : 0..Oldest,
           failed : -1..(RecoveryPeriod + 1), throttleLowIn : -1..ThrottleLowDelay,
           landingIn : -1..LandingTime, receivingIn : -1..RecoveryPeriod,
           preset : {0, RecoveryPeriod}, boxWasOn : BOOLEAN, active : BOOLEAN]
    BY <2>1, <2>2 DEF Phases
  <2>5. /\ SignalRecheck \in -(SignalRecheck + 1)..SignalTimeout
        /\ 0 \in 0..(RecoveryPeriod + 1) /\ 0 \in 0..(DisarmTicks + 1)
    OBVIOUS
  <2> QED BY <2>3, <2>4, <2>5 DEF Init, TypeOK
<1>2. /\ failsafeState.phase = "IDLE" /\ "RX_FAILSAFE" \in disabled
      /\ ~failsafeState.linkUp /\ ~armed /\ "FAILSAFE" \notin disabled
      /\ modes = rcData /\ rxState = "CHECK"
  BY DEF Init, failsafeReset
<1> QED BY <1>1, <1>2 DEF FailsafeInv, RestsInPhase, LinkInv, FlightInv, TaskInv

-----------------------------------------------------------------------------
(* A pass of the failsafe: s is the state it works on, in what it reads, t *)
(* what it leaves.                                                         *)

Pass(s, in, t) ==
  /\ s \in Work /\ in \in Reads /\ RoundInv(t, s, in) /\ ~t.again
  /\ in.box = modes.failsafe /\ in.armed = armed
  /\ in.receiving = (s.linkUp /\ ~(modes.failsafe /\ config.switchMode = "STAGE2"))
  /\ s.phase = failsafeState.phase /\ s.active = failsafeState.active
  /\ s.preset = failsafeState.preset /\ s.receivingIn >= failsafeState.receivingIn - 1
  /\ s.linkUp => failsafeState.linkUp /\ s.received <= FailurePeriod
  /\ disabled \subseteq s.disabled /\ s.disabled \subseteq disabled \cup {"RX_FAILSAFE"}
  /\ "RX_FAILSAFE" \notin s.disabled => s.linkUp
  /\ Store(t) /\ armed' = t.armed
  /\ mayRearm' = \/ ~rcRaw'.arm \/ stall' > RecoveryPeriod
                 \/ IF armed /\ ~t.armed
                    THEN ~(rcRaw.arm /\ rcData.arm /\ modes.arm) \/ t.preset = 0
                    ELSE mayRearm

\* Loading and storing the state loses nothing.
LEMMA LoadedKeeps ==
  ASSUME TypeOK
  PROVE  LET l == Loaded
             f == failsafeState
         IN /\ l \in Work /\ l.phase = f.phase /\ l.active = f.active /\ l.armed = armed
            /\ l.linkUp = f.linkUp /\ l.disabled = disabled /\ l.received = f.received
            /\ l.landingIn = f.landingIn
            /\ l.receivingIn = f.receivingIn /\ l.preset = f.preset
<1> DEFINE f == failsafeState
<1>1. f \in [phase : Phases, linkUp : BOOLEAN, received : 0..Oldest,
             failed : -1..(RecoveryPeriod + 1), throttleLowIn : -1..ThrottleLowDelay,
             landingIn : -1..LandingTime, receivingIn : -1..RecoveryPeriod,
             preset : {0, RecoveryPeriod}, boxWasOn : BOOLEAN, active : BOOLEAN]
      /\ armed \in BOOLEAN /\ disabled \in SUBSET Flags
  BY DEF TypeOK
<1> QED BY <1>1 DEF Loaded, Work

LEMMA StoreKeeps ==
  ASSUME NEW t \in Work, Store(t)
  PROVE  LET f == failsafeState' IN
         /\ f \in [phase : Phases, linkUp : BOOLEAN, received : 0..Oldest,
                   failed : -1..(RecoveryPeriod + 1), throttleLowIn : -1..ThrottleLowDelay,
                   landingIn : -1..LandingTime, receivingIn : -1..RecoveryPeriod,
                   preset : {0, RecoveryPeriod}, boxWasOn : BOOLEAN, active : BOOLEAN]
         /\ f.phase = t.phase /\ f.active = t.active /\ f.linkUp = t.linkUp
         /\ f.received = t.received /\ f.landingIn = t.landingIn
         /\ f.receivingIn = t.receivingIn /\ f.preset = t.preset
         /\ disabled' = t.disabled /\ disabled' \in SUBSET Flags
BY DEF Store, Work

LEMMA PassBegins ==
  ASSUME FailsafeInv
  PROVE  LET s == failsafeCheckDataFailurePeriod(Aged(Loaded)) IN
         /\ s \in Work /\ s.phase = failsafeState.phase /\ s.active = failsafeState.active
         /\ s.armed = armed
         /\ s.linkUp => failsafeState.linkUp /\ s.received <= FailurePeriod
         /\ disabled \subseteq s.disabled /\ s.disabled \subseteq disabled \cup {"RX_FAILSAFE"}
         /\ "RX_FAILSAFE" \notin s.disabled => s.linkUp
         /\ s.received <= failsafeState.received + 1
         /\ failsafeState.landingIn >= 0 => s.landingIn = failsafeState.landingIn - 1
         /\ s.preset = failsafeState.preset
         /\ s.receivingIn >= failsafeState.receivingIn - 1
<1> DEFINE f == failsafeState
           a == Aged(Loaded)
           s == failsafeCheckDataFailurePeriod(a)
<1>1. /\ "RX_FAILSAFE" \notin disabled => f.linkUp
      /\ f.linkUp => f.received <= FailurePeriod
  BY DEF FailsafeInv, LinkInv
<1> DEFINE l == Loaded
<1>2. /\ l \in Work /\ l.phase = f.phase /\ l.active = f.active /\ l.armed = armed
      /\ l.linkUp = f.linkUp /\ l.disabled = disabled /\ l.received = f.received
      /\ l.landingIn = f.landingIn
      /\ l.receivingIn = f.receivingIn /\ l.preset = f.preset
  BY LoadedKeeps DEF FailsafeInv
<1> DEFINE received == Younger(l.received + 1, Oldest)
           failed == IF l.failed = -1 THEN -1
                     ELSE Younger(l.failed + 1, RecoveryPeriod + 1)
           Left(left) == IF left = -1 THEN -1 ELSE left - 1
<1>3. a = [l EXCEPT !.received = received, !.failed = failed,
                    !.throttleLowIn = Left(l.throttleLowIn),
                    !.landingIn = Left(l.landingIn),
                    !.receivingIn = Left(l.receivingIn)]
  BY DEF Aged
<1> HIDE DEF a, l
<1>4. /\ a \in Work /\ a.phase = f.phase /\ a.active = f.active /\ a.armed = armed
      /\ a.linkUp = f.linkUp /\ a.disabled = disabled /\ a.received <= f.received + 1
      /\ f.landingIn >= 0 => a.landingIn = f.landingIn - 1
      /\ a.preset = f.preset /\ a.receivingIn >= f.receivingIn - 1
  <2>1. /\ received \in 0..Oldest /\ received <= l.received + 1
        /\ failed \in -1..(RecoveryPeriod + 1)
        /\ Left(l.throttleLowIn) \in -1..ThrottleLowDelay
        /\ Left(l.landingIn) \in -1..LandingTime
        /\ Left(l.receivingIn) \in -1..RecoveryPeriod
        /\ l.landingIn >= 0 => Left(l.landingIn) = l.landingIn - 1
        /\ Left(l.receivingIn) >= l.receivingIn - 1
    BY <1>2 DEF Work, Younger, Oldest
  <2> HIDE DEF received, failed, Left
  <2> QED BY <1>2, <1>3, <2>1 DEF Work
<1>5. "RX_FAILSAFE" \in Flags
  BY DEF Flags
<1>6. CASE a.received > FailurePeriod
  <2>1. s = [a EXCEPT !.linkUp = FALSE, !.disabled = a.disabled \cup {"RX_FAILSAFE"}]
    BY <1>6 DEF failsafeCheckDataFailurePeriod
  <2>2. a.disabled \cup {"RX_FAILSAFE"} \in SUBSET Flags
    BY <1>4, <1>5 DEF Work
  <2>3. /\ s \in Work /\ ~s.linkUp /\ s.disabled = a.disabled \cup {"RX_FAILSAFE"}
        /\ s.phase = a.phase /\ s.active = a.active /\ s.armed = a.armed
        /\ s.received = a.received /\ s.landingIn = a.landingIn
        /\ s.receivingIn = a.receivingIn /\ s.preset = a.preset
    BY <1>4, <2>1, <2>2 DEF Work
  <2> HIDE DEF s
  <2> QED BY <1>4, <2>3 DEF s, a
<1>7. CASE ~(a.received > FailurePeriod)
  <2>1. s = a
    BY <1>7 DEF failsafeCheckDataFailurePeriod
  <2>2. a.received <= FailurePeriod
    BY <1>4, <1>7 DEF Work, Oldest
  <2> QED BY <1>1, <1>4, <2>1, <2>2 DEF a
<1> QED BY <1>6, <1>7

LEMMA FailsafePasses ==
  ASSUME FailsafeInv, FailsafePass
  PROVE  \E s, in, t : Pass(s, in, t)
<1> DEFINE s == failsafeCheckDataFailurePeriod(Aged(Loaded))
           f == failsafeState
<1>1. /\ s \in Work /\ s.phase = f.phase /\ s.active = f.active /\ s.armed = armed
      /\ s.linkUp => f.linkUp /\ s.received <= FailurePeriod
      /\ disabled \subseteq s.disabled /\ s.disabled \subseteq disabled \cup {"RX_FAILSAFE"}
      /\ "RX_FAILSAFE" \notin s.disabled => s.linkUp
      /\ s.received <= f.received + 1
      /\ f.landingIn >= 0 => s.landingIn = f.landingIn - 1
      /\ s.preset = f.preset /\ s.receivingIn >= f.receivingIn - 1
  BY PassBegins
<1>2. PICK t \in failsafeUpdateState(s) : Store(t) /\ armed' = t.armed
  BY DEF FailsafePass
<1> HIDE DEF s
<1>3. PICK in \in Inputs(s) : t \in Reprocess(s, in)
  BY <1>2 DEF failsafeUpdateState
<1>4. /\ in \in Reads /\ in.box = modes.failsafe /\ in.armed = armed
      /\ in.receiving = (s.linkUp /\ ~(modes.failsafe /\ config.switchMode = "STAGE2"))
  <2>1. /\ modes.failsafe \in BOOLEAN /\ throttleLow \in BOOLEAN
        /\ s.linkUp \in BOOLEAN /\ s.armed \in BOOLEAN
    BY <1>1 DEF Work, FailsafeInv, TypeOK, Switches
  <2> QED BY <1>1, <1>3, <2>1 DEF Inputs, Reads
<1>5. config \in Configs
  BY DEF FailsafeInv, TypeOK
<1>6. RoundInv([s EXCEPT !.again = TRUE], s, in)
  <2> DEFINE u == [s EXCEPT !.again = TRUE]
  <2>1. /\ u \in Work /\ u.phase = s.phase /\ u.linkUp = s.linkUp /\ u.received = s.received
        /\ u.failed = s.failed /\ u.landingIn = s.landingIn /\ u.active = s.active
        /\ u.armed = s.armed /\ u.disabled = s.disabled /\ u.again
        /\ u.receivingIn = s.receivingIn /\ u.preset = s.preset
    BY <1>1 DEF Work
  <2> HIDE DEF u
  <2>2. f.phase \in Resting /\ (f.phase = "RX_LOSS_MONITORING" => ~armed)
        /\ (f.phase = "RX_LOSS_MONITORING" => "FAILSAFE" \in disabled)
    BY DEF FailsafeInv, RestsInPhase, Resting
  <2>3. "FAILSAFE" \in s.disabled <=> "FAILSAFE" \in disabled
    BY <1>1
  <2>4. Keeps(u, s)
    BY <2>1 DEF Keeps
  <2>5. Disarms(u, in)
    BY <1>1, <1>4, <2>1, <2>2, <2>3 DEF Disarms, Blocked
  <2>6. Lands(u, in)
    <3>1. /\ s.received \in Int /\ s.landingIn \in Int /\ f.received \in Int
          /\ f.landingIn \in Int /\ LandingTime \in Int /\ FailurePeriod \in Int
      BY <1>1 DEF Work, Oldest, FailsafeInv, TypeOK
    <3>2. armed /\ f.phase = "IDLE" => s.received <= FailurePeriod + 1
      BY <1>1, <3>1 DEF FailsafeInv, FlightInv
    <3>3. f.phase = "LANDING" => /\ config.procedure = "AUTO_LANDING"
            /\ s.received <= FailurePeriod + 1 + (LandingTime - s.landingIn)
      BY <1>1, <3>1 DEF FailsafeInv, FlightInv
    <3>4. f.phase = "GPS_RESCUE" => config.procedure = "GPS_RESCUE"
      BY DEF FailsafeInv, FlightInv
    <3> QED BY <1>1, <1>4, <2>1, <2>2, <3>2, <3>3, <3>4 DEF Lands, Resting
  <2>7. Blocks(u, s, in)
    <3>1. armed \/ f.phase \in {"LANDING", "GPS_RESCUE"} => "FAILSAFE" \notin disabled
      BY DEF FailsafeInv, FlightInv
    <3> QED BY <1>1, <1>4, <2>1, <2>2, <2>3, <3>1 DEF Blocks, Blocked, Resting
  <2>8. Waits(u, s, in)
    BY <1>1, <1>4, <2>1, <2>2 DEF Waits
  <2> QED BY <2>1, <2>4, <2>5, <2>6, <2>7, <2>8 DEF RoundInv, u
<1>7. RoundInv(t, s, in) /\ ~t.again
  BY <1>1, <1>3, <1>4, <1>5, <1>6, CallEnds
<1>8. failsafeState'.preset = t.preset
  BY <1>2, <1>7, StoreKeeps DEF RoundInv
<1>9. mayRearm' = \/ ~rcRaw'.arm \/ stall' > RecoveryPeriod
                  \/ IF armed /\ ~t.armed
                     THEN ~(rcRaw.arm /\ rcData.arm /\ modes.arm) \/ t.preset = 0
                     ELSE mayRearm
  BY <1>2, <1>8 DEF FailsafePass
<1>10. Pass(s, in, t)
  BY <1>1, <1>2, <1>4, <1>7, <1>9 DEF Pass
<1> QED BY <1>10
-----------------------------------------------------------------------------
(* The arming flags, and the data the RX task hands over.                  *)

\* What updateArmingStatus leaves to others, and the latch of the arm switch.
LEMMA ArmingFlags ==
  ASSUME TypeOK, updateArmingStatus
  PROVE  /\ disabled' \in SUBSET Flags /\ hadRx' \in BOOLEAN
         /\ \A flag \in {"FAILSAFE", "RX_FAILSAFE"} : flag \in disabled' <=> flag \in disabled
         /\ armed => disabled' = disabled
         /\ ~armed /\ modes.arm =>
              /\ disabled' = {} \/ "ARM_SWITCH" \in disabled'
              /\ "ARM_SWITCH" \in disabled \/ modes.failsafe => "ARM_SWITCH" \in disabled'
<1>1. disabled \in SUBSET Flags /\ hadRx \in BOOLEAN /\ rxSignalReceived \in BOOLEAN
      /\ modes.failsafe \in BOOLEAN /\ throttleLow \in BOOLEAN
  BY DEF TypeOK, Switches
<1>2. CASE armed
  BY <1>1, <1>2 DEF updateArmingStatus
<1>3. CASE ~armed
  <2> DEFINE had == NotDisarmed(disabled)
             box == SetIf("BOXFAILSAFE", modes.failsafe, had)
             flags == SetIf("THROTTLE", ~throttleLow, box)
  <2>1. hadRx' = rxSignalReceived /\ disabled' = ArmSwitchOff(flags)
    BY <1>3 DEF updateArmingStatus
  <2>2. /\ had \in SUBSET Flags
        /\ \A flag \in {"FAILSAFE", "RX_FAILSAFE", "ARM_SWITCH"} :
             flag \in had <=> flag \in disabled
    BY <1>1 DEF NotDisarmed, Flags
  <2> HIDE DEF had
  <2>3. /\ box \in SUBSET Flags
        /\ \A flag \in {"FAILSAFE", "RX_FAILSAFE", "ARM_SWITCH"} :
             flag \in box <=> flag \in disabled
        /\ modes.failsafe => "BOXFAILSAFE" \in box
    BY <2>2 DEF SetIf, Flags
  <2> HIDE DEF box
  <2>4. /\ flags \in SUBSET Flags
        /\ \A flag \in {"FAILSAFE", "RX_FAILSAFE", "ARM_SWITCH"} :
             flag \in flags <=> flag \in disabled
        /\ modes.failsafe => "BOXFAILSAFE" \in flags
    BY <2>3 DEF SetIf, Flags
  <2> HIDE DEF flags
  <2>5. CASE modes.arm /\ flags # {}
    <3>1. disabled' = flags \cup {"ARM_SWITCH"}
      BY <2>1, <2>5 DEF ArmSwitchOff
    <3> QED BY <1>1, <1>3, <2>1, <2>4, <3>1 DEF Flags
  <2>6. CASE ~modes.arm
    <3>1. disabled' = flags \ {"ARM_SWITCH"}
      BY <2>1, <2>6 DEF ArmSwitchOff
    <3> QED BY <1>1, <1>3, <2>1, <2>4, <2>6, <3>1
  <2>7. CASE modes.arm /\ flags = {}
    <3>1. disabled' = {}
      BY <2>1, <2>7 DEF ArmSwitchOff
    <3> QED BY <1>1, <1>3, <2>1, <2>4, <2>7, <3>1
  <2> QED BY <2>5, <2>6, <2>7
<1> QED BY <1>2, <1>3

\* Valid or not, data change the link and its arming block together.
LEMMA DataKeeps ==
  ASSUME NEW s \in Work, NEW r,
         r \in {failsafeOnValidDataReceived(s), failsafeOnValidDataFailed(s)},
         "RX_FAILSAFE" \notin s.disabled => s.linkUp,
         s.linkUp => s.received <= FailurePeriod
  PROVE  /\ r \in Work /\ r.phase = s.phase /\ r.active = s.active
         /\ r.landingIn = s.landingIn /\ r.received <= s.received
         /\ r.receivingIn = s.receivingIn /\ r.preset = s.preset
         /\ \A flag \in Flags \ {"RX_FAILSAFE"} : flag \in r.disabled <=> flag \in s.disabled
         /\ "RX_FAILSAFE" \notin r.disabled => r.linkUp
         /\ r.linkUp => r.received <= FailurePeriod
<1>1. "RX_FAILSAFE" \in Flags
  BY DEF Flags
<1>2. CASE r = failsafeOnValidDataFailed(s)
  <2>1. r = [s EXCEPT !.failed = 0, !.linkUp = s.linkUp /\ s.received <= FailurePeriod,
                      !.disabled = s.disabled \cup {"RX_FAILSAFE"}]
    BY <1>2 DEF failsafeOnValidDataFailed
  <2>2. s.disabled \cup {"RX_FAILSAFE"} \in SUBSET Flags
        /\ (s.linkUp /\ s.received <= FailurePeriod) \in BOOLEAN
        /\ 0 \in -1..(RecoveryPeriod + 1) /\ s.received \in Int
    BY <1>1 DEF Work, Oldest
  <2>3. /\ r \in Work /\ r.phase = s.phase /\ r.active = s.active
        /\ r.landingIn = s.landingIn /\ r.received = s.received
        /\ r.receivingIn = s.receivingIn /\ r.preset = s.preset
        /\ r.disabled = s.disabled \cup {"RX_FAILSAFE"}
        /\ r.linkUp = (s.linkUp /\ s.received <= FailurePeriod)
    BY <2>1, <2>2 DEF Work
  <2>4. \A flag \in Flags \ {"RX_FAILSAFE"} : flag \in r.disabled <=> flag \in s.disabled
    BY <2>3
  <2>5. "RX_FAILSAFE" \in r.disabled /\ r.received <= s.received
    BY <2>2, <2>3
  <2>6. r.linkUp => r.received <= FailurePeriod
    BY <2>3
  <2> QED BY <2>3, <2>4, <2>5, <2>6
<1>3. CASE r = failsafeOnValidDataReceived(s)
  <2> DEFINE t == IF s.failed = -1
                  THEN [s EXCEPT !.failed = 0, !.disabled = s.disabled \cup {"RX_FAILSAFE"}]
                  ELSE s
             up == t.failed > t.preset
  <2>1. /\ t \in Work /\ t.phase = s.phase /\ t.active = s.active
        /\ t.landingIn = s.landingIn /\ t.linkUp = s.linkUp
        /\ t.receivingIn = s.receivingIn /\ t.preset = s.preset
        /\ \/ t.disabled = s.disabled
           \/ t.disabled = s.disabled \cup {"RX_FAILSAFE"}
    <3>1. s.disabled \cup {"RX_FAILSAFE"} \in SUBSET Flags /\ 0 \in -1..(RecoveryPeriod + 1)
      BY <1>1 DEF Work
    <3> QED BY <3>1 DEF Work
  <2>2. r = [t EXCEPT !.received = 0, !.linkUp = t.linkUp \/ up,
                      !.disabled = IF up THEN t.disabled \ {"RX_FAILSAFE"} ELSE t.disabled]
    BY <1>3 DEF failsafeOnValidDataReceived
  <2>3. up \in BOOLEAN
    OBVIOUS
  <2> HIDE DEF t, up
  <2>4. /\ (IF up THEN t.disabled \ {"RX_FAILSAFE"} ELSE t.disabled) \in SUBSET Flags
        /\ (t.linkUp \/ up) \in BOOLEAN /\ 0 \in 0..Oldest
    BY <2>1, <2>3 DEF Work, Oldest
  <2>5. /\ r \in Work /\ r.phase = s.phase /\ r.active = s.active
        /\ r.landingIn = s.landingIn /\ r.received = 0
        /\ r.receivingIn = s.receivingIn /\ r.preset = s.preset
        /\ r.disabled = IF up THEN t.disabled \ {"RX_FAILSAFE"} ELSE t.disabled
        /\ r.linkUp = (t.linkUp \/ up)
    BY <2>1, <2>2, <2>4 DEF Work
  <2>6. s.received \in 0..Oldest /\ Oldest \in Nat
    BY DEF Work, Oldest
  <2>7. \A flag \in Flags \ {"RX_FAILSAFE"} : flag \in r.disabled <=> flag \in s.disabled
    BY <2>1, <2>5
  <2>8. "RX_FAILSAFE" \notin r.disabled => r.linkUp
    BY <2>1, <2>5
  <2>9. r.received <= s.received /\ r.received <= FailurePeriod
    BY <2>5, <2>6
  <2> QED BY <2>5, <2>7, <2>8, <2>9
<1> QED BY <1>2, <1>3
-----------------------------------------------------------------------------
(* Every action keeps the invariant.                                       *)

LEMMA FramePassInv ==
  ASSUME FailsafeInv, FramePass PROVE FailsafeInv'
<1>1. PICK w \in Switches : FrameArrives(w)
  BY DEF FramePass
<1>2. rcRaw' \in Switches /\ needSignalIn' \in -(SignalRecheck + 1)..SignalTimeout
      /\ rxSignalReceived' /\ rxDataProcessingRequired' /\ rcRaw'.arm \in BOOLEAN
  BY <1>1 DEF FrameArrives, Switches
<1>3. UNCHANGED <<config, failsafeState, armed, disabled, rxTask, stall, savedActive>>
      /\ mayRearm' = (mayRearm \/ ~rcRaw'.arm)
  BY DEF FramePass
<1>4. TypeOK'
  BY <1>2, <1>3 DEF FailsafeInv, TypeOK, rxTask
<1> QED BY <1>3, <1>4 DEF FailsafeInv, RestsInPhase, LinkInv, FlightInv, TaskInv, rxTask

LEMMA FailsafePassInv ==
  ASSUME FailsafeInv, FailsafePass PROVE FailsafeInv'
<1> DEFINE f == failsafeState
           left == IF needSignalIn < -SignalRecheck THEN needSignalIn ELSE needSignalIn - 1
<1>1. PICK s, in, t : Pass(s, in, t)
  BY FailsafePasses
<1>2. t \in Work /\ Store(t)
  BY <1>1 DEF Pass, RoundInv
<1>3. /\ f' \in [phase : Phases, linkUp : BOOLEAN, received : 0..Oldest,
                 failed : -1..(RecoveryPeriod + 1), throttleLowIn : -1..ThrottleLowDelay,
                 landingIn : -1..LandingTime, receivingIn : -1..RecoveryPeriod,
                 preset : {0, RecoveryPeriod}, boxWasOn : BOOLEAN, active : BOOLEAN]
      /\ f'.phase = t.phase /\ f'.linkUp = t.linkUp /\ f'.received = t.received
      /\ f'.landingIn = t.landingIn /\ disabled' = t.disabled /\ disabled' \in SUBSET Flags
  BY <1>2, StoreKeeps
<1>4. armed' = t.armed /\ armed' \in BOOLEAN
  BY <1>1, <1>2 DEF Pass, Work
<1>5. UNCHANGED <<config, rxTask, savedActive>>
  BY DEF FailsafePass
<1>6. TypeOK'
  <2>1. left \in -(SignalRecheck + 1)..SignalTimeout
    BY DEF FailsafeInv, TypeOK
  <2>2. /\ needSignalIn' \in -(SignalRecheck + 1)..SignalTimeout
        /\ rxSignalReceived' \in BOOLEAN /\ rxDataProcessingRequired' \in BOOLEAN
        /\ rcRaw' \in Switches
    <3>1. CASE NoFrame(left)
      <4>1. SignalRecheck \in Nat /\ SignalTimeout \in Nat /\ SignalRecheck <= SignalTimeout
        OBVIOUS
      <4>2. left + SignalRecheck \in -(SignalRecheck + 1)..SignalTimeout \/ ~Over(left)
        BY <2>1, <4>1 DEF Over
      <4> HIDE DEF left
      <4> QED BY <2>1, <3>1, <4>2 DEF NoFrame, FailsafeInv, TypeOK
    <3>2. CASE \E w \in Switches : FrameArrives(w)
      BY <3>2 DEF FrameArrives
    <3> QED BY <3>1, <3>2 DEF FailsafePass, rxFrameCheck
  <2>3. stall' \in 0..(RecoveryPeriod + 1)
    BY DEF FailsafePass, FailsafeInv, TypeOK, Younger
  <2>4. mayRearm' \in BOOLEAN
    BY <1>1 DEF Pass, FailsafeInv, TypeOK, Switches
  <2> QED BY <1>3, <1>4, <1>5, <2>2, <2>3, <2>4 DEF FailsafeInv, TypeOK, rxTask
<1>7. /\ Keeps(t, s) /\ Disarms(t, in) /\ Lands(t, in) /\ Blocks(t, s, in) /\ ~t.again
      /\ s.linkUp => s.received <= FailurePeriod
      /\ "RX_FAILSAFE" \notin s.disabled => s.linkUp
      /\ disabled \subseteq s.disabled
      /\ in.receiving => s.linkUp
  BY <1>1 DEF Pass, RoundInv
<1>8. RestsInPhase'
  BY <1>3, <1>4, <1>7 DEF RestsInPhase, Disarms, Resting, Blocked
<1>9. LinkInv'
  BY <1>3, <1>7 DEF LinkInv, Keeps, Flags
<1>10. FlightInv'
  <2>1. armed' /\ t.phase = "IDLE" => t.received <= FailurePeriod
    BY <1>4, <1>7 DEF Disarms, Lands, Keeps
  <2>2. t.phase = "LANDING" =>
         /\ config.procedure = "AUTO_LANDING" /\ t.landingIn >= 0
         /\ t.received <= FailurePeriod + 1 + (LandingTime - t.landingIn)
    BY <1>7 DEF Lands
  <2>3. t.phase = "GPS_RESCUE" => config.procedure = "GPS_RESCUE"
    BY <1>7 DEF Lands
  <2>4. armed' \/ t.phase \in {"LANDING", "GPS_RESCUE"} => "FAILSAFE" \notin disabled'
    BY <1>3, <1>4, <1>7 DEF Blocks, Blocked
  <2> QED BY <1>3, <1>5, <2>1, <2>2, <2>3, <2>4 DEF FlightInv
<1>11. TaskInv'
  <2>1. "RX_FAILSAFE" \in disabled => "RX_FAILSAFE" \in disabled'
    BY <1>3, <1>7 DEF Keeps, Flags
  <2> QED BY <1>5, <2>1 DEF FailsafeInv, TaskInv, rxTask
<1> QED BY <1>6, <1>8, <1>9, <1>10, <1>11 DEF FailsafeInv

LEMMA processRxInv ==
  ASSUME FailsafeInv, processRx PROVE FailsafeInv'
<1> DEFINE f == failsafeState
<1>1. PICK valid \in BOOLEAN :
        /\ valid => ~modes.failsafe
        /\ rxFlightChannelsValid' = valid
        /\ detectAndApplySignalLossBehaviour(valid)
        /\ Store(IF valid THEN failsafeOnValidDataReceived(Loaded)
                 ELSE failsafeOnValidDataFailed(Loaded))
  BY DEF processRx, FailsafeInv, TypeOK
<1> DEFINE l == Loaded
           r == IF valid THEN failsafeOnValidDataReceived(l) ELSE failsafeOnValidDataFailed(l)
<1>2. /\ l \in Work /\ l.phase = f.phase /\ l.active = f.active /\ l.armed = armed
      /\ l.linkUp = f.linkUp /\ l.disabled = disabled /\ l.received = f.received
      /\ l.landingIn = f.landingIn
  BY LoadedKeeps DEF FailsafeInv
<1>3. ~valid => "RX_FAILSAFE" \in r.disabled
  BY <1>2 DEF failsafeOnValidDataFailed, Work
<1> HIDE DEF l
<1>4. /\ r \in Work /\ r.phase = f.phase /\ r.active = f.active
      /\ r.landingIn = f.landingIn /\ r.received <= f.received
      /\ \A flag \in Flags \ {"RX_FAILSAFE"} : flag \in r.disabled <=> flag \in disabled
      /\ "RX_FAILSAFE" \notin r.disabled => r.linkUp
      /\ r.linkUp => r.received <= FailurePeriod
  BY <1>2, DataKeeps DEF FailsafeInv, LinkInv
<1>5. Store(r)
  BY <1>1 DEF l
<1> HIDE DEF r
<1>6. /\ f' \in [phase : Phases, linkUp : BOOLEAN, received : 0..Oldest,
                 failed : -1..(RecoveryPeriod + 1), throttleLowIn : -1..ThrottleLowDelay,
                 landingIn : -1..LandingTime, receivingIn : -1..RecoveryPeriod,
                 preset : {0, RecoveryPeriod}, boxWasOn : BOOLEAN, active : BOOLEAN]
      /\ f'.phase = r.phase /\ f'.linkUp = r.linkUp /\ f'.received = r.received
      /\ f'.landingIn = r.landingIn /\ disabled' = r.disabled /\ disabled' \in SUBSET Flags
  BY <1>4, <1>5, StoreKeeps
<1>7. /\ rxState' = "MODES" /\ stall' = 0 /\ throttleLow' \in BOOLEAN
      /\ rxDataProcessingRequired' = FALSE
      /\ UNCHANGED <<config, armed, needSignalIn, rxSignalReceived, rcRaw, modes, hadRx,
                     rcDisarmTicks, mayRearm, savedActive>>
  BY DEF processRx
<1>8. rcData' \in Switches
  <2>1. ArmFailValue \subseteq BOOLEAN
    OBVIOUS
  <2>2. rcRaw \in Switches /\ rcData \in Switches
    BY DEF FailsafeInv, TypeOK
  <2>3. failsafeValues \subseteq Switches
    BY <2>1, <2>2 DEF failsafeValues, Switches
  <2> QED BY <1>1, <2>2, <2>3 DEF detectAndApplySignalLossBehaviour
<1>9. TypeOK'
  <2>1. /\ (rxSignalReceived \in BOOLEAN)' /\ (rxDataProcessingRequired \in BOOLEAN)'
        /\ (rxFlightChannelsValid \in BOOLEAN)' /\ (throttleLow \in BOOLEAN)'
        /\ (hadRx \in BOOLEAN)' /\ (mayRearm \in BOOLEAN)' /\ (savedActive \in BOOLEAN)'
    BY <1>1, <1>7 DEF FailsafeInv, TypeOK
  <2>3. stall' \in 0..(RecoveryPeriod + 1)
    BY <1>7
  <2>4. {rcRaw, rcData, modes}' \subseteq Switches
    BY <1>7, <1>8 DEF FailsafeInv, TypeOK
  <2>2. /\ (config \in Configs)' /\ (armed \in BOOLEAN)'
        /\ (needSignalIn \in -(SignalRecheck + 1)..SignalTimeout)'
        /\ (rcDisarmTicks \in 0..(DisarmTicks + 1))'
    BY <1>7 DEF FailsafeInv, TypeOK
  <2> QED BY <1>6, <1>7, <2>1, <2>2, <2>3, <2>4 DEF TypeOK
<1>10. "FAILSAFE" \in disabled' <=> "FAILSAFE" \in disabled
  BY <1>4, <1>6 DEF Flags
<1>11. RestsInPhase'
  BY <1>4, <1>6, <1>7, <1>10 DEF FailsafeInv, RestsInPhase
<1>12. LinkInv'
  BY <1>4, <1>6 DEF LinkInv
<1>13. FlightInv'
  <2>1. f.received \in Int /\ r.received \in Int /\ f.landingIn \in Int
    BY <1>4 DEF FailsafeInv, TypeOK, Work, Oldest
  <2> QED BY <1>4, <1>6, <1>7, <1>10, <2>1 DEF FailsafeInv, FlightInv
<1>14. TaskInv'
  BY <1>1, <1>3, <1>6, <1>7 DEF TaskInv
<1> QED BY <1>9, <1>11, <1>12, <1>13, <1>14 DEF FailsafeInv

\* What the failsafe blocks, no part of the RX task arms.
LEMMA ModesTaken ==
  ASSUME FailsafeInv, processRxModes
  PROVE  /\ disabled' \in SUBSET Flags /\ hadRx' \in BOOLEAN /\ armed' \in BOOLEAN
         /\ rcDisarmTicks' \in 0..(DisarmTicks + 1)
         /\ \A flag \in {"FAILSAFE", "RX_FAILSAFE"} : flag \in disabled' <=> flag \in disabled
         /\ ~modes.arm => UNCHANGED disabled
         /\ modes.arm =>
              IF armed THEN armed' /\ UNCHANGED disabled
              ELSE /\ disabled' = {} \/ "ARM_SWITCH" \in disabled'
                   /\ "ARM_SWITCH" \in disabled \/ modes.failsafe
                        => "ARM_SWITCH" \in disabled'
         /\ ~armed /\ armed' => modes.arm /\ disabled' = {}
<1>1. armed \in BOOLEAN /\ disabled \in SUBSET Flags /\ hadRx \in BOOLEAN /\ TypeOK
      /\ rcDisarmTicks \in 0..(DisarmTicks + 1)
  BY DEF FailsafeInv, TypeOK
<1> DEFINE SameBlocks ==
      \A flag \in {"FAILSAFE", "RX_FAILSAFE"} : flag \in disabled' <=> flag \in disabled
<1>2. CASE modes.arm
  <2>1. updateArmingStatus /\ armed' \in {armed, armed \/ disabled' = {}}
        /\ rcDisarmTicks' = 0
    BY <1>2 DEF processRxModes, tryArm
  <2>2. /\ disabled' \in SUBSET Flags /\ hadRx' \in BOOLEAN /\ SameBlocks
        /\ armed => UNCHANGED disabled
        /\ ~armed => /\ disabled' = {} \/ "ARM_SWITCH" \in disabled'
                     /\ "ARM_SWITCH" \in disabled \/ modes.failsafe
                          => "ARM_SWITCH" \in disabled'
    BY <1>1, <1>2, <2>1, ArmingFlags
  <2>3. armed' \in BOOLEAN /\ (armed => armed') /\ (armed' => armed \/ disabled' = {})
    BY <1>1, <2>1
  <2>4. rcDisarmTicks' \in 0..(DisarmTicks + 1)
    BY <2>1
  <2> HIDE DEF SameBlocks
  <2>5. CASE armed
    BY <1>2, <2>2, <2>3, <2>4, <2>5 DEF SameBlocks
  <2>6. CASE ~armed
    BY <1>2, <2>2, <2>3, <2>4, <2>6 DEF SameBlocks
  <2> QED BY <2>5, <2>6
<1>3. CASE ~modes.arm
  <2>1. Disarm
    BY <1>3 DEF processRxModes
  <2>2. UNCHANGED <<disabled, hadRx>> /\ (armed' => armed) /\ armed' \in BOOLEAN
    BY <1>1, <2>1 DEF Disarm
  <2>3. rcDisarmTicks' \in 0..(DisarmTicks + 1)
    BY <1>1, <2>1 DEF Disarm, Younger
  <2>4. disabled' \in SUBSET Flags /\ hadRx' \in BOOLEAN /\ UNCHANGED disabled /\ SameBlocks
    BY <1>1, <2>2
  <2> QED BY <1>3, <2>2, <2>3, <2>4
<1> QED BY <1>2, <1>3

LEMMA processRxModesInv ==
  ASSUME FailsafeInv, processRxModes PROVE FailsafeInv'
<1>1. /\ disabled' \in SUBSET Flags /\ hadRx' \in BOOLEAN /\ armed' \in BOOLEAN
      /\ rcDisarmTicks' \in 0..(DisarmTicks + 1)
      /\ \A flag \in {"FAILSAFE", "RX_FAILSAFE"} : flag \in disabled' <=> flag \in disabled
      /\ armed' => armed \/ disabled' = {}
  BY ModesTaken
<1>2. /\ modes' = rcData /\ rxState' = "UPDATE" /\ stall' = 0
      /\ UNCHANGED <<config, failsafeState, radio, rxFlightChannelsValid, rcData,
                     throttleLow, mayRearm, savedActive>>
  BY DEF processRxModes
<1>3. TypeOK'
  BY <1>1, <1>2 DEF FailsafeInv, TypeOK, radio
<1> QED BY <1>1, <1>2, <1>3 DEF FailsafeInv, RestsInPhase, LinkInv, FlightInv, TaskInv

LEMMA RxUpdateInv ==
  ASSUME FailsafeInv, RxUpdate PROVE FailsafeInv'
<1>1. /\ disabled' \in SUBSET Flags /\ hadRx' \in BOOLEAN
      /\ \A flag \in {"FAILSAFE", "RX_FAILSAFE"} : flag \in disabled' <=> flag \in disabled
  BY ArmingFlags DEF RxUpdate, FailsafeInv
<1>2. /\ rxState = "UPDATE" /\ rxState' = "CHECK" /\ stall' = 0
      /\ UNCHANGED <<config, failsafeState, armed, radio, rxFlightChannelsValid, rcData,
                     modes, throttleLow, rcDisarmTicks, mayRearm, savedActive>>
  BY DEF RxUpdate
<1>3. TypeOK'
  BY <1>1, <1>2 DEF FailsafeInv, TypeOK, radio
<1> QED BY <1>1, <1>2, <1>3 DEF FailsafeInv, RestsInPhase, LinkInv, FlightInv, TaskInv

LEMMA saveConfigInv ==
  ASSUME FailsafeInv, saveConfig PROVE FailsafeInv'
<1>1. /\ ~armed
      /\ failsafeState' = [phase |-> "IDLE", linkUp |-> TRUE, received |-> 0, failed |-> -1,
                           throttleLowIn |-> -1, landingIn |-> -1, receivingIn |-> -1,
                           preset |-> RecoveryPeriod, boxWasOn |-> FALSE,
                           active |-> failsafeState.active]
      /\ UNCHANGED <<config, armed, disabled, radio, rxTask, stall, mayRearm>>
  BY DEF saveConfig, failsafeReset
<1>2. failsafeState.active \in BOOLEAN
  BY DEF FailsafeInv, TypeOK
<1>3. failsafeState' \in
        [phase : Phases, linkUp : BOOLEAN, received : 0..Oldest,
         failed : -1..(RecoveryPeriod + 1), throttleLowIn : -1..ThrottleLowDelay,
         landingIn : -1..LandingTime, receivingIn : -1..RecoveryPeriod,
         preset : {0, RecoveryPeriod}, boxWasOn : BOOLEAN, active : BOOLEAN]
  BY <1>1, <1>2 DEF Phases, Oldest
<1>4. failsafeState'.phase = "IDLE" /\ failsafeState'.linkUp /\ failsafeState'.received = 0
  BY <1>1
<1>5. savedActive' \in BOOLEAN
  BY <1>2 DEF saveConfig, FailsafeInv, TypeOK
<1>6. TypeOK'
  BY <1>1, <1>3, <1>5 DEF FailsafeInv, TypeOK, radio, rxTask
<1> QED BY <1>1, <1>4, <1>6 DEF FailsafeInv, RestsInPhase, LinkInv, FlightInv, TaskInv,
                                radio, rxTask

LEMMA StutterInv ==
  ASSUME FailsafeInv, UNCHANGED vars PROVE FailsafeInv'
<1>1. UNCHANGED <<config, failsafeState, armed, disabled, radio, rxTask, stall, mayRearm,
                  savedActive>>
  BY DEF vars
<1>2. TypeOK'
  BY <1>1 DEF FailsafeInv, TypeOK, radio, rxTask
<1> QED BY <1>1, <1>2 DEF FailsafeInv, RestsInPhase, LinkInv, FlightInv, TaskInv, rxTask

LEMMA StepInv == FailsafeInv /\ [Next]_vars => FailsafeInv'
BY FramePassInv, FailsafePassInv, processRxInv, processRxModesInv, RxUpdateInv,
   saveConfigInv, StutterInv DEF Next, taskUpdateRxMain

LEMMA Invariance == Spec => []FailsafeInv
BY InitInv, StepInv, PTL DEF Spec
-----------------------------------------------------------------------------
(* The theorems on the state, and on the time in flight without a link.    *)

\* Every variable keeps its type: the link's age, its timers and the disarm
\* count stay within their bounds.
THEOREM TypeCorrect == Spec => []TypeOK
BY Invariance, PTL DEF FailsafeInv

\* The do-while of failsafeUpdateState always ends, in a phase that waits; while
\* it monitors the link, it has disarmed and arming is blocked.
THEOREM FailsafeRests == Spec => []RestsInPhase
BY Invariance, PTL DEF FailsafeInv

\* After a pass of the failsafe without valid data for the stage 1 period the
\* system is disarmed, or has been landing for at most the landing time, however
\* the pass meets the RX task.
THEOREM LossIsDisarmed == Spec => LossDisarms
<1>1. FailsafeInv /\ FailsafeInv' /\ [Next]_vars =>
        [FailsafePass /\ armed' /\ config.procedure # "GPS_RESCUE" =>
           failsafeState'.received <= FailurePeriod
             + IF config.procedure = "AUTO_LANDING" THEN LandingTime + 1 ELSE 0]_vars
  <2> SUFFICES ASSUME FailsafeInv', FailsafePass, armed',
                      config.procedure # "GPS_RESCUE"
               PROVE  failsafeState'.received <= FailurePeriod
                        + IF config.procedure = "AUTO_LANDING" THEN LandingTime + 1 ELSE 0
    OBVIOUS
  <2> DEFINE f == failsafeState'
  <2>1. f.received \in 0..Oldest /\ f.landingIn \in -1..LandingTime
    BY DEF FailsafeInv, TypeOK
  <2>2. f.phase \in {"IDLE", "LANDING", "GPS_RESCUE"}
    BY DEF FailsafeInv, RestsInPhase
  <2>3. config' = config
    BY DEF FailsafePass
  <2>4. CASE f.phase = "IDLE"
    <3>1. f.received <= FailurePeriod
      BY <2>4 DEF FailsafeInv, FlightInv
    <3> QED BY <2>1, <3>1 DEF Oldest
  <2>5. CASE f.phase = "LANDING"
    <3>1. /\ config.procedure = "AUTO_LANDING" /\ f.landingIn >= 0
          /\ f.received <= FailurePeriod + 1 + (LandingTime - f.landingIn)
      BY <2>3, <2>5 DEF FailsafeInv, FlightInv
    <3> QED BY <2>1, <3>1 DEF Oldest
  <2>6. f.phase # "GPS_RESCUE"
    BY <2>3 DEF FailsafeInv, FlightInv
  <2> QED BY <2>2, <2>4, <2>5, <2>6
<1> QED BY <1>1, Invariance, PTL DEF Spec, LossDisarms

-----------------------------------------------------------------------------
(* Arming only with the link, unless failsafe values turn the arm switch on. *)

\* While the failsafe is active and has not disarmed, it turned active armed:
\* should it be disarmed now, the switch still on is latched, or will be before
\* it can arm, for failsafe values never turn it on.
ActiveInv ==
  failsafeState.active /\ "FAILSAFE" \notin disabled =>
    CASE rxState = "CHECK"  -> ~armed /\ modes.arm => "ARM_SWITCH" \in disabled
      [] rxState = "MODES"  ->
           /\ rcData.arm /\ ~modes.arm => "RX_FAILSAFE" \in disabled
           /\ ~armed /\ modes.arm => "ARM_SWITCH" \in disabled
      [] rxState = "UPDATE" ->
           ~armed /\ modes.arm => "ARM_SWITCH" \in disabled \/ "RX_FAILSAFE" \in disabled

LEMMA InitActive == Init => ActiveInv
BY DEF Init, ActiveInv, failsafeReset, NoSwitch

LEMMA PassActive ==
  ASSUME FailsafeInv, FailsafePass, ActiveInv PROVE ActiveInv'
<1>1. PICK s, in, t : Pass(s, in, t)
  BY FailsafePasses
<1>2. /\ failsafeState'.active = t.active /\ disabled' = t.disabled /\ armed' = t.armed
      /\ UNCHANGED <<rxState, rcData, modes>>
  BY <1>1, StoreKeeps DEF Pass, RoundInv, FailsafePass, rxTask
<1>3. /\ Disarms(t, in) /\ Blocks(t, s, in) /\ ~t.again
      /\ s.active = failsafeState.active /\ in.armed = armed
      /\ "RX_FAILSAFE" \notin s.disabled => s.linkUp
      /\ in.receiving = (s.linkUp /\ ~(modes.failsafe /\ config.switchMode = "STAGE2"))
      /\ in.box = modes.failsafe
      /\ "FAILSAFE" \in s.disabled <=> "FAILSAFE" \in disabled
  BY <1>1 DEF Pass, RoundInv
<1>4. \A flag \in {"RX_FAILSAFE", "ARM_SWITCH"} :
        /\ flag \in disabled' <=> flag \in s.disabled
        /\ flag \in disabled => flag \in disabled'
  BY <1>1, <1>2 DEF Pass, RoundInv, Keeps, Flags
<1>5. rxState \in {"CHECK", "MODES", "UPDATE"} /\ armed \in BOOLEAN
  BY DEF FailsafeInv, TypeOK
<1>6. SUFFICES ASSUME t.active, "FAILSAFE" \notin t.disabled
               PROVE  ActiveInv'
  BY <1>2 DEF ActiveInv
<1>7. CASE failsafeState.active /\ "FAILSAFE" \notin disabled
  <2>1. armed => armed'
    BY <1>2, <1>3, <1>6 DEF Disarms, Blocked
  <2> QED BY <1>2, <1>4, <1>5, <1>7, <2>1 DEF ActiveInv
<1>8. CASE t.armed /\ (~in.receiving \/ in.box)
  <2>1. rxState = "MODES" => "RX_FAILSAFE" \in disabled'
    <3>1. CASE modes.failsafe
      BY <1>4, <3>1 DEF FailsafeInv, TaskInv
    <3>2. CASE ~modes.failsafe
      BY <1>3, <1>4, <1>8, <3>2
    <3> QED BY <3>1, <3>2
  <2> QED BY <1>2, <1>5, <1>8, <2>1 DEF ActiveInv
<1> QED BY <1>3, <1>6, <1>7, <1>8 DEF Blocks, Blocked

LEMMA processRxActive ==
  ASSUME FailsafeInv, processRx, ActiveInv, ArmFailValue # {TRUE} PROVE ActiveInv'
<1>1. PICK valid \in BOOLEAN :
        /\ valid => ~modes.failsafe
        /\ detectAndApplySignalLossBehaviour(valid)
        /\ Store(IF valid THEN failsafeOnValidDataReceived(Loaded)
                 ELSE failsafeOnValidDataFailed(Loaded))
  BY DEF processRx, FailsafeInv, TypeOK
<1> DEFINE l == Loaded
           r == IF valid THEN failsafeOnValidDataReceived(l) ELSE failsafeOnValidDataFailed(l)
<1>2. l \in Work /\ l.active = failsafeState.active /\ l.linkUp = failsafeState.linkUp
      /\ l.disabled = disabled /\ l.received = failsafeState.received
  BY LoadedKeeps DEF FailsafeInv
<1>3. ~valid => "RX_FAILSAFE" \in r.disabled
  BY <1>2 DEF failsafeOnValidDataFailed, Work
<1> HIDE DEF l
<1>4. /\ r \in Work /\ r.active = failsafeState.active
      /\ \A flag \in Flags \ {"RX_FAILSAFE"} : flag \in r.disabled <=> flag \in disabled
  BY <1>2, DataKeeps DEF FailsafeInv, LinkInv
<1>5. Store(r)
  BY <1>1 DEF l
<1> HIDE DEF r
<1>6. /\ failsafeState'.active = failsafeState.active
      /\ \A flag \in {"FAILSAFE", "ARM_SWITCH"} : flag \in disabled' <=> flag \in disabled
      /\ ~valid => "RX_FAILSAFE" \in disabled'
  BY <1>3, <1>4, <1>5, StoreKeeps DEF Flags
<1>7. rxState = "CHECK" /\ rxState' = "MODES" /\ UNCHANGED <<armed, modes>>
  BY DEF processRx
<1>8. modes = rcData /\ rcData.arm \in BOOLEAN /\ modes.failsafe \in BOOLEAN
      /\ rcRaw \in Switches /\ rcData \in Switches
  BY <1>7 DEF FailsafeInv, TaskInv, TypeOK, Switches
<1>9. failsafeState.active /\ rcData'.arm => modes.arm \/ "RX_FAILSAFE" \in disabled'
  <2> SUFFICES ASSUME failsafeState.active, ~modes.failsafe, rcData'.arm PROVE modes.arm
    BY <1>1, <1>6
  <2>1. rcData' \in failsafeValues
    BY <1>1 DEF detectAndApplySignalLossBehaviour
  <2>2. CASE ArmFailValue = {}
    BY <1>8, <2>1, <2>2 DEF failsafeValues
  <2>3. CASE ArmFailValue = {FALSE}
    <3>1. rcData' = [rcData EXCEPT !.arm = FALSE]
      BY <2>1, <2>3 DEF failsafeValues
    <3> QED BY <1>8, <3>1 DEF Switches
  <2> QED BY <2>2, <2>3
<1> QED BY <1>6, <1>7, <1>9 DEF ActiveInv

LEMMA StepActive ==
  ASSUME FailsafeInv, ActiveInv, [Next]_vars, ArmFailValue # {TRUE} PROVE ActiveInv'
<1> DEFINE f == failsafeState
<1>1. rxState \in {"CHECK", "MODES", "UPDATE"} /\ armed \in BOOLEAN
  BY DEF FailsafeInv, TypeOK
<1>2. CASE FramePass
  BY <1>2 DEF FramePass, ActiveInv, rxTask
<1>3. CASE processRxModes
  <2>1. /\ \A flag \in {"FAILSAFE", "RX_FAILSAFE"} : flag \in disabled' <=> flag \in disabled
        /\ ~modes.arm => UNCHANGED disabled
        /\ modes.arm =>
             IF armed THEN armed'
             ELSE "ARM_SWITCH" \in disabled => "ARM_SWITCH" \in disabled'
    BY <1>3, ModesTaken
  <2>2. rxState = "MODES" /\ rxState' = "UPDATE" /\ modes' = rcData /\ UNCHANGED f
    BY <1>3 DEF processRxModes
  <2> QED BY <1>1, <2>1, <2>2 DEF ActiveInv
<1>4. CASE RxUpdate
  <2>1. /\ \A flag \in {"FAILSAFE", "RX_FAILSAFE"} : flag \in disabled' <=> flag \in disabled
        /\ ~armed /\ modes.arm => disabled' = {} \/ "ARM_SWITCH" \in disabled'
        /\ ~armed /\ modes.arm /\ "ARM_SWITCH" \in disabled => "ARM_SWITCH" \in disabled'
    BY <1>4, ArmingFlags DEF RxUpdate, FailsafeInv
  <2>2. rxState = "UPDATE" /\ rxState' = "CHECK" /\ UNCHANGED <<f, armed, modes>>
    BY <1>4 DEF RxUpdate
  <2> QED BY <1>1, <2>1, <2>2 DEF ActiveInv
<1>5. CASE saveConfig
  <2>1. UNCHANGED <<armed, disabled, rxState, rcData, modes>> /\ f'.active = f.active
    BY <1>5 DEF saveConfig, failsafeReset, rxTask
  <2> QED BY <2>1 DEF ActiveInv
<1>6. CASE UNCHANGED vars
  BY <1>6 DEF vars, rxTask, ActiveInv
<1> QED BY <1>2, <1>3, <1>4, <1>5, <1>6, PassActive, processRxActive DEF Next, taskUpdateRxMain

\* It arms only with the link up and the failsafe over, whatever the order of
\* radio, failsafe and RX task, if the failsafe value of the arm channel is not
\* "on" (Betaflight holds the channel).
THEOREM ArmingNeedsLink ==
  ASSUME ArmFailValue # {TRUE}
  PROVE  Spec => ArmsOnlyWithLink
<1>1. FailsafeInv /\ ActiveInv /\ [Next]_vars =>
        [~armed /\ armed' => failsafeState.linkUp /\ ~failsafeState.active]_vars
  <2> SUFFICES ASSUME FailsafeInv, ActiveInv, Next, ~armed, armed'
               PROVE  failsafeState.linkUp /\ ~failsafeState.active
    OBVIOUS
  <2>1. ~FailsafePass
    <3> SUFFICES ASSUME FailsafePass PROVE FALSE
      OBVIOUS
    <3>1. PICK s, in, t : Pass(s, in, t)
      BY FailsafePasses
    <3> QED BY <3>1 DEF Pass, RoundInv, Disarms
  <2>2. processRxModes
    BY <2>1 DEF Next, taskUpdateRxMain, FramePass, processRx, RxUpdate, saveConfig
  <2>3. /\ modes.arm /\ disabled' = {}
        /\ \A flag \in {"FAILSAFE", "RX_FAILSAFE"} : flag \in disabled' <=> flag \in disabled
        /\ "ARM_SWITCH" \in disabled => "ARM_SWITCH" \in disabled'
    BY <2>2, ModesTaken
  <2>4. rxState = "MODES"
    BY <2>2 DEF processRxModes
  <2> QED BY <2>3, <2>4 DEF FailsafeInv, LinkInv, ActiveInv
<1>2. Init /\ [][Next]_vars /\ []FailsafeInv => []ActiveInv
  <2>1. FailsafeInv /\ ActiveInv /\ [Next]_vars => ActiveInv'
    BY StepActive
  <2> QED BY InitActive, <2>1, PTL
<1> QED BY <1>1, <1>2, Invariance, PTL DEF Spec, ArmsOnlyWithLink
-----------------------------------------------------------------------------
(* After the failsafe disarmed, rearming takes the switch to be off, if     *)
(* failsafe values do not turn the switch off.                             *)

\* Until the switch is seen off it is on in all three places, and latched, or
\* about to be: what disarmed still blocks arming.  The recovery period cannot
\* be over before the part of the RX task that latches.
RearmInv ==
  LET f == failsafeState IN
  ~mayRearm =>
    /\ ~armed /\ rcRaw.arm /\ rcData.arm /\ modes.arm
    /\ \/ "ARM_SWITCH" \in disabled \/ modes.failsafe
       \/ /\ "FAILSAFE" \in disabled
          /\ f.phase = "RX_LOSS_MONITORING" =>
               /\ f.preset = RecoveryPeriod
               /\ IF rxState = "CHECK" THEN ~f.linkUp /\ f.receivingIn = RecoveryPeriod
                  ELSE f.receivingIn + stall >= RecoveryPeriod

LEMMA PassRearm ==
  ASSUME FailsafeInv, FailsafePass, RearmInv PROVE RearmInv'
<1> DEFINE f == failsafeState
<1>1. PICK s, in, t : Pass(s, in, t)
  BY FailsafePasses
<1>2. /\ f'.phase = t.phase /\ f'.linkUp = t.linkUp /\ disabled' = t.disabled
      /\ f'.receivingIn = t.receivingIn /\ f'.preset = t.preset
      /\ armed' = t.armed /\ UNCHANGED <<rxState, rcData, modes>>
  BY <1>1, StoreKeeps DEF Pass, RoundInv, FailsafePass, rxTask
<1>3. /\ Disarms(t, in) /\ Blocks(t, s, in) /\ Waits(t, s, in) /\ ~t.again
      /\ t.linkUp = s.linkUp
      /\ in.armed = armed /\ in.box = modes.failsafe /\ s.phase = f.phase
      /\ in.receiving = (s.linkUp /\ ~(modes.failsafe /\ config.switchMode = "STAGE2"))
      /\ s.linkUp => f.linkUp
      /\ s.preset = f.preset /\ s.receivingIn >= f.receivingIn - 1
      /\ "FAILSAFE" \in s.disabled <=> "FAILSAFE" \in disabled
  BY <1>1 DEF Pass, RoundInv, Keeps
<1>4. ~mayRearm' => /\ rcRaw'.arm /\ stall' <= RecoveryPeriod
                     /\ IF armed /\ ~t.armed
                        THEN rcRaw.arm /\ rcData.arm /\ modes.arm /\ t.preset # 0
                        ELSE ~mayRearm
  <2>1. stall' \in Int /\ RecoveryPeriod \in Int
    BY DEF FailsafePass, FailsafeInv, TypeOK, Younger
  <2> QED BY <1>1, <2>1 DEF Pass
<1>5. "ARM_SWITCH" \in disabled => "ARM_SWITCH" \in disabled'
  BY <1>1, <1>2 DEF Pass, RoundInv, Keeps, Flags
<1>6. /\ modes.failsafe \in BOOLEAN /\ s.linkUp \in BOOLEAN /\ armed \in BOOLEAN
      /\ t.preset \in {0, RecoveryPeriod} /\ f.receivingIn \in Int
      /\ s.receivingIn \in Int /\ t.receivingIn \in Int /\ stall \in Nat
      /\ rxState \in {"CHECK", "MODES", "UPDATE"}
  BY <1>1 DEF FailsafeInv, TypeOK, Switches, Pass, RoundInv, Work
<1>7. stall' \in Nat /\ (rxState # "CHECK" /\ stall' <= RecoveryPeriod => stall' = stall + 1)
  BY <1>6 DEF FailsafePass, Younger
<1> DEFINE Waiting == /\ t.preset = RecoveryPeriod
                      /\ IF rxState = "CHECK"
                         THEN ~t.linkUp /\ t.receivingIn = RecoveryPeriod
                         ELSE t.receivingIn + stall' >= RecoveryPeriod
<1>8. SUFFICES ASSUME ~mayRearm'
               PROVE  /\ ~t.armed /\ rcData.arm /\ modes.arm
                      /\ \/ "ARM_SWITCH" \in disabled' \/ modes.failsafe
                         \/ /\ "FAILSAFE" \in t.disabled
                            /\ t.phase = "RX_LOSS_MONITORING" => Waiting
  BY <1>2, <1>4 DEF RearmInv
<1>9. CASE armed /\ ~t.armed
  <2>1. t.phase = "RX_LOSS_MONITORING" /\ "FAILSAFE" \in t.disabled
        /\ (in.box \/ ~in.receiving) /\ t.receivingIn = t.preset
    BY <1>3, <1>9 DEF Disarms, Blocks, Waits, Blocked
  <2>2. rcData.arm /\ modes.arm /\ t.preset = RecoveryPeriod
    BY <1>4, <1>6, <1>8, <1>9
  <2>3. ~modes.failsafe => ~t.linkUp
    BY <1>3, <1>6, <2>1
  <2>4. t.receivingIn + stall' >= RecoveryPeriod
    BY <1>7, <2>1, <2>2
  <2> QED BY <1>9, <2>1, <2>2, <2>3, <2>4
<1>10. CASE ~(armed /\ ~t.armed)
  <2>1. ~mayRearm
    BY <1>4, <1>8, <1>10
  <2>2. ~armed /\ ~t.armed /\ rcData.arm /\ modes.arm
    BY <1>3, <2>1 DEF RearmInv, Disarms
  <2>3. CASE "ARM_SWITCH" \in disabled \/ modes.failsafe
    BY <1>5, <2>2, <2>3
  <2>4. CASE ~("ARM_SWITCH" \in disabled \/ modes.failsafe)
    <3>1. /\ "FAILSAFE" \in disabled
          /\ f.phase = "RX_LOSS_MONITORING" =>
               /\ f.preset = RecoveryPeriod
               /\ IF rxState = "CHECK" THEN ~f.linkUp /\ f.receivingIn = RecoveryPeriod
                  ELSE f.receivingIn + stall >= RecoveryPeriod
      BY <2>1, <2>4 DEF RearmInv
    <3>2. f.phase \in {"IDLE", "RX_LOSS_MONITORING"}
      BY <3>1 DEF FailsafeInv, RestsInPhase, FlightInv
    <3>3. CASE f.phase = "IDLE"
      <4>1. t.phase = "IDLE" /\ t.disabled = s.disabled
        BY <1>3, <2>2, <3>3 DEF Blocks
      <4> QED BY <1>3, <2>2, <3>1, <4>1
    <3>4. CASE f.phase = "RX_LOSS_MONITORING"
      <4>1. rxState = "CHECK" => ~in.receiving
        BY <1>3, <1>6, <3>1, <3>4
      <4>2. rxState # "CHECK" => s.receivingIn + stall' >= RecoveryPeriod
        BY <1>3, <1>4, <1>6, <1>7, <1>8, <3>1, <3>4
      <4>3. ~(in.receiving /\ Over(s.receivingIn))
        BY <1>4, <1>6, <1>7, <1>8, <4>1, <4>2 DEF Over
      <4>4. /\ t.phase = "RX_LOSS_MONITORING" /\ t.disabled = s.disabled
            /\ t.preset = RecoveryPeriod
            /\ t.receivingIn = RecoveryPeriod \/ (t.receivingIn = s.receivingIn /\ in.receiving)
        BY <1>3, <2>2, <3>1, <3>4, <4>3 DEF Waits
      <4>5. Waiting
        BY <1>3, <1>6, <1>7, <3>1, <3>4, <4>1, <4>2, <4>4
      <4> HIDE DEF Waiting
      <4> QED BY <1>3, <2>2, <3>1, <4>4, <4>5
    <3> QED BY <3>2, <3>3, <3>4
  <2> QED BY <2>3, <2>4
<1> QED BY <1>9, <1>10

LEMMA processRxRearm ==
  ASSUME FailsafeInv, processRx, RearmInv, ArmFailValue # {FALSE} PROVE RearmInv'
<1> DEFINE f == failsafeState
<1>1. PICK valid \in BOOLEAN :
        /\ detectAndApplySignalLossBehaviour(valid)
        /\ Store(IF valid THEN failsafeOnValidDataReceived(Loaded)
                 ELSE failsafeOnValidDataFailed(Loaded))
  BY DEF processRx, FailsafeInv, TypeOK
<1> DEFINE l == Loaded
           r == IF valid THEN failsafeOnValidDataReceived(l) ELSE failsafeOnValidDataFailed(l)
<1>2. /\ l \in Work /\ l.linkUp = f.linkUp /\ l.phase = f.phase
      /\ l.disabled = disabled /\ l.received = f.received
      /\ l.receivingIn = f.receivingIn /\ l.preset = f.preset
  BY LoadedKeeps DEF FailsafeInv
<1> HIDE DEF l
<1>3. /\ r \in Work /\ r.phase = f.phase
      /\ r.receivingIn = f.receivingIn /\ r.preset = f.preset
      /\ \A flag \in Flags \ {"RX_FAILSAFE"} : flag \in r.disabled <=> flag \in disabled
  BY <1>2, DataKeeps DEF FailsafeInv, LinkInv
<1>4. Store(r)
  BY <1>1 DEF l
<1> HIDE DEF r
<1>5. /\ f'.phase = f.phase /\ f'.receivingIn = f.receivingIn /\ f'.preset = f.preset
      /\ \A flag \in {"FAILSAFE", "ARM_SWITCH"} : flag \in disabled' <=> flag \in disabled
  BY <1>3, <1>4, StoreKeeps DEF Flags
<1>6. /\ rxState = "CHECK" /\ rxState' = "MODES" /\ stall' = 0
      /\ UNCHANGED <<armed, modes, rcRaw, mayRearm>>
  BY DEF processRx
<1>7. rcRaw.arm /\ rcData.arm => rcData'.arm
  <2> SUFFICES ASSUME rcRaw.arm, rcData.arm PROVE rcData'.arm
    OBVIOUS
  <2>1. rcRaw \in Switches /\ rcData \in Switches
    BY DEF FailsafeInv, TypeOK
  <2>2. CASE ArmFailValue = {}
    BY <1>1, <2>2 DEF detectAndApplySignalLossBehaviour, failsafeValues
  <2>3. CASE ArmFailValue = {TRUE}
    <3>1. rcData' \in {rcRaw, rcData, [rcRaw EXCEPT !.arm = TRUE], [rcData EXCEPT !.arm = TRUE]}
      BY <1>1, <2>3 DEF detectAndApplySignalLossBehaviour, failsafeValues
    <3> QED BY <2>1, <3>1 DEF Switches
  <2> QED BY <2>2, <2>3
<1>8. f.receivingIn = RecoveryPeriod => f.receivingIn + 0 >= RecoveryPeriod
  OBVIOUS
<1> QED BY <1>5, <1>6, <1>7, <1>8 DEF RearmInv

LEMMA StepRearm ==
  ASSUME FailsafeInv, RearmInv, [Next]_vars, ArmFailValue # {FALSE}
  PROVE  RearmInv'
<1> DEFINE f == failsafeState
<1>1. CASE FramePass
  <2>1. \E w \in Switches : rcRaw' = w
    BY <1>1 DEF FramePass, FrameArrives
  <2> QED BY <1>1, <2>1 DEF FramePass, RearmInv, rxTask, Switches
<1>2. CASE processRxModes
  <2>1. /\ ~armed /\ modes.arm =>
             /\ disabled' = {} \/ "ARM_SWITCH" \in disabled'
             /\ "ARM_SWITCH" \in disabled \/ modes.failsafe => "ARM_SWITCH" \in disabled'
        /\ "FAILSAFE" \in disabled' <=> "FAILSAFE" \in disabled
        /\ ~armed /\ armed' => disabled' = {}
    BY <1>2, ModesTaken
  <2>2. rxState = "MODES" /\ modes' = rcData /\ UNCHANGED <<rcRaw, rcData, mayRearm>>
    BY <1>2 DEF processRxModes, radio
  <2> QED BY <2>1, <2>2 DEF RearmInv
<1>3. CASE RxUpdate
  <2>1. /\ ~armed /\ modes.arm =>
             /\ disabled' = {} \/ "ARM_SWITCH" \in disabled'
             /\ "ARM_SWITCH" \in disabled \/ modes.failsafe => "ARM_SWITCH" \in disabled'
        /\ "FAILSAFE" \in disabled' <=> "FAILSAFE" \in disabled
    BY <1>3, ArmingFlags DEF RxUpdate, FailsafeInv
  <2>2. UNCHANGED <<armed, modes, rcRaw, rcData, mayRearm>>
    BY <1>3 DEF RxUpdate, radio
  <2> QED BY <2>1, <2>2 DEF RearmInv
<1>4. CASE saveConfig
  <2>1. UNCHANGED <<armed, disabled, rxState, rcRaw, rcData, modes, mayRearm>>
        /\ f'.phase = "IDLE"
    BY <1>4 DEF saveConfig, failsafeReset, rxTask, radio
  <2> QED BY <2>1 DEF RearmInv
<1>5. CASE UNCHANGED vars
  BY <1>5 DEF vars, rxTask, radio, RearmInv
<1> QED BY <1>1, <1>2, <1>3, <1>4, <1>5, PassRearm, processRxRearm DEF Next, taskUpdateRxMain

\* After the failsafe disarmed, it never arms with the switch simply left on,
\* whichever passes come between the parts of an RX update, if lost frames do
\* not turn the switch off.  A failsafe that recovers at once and an update held
\* up for more than the recovery period are the cases mayRearm leaves out.
THEOREM RearmingNeedsSwitchOff ==
  ASSUME ArmFailValue # {FALSE}
  PROVE  Spec => RearmNeedsSwitchOff
<1>1. Init => RearmInv
  BY DEF Init, RearmInv
<1>2. FailsafeInv /\ RearmInv /\ [Next]_vars => RearmInv'
  BY StepRearm
<1>3. FailsafeInv /\ RearmInv /\ [Next]_vars => [~armed /\ armed' => mayRearm]_vars
  <2> SUFFICES ASSUME FailsafeInv, RearmInv, Next, ~armed, armed' PROVE mayRearm
    OBVIOUS
  <2>1. ~FailsafePass
    <3> SUFFICES ASSUME FailsafePass PROVE FALSE
      OBVIOUS
    <3>1. PICK s, in, t : Pass(s, in, t)
      BY FailsafePasses
    <3> QED BY <3>1 DEF Pass, RoundInv, Disarms
  <2>2. processRxModes
    BY <2>1 DEF Next, taskUpdateRxMain, FramePass, processRx, RxUpdate, saveConfig
  <2>3. /\ modes.arm /\ disabled' = {}
        /\ "FAILSAFE" \in disabled' <=> "FAILSAFE" \in disabled
        /\ "ARM_SWITCH" \in disabled \/ modes.failsafe => "ARM_SWITCH" \in disabled'
    BY <2>2, ModesTaken
  <2> QED BY <2>3 DEF RearmInv
<1> QED BY <1>1, <1>2, <1>3, Invariance, PTL DEF Spec, RearmNeedsSwitchOff
=============================================================================
