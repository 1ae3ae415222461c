----------------------------- MODULE Fifo_proofs -----------------------------
(***************************************************************************)
(* MotorOutput implements CommandFifo, for any ring size, number of        *)
(* repeats, motors and delays: read from the tail, the ring is a queue, to *)
(* which the handlers add at its end, and from which the PID loop sends.   *)
(***************************************************************************)
EXTENDS MotorOutput_proofs, SequenceTheorems

USE DshotAssumption, OutputAssumption

-----------------------------------------------------------------------------
(* The ring, read as a sequence.                                           *)

Count(q)    == (q.head - q.tail) % Slots
Place(q, k) == (q.tail + k - 1) % Slots

Contents(q) ==
  [k \in 1..Count(q) |->
     LET control == q.slots[Place(q, k)]
     IN [command |-> control.command, left |-> control.repeats]]

Item == [command : Frame, left : 0..SettingRepeats]

\* A command stays in the ring with frames left, except at the tail, where it
\* waits for its last delay without any.
Kept(q) ==
  \A k \in 1..Count(q) :
    LET control == q.slots[Place(q, k)] IN
    /\ control.repeats <= SettingRepeats
    /\ control.repeats = 0 <=> control.state = "POSTDELAY"
    /\ k > 1 => control.state # "POSTDELAY"

\* A number less than one turn of the ring away is one addition from its slot.
LEMMA Turn ==
  ASSUME NEW n \in Int, -Slots < n, n < 2 * Slots
  PROVE  n % Slots = IF n < 0 THEN n + Slots ELSE IF n < Slots THEN n ELSE n - Slots
<1>1. Slots \in Nat \ {0}
  OBVIOUS
<1>2. CASE n < 0
  BY <1>1, <1>2
<1>3. CASE n >= 0 /\ n < Slots
  BY <1>1, <1>3
<1>4. CASE n >= Slots
  BY <1>1, <1>4
<1> QED BY <1>2, <1>3, <1>4

LEMMA CountValue ==
  ASSUME NEW q \in Ring
  PROVE  /\ q.head \in 0..(Slots - 1) /\ q.tail \in 0..(Slots - 1)
         /\ Count(q) = IF q.head < q.tail THEN q.head - q.tail + Slots
                       ELSE q.head - q.tail
         /\ Count(q) \in 0..(Slots - 1)
<1>1. q.head \in 0..(Slots - 1) /\ q.tail \in 0..(Slots - 1)
  BY DEF Ring, Slot
<1>2. q.head - q.tail \in Int /\ -Slots < q.head - q.tail /\ q.head - q.tail < Slots
  BY <1>1
<1>3. Count(q) = IF q.head - q.tail < 0 THEN q.head - q.tail + Slots ELSE q.head - q.tail
  BY <1>2, Turn DEF Count
<1> QED BY <1>1, <1>3

LEMMA PlaceValue ==
  ASSUME NEW q \in Ring, NEW k \in 1..Slots
  PROVE  /\ Place(q, k) = IF q.tail + k - 1 < Slots THEN q.tail + k - 1
                          ELSE q.tail + k - 1 - Slots
         /\ Place(q, k) \in Slot
<1>1. q.tail \in 0..(Slots - 1)
  BY CountValue
<1>2. Place(q, k) = IF q.tail + k - 1 < Slots THEN q.tail + k - 1 ELSE q.tail + k - 1 - Slots
  BY <1>1, Turn DEF Place
<1> QED BY <1>1, <1>2 DEF Slot

\* What the tests on the ring say of the number of its commands.
LEMMA RingTests ==
  ASSUME NEW q \in Ring
  PROVE  /\ dshotCommandQueueEmpty(q) <=> Count(q) = 0
         /\ dshotCommandQueueFull(q) <=> Count(q) = Slots - 1
         /\ isLastDshotCommand(q) <=> Count(q) = 1
<1>1. q.head \in Slot /\ q.tail \in Slot
  BY DEF Ring
<1>2. /\ Succ(q.head) = IF q.head = Slots - 1 THEN 0 ELSE q.head + 1
      /\ Succ(q.tail) = IF q.tail = Slots - 1 THEN 0 ELSE q.tail + 1
  BY <1>1, SuccValue
<1> QED BY <1>2, CountValue DEF dshotCommandQueueEmpty, dshotCommandQueueFull,
                              isLastDshotCommand

LEMMA ContentsSeq ==
  ASSUME NEW q \in Ring, Kept(q)
  PROVE  /\ Contents(q) \in Seq(Item) /\ Len(Contents(q)) = Count(q)
         /\ \A k \in 1..Count(q) :
              /\ Contents(q)[k] = [command |-> q.slots[Place(q, k)].command,
                                   left |-> q.slots[Place(q, k)].repeats]
              /\ Contents(q)[k] \in Item
<1> DEFINE At(k) == [command |-> q.slots[Place(q, k)].command,
                     left |-> q.slots[Place(q, k)].repeats]
<1>1. Count(q) \in 0..(Slots - 1)
  BY CountValue
<1>2. ASSUME NEW k \in 1..Count(q) PROVE At(k) \in Item
  <2>1. Place(q, k) \in Slot
    BY <1>1, PlaceValue
  <2>2. q.slots[Place(q, k)] \in dshotCommandControl_t
    BY <2>1 DEF Ring
  <2> QED BY <2>2 DEF dshotCommandControl_t, Item, Kept
<1>3. Contents(q) = [k \in 1..Count(q) |-> At(k)]
  BY DEF Contents
<1> HIDE DEF At
<1>4. Contents(q) \in Seq(Item)
  BY <1>1, <1>2, <1>3, IsASeq
<1>5. Len(Contents(q)) = Count(q)
  BY <1>1, <1>3, <1>4, LenProperties
<1> QED BY <1>2, <1>3, <1>4, <1>5 DEF At
-----------------------------------------------------------------------------
(* Adding commands.                                                        *)

\* r holds what q held, in its order, and more behind it.
Grows(q, r) ==
  /\ r \in Ring /\ Kept(r) /\ Count(q) <= Count(r)
  /\ \A k \in 1..Count(q) : Contents(r)[k] = Contents(q)[k]
  /\ \A k \in (Count(q) + 1)..Count(r) : Contents(r)[k].left > 0

LEMMA GrowsSelf == ASSUME NEW q \in Ring, Kept(q) PROVE Grows(q, q)
<1>1. Count(q) \in Int
  BY CountValue
<1> QED BY <1>1 DEF Grows

LEMMA GrowsOn ==
  ASSUME NEW p \in Ring, NEW q, NEW r, Grows(p, q), Grows(q, r) PROVE Grows(p, r)
<1>1. Count(p) \in Int /\ Count(q) \in Int /\ Count(r) \in Int
  BY CountValue DEF Grows
<1>2. ASSUME NEW k \in 1..Count(p) PROVE Contents(r)[k] = Contents(p)[k]
  BY <1>1 DEF Grows
<1>3. ASSUME NEW k \in (Count(p) + 1)..Count(r) PROVE Contents(r)[k].left > 0
  <2>1. CASE k <= Count(q)
    <3>1. Contents(r)[k] = Contents(q)[k]
      BY <1>1, <2>1, CountValue DEF Grows
    <3> QED BY <1>1, <2>1, <3>1 DEF Grows
  <2>2. CASE k > Count(q)
    BY <1>1, <2>2 DEF Grows
  <2> QED BY <1>1, <2>1, <2>2
<1> QED BY <1>1, <1>2, <1>3 DEF Grows

LEMMA AddGrows ==
  ASSUME NEW q \in Ring, Kept(q), NEW val, NEW index, NEW c \in Commands
  PROVE  Grows(q, addCommand(q, val, index, c))
<1> DEFINE r == addCommand(q, val, index, c)
           n == Count(q)
           new == NewControl(val, index, c)
<1>1. CASE dshotCommandQueueFull(q)
  BY <1>1, GrowsSelf DEF addCommand
<1>2. CASE ~dshotCommandQueueFull(q)
  <2>1. r \in Ring
    BY AddType
  <2>2. /\ r.head = Succ(q.head) /\ r.tail = q.tail
        /\ r.slots = [q.slots EXCEPT ![q.head] = new]
    BY <1>2 DEF addCommand, Ring
  <2> HIDE DEF r, new
  <2>3. /\ q.head \in 0..(Slots - 1) /\ q.tail \in 0..(Slots - 1)
        /\ n = IF q.head < q.tail THEN q.head - q.tail + Slots ELSE q.head - q.tail
        /\ n \in 0..(Slots - 1) /\ n # Slots - 1
    BY <1>2, CountValue, RingTests
  <2>4. Count(r) = n + 1
    <3>1. r.head = IF q.head = Slots - 1 THEN 0 ELSE q.head + 1
      BY <2>2, <2>3, SuccValue DEF Slot
    <3>2. Count(r) = IF r.head < r.tail THEN r.head - r.tail + Slots ELSE r.head - r.tail
      BY <2>1, CountValue
    <3> QED BY <2>2, <2>3, <3>1, <3>2
  <2> HIDE DEF n
  <2>5. ASSUME NEW k \in 1..n
        PROVE  Place(r, k) = Place(q, k) /\ r.slots[Place(q, k)] = q.slots[Place(q, k)]
    <3>1. Place(r, k) = Place(q, k)
      BY <2>2 DEF Place
    <3>2. /\ Place(q, k) = IF q.tail + k - 1 < Slots THEN q.tail + k - 1
                           ELSE q.tail + k - 1 - Slots
          /\ Place(q, k) \in Slot
      BY <2>3, PlaceValue
    <3>3. Place(q, k) # q.head
      BY <2>3, <3>2
    <3> QED BY <2>2, <3>1, <3>2, <3>3 DEF Ring
  <2>6. r.slots[Place(r, n + 1)] = new
    <3>1. Place(r, n + 1) = Place(q, n + 1)
      BY <2>2 DEF Place
    <3>2. Place(q, n + 1) = IF q.tail + n < Slots THEN q.tail + n ELSE q.tail + n - Slots
      BY <2>3, PlaceValue
    <3>3. Place(q, n + 1) = q.head
      BY <2>3, <3>2
    <3> QED BY <2>2, <3>1, <3>3 DEF Ring
  <2>7. new.repeats \in 1..SettingRepeats /\ new.state # "POSTDELAY"
    BY DEF new, NewControl, Repeats
  <2>8. Kept(r)
    <3> SUFFICES ASSUME NEW k \in 1..(n + 1)
                 PROVE  LET control == r.slots[Place(r, k)] IN
                        /\ control.repeats <= SettingRepeats
                        /\ control.repeats = 0 <=> control.state = "POSTDELAY"
                        /\ k > 1 => control.state # "POSTDELAY"
      BY <2>4 DEF Kept
    <3>1. CASE k \in 1..n
      BY <2>5, <3>1 DEF Kept, n
    <3>2. CASE k = n + 1
      BY <2>6, <2>7, <3>2
    <3> QED BY <2>3, <3>1, <3>2
  <2>9. ASSUME NEW k \in 1..n PROVE Contents(r)[k] = Contents(q)[k]
    <3>1. k \in 1..Count(q) /\ k \in 1..Count(r)
      BY <2>3, <2>4 DEF n
    <3>2. Contents(q)[k] = [command |-> q.slots[Place(q, k)].command,
                            left |-> q.slots[Place(q, k)].repeats]
      BY <3>1, ContentsSeq
    <3>3. Contents(r)[k] = [command |-> r.slots[Place(r, k)].command,
                            left |-> r.slots[Place(r, k)].repeats]
      BY <2>1, <2>8, <3>1, ContentsSeq
    <3> QED BY <2>5, <3>2, <3>3
  <2>10. ASSUME NEW k \in (n + 1)..(n + 1) PROVE Contents(r)[k].left > 0
    <3>1. k = n + 1 /\ k \in 1..Count(r)
      BY <2>3, <2>4
    <3>2. Contents(r)[k] = [command |-> r.slots[Place(r, k)].command,
                            left |-> r.slots[Place(r, k)].repeats]
      BY <2>1, <2>8, <3>1, ContentsSeq
    <3>3. Contents(r)[k].left = new.repeats
      BY <2>6, <3>1, <3>2
    <3> QED BY <2>7, <3>3
  <2> QED BY <2>1, <2>3, <2>4, <2>8, <2>9, <2>10 DEF Grows, n, r
<1> QED BY <1>1, <1>2

LEMMA WriteGrows ==
  ASSUME NEW p \in Ring, NEW q, Grows(p, q), NEW index, NEW c \in Commands
  PROVE  Grows(p, dshotCommandWrite(q, index, c))
<1>1. q \in Ring /\ Kept(q)
  BY DEF Grows
<1>2. Grows(q, addCommand(q, value, index, c))
  BY <1>1, AddGrows
<1> QED BY <1>2, GrowsOn DEF dshotCommandWrite

-----------------------------------------------------------------------------
(* The steps of CommandFifo.                                               *)

\* A handler that only adds to the ring accepts commands.
LEMMA GrowsAccepts ==
  ASSUME queue \in Ring, Kept(queue), Grows(queue, queue'), UNCHANGED <<lastFrame, blocking>>,
         ~blocking.on
  PROVE  [Fifo!Next]_(Fifo!vars)
<1> DEFINE s == Contents(queue)
           t == Contents(queue')
<1>1. Pending = s /\ Pending' = t
  BY DEF Pending, Contents, Count, Place
<1>2. /\ s \in Seq(Item) /\ Len(s) = Count(queue)
      /\ t \in Seq(Item) /\ Len(t) = Count(queue')
      /\ \A k \in 1..Len(t) : t[k] \in Item
  BY ContentsSeq DEF Grows
<1>3. /\ Len(s) <= Len(t)
      /\ \A k \in 1..Len(s) : t[k] = s[k]
      /\ \A k \in (Len(s) + 1)..Len(t) : t[k].left > 0
  BY <1>2 DEF Grows
<1>4. Len(s) \in Nat /\ Len(t) \in 0..(Slots - 1)
  BY <1>2, CountValue DEF Grows
<1> HIDE DEF s, t
<1>5. CASE Len(s) = Len(t)
  <2>1. s = t
    BY <1>2, <1>3, <1>5, SeqEqual
  <2> QED BY <1>1, <2>1 DEF Fifo!vars
<1>6. CASE Len(s) < Len(t)
  <2>1. SubSeq(t, 1, Len(s)) = s
    <3>1. /\ SubSeq(t, 1, Len(s)) \in Seq(Item)
          /\ Len(SubSeq(t, 1, Len(s))) = Len(s)
          /\ \A k \in 1..Len(s) : SubSeq(t, 1, Len(s))[k] = t[k]
      BY <1>2, <1>4, <1>6, SubSeqProperties
    <3> QED BY <1>2, <1>3, <3>1, SeqEqual
  <2>2. Len(t) \in (Len(s) + 1)..(Slots - 1)
    BY <1>4, <1>6
  <2>3. \A k \in (Len(s) + 1)..Len(t) : t[k] \in Item /\ t[k].left > 0
    BY <1>2, <1>3, <1>4
  <2>4. Fifo!Accept
    BY <1>1, <2>1, <2>2, <2>3 DEF Fifo!Accept, Fifo!Pending, Item
  <2> QED BY <2>4 DEF Fifo!Next
<1> QED BY <1>3, <1>4, <1>5, <1>6
-----------------------------------------------------------------------------
(* One frame of the command at the tail.                                   *)

\* The first command of the queue is the one at the tail.
LEMMA FirstCurrent ==
  ASSUME NEW q \in Ring, Kept(q), Count(q) > 0
  PROVE  /\ 1 \in 1..Count(q) /\ Place(q, 1) = q.tail
         /\ Contents(q)[1] = [command |-> Current(q).command, left |-> Current(q).repeats]
         /\ Current(q).repeats <= SettingRepeats
         /\ Current(q).repeats = 0 <=> Current(q).state = "POSTDELAY"
<1>1. 1 \in 1..Count(q) /\ 1 \in 1..Slots /\ q.tail \in 0..(Slots - 1)
  BY CountValue
<1>2. Place(q, 1) = q.tail
  BY <1>1, PlaceValue
<1>3. Contents(q)[1] = [command |-> q.slots[Place(q, 1)].command,
                        left |-> q.slots[Place(q, 1)].repeats]
  BY <1>1, ContentsSeq
<1>4. LET control == q.slots[Place(q, 1)] IN
      /\ control.repeats <= SettingRepeats
      /\ control.repeats = 0 <=> control.state = "POSTDELAY"
  BY <1>1 DEF Kept
<1> QED BY <1>1, <1>2, <1>3, <1>4 DEF Current

\* A new control at the tail changes the first command only.
LEMMA TailWritten ==
  ASSUME NEW q \in Ring, Kept(q), Count(q) > 0, NEW control \in dshotCommandControl_t,
         control.repeats <= SettingRepeats,
         control.repeats = 0 <=> control.state = "POSTDELAY"
  PROVE  LET r == [q EXCEPT !.slots[q.tail] = control] IN
         /\ r \in Ring /\ Kept(r) /\ Count(r) = Count(q)
         /\ Contents(r)[1] = [command |-> control.command, left |-> control.repeats]
         /\ \A k \in 2..Count(q) : Contents(r)[k] = Contents(q)[k]
<1> DEFINE r == [q EXCEPT !.slots[q.tail] = control]
<1>1. /\ r \in Ring /\ r.head = q.head /\ r.tail = q.tail
      /\ r.slots = [q.slots EXCEPT ![q.tail] = control]
  BY SlotType DEF Ring
<1> HIDE DEF r
<1>2. /\ Count(r) = Count(q) /\ Count(q) \in 0..(Slots - 1) /\ q.tail \in 0..(Slots - 1)
      /\ \A k : Place(r, k) = Place(q, k)
  BY <1>1, CountValue DEF Count, Place
<1>3. Place(q, 1) = q.tail /\ 1 \in 1..Count(q)
  BY FirstCurrent
<1>4. r.slots[Place(q, 1)] = control
  BY <1>1, <1>3 DEF Ring
<1>5. ASSUME NEW k \in 2..Count(q) PROVE r.slots[Place(q, k)] = q.slots[Place(q, k)]
  <2>1. /\ Place(q, k) = IF q.tail + k - 1 < Slots THEN q.tail + k - 1
                         ELSE q.tail + k - 1 - Slots
        /\ Place(q, k) \in Slot
    BY <1>2, PlaceValue
  <2>2. Place(q, k) # q.tail
    BY <1>2, <2>1
  <2> QED BY <1>1, <2>1, <2>2 DEF Ring
<1>6. Kept(r)
  <2> SUFFICES ASSUME NEW k \in 1..Count(q)
               PROVE  LET c == r.slots[Place(r, k)] IN
                      /\ c.repeats <= SettingRepeats
                      /\ c.repeats = 0 <=> c.state = "POSTDELAY"
                      /\ k > 1 => c.state # "POSTDELAY"
    BY <1>2 DEF Kept
  <2>1. CASE k = 1
    BY <1>2, <1>4, <2>1
  <2>2. CASE k \in 2..Count(q)
    BY <1>2, <1>5, <2>2 DEF Kept
  <2> QED BY <2>1, <2>2
<1>7. Contents(r)[1] = [command |-> control.command, left |-> control.repeats]
  <2>1. Contents(r)[1] = [command |-> r.slots[Place(r, 1)].command,
                          left |-> r.slots[Place(r, 1)].repeats]
    BY <1>1, <1>2, <1>3, <1>6, ContentsSeq
  <2> QED BY <1>2, <1>4, <2>1
<1>8. ASSUME NEW k \in 2..Count(q) PROVE Contents(r)[k] = Contents(q)[k]
  <2>1. k \in 1..Count(q) /\ k \in 1..Count(r)
    BY <1>2
  <2>2. Contents(q)[k] = [command |-> q.slots[Place(q, k)].command,
                          left |-> q.slots[Place(q, k)].repeats]
    BY <2>1, ContentsSeq
  <2>3. Contents(r)[k] = [command |-> r.slots[Place(r, k)].command,
                          left |-> r.slots[Place(r, k)].repeats]
    BY <1>1, <1>6, <2>1, ContentsSeq
  <2> QED BY <1>2, <1>5, <2>2, <2>3
<1> QED BY <1>1, <1>2, <1>6, <1>7, <1>8 DEF r

\* Faking a command there changes what is commanded first, if anything is.
LEMMA OverwriteKeeps ==
  ASSUME NEW q \in Ring, Kept(q), NEW frame \in Frame
  PROVE  LET r == [q EXCEPT !.slots[q.tail].command = frame] IN
         /\ Kept(r)
         /\ Contents(r) = IF Contents(q) = <<>> THEN Contents(q)
                          ELSE [Contents(q) EXCEPT ![1].command = frame]
<1> DEFINE r == [q EXCEPT !.slots[q.tail].command = frame]
           control == [Current(q) EXCEPT !.command = frame]
<1>1. /\ r \in Ring /\ r.head = q.head /\ r.tail = q.tail
      /\ r.slots = [q.slots EXCEPT ![q.tail] = control]
  BY OverwriteType
<1>2. /\ Current(q) \in dshotCommandControl_t /\ control \in dshotCommandControl_t
      /\ control.command = frame /\ control.repeats = Current(q).repeats
      /\ control.state = Current(q).state
  BY CurrentType DEF dshotCommandControl_t
<1> HIDE DEF control
<1>3. r = [q EXCEPT !.slots[q.tail] = control]
  <2>1. [q EXCEPT !.slots[q.tail] = control] \in Ring /\ q.tail \in Slot
    BY <1>2, SlotType DEF Ring
  <2> QED BY <2>1, <1>1 DEF Ring
<1> HIDE DEF r
<1>4. Contents(q) \in Seq(Item) /\ Len(Contents(q)) = Count(q) /\ Count(q) \in Nat
      /\ Count(r) = Count(q)
  BY <1>1, ContentsSeq, CountValue DEF Count
<1>5. CASE Count(q) = 0
  <2>1. Contents(q) = <<>> /\ 1..0 = {}
    BY <1>4, <1>5, EmptySeq
  <2>2. Kept(r)
    BY <2>1, <1>4, <1>5 DEF Kept
  <2>3. Contents(r) \in Seq(Item) /\ Len(Contents(r)) = 0
    BY <2>2, <1>1, <1>4, <1>5, ContentsSeq
  <2>4. Contents(r) = <<>>
    BY <2>3, EmptySeq
  <2> QED BY <2>1, <2>2, <2>4 DEF r
<1>6. CASE Count(q) > 0
  <2> DEFINE s == Contents(q)
             t == Contents(r)
             first == [s[1] EXCEPT !.command = frame]
             u == [s EXCEPT ![1] = first]
  <2>1. /\ 1 \in 1..Count(q) /\ Current(q).repeats <= SettingRepeats
        /\ Current(q).repeats = 0 <=> Current(q).state = "POSTDELAY"
        /\ s[1] = [command |-> Current(q).command, left |-> Current(q).repeats]
    BY <1>6, FirstCurrent
  <2>2. /\ Kept(r) /\ t[1] = [command |-> frame, left |-> Current(q).repeats]
        /\ \A k \in 2..Count(q) : t[k] = s[k]
    BY <2>1, <1>2, <1>3, <1>6, TailWritten
  <2>3. t \in Seq(Item) /\ Len(t) = Count(q)
    BY <2>2, <1>1, <1>4, ContentsSeq
  <2>4. t[1] = first
    BY <2>1, <2>2
  <2> HIDE DEF s, t, first
  <2>5. s # <<>> /\ s \in Seq(Item) /\ Len(s) = Count(q)
    BY <1>4, <1>6, EmptySeq DEF s
  <2>6. first \in Item
    BY <2>1, <2>3, <2>4, ElementOfSeq
  <2>7. /\ u \in Seq(Item) /\ Len(u) = Len(s)
        /\ \A j \in 1..Len(s) : u[j] = IF j = 1 THEN first ELSE s[j]
    BY <2>1, <2>5, <2>6, ExceptSeq
  <2> HIDE DEF u
  <2>8. ASSUME NEW k \in 1..Count(q) PROVE t[k] = u[k]
    <3>1. k = 1 \/ k \in 2..Count(q)
      BY <1>4
    <3> QED BY <3>1, <2>2, <2>4, <2>5, <2>7 DEF s, t
  <2>9. t = u
    BY <2>3, <2>5, <2>7, <2>8, SeqEqual
  <2> QED BY <2>2, <2>5, <2>9 DEF s, t, u, first, r
<1> QED BY <1>4, <1>5, <1>6

\* When it is done with, the next one is the first.
LEMMA TailMoved ==
  ASSUME NEW q \in Ring, Kept(q), Count(q) > 0
  PROVE  LET rest == [q EXCEPT !.tail = Succ(@)] IN
         /\ rest \in Ring /\ Kept(rest) /\ Count(rest) = Count(q) - 1
         /\ Contents(rest) = Tail(Contents(q))
         /\ Count(rest) > 0 => Current(rest).state # "POSTDELAY"
<1> DEFINE rest == [q EXCEPT !.tail = Succ(@)]
           n == Count(q)
<1>1. /\ q.head \in 0..(Slots - 1) /\ q.tail \in 0..(Slots - 1)
      /\ n = IF q.head < q.tail THEN q.head - q.tail + Slots ELSE q.head - q.tail
      /\ n \in 1..(Slots - 1)
  BY CountValue
<1>2. Succ(q.tail) = IF q.tail = Slots - 1 THEN 0 ELSE q.tail + 1
  BY <1>1, SuccValue DEF Slot
<1>3. /\ rest \in Ring /\ rest.head = q.head /\ rest.tail = Succ(q.tail)
      /\ rest.slots = q.slots
  BY <1>1, SuccSlot DEF Ring, Slot
<1> HIDE DEF rest
<1>4. Count(rest) = n - 1
  <2>1. Count(rest) = IF rest.head < rest.tail THEN rest.head - rest.tail + Slots
                      ELSE rest.head - rest.tail
    BY <1>3, CountValue
  <2> QED BY <1>1, <1>2, <1>3, <2>1
<1>5. ASSUME NEW k \in 1..(n - 1) PROVE Place(rest, k) = Place(q, k + 1)
  <2>1. Place(rest, k) = IF rest.tail + k - 1 < Slots THEN rest.tail + k - 1
                         ELSE rest.tail + k - 1 - Slots
    BY <1>1, <1>3, PlaceValue
  <2>2. Place(q, k + 1) = IF q.tail + k < Slots THEN q.tail + k ELSE q.tail + k - Slots
    BY <1>1, PlaceValue
  <2> QED BY <1>1, <1>2, <1>3, <2>1, <2>2
<1>6. ASSUME NEW k \in 1..(n - 1)
      PROVE  LET c == rest.slots[Place(rest, k)] IN
             /\ c.repeats <= SettingRepeats /\ c.state # "POSTDELAY"
             /\ c.repeats = 0 <=> c.state = "POSTDELAY"
  <2>1. k + 1 \in 1..Count(q) /\ k + 1 > 1
    BY <1>1
  <2> QED BY <1>3, <1>5, <2>1 DEF Kept
<1>7. Kept(rest)
  BY <1>4, <1>6 DEF Kept
<1>8. Contents(rest) = Tail(Contents(q))
  <2> DEFINE s == Contents(q)
             t == Contents(rest)
  <2>1. s \in Seq(Item) /\ Len(s) = n /\ t \in Seq(Item) /\ Len(t) = n - 1
    BY <1>3, <1>4, <1>7, ContentsSeq
  <2>2. s # <<>>
    BY <1>1, <2>1, EmptySeq
  <2>3. /\ Tail(s) \in Seq(Item) /\ Len(Tail(s)) = n - 1
        /\ \A k \in 1..(n - 1) : Tail(s)[k] = s[k + 1]
    BY <2>1, <2>2, HeadTailProperties
  <2>4. ASSUME NEW k \in 1..(n - 1) PROVE t[k] = s[k + 1]
    <3>1. k \in 1..Count(rest) /\ k + 1 \in 1..Count(q)
      BY <1>1, <1>4
    <3>2. t[k] = [command |-> rest.slots[Place(rest, k)].command,
                  left |-> rest.slots[Place(rest, k)].repeats]
      BY <1>3, <1>7, <3>1, ContentsSeq
    <3>3. s[k + 1] = [command |-> q.slots[Place(q, k + 1)].command,
                      left |-> q.slots[Place(q, k + 1)].repeats]
      BY <3>1, ContentsSeq
    <3> QED BY <1>3, <1>5, <3>2, <3>3
  <2> HIDE DEF s, t
  <2>5. t = Tail(s)
    BY <2>1, <2>3, <2>4, SeqEqual
  <2> QED BY <2>5 DEF s, t
<1>9. Count(rest) > 0 => Current(rest).state # "POSTDELAY"
  <2> SUFFICES ASSUME Count(rest) > 0 PROVE Current(rest).state # "POSTDELAY"
    OBVIOUS
  <2>1. Place(rest, 1) = rest.tail /\ 1 \in 1..(n - 1)
    BY <1>3, <1>4, <1>7, FirstCurrent
  <2> QED BY <1>6, <2>1 DEF Current
<1> QED BY <1>3, <1>4, <1>7, <1>8, <1>9 DEF rest
-----------------------------------------------------------------------------
(* What one motor frame does to the queue.                                 *)

LEMMA SameContents ==
  ASSUME NEW q \in Ring, Kept(q), NEW r \in Ring, Kept(r), Count(r) = Count(q),
         \A k \in 1..Count(q) : Contents(r)[k] = Contents(q)[k]
  PROVE  Contents(r) = Contents(q)
<1>1. /\ Contents(q) \in Seq(Item) /\ Len(Contents(q)) = Count(q)
      /\ Contents(r) \in Seq(Item) /\ Len(Contents(r)) = Count(q)
  BY ContentsSeq
<1> QED BY <1>1, SeqEqual

\* A control at the tail that keeps its command and its frames changes nothing.
LEMMA TailKept ==
  ASSUME NEW q \in Ring, Kept(q), Count(q) > 0, NEW control \in dshotCommandControl_t,
         control.command = Current(q).command, control.repeats = Current(q).repeats,
         control.repeats = 0 <=> control.state = "POSTDELAY"
  PROVE  LET r == [q EXCEPT !.slots[q.tail] = control] IN
         r \in Ring /\ Kept(r) /\ Contents(r) = Contents(q)
<1> DEFINE r == [q EXCEPT !.slots[q.tail] = control]
<1>1. /\ Current(q).repeats <= SettingRepeats /\ Count(q) \in 1..(Slots - 1)
      /\ Contents(q)[1] = [command |-> Current(q).command, left |-> Current(q).repeats]
  BY FirstCurrent, CountValue
<1>2. /\ r \in Ring /\ Kept(r) /\ Count(r) = Count(q)
      /\ Contents(r)[1] = [command |-> Current(q).command, left |-> control.repeats]
      /\ \A k \in 2..Count(q) : Contents(r)[k] = Contents(q)[k]
  BY <1>1, TailWritten
<1> HIDE DEF r
<1>3. ASSUME NEW k \in 1..Count(q) PROVE Contents(r)[k] = Contents(q)[k]
  <2>1. k = 1 \/ k \in 2..Count(q)
    BY <1>1
  <2> QED BY <2>1, <1>1, <1>2
<1>4. Contents(r) = Contents(q)
  BY <1>2, <1>3, SameContents
<1> QED BY <1>2, <1>4 DEF r

\* Nothing of the command goes out, ...
Waits(q, done) ==
  /\ done.queue.tail = q.tail
  /\ ~(done.send /\ dshotCommandIsProcessing(q))
  /\ Contents(done.queue) = Contents(q)

\* ... it goes out once more, ...
Sends(q, done) ==
  /\ done.send /\ dshotCommandIsProcessing(q)
  /\ Contents(q)[1].left > 0
  /\ Contents(done.queue) = [Contents(q) EXCEPT ![1].left = @ - 1]

\* ... or it is done with.
Retires(q, done) ==
  /\ done.queue.tail # q.tail
  /\ ~(done.send /\ dshotCommandIsProcessing(q))
  /\ Contents(q)[1].left = 0
  /\ Contents(done.queue) = Tail(Contents(q))

LEMMA WaitKeeps ==
  ASSUME NEW q \in Ring, Kept(q), Count(q) > 0, NEW control \in dshotCommandControl_t,
         NEW mayGo, control.command = Current(q).command,
         control.repeats = Current(q).repeats,
         control.repeats = 0 <=> control.state = "POSTDELAY",
         ~(mayGo /\ dshotCommandIsProcessing(q))
  PROVE  Kept(Outcome(q, control, mayGo).queue) /\ Waits(q, Outcome(q, control, mayGo))
<1>1. /\ Outcome(q, control, mayGo).queue = [q EXCEPT !.slots[q.tail] = control]
      /\ Outcome(q, control, mayGo).queue.tail = q.tail
      /\ Outcome(q, control, mayGo).send = mayGo
  BY DEF Outcome, Ring
<1> QED BY <1>1, TailKept DEF Waits

LEMMA SendKeeps ==
  ASSUME NEW q \in Ring, Kept(q), Count(q) > 0,
         Current(q).state \in {"STARTDELAY", "ACTIVE"}
  PROVE  Kept(SendOnce(q).queue) /\ Sends(q, SendOnce(q))
<1> DEFINE control == Current(q)
           left == (control.repeats - 1) % 256
           delay == IF left > 0 \/ isLastDshotCommand(q)
                    THEN CommandCycles ELSE CommandCycles - 1
           sent == [control EXCEPT !.state = IF left > 0 THEN "ACTIVE" ELSE "POSTDELAY",
                                   !.repeats = left, !.nextCommandCycleDelay = delay]
           r == [q EXCEPT !.slots[q.tail] = sent]
<1>1. /\ control \in dshotCommandControl_t /\ control.repeats \in 0..255
      /\ control.repeats <= SettingRepeats /\ control.repeats # 0
      /\ Contents(q)[1] = [command |-> control.command, left |-> control.repeats]
      /\ Count(q) \in 1..(Slots - 1)
  BY CurrentType, FirstCurrent, CountValue DEF dshotCommandControl_t
<1>2. left = control.repeats - 1
  BY <1>1
<1>3. delay \in Nat /\ left \in 0..255
  BY <1>1, <1>2, CyclesTypes
<1>4. SendOnce(q).queue = r /\ SendOnce(q).send = TRUE
  BY DEF SendOnce, Outcome
<1> HIDE DEF delay, left
<1>5. /\ sent \in dshotCommandControl_t /\ sent.command = control.command
      /\ sent.repeats = left /\ sent.state = IF left > 0 THEN "ACTIVE" ELSE "POSTDELAY"
  BY <1>1, <1>3 DEF dshotCommandControl_t
<1> HIDE DEF sent
<1>6. /\ r \in Ring /\ Kept(r) /\ Count(r) = Count(q)
      /\ Contents(r)[1] = [command |-> control.command, left |-> sent.repeats]
      /\ \A k \in 2..Count(q) : Contents(r)[k] = Contents(q)[k]
  <2>1. sent.repeats = 0 <=> sent.state = "POSTDELAY"
    BY <1>3, <1>5
  <2>2. sent.repeats <= SettingRepeats
    BY <1>1, <1>2, <1>5
  <2> QED BY <2>1, <2>2, <1>5, TailWritten
<1> DEFINE s == Contents(q)
           t == Contents(r)
           u == [s EXCEPT ![1].left = @ - 1]
<1>7. /\ s \in Seq(Item) /\ Len(s) = Count(q) /\ t \in Seq(Item) /\ Len(t) = Count(q)
  BY <1>6, ContentsSeq
<1>8. s[1].left = control.repeats /\ s[1].command = control.command
  BY <1>1
<1>9. t[1] = [s[1] EXCEPT !.left = @ - 1]
  BY <1>1, <1>2, <1>5, <1>6
<1> HIDE DEF s, t, r
<1>10. t = u
  <2> DEFINE first == [s[1] EXCEPT !.left = @ - 1]
  <2>1. u = [s EXCEPT ![1] = first]
    OBVIOUS
  <2>2. first \in Item
    <3>1. 1 \in 1..Len(t)
      BY <1>1, <1>7
    <3>2. t[1] \in Item
      BY <3>1, <1>7, ElementOfSeq
    <3> QED BY <3>2, <1>9
  <2> HIDE DEF first
  <2>3. /\ u \in Seq(Item) /\ Len(u) = Count(q)
        /\ u[1] = first /\ \A k \in 2..Count(q) : u[k] = s[k]
    <3>1. 1 \in 1..Len(s)
      BY <1>1, <1>7
    <3> DEFINE w == [s EXCEPT ![1] = first]
    <3>2. /\ w \in Seq(Item) /\ Len(w) = Len(s)
          /\ \A j \in 1..Len(s) : w[j] = IF j = 1 THEN first ELSE s[j]
      BY <2>2, <3>1, <1>7, ExceptSeq
    <3> HIDE DEF w
    <3>3. w[1] = first
      BY <3>1, <3>2
    <3>4. ASSUME NEW k \in 2..Count(q) PROVE w[k] = s[k]
      <4>1. k \in 1..Len(s) /\ k # 1
        BY <1>1, <1>7
      <4> QED BY <4>1, <3>2
    <3> QED BY <2>1, <3>2, <3>3, <3>4, <1>7 DEF w
  <2>4. ASSUME NEW k \in 1..Count(q) PROVE t[k] = u[k]
    <3>1. k = 1 \/ k \in 2..Count(q)
      BY <1>1
    <3> QED BY <3>1, <2>3, <1>6, <1>9 DEF s, t, first
  <2> QED BY <2>3, <2>4, <1>7, SeqEqual
<1>11. dshotCommandIsProcessing(q)
  BY <1>1, RingTests DEF dshotCommandIsProcessing
<1> QED BY <1>1, <1>4, <1>6, <1>8, <1>10, <1>11 DEF Sends, s, t

LEMMA RetireKeeps ==
  ASSUME NEW q \in Ring, Kept(q), Count(q) > 0, Current(q).state = "POSTDELAY"
  PROVE  Kept(NextCommand(q).queue) /\ Retires(q, NextCommand(q))
<1> DEFINE rest == [q EXCEPT !.tail = Succ(@)]
           next == [Current(rest) EXCEPT !.state = "ACTIVE", !.nextCommandCycleDelay = 0]
<1>1. /\ Contents(q)[1].left = 0 /\ Count(q) \in 1..(Slots - 1)
      /\ ~dshotCommandQueueEmpty(q)
  <2>1. Current(q).repeats = 0
        /\ Contents(q)[1] = [command |-> Current(q).command, left |-> Current(q).repeats]
    BY FirstCurrent
  <2>2. Contents(q)[1].left = 0
    BY <2>1
  <2>3. Count(q) \in 1..(Slots - 1) /\ ~dshotCommandQueueEmpty(q)
    BY CountValue, RingTests
  <2> QED BY <2>2, <2>3
<1>2. /\ rest \in Ring /\ Kept(rest) /\ Count(rest) = Count(q) - 1
      /\ Contents(rest) = Tail(Contents(q))
      /\ Count(rest) > 0 => Current(rest).state # "POSTDELAY"
      /\ rest.tail # q.tail
  <2>1. rest.tail # q.tail
    BY SuccValue DEF Ring, Slot
  <2> QED BY <2>1, TailMoved
<1>3. NextCommand(q) = IF dshotCommandQueueEmpty(rest) THEN [queue |-> rest, send |-> TRUE]
                       ELSE Outcome(rest, next, FALSE)
  BY DEF NextCommand
<1> HIDE DEF rest
<1>4. dshotCommandQueueEmpty(rest) <=> Count(rest) = 0
  BY <1>2, RingTests
<1>5. CASE Count(rest) = 0
  <2>1. isLastDshotCommand(q)
    BY <1>1, <1>2, <1>5, RingTests
  <2>2. ~dshotCommandIsProcessing(q)
    BY <2>1 DEF dshotCommandIsProcessing
  <2>3. NextCommand(q).queue = rest
    BY <1>3, <1>4, <1>5
  <2> QED BY <1>1, <1>2, <2>2, <2>3 DEF Retires
<1>6. CASE Count(rest) > 0
  <2>1. NextCommand(q) = Outcome(rest, next, FALSE)
    <3>1. ~dshotCommandQueueEmpty(rest)
      BY <1>4, <1>6
    <3> QED BY <3>1, <1>3
  <2>2. Current(rest) \in dshotCommandControl_t
    BY <1>2, CurrentType
  <2>3. /\ next \in dshotCommandControl_t /\ next.state = "ACTIVE"
        /\ next.command = Current(rest).command /\ next.repeats = Current(rest).repeats
    BY <2>2 DEF dshotCommandControl_t
  <2>4. next.repeats # 0
    BY <1>2, <1>6, <2>3, FirstCurrent
  <2> HIDE DEF next
  <2>5. Kept(NextCommand(q).queue) /\ Waits(rest, NextCommand(q))
    <3>1. next.repeats = 0 <=> next.state = "POSTDELAY"
      BY <2>3, <2>4
    <3>2. /\ Kept(Outcome(rest, next, FALSE).queue)
          /\ Waits(rest, Outcome(rest, next, FALSE))
      BY <3>1, <1>2, <1>6, <2>3, WaitKeeps
    <3> QED BY <2>1, <3>2
  <2>6. ~NextCommand(q).send
    BY <2>1 DEF Outcome
  <2> QED BY <1>1, <1>2, <2>5, <2>6 DEF Retires, Waits
<1> QED BY <1>1, <1>2, <1>5, <1>6

\* Every motor frame is one of the three.
LEMMA OutputKeeps ==
  ASSUME NEW q \in Ring, Kept(q), Count(q) > 0, NEW val
  PROVE  LET done == dshotCommandOutputIsEnabled(q, val) IN
         /\ Kept(done.queue)
         /\ Waits(q, done) \/ Sends(q, done) \/ Retires(q, done)
<1> DEFINE control == Current(q)
           done == dshotCommandOutputIsEnabled(q, val)
<1>1. /\ control \in dshotCommandControl_t /\ control.nextCommandCycleDelay \in Nat
      /\ control.state \in {"IDLEWAIT", "STARTDELAY", "ACTIVE", "POSTDELAY"}
      /\ control.repeats = 0 <=> control.state = "POSTDELAY"
  BY CurrentType, FirstCurrent DEF dshotCommandControl_t
<1>2. CASE control.state = "IDLEWAIT"
  <2> DEFINE next == IF allMotorsAreIdle(val)
                     THEN [control EXCEPT !.state = "STARTDELAY",
                                          !.nextCommandCycleDelay = InitialCycles]
                     ELSE control
  <2>1. done = Outcome(q, next, TRUE)
    BY <1>2 DEF dshotCommandOutputIsEnabled, IdleWait
  <2>2. /\ next \in dshotCommandControl_t /\ next.command = control.command
        /\ next.repeats = control.repeats /\ next.state # "POSTDELAY"
    BY <1>1, <1>2, CyclesTypes DEF dshotCommandControl_t
  <2>3. ~dshotCommandIsProcessing(q)
    BY <1>2 DEF dshotCommandIsProcessing
  <2> HIDE DEF next, done
  <2>4. Kept(done.queue) /\ Waits(q, done)
    <3>1. next.repeats = 0 <=> next.state = "POSTDELAY"
      BY <1>1, <1>2, <2>2
    <3>2. /\ Kept(Outcome(q, next, TRUE).queue)
          /\ Waits(q, Outcome(q, next, TRUE))
      BY <3>1, <2>2, <2>3, WaitKeeps
    <3> QED BY <2>1, <3>2
  <2> QED BY <2>4 DEF done
<1>3. CASE control.state # "IDLEWAIT" /\ control.nextCommandCycleDelay > 0
  <2> DEFINE next == [control EXCEPT !.nextCommandCycleDelay = @ - 1]
  <2>1. done = Outcome(q, next, FALSE)
    <3>1. done = CountDown(q)
      BY <1>1, <1>3 DEF dshotCommandOutputIsEnabled
    <3> QED BY <3>1, Zenon DEF CountDown
  <2>2. /\ next \in dshotCommandControl_t /\ next.command = control.command
        /\ next.repeats = control.repeats /\ next.state = control.state
    BY <1>1, <1>3 DEF dshotCommandControl_t
  <2> HIDE DEF next, done
  <2>3. Kept(done.queue) /\ Waits(q, done)
    <3>1. next.repeats = 0 <=> next.state = "POSTDELAY"
      BY <1>1, <2>2
    <3>2. /\ Kept(Outcome(q, next, FALSE).queue)
          /\ Waits(q, Outcome(q, next, FALSE))
      BY <3>1, <2>2, WaitKeeps
    <3> QED BY <2>1, <3>2
  <2> QED BY <2>3 DEF done
<1>4. CASE control.state \in {"STARTDELAY", "ACTIVE"}
             /\ control.nextCommandCycleDelay = 0
  <2>1. done = SendOnce(q)
    BY <1>4 DEF dshotCommandOutputIsEnabled
  <2>2. Kept(SendOnce(q).queue) /\ Sends(q, SendOnce(q))
    BY <1>4, SendKeeps
  <2> HIDE DEF done
  <2>3. Kept(done.queue) /\ Sends(q, done)
    BY <2>1, <2>2
  <2> QED BY <2>3 DEF done
<1>5. CASE control.state = "POSTDELAY" /\ control.nextCommandCycleDelay = 0
  <2>1. done = NextCommand(q)
    BY <1>5 DEF dshotCommandOutputIsEnabled
  <2> QED BY <2>1, <1>5, RetireKeeps
<1> QED BY <1>1, <1>2, <1>3, <1>4, <1>5
-----------------------------------------------------------------------------
(* The steps of MotorOutput.                                               *)

\* The PID loop waits, sends or retires, and records what it sends.
LEMMA UpdateImplements ==
  ASSUME queue \in Ring, Kept(queue), NEW out, Write(out), blocking'.on = blocking.on
  PROVE  Kept(queue)' /\ [Fifo!Next]_(Fifo!vars)
<1> DEFINE done == Complete(queue, value')
           s == Contents(queue)
<1>1. /\ Pending = s /\ Pending' = Contents(queue')
      /\ Kept(queue)' <=> Kept(queue')
  BY DEF Pending, Contents, Kept, Count, Place
<1>2. /\ queue' = done.queue
      /\ lastFrame' = IF CommandFrame(queue, done) THEN value'
                      ELSE IF queue'.tail = queue.tail THEN lastFrame ELSE AllStop
      /\ value' = Loaded(queue, out)
  BY DEF Write
<1>3. CASE Count(queue) = 0
  <2>1. dshotCommandQueueEmpty(queue)
    BY <1>3, RingTests
  <2>2. queue' = queue /\ UNCHANGED lastFrame
    BY <2>1, <1>2 DEF Complete, CommandFrame, dshotCommandIsProcessing
  <2> QED BY <2>2, <1>1 DEF Fifo!vars
<1>4. CASE Count(queue) > 0
  <2>1. done = dshotCommandOutputIsEnabled(queue, value')
    BY <1>4, RingTests DEF Complete
  <2> HIDE DEF done
  <2>2. Kept(done.queue) /\ (Waits(queue, done) \/ Sends(queue, done) \/ Retires(queue, done))
    BY <2>1, <1>4, OutputKeeps
  <2>3. s # <<>> /\ Head(s) = s[1]
    <3>1. s \in Seq(Item) /\ Len(s) = Count(queue)
      BY ContentsSeq
    <3> HIDE DEF s
    <3>2. s # <<>>
      BY <3>1, <1>4, EmptySeq
    <3> QED BY <3>1, <3>2, HeadTailProperties
  <2>4. CASE Waits(queue, done)
    <3>1. Pending' = Pending /\ UNCHANGED lastFrame
      BY <2>4, <1>1, <1>2 DEF Waits, CommandFrame
    <3> QED BY <3>1, <2>2, <1>1, <1>2 DEF Fifo!vars
  <2>5. CASE Sends(queue, done)
    <3>1. lastFrame' = Head(s).command
      <4>1. lastFrame' = value' /\ dshotCommandIsProcessing(queue)
        BY <2>5, <1>2 DEF Sends, CommandFrame
      <4>2. value' = Current(queue).command
        BY <4>1, <1>2 DEF Loaded
      <4>3. s[1].command = Current(queue).command
        <5>1. s[1] = [command |-> Current(queue).command, left |-> Current(queue).repeats]
          BY <1>4, FirstCurrent
        <5> HIDE DEF s
        <5> QED BY <5>1
      <4> QED BY <4>1, <4>2, <4>3, <2>3
    <3>2. Head(s).left > 0 /\ Pending' = [s EXCEPT ![1].left = @ - 1]
      BY <2>3, <2>5, <1>1, <1>2 DEF Sends
    <3> HIDE DEF s
    <3>3. Fifo!Send
      BY <3>1, <3>2, <2>3, <1>1 DEF Fifo!Send
    <3> QED BY <3>3, <2>2, <1>1, <1>2 DEF Fifo!Next
  <2>6. CASE Retires(queue, done)
    <3>1. Head(s).left = 0 /\ Pending' = Tail(s) /\ lastFrame' = AllStop
      BY <2>3, <2>6, <1>1, <1>2 DEF Retires, CommandFrame
    <3> HIDE DEF s
    <3>2. Fifo!Retire
      BY <3>1, <2>3, <1>1 DEF Fifo!Retire
    <3> QED BY <3>2, <2>2, <1>1, <1>2 DEF Fifo!Next
  <2> QED BY <2>2, <2>4, <2>5, <2>6
<1>5. Count(queue) \in Nat
  BY CountValue
<1> QED BY <1>3, <1>4, <1>5

\* What a handler hands over is behind what was there.
LEMMA SourcesGrow ==
  ASSUME queue \in Ring, Kept(queue)
  PROVE  /\ Grows(queue, EdtOnArming(queue))
         /\ Grows(queue, dshotCommandWrite(EdtOnArming(queue), Motors, Reversed))
         /\ Grows(queue, dshotCommandWrite(queue, Motors, Normal))
         /\ Grows(queue, dshotCommandWrite(queue, Motors, Beacon))
         /\ \A index \in HostIndexes, c \in HostCommands :
              Grows(queue, dshotCommandWrite(queue, index, c))
<1>1. Grows(queue, queue)
  BY GrowsSelf
<1>2. Grows(queue, EdtOnArming(queue))
  BY <1>1, WriteGrows DEF EdtOnArming
<1> QED BY <1>1, <1>2, WriteGrows

\* A blocking command borrows the first place when it starts, and returns
\* what is then the first place when it ends.
LEMMA BlockingImplements ==
  ASSUME queue \in Ring, Kept(queue), NEW frame \in Frame, UNCHANGED lastFrame,
         queue' = [queue EXCEPT !.slots[queue.tail].command = frame],
         \/ ~blocking.on /\ blocking'.on = TRUE
         \/ blocking.on /\ blocking'.on = FALSE /\ frame = AllStop
  PROVE  Kept(queue)' /\ [Fifo!Next]_(Fifo!vars)
<1>1. /\ Kept(queue')
      /\ Contents(queue') = IF Contents(queue) = <<>> THEN Contents(queue)
                            ELSE [Contents(queue) EXCEPT ![1].command = frame]
  BY OverwriteKeeps
<1>2. /\ Pending = Contents(queue) /\ Pending' = Contents(queue')
      /\ Kept(queue)' <=> Kept(queue')
  BY DEF Pending, Contents, Kept, Count, Place
<1>3. Pending' = Fifo!Overwritten(frame)
  BY <1>1, <1>2 DEF Fifo!Overwritten
<1>4. Fifo!Borrow \/ Fifo!Return
  BY <1>3 DEF Fifo!Borrow, Fifo!Return
<1> QED BY <1>1, <1>2, <1>4 DEF Fifo!Next

KeptInv == TypeOK /\ Kept(queue)

LEMMA KeptInit == Init => KeptInv /\ Fifo!Init
<1> SUFFICES ASSUME Init PROVE KeptInv /\ Fifo!Init
  OBVIOUS
<1>1. TypeOK /\ queue = EmptyRing /\ lastFrame = AllStop
  BY InitInv DEF Init, IInv
<1>2. queue \in Ring /\ dshotCommandQueueEmpty(queue)
  BY <1>1 DEF TypeOK, EmptyRing, dshotCommandQueueEmpty
<1>3. Count(queue) = 0 /\ 1..0 = {}
  BY <1>2, RingTests
<1>4. Kept(queue)
  BY <1>3 DEF Kept
<1>5. Pending = <<>>
  <2>1. Pending = Contents(queue)
    BY DEF Pending, Contents, Count, Place
  <2>2. Contents(queue) \in Seq(Item) /\ Len(Contents(queue)) = 0
    BY <1>2, <1>3, <1>4, ContentsSeq
  <2> QED BY <2>1, <2>2, EmptySeq
<1>6. blocking.on = FALSE
  BY DEF Init, NotBlocking
<1> QED BY <1>1, <1>4, <1>5, <1>6 DEF KeptInv, Fifo!Init

LEMMA KeptNext == KeptInv /\ [Next]_vars => Kept(queue)' /\ [Fifo!Next]_(Fifo!vars)
<1> SUFFICES ASSUME KeptInv, [Next]_vars PROVE Kept(queue)' /\ [Fifo!Next]_(Fifo!vars)
  OBVIOUS
<1> USE DEF outputs, mode, sending, history
<1>1. queue \in Ring /\ Kept(queue) /\ blocking \in BlockingWrite
  BY DEF KeptInv, TypeOK
<1>2. ASSUME Grows(queue, queue'), UNCHANGED <<lastFrame, blocking>>, ~blocking.on
      PROVE  Kept(queue)' /\ [Fifo!Next]_(Fifo!vars)
  <2>1. Kept(queue)' <=> Kept(queue')
    BY DEF Kept, Count, Place
  <2>2. Kept(queue')
    BY <1>2 DEF Grows
  <2> QED BY <2>1, <2>2, <1>1, <1>2, GrowsAccepts
<1>3. ASSUME UNCHANGED <<queue, lastFrame, blocking>>
      PROVE  Kept(queue)' /\ [Fifo!Next]_(Fifo!vars)
  <2>1. Pending' = Pending /\ (Kept(queue)' <=> Kept(queue))
    BY <1>3 DEF Pending, Kept, Count, Place
  <2> QED BY <2>1, <1>1, <1>3 DEF Fifo!vars
<1>4. CASE BlasterTask
  BY <1>3, <1>4 DEF BlasterTask
<1>5. CASE PidLoop
  BY <1>1, <1>5, UpdateImplements DEF PidLoop
<1>6. ASSUME NEW flip \in BOOLEAN, NEW success \in BOOLEAN, updateArmingStatus(flip, success)
      PROVE  Kept(queue)' /\ [Fifo!Next]_(Fifo!vars)
  BY <1>3, <1>6 DEF updateArmingStatus
<1>7. ASSUME NEW flip \in BOOLEAN, NEW success \in BOOLEAN, NEW wanted \in BOOLEAN,
             ~blocking.on, tryArm(flip, success, wanted)
      PROVE  Kept(queue)' /\ [Fifo!Next]_(Fifo!vars)
  BY <1>1, <1>2, <1>7, SourcesGrow DEF tryArm
<1>8. CASE ~blocking.on /\ disarm
  BY <1>1, <1>2, <1>8, SourcesGrow DEF disarm
<1>9. CASE ~blocking.on /\ beeperUpdate
  BY <1>1, <1>2, <1>9, SourcesGrow DEF beeperUpdate
<1>10. CASE SetMotor
  BY <1>3, <1>10 DEF SetMotor
<1>11. CASE ~blocking.on /\ HostCommand
  BY <1>1, <1>2, <1>11, SourcesGrow DEF HostCommand
<1>12. CASE ~blocking.on /\ BlockingStart
  <2>1. PICK index \in HostIndexes, c \in HostCommands :
          IF dshotCommandQueueFull(queue)
          THEN UNCHANGED <<queue, blocking>>
          ELSE /\ queue' = [queue EXCEPT !.slots[queue.tail].command = FrameFor(index, c)]
               /\ blocking' = [on |-> TRUE, frame |-> FrameFor(index, c), left |-> Repeats(c)]
    BY <1>12 DEF BlockingStart
  <2>2. UNCHANGED lastFrame /\ FrameFor(index, c) \in Frame
    BY <1>12, FrameForType DEF BlockingStart
  <2>3. CASE dshotCommandQueueFull(queue)
    BY <2>1, <2>2, <2>3, <1>3
  <2>4. CASE ~dshotCommandQueueFull(queue)
    <3>1. /\ queue' = [queue EXCEPT !.slots[queue.tail].command = FrameFor(index, c)]
          /\ blocking'.on = TRUE
      BY <2>1, <2>4
    <3> QED BY <3>1, <2>2, <1>1, <1>12, BlockingImplements
  <2> QED BY <2>3, <2>4
<1>13. CASE BlockingFrame
  BY <1>1, <1>13, UpdateImplements DEF BlockingFrame, BlockingWrite
<1>14. CASE BlockingEnd
  <2>1. AllStop \in Frame
    BY DEF AllStop, Frame
  <2> QED BY <2>1, <1>1, <1>14, BlockingImplements DEF BlockingEnd, NotBlocking
<1>15. CASE DetectionDelayEnds
  BY <1>3, <1>15 DEF DetectionDelayEnds
<1>16. CASE UNCHANGED vars
  BY <1>3, <1>16 DEF vars
<1> QED BY <1>4, <1>5, <1>6, <1>7, <1>8, <1>9, <1>10, <1>11, <1>12, <1>13, <1>14,
           <1>15, <1>16 DEF Next, Task

\* The ring of inline commands is a queue: none is lost, sent more or less
\* often than it is to be repeated, overtaken, or overwritten by a later one.
\* A blocking command may come between, and takes the place of the first.
THEOREM ImplementsFifo == Spec => KeepsFifo
<1>1. Init => KeptInv /\ Fifo!Init
  BY KeptInit
<1>2. KeptInv /\ TypeOK' /\ [Next]_vars => KeptInv' /\ [Fifo!Next]_(Fifo!vars)
  BY KeptNext DEF KeptInv
<1> QED BY <1>1, <1>2, TypeCorrect, PTL DEF Spec, KeepsFifo, Fifo!Spec
=============================================================================
