----------------------- MODULE JrClockFollower_proofs -----------------------
(***************************************************************************)
(* Proofs about JrClockFollower, for every length of a tick and of a cycle *)
(* of timestamps, every delay and every security offset.                   *)
(***************************************************************************)
EXTENDS JrClockFollower, TLAPS

Senders == [ticks : Nat, ts : 0..Wrap-1]
Records == [phase : {"none", "synced", "lost"}, tick : Nat, least : Nat, most : Nat,
            trusted : BOOLEAN]

\* Before the first clock message there is no jitter, and messages are scheduled
\* as they come.
Unsynced ==
  seen.phase = "none" =>
    /\ jitter = 0
    /\ messageTime <= received
    /\ result <= messageTime + offset

\* Timestamps tell how many ticks passed since the last clock message, up to a
\* cycle; beyond that they tell too few.
CountsTicks ==
  seen.phase = "synced" =>
    /\ seen.tick <= sender.ticks
    /\ Since(sender.ts, clockTs) <= sender.ticks - seen.tick
    /\ sender.ticks - seen.tick < Wrap =>
         Since(sender.ts, clockTs) = sender.ticks - seen.tick

\* No message was scheduled for later than the slowest transport explains.  That
\* bounds what a clock message can take the message time back by.
Bounds ==
  seen.phase = "synced" =>
    /\ seen.least <= seen.most
    /\ seen.trusted => offset >= jitter
    /\ messageTime <= sender.ticks * TickLength + seen.most
    /\ result <= sender.ticks * TickLength + seen.most + offset
    /\ result <= messageTime + jitter + offset

IInv ==
  /\ TypeOK
  /\ seen.phase = "none" <=> clockTime = Zero
  /\ Unsynced
  /\ CountsTicks
  /\ MeasuresTransport
  /\ Bounds

-----------------------------------------------------------------------------
(* Lemmas about ticks and timestamps. *)

\* Ticks add up.
LEMMA TickSums ==
  \A a, b \in Nat : /\ a * TickLength \in Nat
                    /\ (a + b) * TickLength = a * TickLength + b * TickLength
BY FollowerAssumption DEF FollowerAssumption

\* More ticks take longer.
LEMMA TickOrder ==
  \A a, b \in Nat : a <= b => a * TickLength <= b * TickLength
<1> TAKE a, b \in Nat
<1> HAVE a <= b
<1>1. PICK k \in Nat : b = a + k
  <2>1. b - a \in Nat /\ b = a + (b - a)
    OBVIOUS
  <2> QED BY <2>1
<1>2. /\ a * TickLength \in Nat /\ k * TickLength \in Nat
      /\ b * TickLength = a * TickLength + k * TickLength
  BY <1>1, TickSums
<1> QED BY <1>2

\* The difference of timestamps modulo a cycle counts a further gap, unless the
\* cycle is full.
LEMMA SinceLater ==
  \A ts, old, gap \in 0..Wrap-1 :
    /\ Later(ts, gap) \in 0..Wrap-1
    /\ Since(ts, old) \in 0..Wrap-1
    /\ Since(Later(ts, gap), old) <= Since(ts, old) + gap
    /\ Since(ts, old) + gap < Wrap => Since(Later(ts, gap), old) = Since(ts, old) + gap
    /\ Since(ts, ts) = 0
BY FollowerAssumption DEF FollowerAssumption, Since, Later

LEMMA SinceType == \A ts, old \in 0..Wrap-1 : Since(ts, old) \in 0..Wrap-1
BY FollowerAssumption DEF FollowerAssumption, Since

\* Sums of times.
LEMMA LargerSum ==
  \A r \in Int : \A a, b, c, x, y, z \in Nat :
    r <= a + b + c /\ a <= x /\ b <= y /\ c <= z => r <= x + y + z
OBVIOUS

\* The security offset recalculated for a jitter covers it.
LEMMA OffsetCoversJitter ==
  ASSUME offset \in Nat, NEW j \in Nat
  PROVE  Recalculated(j) \in Nat /\ Recalculated(j) >= offset /\ Recalculated(j) >= j
<1>1. (j * 12) \div 10 \in Nat /\ (j * 12) \div 10 >= j
  OBVIOUS
<1> QED BY <1>1 DEF Recalculated, Larger

\* What a message tells that arrives.
LEMMA Arrival ==
  ASSUME TypeOK, NEW gap \in 0..Wrap-1, NEW delay \in Delays, Arrives(gap, delay)
  PROVE  /\ sender' \in Senders
         /\ sender'.ticks = sender.ticks + gap
         /\ sender'.ts = Later(sender.ts, gap)
         /\ sender.ticks * TickLength \in Nat
         /\ sender'.ticks * TickLength \in Nat
         /\ sender'.ticks * TickLength >= sender.ticks * TickLength
         /\ received' = sender'.ticks * TickLength + delay
         /\ received' \in Nat /\ received' >= received /\ received' > 0
         /\ delay \in Nat /\ delay > 0
<1>1. gap \in Nat /\ delay \in Nat /\ delay > 0 /\ sender.ticks \in Nat /\ sender.ts \in 0..Wrap-1
  BY FollowerAssumption DEF FollowerAssumption, TypeOK
<1>2. sender' = [ticks |-> sender.ticks + gap, ts |-> Later(sender.ts, gap)]
  BY DEF Arrives
<1>3. sender.ticks + gap \in Nat /\ sender.ticks <= sender.ticks + gap
  BY <1>1
<1>4. Later(sender.ts, gap) \in 0..Wrap-1
  BY <1>1, SinceLater
<1>5. /\ sender' \in Senders
      /\ sender'.ticks = sender.ticks + gap
      /\ sender'.ts = Later(sender.ts, gap)
  BY <1>2, <1>3, <1>4 DEF Senders
<1>6. /\ sender.ticks * TickLength \in Nat /\ sender'.ticks * TickLength \in Nat
      /\ sender'.ticks * TickLength >= sender.ticks * TickLength
  BY <1>1, <1>3, <1>5, TickSums, TickOrder
<1>7. received' = sender'.ticks * TickLength + delay /\ received' >= received
  BY <1>5 DEF Arrives
<1>8. received' \in Nat /\ received' > 0
  BY <1>1, <1>6, <1>7
<1> QED BY <1>1, <1>5, <1>6, <1>7, <1>8

\* The time the follower expects a timestamp at: never later than the fastest
\* transport explains, and just then within a cycle.
LEMMA Expectation ==
  ASSUME IInv, seen.phase = "synced",
         NEW gap \in 0..Wrap-1, NEW delay \in Delays, Arrives(gap, delay)
  PROVE  /\ seen.tick <= sender'.ticks
         /\ Since(sender'.ts, clockTs) <= sender'.ticks - seen.tick
         /\ clockTime + Since(sender'.ts, clockTs) * TickLength
              <= sender'.ticks * TickLength + seen.least
         /\ sender'.ticks - seen.tick < Wrap =>
              /\ Since(sender'.ts, clockTs) = sender'.ticks - seen.tick
              /\ clockTime + Since(sender'.ts, clockTs) * TickLength
                   = sender'.ticks * TickLength + seen.least
<1> DEFINE n == Since(sender'.ts, clockTs)
           d == sender'.ticks - seen.tick
<1>1. /\ TypeOK /\ Wrap \in Nat /\ gap \in Nat /\ sender.ticks \in Nat /\ seen.tick \in Nat
      /\ clockTs \in 0..Wrap-1 /\ sender.ts \in 0..Wrap-1 /\ seen.least \in Nat
  BY FollowerAssumption DEF FollowerAssumption, IInv, TypeOK
<1>2. sender'.ticks = sender.ticks + gap /\ sender'.ts = Later(sender.ts, gap)
  BY <1>1, Arrival
<1>3. /\ seen.tick <= sender.ticks
      /\ Since(sender.ts, clockTs) <= sender.ticks - seen.tick
      /\ sender.ticks - seen.tick < Wrap =>
           Since(sender.ts, clockTs) = sender.ticks - seen.tick
  BY DEF IInv, CountsTicks
<1>4. /\ n \in Nat /\ Since(sender.ts, clockTs) \in Nat
      /\ n <= Since(sender.ts, clockTs) + gap
      /\ Since(sender.ts, clockTs) + gap < Wrap => n = Since(sender.ts, clockTs) + gap
  <2>1. Later(sender.ts, gap) \in 0..Wrap-1
    BY <1>1, SinceLater
  <2>2. n \in 0..Wrap-1
    BY <1>1, <1>2, <2>1, SinceLater
  <2>3. Since(sender.ts, clockTs) \in 0..Wrap-1
    BY <1>1, SinceLater
  <2>4. /\ n <= Since(sender.ts, clockTs) + gap
        /\ Since(sender.ts, clockTs) + gap < Wrap => n = Since(sender.ts, clockTs) + gap
    <3> HIDE DEF n
    <3>1. n = Since(Later(sender.ts, gap), clockTs)
      BY <1>2 DEF n
    <3> QED BY <1>1, <3>1, SinceLater
  <2> QED BY <2>2, <2>3, <2>4
<1>5. d \in Nat /\ seen.tick <= sender'.ticks /\ n <= d /\ (d < Wrap => n = d)
  BY <1>1, <1>2, <1>3, <1>4
<1>6. sender'.ticks = seen.tick + d
  BY <1>1, <1>2, <1>5
<1>7. /\ sender'.ticks * TickLength = seen.tick * TickLength + d * TickLength
      /\ seen.tick * TickLength \in Nat /\ d * TickLength \in Nat /\ n * TickLength \in Nat
      /\ n * TickLength <= d * TickLength
  BY <1>1, <1>4, <1>5, <1>6, TickSums, TickOrder
<1>8. clockTime = seen.tick * TickLength + seen.least
  BY DEF IInv, MeasuresTransport
<1>9. clockTime + n * TickLength <= sender'.ticks * TickLength + seen.least
  BY <1>1, <1>7, <1>8
<1>10. d < Wrap => clockTime + n * TickLength = sender'.ticks * TickLength + seen.least
  BY <1>1, <1>5, <1>7, <1>8
<1> QED BY <1>5, <1>9, <1>10

-----------------------------------------------------------------------------
(* The clock messages seen: three cases. *)

LEMMA SeenFirst ==
  ASSUME TypeOK, seen.phase = "none", NEW tick \in Nat, NEW delay \in Nat
  PROVE  /\ SeenClock(tick, delay) \in Records
         /\ SeenClock(tick, delay).phase = "synced"
         /\ SeenClock(tick, delay).tick = tick
         /\ SeenClock(tick, delay).least = delay
         /\ SeenClock(tick, delay).most = delay
BY DEF SeenClock, TypeOK, Records

LEMMA SeenNext ==
  ASSUME TypeOK, seen.phase = "synced", NEW tick \in Nat, NEW delay \in Nat,
         tick - seen.tick < Wrap
  PROVE  /\ SeenClock(tick, delay) \in Records
         /\ SeenClock(tick, delay).phase = "synced"
         /\ SeenClock(tick, delay).tick = tick
         /\ SeenClock(tick, delay).least = Smaller(seen.least, delay)
         /\ SeenClock(tick, delay).most = Larger(seen.most, delay)
         /\ SeenClock(tick, delay).trusted = seen.trusted
BY DEF SeenClock, TypeOK, Records, Smaller, Larger

LEMMA SeenLost ==
  ASSUME TypeOK, seen.phase # "none", NEW tick \in Nat, NEW delay \in Nat,
         ~(seen.phase = "synced" /\ tick - seen.tick < Wrap)
  PROVE  SeenClock(tick, delay) \in Records /\ SeenClock(tick, delay).phase = "lost"
BY DEF SeenClock, TypeOK, Records

-----------------------------------------------------------------------------
(* The steps. *)

\* The follower's fields after a later clock message, EarlyClock or LateClock.
LEMMA ClockTypes ==
  ASSUME IInv, NEW gap \in 0..Wrap-1, NEW delay \in Delays,
         EarlyClock(gap, delay) \/ LateClock(gap, delay)
  PROVE  /\ TypeOK'
         /\ clockTime' > 0
         /\ jitter' >= jitter /\ offset' >= offset
         /\ seen' = SeenClock(sender'.ticks, delay)
         /\ result' = result
<1>1. Arrives(gap, delay) /\ TypeOK
  BY DEF EarlyClock, LateClock, IInv
<1>2. /\ sender' \in Senders /\ received' \in Nat /\ received' > 0
      /\ delay \in Nat /\ sender'.ticks \in Nat /\ sender'.ts \in 0..Wrap-1
  BY <1>1, Arrival DEF Senders
<1>3. /\ clockTs \in 0..Wrap-1 /\ clockTime \in Nat /\ messageTime \in Nat
      /\ jitter \in Nat /\ offset \in Nat
  BY <1>1 DEF TypeOK
<1>4. Since(sender'.ts, clockTs) \in 0..Wrap-1 /\ Wrap \in Nat
  BY <1>2, <1>3, SinceType, FollowerAssumption DEF FollowerAssumption
<1>5. Since(sender'.ts, clockTs) * TickLength \in Nat
  BY <1>4, TickSums
<1>6. PICK e \in Nat : e = clockTime + Since(sender'.ts, clockTs) * TickLength /\ e > 0
  <2>1. clockTime # 0
    BY DEF EarlyClock, LateClock, Zero
  <2> QED BY <1>3, <1>5, <2>1
<1>7. seen.phase # "none" /\ seen' = SeenClock(sender'.ticks, delay) /\ result' = result
  BY DEF EarlyClock, LateClock, IInv
<1>8. seen' \in Records
  BY <1>1, <1>2, <1>7, SeenNext, SeenLost DEF TypeOK, Records
<1>9. clockTs' \in 0..Wrap-1
  BY <1>2 DEF EarlyClock, LateClock
<1>10. /\ clockTime' \in Nat /\ clockTime' > 0
       /\ messageTime' \in Nat
       /\ jitter' \in Nat /\ jitter' >= jitter
       /\ offset' \in Nat /\ offset' >= offset
  <2>1. CASE EarlyClock(gap, delay)
    <3>1. /\ received' < e /\ clockTime' = received'
          /\ messageTime' = Larger(messageTime, received')
          /\ jitter' = jitter + (e - received') /\ offset' = Recalculated(jitter')
      BY <1>6, <2>1 DEF EarlyClock
    <3>2. jitter' \in Nat /\ jitter' >= jitter
      BY <1>2, <1>3, <1>6, <3>1
    <3> QED BY <1>2, <1>3, <3>1, <3>2, OffsetCoversJitter DEF Larger
  <2>2. CASE LateClock(gap, delay)
    <3>1. /\ received' >= e /\ clockTime' = e /\ messageTime' = received'
          /\ jitter' = Larger(jitter, received' - e)
          /\ offset' = IF received' - e > jitter THEN Recalculated(jitter') ELSE offset
      BY <1>6, <2>2 DEF LateClock
    <3>2. jitter' \in Nat /\ jitter' >= jitter
      BY <1>2, <1>3, <1>6, <3>1 DEF Larger
    <3> QED BY <1>2, <1>3, <1>6, <3>1, <3>2, OffsetCoversJitter
  <2> QED BY <2>1, <2>2
<1>11. result' \in Nat \union {NoTime}
  BY <1>1, <1>7 DEF TypeOK
<1>12. TypeOK'
  BY <1>2, <1>8, <1>9, <1>10, <1>11 DEF TypeOK, Senders, Records
<1> QED BY <1>7, <1>10, <1>12

\* Every operation keeps the types.
LEMMA TypeStep ==
  ASSUME IInv, [Next]_vars
  PROVE  TypeOK'
<1>1. TypeOK
  BY DEF IInv
<1>2. ASSUME NEW gap \in 0..Wrap-1, NEW delay \in Delays, FirstClock(gap, delay)
      PROVE  TypeOK'
  <2>1. /\ sender' \in Senders /\ received' \in Nat /\ delay \in Nat
        /\ sender'.ticks \in Nat /\ sender'.ts \in 0..Wrap-1
    BY <1>1, <1>2, Arrival DEF FirstClock, Senders
  <2>2. seen.phase = "none" /\ seen' = SeenClock(sender'.ticks, delay)
    BY <1>2 DEF FirstClock, IInv
  <2>3. seen' \in Records
    BY <1>1, <2>1, <2>2, SeenFirst
  <2> QED BY <1>1, <1>2, <2>1, <2>3 DEF FirstClock, TypeOK, Senders, Records
<1>3. ASSUME NEW gap \in 0..Wrap-1, NEW delay \in Delays,
             EarlyClock(gap, delay) \/ LateClock(gap, delay)
      PROVE  TypeOK'
  BY <1>3, ClockTypes
<1>4. ASSUME NEW gap \in 0..Wrap-1, NEW delay \in Delays, ScheduleMessage(gap, delay)
      PROVE  TypeOK'
  <2>1. /\ sender' \in Senders /\ received' \in Nat
        /\ sender'.ts \in 0..Wrap-1
    BY <1>1, <1>4, Arrival DEF ScheduleMessage, Senders
  <2>2. clockTs \in 0..Wrap-1 /\ clockTime \in Nat /\ Wrap \in Nat
    BY <1>1, FollowerAssumption DEF FollowerAssumption, TypeOK
  <2>3. Since(sender'.ts, clockTs) \in 0..Wrap-1
    BY <2>1, <2>2, SinceType
  <2>0. Since(sender'.ts, clockTs) * TickLength \in Nat
    BY <2>2, <2>3, TickSums
  <2>4. PICK time \in Nat : time = clockTime + Since(sender'.ts, clockTs) * TickLength
    BY <2>2, <2>0
  <2>5. messageTime' = IF clockTime # Zero THEN Larger(messageTime, time) ELSE received'
    BY <1>4, <2>4 DEF ScheduleMessage
  <2>6. messageTime' \in Nat
    BY <1>1, <2>1, <2>5 DEF TypeOK, Larger
  <2>7. result' \in Nat
    BY <1>1, <1>4, <2>6 DEF ScheduleMessage, TypeOK
  <2> QED BY <1>1, <1>4, <2>1, <2>6, <2>7 DEF ScheduleMessage, TypeOK, Senders
<1>5. ASSUME Reset PROVE TypeOK'
  BY <1>1, <1>5, FollowerAssumption
     DEF FollowerAssumption, Reset, TypeOK, NothingSeen, Zero
<1>6. ASSUME NEW o \in Offsets, SetSecurityOffset(o) PROVE TypeOK'
  <2>1. o \in Nat
    BY FollowerAssumption DEF FollowerAssumption
  <2>2. seen' \in Records
    BY <1>1, <1>6 DEF SetSecurityOffset, TypeOK, Records
  <2> QED BY <1>1, <1>6, <2>1, <2>2 DEF SetSecurityOffset, TypeOK, Records
<1>7. CASE UNCHANGED vars
  BY <1>1, <1>7 DEF vars, TypeOK
<1> QED
  BY <1>2, <1>3, <1>4, <1>5, <1>6, <1>7 DEF Next, ProcessClock

\* What a clock message tells a synchronised follower: the invariant's parts that
\* are about numbers.
LEMMA ClockKeepsMeasure ==
  ASSUME IInv, NEW gap \in 0..Wrap-1, NEW delay \in Delays,
         EarlyClock(gap, delay) \/ LateClock(gap, delay), seen'.phase = "synced"
  PROVE  MeasuresTransport' /\ Bounds' /\ CountsTicks'
<1>1. Arrives(gap, delay) /\ TypeOK /\ seen.phase # "none"
  BY DEF EarlyClock, LateClock, IInv
<1>2. /\ sender' \in Senders /\ sender'.ticks \in Nat /\ sender'.ts \in 0..Wrap-1
      /\ received' = sender'.ticks * TickLength + delay /\ delay \in Nat
      /\ sender'.ticks * TickLength \in Nat /\ sender.ticks * TickLength \in Nat
      /\ sender'.ticks * TickLength >= sender.ticks * TickLength
  BY <1>1, Arrival DEF Senders
<1>3. /\ TypeOK' /\ jitter' >= jitter /\ offset' >= offset /\ result' = result
      /\ seen' = SeenClock(sender'.ticks, delay)
  BY ClockTypes
<1>4. seen.phase = "synced" /\ sender'.ticks - seen.tick < Wrap
  BY <1>1, <1>2, <1>3, SeenLost
<1>5. /\ seen'.tick = sender'.ticks
      /\ seen'.least = Smaller(seen.least, delay)
      /\ seen'.most = Larger(seen.most, delay)
      /\ seen'.trusted = seen.trusted
  BY <1>1, <1>2, <1>3, <1>4, SeenNext
<1>6. /\ clockTime + Since(sender'.ts, clockTs) * TickLength
           = sender'.ticks * TickLength + seen.least
      /\ jitter = seen.most - seen.least
      /\ seen.least <= seen.most
      /\ seen.trusted => offset >= jitter
      /\ messageTime <= sender.ticks * TickLength + seen.most
      /\ result <= sender.ticks * TickLength + seen.most + offset
      /\ result <= messageTime + jitter + offset
  BY <1>1, <1>4, Expectation DEF IInv, MeasuresTransport, Bounds
<1>12. CountsTicks'
  <2>1. clockTs' = sender'.ts
    BY DEF EarlyClock, LateClock
  <2>2. Since(sender'.ts, clockTs') = 0
    BY <1>2, <2>1 DEF Since
  <2>3. sender'.ticks - seen'.tick = 0 /\ Wrap > 0
    BY <1>2, <1>5, FollowerAssumption DEF FollowerAssumption
  <2> QED BY <1>2, <1>5, <2>2, <2>3 DEF CountsTicks
\* Everything from here on is about numbers.
<1>7. PICK now, before, least, most \in Nat :
        /\ now = sender'.ticks * TickLength /\ before = sender.ticks * TickLength
        /\ least = seen.least /\ most = seen.most
        /\ before <= now
  BY <1>1, <1>2 DEF TypeOK
<1>8. /\ jitter \in Nat /\ offset \in Nat /\ messageTime \in Nat
      /\ jitter' \in Nat /\ offset' \in Nat /\ messageTime' \in Nat
      /\ result \in Int
  BY <1>1, <1>3 DEF TypeOK, NoTime
<1>9. /\ jitter = most - least /\ least <= most
      /\ seen.trusted => offset >= jitter
      /\ messageTime <= before + most
      /\ result <= before + most + offset
      /\ result <= messageTime + jitter + offset
  BY <1>6, <1>7
<1>10. CASE EarlyClock(gap, delay)
  <2>1. /\ now + delay < now + least
        /\ clockTime' = now + delay
        /\ messageTime' = Larger(messageTime, now + delay)
        /\ jitter' = jitter + ((now + least) - (now + delay))
        /\ offset' = Recalculated(jitter')
    BY <1>2, <1>6, <1>7, <1>10 DEF EarlyClock
  <2>2. delay < least /\ jitter' = most - delay /\ offset' >= jitter'
    BY <1>2, <1>7, <1>8, <1>9, <2>1, OffsetCoversJitter
  <2>3. seen'.least = delay /\ seen'.most = most
    BY <1>2, <1>5, <1>7, <1>9, <2>2 DEF Smaller, Larger
  <2>4. messageTime' >= messageTime /\ messageTime' <= now + most
    BY <1>2, <1>7, <1>8, <1>9, <2>1, <2>2 DEF Larger
  <2>5. result <= now + most + offset' /\ result <= messageTime' + jitter' + offset'
    <3>1. jitter' >= jitter /\ offset' >= offset
      BY <1>3
    <3>2. result <= now + most + offset'
      BY <1>7, <1>8, <1>9, <3>1
    <3>3. result <= messageTime' + jitter' + offset'
      BY <1>8, <1>9, <2>4, <3>1, LargerSum
    <3> QED BY <3>2, <3>3
  <2>6. MeasuresTransport'
    BY <1>5, <1>7, <2>1, <2>2, <2>3 DEF MeasuresTransport
  <2>7. Bounds'
    BY <1>2, <1>3, <1>7, <1>9, <2>2, <2>3, <2>4, <2>5 DEF Bounds
  <2> QED BY <2>6, <2>7, <1>12
<1>11. CASE LateClock(gap, delay)
  <2>1. /\ now + delay >= now + least
        /\ clockTime' = now + least
        /\ messageTime' = now + delay
        /\ jitter' = Larger(jitter, (now + delay) - (now + least))
        /\ offset' = IF (now + delay) - (now + least) > jitter
                       THEN Recalculated(jitter') ELSE offset
    BY <1>2, <1>6, <1>7, <1>11 DEF LateClock
  <2>2. least <= delay /\ jitter' = Larger(most, delay) - least
    BY <1>2, <1>7, <1>8, <1>9, <2>1 DEF Larger
  <2>3. seen.trusted => offset' >= jitter'
    BY <1>2, <1>7, <1>8, <1>9, <2>1, OffsetCoversJitter DEF Larger
  <2>4. seen'.least = least /\ seen'.most = Larger(most, delay)
    BY <1>2, <1>5, <1>7, <2>2 DEF Smaller
  <2>5. PICK slowest \in Nat : slowest = Larger(most, delay) /\ slowest >= most /\ slowest >= delay
    BY <1>2, <1>7 DEF Larger
  <2>6. messageTime' <= now + slowest
    BY <1>2, <1>7, <2>1, <2>5
  <2>7. result <= now + slowest + offset'
    BY <1>3, <1>7, <1>8, <1>9, <2>5
  <2>8. result <= messageTime' + jitter' + offset'
    BY <1>2, <1>3, <1>7, <1>8, <1>9, <2>1, <2>2
  <2>9. MeasuresTransport'
    BY <1>5, <1>7, <2>1, <2>2, <2>4 DEF MeasuresTransport
  <2>10. least <= slowest
    BY <1>7, <1>9, <2>5
  <2>11. Bounds'
    BY <1>3, <1>5, <1>7, <2>3, <2>4, <2>5, <2>6, <2>7, <2>8, <2>10 DEF Bounds
  <2> QED BY <2>9, <2>11, <1>12
<1> QED BY <1>10, <1>11

\* What scheduling a message keeps, and what it promises.
LEMMA Scheduling ==
  ASSUME IInv, NEW gap \in 0..Wrap-1, NEW delay \in Delays, ScheduleMessage(gap, delay)
  PROVE  /\ Unsynced' /\ CountsTicks' /\ MeasuresTransport' /\ Bounds'
         /\ seen.phase # "lost" => result <= result' + jitter
         /\ seen.phase = "synced" /\ seen.trusted /\ sender'.ticks - seen.tick < Wrap
            /\ delay <= seen.most => result' >= received'
<1>1. Arrives(gap, delay) /\ TypeOK
  BY DEF ScheduleMessage, IInv
<1>2. /\ received' = sender'.ticks * TickLength + delay /\ delay \in Nat
      /\ sender'.ticks * TickLength \in Nat /\ sender.ticks * TickLength \in Nat
      /\ sender'.ticks * TickLength >= sender.ticks * TickLength
      /\ received' \in Nat /\ received' >= received
  BY <1>1, Arrival
<1>3. UNCHANGED <<clockTs, clockTime, jitter, offset, seen>> /\ result' = messageTime' + offset
  BY DEF ScheduleMessage
<1>4. /\ clockTime \in Nat /\ messageTime \in Nat /\ jitter \in Nat /\ offset \in Nat
      /\ result \in Int /\ received \in Nat /\ seen.least \in Nat /\ seen.most \in Nat
  BY <1>1 DEF TypeOK, NoTime
<1>5. CASE seen.phase = "none"
  <2>1. messageTime' = received'
    BY <1>5 DEF ScheduleMessage, IInv
  <2>2. messageTime <= received /\ result <= messageTime + offset /\ jitter = 0
    BY <1>5 DEF IInv, Unsynced
  <2>3. result <= result' + jitter
    BY <1>2, <1>3, <1>4, <2>1, <2>2
  <2>4. Unsynced'
    BY <1>2, <1>3, <1>4, <2>1, <2>2 DEF Unsynced
  <2> QED BY <1>3, <1>5, <2>3, <2>4 DEF CountsTicks, MeasuresTransport, Bounds
<1>6. CASE seen.phase = "synced"
  <2>1. /\ seen.tick <= sender'.ticks
        /\ Since(sender'.ts, clockTs) <= sender'.ticks - seen.tick
        /\ sender'.ticks - seen.tick < Wrap =>
             Since(sender'.ts, clockTs) = sender'.ticks - seen.tick
    BY <1>1, <1>6, Expectation
  <2>2. PICK time \in Nat :
          /\ time = clockTime + Since(sender'.ts, clockTs) * TickLength
          /\ time <= sender'.ticks * TickLength + seen.least
          /\ sender'.ticks - seen.tick < Wrap =>
               time = sender'.ticks * TickLength + seen.least
    <3>1. Since(sender'.ts, clockTs) * TickLength \in Nat
      <4>1. clockTs \in 0..Wrap-1 /\ sender'.ts \in 0..Wrap-1 /\ Wrap \in Nat
        BY <1>1, Arrival, FollowerAssumption DEF FollowerAssumption, TypeOK, Senders
      <4>2. Since(sender'.ts, clockTs) \in 0..Wrap-1
        BY <4>1, SinceType
      <4> QED BY <4>1, <4>2, TickSums
    <3>2. clockTime + Since(sender'.ts, clockTs) * TickLength \in Nat
      BY <1>4, <3>1
    <3> QED BY <1>1, <1>6, <3>2, Expectation
  <2>3. messageTime' = Larger(messageTime, time)
    BY <1>6, <2>2 DEF ScheduleMessage, IInv
  <2>4. PICK now, before, least, most \in Nat :
          /\ now = sender'.ticks * TickLength /\ before = sender.ticks * TickLength
          /\ least = seen.least /\ most = seen.most /\ before <= now
    BY <1>2, <1>4
  <2>5. /\ jitter = most - least /\ least <= most
        /\ seen.trusted => offset >= jitter
        /\ messageTime <= before + most
        /\ result <= messageTime + jitter + offset
    BY <1>6, <2>4 DEF IInv, MeasuresTransport, Bounds
  <2>6. /\ messageTime' \in Nat /\ messageTime' >= messageTime /\ messageTime' >= time
        /\ messageTime' <= now + most
    BY <1>4, <2>2, <2>3, <2>4, <2>5 DEF Larger
  <2>12. PICK mt \in Nat : mt = messageTime'
    BY <2>6
  <2>13. result' = mt + offset
    BY <1>3, <2>12
  <2>7. result <= result' + jitter
    <3>1. mt >= messageTime /\ result <= messageTime + jitter + offset
      BY <2>5, <2>6, <2>12
    <3>2. result <= mt + jitter + offset
      BY <1>4, <3>1, LargerSum
    <3>3. mt + jitter + offset = (mt + offset) + jitter
      BY <1>4
    <3> QED BY <2>13, <3>2, <3>3
  <2>8. result' <= now + most + offset /\ result' <= messageTime' + jitter + offset
    <3>1. mt <= now + most
      BY <2>6, <2>12
    <3>2. mt + offset <= now + most + offset
      BY <1>4, <2>4, <3>1
    <3>3. mt + offset <= mt + jitter + offset
      BY <1>4
    <3> QED BY <2>12, <2>13, <3>2, <3>3
  <2>9. Bounds'
    BY <1>3, <1>6, <2>4, <2>5, <2>6, <2>8 DEF Bounds
  <2>10. CountsTicks' /\ MeasuresTransport' /\ Unsynced'
    BY <1>3, <1>6, <2>1 DEF IInv, CountsTicks, MeasuresTransport, Unsynced
  <2>11. ASSUME seen.trusted, sender'.ticks - seen.tick < Wrap, delay <= seen.most
         PROVE  result' >= received'
    <3>1. time = now + least /\ delay <= most /\ received' = now + delay
      BY <1>2, <2>2, <2>4, <2>11
    <3>2. offset >= most - least
      BY <2>5, <2>11
    <3> QED BY <1>2, <1>3, <1>4, <2>4, <2>6, <3>1, <3>2
  <2> QED BY <1>6, <2>7, <2>9, <2>10, <2>11
<1>7. CASE seen.phase = "lost"
  BY <1>3, <1>7 DEF Unsynced, CountsTicks, MeasuresTransport, Bounds
<1> QED BY <1>1, <1>5, <1>6, <1>7 DEF TypeOK

\* A new follower satisfies the invariant ...
LEMMA InvInit == Init => IInv
<1> SUFFICES ASSUME Init PROVE IInv
  OBVIOUS
<1> QED BY FollowerAssumption
     DEF FollowerAssumption, Init, IInv, TypeOK, Unsynced, CountsTicks, MeasuresTransport,
         Bounds, NothingSeen, NoTime, Zero

\* ... and every operation keeps it.
LEMMA InvStep ==
  ASSUME IInv, [Next]_vars
  PROVE  IInv'
<1>1. TypeOK /\ TypeOK'
  BY TypeStep DEF IInv
<1>2. ASSUME NEW gap \in 0..Wrap-1, NEW delay \in Delays, FirstClock(gap, delay)
      PROVE  IInv'
  <2>1. /\ received' = sender'.ticks * TickLength + delay /\ delay \in Nat
        /\ received' \in Nat /\ received' >= received /\ received' > 0
        /\ sender'.ticks \in Nat /\ sender'.ts \in 0..Wrap-1
    BY <1>1, <1>2, Arrival DEF FirstClock, Senders
  <2>2. seen.phase = "none" /\ seen' = SeenClock(sender'.ticks, delay)
    BY <1>2 DEF FirstClock, IInv
  <2>3. /\ seen'.phase = "synced" /\ seen'.tick = sender'.ticks
        /\ seen'.least = delay /\ seen'.most = delay
    BY <1>1, <2>1, <2>2, SeenFirst
  <2>4. /\ clockTs' = sender'.ts /\ clockTime' = received' /\ messageTime' = received'
        /\ UNCHANGED <<jitter, offset, result>>
    BY <1>2 DEF FirstClock
  <2>5. jitter = 0 /\ messageTime <= received /\ result <= messageTime + offset
    BY <2>2 DEF IInv, Unsynced
  <2>6. CountsTicks'
    <3>1. Since(sender'.ts, sender'.ts) = 0 /\ sender'.ticks - seen'.tick = 0
      BY <2>1, <2>3 DEF Since
    <3> QED BY <2>1, <2>3, <2>4, <3>1 DEF CountsTicks
  <2>7. MeasuresTransport'
    BY <2>1, <2>3, <2>4, <2>5 DEF MeasuresTransport
  <2>8. PICK mt \in Nat : mt = received'
    BY <2>1
  <2>9. result <= mt + offset
    <3>1. messageTime \in Nat /\ offset \in Nat /\ result \in Int /\ received \in Nat
      BY <1>1 DEF TypeOK, NoTime
    <3>2. messageTime <= mt
      BY <2>1, <2>5, <2>8, <3>1
    <3> QED BY <2>5, <3>1, <3>2
  <2>10. Bounds'
    <3>1. offset \in Nat /\ mt + 0 + offset = mt + offset
      BY <1>1 DEF TypeOK
    <3>2. result' <= messageTime' + jitter' + offset'
      BY <2>4, <2>5, <2>8, <2>9, <3>1
    <3>3. result' <= received' + offset' /\ offset' >= jitter' /\ messageTime' <= received'
      BY <2>1, <2>4, <2>5, <2>8, <2>9, <3>1
    <3> QED BY <2>1, <2>3, <3>2, <3>3 DEF Bounds
  <2> QED BY <1>1, <2>1, <2>3, <2>4, <2>6, <2>7, <2>10 DEF IInv, Unsynced, Zero
<1>3. ASSUME NEW gap \in 0..Wrap-1, NEW delay \in Delays,
             EarlyClock(gap, delay) \/ LateClock(gap, delay)
      PROVE  IInv'
  <2>1. clockTime' > 0 /\ seen' = SeenClock(sender'.ticks, delay)
    BY <1>3, ClockTypes
  <2>2. seen.phase # "none" /\ sender'.ticks \in Nat /\ delay \in Nat
    BY <1>1, <1>3, Arrival DEF EarlyClock, LateClock, IInv, Senders
  <2>3. seen'.phase \in {"synced", "lost"}
    BY <1>1, <2>1, <2>2, SeenNext, SeenLost DEF TypeOK
  <2>4. CASE seen'.phase = "synced"
    <3>1. MeasuresTransport' /\ Bounds' /\ CountsTicks'
      BY <1>3, <2>4, ClockKeepsMeasure
    <3> QED BY <1>1, <2>1, <2>4, <3>1 DEF IInv, Unsynced, Zero
  <2>5. CASE seen'.phase = "lost"
    BY <1>1, <2>1, <2>5
       DEF IInv, Unsynced, CountsTicks, MeasuresTransport, Bounds, Zero
  <2> QED BY <2>3, <2>4, <2>5
<1>4. ASSUME NEW gap \in 0..Wrap-1, NEW delay \in Delays, ScheduleMessage(gap, delay)
      PROVE  IInv'
  <2>1. Unsynced' /\ CountsTicks' /\ MeasuresTransport' /\ Bounds'
    BY <1>4, Scheduling
  <2>2. UNCHANGED <<seen, clockTime>>
    BY <1>4 DEF ScheduleMessage
  <2> QED BY <1>1, <2>1, <2>2 DEF IInv, Zero
<1>5. ASSUME Reset PROVE IInv'
  BY <1>1, <1>5, FollowerAssumption
     DEF FollowerAssumption, Reset, IInv, Unsynced, CountsTicks, MeasuresTransport,
         Bounds, NothingSeen, NoTime, Zero, TypeOK
<1>6. ASSUME NEW o \in Offsets, SetSecurityOffset(o) PROVE IInv'
  <2>1. /\ seen'.phase = seen.phase /\ seen'.tick = seen.tick /\ seen'.least = seen.least
        /\ seen'.most = seen.most /\ ~seen'.trusted
    BY <1>1, <1>6 DEF SetSecurityOffset, TypeOK
  <2>2. /\ UNCHANGED <<clockTs, clockTime, messageTime, jitter, sender, received>>
        /\ offset' = o /\ result' = -1
    BY <1>6 DEF SetSecurityOffset, NoTime
  <2>3. /\ o \in Nat /\ messageTime \in Nat /\ jitter \in Nat /\ seen.most \in Nat
        /\ sender.ticks * TickLength \in Nat
    BY <1>1, TickSums, FollowerAssumption DEF FollowerAssumption, TypeOK
  <2>4. -1 <= messageTime + o /\ -1 <= messageTime + jitter + o
        /\ -1 <= sender.ticks * TickLength + seen.most + o
    BY <2>3
  <2>5. Unsynced' /\ Bounds'
    BY <2>1, <2>2, <2>4 DEF IInv, Unsynced, Bounds
  <2> QED BY <1>1, <2>1, <2>2, <2>5 DEF IInv, CountsTicks, MeasuresTransport
<1>7. CASE UNCHANGED vars
  BY <1>1, <1>7 DEF vars, IInv, Unsynced, CountsTicks, MeasuresTransport, Bounds
<1> QED
  BY <1>2, <1>3, <1>4, <1>5, <1>6, <1>7 DEF Next, ProcessClock

-----------------------------------------------------------------------------
(* Theorems. *)

\* The strengthened invariant holds throughout (process_clock, schedule_message,
\* reset, set_security_offset).
THEOREM Invariance == Spec => []IInv
<1>1. IInv /\ [Next]_vars => IInv'
  BY InvStep
<1> QED BY <1>1, InvInit, PTL DEF Spec

\* Every variable keeps its type: times and offsets never become negative,
\* whatever timestamps come.
THEOREM TypeCorrect == Spec => []TypeOK
<1>1. IInv => TypeOK
  BY DEF IInv
<1> QED BY <1>1, Invariance, PTL

\* Reference time and jitter are what they are meant to estimate (process_clock,
\* update_stats).
THEOREM Measures == Spec => []MeasuresTransport
<1>1. IInv => MeasuresTransport
  BY DEF IInv
<1> QED BY <1>1, Invariance, PTL

\* A message no slower than the slowest clock message is scheduled in time
\* (schedule_message, recalc_security_offset).
THEOREM InTime == Spec => ScheduledInTime
<1> DEFINE InTimeStep ==
      \A gap \in 0..Wrap-1, delay \in Delays :
        /\ ScheduleMessage(gap, delay)
        /\ seen.phase = "synced" /\ seen.trusted
        /\ sender'.ticks - seen.tick < Wrap
        /\ delay <= seen.most
        => result' >= received'
<1>1. IInv /\ [Next]_vars => [InTimeStep]_vars
  BY Scheduling
<1> QED BY <1>1, Invariance, PTL DEF Spec, ScheduledInTime

\* No message is scheduled for later than the slowest transport explains
\* (schedule_message).
THEOREM Promptly == Spec => ScheduledPromptly
<1> DEFINE PromptStep ==
      \A gap \in 0..Wrap-1, delay \in Delays :
        ScheduleMessage(gap, delay) /\ seen.phase = "synced" =>
          result' <= sender'.ticks * TickLength + seen.most + offset
<1>1. IInv /\ [Next]_vars => [PromptStep]_vars
  <2> SUFFICES ASSUME IInv, NEW gap \in 0..Wrap-1, NEW delay \in Delays,
                      ScheduleMessage(gap, delay), seen.phase = "synced"
               PROVE  result' <= sender'.ticks * TickLength + seen.most + offset
    OBVIOUS
  <2>1. Bounds' /\ UNCHANGED <<seen, offset>>
    BY Scheduling DEF ScheduleMessage
  <2> QED BY <2>1 DEF Bounds
<1> QED BY <1>1, Invariance, PTL DEF Spec, ScheduledPromptly

\* A message overtakes the one before by no more than the jitter, whatever clock
\* messages came in between (process_clock, schedule_message).
THEOREM InOrderWithinJitter == Spec => OrderWithinJitter
<1> DEFINE OrderStep ==
      result # NoTime /\ result' # NoTime /\ seen'.phase # "lost" =>
        result' >= result - jitter'
<1>1. IInv /\ [Next]_vars => [OrderStep]_vars
  <2> SUFFICES ASSUME IInv, Next, result # NoTime, result' # NoTime, seen'.phase # "lost"
               PROVE  result' >= result - jitter'
    BY DEF vars
  <2>1. /\ result \in Int /\ result' \in Int /\ jitter \in Nat /\ jitter' \in Nat
    BY TypeStep DEF IInv, TypeOK, NoTime
  <2>2. ASSUME result' = result PROVE result' >= result - jitter'
    <3>1. PICK r \in Int, j \in Nat : r = result /\ j = jitter'
      BY <2>1
    <3>2. r >= r - j
      OBVIOUS
    <3> QED BY <2>2, <3>1, <3>2
  <2>3. ASSUME NEW gap \in 0..Wrap-1, NEW delay \in Delays, ScheduleMessage(gap, delay)
        PROVE  result' >= result - jitter'
    <3>1. result <= result' + jitter /\ jitter' = jitter
      BY <2>3, Scheduling DEF ScheduleMessage
    <3>2. PICK r \in Int, s \in Int, j \in Nat : r = result /\ s = result' /\ j = jitter
      BY <2>1
    <3>3. r <= s + j
      BY <3>1, <3>2
    <3>4. \A a, b \in Int, k \in Nat : a <= b + k => b >= a - k
      OBVIOUS
    <3>5. s >= r - j
      BY <3>3, <3>4
    <3> QED BY <3>1, <3>2, <3>5
  <2>4. ASSUME NEW gap \in 0..Wrap-1, NEW delay \in Delays, ProcessClock(gap, delay)
        PROVE  result' = result
    BY <2>4 DEF ProcessClock, FirstClock, EarlyClock, LateClock
  <2>5. ~Reset /\ \A o \in Offsets : ~SetSecurityOffset(o)
    BY DEF Reset, SetSecurityOffset
  <2> QED BY <2>2, <2>3, <2>4, <2>5 DEF Next
<1> QED BY <1>1, Invariance, PTL DEF Spec, OrderWithinJitter

=============================================================================
