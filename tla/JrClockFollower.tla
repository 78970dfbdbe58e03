-------------------------- MODULE JrClockFollower --------------------------
(***************************************************************************)
(* Jitter reduction: class midi::jr_clock_follower.                        *)
(*                                                                         *)
(* A sender stamps clock messages and other messages with a 16 bit counter *)
(* of its ticks.  The follower learns from the clock messages how long the *)
(* transport takes at least and how much that varies, and schedules each   *)
(* message so that it is played evenly, whatever its own delay was.        *)
(*                                                                         *)
(* The follower is single threaded.  Sender and transport are modelled as  *)
(* far as the follower depends on them: the sender's clock moves forward,  *)
(* messages arrive in order, each after a delay of its own.  Both clocks   *)
(* run at the same rate.  Times are integers, TickLength of them a tick.   *)
(***************************************************************************)
EXTENDS Integers

CONSTANTS
  Wrap,          \* values of a timestamp (65536)
  TickLength,    \* time units of the receiver's clock in a tick (32000 ns)
  InitialOffset, \* security offset after reset() (2 ms)
  Offsets,       \* arguments of set_security_offset
  Delays,        \* from the tick of a timestamp to the reception, positive:
                 \* nothing is received in the instant of the construction
  Horizon        \* bound on the sender's clock, for TLC

ASSUME FollowerAssumption ==
  /\ Wrap \in Nat \ {0}
  /\ TickLength \in Nat \ {0}
  /\ InitialOffset \in Nat
  /\ Offsets \subseteq Nat
  /\ Delays \subseteq Nat \ {0}
  /\ Horizon \in Nat

VARIABLES
  clockTs,     \* m_clock_ts
  clockTime,   \* m_clock_time
  messageTime, \* m_message_time
  jitter,      \* m_jitter
  offset,      \* m_security_offset
  result,      \* what schedule_message returned last, NoTime after a reset() or
               \* set_security_offset()
  sender,      \* ticks since the start, and the 16 bit timestamp of now
  received,    \* when the last message was received
  seen         \* history: the clock messages since reset()

vars == <<clockTs, clockTime, messageTime, jitter, offset, result, sender, received, seen>>

NoTime == -1
Zero   == 0  \* the time of the construction, and the mark of "no clock yet"

Smaller(a, b) == IF a < b THEN a ELSE b
Larger(a, b)  == IF a > b THEN a ELSE b

-----------------------------------------------------------------------------
(* The sender, as far as the follower knows it. *)

\* A timestamp some ticks later.
Later(ts, ticks) == IF ts + ticks >= Wrap THEN ts + ticks - Wrap ELSE ts + ticks

\* A message is sent `gap` ticks after the previous one and received `delay`
\* after the tick it was sent in, and not before the previous one.
Arrives(gap, delay) ==
  /\ sender' = [ticks |-> sender.ticks + gap, ts |-> Later(sender.ts, gap)]
  /\ received' = (sender.ticks + gap) * TickLength + delay
  /\ received' >= received

\* Of the clock messages: the tick of the last one, the least and the largest
\* delay.  `phase` is "lost" when more than a cycle of timestamps passed between
\* two of them; `trusted` tells that the security offset was never overridden.
NothingSeen ==
  [phase |-> "none", tick |-> 0, least |-> 0, most |-> 0, trusted |-> TRUE]

SeenClock(tick, delay) ==
  CASE seen.phase = "none" ->
         [seen EXCEPT !.phase = "synced", !.tick = tick, !.least = delay, !.most = delay]
    [] seen.phase = "synced" /\ tick - seen.tick < Wrap ->
         [seen EXCEPT !.tick = tick, !.least = Smaller(@, delay), !.most = Larger(@, delay)]
    [] OTHER -> [seen EXCEPT !.phase = "lost"]

-----------------------------------------------------------------------------
\* Faulty variants: no cycle, and a cycle between equal timestamps.
SinceSigned(new, old)   == new - old
SinceOffByOne(new, old) == IF new <= old THEN new - old + Wrap ELSE new - old

\* jr_timestamp_t::operator-: ticks from `old` to `new`, modulo a cycle.
Since(new, old) == IF new < old THEN new - old + Wrap ELSE new - old

Init ==
  /\ clockTs = 0 /\ clockTime = Zero /\ messageTime = Zero
  /\ jitter = 0 /\ offset = InitialOffset
  /\ result = NoTime
  /\ sender \in [ticks : {0}, ts : 0..Wrap-1]
  /\ received = Zero
  /\ seen = NothingSeen

\* The first clock message is the reference.
FirstClock(gap, delay) ==
  /\ Arrives(gap, delay)
  /\ clockTime = Zero
  /\ clockTs' = sender'.ts
  /\ clockTime' = received'
  /\ messageTime' = received'
  /\ seen' = SeenClock(sender'.ticks, delay)
  /\ UNCHANGED <<jitter, offset, result>>

\* Faulty variant: the jitter in milliseconds, rounded down.
RecalculatedCoarse(j) == Larger(offset, (j \div 10) * 12)

\* recalc_security_offset
Recalculated(j) == Larger(offset, (j * 12) \div 10)

\* A clock message that took less time than any before: a new reference.
EarlyClock(gap, delay) ==
  /\ Arrives(gap, delay)
  /\ clockTime # Zero
  /\ LET expected == clockTime + Since(sender'.ts, clockTs) * TickLength
     IN  /\ received' < expected
         /\ clockTime' = received'
         /\ messageTime' = Larger(messageTime, received')
         /\ jitter' = jitter + (expected - received')
         /\ offset' = Recalculated(jitter')
  /\ clockTs' = sender'.ts
  /\ seen' = SeenClock(sender'.ticks, delay)
  /\ UNCHANGED result

\* Faulty variant: every clock message is a new reference.
LateClockIsReference(gap, delay) ==
  /\ Arrives(gap, delay)
  /\ clockTime # Zero
  /\ LET expected == clockTime + Since(sender'.ts, clockTs) * TickLength
     IN  /\ received' >= expected
         /\ clockTime' = received'
         /\ messageTime' = received'
         /\ jitter' = Larger(jitter, received' - expected)
         /\ offset' = IF received' - expected > jitter THEN Recalculated(jitter') ELSE offset
  /\ clockTs' = sender'.ts
  /\ seen' = SeenClock(sender'.ticks, delay)
  /\ UNCHANGED result

\* A clock message that took as long as the fastest one before, or longer.
LateClock(gap, delay) ==
  /\ Arrives(gap, delay)
  /\ clockTime # Zero
  /\ LET expected == clockTime + Since(sender'.ts, clockTs) * TickLength
     IN  /\ received' >= expected
         /\ clockTime' = expected
         /\ messageTime' = received'
         /\ jitter' = Larger(jitter, received' - expected)
         /\ offset' = IF received' - expected > jitter THEN Recalculated(jitter') ELSE offset
  /\ clockTs' = sender'.ts
  /\ seen' = SeenClock(sender'.ticks, delay)
  /\ UNCHANGED result

\* process_clock
ProcessClock(gap, delay) ==
  FirstClock(gap, delay) \/ EarlyClock(gap, delay) \/ LateClock(gap, delay)

\* schedule_message
ScheduleMessage(gap, delay) ==
  /\ Arrives(gap, delay)
  /\ LET time == clockTime + Since(sender'.ts, clockTs) * TickLength
     IN  messageTime' = IF clockTime # Zero THEN Larger(messageTime, time) ELSE received'
  /\ result' = messageTime' + offset
  /\ UNCHANGED <<clockTs, clockTime, jitter, offset, seen>>

Reset ==
  /\ clockTs' = 0 /\ clockTime' = Zero /\ messageTime' = Zero
  /\ jitter' = 0 /\ offset' = InitialOffset
  /\ result' = NoTime
  /\ seen' = NothingSeen
  /\ UNCHANGED <<sender, received>>

SetSecurityOffset(o) ==
  /\ offset' = o
  /\ result' = NoTime
  /\ seen' = [seen EXCEPT !.trusted = FALSE]
  /\ UNCHANGED <<clockTs, clockTime, messageTime, jitter, sender, received>>

\* Horizon only keeps the instance finite.
Bounded(gap) == sender.ticks + gap <= Horizon

Next ==
  \/ \E gap \in 0..Wrap-1, delay \in Delays :
       /\ Bounded(gap)
       /\ ProcessClock(gap, delay) \/ ScheduleMessage(gap, delay)
  \/ Reset
  \/ \E o \in Offsets : SetSecurityOffset(o)

Spec == Init /\ [][Next]_vars

-----------------------------------------------------------------------------
(* Properties. *)

TypeOK ==
  /\ clockTs \in 0..Wrap-1
  /\ clockTime \in Nat /\ messageTime \in Nat
  /\ jitter \in Nat /\ offset \in Nat
  /\ result \in Nat \union {NoTime}
  /\ sender \in [ticks : Nat, ts : 0..Wrap-1]
  /\ received \in Nat
  /\ seen \in [phase : {"none", "synced", "lost"}, tick : Nat, least : Nat, most : Nat,
               trusted : BOOLEAN]

\* The two numbers the follower keeps are the ones that matter: its reference
\* time is that of the last clock message had it been as fast as the fastest,
\* and its jitter is how far apart the fastest and the slowest one were.
MeasuresTransport ==
  seen.phase = "synced" =>
    /\ clockTime = seen.tick * TickLength + seen.least
    /\ jitter = seen.most - seen.least

\* A scheduled message that was not slower than the slowest clock message is
\* never scheduled for a time that was over when it was received.
ScheduledInTime ==
  [][\A gap \in 0..Wrap-1, delay \in Delays :
       /\ ScheduleMessage(gap, delay)
       /\ seen.phase = "synced" /\ seen.trusted
       /\ sender'.ticks - seen.tick < Wrap
       /\ delay <= seen.most
       => result' >= received']_vars

\* No message waits for longer than the slowest transport explains: but for the
\* offset it is scheduled when the slowest transport would have delivered it.
ScheduledPromptly ==
  [][\A gap \in 0..Wrap-1, delay \in Delays :
       ScheduleMessage(gap, delay) /\ seen.phase = "synced" =>
         result' <= sender'.ticks * TickLength + seen.most + offset]_vars

\* A message overtakes the one before it by no more than the jitter, whatever
\* clock messages came in between.
OrderWithinJitter ==
  [][result # NoTime /\ result' # NoTime /\ seen'.phase # "lost" =>
       result' >= result - jitter']_vars

-----------------------------------------------------------------------------
(* What the comments of the code say, and the code does not do. *)

\* "ensure that messages stay in correct order" (schedule_message), and "ensure
\* that message order is preserved" (process_clock): no message is scheduled for
\* an earlier time than the one before it.
ScheduledInOrder ==
  [][result # NoTime /\ result' # NoTime /\ seen'.phase # "lost" => result' >= result]_vars

=============================================================================
