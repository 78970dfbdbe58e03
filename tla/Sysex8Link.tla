----------------------------- MODULE Sysex8Link -----------------------------
(***************************************************************************)
(* send_sysex8 for several streams that share a group, and one             *)
(* sysex8_collector that is fed with the packets of all of them.           *)
(*                                                                         *)
(* The packets of a stream arrive in order; how streams are interleaved is *)
(* up to their senders, and external to the library.                       *)
(***************************************************************************)
EXTENDS Sysex8Collector, FiniteSets

CONSTANTS
  Messages,  \* messages the applications send
  MaxSent    \* bound on the messages sent, for TLC

VARIABLES
  lanes,      \* packets under way per stream, each with the number of its message
              \* and its position in the message
  sent,       \* history: the messages sent, and on which stream
  delivered,  \* history: the messages delivered
  open,       \* history: number of the message being received, or 0
  cut         \* history: numbers of the messages that another one broke into

linkVars == <<lanes, sent, delivered, open, cut, vars>>

Sender == INSTANCE SysexSender

\* IDs of one and three bytes of 7 bits, and the ID 0, <<0, 0, 0>>
SevenBits == 0..127
ManufacturerIds == {<<a>> : a \in SevenBits \ {0}} \union {<<0, a, b>> : a, b \in SevenBits}

\* A packet has room for more than the manufacturer ID, as it is with 13 bytes.
ASSUME LinkAssumption ==
  /\ MaxSent \in Nat
  /\ MaxPayload > 2
  /\ Byte = 0..255
  /\ Messages \subseteq [manufacturer : ManufacturerIds, data : Seq(Byte)]

\* A collector with a callback and without a limit
LinkInit ==
  /\ lanes = [s \in Streams |-> <<>>]
  /\ sent = <<>> /\ delivered = <<>> /\ open = 0 /\ cut = {}
  /\ Init
  /\ hasCallback = TRUE

\* send_sysex8: the sender callback gets every packet before the call returns.
Send(m, s) ==
  /\ Len(sent) < MaxSent
  /\ sent' = Append(sent, [message |-> m, stream |-> s])
  /\ LET packets == Sender!Sysex8Packets(m)
     IN  lanes' = [lanes EXCEPT ![s] = @ \o
                     [k \in 1..Len(packets) |->
                        [packet |-> [format  |-> packets[k].status, stream |-> s,
                                     payload |-> packets[k].payload],
                         number |-> Len(sent) + 1, position |-> k]]]
  /\ UNCHANGED <<delivered, open, cut, vars>>

\* The collector is fed with the next packet of stream s.
Receive(s) ==
  /\ lanes[s] # <<>>
  /\ LET next == Head(lanes[s])
         ours == IsFirst(next.packet) \/ open = next.number
     IN  /\ Feed(next.packet)
         /\ delivered' = IF call'.made
                           THEN Append(delivered, [manufacturer |-> call'.manufacturer,
                                                   data   |-> call'.data,
                                                   stream |-> call'.stream,
                                                   number |-> next.number])
                           ELSE delivered
         /\ cut' = IF IsFirst(next.packet) /\ open # 0 THEN cut \union {open} ELSE cut
         /\ open' = IF ~ours THEN open
                    ELSE IF IsLast(next.packet) THEN 0 ELSE next.number
  /\ lanes' = [lanes EXCEPT ![s] = Tail(@)]
  /\ UNCHANGED sent

LinkNext ==
  \/ \E m \in Messages, s \in Streams : Send(m, s)
  \/ \E s \in Streams : Receive(s)

LinkSpec == LinkInit /\ [][LinkNext]_linkVars

-----------------------------------------------------------------------------
(* Properties. *)

\* A manufacturer ID as the three bytes of sysex::manufacturerID.
Triple(id) == IF Len(id) = 1 THEN <<id[1], 0, 0>> ELSE id

AsSent(d) ==
  /\ d.manufacturer = Triple(sent[d.number].message.manufacturer)
  /\ d.data = sent[d.number].message.data
  /\ d.stream = sent[d.number].stream

\* What is delivered was sent, on the stream it is said to come from, with no
\* byte of another stream in it; and what was broken into is not delivered.
StreamsKeptApart ==
  \A k \in DOMAIN delivered : AsSent(delivered[k]) /\ delivered[k].number \notin cut

\* A message that no other one broke into is delivered once, whatever of other
\* streams came before it, and whatever parts of them came in between.
DeliveredUnlessCut ==
  \A n \in DOMAIN sent :
    n \notin cut /\ (\A s \in Streams : \A k \in DOMAIN lanes[s] : lanes[s][k].number # n) =>
      Cardinality({k \in DOMAIN delivered : delivered[k].number = n}) = 1

-----------------------------------------------------------------------------
(* What the documentation of the code says, and the code does not do. *)

\* README: the collector lets one "collect System Exclusive messages", and
\* sysex8_collector does so for those of 8 bits: also for a message alone on the
\* link, of any size.
CollectsEveryMessage ==
  Len(sent) = 1 /\ (\A s \in Streams : lanes[s] = <<>>) =>
    Len(delivered) = 1 /\ AsSent(delivered[1])

=============================================================================
