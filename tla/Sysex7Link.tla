----------------------------- MODULE Sysex7Link -----------------------------
(***************************************************************************)
(* send_sysex7 on one end of a link, a sysex7_collector on the other.      *)
(*                                                                         *)
(* The link is first in, first out.  What it does to packets is external   *)
(* to the library, which is used over transports that lose or repeat them: *)
(* Faults says which of that may happen.                                   *)
(***************************************************************************)
EXTENDS Naturals, Sequences

CONSTANTS
  Messages,    \* messages the application sends
  MaxSize,     \* bytes of the longest of them, with the manufacturer ID
  MaxPayload, Byte, MinCapacity, KeepCapacity, Limits,  \* see Sysex7Collector
  Faults,      \* what may happen to a packet: "lost", "repeated"
  MaxSent,     \* bound on the messages sent, for TLC
  MaxFaults    \* bound on the faults, for TLC

VARIABLES
  link,       \* packets under way, each with the number of its message and its
              \* position in the message
  sent,       \* history: the messages sent
  delivered,  \* history: the messages delivered
  hurt,       \* history: number of the message that had a fault last, or 0
  faults,     \* history: number of faults
  state, msg, capacity, maxSize, hasCallback, call, wire  \* see Sysex7Collector

linkVars == <<link, sent, delivered, hurt, faults>>
collectorVars == <<state, msg, capacity, maxSize, hasCallback, call, wire>>
vars == <<linkVars, collectorVars>>

Sender == INSTANCE SysexSender
Collector == INSTANCE Sysex7Collector WITH MaxMessage <- 0

\* The manufacturer IDs of the MIDI specification, of one and three bytes.  Not
\* the ID 0: send_sysex7 writes one byte of it, and whoever reads a message takes
\* the first two data bytes for the others.
Ids == {<<m>> : m \in Byte \ {0}} \union ({<<0, m, n>> : m, n \in Byte} \ {<<0, 0, 0>>})

\* A packet has room for more than a manufacturer ID, as it is with 6 bytes.  A
\* limit leaves room for the longest message, and for what is collected beside it
\* when packets are repeated, or when the end of one message and the start of
\* another are lost: a message over the limit takes the next one with it.
ASSUME LinkAssumption ==
  /\ Faults \subseteq {"lost", "repeated"}
  /\ MaxSent \in Nat /\ MaxFaults \in Nat /\ MaxSize \in Nat
  /\ Collector!CollectorAssumption
  /\ MaxPayload > 3
  /\ Messages \subseteq [manufacturer : Ids, data : Seq(Byte)]
  /\ \A m \in Messages : Sender!TotalDataSize(m) <= MaxSize
  /\ \A s \in Limits : s = 0 \/ s >= (MaxFaults + 1) * MaxSize

Init ==
  /\ link = <<>> /\ sent = <<>> /\ delivered = <<>> /\ hurt = 0 /\ faults = 0
  /\ Collector!Init
  /\ hasCallback = TRUE

\* send_sysex7: the sender callback gets every packet before the call returns.
Send(m) ==
  /\ Len(sent) < MaxSent
  /\ sent' = Append(sent, m)
  /\ link' = link \o [k \in 1..Len(Sender!Sysex7Packets(m)) |->
                        [packet |-> Sender!Sysex7Packets(m)[k], number |-> Len(sent) + 1,
                         position |-> k]]
  /\ UNCHANGED <<delivered, hurt, faults, collectorVars>>

\* The collector is fed with the next packet; a repeated one stays in the link.
Receive(fault) ==
  /\ link # <<>>
  /\ Collector!Feed(Head(link).packet)
  /\ delivered' = IF call'.made
                    THEN Append(delivered, [manufacturer |-> call'.manufacturer,
                                            data         |-> call'.data])
                    ELSE delivered
  /\ \/ /\ fault = "none"
        /\ link' = Tail(link)
        /\ UNCHANGED <<hurt, faults>>
     \/ /\ fault = "repeated" /\ fault \in Faults /\ faults < MaxFaults
        /\ hurt' = Head(link).number
        /\ faults' = faults + 1
        /\ UNCHANGED link
  /\ UNCHANGED sent

Lose ==
  /\ "lost" \in Faults /\ faults < MaxFaults
  /\ link # <<>>
  /\ link' = Tail(link)
  /\ hurt' = Head(link).number
  /\ faults' = faults + 1
  /\ UNCHANGED <<sent, delivered, collectorVars>>

\* The limit is set before, between and within messages.
SetLimit(s) ==
  /\ maxSize # s
  /\ Collector!SetMaxSysexDataSize(s)
  /\ UNCHANGED linkVars

Next ==
  \/ \E m \in Messages : Send(m)
  \/ \E fault \in {"none", "repeated"} : Receive(fault)
  \/ Lose
  \/ \E s \in Limits : SetLimit(s)

Spec == Init /\ [][Next]_vars

\* feed() is called with every packet that arrives, and returns.
FairSpec == Spec /\ WF_vars(Receive("none"))

-----------------------------------------------------------------------------
(* Properties. *)

\* Messages that were not received completely.  A message has a packet at least.
UnderWay == IF link = <<>> THEN <<>> ELSE SubSeq(sent, Head(link).number, Len(sent))

Channel == INSTANCE SysexChannel WITH
  pending <- UnderWay, hurt <- link # <<>> /\ hurt = Head(link).number

\* Sender and collector implement the channel: whatever the sizes of messages,
\* the growth of the buffer and the limits on the way, and whatever is lost or
\* repeated, a message all of whose packets come through once is delivered once,
\* as it was sent, in order, and in the end.
ImplementsChannel == Channel!FairSpec

=============================================================================
