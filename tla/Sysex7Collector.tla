-------------------------- MODULE Sysex7Collector --------------------------
(***************************************************************************)
(* The reassembly of System Exclusive (7 bit) messages from universal MIDI *)
(* packets: class midi::sysex7_collector.                                  *)
(*                                                                         *)
(* The caller feeds packets one at a time; the collector accumulates their *)
(* payload and hands a complete message to a callback.  Single threaded:   *)
(* a call of feed() is one step.                                           *)
(*                                                                         *)
(* A payload byte is a member of Byte; all that the collector tells apart  *)
(* is whether the first one is zero.  A manufacturer ID is the sequence of *)
(* the bytes it was read from: the shifts of the code place each of them   *)
(* in a field of its own.                                                  *)
(***************************************************************************)
EXTENDS Naturals, Sequences

CONSTANTS
  Byte,         \* values of a payload byte
  MaxPayload,   \* bytes a sysex7 packet can carry (6)
  MinCapacity,  \* smallest size the buffer grows to (128)
  KeepCapacity, \* a cleared buffer above this size is freed (16384)
  Limits,       \* arguments of set_max_sysex_data_size, 0 is "no limit"
  MaxMessage    \* bound on the bytes of one message, for TLC

ASSUME CollectorAssumption ==
  /\ 0 \in Byte
  /\ MaxPayload \in Nat \ {0}
  /\ MinCapacity \in Nat
  /\ 2 * MaxPayload <= MinCapacity  \* one growth makes room for any packet
  /\ KeepCapacity \in Nat
  /\ Limits \subseteq Nat
  /\ MaxMessage \in Nat

VARIABLES
  state,       \* m_state: "start" or "continue"
  msg,         \* m_sysex7 and m_manufacturerIDBytesRead
  capacity,    \* m_sysex7.data.capacity()
  maxSize,     \* m_max_sysex_data_size
  hasCallback, \* m_cb is not empty
  call,        \* the argument of the callback the last step made, or NoCall
  wire         \* history: the message the packets on the wire describe

vars == <<state, msg, capacity, maxSize, hasCallback, call, wire>>

Statuses == {"complete", "start", "continue", "end"}
Payloads == UNION {[1..n -> Byte] : n \in 0..MaxPayload}
Packets  == [status : Statuses, payload : Payloads]

IsFirst(p) == p.status \in {"complete", "start"}
IsLast(p)  == p.status \in {"complete", "end"}

Smaller(a, b) == IF a < b THEN a ELSE b
Larger(a, b)  == IF a > b THEN a ELSE b

NoCall == [made |-> FALSE]
Call(id, data) == [made |-> TRUE, manufacturer |-> id, data |-> data]

-----------------------------------------------------------------------------
(* The buffer. *)

Empty == [idRead |-> 0, manufacturer |-> <<>>, data |-> <<>>]

\* Faulty variant: every packet is searched for a new manufacturer ID.
IdBytesOfEveryPacket(idRead, payload) ==
  IF payload # <<>> /\ payload[1] # 0 THEN 1 ELSE Smaller(3 - idRead, Len(payload))

\* Payload bytes the switch of feed() routes to the manufacturer ID when
\* idRead bytes of it have been read.
IdBytes(idRead, payload) ==
  IF idRead = 0 /\ payload # <<>> /\ payload[1] # 0
    THEN 1
    ELSE Smaller(3 - idRead, Len(payload))

\* Faulty variant: counts a whole packet as read manufacturer ID.
CollectMiscounted(m, payload) ==
  [idRead       |-> m.idRead + Len(payload),
   manufacturer |-> m.manufacturer,
   data         |-> m.data \o payload]

Collect(m, payload) ==
  LET k == IdBytes(m.idRead, payload)
  IN  [idRead       |-> IF m.idRead = 0 /\ payload # <<>> /\ payload[1] # 0
                          THEN 3 ELSE m.idRead + k,
       manufacturer |-> m.manufacturer \o SubSeq(payload, 1, k),
       data         |-> m.data \o SubSeq(payload, k + 1, Len(payload))]

\* Capacity after sysex::clear(): shrink_to_fit is a request, not an order.
Cleared(c) == IF c > KeepCapacity THEN {0, c} ELSE {c}

\* Faulty variants of the growth: no minimum, and no regard to the limit.
GrownByDoubling(c, size, n) ==
  IF size + n <= c THEN c
  ELSE Larger(c, IF maxSize > 0 THEN Smaller(2 * c, maxSize) ELSE 2 * c)

GrownUnlimited(c, size, n) ==
  IF size + n <= c THEN c ELSE Larger(MinCapacity, 2 * c)

\* Capacity after making room for n more bytes beside size ones.
Grown(c, size, n) ==
  IF size + n <= c
    THEN c
    ELSE LET wanted == Larger(MinCapacity, 2 * c)
         IN  Larger(c, IF maxSize > 0 THEN Smaller(wanted, maxSize) ELSE wanted)

-----------------------------------------------------------------------------
(* History.  bytes: what the packets since the last first packet carry;    *)
(* phase: "open" between a first and a last packet, "ended" in the step of *)
(* the last one; rejected: the last packet exceeded the buffer; tainted:   *)
(* the packet fed before this message's first packet was rejected.         *)

NoWire == [bytes |-> <<>>, phase |-> "none", rejected |-> FALSE, tainted |-> FALSE]

Extended(p) ==
  [bytes    |-> IF IsFirst(p) THEN p.payload ELSE wire.bytes \o p.payload,
   phase    |-> IF IsLast(p) THEN "ended" ELSE "open",
   rejected |-> FALSE,
   tainted  |-> IF IsFirst(p) THEN wire.rejected ELSE wire.tainted]

\* What a packet makes of the message on the wire, whatever the collector does
\* with it: packets that continue nothing make none.
WireAfter(p) == IF IsFirst(p) \/ wire.phase = "open" THEN Extended(p) ELSE NoWire

\* No packet was fed: a message that ended is history.
WireIdle == [wire EXCEPT !.phase = IF @ = "ended" THEN "none" ELSE @]

-----------------------------------------------------------------------------
Init ==
  /\ state = "start"
  /\ msg = Empty
  /\ capacity = 0
  /\ maxSize = 0
  /\ hasCallback \in BOOLEAN
  /\ call = NoCall
  /\ wire = NoWire

\* feed() of a continue or end packet that continues nothing.
IgnoreOrphan(p) ==
  /\ ~IsFirst(p)
  /\ state # "continue"
  /\ state' = "start"
  /\ msg' = Empty
  /\ capacity' \in Cleared(capacity)
  /\ call' = NoCall
  /\ wire' = WireAfter(p)
  /\ UNCHANGED <<maxSize, hasCallback>>

\* Faulty variant: an end packet needs no start.
AcceptedWithoutStart(p, m, c) == m = msg /\ c = capacity

\* A packet feed() goes on with, and the message and capacity it finds after
\* the reset() a first packet makes in the middle of a message.
Accepted(p, m, c) ==
  \/ /\ IsFirst(p) /\ state # "start"
     /\ m = Empty
     /\ c \in Cleared(capacity)
  \/ /\ IF IsFirst(p) THEN state = "start" ELSE state = "continue"
     /\ m = msg
     /\ c = capacity

\* Faulty variant: the bytes of the manufacturer ID count as data.
FitsWithManufacturer(p, m, c) ==
  maxSize > 0 =>
    LET size == Len(m.manufacturer) + Len(m.data)
    IN  size + Len(p.payload) <= Grown(c, size, Len(p.payload))

Fits(p, m, c) ==
  maxSize > 0 =>
    Len(m.data) + Len(p.payload) <= Grown(c, Len(m.data), Len(p.payload))

\* The packet does not fit: feed() returns early, what was collected stays.
Reject(p) ==
  /\ \E m \in {msg, Empty}, c \in {0, capacity} :
       /\ Accepted(p, m, c)
       /\ ~Fits(p, m, c)
       /\ msg' = m
       /\ capacity' = Grown(c, Len(m.data), Len(p.payload))
  /\ state' = "start"
  /\ call' = NoCall
  /\ wire' = [WireAfter(p) EXCEPT !.phase = "none", !.rejected = TRUE]
  /\ UNCHANGED <<maxSize, hasCallback>>

Store(p) ==
  /\ ~IsLast(p)
  /\ \E m \in {msg, Empty}, c \in {0, capacity} :
       /\ Accepted(p, m, c)
       /\ Fits(p, m, c)
       /\ msg' = Collect(m, p.payload)
       /\ capacity' = Grown(c, Len(m.data), Len(p.payload))
  /\ state' = "continue"
  /\ call' = NoCall
  /\ wire' = WireAfter(p)
  /\ UNCHANGED <<maxSize, hasCallback>>

\* The last packet: the callback, if there is one, then reset().
Deliver(p) ==
  /\ IsLast(p)
  /\ \E m \in {msg, Empty}, c \in {0, capacity} :
       /\ Accepted(p, m, c)
       /\ Fits(p, m, c)
       /\ capacity' \in Cleared(Grown(c, Len(m.data), Len(p.payload)))
       /\ call' = IF hasCallback
                    THEN LET full == Collect(m, p.payload)
                         IN  Call(full.manufacturer, full.data)
                    ELSE NoCall
  /\ state' = "start"
  /\ msg' = Empty
  /\ wire' = WireAfter(p)
  /\ UNCHANGED <<maxSize, hasCallback>>

Feed(p) == IgnoreOrphan(p) \/ Reject(p) \/ Store(p) \/ Deliver(p)

Reset ==
  /\ state' = "start"
  /\ msg' = Empty
  /\ capacity' \in Cleared(capacity)
  /\ call' = NoCall
  /\ wire' = NoWire
  /\ UNCHANGED <<maxSize, hasCallback>>

SetMaxSysexDataSize(s) ==
  /\ maxSize' = s
  /\ capacity' = Larger(capacity, s)
  /\ call' = NoCall
  /\ wire' = WireIdle
  /\ UNCHANGED <<state, msg, hasCallback>>

SetCallback(set) ==
  /\ hasCallback' = set
  /\ call' = NoCall
  /\ wire' = WireIdle
  /\ UNCHANGED <<state, msg, capacity, maxSize>>

\* MaxMessage only keeps the instance finite.
Bounded(p) == Len(msg.manufacturer) + Len(msg.data) + Len(p.payload) <= MaxMessage

Next ==
  \/ \E p \in Packets : Bounded(p) /\ Feed(p)
  \/ Reset
  \/ \E s \in Limits : SetMaxSysexDataSize(s)
  \/ \E set \in BOOLEAN : SetCallback(set)

Spec == Init /\ [][Next]_vars

-----------------------------------------------------------------------------
(* Properties. *)

TypeOK ==
  /\ state \in {"start", "continue"}
  /\ msg \in [idRead : 0..3, manufacturer : Seq(Byte), data : Seq(Byte)]
  /\ capacity \in Nat
  /\ maxSize \in Nat
  /\ hasCallback \in BOOLEAN
  /\ call \in {NoCall} \union
              [made : {TRUE}, manufacturer : Seq(Byte), data : Seq(Byte)]
  /\ wire \in [bytes : Seq(Byte), phase : {"none", "open", "ended"},
               rejected : BOOLEAN, tainted : BOOLEAN]

\* The message a byte sequence stands for: a manufacturer ID is one byte, or
\* three when the first one is zero; the rest is data.
ManufacturerLength(bytes) ==
  IF bytes # <<>> /\ bytes[1] # 0 THEN 1 ELSE Smaller(3, Len(bytes))

Decode(bytes) ==
  LET k == ManufacturerLength(bytes)
  IN  Call(SubSeq(bytes, 1, k), SubSeq(bytes, k + 1, Len(bytes)))

\* However the bytes of a message are spread over packets, and whatever was fed
\* before, the callback gets exactly the message sent since the last start,
\* unless the packet before that start was rejected (feed, reset).
ExactDelivery == call.made /\ ~wire.tainted => call = Decode(wire.bytes)

\* The callback is made in the step that feeds the last packet of a message
\* whose every packet was seen and fitted, and in no other step: no orphan end
\* packet delivers, no complete message is lost, none is delivered twice.
DeliveredIffEnded == wire.phase = "ended" /\ hasCallback <=> call.made

\* Storing a packet never needs more room than was reserved before, so the byte
\* loop of feed() does not reallocate and the capacity is what bounds memory.
WithinCapacity == Len(msg.data) <= capacity

\* The limit is on the data of a message, its manufacturer ID not counted, and a
\* message whose data is within the limit is not given up: the growth of the
\* buffer, doubled and capped by the limit, never stops short of it.  Except when
\* a packet alone is larger than the limit, the manufacturer ID it carries included.
NoEarlyReject ==
  [][wire'.rejected /\ ~wire'.tainted => \A p \in Packets : Reject(p) =>
       /\ maxSize > 0
       /\ Len(Decode(wire'.bytes).data) > maxSize \/ Len(p.payload) > maxSize]_vars

\* With a limit set, no call makes the buffer grow beyond that limit.
GrowthWithinLimit ==
  [][maxSize' > 0 /\ capacity' > capacity => capacity' <= maxSize']_vars

-----------------------------------------------------------------------------
(* What a comment of the code says, and the code does not do. *)

\* "panic, data size exceeds m_max_sysex_data_size, wait for start of new sysex
\* message": the message that follows a rejected one is delivered as sent.
RecoversAfterReject == call.made => call = Decode(wire.bytes)

=============================================================================
