-------------------------- MODULE Sysex8Collector --------------------------
(***************************************************************************)
(* The reassembly of System Exclusive (8 bit) messages: class              *)
(* midi::sysex8_collector.                                                 *)
(*                                                                         *)
(* A packet names the stream it belongs to.  The collector follows one     *)
(* stream at a time: that of the last start.  A manufacturer ID is sent in *)
(* two bytes; the collector's progress with it and the ID it has decoded   *)
(* are functions of the bytes read so far, kept here as msg.id.            *)
(***************************************************************************)
EXTENDS Naturals, Sequences

CONSTANTS
  Byte,         \* values of a payload byte
  Streams,      \* stream IDs
  MaxPayload,   \* bytes a sysex8 packet can carry (13)
  MinCapacity,  \* smallest size the buffer grows to (128)
  KeepCapacity, \* a cleared buffer above this size is freed (16384)
  Limits,       \* arguments of set_max_sysex_data_size, 0 is "no limit"
  MaxMessage    \* bound on the bytes of one message, for TLC

ASSUME CollectorAssumption ==
  /\ Byte \subseteq 0..255 /\ 0 \in Byte
  /\ 0 \in Streams
  /\ MaxPayload \in Nat \ {0}
  /\ MinCapacity \in Nat
  /\ 2 * MaxPayload <= MinCapacity  \* one growth makes room for any packet
  /\ KeepCapacity \in Nat
  /\ Limits \subseteq Nat
  /\ MaxMessage \in Nat

VARIABLES
  state,       \* m_state: "start" or "continue"
  stream,      \* m_stream_id
  msg,         \* m_sysex8 and m_manufacturer_id_state
  capacity,    \* m_sysex8.data.capacity()
  maxSize,     \* m_max_sysex_data_size
  hasCallback, \* m_cb is not empty
  call,        \* the arguments of the callback the last step made, or NoCall
  wire         \* history: the message the packets on the wire describe

vars == <<state, stream, msg, capacity, maxSize, hasCallback, call, wire>>

Formats  == {"complete", "start", "continue", "end"}
Payloads == UNION {[1..n -> Byte] : n \in 0..MaxPayload}
Packets  == [format : Formats, stream : Streams, payload : Payloads]

IsFirst(p) == p.format \in {"complete", "start"}
IsLast(p)  == p.format \in {"complete", "end"}

Smaller(a, b) == IF a < b THEN a ELSE b
Larger(a, b)  == IF a > b THEN a ELSE b

NoCall == [made |-> FALSE]
Call(id, data, s) == [made |-> TRUE, manufacturer |-> id, data |-> data, stream |-> s]

-----------------------------------------------------------------------------
Empty == [id |-> <<>>, data |-> <<>>]

\* Faulty variant: the mark of an ID of three bytes is taken for a bit of it.
ManufacturerUnmasked(id) ==
  CASE Len(id) >= 1 /\ id[1] >= 128 -> <<0, id[1], IF Len(id) = 2 THEN id[2] % 128 ELSE 0>>
    [] Len(id) = 2 /\ id[1] = 0 -> <<id[2] % 128, 0, 0>>
    [] OTHER -> <<0, 0, 0>>

\* The manufacturer ID decoded from the bytes read: its three bytes.  The first
\* byte read tells which of them follow; IDs that start with 1..127 are invalid.
Manufacturer(id) ==
  CASE Len(id) >= 1 /\ id[1] >= 128 ->
         <<0, id[1] % 128, IF Len(id) = 2 THEN id[2] % 128 ELSE 0>>
    [] Len(id) = 2 /\ id[1] = 0 -> <<id[2] % 128, 0, 0>>
    [] OTHER -> <<0, 0, 0>>

\* Faulty variant: an invalid ID has one byte.
CollectInvalidShort(m, payload) ==
  LET id == m.id \o payload
      k  == IF id # <<>> /\ id[1] \in 1..127 THEN 1 ELSE Smaller(2, Len(id))
      n  == k - Len(m.id)
  IN  IF n < 0 THEN [m EXCEPT !.data = @ \o payload]
      ELSE [id   |-> SubSeq(id, 1, k),
            data |-> m.data \o SubSeq(payload, n + 1, Len(payload))]

Collect(m, payload) ==
  LET k == Smaller(2 - Len(m.id), Len(payload))
  IN  [id   |-> m.id \o SubSeq(payload, 1, k),
       data |-> m.data \o SubSeq(payload, k + 1, Len(payload))]

\* Capacity after sysex::clear(): shrink_to_fit is a request, not an order.
Cleared(c) == IF c > KeepCapacity THEN {0, c} ELSE {c}

\* Faulty variants of the growth: no minimum, and no regard to the limit.
GrownByDoubling(c, size, n) ==
  IF size + n <= c THEN c
  ELSE Larger(c, IF maxSize > 0 THEN Smaller(2 * c, maxSize) ELSE 2 * c)

GrownUnlimited(c, size, n) ==
  IF size + n <= c THEN c ELSE Larger(MinCapacity, 2 * c)

\* Capacity after making room for n more bytes beside size ones.
Grown(c, size, n) ==
  IF size + n <= c
    THEN c
    ELSE LET wanted == Larger(MinCapacity, 2 * c)
         IN  Larger(c, IF maxSize > 0 THEN Smaller(wanted, maxSize) ELSE wanted)

-----------------------------------------------------------------------------
(* History.  bytes: what the packets of `stream` since its last first      *)
(* packet carry; phase, rejected, tainted: as in Sysex7Collector.          *)

NoWire == [bytes |-> <<>>, stream |-> 0, phase |-> "none",
           rejected |-> FALSE, tainted |-> FALSE]

Extended(p) ==
  [bytes    |-> IF IsFirst(p) THEN p.payload ELSE wire.bytes \o p.payload,
   stream   |-> p.stream,
   phase    |-> IF IsLast(p) THEN "ended" ELSE "open",
   rejected |-> FALSE,
   tainted  |-> IF IsFirst(p) THEN wire.rejected ELSE wire.tainted]

\* What a packet makes of the message on the wire, whatever the collector does
\* with it: packets of another stream are no part of it, and packets that
\* continue nothing make none.
WireAfter(p) ==
  CASE IsFirst(p) \/ (wire.phase = "open" /\ p.stream = wire.stream) -> Extended(p)
    [] ~IsFirst(p) /\ wire.phase = "open" /\ p.stream # wire.stream -> wire
    [] OTHER -> NoWire

\* No packet was fed: a message that ended is history.
WireIdle == [wire EXCEPT !.phase = IF @ = "ended" THEN "none" ELSE @]

-----------------------------------------------------------------------------
Init ==
  /\ state = "start" /\ stream = 0
  /\ msg = Empty
  /\ capacity = 0
  /\ maxSize = 0
  /\ hasCallback \in BOOLEAN
  /\ call = NoCall
  /\ wire = NoWire

\* feed() of a continue or end packet that continues nothing.
IgnoreOrphan(p) ==
  /\ ~IsFirst(p)
  /\ state # "continue"
  /\ state' = "start" /\ stream' = 0
  /\ msg' = Empty
  /\ capacity' \in Cleared(capacity)
  /\ call' = NoCall
  /\ wire' = WireAfter(p)
  /\ UNCHANGED <<maxSize, hasCallback>>

\* feed() of a continue or end packet of another stream.
IgnoreForeign(p) ==
  /\ ~IsFirst(p)
  /\ state = "continue"
  /\ p.stream # stream
  /\ call' = NoCall
  /\ wire' = WireAfter(p)
  /\ UNCHANGED <<state, stream, msg, capacity, maxSize, hasCallback>>

\* Faulty variant: continue packets of any stream are taken.
AcceptedOfAnyStream(p, m, c) ==
  \/ /\ IsFirst(p) /\ state # "start"
     /\ m = Empty
     /\ c \in Cleared(capacity)
  \/ /\ IF IsFirst(p) THEN state = "start" ELSE state = "continue"
     /\ m = msg
     /\ c = capacity

\* A packet feed() goes on with, and the message and capacity it finds after
\* the reset() a first packet makes in the middle of a message.
Accepted(p, m, c) ==
  \/ /\ IsFirst(p) /\ state # "start"
     /\ m = Empty
     /\ c \in Cleared(capacity)
  \/ /\ IF IsFirst(p) THEN state = "start" ELSE state = "continue" /\ p.stream = stream
     /\ m = msg
     /\ c = capacity

\* Faulty variant: the bytes of the manufacturer ID count as data.
FitsWithManufacturer(p, m, c) ==
  maxSize > 0 =>
    LET size == Len(m.id) + Len(m.data)
    IN  size + Len(p.payload) <= Grown(c, size, Len(p.payload))

Fits(p, m, c) ==
  maxSize > 0 =>
    Len(m.data) + Len(p.payload) <= Grown(c, Len(m.data), Len(p.payload))

\* The packet does not fit: feed() returns early, what was collected stays.
Reject(p) ==
  /\ \E m \in {msg, Empty}, c \in {0, capacity} :
       /\ Accepted(p, m, c)
       /\ ~Fits(p, m, c)
       /\ msg' = m
       /\ capacity' = Grown(c, Len(m.data), Len(p.payload))
  /\ state' = "start" /\ stream' = p.stream
  /\ call' = NoCall
  /\ wire' = [WireAfter(p) EXCEPT !.phase = "none", !.rejected = TRUE]
  /\ UNCHANGED <<maxSize, hasCallback>>

Store(p) ==
  /\ ~IsLast(p)
  /\ \E m \in {msg, Empty}, c \in {0, capacity} :
       /\ Accepted(p, m, c)
       /\ Fits(p, m, c)
       /\ msg' = Collect(m, p.payload)
       /\ capacity' = Grown(c, Len(m.data), Len(p.payload))
  /\ state' = "continue" /\ stream' = p.stream
  /\ call' = NoCall
  /\ wire' = WireAfter(p)
  /\ UNCHANGED <<maxSize, hasCallback>>

\* The last packet: the callback, if there is one, then reset().
Deliver(p) ==
  /\ IsLast(p)
  /\ \E m \in {msg, Empty}, c \in {0, capacity} :
       /\ Accepted(p, m, c)
       /\ Fits(p, m, c)
       /\ capacity' \in Cleared(Grown(c, Len(m.data), Len(p.payload)))
       /\ call' = IF hasCallback
                    THEN LET full == Collect(m, p.payload)
                         IN  Call(Manufacturer(full.id), full.data, p.stream)
                    ELSE NoCall
  /\ state' = "start" /\ stream' = 0
  /\ msg' = Empty
  /\ wire' = WireAfter(p)
  /\ UNCHANGED <<maxSize, hasCallback>>

Feed(p) == IgnoreOrphan(p) \/ IgnoreForeign(p) \/ Reject(p) \/ Store(p) \/ Deliver(p)

Reset ==
  /\ state' = "start" /\ stream' = 0
  /\ msg' = Empty
  /\ capacity' \in Cleared(capacity)
  /\ call' = NoCall
  /\ wire' = NoWire
  /\ UNCHANGED <<maxSize, hasCallback>>

SetMaxSysexDataSize(s) ==
  /\ maxSize' = s
  /\ capacity' = Larger(capacity, s)
  /\ call' = NoCall
  /\ wire' = WireIdle
  /\ UNCHANGED <<state, stream, msg, hasCallback>>

SetCallback(set) ==
  /\ hasCallback' = set
  /\ call' = NoCall
  /\ wire' = WireIdle
  /\ UNCHANGED <<state, stream, msg, capacity, maxSize>>

\* MaxMessage only keeps the instance finite.
Bounded(p) == Len(msg.id) + Len(msg.data) + Len(p.payload) <= MaxMessage

Next ==
  \/ \E p \in Packets : Bounded(p) /\ Feed(p)
  \/ Reset
  \/ \E s \in Limits : SetMaxSysexDataSize(s)
  \/ \E set \in BOOLEAN : SetCallback(set)

Spec == Init /\ [][Next]_vars

-----------------------------------------------------------------------------
(* Properties. *)

Ids == (0..127) \X (0..127) \X (0..127)

TypeOK ==
  /\ state \in {"start", "continue"}
  /\ stream \in Streams
  /\ msg \in [id : Seq(Byte), data : Seq(Byte)] /\ Len(msg.id) <= 2
  /\ capacity \in Nat
  /\ maxSize \in Nat
  /\ hasCallback \in BOOLEAN
  /\ call \in {NoCall} \union
              [made : {TRUE}, manufacturer : Ids, data : Seq(Byte),
               stream : Streams]
  /\ wire \in [bytes : Seq(Byte), stream : Streams, phase : {"none", "open", "ended"},
               rejected : BOOLEAN, tainted : BOOLEAN]

\* The message a byte sequence stands for: two bytes of manufacturer ID, data.
Decode(bytes, s) ==
  LET k == Smaller(2, Len(bytes))
  IN  Call(Manufacturer(SubSeq(bytes, 1, k)), SubSeq(bytes, k + 1, Len(bytes)), s)

\* However streams are interleaved and the bytes of a message are spread over
\* packets, the callback gets exactly the bytes its stream carried since the last
\* start, unless the packet before that start was rejected (feed, reset).
ExactDelivery == call.made /\ ~wire.tainted => call = Decode(wire.bytes, wire.stream)

\* The callback is made in the step that feeds the last packet of a message of
\* the stream being followed, all of whose packets fitted, and in no other step.
DeliveredIffEnded == wire.phase = "ended" /\ hasCallback <=> call.made

\* Storing a packet never needs more room than was reserved before.
WithinCapacity == Len(msg.data) <= capacity

\* The limit is on the data of a message, its manufacturer ID not counted, and a
\* message whose data is within the limit is not given up: the growth of the
\* buffer, doubled and capped by the limit, never stops short of it.  Except when
\* a packet alone is larger than the limit, the manufacturer ID it carries included.
NoEarlyReject ==
  [][wire'.rejected /\ ~wire'.tainted => \A p \in Packets : Reject(p) =>
       /\ maxSize > 0
       /\ Len(Decode(wire'.bytes, wire'.stream).data) > maxSize \/ Len(p.payload) > maxSize]_vars

\* With a limit set, no call makes the buffer grow beyond that limit.
GrowthWithinLimit ==
  [][maxSize' > 0 /\ capacity' > capacity => capacity' <= maxSize']_vars

=============================================================================
