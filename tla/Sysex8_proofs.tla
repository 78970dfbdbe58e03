---------------------------- MODULE Sysex8_proofs ----------------------------
(***************************************************************************)
(* Proofs about Sysex8Collector, for every set of bytes, packet size,      *)
(* capacity and set of limits, and then about Sysex8Link, for every set of *)
(* messages and streams as well.                                           *)
(***************************************************************************)
EXTENDS Sysex8Link, FiniteSetTheorems, SequenceTheorems, TLAPS

\* Of the other collector, with this one's constants, only what it says of
\* sequences that are cut in two and of the sender.
Cuts == INSTANCE Sysex7Collector_proofs

LEMMA SameSizes == Cuts!CollectorAssumption
BY CollectorAssumption DEF CollectorAssumption, Cuts!CollectorAssumption

\* The collector has read exactly `bytes`: its state is what a reader of the
\* whole message at once would have found.
Holds(m, bytes) ==
  /\ m.id = SubSeq(bytes, 1, Smaller(2, Len(bytes)))
  /\ m.data = SubSeq(bytes, Smaller(2, Len(bytes)) + 1, Len(bytes))

\* The strengthening that makes ExactDelivery and DeliveredIffEnded inductive:
\* the collector and the wire agree on whether a message is open and of which
\* stream, what is collected of a message is what its stream carried of it, and
\* outside of a message the buffer is empty unless the last packet was rejected.
IInv ==
  /\ TypeOK
  /\ state = "continue" <=> wire.phase = "open"
  /\ state = "continue" => stream = wire.stream
  /\ state = "continue" /\ ~wire.tainted => Holds(msg, wire.bytes)
  /\ state = "start" /\ ~wire.rejected => msg = Empty
  /\ wire.rejected => wire.phase = "none"
  /\ WithinCapacity
  /\ ExactDelivery
  /\ DeliveredIffEnded

Buffers == {m \in [id : Seq(Byte), data : Seq(Byte)] : Len(m.id) <= 2}

Wires == [bytes : Seq(Byte), stream : Streams, phase : {"none", "open", "ended"},
          rejected : BOOLEAN, tainted : BOOLEAN]

\* The calls an application may make, with messages of any length: the bound of
\* Next is TLC's.
Calls ==
  \/ \E p \in Packets : Feed(p)
  \/ Reset
  \/ \E s \in Limits : SetMaxSysexDataSize(s)
  \/ \E set \in BOOLEAN : SetCallback(set)

\* What holds of calls with messages of any length holds of the specification.
LEMMA AnyLength == [Next]_vars => [Calls]_vars
BY DEF Next, Calls

-----------------------------------------------------------------------------
(* Lemmas about packets and the buffer. *)

\* A payload is a sequence of at most MaxPayload bytes.
LEMMA PayloadIsSeq ==
  ASSUME NEW p \in Packets
  PROVE  /\ p.payload \in Seq(Byte)
         /\ Len(p.payload) \in 0..MaxPayload
         /\ p.format \in Formats /\ p.stream \in Streams
<1>1. PICK n \in 0..MaxPayload : p.payload \in [1..n -> Byte]
  BY DEF Packets, Payloads
<1>2. n \in Nat
  BY CollectorAssumption DEF CollectorAssumption
<1>3. p.payload \in Seq(Byte)
  BY <1>1, <1>2, SeqDef
<1>4. Len(p.payload) = n
  BY <1>1, <1>2, <1>3, LenProperties
<1> QED BY <1>3, <1>4 DEF Packets

\* The manufacturer ID that is decoded has three bytes of seven bits.
LEMMA ManufacturerType ==
  ASSUME NEW id \in Seq(Byte), Len(id) <= 2
  PROVE  Manufacturer(id) \in Ids
<1>1. Len(id) \in Nat /\ \A i \in 1..Len(id) : id[i] \in 0..255
  BY LenProperties, ElementOfSeq, CollectorAssumption DEF CollectorAssumption
<1>2. \A n \in 0..255 : n % 128 \in 0..127
  OBVIOUS
<1>3. \A a, b, c \in 0..127 : <<a, b, c>> \in Ids
  BY DEF Ids
<1>4. ASSUME Len(id) >= 1 PROVE id[1] % 128 \in 0..127
  <2>1. id[1] \in 0..255
    BY <1>1, <1>4
  <2> QED BY <1>2, <2>1
<1>5. ASSUME Len(id) = 2 PROVE id[2] % 128 \in 0..127
  <2>1. id[2] \in 0..255
    BY <1>1, <1>5
  <2> QED BY <1>2, <2>1
<1>6. 0 \in 0..127
  OBVIOUS
<1>7. CASE Len(id) >= 1 /\ id[1] >= 128
  <2>1. PICK c \in 0..127 : c = IF Len(id) = 2 THEN id[2] % 128 ELSE 0
    BY <1>5, <1>6
  <2>2. PICK b \in 0..127 : b = id[1] % 128
    BY <1>4, <1>7
  <2>3. Manufacturer(id) = <<0, b, c>>
    BY <1>7, <2>1, <2>2 DEF Manufacturer
  <2>4. <<0, b, c>> \in Ids
    BY <1>3, <1>6
  <2> QED BY <2>3, <2>4
<1>8. CASE ~(Len(id) >= 1 /\ id[1] >= 128) /\ Len(id) = 2 /\ id[1] = 0
  <2>1. PICK c \in 0..127 : c = id[2] % 128
    BY <1>5, <1>8
  <2>2. Manufacturer(id) = <<c, 0, 0>>
    BY <1>8, <2>1 DEF Manufacturer
  <2>3. <<c, 0, 0>> \in Ids
    BY <1>3, <1>6
  <2> QED BY <2>2, <2>3
<1>9. CASE ~(Len(id) >= 1 /\ id[1] >= 128) /\ ~(Len(id) = 2 /\ id[1] = 0)
  <2>1. Manufacturer(id) = <<0, 0, 0>>
    BY <1>9 DEF Manufacturer
  <2>2. <<0, 0, 0>> \in Ids
    BY <1>3, <1>6
  <2> QED BY <2>1, <2>2
<1> QED BY <1>7, <1>8, <1>9

\* Where a payload is cut: r bytes of the ID have been read, n are at hand.
LEMMA CutPlace ==
  \A r \in 0..2, n \in Nat :
    Smaller(2 - r, n) \in 0..n /\ Smaller(2 - r, n) \in 0..2 /\ r + Smaller(2 - r, n) <= 2
BY DEF Smaller

\* Cutting b bytes and then n more is cutting b + n of them.
LEMMA CutMore ==
  \A b, n \in Nat :
    /\ Smaller(2, b) \in 0..b /\ Smaller(2, b) \in 0..2
    /\ Smaller(2 - Smaller(2, b), n) = 0 \/ Smaller(2, b) = b
    /\ Smaller(2, b + n) = Smaller(2, b) + Smaller(2 - Smaller(2, b), n)
BY DEF Smaller

\* Collecting a payload keeps the shape of the buffer, and adds to the data what
\* the ID does not take.
LEMMA CollectType ==
  ASSUME NEW m \in Buffers, NEW s \in Seq(Byte)
  PROVE  /\ Collect(m, s) \in Buffers
         /\ Len(Collect(m, s).data) \in Nat
         /\ Len(Collect(m, s).data) <= Len(m.data) + Len(s)
<1> DEFINE k == Smaller(2 - Len(m.id), Len(s))
<1>0. m.id \in Seq(Byte) /\ m.data \in Seq(Byte) /\ Len(m.id) <= 2
  BY DEF Buffers
<1>9. Len(m.id) \in Nat /\ Len(m.data) \in Nat /\ Len(s) \in Nat
  BY <1>0, LenProperties
<1>1. Len(m.id) \in 0..2
  <2>1. PICK r \in Nat : r = Len(m.id)
    BY <1>9
  <2>2. r <= 2
    BY <1>0, <2>1
  <2>3. r \in 0..2
    BY <2>2
  <2> QED BY <2>1, <2>3
<1>2. k \in 0..Len(s) /\ k \in 0..2 /\ Len(m.id) + k <= 2
  BY <1>9, <1>1, CutPlace
<1>3. /\ SubSeq(s, 1, k) \in Seq(Byte) /\ Len(SubSeq(s, 1, k)) = k
      /\ SubSeq(s, k + 1, Len(s)) \in Seq(Byte)
      /\ Len(SubSeq(s, k + 1, Len(s))) = Len(s) - k
  BY <1>2, SameSizes, Cuts!CutType
<1> HIDE DEF k
<1>4. /\ m.id \o SubSeq(s, 1, k) \in Seq(Byte)
      /\ Len(m.id \o SubSeq(s, 1, k)) = Len(m.id) + k
      /\ m.data \o SubSeq(s, k + 1, Len(s)) \in Seq(Byte)
      /\ Len(m.data \o SubSeq(s, k + 1, Len(s))) = Len(m.data) + (Len(s) - k)
  BY <1>0, <1>3, ConcatProperties
<1>5. /\ Collect(m, s).id = m.id \o SubSeq(s, 1, k)
      /\ Collect(m, s).data = m.data \o SubSeq(s, k + 1, Len(s))
      /\ Collect(m, s) = [id |-> m.id \o SubSeq(s, 1, k),
                          data |-> m.data \o SubSeq(s, k + 1, Len(s))]
  BY DEF Collect, k
<1>6. Collect(m, s) \in Buffers
  BY <1>2, <1>4, <1>5 DEF Buffers
<1>7. PICK d, n, kk \in Nat : d = Len(m.data) /\ n = Len(s) /\ kk = k /\ kk <= n
  BY <1>9, <1>2
<1>8. d + (n - kk) \in Nat /\ d + (n - kk) <= d + n
  BY <1>7
<1> QED BY <1>4, <1>5, <1>6, <1>7, <1>8

\* Reading a message packet by packet is reading it at once: the buffer that
\* holds b holds b \o s after a packet with payload s.
LEMMA CollectHolds ==
  ASSUME NEW m \in Buffers, NEW b \in Seq(Byte), NEW s \in Seq(Byte), Holds(m, b)
  PROVE  Holds(Collect(m, s), b \o s)
<1> DEFINE c == b \o s
           i == Smaller(2, Len(b))
           k == Smaller(2 - Len(m.id), Len(s))
<1>1. Len(b) \in Nat /\ Len(s) \in Nat /\ Len(c) = Len(b) + Len(s)
  BY LenProperties, ConcatProperties
<1>2. i \in 0..Len(b) /\ i \in 0..2
  BY <1>1, CutMore
<1>3. m.id = SubSeq(b, 1, i) /\ m.data = SubSeq(b, i + 1, Len(b))
  BY DEF Holds
<1>4. Len(m.id) = i
  <2> HIDE DEF i
  <2> QED BY <1>2, <1>3, SameSizes, Cuts!CutType
<1>5. k \in 0..Len(s) /\ (k = 0 \/ i = Len(b)) /\ Smaller(2, Len(c)) = i + k
  <2>1. k = Smaller(2 - i, Len(s))
    BY <1>4
  <2>2. k \in 0..Len(s)
    BY <1>1, <1>2, <2>1, CutPlace
  <2>3. (k = 0 \/ i = Len(b)) /\ Smaller(2, Len(b) + Len(s)) = i + k
    BY <1>1, <2>1, CutMore
  <2> QED BY <1>1, <2>2, <2>3
<1>6. /\ Collect(m, s).id = SubSeq(b, 1, i) \o SubSeq(s, 1, k)
      /\ Collect(m, s).data = SubSeq(b, i + 1, Len(b)) \o SubSeq(s, k + 1, Len(s))
  BY <1>3 DEF Collect
<1>7. /\ SubSeq(b, 1, i) \o SubSeq(s, 1, k) = SubSeq(c, 1, i + k)
      /\ SubSeq(b, i + 1, Len(b)) \o SubSeq(s, k + 1, Len(s)) = SubSeq(c, i + k + 1, Len(c))
  <2>1. i \in 0..Len(b) /\ k \in 0..Len(s) /\ (k = 0 \/ i = Len(b))
    BY <1>2, <1>5
  <2> HIDE DEF i, k
  <2>2. /\ SubSeq(b, 1, i) \o SubSeq(s, 1, k) = SubSeq(b \o s, 1, i + k)
        /\ SubSeq(b, i + 1, Len(b)) \o SubSeq(s, k + 1, Len(s))
             = SubSeq(b \o s, i + k + 1, Len(b \o s))
    BY <2>1, SameSizes, Cuts!CutConcat
  <2> QED BY <2>2
<1> HIDE DEF i, k
<1> QED BY <1>5, <1>6, <1>7 DEF Holds

-----------------------------------------------------------------------------
(* Type correctness. *)

\* The capacity of the buffer is a number before and after clear and growth.
LEMMA CapacityType ==
  ASSUME TypeOK, NEW c \in Nat, NEW size \in Nat, NEW n \in Nat
  PROVE  /\ Cleared(c) \subseteq Nat
         /\ Grown(c, size, n) \in Nat
         /\ Grown(c, size, n) >= c
BY CollectorAssumption
   DEF CollectorAssumption, TypeOK, Cleared, Grown, Smaller, Larger

\* The message and the capacity that feed() goes on with have their types.
LEMMA AcceptedType ==
  ASSUME TypeOK, NEW p \in Packets, NEW m \in {msg, Empty}, NEW c \in {0, capacity}
  PROVE  /\ m \in Buffers
         /\ c \in Nat
         /\ Len(m.data) \in Nat
         /\ Len(p.payload) \in Nat
         /\ Collect(m, p.payload) \in Buffers
         /\ Grown(c, Len(m.data), Len(p.payload)) \in Nat
<1>1. Empty \in Buffers
  BY EmptySeq, Len(<<>>) = 0 DEF Empty, Buffers
<1>2. m \in Buffers /\ c \in Nat
  BY <1>1 DEF TypeOK, Buffers
<1>3. Len(m.data) \in Nat
  BY <1>2, LenProperties DEF Buffers
<1>4. p.payload \in Seq(Byte) /\ Len(p.payload) \in Nat
  BY PayloadIsSeq, LenProperties
<1> QED BY <1>2, <1>3, <1>4, CollectType, CapacityType

\* The history variable keeps its type.
LEMMA WireAfterType ==
  ASSUME TypeOK, NEW p \in Packets
  PROVE  WireAfter(p) \in Wires
<1>1. p.payload \in Seq(Byte)
  BY PayloadIsSeq
<1>2. wire.bytes \o p.payload \in Seq(Byte)
  BY <1>1, ConcatProperties DEF TypeOK
<1>3. p.stream \in Streams /\ 0 \in Streams
  BY PayloadIsSeq, CollectorAssumption DEF CollectorAssumption
<1>4. wire \in Wires
  BY DEF TypeOK, Wires
<1>5. Extended(p) \in Wires
  BY <1>1, <1>2, <1>4 , <1>3 DEF Extended, Wires
<1>6. NoWire \in Wires
  BY <1>3, EmptySeq DEF NoWire, Wires
<1> QED BY <1>4, <1>5, <1>6 DEF WireAfter

\* A new collector has its types ...
LEMMA TypeInit == Init => TypeOK
BY EmptySeq, CollectorAssumption DEF Init, TypeOK, Empty, NoCall, NoWire, CollectorAssumption

\* ... and every call keeps them.
LEMMA TypeStep == TypeOK /\ [Calls]_vars => TypeOK'
<1> SUFFICES ASSUME TypeOK, [Calls]_vars PROVE TypeOK'
  OBVIOUS
<1> USE DEF TypeOK
<1>0. 0 \in Streams /\ \A p \in Packets : p.stream \in Streams
  BY PayloadIsSeq, CollectorAssumption DEF CollectorAssumption
<1>1. ASSUME NEW p \in Packets, IgnoreOrphan(p) PROVE TypeOK'
  <2>1. Cleared(capacity) \subseteq Nat
    BY CapacityType
  <2>2. wire' \in Wires
    BY <1>1, WireAfterType DEF IgnoreOrphan
  <2> QED BY <1>0, <1>1, <2>1, <2>2, EmptySeq DEF IgnoreOrphan, Empty, Wires
<1>9. ASSUME NEW p \in Packets, IgnoreForeign(p) PROVE TypeOK'
  <2>1. wire' \in Wires
    BY <1>9, WireAfterType DEF IgnoreForeign
  <2> QED BY <1>9, <2>1 DEF IgnoreForeign, Wires
<1>2. ASSUME NEW p \in Packets, Reject(p) PROVE TypeOK'
  <2>1. msg' \in Buffers /\ capacity' \in Nat
    <3>1. PICK m \in {msg, Empty}, c \in {0, capacity} :
            msg' = m /\ capacity' = Grown(c, Len(m.data), Len(p.payload))
      BY <1>2 DEF Reject
    <3>2. /\ m \in Buffers /\ Collect(m, p.payload) \in Buffers
          /\ Grown(c, Len(m.data), Len(p.payload)) \in Nat
      BY AcceptedType
    <3> QED BY <3>1, <3>2, Zenon
  <2>2. wire' \in Wires
    <3>1. WireAfter(p) \in Wires
      BY WireAfterType
    <3> QED BY <1>2, <3>1 DEF Reject, Wires
  <2>3. msg' \in [id : Seq(Byte), data : Seq(Byte)] /\ Len(msg'.id) <= 2
    BY <2>1 DEF Buffers
  <2>4. stream' \in Streams /\ call' = NoCall /\ UNCHANGED <<maxSize, hasCallback>>
        /\ state' = "start"
    BY <1>0, <1>2 DEF Reject
  <2> QED BY <2>1, <2>2, <2>3, <2>4 DEF Wires
<1>3. ASSUME NEW p \in Packets, Store(p) PROVE TypeOK'
  <2>1. msg' \in Buffers /\ capacity' \in Nat
    <3>1. PICK m \in {msg, Empty}, c \in {0, capacity} :
            msg' = Collect(m, p.payload) /\ capacity' = Grown(c, Len(m.data), Len(p.payload))
      BY <1>3 DEF Store
    <3>2. /\ m \in Buffers /\ Collect(m, p.payload) \in Buffers
          /\ Grown(c, Len(m.data), Len(p.payload)) \in Nat
      BY AcceptedType
    <3> QED BY <3>1, <3>2, Zenon
  <2>2. wire' \in Wires
    <3>1. wire' = WireAfter(p)
      BY <1>3 DEF Store
    <3> QED BY <3>1, WireAfterType, Zenon
  <2> QED BY <1>0, <1>3, <2>1, <2>2 DEF Store, Buffers, Wires
<1>4. ASSUME NEW p \in Packets, Deliver(p) PROVE TypeOK'
  <2>1. PICK m \in {msg, Empty}, c \in {0, capacity} :
          /\ capacity' \in Cleared(Grown(c, Len(m.data), Len(p.payload)))
          /\ call' = IF hasCallback
                       THEN LET full == Collect(m, p.payload)
                            IN  Call(Manufacturer(full.id), full.data, p.stream)
                       ELSE NoCall
    BY <1>4 DEF Deliver
  <2>2. capacity' \in Nat
    BY <2>1, AcceptedType, CapacityType
  <2>3. call' \in {NoCall} \union
                  [made : {TRUE}, manufacturer : Ids, data : Seq(Byte),
                   stream : Streams]
    <3>1. Collect(m, p.payload) \in Buffers
      BY AcceptedType
    <3>2. Manufacturer(Collect(m, p.payload).id) \in Ids
      BY <3>1, ManufacturerType DEF Buffers
    <3>3. Collect(m, p.payload).data \in Seq(Byte)
      BY <3>1 DEF Buffers
    <3> QED BY <1>0, <2>1, <3>2, <3>3 DEF Call
  <2>4. wire' \in Wires
    BY <1>4, WireAfterType DEF Deliver
  <2>5. Empty \in [id : Seq(Byte), data : Seq(Byte)] /\ Len(Empty.id) <= 2
    BY EmptySeq DEF Empty
  <2>6. /\ stream' \in Streams /\ UNCHANGED <<maxSize, hasCallback>>
        /\ state' = "start" /\ msg' = Empty
    BY <1>0, <1>4 DEF Deliver
  <2> QED BY <2>2, <2>3, <2>4, <2>5, <2>6 DEF Wires
<1>5. ASSUME Reset PROVE TypeOK'
  <2>1. Cleared(capacity) \subseteq Nat
    BY CapacityType
  <2> QED BY <1>0, <1>5, <2>1, EmptySeq DEF Reset, Empty, NoWire
<1>6. ASSUME NEW s \in Limits, SetMaxSysexDataSize(s) PROVE TypeOK'
  BY <1>6, CollectorAssumption
     DEF SetMaxSysexDataSize, CollectorAssumption, Larger, WireIdle
<1>7. ASSUME NEW set \in BOOLEAN, SetCallback(set) PROVE TypeOK'
  BY <1>7 DEF SetCallback, WireIdle
<1>8. CASE UNCHANGED vars
  BY <1>8 DEF vars
<1> QED
  BY <1>1, <1>2, <1>3, <1>4, <1>5, <1>6, <1>7, <1>8, <1>9 DEF Calls, Feed

\* Every variable keeps its type, whatever the packets, limits and callbacks.
THEOREM TypeCorrect == Spec => []TypeOK
BY TypeInit, TypeStep, AnyLength, PTL DEF Spec

-----------------------------------------------------------------------------
(* Delivery. *)

\* The collector goes on with a packet just when the wire does.
LEMMA AcceptedIsHeard ==
  ASSUME IInv, NEW p \in Packets, NEW m, NEW c, Accepted(p, m, c)
  PROVE  WireAfter(p) = Extended(p)
BY DEF Accepted, WireAfter, IInv

\* What feed() holds after adding a packet to a message that is not tainted is
\* what the wire carried of that message.
LEMMA AcceptedHolds ==
  ASSUME IInv, NEW p \in Packets, NEW m \in {msg, Empty}, NEW c \in {0, capacity},
         Accepted(p, m, c), ~WireAfter(p).tainted
  PROVE  Holds(Collect(m, p.payload), WireAfter(p).bytes)
<1>0. WireAfter(p) = Extended(p)
  BY AcceptedIsHeard
<1>1. TypeOK /\ p.payload \in Seq(Byte) /\ m \in Buffers
  BY PayloadIsSeq, AcceptedType DEF IInv
<1>2. CASE IsFirst(p)
  <2>1. ~wire.rejected
    BY <1>0, <1>2 DEF Extended
  <2>2. m = Empty
    BY <1>1, <1>2, <2>1 DEF Accepted, IInv, TypeOK
  <2>3. Holds(Empty, <<>>)
    BY SubSeqEmpty DEF Holds, Empty, Smaller
  <2>4. Holds(Collect(m, p.payload), <<>> \o p.payload)
    BY <1>1, <2>2, <2>3, CollectHolds, EmptySeq
  <2>5. <<>> \o p.payload = p.payload
    BY <1>1, ConcatEmptySeq
  <2> QED BY <1>0, <1>2, <2>4, <2>5 DEF Extended
<1>3. CASE ~IsFirst(p)
  <2>1. m = msg /\ state = "continue" /\ ~wire.tainted
    BY <1>0, <1>3 DEF Accepted, Extended
  <2>2. Holds(m, wire.bytes) /\ wire.bytes \in Seq(Byte)
    BY <1>1, <2>1 DEF IInv, TypeOK
  <2> QED BY <1>0, <1>1, <1>3, <2>2, CollectHolds DEF Extended
<1> QED BY <1>2, <1>3

\* The growth policy makes room for any packet up to the limit, if there is one.
LEMMA GrowthMakesRoom ==
  ASSUME TypeOK, NEW c \in Nat, NEW size \in 0..c, NEW n \in 0..MaxPayload
  PROVE  /\ maxSize = 0 => size + n <= Grown(c, size, n)
         /\ size + n > Grown(c, size, n) => size + n > maxSize
<1>1. MaxPayload \in Nat /\ MinCapacity \in Nat /\ 2 * MaxPayload <= MinCapacity
  BY CollectorAssumption DEF CollectorAssumption
<1>2. maxSize \in Nat
  BY DEF TypeOK
<1>3. size + n <= Larger(MinCapacity, 2 * c)
  BY <1>1 DEF Larger
<1> DEFINE wanted == Larger(MinCapacity, 2 * c)
<1>4. wanted \in Nat /\ size + n <= wanted
  BY <1>1, <1>3 DEF Larger
<1>5. Grown(c, size, n) = IF size + n <= c THEN c
        ELSE Larger(c, IF maxSize > 0 THEN Smaller(wanted, maxSize) ELSE wanted)
  BY DEF Grown
<1> HIDE DEF wanted
<1> QED BY <1>1, <1>2, <1>4, <1>5 DEF Larger, Smaller

\* A packet that fits leaves no more data than the buffer has room for.
LEMMA FittingStaysWithin ==
  ASSUME IInv, NEW p \in Packets, NEW m \in {msg, Empty}, NEW c \in {0, capacity},
         Accepted(p, m, c), Fits(p, m, c)
  PROVE  Len(Collect(m, p.payload).data) <= Grown(c, Len(m.data), Len(p.payload))
<1>1. /\ TypeOK /\ m \in Buffers /\ c \in Nat /\ Len(m.data) \in Nat
      /\ p.payload \in Seq(Byte) /\ Len(p.payload) \in 0..MaxPayload
      /\ Grown(c, Len(m.data), Len(p.payload)) \in Nat
  BY PayloadIsSeq, AcceptedType DEF IInv
<1>2. Len(m.data) <= c
  BY <1>1, EmptySeq DEF Accepted, IInv, WithinCapacity, Empty
<1>3. /\ Len(Collect(m, p.payload).data) \in Nat
      /\ Len(Collect(m, p.payload).data) <= Len(m.data) + Len(p.payload)
  BY <1>1, CollectType
<1>5. Len(m.data) + Len(p.payload) <= Grown(c, Len(m.data), Len(p.payload))
  <2>1. maxSize \in Nat
    BY <1>1 DEF TypeOK
  <2>2. CASE maxSize > 0
    BY <2>2 DEF Fits
  <2>3. CASE maxSize = 0
    <3>1. Len(m.data) \in 0..c
      BY <1>1, <1>2
    <3> QED BY <1>1, <2>3, <3>1, GrowthMakesRoom
  <2>4. maxSize > 0 \/ maxSize = 0
    BY <2>1
  <2> QED BY <2>2, <2>3, <2>4
<1>6. PICK size, n, d, g \in Nat :
        /\ size = Len(m.data) /\ n = Len(p.payload)
        /\ d = Len(Collect(m, p.payload).data)
        /\ g = Grown(c, Len(m.data), Len(p.payload))
  BY <1>1, <1>3
<1>7. d <= size + n /\ size + n <= g
  BY <1>3, <1>5, <1>6
<1>8. d <= g
  BY <1>7
<1> QED BY <1>6, <1>8

\* A new collector satisfies the invariant ...
LEMMA InvInit == Init => IInv
<1> SUFFICES ASSUME Init PROVE IInv
  OBVIOUS
<1>1. TypeOK
  BY TypeInit
<1> QED BY <1>1, EmptySeq
     DEF Init, IInv, NoWire, NoCall, Empty, WithinCapacity, ExactDelivery, DeliveredIffEnded

\* ... and every call keeps it.
LEMMA InvStep == IInv /\ [Calls]_vars => IInv'
<1> SUFFICES ASSUME IInv, [Calls]_vars PROVE IInv'
  OBVIOUS
<1>0. TypeOK /\ TypeOK'
  BY TypeStep DEF IInv
<1>1. ASSUME NEW p \in Packets, IgnoreOrphan(p) PROVE IInv'
  <2>1. WithinCapacity'
    BY <1>0, <1>1, EmptySeq DEF IgnoreOrphan, WithinCapacity, Empty, TypeOK
  <2>2. wire' = NoWire
    BY <1>0, <1>1 DEF IgnoreOrphan, WireAfter, IInv
  <2> QED BY <1>0, <1>1, <2>1, <2>2
    DEF IgnoreOrphan, IInv, NoWire, NoCall, ExactDelivery, DeliveredIffEnded
<1>9. ASSUME NEW p \in Packets, IgnoreForeign(p) PROVE IInv'
  <2>1. /\ state = "continue" /\ wire.phase = "open" /\ p.stream # wire.stream
        /\ ~wire.rejected
    BY <1>0, <1>9 DEF IgnoreForeign, IInv
  <2>2. wire' = wire
    BY <1>9, <2>1 DEF IgnoreForeign, WireAfter
  <2> QED BY <1>0, <1>9, <2>1, <2>2
    DEF IgnoreForeign, IInv, Holds, NoCall, WithinCapacity, ExactDelivery, DeliveredIffEnded
<1>2. ASSUME NEW p \in Packets, Reject(p) PROVE IInv'
  <2>1. state' = "start" /\ wire'.phase = "none" /\ wire'.rejected /\ ~call'.made
    BY <1>2, AcceptedIsHeard DEF Reject, Extended, NoCall
  <2>2. WithinCapacity'
    <3>1. PICK m \in {msg, Empty}, c \in {0, capacity} :
            /\ Accepted(p, m, c)
            /\ msg' = m /\ capacity' = Grown(c, Len(m.data), Len(p.payload))
      BY <1>2 DEF Reject
    <3>2. Len(m.data) \in Nat /\ Len(p.payload) \in Nat /\ c \in Nat
      BY <1>0, AcceptedType
    <3>3. Len(m.data) <= c
      BY <1>0, <3>1, <3>2, EmptySeq DEF Accepted, IInv, WithinCapacity, Empty
    <3>4. capacity' >= c /\ capacity' \in Nat
      BY <1>0, <3>1, <3>2, CapacityType
    <3> QED BY <3>1, <3>2, <3>3, <3>4 DEF WithinCapacity
  <2> QED BY <1>0, <2>1, <2>2 DEF IInv, ExactDelivery, DeliveredIffEnded
<1>3. ASSUME NEW p \in Packets, Store(p) PROVE IInv'
  <2>1. /\ state' = "continue" /\ wire' = WireAfter(p) /\ wire'.phase = "open" /\ ~call'.made
        /\ ~wire'.rejected /\ stream' = wire'.stream
    <3>1. WireAfter(p) = Extended(p)
      BY <1>3, AcceptedIsHeard DEF Store
    <3> QED BY <1>3, <3>1 DEF Store, Extended, NoCall
  <2>2. ~wire'.tainted => Holds(msg', wire'.bytes)
    BY <1>3, <2>1, AcceptedHolds DEF Store
  <2>3. (state = "continue" /\ ~wire.tainted => Holds(msg, wire.bytes))'
    BY <2>2 DEF Holds
  <2>4. WithinCapacity'
    BY <1>3, FittingStaysWithin DEF Store, WithinCapacity
  <2> QED BY <1>0, <2>1, <2>3, <2>4 DEF IInv, ExactDelivery, DeliveredIffEnded
<1>4. ASSUME NEW p \in Packets, Deliver(p) PROVE IInv'
  <2>1. PICK m \in {msg, Empty}, c \in {0, capacity} :
          /\ Accepted(p, m, c)
          /\ call' = IF hasCallback
                       THEN LET full == Collect(m, p.payload)
                            IN  Call(Manufacturer(full.id), full.data, p.stream)
                       ELSE NoCall
    BY <1>4 DEF Deliver
  <2>2. /\ state' = "start" /\ msg' = Empty /\ hasCallback' = hasCallback
        /\ wire' = WireAfter(p) /\ wire'.phase = "ended" /\ wire'.stream = p.stream
        /\ ~wire'.rejected
    <3>1. WireAfter(p) = Extended(p)
      BY <2>1, AcceptedIsHeard
    <3> QED BY <1>4, <3>1 DEF Deliver, Extended
  <2>3. ~wire'.tainted => Holds(Collect(m, p.payload), wire'.bytes)
    BY <2>1, <2>2, AcceptedHolds
  <2>4. DeliveredIffEnded'
    BY <1>0, <2>1, <2>2 DEF DeliveredIffEnded, NoCall, Call, TypeOK
  <2>5. ExactDelivery'
    <3>1. SUFFICES ASSUME call'.made, ~wire'.tainted
                   PROVE  call' = Decode(wire'.bytes, wire'.stream)
      BY DEF ExactDelivery, Decode, Call, Manufacturer, Smaller
    <3>2. call' = Call(Manufacturer(Collect(m, p.payload).id),
                       Collect(m, p.payload).data, p.stream)
      BY <2>1, <3>1 DEF NoCall
    <3>3. Holds(Collect(m, p.payload), wire'.bytes)
      BY <2>3, <3>1
    <3> QED BY <2>2, <3>2, <3>3 DEF Holds, Decode
  <2>6. WithinCapacity'
    BY <1>0, <2>2, EmptySeq DEF WithinCapacity, Empty, TypeOK
  <2> QED BY <1>0, <2>2, <2>4, <2>5, <2>6 DEF IInv
<1>5. ASSUME Reset PROVE IInv'
  <2>1. WithinCapacity'
    BY <1>0, <1>5, EmptySeq DEF Reset, WithinCapacity, Empty, TypeOK
  <2> QED BY <1>0, <1>5, <2>1 DEF Reset, IInv, NoWire, NoCall, ExactDelivery, DeliveredIffEnded
<1>6. ASSUME NEW s \in Limits, SetMaxSysexDataSize(s) PROVE IInv'
  <2>1. WithinCapacity'
    <3>1. Len(msg.data) \in Nat /\ capacity \in Nat /\ s \in Nat
      BY <1>0, LenProperties, CollectorAssumption DEF TypeOK, CollectorAssumption
    <3> QED BY <1>6, <3>1 DEF SetMaxSysexDataSize, IInv, WithinCapacity, Larger
  <2> QED BY <1>0, <1>6, <2>1
     DEF SetMaxSysexDataSize, IInv, WireIdle, NoCall, ExactDelivery, DeliveredIffEnded,
         Holds, TypeOK
<1>7. ASSUME NEW set \in BOOLEAN, SetCallback(set) PROVE IInv'
  BY <1>0, <1>7
     DEF SetCallback, IInv, WireIdle, NoCall, ExactDelivery, DeliveredIffEnded, Holds, TypeOK, WithinCapacity
<1>8. CASE UNCHANGED vars
  BY <1>0, <1>8 DEF vars, IInv, WithinCapacity, ExactDelivery, DeliveredIffEnded, Decode, Holds
<1> QED
  BY <1>1, <1>2, <1>3, <1>4, <1>5, <1>6, <1>7, <1>8, <1>9 DEF Calls, Feed

\* The strengthened invariant holds throughout (sysex8_collector::feed and reset).
THEOREM Invariance == Spec => []IInv
BY InvInit, InvStep, AnyLength, PTL DEF Spec

\* The callback gets exactly what was sent, unless the packet before the start
\* of the message was rejected (sysex8_collector::feed).
THEOREM DeliveryIsExact == Spec => []ExactDelivery
<1>1. IInv => ExactDelivery
  BY DEF IInv
<1> QED BY <1>1, Invariance, PTL

\* The callback is made for the last packet of a message seen from its start,
\* once, and for nothing else (sysex8_collector::feed).
THEOREM DeliveryIsOnce == Spec => []DeliveredIffEnded
<1>1. IInv => DeliveredIffEnded
  BY DEF IInv
<1> QED BY <1>1, Invariance, PTL

\* The data never outgrows the buffer that was reserved for it.
THEOREM DataWithinCapacity == Spec => []WithinCapacity
<1>1. IInv => WithinCapacity
  BY DEF IInv
<1> QED BY <1>1, Invariance, PTL

\* A packet is rejected only when the data is longer than the limit with it, or the
\* packet alone is: the bytes of the manufacturer ID are no data, and a packet that
\* brings them is measured with them only as long as there is no data before it.
LEMMA RejectedPacket ==
  ASSUME IInv, NEW p \in Packets, Reject(p), ~wire'.tainted
  PROVE  /\ maxSize > 0
         /\ Len(Decode(wire'.bytes, wire'.stream).data) > maxSize \/ Len(p.payload) > maxSize
<1>1. PICK m \in {msg, Empty}, c \in {0, capacity} : Accepted(p, m, c) /\ ~Fits(p, m, c)
  BY DEF Reject
<1>2. /\ TypeOK /\ maxSize \in Nat /\ m \in Buffers /\ c \in Nat
      /\ Len(m.data) \in Nat
      /\ p.payload \in Seq(Byte) /\ Len(p.payload) \in 0..MaxPayload
  BY PayloadIsSeq, AcceptedType DEF IInv, TypeOK
<1>3. Len(m.data) <= c
  BY <1>1, <1>2, EmptySeq DEF Accepted, IInv, WithinCapacity, Empty
<1>4. maxSize > 0 /\ Len(m.data) + Len(p.payload) > maxSize
  <2>1. maxSize > 0 /\ ~(Len(m.data) + Len(p.payload) <= Grown(c, Len(m.data), Len(p.payload)))
    BY <1>1, <1>2 DEF Fits
  <2>2. Grown(c, Len(m.data), Len(p.payload)) \in Nat
    BY <1>2, AcceptedType
  <2>3. Len(m.data) \in 0..c
    BY <1>2, <1>3
  <2>4. Len(m.data) + Len(p.payload) > Grown(c, Len(m.data), Len(p.payload)) =>
          Len(m.data) + Len(p.payload) > maxSize
    BY <1>2, <2>3, GrowthMakesRoom
  <2>5. PICK size, n, g \in Nat :
          /\ size = Len(m.data) /\ n = Len(p.payload)
          /\ g = Grown(c, Len(m.data), Len(p.payload))
    BY <1>2, <2>2
  <2>6. ~(size + n <= g)
    BY <2>1, <2>5
  <2>7. size + n > g
    BY <2>6
  <2> QED BY <2>1, <2>4, <2>5, <2>7
<1>5. CASE m.data = <<>>
  <2>1. Len(m.data) = 0
    BY <1>5, EmptySeq
  <2> QED BY <1>2, <1>4, <2>1
<1>6. CASE m.data # <<>>
  <2>1. /\ WireAfter(p) = Extended(p) /\ ~WireAfter(p).tainted
        /\ wire'.bytes = WireAfter(p).bytes /\ wire'.stream = WireAfter(p).stream
    <3>1. wire' = [WireAfter(p) EXCEPT !.phase = "none", !.rejected = TRUE]
      BY DEF Reject
    <3>2. WireAfter(p) = Extended(p)
      BY <1>1, AcceptedIsHeard
    <3>3. /\ wire'.bytes = Extended(p).bytes /\ wire'.stream = Extended(p).stream
          /\ wire'.tainted = Extended(p).tainted
      BY <3>1, <3>2 DEF Extended
    <3> QED BY <3>2, <3>3
  <2>2. Holds(m, wire.bytes) /\ wire.bytes \in Seq(Byte)
    <3>1. m # Empty
      BY <1>6 DEF Empty
    <3> QED BY <1>1, <1>2, <2>1, <3>1 DEF Accepted, IInv, TypeOK, Extended
  <2>3. m.id \in Seq(Byte) /\ Len(m.id) = 2
    <3>1. Len(wire.bytes) \in Nat
      BY <2>2, LenProperties
    <3>2. Smaller(2, Len(wire.bytes)) \in 0..Len(wire.bytes)
      BY <3>1 DEF Smaller
    <3>3. Len(m.data) = Len(wire.bytes) - Smaller(2, Len(wire.bytes))
      BY <2>2, <3>2, SameSizes, Cuts!CutType DEF Holds
    <3>4. Len(m.data) > 0
      BY <1>2, <1>6, EmptySeq DEF Buffers
    <3>5. Smaller(2, Len(wire.bytes)) # Len(wire.bytes)
      BY <3>1, <3>3, <3>4
    <3>6. Smaller(2, Len(wire.bytes)) = 2
      BY <3>1, <3>5 DEF Smaller
    <3>7. m.id = SubSeq(wire.bytes, 1, 2) /\ 2 \in 0..Len(wire.bytes)
      BY <2>2, <3>2, <3>6 DEF Holds
    <3> QED BY <2>2, <3>7, SameSizes, Cuts!CutType
  <2>4. Collect(m, p.payload).data = m.data \o p.payload
    <3>1. SubSeq(p.payload, 1, Len(p.payload)) = p.payload
      BY <1>2, SubSeqFull
    <3>2. Smaller(2 - Len(m.id), Len(p.payload)) = 0
      BY <1>2, <2>3 DEF Smaller
    <3>3. Smaller(2 - Len(m.id), Len(p.payload)) + 1 = 1
      BY <3>2
    <3> QED BY <3>1, <3>3 DEF Collect
  <2>5. Collect(m, p.payload).data = Decode(wire'.bytes, wire'.stream).data
    BY <1>1, <2>1, AcceptedHolds DEF Holds, Decode, Call
  <2>6. Len(Decode(wire'.bytes, wire'.stream).data) = Len(m.data) + Len(p.payload)
    <3>1. m.data \in Seq(Byte)
      BY <1>2 DEF Buffers
    <3>2. Len(m.data \o p.payload) = Len(m.data) + Len(p.payload)
      BY <1>2, <3>1, ConcatProperties
    <3> QED BY <2>4, <2>5, <3>2
  <2> QED BY <1>4, <2>6
<1> QED BY <1>5, <1>6

\* A message is rejected only when its data is longer than the limit, or a packet of
\* it alone: the doubling of the buffer never stops short (sysex8_collector::feed).
THEOREM RejectionIsDue == Spec => NoEarlyReject
<1> DEFINE Due == wire'.rejected /\ ~wire'.tainted => \A p \in Packets : Reject(p) =>
                    /\ maxSize > 0
                    /\ Len(Decode(wire'.bytes, wire'.stream).data) > maxSize \/ Len(p.payload) > maxSize
<1>1. IInv => [Due]_vars
  BY RejectedPacket
<1> QED BY <1>1, Invariance, PTL DEF NoEarlyReject

\* While a limit is set the buffer grows up to it at most
\* (sysex8_collector::feed and set_max_sysex_data_size).
THEOREM GrowthIsLimited == Spec => GrowthWithinLimit
<1> DEFINE Within == maxSize' > 0 /\ capacity' > capacity => capacity' <= maxSize'
<1>1. TypeOK /\ [Next]_vars => [Within]_vars
  <2> SUFFICES ASSUME TypeOK, [Next]_vars, maxSize' > 0, capacity' > capacity
               PROVE  capacity' <= maxSize'
    OBVIOUS
  <2>0. TypeOK'
    BY AnyLength, TypeStep
  <2>1. ASSUME NEW c \in {0, capacity}, NEW size \in Nat, NEW n \in Nat,
               maxSize' = maxSize, capacity' \in Cleared(Grown(c, size, n))
        PROVE  capacity' <= maxSize'
    <3>1. c \in Nat /\ c <= capacity /\ capacity \in Nat /\ maxSize \in Nat
      BY DEF TypeOK
    <3>2. Grown(c, size, n) \in Nat
      BY <3>1, CapacityType
    <3>3. capacity' = Grown(c, size, n)
      BY <2>1, <3>1, <3>2 DEF Cleared
    <3>4. Grown(c, size, n) > c
      BY <3>1, <3>2, <3>3
    <3>5. MinCapacity \in Nat
      BY CollectorAssumption DEF CollectorAssumption
    <3> QED BY <2>1, <3>1, <3>3, <3>4, <3>5 DEF Grown, Larger, Smaller
  <2>2. ASSUME NEW p \in Packets, IgnoreOrphan(p) PROVE FALSE
    BY <2>2 DEF IgnoreOrphan, Cleared, TypeOK
  <2>9. ASSUME NEW p \in Packets, IgnoreForeign(p) PROVE FALSE
    BY <2>9 DEF IgnoreForeign, TypeOK
  <2>3. ASSUME NEW p \in Packets, Reject(p) \/ Store(p) PROVE capacity' <= maxSize'
    <3>1. PICK m \in {msg, Empty}, c \in {0, capacity} :
            capacity' = Grown(c, Len(m.data), Len(p.payload))
      BY <2>3 DEF Reject, Store
    <3>2. Len(m.data) \in Nat /\ Len(p.payload) \in Nat
      BY AcceptedType
    <3>3. maxSize' = maxSize
      BY <2>3 DEF Reject, Store
    <3>4. capacity' \in Cleared(Grown(c, Len(m.data), Len(p.payload)))
      BY <3>1 DEF Cleared
    <3> QED BY <2>1, <3>2, <3>3, <3>4
  <2>4. ASSUME NEW p \in Packets, Deliver(p) PROVE capacity' <= maxSize'
    <3>1. PICK m \in {msg, Empty}, c \in {0, capacity} :
            capacity' \in Cleared(Grown(c, Len(m.data), Len(p.payload)))
      BY <2>4 DEF Deliver
    <3>2. Len(m.data) \in Nat /\ Len(p.payload) \in Nat
      BY AcceptedType
    <3>3. maxSize' = maxSize
      BY <2>4 DEF Deliver
    <3> QED BY <2>1, <3>1, <3>2, <3>3
  <2>5. ~Reset
    BY DEF Reset, Cleared, TypeOK
  <2>6. ASSUME NEW s \in Limits, SetMaxSysexDataSize(s) PROVE capacity' <= maxSize'
    BY <2>6, CollectorAssumption
       DEF SetMaxSysexDataSize, CollectorAssumption, Larger, TypeOK
  <2>7. ASSUME NEW set \in BOOLEAN, SetCallback(set) PROVE FALSE
    BY <2>7 DEF SetCallback, TypeOK
  <2>8. CASE UNCHANGED vars
    BY <2>8 DEF vars, TypeOK
  <2> QED BY <2>2, <2>3, <2>4, <2>5, <2>6, <2>7, <2>8, <2>9 DEF Next, Feed
<1> QED BY <1>1, TypeCorrect, PTL DEF Spec, GrowthWithinLimit

-----------------------------------------------------------------------------
(* Streams on a link. *)

\* total_data_size, by which send_sysex8 chooses the format of the first packet,
\* tells whether the message fits in one: it counts one or three bytes for the
\* manufacturer ID where two are sent, so that there are sizes for which it does
\* not, and none at all for the ID 0.  Those are what CollectsEveryMessage finds:
\* with 13 bytes of payload, 12 data bytes after an ID of one byte, 11 after one of
\* three, and 12 or 13 after the ID 0.
SizesAreRight ==
  \A m \in Messages :
    Sender!TotalDataSize(m) <= MaxPayload <=>
      Len(Sender!Sysex8Id(m.manufacturer)) + Len(m.data) <= MaxPayload

Bytes(m) == Sender!Sysex8Id(m.manufacturer) \o m.data

\* The packets of a message, and how many there are
Cut(m) == Sender!Sysex8Packets(m)
Count(m) == Len(Cut(m))

\* What the packets of m before the k-th one carry
Before(m, k) ==
  SubSeq(Bytes(m), 1, IF k > Count(m) THEN Len(Bytes(m)) ELSE (k - 1) * MaxPayload)

\* The k-th packet of m on stream s
PacketOf(m, s, k) ==
  [format |-> Cut(m)[k].status, stream |-> s, payload |-> Cut(m)[k].payload]

-----------------------------------------------------------------------------
(* The inductive invariant of the link. *)

Elements == [packet : Packets, number : Nat, position : Nat]

Sendings == [message : Messages, stream : Streams]

Deliveries == [manufacturer : Seq(0..127), data : Seq(Byte), stream : Streams, number : Nat]

\* Element e of the lane of stream s is the packet it says it is.
Genuine(e, s) ==
  /\ e.number \in 1..Len(sent)
  /\ sent[e.number].stream = s
  /\ e.position \in 1..Count(sent[e.number].message)
  /\ e.packet = PacketOf(sent[e.number].message, s, e.position)

\* e is the last packet of its message.
Final(e) == e.position = Count(sent[e.number].message)

\* f comes after e: the next packet of its message, or the first of a later one.
Follows(e, f) ==
  IF Final(e) THEN f.number > e.number /\ f.position = 1
              ELSE f.number = e.number /\ f.position = e.position + 1

\* f is on the lane behind e.
Earlier(e, f) ==
  e.number < f.number \/ (e.number = f.number /\ e.position < f.position)

\* A lane holds whole messages in the order they were sent, except that packets
\* of the first one may have left.
LaneHolds(s) ==
  \A i \in 1..Len(lanes[s]) :
    /\ Genuine(lanes[s][i], s)
    /\ IF i = Len(lanes[s]) THEN Final(lanes[s][i])
                            ELSE Follows(lanes[s][i], lanes[s][i + 1])
    /\ \A j \in 1..Len(lanes[s]) : i < j => Earlier(lanes[s][i], lanes[s][j])

\* Packets of message n are under way.
UnderWay(n) == \E s \in Streams : \E i \in 1..Len(lanes[s]) : lanes[s][i].number = n

LinkType ==
  /\ lanes \in [Streams -> Seq(Elements)]
  /\ sent \in Seq(Sendings)
  /\ delivered \in Seq(Deliveries)
  /\ open \in 0..Len(sent)
  /\ cut \in SUBSET (1..Len(sent))

LanesHold == \A s \in Streams : LaneHolds(s)

\* The collector has no limit, so that it gives up nothing, nor ever did.
Undisturbed ==
  /\ IInv
  /\ ~wire.rejected /\ ~wire.tainted
  /\ hasCallback
  /\ maxSize = 0

\* The message of sending n is the one being received, and its stream the one that
\* is followed: what is collected of it is what its packets carried.
Receiving(n) ==
  LET s == sent[n].stream
  IN  /\ lanes[s] # <<>>
      /\ Head(lanes[s]).number = n /\ Head(lanes[s]).position > 1
      /\ wire.phase = "open" /\ wire.stream = s
      /\ wire.bytes = Before(sent[n].message, Head(lanes[s]).position)

Heard == IF open = 0 THEN wire.phase # "open" ELSE Receiving(open)

\* Packets of a message have left its lane only when it is being received or was
\* broken into, and not all of them.
Begun ==
  /\ \A s \in Streams :
       lanes[s] # <<>> /\ Head(lanes[s]).position > 1 =>
         Head(lanes[s]).number \in cut \union {open}
  /\ open \notin cut
  /\ \A s \in Streams : \A i \in 1..Len(lanes[s]) :
       lanes[s][i].number \in cut => lanes[s][i].position > 1

\* A delivery of a message that was sent, was not broken into and has left the lanes.
Done(d) ==
  /\ d.number \in 1..Len(sent)
  /\ AsSent(d)
  /\ d.number \notin cut
  /\ ~UnderWay(d.number)

\* Every delivery is such a one, no two are of one message, and everything else that
\* left the lanes was broken into.
DeliveredOnce ==
  /\ \A k \in 1..Len(delivered) : Done(delivered[k])
  /\ \A k, l \in 1..Len(delivered) : delivered[k].number = delivered[l].number => k = l
  /\ \A n \in 1..Len(sent) : n \notin cut /\ ~UnderWay(n) =>
       \E k \in 1..Len(delivered) : delivered[k].number = n

LInv == LinkType /\ LanesHold /\ Undisturbed /\ Heard /\ Begun /\ DeliveredOnce

-----------------------------------------------------------------------------
(* Lemmas about the messages and their packets. *)

\* An ID of one or three bytes goes out in two, from which it is read again.
LEMMA IdRead ==
  ASSUME SizesAreRight, NEW id \in ManufacturerIds
  PROVE  /\ Sender!Sysex8Id(id) \in Seq(Byte)
         /\ Len(Sender!Sysex8Id(id)) = 2
         /\ Manufacturer(Sender!Sysex8Id(id)) = Triple(id)
         /\ Triple(id) \in Seq(0..127)
<1> DEFINE two == Sender!Sysex8Id(id)
<1>1. Byte = 0..255
  BY LinkAssumption DEF LinkAssumption
<1>2. CASE \E a \in SevenBits : id = <<a>>
  <2>1. PICK a \in SevenBits : id = <<a>>
    BY <1>2
  <2> a \in 0..127
    BY <2>1 DEF SevenBits
  <2>2. two = <<0, a>>
    <3>1. Len(id) = 1 /\ id[1] = a
      BY <2>1
    <3> QED BY <3>1 DEF Sender!Sysex8Id
  <2>3. a % 128 = a
    OBVIOUS
  <2>4. Manufacturer(<<0, a>>) = <<a, 0, 0>>
    BY <2>3 DEF Manufacturer
  <2>5. Triple(id) = <<a, 0, 0>>
    BY <2>1 DEF Triple
  <2> QED BY <1>1, <2>2, <2>4, <2>5
<1>3. CASE \E a, b \in SevenBits : id = <<0, a, b>> /\ (a # 0 \/ b # 0)
  <2>1. PICK a, b \in SevenBits : id = <<0, a, b>> /\ (a # 0 \/ b # 0)
    BY <1>3
  <2> a \in 0..127 /\ b \in 0..127
    BY <2>1 DEF SevenBits
  <2>2. two = <<128 + a, b>>
    <3>1. Len(id) = 3 /\ id[2] = a /\ id[3] = b
      BY <2>1
    <3> QED BY <2>1, <3>1 DEF Sender!Sysex8Id
  <2>3. (128 + a) % 128 = a /\ b % 128 = b /\ 128 + a >= 128 /\ 128 + a \in 0..255
    OBVIOUS
  <2>4. Manufacturer(<<128 + a, b>>) = <<0, a, b>>
    BY <2>3 DEF Manufacturer
  <2>5. Triple(id) = <<0, a, b>>
    BY <2>1 DEF Triple
  <2> QED BY <1>1, <2>2, <2>3, <2>4, <2>5
<1>4. CASE id = <<0, 0, 0>>
  <2>1. two = <<0, 0>>
    <3>1. Len(id) = 3 /\ id[1] = 0 /\ id[2] = 0 /\ id[3] = 0
      BY <1>4
    <3> QED BY <3>1 DEF Sender!Sysex8Id
  <2>2. Manufacturer(<<0, 0>>) = <<0, 0, 0>>
    BY DEF Manufacturer
  <2>3. Triple(id) = <<0, 0, 0>>
    BY <1>4 DEF Triple
  <2> QED BY <1>1, <2>1, <2>2, <2>3
<1>5. \/ \E a \in SevenBits : id = <<a>>
      \/ \E a, b \in SevenBits : id = <<0, a, b>> /\ (a # 0 \/ b # 0)
      \/ id = <<0, 0, 0>>
  BY DEF ManufacturerIds
<1> HIDE DEF two
<1> QED BY <1>2, <1>3, <1>4, <1>5, Zenon DEF two

\* What is said of the sender for the other collector is said of this one's.
LEMMA SameSender ==
  /\ \A m : Cuts!Sender!Sent(m, Sender!Sysex8Id(m.manufacturer)) = Cut(m)
  /\ \A m, k : Cuts!Carried(m, Sender!Sysex8Id(m.manufacturer), k) = Before(m, k)
  /\ \A m : Cuts!Sender!TotalDataSize(m) = Sender!TotalDataSize(m)
<1>1. \A m : Cuts!Sender!Sent(m, Sender!Sysex8Id(m.manufacturer)) = Cut(m)
  BY DEF Cut, Sender!Sysex8Packets, Sender!Sent, Sender!Filling,
         Sender!AddByte, Sender!First, Sender!TotalDataSize, Cuts!Sender!Sent,
         Cuts!Sender!Filling, Cuts!Sender!AddByte, Cuts!Sender!First, Cuts!Sender!TotalDataSize
<1>2. ASSUME NEW m, NEW k
      PROVE  Cuts!Carried(m, Sender!Sysex8Id(m.manufacturer), k) = Before(m, k)
  <2>1. Cuts!Sender!Sent(m, Sender!Sysex8Id(m.manufacturer)) = Cut(m)
    BY <1>1
  <2> QED BY <2>1, Zenon DEF Cuts!Carried, Before, Bytes, Count
<1>3. \A m : Cuts!Sender!TotalDataSize(m) = Sender!TotalDataSize(m)
  BY DEF Sender!TotalDataSize, Cuts!Sender!TotalDataSize
<1> QED BY <1>1, <1>2, <1>3

\* A message can be sent, and a collector that reads its bytes reads the message.
LEMMA MessageType ==
  ASSUME SizesAreRight, NEW m \in Messages, NEW s
  PROVE  /\ Cuts!Sendable(m, Sender!Sysex8Id(m.manufacturer))
         /\ m.data \in Seq(Byte)
         /\ Triple(m.manufacturer) \in Seq(0..127)
         /\ Decode(Bytes(m), s) = Call(Triple(m.manufacturer), m.data, s)
<1> DEFINE id == Sender!Sysex8Id(m.manufacturer)
           d == m.data
           b == Bytes(m)
<1>1. m.manufacturer \in ManufacturerIds /\ d \in Seq(Byte) /\ MaxPayload \in Nat /\ MaxPayload > 2
  BY CollectorAssumption, LinkAssumption DEF CollectorAssumption, LinkAssumption
<1>2. /\ id \in Seq(Byte) /\ Len(id) = 2
      /\ Manufacturer(id) = Triple(m.manufacturer)
      /\ Triple(m.manufacturer) \in Seq(0..127)
  BY <1>1, IdRead
<1>3. Cuts!Sender!TotalDataSize(m) <= MaxPayload <=> Len(id) + Len(d) <= MaxPayload
  BY SameSender DEF SizesAreRight
<1>4. b = id \o d
  BY DEF Bytes
<1> HIDE DEF b, id
<1>5. PICK n \in Nat : n = Len(d)
  BY <1>1, LenProperties
<1>6. b \in Seq(Byte) /\ Len(b) = 2 + n
  <2>1. id \o d \in Seq(Byte) /\ Len(id \o d) = Len(id) + Len(d)
    BY <1>1, <1>2, ConcatProperties
  <2> QED BY <1>2, <1>4, <1>5, <2>1, Zenon
<1>7. SubSeq(b, 1, 2) = id /\ SubSeq(b, 2 + 1, Len(b)) = d
  <2>1. /\ SubSeq(id, 1, 2) \o SubSeq(d, 1, 0) = SubSeq(b, 1, 2 + 0)
        /\ SubSeq(id, 2 + 1, Len(id)) \o SubSeq(d, 0 + 1, Len(d)) = SubSeq(b, 2 + 0 + 1, Len(b))
    <3>1. 2 \in 0..Len(id) /\ 0 \in 0..Len(d) /\ 2 = Len(id)
      BY <1>2, <1>5
    <3> QED BY <1>1, <1>2, <1>4, <3>1, SameSizes, Cuts!CutConcat
  <2>2. SubSeq(id, 1, 2) = id /\ SubSeq(d, 1, 0) = <<>>
    BY <1>1, <1>2, SubSeqFull, SubSeqEmpty
  <2>3. SubSeq(id, 2 + 1, Len(id)) = <<>> /\ SubSeq(d, 0 + 1, Len(d)) = d
    BY <1>1, <1>2, SubSeqFull, SubSeqEmpty
  <2>4. id \o <<>> = id /\ <<>> \o d = d
    BY <1>1, <1>2, ConcatEmptySeq
  <2>5. 2 + 0 = 2
    OBVIOUS
  <2> QED BY <2>1, <2>2, <2>3, <2>4, <2>5
<1>8. Smaller(2, Len(b)) = 2
  BY <1>6 DEF Smaller
<1>9. Decode(b, s) = Call(Triple(m.manufacturer), d, s)
  BY <1>2, <1>7, <1>8, Zenon DEF Decode
<1>10. 0 < Len(id) /\ Len(id) < MaxPayload
  BY <1>1, <1>2
<1>11. Cuts!Sendable(m, id)
  BY <1>1, <1>2, <1>3, <1>10 DEF Cuts!Sendable
<1> QED BY <1>1, <1>2, <1>9, <1>11 DEF b, id

\* The packets of a message on stream s: the first and the last one are told by
\* their formats, and together they carry its bytes.
LEMMA PacketsOfMessage ==
  ASSUME SizesAreRight, NEW m \in Messages, NEW s \in Streams
  PROVE  /\ Count(m) \in Nat /\ Count(m) > 0
         /\ Before(m, 1) = <<>>
         /\ Before(m, Count(m) + 1) = Bytes(m)
         /\ \A k \in 1..Count(m) :
              /\ PacketOf(m, s, k) \in Packets
              /\ PacketOf(m, s, k).stream = s
              /\ IsFirst(PacketOf(m, s, k)) <=> k = 1
              /\ IsLast(PacketOf(m, s, k)) <=> k = Count(m)
              /\ Before(m, k) \in Seq(Byte)
              /\ Before(m, k) \o PacketOf(m, s, k).payload = Before(m, k + 1)
<1> DEFINE id == Sender!Sysex8Id(m.manufacturer)
           P == Cut(m)
           N == Count(m)
<1>1. Cuts!CollectorAssumption /\ Cuts!Sendable(m, id)
  BY MessageType, SameSizes
<1>2. /\ Cuts!Sender!Sent(m, id) = P /\ id \o m.data = Bytes(m) /\ N = Len(P)
      /\ \A k : Cuts!Carried(m, id, k) = Before(m, k)
  BY SameSender DEF Bytes, Count
<1> HIDE DEF P, N, id
<1>3. /\ Cuts!Sender!Sent(m, id) \in Seq(Cuts!PacketsOf)
      /\ Len(Cuts!Sender!Sent(m, id)) \in Nat /\ Len(Cuts!Sender!Sent(m, id)) > 0
      /\ Cuts!Carried(m, id, 1) = <<>>
      /\ Cuts!Carried(m, id, Len(Cuts!Sender!Sent(m, id)) + 1) = id \o m.data
      /\ \A k \in 1..Len(Cuts!Sender!Sent(m, id)) :
           /\ Cuts!Sender!Sent(m, id)[k].status = Cuts!Format(k, Len(Cuts!Sender!Sent(m, id)))
           /\ Cuts!Sender!Sent(m, id)[k].payload \in Cuts!Payloads
           /\ Cuts!Carried(m, id, k) \in Seq(Byte)
           /\ Cuts!Carried(m, id, k) \o Cuts!Sender!Sent(m, id)[k].payload
                = Cuts!Carried(m, id, k + 1)
  BY <1>1, Cuts!PacketsCarry
<1>4. /\ P \in Seq(Cuts!PacketsOf)
      /\ N \in Nat /\ N > 0
      /\ Before(m, 1) = <<>>
      /\ Before(m, N + 1) = Bytes(m)
      /\ \A k \in 1..N :
           /\ P[k].status = Cuts!Format(k, N)
           /\ P[k].payload \in Cuts!Payloads
           /\ Before(m, k) \in Seq(Byte)
           /\ Before(m, k) \o P[k].payload = Before(m, k + 1)
  BY <1>2, <1>3, Zenon
<1>5. ASSUME NEW k \in 1..N
      PROVE  /\ PacketOf(m, s, k) \in Packets
             /\ PacketOf(m, s, k).stream = s
             /\ IsFirst(PacketOf(m, s, k)) <=> k = 1
             /\ IsLast(PacketOf(m, s, k)) <=> k = N
             /\ PacketOf(m, s, k).payload = P[k].payload
  <2>1. PacketOf(m, s, k) = [format |-> P[k].status, stream |-> s, payload |-> P[k].payload]
    BY DEF PacketOf, P
  <2>2. P[k].payload \in Payloads
    BY <1>4 DEF Payloads, Cuts!Payloads
  <2>3. P[k].status = Cuts!Format(k, N)
    BY <1>4
  <2>4. /\ P[k].status \in {"complete", "start", "continue", "end"}
        /\ P[k].status \in {"complete", "start"} <=> k = 1
        /\ P[k].status \in {"complete", "end"} <=> k = N
    BY <2>3 DEF Cuts!Format
  <2> QED BY <2>1, <2>2, <2>4 DEF Packets, Formats, IsFirst, IsLast
<1> QED BY <1>4, <1>5 DEF N

\* A packet that is sent fits the collector's reservation, having no limit, and
\* an undisturbed collector stays so and hears what is on the wire.
LEMMA Fed ==
  ASSUME SizesAreRight, Undisturbed, NEW p \in Packets, Feed(p)
  PROVE  /\ Undisturbed'
         /\ wire' = WireAfter(p)
         /\ call'.made <=> wire'.phase = "ended"
         /\ call'.made => call' = Decode(wire'.bytes, wire'.stream)
<1>1. IInv /\ [Calls]_vars
  BY DEF Calls, Undisturbed
<1>2. IInv'
  BY <1>1, InvStep
<1>3. ~Reject(p)
  BY DEF Reject, Fits, Undisturbed
<1>4. wire' = WireAfter(p) /\ maxSize' = maxSize /\ hasCallback' = hasCallback
  BY <1>3 DEF Feed, IgnoreOrphan, IgnoreForeign, Store, Deliver
<1>5. ~wire'.rejected /\ ~wire'.tainted
  BY <1>4 DEF WireAfter, Extended, NoWire, Undisturbed
<1>6. hasCallback' /\ maxSize' = 0
  BY <1>4 DEF Undisturbed
<1>7. /\ wire'.phase = "ended" /\ hasCallback' <=> call'.made
      /\ call'.made /\ ~wire'.tainted => call' = Decode(wire'.bytes, wire'.stream)
  BY <1>2 DEF IInv, DeliveredIffEnded, ExactDelivery, Decode, Call, Manufacturer, Smaller
<1> QED BY <1>2, <1>4, <1>5, <1>6, <1>7 DEF Undisturbed

-----------------------------------------------------------------------------
(* Lemmas about the lanes. *)

LEMMA LaneSeq ==
  \A l \in Seq(Elements) :
    /\ Len(l) \in Nat /\ (l = <<>> <=> Len(l) = 0)
    /\ \A i \in 1..Len(l) : l[i] \in Elements
BY EmptySeq, LenProperties, ElementOfSeq, Zenon

\* A lane without its first element
LEMMA TailOfLane ==
  \A l \in Seq(Elements) : l # <<>> =>
    /\ Head(l) = l[1]
    /\ Tail(l) \in Seq(Elements)
    /\ Len(Tail(l)) = Len(l) - 1
    /\ \A i \in 1..Len(l) - 1 : Tail(l)[i] = l[i + 1]
<1> SUFFICES ASSUME NEW l \in Seq(Elements), l # <<>>
             PROVE  /\ Head(l) = l[1]
                    /\ Tail(l) \in Seq(Elements)
                    /\ Len(Tail(l)) = Len(l) - 1
                    /\ \A i \in 1..Len(l) - 1 : Tail(l)[i] = l[i + 1]
  OBVIOUS
<1>1. /\ Head(l) = l[1]
      /\ Tail(l) \in Seq(Elements)
      /\ Len(Tail(l)) = Len(l) - 1
      /\ \A i \in 1..Len(Tail(l)) : Tail(l)[i] = l[i + 1]
  BY HeadTailProperties
<1> QED BY <1>1

\* What is at the head of a lane is a packet of a message that was sent on it.
LEMMA HeadOfLane ==
  ASSUME SizesAreRight, LinkType, LanesHold, NEW s \in Streams, lanes[s] # <<>>
  PROVE  /\ lanes[s] \in Seq(Elements) /\ Len(lanes[s]) \in Nat /\ 1 \in 1..Len(lanes[s])
         /\ Head(lanes[s]) = lanes[s][1] /\ Head(lanes[s]) \in Elements
         /\ Head(lanes[s]).number \in Nat /\ Head(lanes[s]).position \in Nat
         /\ Genuine(Head(lanes[s]), s)
         /\ sent[Head(lanes[s]).number] \in Sendings
         /\ sent[Head(lanes[s]).number].message \in Messages
<1>1. lanes[s] \in Seq(Elements)
  BY DEF LinkType
<1>2. Len(lanes[s]) \in Nat /\ Len(lanes[s]) # 0 /\ Head(lanes[s]) = lanes[s][1]
  BY <1>1, LaneSeq, TailOfLane
<1>3. 1 \in 1..Len(lanes[s])
  BY <1>2
<1>4. lanes[s][1] \in Elements
  BY <1>1, <1>3, LaneSeq
<1>5. Genuine(lanes[s][1], s)
  BY <1>3 DEF LanesHold, LaneHolds
<1>6. sent[lanes[s][1].number] \in Sendings
  BY <1>5, ElementOfSeq DEF Genuine, LinkType
<1> QED BY <1>1, <1>2, <1>3, <1>4, <1>5, <1>6 DEF Elements, Sendings

\* Nothing on a lane is of the message at its head and before it in that message,
\* and nothing but the head is the head.
LEMMA HeadIsFirst ==
  ASSUME SizesAreRight, LinkType, LanesHold, NEW s \in Streams, lanes[s] # <<>>,
         NEW i \in 1..Len(lanes[s])
  PROVE  /\ lanes[s][i].position \in Nat
         /\ i # 1 => Earlier(Head(lanes[s]), lanes[s][i])
         /\ lanes[s][i].number = Head(lanes[s]).number =>
              lanes[s][i].position >= Head(lanes[s]).position
<1>1. /\ lanes[s] \in Seq(Elements) /\ Len(lanes[s]) \in Nat /\ 1 \in 1..Len(lanes[s])
      /\ Head(lanes[s]) = lanes[s][1]
      /\ Head(lanes[s]).number \in Nat /\ Head(lanes[s]).position \in Nat
  BY HeadOfLane
<1>2. lanes[s][i] \in Elements
  BY <1>1, LaneSeq
<1>3. lanes[s][i].number \in Nat /\ lanes[s][i].position \in Nat
  BY <1>2 DEF Elements
<1>4. CASE i = 1
  BY <1>1, <1>3, <1>4
<1>5. CASE i # 1
  <2>1. 1 < i
    BY <1>1, <1>5
  <2>2. Earlier(lanes[s][1], lanes[s][i])
    BY <1>1, <2>1 DEF LanesHold, LaneHolds
  <2>3. lanes[s][i].number = lanes[s][1].number => lanes[s][i].position >= lanes[s][1].position
    BY <1>1, <1>3, <2>2 DEF Earlier
  <2> QED BY <1>1, <1>3, <2>2, <2>3
<1> QED BY <1>4, <1>5

\* The first packet leaves lane s.
Leaves(s) ==
  /\ lanes[s] # <<>>
  /\ lanes' = [lanes EXCEPT ![s] = Tail(@)]
  /\ sent' = sent

\* What is left of the lanes
LEMMA LanesLeft ==
  ASSUME SizesAreRight, LinkType, LanesHold, NEW s \in Streams, Leaves(s)
  PROVE  /\ lanes' \in [Streams -> Seq(Elements)]
         /\ lanes'[s] = Tail(lanes[s])
         /\ \A t \in Streams : t # s => lanes'[t] = lanes[t]
         /\ Len(lanes'[s]) = Len(lanes[s]) - 1
         /\ Len(lanes'[s]) \in Nat
         /\ \A i \in 1..Len(lanes'[s]) :
              i + 1 \in 1..Len(lanes[s]) /\ lanes'[s][i] = lanes[s][i + 1]
<1>1. lanes \in [Streams -> Seq(Elements)] /\ lanes[s] \in Seq(Elements) /\ lanes[s] # <<>>
  BY DEF LinkType, Leaves
<1>2. /\ Tail(lanes[s]) \in Seq(Elements)
      /\ Len(Tail(lanes[s])) = Len(lanes[s]) - 1
      /\ \A i \in 1..Len(lanes[s]) - 1 : Tail(lanes[s])[i] = lanes[s][i + 1]
      /\ Len(lanes[s]) \in Nat /\ Len(Tail(lanes[s])) \in Nat
  BY <1>1, TailOfLane, LaneSeq
<1>3. lanes' = [lanes EXCEPT ![s] = Tail(lanes[s])]
  BY DEF Leaves
<1>4. /\ lanes' \in [Streams -> Seq(Elements)] /\ lanes'[s] = Tail(lanes[s])
      /\ \A t \in Streams : t # s => lanes'[t] = lanes[t]
  BY <1>1, <1>2, <1>3, Zenon
<1>5. \A i \in 1..Len(lanes[s]) - 1 : i + 1 \in 1..Len(lanes[s])
  BY <1>2
<1> QED BY <1>2, <1>4, <1>5, Zenon

\* They are still whole messages in order.
LEMMA LanesStillHold ==
  ASSUME SizesAreRight, LinkType, LanesHold, NEW s \in Streams, Leaves(s)
  PROVE  LanesHold'
<1>1. /\ \A t \in Streams : t # s => lanes'[t] = lanes[t]
      /\ sent' = sent
  BY LanesLeft DEF Leaves
<1>2. /\ Len(lanes[s]) \in Nat /\ Len(lanes'[s]) \in Nat /\ Len(lanes'[s]) = Len(lanes[s]) - 1
      /\ \A i \in 1..Len(lanes'[s]) :
           i + 1 \in 1..Len(lanes[s]) /\ lanes'[s][i] = lanes[s][i + 1]
  BY LanesLeft, HeadOfLane DEF Leaves
<1>3. \A t \in Streams : LaneHolds(t)
  BY DEF LanesHold
<1>4. ASSUME NEW t \in Streams, t # s PROVE LaneHolds(t)'
  <2>1. lanes'[t] = lanes[t] /\ LaneHolds(t)
    BY <1>1, <1>3, <1>4
  <2>2. \A e : Genuine(e, t) => Genuine(e, t)'
    BY <1>1 DEF Genuine, Count, Cut, PacketOf
  <2>3. \A e : Final(e) <=> Final(e)'
    BY <1>1 DEF Final, Count, Cut
  <2>4. \A e, f : (Follows(e, f) => Follows(e, f)') /\ (Earlier(e, f) => Earlier(e, f)')
    BY <2>3 DEF Follows, Earlier
  <2> QED BY <2>1, <2>2, <2>3, <2>4, Zenon DEF LaneHolds
<1>5. LaneHolds(s)'
  <2> SUFFICES ASSUME NEW i \in 1..Len(lanes'[s])
               PROVE  /\ Genuine(lanes[s][i], s)'
                      /\ IF i = Len(lanes'[s])
                           THEN Final(lanes[s][i])'
                           ELSE Follows(lanes[s][i], lanes[s][i + 1])'
                      /\ \A j \in 1..Len(lanes'[s]) : i < j => Earlier(lanes[s][i], lanes[s][j])'
    BY DEF LaneHolds
  <2>1. i + 1 \in 1..Len(lanes[s]) /\ lanes'[s][i] = lanes[s][i + 1]
    BY <1>2
  <2>2. /\ Genuine(lanes[s][i + 1], s)
        /\ IF i + 1 = Len(lanes[s])
             THEN Final(lanes[s][i + 1])
             ELSE Follows(lanes[s][i + 1], lanes[s][(i + 1) + 1])
        /\ \A j \in 1..Len(lanes[s]) : i + 1 < j => Earlier(lanes[s][i + 1], lanes[s][j])
    BY <1>3, <2>1 DEF LaneHolds
  <2>3. Genuine(lanes[s][i], s)'
    BY <1>1, <2>1, <2>2 DEF Genuine, Count, Cut, PacketOf
  <2>4. CASE i = Len(lanes'[s])
    <3>1. i + 1 = Len(lanes[s])
      BY <1>2, <2>4
    <3>2. Final(lanes[s][i])'
      BY <1>1, <2>1, <2>2, <3>1 DEF Final, Count, Cut
    <3>3. \A j \in 1..Len(lanes'[s]) : ~(i < j)
      BY <1>2, <2>4
    <3> QED BY <2>3, <2>4, <3>2, <3>3
  <2>5. CASE i # Len(lanes'[s])
    <3>1. i + 1 # Len(lanes[s]) /\ i + 1 \in 1..Len(lanes'[s])
      BY <1>2, <2>5
    <3>2. lanes'[s][i + 1] = lanes[s][(i + 1) + 1]
      BY <1>2, <3>1
    <3>3. Follows(lanes[s][i], lanes[s][i + 1])'
      BY <1>1, <2>1, <2>2, <3>1, <3>2 DEF Follows, Final, Count, Cut
    <3>4. ASSUME NEW j \in 1..Len(lanes'[s]), i < j PROVE Earlier(lanes[s][i], lanes[s][j])'
      <4>1. j + 1 \in 1..Len(lanes[s]) /\ lanes'[s][j] = lanes[s][j + 1] /\ i + 1 < j + 1
        BY <1>2, <3>4
      <4> QED BY <2>1, <2>2, <4>1 DEF Earlier
    <3> QED BY <2>3, <2>5, <3>3, <3>4
  <2> QED BY <2>4, <2>5
<1> QED BY <1>4, <1>5 DEF LanesHold

\* What remains on the lanes was there before.
LEMMA NothingNew ==
  ASSUME SizesAreRight, LinkType, LanesHold, NEW s \in Streams, Leaves(s), NEW t \in Streams,
         NEW i \in 1..Len(lanes'[t])
  PROVE  \E j \in 1..Len(lanes[t]) : lanes'[t][i] = lanes[t][j]
<1>1. CASE t = s
  <2>1. i + 1 \in 1..Len(lanes[t]) /\ lanes'[t][i] = lanes[t][i + 1]
    BY <1>1, LanesLeft
  <2> QED BY <2>1
<1>2. CASE t # s
  <2>1. lanes'[t] = lanes[t]
    BY <1>2, LanesLeft
  <2> QED BY <2>1
<1> QED BY <1>1, <1>2

\* Of other messages the same are under way.
LEMMA OthersStay ==
  ASSUME SizesAreRight, LinkType, LanesHold, NEW s \in Streams, Leaves(s),
         NEW n, n # Head(lanes[s]).number
  PROVE  UnderWay(n)' <=> UnderWay(n)
<1>1. ASSUME NEW t \in Streams, NEW i \in 1..Len(lanes'[t]), lanes'[t][i].number = n
      PROVE  UnderWay(n)
  <2>1. PICK j \in 1..Len(lanes[t]) : lanes'[t][i] = lanes[t][j]
    BY NothingNew
  <2> QED BY <1>1, <2>1 DEF UnderWay
<1>2. ASSUME NEW t \in Streams, NEW i \in 1..Len(lanes[t]), lanes[t][i].number = n
      PROVE  \E u \in Streams : \E j \in 1..Len(lanes'[u]) : lanes'[u][j].number = n
  <2>1. CASE t # s
    <3>1. lanes'[t] = lanes[t]
      BY <2>1, LanesLeft
    <3> QED BY <1>2, <3>1
  <2>2. CASE t = s
    <3>1. i # 1 /\ Len(lanes[s]) \in Nat
      BY <1>2, <2>2, HeadOfLane DEF Leaves
    <3>2. i - 1 \in 1..Len(lanes'[s]) /\ (i - 1) + 1 = i
      BY <2>2, <3>1, LanesLeft
    <3>3. lanes'[s][i - 1] = lanes[s][(i - 1) + 1]
      BY <3>2, LanesLeft
    <3>4. lanes'[s][i - 1].number = n
      BY <1>2, <2>2, <3>2, <3>3
    <3> QED BY <3>2, <3>4
  <2> QED BY <2>1, <2>2
<1> QED BY <1>1, <1>2 DEF UnderWay

\* A message whose last packet leaves is not under way any more, and the next one
\* of its stream is there from its start.
LEMMA LastLeaves ==
  ASSUME SizesAreRight, LinkType, LanesHold, NEW s \in Streams, Leaves(s), Final(Head(lanes[s])),
         NEW n, n = Head(lanes[s]).number
  PROVE  /\ ~UnderWay(n)'
         /\ lanes'[s] # <<>> => Head(lanes'[s]).position = 1
<1> DEFINE h == Head(lanes[s])
<1>1. /\ lanes[s] # <<>> /\ h = lanes[s][1] /\ 1 \in 1..Len(lanes[s]) /\ Len(lanes[s]) \in Nat
      /\ h.number \in Nat /\ h.position \in Nat /\ Genuine(h, s)
  BY HeadOfLane DEF Leaves
<1>2. \A i \in 1..Len(lanes[s]) : i # 1 => lanes[s][i].number # h.number
  <2> SUFFICES ASSUME NEW i \in 1..Len(lanes[s]), i # 1, lanes[s][i].number = h.number
               PROVE  FALSE
    OBVIOUS
  <2>1. Earlier(h, lanes[s][i]) /\ lanes[s][i].position \in Nat
    BY <1>1, HeadIsFirst
  <2>2. lanes[s][i].position > h.position
    BY <1>1, <2>1 DEF Earlier
  <2>3. Genuine(lanes[s][i], s)
    BY DEF LanesHold, LaneHolds
  <2>4. /\ h.position = Count(sent[h.number].message)
        /\ lanes[s][i].position \in 1..Count(sent[h.number].message)
    BY <2>3 DEF Genuine, Final
  <2>5. Count(sent[h.number].message) \in Nat
    BY <1>1, <2>4
  <2> QED BY <1>1, <2>1, <2>2, <2>4, <2>5
<1>3. ASSUME NEW t \in Streams, NEW i \in 1..Len(lanes'[t]), lanes'[t][i].number = n
      PROVE  FALSE
  <2>1. CASE t = s
    <3>1. i + 1 \in 1..Len(lanes[s]) /\ lanes'[s][i] = lanes[s][i + 1] /\ i + 1 # 1
      BY <2>1, LanesLeft
    <3> QED BY <1>2, <1>3, <2>1, <3>1
  <2>2. CASE t # s
    <3>1. lanes'[t] = lanes[t]
      BY <2>2, LanesLeft
    <3>2. Genuine(lanes[t][i], t)
      BY <3>1 DEF LanesHold, LaneHolds
    <3>3. sent[h.number].stream = t /\ sent[h.number].stream = s
      BY <1>1, <1>3, <3>1, <3>2 DEF Genuine
    <3> QED BY <2>2, <3>3
  <2> QED BY <2>1, <2>2
<1>4. ~UnderWay(n)'
  BY <1>3 DEF UnderWay
<1>5. ASSUME lanes'[s] # <<>> PROVE Head(lanes'[s]).position = 1
  <2>1. LanesHold' /\ lanes'[s] \in Seq(Elements)
    BY LanesLeft, LanesStillHold
  <2>2. Head(lanes'[s]) = lanes'[s][1] /\ Len(lanes'[s]) # 0
    BY <1>5, <2>1, TailOfLane, LaneSeq
  <2>3. 1 \in 1..Len(lanes'[s]) /\ Len(lanes[s]) # 1
    BY <1>1, <2>2, LanesLeft
  <2>4. lanes'[s][1] = lanes[s][1 + 1]
    BY <2>3, LanesLeft
  <2>5. Follows(lanes[s][1], lanes[s][1 + 1])
    BY <1>1, <2>3 DEF LanesHold, LaneHolds
  <2> QED BY <1>1, <2>2, <2>4, <2>5 DEF Follows
<1> QED BY <1>4, <1>5

\* The packet behind one that is not the last is the next one of its message.
LEMMA NextFollows ==
  ASSUME SizesAreRight, LinkType, LanesHold, NEW s \in Streams, Leaves(s), ~Final(Head(lanes[s])),
         NEW n, n = Head(lanes[s]).number
  PROVE  /\ UnderWay(n)'
         /\ lanes'[s] # <<>>
         /\ Head(lanes'[s]).number = n
         /\ Head(lanes'[s]).position = Head(lanes[s]).position + 1
<1>1. /\ lanes[s] # <<>> /\ Head(lanes[s]) = lanes[s][1] /\ 1 \in 1..Len(lanes[s])
      /\ Len(lanes[s]) \in Nat
  BY HeadOfLane DEF Leaves
<1>2. Len(lanes[s]) # 1 /\ Follows(lanes[s][1], lanes[s][1 + 1])
  <2>1. ~Final(lanes[s][1])
    BY <1>1
  <2> QED BY <1>1, <2>1 DEF LanesHold, LaneHolds
<1>3. 1 \in 1..Len(lanes'[s])
  <2>1. Len(lanes'[s]) = Len(lanes[s]) - 1
    BY LanesLeft
  <2>2. \A x \in Nat : 1 \in 1..x /\ x # 1 => 1 \in 1..x - 1
    OBVIOUS
  <2> QED BY <1>1, <1>2, <2>1, <2>2, Zenon
<1>4. lanes'[s][1] = lanes[s][1 + 1]
  BY <1>3, LanesLeft
<1>5. lanes'[s] # <<>> /\ Head(lanes'[s]) = lanes'[s][1]
  <2>1. lanes'[s] \in Seq(Elements) /\ Len(lanes'[s]) # 0
    BY <1>3, LanesLeft
  <2> QED BY <2>1, TailOfLane, LaneSeq
<1>6. lanes'[s][1].number = n /\ lanes'[s][1].position = lanes[s][1].position + 1
  BY <1>1, <1>2, <1>4 DEF Follows
<1>7. UnderWay(n)'
  BY <1>3, <1>6 DEF UnderWay
<1> QED BY <1>1, <1>5, <1>6, <1>7

-----------------------------------------------------------------------------
(* What the collector makes of the next packet of a stream. *)

\* A message that is being received is at the head of its lane, so that it is not
\* of another stream than the packet at the head of that one is of.
LEMMA OpenElsewhere ==
  ASSUME LInv, NEW s \in Streams, NEW n, n = Head(lanes[s]).number, open # 0, open # n
  PROVE  sent[open].stream # s
BY DEF LInv, Heard, Receiving

\* Message n, that the packet at the head of lane s is of, is received; one of
\* another stream that was being received is broken into.
Taken(s, n) ==
  /\ n \notin cut'
  /\ cut' = IF open = 0 \/ open = n THEN cut ELSE cut \union {open}

\* It is complete ...
Completes(s, n) ==
  /\ Taken(s, n)
  /\ Final(Head(lanes[s]))
  /\ \E d \in Deliveries :
       d.number = n /\ AsSent(d) /\ delivered' = Append(delivered, d)
  /\ open' = 0
  /\ wire'.phase # "open"

\* ... or not yet.
GoesOn(s, n) ==
  /\ Taken(s, n)
  /\ ~Final(Head(lanes[s]))
  /\ delivered' = delivered
  /\ open' = n
  /\ wire'.phase = "open" /\ wire'.stream = s
  /\ wire'.bytes = Before(sent[n].message, Head(lanes[s]).position + 1)

\* It was broken into, and the packet changes nothing.
PassesBy(n) ==
  /\ n \in cut /\ n # open
  /\ UNCHANGED <<cut, open, delivered>>
  /\ open = 0 => wire'.phase # "open"
  /\ open # 0 => wire' = wire

\* A delivery that is what was sent
LEMMA DeliveryIsAsSent ==
  ASSUME SizesAreRight, LinkType, NEW n \in 1..Len(sent), NEW s \in Streams, sent[n].stream = s,
         NEW c, c = Decode(Bytes(sent[n].message), s)
  PROVE  LET d == [manufacturer |-> c.manufacturer, data |-> c.data,
                   stream |-> c.stream, number |-> n]
         IN  d \in Deliveries /\ d.number = n /\ AsSent(d)
<1> DEFINE m == sent[n].message
<1>1. sent[n] \in Sendings /\ Len(sent) \in Nat
  BY ElementOfSeq, LenProperties DEF LinkType
<1>2. m \in Messages /\ n \in Nat
  BY <1>1 DEF Sendings
<1> HIDE DEF m
<1>3. /\ m.data \in Seq(Byte)
      /\ Triple(m.manufacturer) \in Seq(0..127)
      /\ c = Call(Triple(m.manufacturer), m.data, s)
  BY <1>2, MessageType DEF m
<1>4. /\ c.manufacturer = Triple(m.manufacturer)
      /\ c.data = m.data
      /\ c.stream = s
  BY <1>3 DEF Call
<1> QED BY <1>2, <1>3, <1>4 DEF Deliveries, AsSent, m

LEMMA Effect ==
  ASSUME SizesAreRight, LInv, NEW s \in Streams, Receive(s), NEW n, n = Head(lanes[s]).number
  PROVE  /\ Undisturbed'
         /\ Leaves(s)
         /\ Completes(s, n) \/ GoesOn(s, n) \/ PassesBy(n)
<1> DEFINE h == Head(lanes[s])
           k == h.position
           m == sent[n].message
           p == h.packet
<1>0. LinkType /\ LanesHold /\ Undisturbed /\ Heard /\ Begun
  BY DEF LInv
<1>1. lanes[s] # <<>> /\ Leaves(s)
  BY DEF Receive, Leaves
<1>2. /\ Genuine(h, s) /\ m \in Messages /\ n \in Nat /\ k \in Nat
      /\ h = lanes[s][1] /\ 1 \in 1..Len(lanes[s])
  BY <1>0, <1>1, HeadOfLane
<1>3. /\ n \in 1..Len(sent) /\ sent[n].stream = s
      /\ k \in 1..Count(m) /\ p = PacketOf(m, s, k)
      /\ Final(h) <=> k = Count(m)
  BY <1>2 DEF Genuine, Final
<1>4. n # 0
  BY <1>3
<1> HIDE DEF m, p, k, h
<1>5. /\ p \in Packets /\ p.stream = s
      /\ IsFirst(p) <=> k = 1
      /\ IsLast(p) <=> k = Count(m)
      /\ Before(m, k) \o p.payload = Before(m, k + 1)
      /\ Before(m, 1) = <<>>
      /\ Before(m, Count(m) + 1) = Bytes(m)
  <2>1. /\ Before(m, 1) = <<>>
        /\ Before(m, Count(m) + 1) = Bytes(m)
        /\ \A i \in 1..Count(m) :
             /\ PacketOf(m, s, i) \in Packets
             /\ PacketOf(m, s, i).stream = s
             /\ IsFirst(PacketOf(m, s, i)) <=> i = 1
             /\ IsLast(PacketOf(m, s, i)) <=> i = Count(m)
             /\ Before(m, i) \o PacketOf(m, s, i).payload = Before(m, i + 1)
    BY <1>2, PacketsOfMessage
  <2> QED BY <1>3, <2>1, Zenon
<1>6. /\ Feed(p)
      /\ delivered' = IF call'.made
                        THEN Append(delivered, [manufacturer |-> call'.manufacturer,
                                                data   |-> call'.data,
                                                stream |-> call'.stream,
                                                number |-> n])
                        ELSE delivered
      /\ cut' = IF IsFirst(p) /\ open # 0 THEN cut \union {open} ELSE cut
      /\ open' = IF ~(IsFirst(p) \/ open = n) THEN open ELSE IF IsLast(p) THEN 0 ELSE n
  BY DEF Receive, p, h
<1>7. /\ Undisturbed'
      /\ wire' = WireAfter(p)
      /\ call'.made <=> wire'.phase = "ended"
      /\ call'.made => call' = Decode(wire'.bytes, wire'.stream)
  BY <1>0, <1>5, <1>6, Fed
<1>8. open = n => /\ k > 1 /\ wire.phase = "open" /\ wire.stream = s
                  /\ wire.bytes = Before(m, k)
  BY <1>0, <1>3, <1>4 DEF Heard, Receiving, h, k, m
<1>9. CASE k = 1 \/ n = open
  <2>1. WireAfter(p) = Extended(p)
    BY <1>5, <1>8, <1>9 DEF WireAfter
  <2>2. Extended(p).bytes = Before(m, k + 1)
    <3>1. CASE k = 1
      <4>1. p.payload \in Seq(Byte) /\ <<>> \o p.payload = p.payload
        BY <1>5, PayloadIsSeq, ConcatEmptySeq
      <4> QED BY <1>5, <3>1, <4>1 DEF Extended
    <3>2. CASE k # 1
      BY <1>5, <1>8, <1>9, <3>2 DEF Extended
    <3> QED BY <3>1, <3>2
  <2>3. /\ wire'.bytes = Before(m, k + 1) /\ wire'.stream = s
        /\ wire'.phase = IF k = Count(m) THEN "ended" ELSE "open"
    BY <1>5, <1>7, <2>1, <2>2 DEF Extended
  <2>4. Taken(s, n)
    <3>1. cut' = IF open = 0 \/ open = n THEN cut ELSE cut \union {open}
      BY <1>2, <1>5, <1>6, <1>8, <1>9
    <3>2. n \notin cut
      <4>1. CASE n = open
        BY <1>0, <4>1 DEF Begun
      <4>2. CASE k = 1
        <5>1. ~(lanes[s][1].position > 1) /\ lanes[s][1].number = n
          BY <1>2, <4>2 DEF h, k
        <5> QED BY <1>0, <1>2, <5>1 DEF Begun
      <4> QED BY <1>9, <4>1, <4>2
    <3> QED BY <3>1, <3>2 DEF Taken
  <2>5. CASE k = Count(m)
    <3>1. wire'.phase = "ended" /\ wire'.bytes = Bytes(m) /\ call'.made
      BY <1>5, <1>7, <2>3, <2>5
    <3>2. /\ call' = Decode(Bytes(m), s)
          /\ delivered' = Append(delivered, [manufacturer |-> call'.manufacturer,
                                             data   |-> call'.data,
                                             stream |-> call'.stream,
                                             number |-> n])
          /\ open' = 0
      BY <1>5, <1>6, <1>7, <1>9, <2>3, <2>5, <3>1
    <3>3. \E d \in Deliveries :
            d.number = n /\ AsSent(d) /\ delivered' = Append(delivered, d)
      <4>1. PICK c : c = call'
        OBVIOUS
      <4> DEFINE d == [manufacturer |-> c.manufacturer, data |-> c.data,
                       stream |-> c.stream, number |-> n]
      <4>2. d \in Deliveries /\ d.number = n /\ AsSent(d)
        BY <1>0, <1>3, <3>2, <4>1, DeliveryIsAsSent DEF m
      <4>3. delivered' = Append(delivered, d)
        BY <3>2, <4>1
      <4> HIDE DEF d
      <4> QED BY <4>2, <4>3
    <3> QED BY <1>1, <1>3, <1>7, <2>4, <2>5, <3>1, <3>2, <3>3 DEF Completes, h
  <2>6. CASE k # Count(m)
    BY <1>1, <1>3, <1>5, <1>6, <1>7, <1>9, <2>3, <2>4, <2>6 DEF GoesOn, h, k, m
  <2> QED BY <2>5, <2>6
<1>10. CASE k # 1 /\ n # open
  <2>1. ~IsFirst(p) /\ cut' = cut /\ open' = open
    BY <1>5, <1>6, <1>10
  <2>2. n \in cut
    <3>1. k > 1
      <4>1. k \in Nat /\ k >= 1 /\ k # 1
        BY <1>2, <1>3, <1>10
      <4> QED BY <4>1
    <3>2. n \in cut \union {open}
      BY <1>0, <1>1, <3>1 DEF Begun, h, k
    <3> QED BY <1>10, <3>2
  <2>3. CASE open = 0
    <3>1. wire.phase # "open"
      BY <1>0, <2>3 DEF Heard
    <3>2. wire' = NoWire
      BY <1>7, <2>1, <3>1 DEF WireAfter
    <3>3. wire'.phase = "none"
      BY <3>2 DEF NoWire
    <3> QED BY <1>1, <1>6, <1>7, <1>10, <2>1, <2>2, <2>3, <3>3 DEF PassesBy
  <2>4. CASE open # 0
    <3>1. sent[open].stream # s
      BY <1>10, <2>4, OpenElsewhere
    <3>2. wire.phase = "open" /\ wire.stream # s
      BY <1>0, <2>4, <3>1 DEF Heard, Receiving
    <3>3. wire' = wire
      BY <1>5, <1>7, <2>1, <3>2 DEF WireAfter
    <3> QED BY <1>1, <1>6, <1>7, <1>10, <2>1, <2>2, <2>4, <3>2, <3>3 DEF PassesBy
  <2> QED BY <2>3, <2>4
<1> QED BY <1>9, <1>10

-----------------------------------------------------------------------------
(* The steps of the link. *)

\* The message at the head of a lane is under way, and so is the one that is
\* being received.
LEMMA HeadIsUnderWay ==
  ASSUME SizesAreRight, LInv, NEW s \in Streams, lanes[s] # <<>>, NEW n, n = Head(lanes[s]).number
  PROVE  UnderWay(n) /\ n \in 1..Len(sent) /\ sent[n].stream = s /\ sent[n] \in Sendings
<1>1. /\ Head(lanes[s]) = lanes[s][1] /\ 1 \in 1..Len(lanes[s]) /\ Genuine(Head(lanes[s]), s)
      /\ sent[Head(lanes[s]).number] \in Sendings
  BY HeadOfLane DEF LInv
<1> QED BY <1>1 DEF UnderWay, Genuine

LEMMA OpenIsUnderWay ==
  ASSUME SizesAreRight, LInv, open # 0
  PROVE  /\ UnderWay(open) /\ open \in 1..Len(sent)
         /\ sent[open].stream \in Streams /\ lanes[sent[open].stream] # <<>>
         /\ Head(lanes[sent[open].stream]).number = open
         /\ Head(lanes[sent[open].stream]).position > 1
<1>1. Len(sent) \in Nat /\ open \in 0..Len(sent)
  BY LenProperties DEF LInv, LinkType
<1>2. open \in 1..Len(sent)
  BY <1>1
<1>3. sent[open] \in Sendings
  BY <1>2, ElementOfSeq DEF LInv, LinkType
<1>4. sent[open].stream \in Streams
  BY <1>3 DEF Sendings
<1>5. Receiving(open)
  BY DEF LInv, Heard
<1>6. UnderWay(open)
  <2>1. PICK n : n = open
    OBVIOUS
  <2> QED BY <1>4, <1>5, HeadIsUnderWay DEF Receiving
<1> QED BY <1>2, <1>4, <1>5, <1>6 DEF Receiving

\* The sequence of deliveries, with or without one more
LEMMA DeliveriesSeq ==
  \A l \in Seq(Deliveries), d \in Deliveries :
    /\ Len(l) \in Nat
    /\ Append(l, d) \in Seq(Deliveries)
    /\ Len(Append(l, d)) = Len(l) + 1
    /\ \A i \in 1..Len(l) : Append(l, d)[i] = l[i]
    /\ Append(l, d)[Len(l) + 1] = d
BY AppendProperties, LenProperties

LEMMA ReceiveType ==
  ASSUME SizesAreRight, LInv, NEW s \in Streams, Receive(s)
  PROVE  LinkType'
<1>1. PICK n : n = Head(lanes[s]).number
  OBVIOUS
<1>2. Leaves(s) /\ (Completes(s, n) \/ GoesOn(s, n) \/ PassesBy(n))
  BY <1>1, Effect
<1>3. n \in 1..Len(sent) /\ Len(sent) \in Nat
  BY <1>1, <1>2, HeadIsUnderWay, LenProperties DEF LInv, LinkType, Leaves
<1>4. lanes' \in [Streams -> Seq(Elements)] /\ sent' = sent
  BY <1>2, LanesLeft DEF LInv, Leaves
<1>5. delivered' \in Seq(Deliveries)
  <2>1. CASE Completes(s, n)
    <3>1. PICK d \in Deliveries : delivered' = Append(delivered, d)
      BY <2>1 DEF Completes
    <3> QED BY <3>1, DeliveriesSeq DEF LInv, LinkType
  <2>2. CASE GoesOn(s, n) \/ PassesBy(n)
    BY <2>2 DEF GoesOn, PassesBy, LInv, LinkType
  <2> QED BY <1>2, <2>1, <2>2
<1>6. open' \in 0..Len(sent)
  <2>1. n \in 0..Len(sent) /\ 0 \in 0..Len(sent) /\ open \in 0..Len(sent)
    BY <1>3 DEF LInv, LinkType
  <2> QED BY <1>2, <2>1 DEF Completes, GoesOn, PassesBy
<1>7. cut' \in SUBSET (1..Len(sent))
  <2>1. open # 0 => open \in 1..Len(sent)
    BY OpenIsUnderWay
  <2> QED BY <1>2, <2>1 DEF Completes, GoesOn, PassesBy, Taken, LInv, LinkType
<1> QED BY <1>4, <1>5, <1>6, <1>7 DEF LinkType, LInv

LEMMA ReceiveHeard ==
  ASSUME SizesAreRight, LInv, NEW s \in Streams, Receive(s)
  PROVE  Heard'
<1>1. PICK n : n = Head(lanes[s]).number
  OBVIOUS
<1>2. Leaves(s) /\ (Completes(s, n) \/ GoesOn(s, n) \/ PassesBy(n))
  BY <1>1, Effect
<1>3. /\ n \in 1..Len(sent) /\ n # 0 /\ sent[n].stream = s /\ sent' = sent
      /\ Head(lanes[s]).position \in Nat /\ Head(lanes[s]).position >= 1
  <2>1. Genuine(Head(lanes[s]), s) /\ Head(lanes[s]).position \in Nat
    BY <1>2, HeadOfLane DEF LInv, Leaves
  <2>2. Head(lanes[s]).position >= 1 /\ n \in 1..Len(sent) /\ n # 0
    BY <1>1, <2>1 DEF Genuine
  <2> QED BY <1>1, <1>2, <2>1, <2>2 DEF Genuine, Leaves
<1>4. CASE Completes(s, n)
  BY <1>4 DEF Completes, Heard
<1>5. CASE GoesOn(s, n)
  <2>1. /\ lanes'[s] # <<>>
        /\ Head(lanes'[s]).number = n
        /\ Head(lanes'[s]).position = Head(lanes[s]).position + 1
    BY <1>1, <1>2, <1>5, NextFollows DEF GoesOn, LInv
  <2>2. Head(lanes'[s]).position > 1
    BY <1>3, <2>1
  <2>3. Receiving(n)'
    BY <1>3, <1>5, <2>1, <2>2 DEF Receiving, GoesOn, Before, Bytes, Count, Cut
  <2> QED BY <1>3, <1>5, <2>3 DEF Heard, GoesOn, Receiving
<1>6. CASE PassesBy(n)
  <2>1. CASE open = 0
    BY <1>6, <2>1 DEF PassesBy, Heard
  <2>2. CASE open # 0
    <3>1. open # n /\ open' = open /\ wire' = wire
      BY <1>6, <2>2 DEF PassesBy
    <3>2. sent[open].stream # s /\ sent[open].stream \in Streams
      BY <1>1, <2>2, <3>1, OpenElsewhere, OpenIsUnderWay
    <3>3. lanes'[sent[open].stream] = lanes[sent[open].stream]
      BY <1>2, <3>2, LanesLeft DEF LInv
    <3>4. Receiving(open)
      BY <2>2 DEF LInv, Heard
    <3> QED BY <1>3, <2>2, <3>1, <3>3, <3>4 DEF Heard, Receiving, Before, Bytes, Count, Cut
  <2> QED BY <2>1, <2>2
<1> QED BY <1>2, <1>4, <1>5, <1>6

LEMMA ReceiveBegun ==
  ASSUME SizesAreRight, LInv, NEW s \in Streams, Receive(s)
  PROVE  Begun'
<1>1. PICK n : n = Head(lanes[s]).number
  OBVIOUS
<1>2. Leaves(s) /\ (Completes(s, n) \/ GoesOn(s, n) \/ PassesBy(n))
  BY <1>1, Effect
<1>3. /\ n \in 1..Len(sent) /\ n # 0 /\ sent[n].stream = s
      /\ LinkType /\ LanesHold /\ Begun
  BY <1>1, <1>2, HeadIsUnderWay DEF Leaves, LInv
<1>4. ASSUME NEW t \in Streams, lanes'[t] # <<>>, Head(lanes'[t]).position > 1
      PROVE  Head(lanes'[t]).number \in cut' \union {open'}
  <2>1. CASE t # s
    <3>1. lanes'[t] = lanes[t]
      BY <1>2, <1>3, <2>1, LanesLeft
    <3>2. PICK x : x = Head(lanes[t]).number
      OBVIOUS
    <3>3. x \in cut \union {open}
      BY <1>3, <1>4, <3>1, <3>2 DEF Begun
    <3>4. x # 0 /\ x # n
      BY <1>3, <1>4, <2>1, <3>1, <3>2, HeadIsUnderWay
    <3>5. x \in cut' \union {open'}
      BY <1>2, <3>3, <3>4 DEF Completes, GoesOn, PassesBy, Taken
    <3> QED BY <3>1, <3>2, <3>5
  <2>2. CASE t = s
    <3>1. ~Final(Head(lanes[s]))
      BY <1>1, <1>2, <1>3, <1>4, <2>2, LastLeaves
    <3>2. Head(lanes'[s]).number = n
      BY <1>1, <1>2, <1>3, <3>1, NextFollows
    <3>3. n \in cut' \union {open'}
      BY <1>2, <3>1 DEF Completes, GoesOn, PassesBy
    <3> QED BY <2>2, <3>2, <3>3
  <2> QED BY <2>1, <2>2
<1>5. open' \notin cut'
  <2>1. CASE Completes(s, n)
    <3>1. 0 \notin cut'
      BY ReceiveType DEF LinkType
    <3> QED BY <2>1, <3>1 DEF Completes
  <2>2. CASE GoesOn(s, n)
    BY <2>2 DEF GoesOn, Taken
  <2>3. CASE PassesBy(n)
    BY <1>3, <2>3 DEF PassesBy, Begun
  <2> QED BY <1>2, <2>1, <2>2, <2>3
<1>6. ASSUME NEW t \in Streams, NEW i \in 1..Len(lanes'[t]), lanes'[t][i].number \in cut'
      PROVE  lanes'[t][i].position > 1
  <2>1. PICK j \in 1..Len(lanes[t]) : lanes'[t][i] = lanes[t][j]
    BY <1>2, <1>3, NothingNew
  <2>2. CASE lanes[t][j].number \in cut
    BY <1>3, <2>1, <2>2 DEF Begun
  <2>3. CASE lanes[t][j].number \notin cut
    <3>1. open # 0 /\ lanes[t][j].number = open
      BY <1>2, <1>6, <2>1, <2>3 DEF Completes, GoesOn, PassesBy, Taken
    <3>2. Genuine(lanes[t][j], t)
      BY <1>3 DEF LanesHold, LaneHolds
    <3>3. t = sent[open].stream
      BY <3>1, <3>2 DEF Genuine
    <3>4. lanes[t] # <<>> /\ Head(lanes[t]).number = open /\ Head(lanes[t]).position > 1
      BY <3>1, <3>3, OpenIsUnderWay
    <3>5. /\ lanes[t][j].position \in Nat /\ Head(lanes[t]).position \in Nat
          /\ lanes[t][j].position >= Head(lanes[t]).position
      BY <1>3, <3>1, <3>4, HeadIsFirst, HeadOfLane
    <3>6. lanes[t][j].position > 1
      BY <3>4, <3>5
    <3> QED BY <2>1, <3>6
  <2> QED BY <2>2, <2>3
<1> QED BY <1>4, <1>5, <1>6 DEF Begun

LEMMA ReceiveOnce ==
  ASSUME SizesAreRight, LInv, NEW s \in Streams, Receive(s)
  PROVE  DeliveredOnce'
<1>1. PICK n : n = Head(lanes[s]).number
  OBVIOUS
<1>2. Leaves(s) /\ (Completes(s, n) \/ GoesOn(s, n) \/ PassesBy(n))
  BY <1>1, Effect
<1>3. /\ n \in 1..Len(sent) /\ UnderWay(n) /\ sent' = sent
      /\ LinkType /\ LanesHold /\ DeliveredOnce
  BY <1>1, <1>2, HeadIsUnderWay DEF Leaves, LInv
<1>4. \A x : x # n => (UnderWay(x)' <=> UnderWay(x))
  BY <1>1, <1>2, <1>3, OthersStay
<1>5. /\ Final(Head(lanes[s])) => ~UnderWay(n)'
      /\ ~Final(Head(lanes[s])) => UnderWay(n)'
  BY <1>1, <1>2, <1>3, LastLeaves, NextFollows
<1>6. \A d : AsSent(d) => AsSent(d)'
  BY <1>3 DEF AsSent, Triple
<1>7. open # 0 => UnderWay(open)
  BY OpenIsUnderWay
<1>8. ASSUME NEW x, ~UnderWay(x), x \notin cut
      PROVE  ~UnderWay(x)' /\ x \notin cut' /\ x # n
  <2>1. x # n
    BY <1>3, <1>8
  <2>2. x \notin cut'
    BY <1>2, <1>7, <1>8 DEF Completes, GoesOn, PassesBy, Taken
  <2> QED BY <1>4, <1>8, <2>1, <2>2
<1>9. ASSUME NEW d, Done(d) PROVE Done(d)' /\ d.number # n
  <2>1. /\ d.number \in 1..Len(sent) /\ AsSent(d)
        /\ d.number \notin cut /\ ~UnderWay(d.number)
    BY <1>9 DEF Done
  <2>2. ~UnderWay(d.number)' /\ d.number \notin cut' /\ d.number # n
    BY <1>8, <2>1
  <2>3. AsSent(d)' /\ d.number \in 1..Len(sent')
    BY <1>3, <1>6, <2>1
  <2> QED BY <2>2, <2>3 DEF Done
<1>10. /\ \A k \in 1..Len(delivered) : Done(delivered[k])
       /\ \A k, l \in 1..Len(delivered) : delivered[k].number = delivered[l].number => k = l
       /\ \A x \in 1..Len(sent) : x \notin cut /\ ~UnderWay(x) =>
            \E k \in 1..Len(delivered) : delivered[k].number = x
  BY <1>3 DEF DeliveredOnce
<1>11. ASSUME NEW x \in 1..Len(sent), x # n, x \notin cut', ~UnderWay(x)'
       PROVE  \E k \in 1..Len(delivered) : delivered[k].number = x
  <2>1. x \notin cut
    BY <1>2, <1>11 DEF Completes, GoesOn, PassesBy, Taken
  <2>2. ~UnderWay(x)
    BY <1>4, <1>11
  <2> QED BY <1>10, <2>1, <2>2
<1>12. CASE delivered' = delivered /\ (n \in cut' \/ UnderWay(n)')
  <2>1. \A k \in 1..Len(delivered') : Done(delivered[k])'
    BY <1>9, <1>10, <1>12
  <2>2. \A x \in 1..Len(sent') : x \notin cut' /\ ~UnderWay(x)' =>
          \E k \in 1..Len(delivered') : delivered'[k].number = x
    BY <1>3, <1>11, <1>12
  <2>3. \A k, l \in 1..Len(delivered') : delivered'[k].number = delivered'[l].number => k = l
    BY <1>10, <1>12
  <2> QED BY <2>1, <2>2, <2>3 DEF DeliveredOnce
<1>13. CASE Completes(s, n)
  <2>1. PICK d \in Deliveries :
          d.number = n /\ AsSent(d) /\ delivered' = Append(delivered, d)
    BY <1>13 DEF Completes
  <2>2. PICK N \in Nat : N = Len(delivered)
    BY <2>1, DeliveriesSeq, <1>3 DEF LinkType
  <2>3. /\ Len(delivered') = N + 1 /\ delivered'[N + 1] = d
        /\ \A k \in 1..N : delivered'[k] = delivered[k]
    BY <1>3, <2>1, <2>2, DeliveriesSeq DEF LinkType
  <2>4. Done(d)'
    <3>1. n \notin cut' /\ ~UnderWay(n)'
      BY <1>5, <1>13 DEF Completes, Taken
    <3> QED BY <1>3, <1>6, <2>1, <3>1 DEF Done
  <2>5. \A k \in 1..N + 1 : k \in 1..N \/ k = N + 1
    OBVIOUS
  <2>6. \A k \in 1..N : delivered'[k].number # n /\ Done(delivered[k])'
    BY <1>9, <1>10, <2>2, <2>3
  <2>7. \A k \in 1..Len(delivered') : Done(delivered[k])'
    BY <2>3, <2>4, <2>5, <2>6
  <2>8. \A k, l \in 1..Len(delivered') : delivered'[k].number = delivered'[l].number => k = l
    <3>1. \A k, l \in 1..N : delivered'[k].number = delivered'[l].number => k = l
      BY <1>10, <2>2, <2>3
    <3> SUFFICES ASSUME NEW k \in 1..N + 1, NEW l \in 1..N + 1,
                        delivered'[k].number = delivered'[l].number
                 PROVE  k = l
      BY <2>3
    <3>2. delivered'[N + 1].number = n
      BY <2>1, <2>3
    <3>3. k \in 1..N \/ k = N + 1
      BY <2>5
    <3>4. l \in 1..N \/ l = N + 1
      BY <2>5
    <3> QED BY <2>6, <3>1, <3>2, <3>3, <3>4
  <2>9. \A x \in 1..Len(sent') : x \notin cut' /\ ~UnderWay(x)' =>
          \E k \in 1..Len(delivered') : delivered'[k].number = x
    <3> SUFFICES ASSUME NEW x \in 1..Len(sent), x \notin cut', ~UnderWay(x)'
                 PROVE  \E k \in 1..Len(delivered') : delivered'[k].number = x
      BY <1>3
    <3>1. CASE x = n
      <4>1. N + 1 \in 1..N + 1
        OBVIOUS
      <4> QED BY <2>1, <2>3, <3>1, <4>1
    <3>2. CASE x # n
      <4>1. PICK k \in 1..N : delivered[k].number = x
        BY <1>11, <2>2, <3>2
      <4>2. k \in 1..N + 1
        OBVIOUS
      <4> QED BY <2>3, <4>1, <4>2
    <3> QED BY <3>1, <3>2
  <2> QED BY <2>7, <2>8, <2>9 DEF DeliveredOnce
<1>14. CASE GoesOn(s, n) \/ PassesBy(n)
  <2>1. delivered' = delivered /\ (n \in cut' \/ UnderWay(n)')
    BY <1>5, <1>14 DEF GoesOn, PassesBy
  <2> QED BY <1>12, <2>1
<1> QED BY <1>2, <1>13, <1>14

LEMMA ReceiveKeeps ==
  ASSUME SizesAreRight, LInv, NEW s \in Streams, Receive(s)
  PROVE  LInv'
<1>1. PICK n : n = Head(lanes[s]).number
  OBVIOUS
<1>2. Undisturbed' /\ Leaves(s)
  BY <1>1, Effect
<1>3. LanesHold'
  BY <1>2, LanesStillHold DEF LInv
<1> QED BY <1>2, <1>3, ReceiveType, ReceiveHeard, ReceiveBegun, ReceiveOnce DEF LInv

\* The k-th packet of message m, which is the n-th sending, as it is on the lane of s
Packed(m, s, n, k) == [packet |-> PacketOf(m, s, k), number |-> n, position |-> k]

\* The packets of a message go to the end of its stream's lane.
Enters(m, s, n) ==
  /\ \A x \in 1..Len(sent) : sent'[x] = sent[x]
  /\ sent'[n] = [message |-> m, stream |-> s]
  /\ sent' \in Seq(Sendings)
  /\ Len(sent') = n /\ n = Len(sent) + 1 /\ Len(sent) \in Nat
  /\ lanes' \in [Streams -> Seq(Elements)]
  /\ \A t \in Streams : t # s => lanes'[t] = lanes[t]
  /\ Len(lanes[s]) \in Nat /\ Count(m) \in Nat /\ Count(m) > 0
  /\ Len(lanes'[s]) = Len(lanes[s]) + Count(m)
  /\ \A i \in 1..Len(lanes[s]) : lanes'[s][i] = lanes[s][i]
  /\ \A k \in 1..Count(m) : lanes'[s][Len(lanes[s]) + k] = Packed(m, s, n, k)
  /\ UNCHANGED <<delivered, open, cut, vars>>

LEMMA SendEnters ==
  ASSUME SizesAreRight, LInv, NEW m \in Messages, NEW s \in Streams, Send(m, s)
  PROVE  \E n \in Nat : Enters(m, s, n)
<1> DEFINE L == lanes[s]
           more == [k \in 1..Count(m) |-> Packed(m, s, Len(sent) + 1, k)]
<1>1. /\ sent' = Append(sent, [message |-> m, stream |-> s])
      /\ lanes' = [lanes EXCEPT ![s] = L \o more]
      /\ UNCHANGED <<delivered, open, cut, vars>>
  BY Zenon DEF Send, Packed, PacketOf, Count, Cut, vars
<1>2. sent \in Seq(Sendings) /\ lanes \in [Streams -> Seq(Elements)] /\ L \in Seq(Elements)
  BY DEF LInv, LinkType
<1>3. [message |-> m, stream |-> s] \in Sendings
  BY DEF Sendings
<1>4. PICK N \in Nat : N = Len(sent)
  BY <1>2, LenProperties
<1>5. /\ sent' \in Seq(Sendings) /\ Len(sent') = N + 1
      /\ sent'[N + 1] = [message |-> m, stream |-> s]
      /\ \A x \in 1..N : sent'[x] = sent[x]
  BY <1>1, <1>2, <1>3, <1>4, AppendProperties
<1>6. /\ Count(m) \in Nat /\ Count(m) > 0
      /\ \A k \in 1..Count(m) : PacketOf(m, s, k) \in Packets
  BY PacketsOfMessage
<1>7. PICK C \in Nat : C = Count(m)
  BY <1>6
<1>8. /\ more \in Seq(Elements) /\ Len(more) = C
      /\ \A k \in 1..C : more[k] = Packed(m, s, N + 1, k)
  <2>1. \A k \in 1..C : Packed(m, s, N + 1, k) \in Elements
    BY <1>6, <1>7 DEF Packed, Elements
  <2>2. more = [k \in 1..C |-> Packed(m, s, N + 1, k)]
    BY <1>4, <1>7
  <2>3. more \in [1..C -> Elements]
    BY <2>1, <2>2, Zenon
  <2>4. \A f \in [1..C -> Elements] : f \in Seq(Elements) /\ Len(f) = C
    OBVIOUS
  <2>5. \A k \in 1..C : more[k] = Packed(m, s, N + 1, k)
    BY <2>2, Zenon
  <2> QED BY <2>3, <2>4, <2>5, Zenon
<1> HIDE DEF more
<1>9. PICK M \in Nat : M = Len(L)
  BY <1>2, LenProperties
<1>10. /\ L \o more \in Seq(Elements) /\ Len(L \o more) = M + C
       /\ \A i \in 1..M + C : (L \o more)[i] = IF i <= M THEN L[i] ELSE more[i - M]
  <2>1. /\ L \o more \in Seq(Elements) /\ Len(L \o more) = Len(L) + Len(more)
        /\ \A i \in 1..Len(L) + Len(more) :
             (L \o more)[i] = IF i <= Len(L) THEN L[i] ELSE more[i - Len(L)]
    BY <1>2, <1>8, ConcatProperties
  <2> QED BY <1>8, <1>9, <2>1, Zenon
<1>11. \A i \in 1..M : i \in 1..M + C /\ i <= M
  OBVIOUS
<1>12. \A k \in 1..C : M + k \in 1..M + C /\ ~(M + k <= M) /\ (M + k) - M = k
  OBVIOUS
<1>13. /\ \A i \in 1..M : (L \o more)[i] = L[i]
       /\ \A k \in 1..C : (L \o more)[M + k] = Packed(m, s, N + 1, k)
  BY <1>8, <1>10, <1>11, <1>12, Zenon
<1>14. /\ lanes' \in [Streams -> Seq(Elements)] /\ lanes'[s] = L \o more
       /\ \A t \in Streams : t # s => lanes'[t] = lanes[t]
  BY <1>1, <1>2, <1>10, Zenon
<1>15. N + 1 \in Nat
  OBVIOUS
<1>16. Enters(m, s, N + 1)
  BY <1>1, <1>4, <1>5, <1>6, <1>7, <1>9, <1>10, <1>13, <1>14, Zenon DEF Enters
<1> QED BY <1>15, <1>16

\* What was on the lanes is still there, and the rest is of the new message.
LEMMA OldOrNew ==
  ASSUME SizesAreRight, LInv, NEW m \in Messages, NEW s \in Streams, NEW n \in Nat, Enters(m, s, n),
         NEW t \in Streams, NEW i \in 1..Len(lanes'[t])
  PROVE  \/ i \in 1..Len(lanes[t]) /\ lanes'[t][i] = lanes[t][i]
         \/ lanes'[t][i].number = n
<1>1. CASE t # s
  BY <1>1 DEF Enters
<1>2. CASE t = s
  <2>1. PICK L \in Nat, C \in Nat : L = Len(lanes[s]) /\ C = Count(m)
    BY DEF Enters
  <2>2. i \in 1..L + C
    BY <1>2, <2>1 DEF Enters
  <2>3. i \in 1..L \/ (i - L \in 1..C /\ L + (i - L) = i)
    BY <2>2
  <2>4. /\ \A j \in 1..L : lanes'[s][j] = lanes[s][j]
        /\ \A k \in 1..C : lanes'[s][L + k].number = n
    <3>1. \A k : Packed(m, s, n, k).number = n
      BY DEF Packed
    <3> QED BY <2>1, <3>1, SMTT(30) DEF Enters
  <2> HIDE <2>2
  <2> QED BY <1>2, <2>1, <2>3, <2>4
<1> QED BY <1>1, <1>2

\* What was sent before is as it was.
LEMMA OldSendings ==
  ASSUME SizesAreRight, LInv, NEW m \in Messages, NEW s \in Streams, NEW n \in Nat, Enters(m, s, n)
  PROVE  /\ \A e, t : Genuine(e, t) => Genuine(e, t)' /\ e.number < n
         /\ \A e : e.number \in 1..Len(sent) => (Final(e)' <=> Final(e))
         /\ \A e, f, t : Genuine(e, t) /\ Follows(e, f) => Follows(e, f)'
         /\ \A e, f : Earlier(e, f) => Earlier(e, f)'
         /\ n \notin 1..Len(sent)
<1>1. PICK N \in Nat : N = Len(sent) /\ n = N + 1 /\ Len(sent') = n
  BY DEF Enters
<1>2. \A x \in 1..N : x \in 1..n /\ x < n /\ x # n
  BY <1>1
<1>3. \A x \in 1..N : sent'[x] = sent[x]
  BY <1>1 DEF Enters
<1>4. ASSUME NEW e, NEW t, Genuine(e, t)
      PROVE  Genuine(e, t)' /\ e.number < n
  BY <1>1, <1>2, <1>3, <1>4 DEF Genuine, Count, Cut, PacketOf
<1>5. ASSUME NEW e, e.number \in 1..N PROVE Final(e)' <=> Final(e)
  BY <1>3, <1>5 DEF Final, Count, Cut
<1>6. ASSUME NEW e, NEW f, NEW t, Genuine(e, t), Follows(e, f) PROVE Follows(e, f)'
  <2>1. Final(e)' <=> Final(e)
    BY <1>1, <1>5, <1>6 DEF Genuine
  <2> QED BY <1>6, <2>1 DEF Follows
<1>7. \A e, f : Earlier(e, f) => Earlier(e, f)'
  BY DEF Earlier
<1>8. n \notin 1..N
  BY <1>2
<1> QED BY <1>1, <1>4, <1>5, <1>6, <1>7, <1>8

\* A packet that enters is one of the message, and behind what was there.
LEMMA NewPackets ==
  ASSUME SizesAreRight, LInv, NEW m \in Messages, NEW s \in Streams, NEW n \in Nat, Enters(m, s, n),
         NEW k \in 1..Count(m)
  PROVE  /\ Packed(m, s, n, k).number = n /\ Packed(m, s, n, k).position = k
         /\ Genuine(Packed(m, s, n, k), s)'
         /\ Final(Packed(m, s, n, k))' <=> k = Count(m)
         /\ k # Count(m) => Follows(Packed(m, s, n, k), Packed(m, s, n, k + 1))'
<1> DEFINE e == Packed(m, s, n, k)
<1>1. /\ e.number = n /\ e.position = k /\ e.packet = PacketOf(m, s, k)
      /\ Packed(m, s, n, k + 1).number = n /\ Packed(m, s, n, k + 1).position = k + 1
  BY DEF Packed
<1> HIDE DEF e
<1>2. /\ sent'[n].message = m /\ sent'[n].stream = s
      /\ n \in 1..Len(sent')
  <2>1. Len(sent') = n /\ n \in 1..n /\ sent'[n] = [message |-> m, stream |-> s]
    <3>1. PICK N \in Nat : N = Len(sent) /\ n = N + 1 /\ Len(sent') = n
      BY DEF Enters
    <3> QED BY <3>1 DEF Enters
  <2> QED BY <2>1
<1>3. Genuine(e, s)'
  BY <1>1, <1>2 DEF Genuine, Count, Cut, PacketOf
<1>4. Final(e)' <=> k = Count(m)
  BY <1>1, <1>2 DEF Final, Count, Cut
<1>5. k # Count(m) => Follows(e, Packed(m, s, n, k + 1))'
  BY <1>1, <1>4 DEF Follows
<1> QED BY <1>1, <1>3, <1>4, <1>5 DEF e

\* The lanes hold whole messages in order.
LEMMA SendLanes ==
  ASSUME SizesAreRight, LInv, NEW m \in Messages, NEW s \in Streams, NEW n \in Nat, Enters(m, s, n)
  PROVE  LanesHold'
<1>1. \A t \in Streams : LaneHolds(t)
  BY DEF LInv, LanesHold
<1>2. /\ \A e, t : Genuine(e, t) => Genuine(e, t)' /\ e.number < n
      /\ \A e : e.number \in 1..Len(sent) => (Final(e)' <=> Final(e))
      /\ \A e, f, t : Genuine(e, t) /\ Follows(e, f) => Follows(e, f)'
      /\ \A e, f : Earlier(e, f) => Earlier(e, f)'
  BY OldSendings
<1>3. ASSUME NEW t \in Streams, t # s PROVE LaneHolds(t)'
  <2>1. lanes'[t] = lanes[t]
    BY <1>3 DEF Enters
  <2>2. \A e : Genuine(e, t) => (Final(e)' <=> Final(e))
    BY <1>2 DEF Genuine
  <2> QED BY <1>1, <1>2, <2>1, <2>2 DEF LaneHolds
<1>4. LaneHolds(s)'
  <2>1. PICK L \in Nat, C \in Nat : L = Len(lanes[s]) /\ C = Count(m)
    BY DEF Enters
  <2>2. /\ Len(lanes'[s]) = L + C /\ C > 0
        /\ \A i \in 1..L : lanes'[s][i] = lanes[s][i]
        /\ \A k \in 1..C : lanes'[s][L + k] = Packed(m, s, n, k)
    BY <2>1 DEF Enters
  <2>3. \A i \in 1..L :
          /\ Genuine(lanes[s][i], s)
          /\ IF i = L THEN Final(lanes[s][i]) ELSE Follows(lanes[s][i], lanes[s][i + 1])
          /\ \A j \in 1..L : i < j => Earlier(lanes[s][i], lanes[s][j])
    BY <1>1, <2>1 DEF LaneHolds
  <2>4. \A k \in 1..C :
          /\ Packed(m, s, n, k).number = n /\ Packed(m, s, n, k).position = k
          /\ Genuine(Packed(m, s, n, k), s)'
          /\ Final(Packed(m, s, n, k))' <=> k = C
          /\ k # C => Follows(Packed(m, s, n, k), Packed(m, s, n, k + 1))'
    BY <2>1, NewPackets
  <2>5. ASSUME NEW i \in 1..L
        PROVE  /\ Genuine(lanes[s][i], s)'
               /\ Follows(lanes[s][i], lanes[s][i + 1])'
               /\ \A j \in 1..L + C : i < j => Earlier(lanes[s][i], lanes[s][j])'
    <3>1. PICK e : e = lanes[s][i] /\ e = lanes'[s][i]
      BY <2>2
    <3>2. Genuine(e, s) /\ Genuine(e, s)' /\ e.number < n
      BY <1>2, <2>3, <3>1
    <3>3. \A k \in 1..C : Earlier(e, Packed(m, s, n, k))'
      BY <2>4, <3>2 DEF Earlier
    <3>4. CASE i = L
      <4>1. Final(e)'
        BY <1>2, <2>3, <3>1, <3>2, <3>4 DEF Genuine
      <4>2. lanes'[s][i + 1] = Packed(m, s, n, 1) /\ 1 \in 1..C
        BY <2>2, <3>4
      <4>3. Follows(e, Packed(m, s, n, 1))'
        BY <2>4, <3>2, <4>1, <4>2 DEF Follows
      <4>4. \A j \in 1..L + C : i < j => j - L \in 1..C /\ L + (j - L) = j
        BY <3>4
      <4>5. \A j \in 1..L + C : i < j => Earlier(e, lanes[s][j])'
        BY <2>2, <3>3, <4>4
      <4> QED BY <3>1, <3>2, <4>2, <4>3, <4>5
    <3>5. CASE i # L
      <4>1. i + 1 \in 1..L
        BY <3>5
      <4>2. Follows(e, lanes[s][i + 1])'
        BY <1>2, <2>2, <2>3, <3>1, <3>2, <3>5, <4>1
      <4>3. \A j \in 1..L + C : j \in 1..L \/ (j - L \in 1..C /\ L + (j - L) = j)
        OBVIOUS
      <4>4. ASSUME NEW j \in 1..L + C, i < j PROVE Earlier(e, lanes[s][j])'
        <5>1. PICK f : f = lanes'[s][j]
          OBVIOUS
        <5>2. CASE j \in 1..L
          <6>1. Earlier(e, f)
            BY <2>2, <2>3, <3>1, <4>4, <5>1, <5>2
          <6> QED BY <1>2, <5>1, <6>1
        <5>3. CASE j \notin 1..L
          BY <2>2, <3>3, <4>3, <5>3
        <5> QED BY <5>2, <5>3
      <4> QED BY <3>1, <3>2, <4>2, <4>4
    <3> QED BY <3>4, <3>5
  <2>6. ASSUME NEW k \in 1..C
        PROVE  /\ Genuine(lanes[s][L + k], s)'
               /\ IF k = C THEN Final(lanes[s][L + k])'
                           ELSE Follows(lanes[s][L + k], lanes[s][L + k + 1])'
               /\ \A j \in 1..L + C :
                    L + k < j => Earlier(lanes[s][L + k], lanes[s][j])'
    <3>1. lanes'[s][L + k] = Packed(m, s, n, k)
      BY <2>2
    <3>2. k # C => k + 1 \in 1..C /\ L + (k + 1) = L + k + 1
      OBVIOUS
    <3>3. k # C => lanes'[s][L + k + 1] = Packed(m, s, n, k + 1)
      BY <2>2, <3>2
    <3>4. ASSUME NEW j \in 1..L + C, L + k < j
          PROVE  Earlier(lanes[s][L + k], lanes[s][j])'
      <4>1. j - L \in 1..C /\ L + (j - L) = j /\ k < j - L
        BY <3>4
      <4>2. lanes'[s][j] = Packed(m, s, n, j - L)
        BY <2>2, <4>1
      <4>3. /\ Packed(m, s, n, k).number = n /\ Packed(m, s, n, k).position = k
            /\ Packed(m, s, n, j - L).number = n /\ Packed(m, s, n, j - L).position = j - L
        BY <2>4, <4>1
      <4> QED BY <3>1, <4>1, <4>2, <4>3 DEF Earlier
    <3> QED BY <2>4, <3>1, <3>3, <3>4
  <2>7. \A i \in 1..L + C : i \in 1..L \/ (i - L \in 1..C /\ L + (i - L) = i)
    OBVIOUS
  <2> SUFFICES ASSUME NEW i \in 1..L + C
               PROVE  /\ Genuine(lanes[s][i], s)'
                      /\ IF i = L + C
                           THEN Final(lanes[s][i])'
                           ELSE Follows(lanes[s][i], lanes[s][i + 1])'
                      /\ \A j \in 1..L + C : i < j => Earlier(lanes[s][i], lanes[s][j])'
    BY <2>2 DEF LaneHolds
  <2>8. CASE i \in 1..L
    <3>1. i # L + C
      BY <2>2, <2>8
    <3> QED BY <2>5, <2>8, <3>1
  <2>9. CASE i \notin 1..L
    <3>1. PICK k \in 1..C : i = L + k
      BY <2>7, <2>9
    <3>2. i = L + C <=> k = C
      BY <3>1
    <3> QED BY <2>6, <3>1, <3>2
  <2> QED BY <2>8, <2>9
<1> QED BY <1>3, <1>4 DEF LanesHold

\* The messages that were under way still are, and so is the new one.
LEMMA SendUnderWay ==
  ASSUME SizesAreRight, LInv, NEW m \in Messages, NEW s \in Streams, NEW n \in Nat, Enters(m, s, n)
  PROVE  /\ UnderWay(n)'
         /\ \A x \in 1..Len(sent) : UnderWay(x)' <=> UnderWay(x)
<1>1. UnderWay(n)'
  <2>1. PICK L \in Nat, C \in Nat : L = Len(lanes[s]) /\ C = Count(m)
    BY DEF Enters
  <2>2. L + 1 \in 1..Len(lanes'[s]) /\ lanes'[s][L + 1] = Packed(m, s, n, 1)
    <3>1. 1 \in 1..C /\ L + 1 \in 1..L + C
      BY <2>1 DEF Enters
    <3> QED BY <2>1, <3>1 DEF Enters
  <2>3. Packed(m, s, n, 1).number = n
    BY DEF Packed
  <2> QED BY <2>2, <2>3 DEF UnderWay
<1>2. ASSUME NEW x \in 1..Len(sent), UnderWay(x) PROVE UnderWay(x)'
  <2>1. PICK t \in Streams : \E i \in 1..Len(lanes[t]) : lanes[t][i].number = x
    BY <1>2 DEF UnderWay
  <2>2. PICK i \in 1..Len(lanes[t]) : lanes[t][i].number = x
    BY <2>1
  <2>3. i \in 1..Len(lanes'[t]) /\ lanes'[t][i] = lanes[t][i]
    <3>1. CASE t # s
      BY <3>1 DEF Enters
    <3>2. CASE t = s
      <4>1. PICK L \in Nat, C \in Nat : L = Len(lanes[s]) /\ C = Count(m)
        BY DEF Enters
      <4>2. i \in 1..L + C
        BY <3>2, <4>1
      <4> QED BY <3>2, <4>1, <4>2 DEF Enters
    <3> QED BY <3>1, <3>2
  <2> QED BY <2>2, <2>3 DEF UnderWay
<1>3. ASSUME NEW x \in 1..Len(sent), UnderWay(x)' PROVE UnderWay(x)
  <2>1. PICK t \in Streams : \E i \in 1..Len(lanes'[t]) : lanes'[t][i].number = x
    BY <1>3 DEF UnderWay
  <2>2. PICK i \in 1..Len(lanes'[t]) : lanes'[t][i].number = x
    BY <2>1
  <2>3. x # n
    BY OldSendings
  <2>4. i \in 1..Len(lanes[t]) /\ lanes'[t][i] = lanes[t][i]
    <3>1. \/ i \in 1..Len(lanes[t]) /\ lanes'[t][i] = lanes[t][i]
          \/ lanes'[t][i].number = n
      BY OldOrNew
    <3>2. lanes'[t][i].number = x
      BY <2>2
    <3> QED BY <2>3, <3>1, <3>2
  <2> QED BY <2>2, <2>4 DEF UnderWay
<1> QED BY <1>1, <1>2, <1>3

\* The head of a lane that was not empty is the same, and the head of one that was is
\* the first packet of a message.
LEMMA SendHeads ==
  ASSUME SizesAreRight, LInv, NEW m \in Messages, NEW s \in Streams, NEW n \in Nat, Enters(m, s, n),
         NEW t \in Streams
  PROVE  /\ lanes[t] # <<>> => lanes'[t] # <<>> /\ Head(lanes'[t]) = Head(lanes[t])
         /\ lanes[t] = <<>> /\ lanes'[t] # <<>> => Head(lanes'[t]).position = 1
<1>1. lanes[t] \in Seq(Elements) /\ lanes'[t] \in Seq(Elements) /\ lanes[s] \in Seq(Elements)
  BY DEF LInv, LinkType, Enters
<1>2. CASE t # s
  BY <1>2 DEF Enters
<1>3. CASE t = s
  <2>1. PICK L \in Nat, C \in Nat : L = Len(lanes[s]) /\ C = Count(m)
    BY DEF Enters
  <2>2. /\ Len(lanes'[s]) = L + C /\ C > 0
        /\ \A i \in 1..L : lanes'[s][i] = lanes[s][i]
        /\ \A k \in 1..C : lanes'[s][L + k] = Packed(m, s, n, k)
    BY <2>1 DEF Enters
  <2>3. Len(lanes'[s]) # 0
    <3>1. L + C # 0
      BY <2>2
    <3> QED BY <2>2, <3>1
  <2>4. /\ lanes'[s] # <<>> /\ Head(lanes'[s]) = lanes'[s][1]
        /\ lanes[s] # <<>> => Head(lanes[s]) = lanes[s][1]
        /\ lanes[s] = <<>> <=> L = 0
    BY <1>1, <1>3, <2>1, <2>3, LaneSeq, TailOfLane, Zenon
  <2>5. L # 0 => 1 \in 1..L
    OBVIOUS
  <2>6. L = 0 => L + 1 = 1 /\ 1 \in 1..C
    BY <2>2
  <2>7. Packed(m, s, n, 1).position = 1
    BY DEF Packed
  <2>8. L # 0 => lanes'[s][1] = lanes[s][1]
    BY <2>2, <2>5, Zenon
  <2>9. L = 0 => lanes'[s][1].position = 1
    BY <2>2, <2>6, <2>7
  <2> QED BY <1>3, <2>4, <2>8, <2>9, Zenon
<1> QED BY <1>2, <1>3

LEMMA SendKeeps ==
  ASSUME SizesAreRight, LInv, NEW m \in Messages, NEW s \in Streams, Send(m, s)
  PROVE  LInv'
<1>1. PICK n \in Nat : Enters(m, s, n)
  BY SendEnters
<1>2. PICK N \in Nat : N = Len(sent) /\ n = N + 1 /\ Len(sent') = n
  BY <1>1 DEF Enters
<1>3. \A x \in 1..N : x \in 1..n /\ sent'[x] = sent[x]
  <2>1. \A x \in 1..N : x \in 1..n
    BY <1>2
  <2> QED BY <1>1, <1>2, <2>1 DEF Enters
<1>4. \A x \in 1..n : x \in 1..N \/ x = n
  BY <1>2
<1>5. /\ delivered' = delivered /\ open' = open /\ cut' = cut /\ wire' = wire
      /\ maxSize' = maxSize /\ hasCallback' = hasCallback /\ vars' = vars
  BY <1>1 DEF Enters, vars
<1>6. LinkType'
  <2>1. 0..N \subseteq 0..n /\ 1..N \subseteq 1..n
    BY <1>2
  <2>2. open \in 0..N /\ cut \in SUBSET (1..N) /\ delivered \in Seq(Deliveries)
    BY <1>2 DEF LInv, LinkType
  <2>3. open' \in 0..n /\ cut' \in SUBSET (1..n)
    BY <1>5, <2>1, <2>2, Zenon
  <2>4. lanes' \in [Streams -> Seq(Elements)] /\ sent' \in Seq(Sendings)
    BY <1>1 DEF Enters
  <2> QED BY <1>2, <1>5, <2>2, <2>3, <2>4 DEF LinkType
<1>7. LanesHold'
  BY <1>1, SendLanes
<1>8. Undisturbed'
  <2>1. IInv'
    <3>1. IInv /\ [Calls]_vars
      BY <1>5 DEF LInv, Undisturbed
    <3> QED BY <3>1, InvStep
  <2> QED BY <1>5, <2>1 DEF Undisturbed, LInv
<1>9. Heard'
  <2>1. CASE open = 0
    BY <1>5, <2>1 DEF LInv, Heard
  <2>2. CASE open # 0
    <3>1. /\ Receiving(open) /\ open \in 1..N
          /\ sent[open].stream \in Streams
      BY <1>2, <2>2, OpenIsUnderWay DEF LInv, Heard
    <3>2. sent'[open] = sent[open]
      BY <1>3, <3>1
    <3>3. PICK t \in Streams : t = sent[open].stream
      BY <3>1
    <3>4. lanes[t] # <<>>
      BY <3>1, <3>3 DEF Receiving
    <3>5. lanes'[t] # <<>> /\ Head(lanes'[t]) = Head(lanes[t])
      BY <1>1, <3>4, SendHeads
    <3>6. Receiving(open)'
      BY <1>5, <3>1, <3>2, <3>3, <3>5 DEF Receiving, Before, Bytes, Count, Cut
    <3> QED BY <1>5, <2>2, <3>6 DEF Heard, Receiving
  <2> QED BY <2>1, <2>2
<1>10. Begun'
  <2>1. ASSUME NEW t \in Streams, lanes'[t] # <<>>, Head(lanes'[t]).position > 1
        PROVE  Head(lanes'[t]).number \in cut' \union {open'}
    <3>1. /\ lanes[t] # <<>> => Head(lanes'[t]) = Head(lanes[t])
          /\ lanes[t] = <<>> => Head(lanes'[t]).position = 1
      BY <1>1, <2>1, SendHeads
    <3>2. lanes[t] # <<>>
      BY <2>1, <3>1
    <3>3. Head(lanes[t]).number \in cut \union {open}
      BY <2>1, <3>1, <3>2 DEF LInv, Begun
    <3> QED BY <1>5, <3>1, <3>2, <3>3
  <2>2. open' \notin cut'
    BY <1>5 DEF LInv, Begun
  <2>3. ASSUME NEW t \in Streams, NEW i \in 1..Len(lanes'[t]), lanes'[t][i].number \in cut'
        PROVE  lanes'[t][i].position > 1
    <3>1. n \notin cut
      BY <1>1, OldSendings DEF LInv, LinkType
    <3>2. i \in 1..Len(lanes[t]) /\ lanes'[t][i] = lanes[t][i]
      BY <1>1, <1>5, <2>3, <3>1, OldOrNew
    <3> QED BY <1>5, <2>3, <3>2 DEF LInv, Begun
  <2> QED BY <2>1, <2>2, <2>3 DEF Begun
<1>11. DeliveredOnce'
  <2>1. /\ UnderWay(n)'
        /\ \A x \in 1..N : UnderWay(x)' <=> UnderWay(x)
    BY <1>1, <1>2, SendUnderWay
  <2>2. ASSUME NEW d, Done(d) PROVE Done(d)'
    <3>1. d.number \in 1..N /\ AsSent(d) /\ d.number \notin cut /\ ~UnderWay(d.number)
      BY <1>2, <2>2 DEF Done
    <3>2. AsSent(d)'
      BY <1>3, <3>1 DEF AsSent, Triple
    <3>3. d.number \in 1..Len(sent') /\ d.number \notin cut' /\ ~UnderWay(d.number)'
      BY <1>2, <1>3, <1>5, <2>1, <3>1
    <3> QED BY <3>2, <3>3 DEF Done
  <2>3. /\ \A k \in 1..Len(delivered) : Done(delivered[k])
        /\ \A k, l \in 1..Len(delivered) : delivered[k].number = delivered[l].number => k = l
        /\ \A x \in 1..N : x \notin cut /\ ~UnderWay(x) =>
             \E k \in 1..Len(delivered) : delivered[k].number = x
    BY <1>2 DEF LInv, DeliveredOnce
  <2>4. \A k \in 1..Len(delivered') : Done(delivered[k])'
    BY <1>5, <2>2, <2>3
  <2>5. \A x \in 1..Len(sent') : x \notin cut' /\ ~UnderWay(x)' =>
          \E k \in 1..Len(delivered') : delivered'[k].number = x
    BY <1>2, <1>4, <1>5, <2>1, <2>3
  <2> QED BY <1>5, <2>3, <2>4, <2>5 DEF DeliveredOnce
<1> QED BY <1>6, <1>7, <1>8, <1>9, <1>10, <1>11 DEF LInv

-----------------------------------------------------------------------------
(* Theorems about the streams on a link. *)

LEMMA InitHolds ==
  ASSUME SizesAreRight, LinkInit
  PROVE  LInv
<1>1. /\ lanes = [s \in Streams |-> <<>>] /\ sent = <<>> /\ delivered = <<>>
      /\ open = 0 /\ cut = {} /\ hasCallback = TRUE /\ Init
  BY DEF LinkInit
<1>2. Len(sent) = 0 /\ Len(delivered) = 0 /\ \A s \in Streams : lanes[s] = <<>>
  BY <1>1
<1>3. 1..0 = {} /\ 0..0 = {0}
  OBVIOUS
<1>4. LinkType
  <2>1. \A S : <<>> \in Seq(S)
    OBVIOUS
  <2>2. lanes \in [Streams -> Seq(Elements)]
    BY <1>1, <2>1, Zenon
  <2> QED BY <1>1, <1>2, <1>3, <2>1, <2>2 DEF LinkType
<1>5. LanesHold
  <2>1. ASSUME NEW s \in Streams PROVE 1..Len(lanes[s]) = {}
    BY <1>2, <1>3
  <2> QED BY <2>1 DEF LanesHold, LaneHolds
<1>6. Undisturbed /\ Heard
  <2>1. IInv
    BY <1>1, InvInit
  <2> QED BY <1>1, <2>1 DEF Undisturbed, Heard, Init, NoWire
<1>7. Begun
  <2>1. ASSUME NEW s \in Streams PROVE 1..Len(lanes[s]) = {}
    BY <1>2, <1>3
  <2> QED BY <1>1, <1>2, <2>1 DEF Begun
<1>8. DeliveredOnce
  BY <1>2, <1>3 DEF DeliveredOnce
<1> QED BY <1>4, <1>5, <1>6, <1>7, <1>8 DEF LInv

LEMMA LinkStep ==
  ASSUME SizesAreRight, LInv, [LinkNext]_linkVars
  PROVE  LInv'
<1>1. CASE \E m \in Messages, s \in Streams : Send(m, s)
  BY <1>1, SendKeeps
<1>2. CASE \E s \in Streams : Receive(s)
  BY <1>2, ReceiveKeeps
<1>3. CASE UNCHANGED linkVars
  <2>1. UNCHANGED <<lanes, sent, delivered, open, cut>> /\ vars' = vars
    BY <1>3 DEF linkVars, vars
  <2>2. Undisturbed'
    <3>1. [Calls]_vars
      BY <2>1
    <3>2. IInv'
      BY <3>1, InvStep DEF LInv, Undisturbed
    <3> QED BY <2>1, <3>2 DEF LInv, Undisturbed, vars
  <2>3. LinkType'
    BY <2>1 DEF LInv, LinkType
  <2>4. LanesHold'
    <3>1. \A e, t : Genuine(e, t) => Genuine(e, t)'
      BY <2>1 DEF Genuine, Count, Cut, PacketOf
    <3>2. \A e : Final(e) <=> Final(e)'
      BY <2>1 DEF Final, Count, Cut
    <3>3. \A e, f : (Follows(e, f) => Follows(e, f)') /\ (Earlier(e, f) => Earlier(e, f)')
      BY <3>2 DEF Follows, Earlier
    <3>4. \A t \in Streams : LaneHolds(t) => LaneHolds(t)'
      BY <2>1, <3>1, <3>2, <3>3, Zenon DEF LaneHolds
    <3> QED BY <3>4 DEF LInv, LanesHold
  <2>5. Heard' /\ Begun'
    BY <2>1 DEF LInv, Heard, Receiving, Begun, Before, Bytes, Count, Cut, vars
  <2>6. DeliveredOnce'
    BY <2>1 DEF LInv, DeliveredOnce, Done, UnderWay, AsSent, Triple
  <2> QED BY <2>2, <2>3, <2>4, <2>5, <2>6 DEF LInv
<1> QED BY <1>1, <1>2, <1>3 DEF LinkNext

\* The inductive invariant of the link
THEOREM LinkInvariance ==
  ASSUME SizesAreRight
  PROVE  LinkSpec => []LInv
<1>1. LinkInit => LInv
  BY InitHolds
<1>2. LInv /\ [LinkNext]_linkVars => LInv'
  BY LinkStep
<1> QED BY <1>1, <1>2, PTL DEF LinkSpec

\* What sysex8_collector delivers was sent, byte for byte, on the stream it says, and
\* no message that another one broke into is delivered.
THEOREM StreamsStayApart ==
  ASSUME SizesAreRight
  PROVE  LinkSpec => []StreamsKeptApart
<1>1. LInv => StreamsKeptApart
  <2> SUFFICES ASSUME LInv, NEW k \in DOMAIN delivered
               PROVE  AsSent(delivered[k]) /\ delivered[k].number \notin cut
    BY DEF StreamsKeptApart
  <2>1. DOMAIN delivered = 1..Len(delivered)
    BY DEF LInv, LinkType
  <2> QED BY <2>1 DEF LInv, DeliveredOnce, Done
<1> QED BY <1>1, LinkInvariance, PTL

\* A message that no other one broke into, and that has left the link, was delivered
\* by sysex8_collector, and once.
THEOREM DeliveredUnlessBroken ==
  ASSUME SizesAreRight
  PROVE  LinkSpec => []DeliveredUnlessCut
<1>1. LInv => DeliveredUnlessCut
  <2> SUFFICES ASSUME LInv, NEW n \in DOMAIN sent, n \notin cut,
                      \A s \in Streams : \A k \in DOMAIN lanes[s] : lanes[s][k].number # n
               PROVE  Cardinality({k \in DOMAIN delivered : delivered[k].number = n}) = 1
    BY DEF DeliveredUnlessCut
  <2>1. /\ DOMAIN delivered = 1..Len(delivered) /\ n \in 1..Len(sent)
        /\ \A s \in Streams : DOMAIN lanes[s] = 1..Len(lanes[s])
    BY DEF LInv, LinkType
  <2>2. ~UnderWay(n)
    BY <2>1 DEF UnderWay
  <2>3. PICK k \in 1..Len(delivered) : delivered[k].number = n
    BY <2>1, <2>2 DEF LInv, DeliveredOnce
  <2>4. \A l \in 1..Len(delivered) : delivered[l].number = n => l = k
    BY <2>3 DEF LInv, DeliveredOnce
  <2>5. {l \in DOMAIN delivered : delivered[l].number = n} = {k}
    BY <2>1, <2>3, <2>4
  <2> QED BY <2>5, FS_Singleton
<1> QED BY <1>1, LinkInvariance, PTL
=============================================================================
