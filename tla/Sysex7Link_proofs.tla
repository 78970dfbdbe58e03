-------------------------- MODULE Sysex7Link_proofs --------------------------
(***************************************************************************)
(* Proofs about Sysex7Link: a sender and a collector implement the channel *)
(* of SysexChannel, for every set of messages, size of a packet, capacity, *)
(* set of limits and number of faults.                                     *)
(***************************************************************************)
EXTENDS Sysex7Link, SequenceTheorems, TLAPS

C == INSTANCE Sysex7Collector_proofs WITH MaxMessage <- 0

-----------------------------------------------------------------------------
(* Messages on the link. *)

Bytes(m) == m.manufacturer \o m.data

\* The packets of a message, and how many there are
Cut(m) == Sender!Sysex7Packets(m)
Count(m) == Len(Cut(m))

\* What the packets of m before the k-th one carry
Before(m, k) ==
  SubSeq(Bytes(m), 1, IF k > Count(m) THEN Len(Bytes(m)) ELSE (k - 1) * MaxPayload)

-----------------------------------------------------------------------------
(* The inductive invariant. *)

Elements == [packet : C!PacketsOf, number : Nat, position : Nat]

\* Element e of the link is the packet it says it is.
Genuine(e) ==
  /\ e.number \in 1..Len(sent)
  /\ e.position \in 1..Count(sent[e.number])
  /\ e.packet = Cut(sent[e.number])[e.position]

\* f comes after e: the next packet of its message, or the first of the next one.
Follows(e, f) ==
  IF e.position = Count(sent[e.number])
    THEN f.number = e.number + 1 /\ f.position = 1
    ELSE f.number = e.number /\ f.position = e.position + 1

\* e is the last packet sent.
Final(e) == e.number = Len(sent) /\ e.position = Count(sent[e.number])

LinkType ==
  /\ sent \in Seq(Messages)
  /\ delivered \in Seq([manufacturer : Seq(Byte), data : Seq(Byte)])
  /\ faults \in 0..MaxFaults
  /\ hurt \in 0..Len(sent)
  /\ maxSize \in Limits \union {0}

\* All that was sent since the packet at the head is in the link, in order.
LinkHolds ==
  /\ link \in Seq(Elements)
  /\ \A i \in 1..Len(link) :
       /\ Genuine(link[i])
       /\ i < Len(link) => Follows(link[i], link[i + 1])
  /\ link # <<>> => Final(link[Len(link)]) /\ hurt <= Head(link).number

\* The collector has no reason to give up a message, nor ever had.
Undisturbed ==
  /\ C!IInv
  /\ ~wire.rejected /\ ~wire.tainted
  /\ hasCallback

\* What is collected of the message at the head is what its packets carried.
Collected ==
  link # <<>> /\ hurt # Head(link).number /\ Head(link).position > 1 =>
    /\ wire.phase = "open"
    /\ wire.bytes = Before(sent[Head(link).number], Head(link).position)

\* Bytes of the message at the head that have left the link
Gone == IF link = <<>> THEN 0 ELSE Len(Before(sent[Head(link).number], Head(link).position))

\* Every fault adds a message at most to what the collector takes for one.
CollectsLittle ==
  wire.phase = "open" => Len(wire.bytes) <= faults * MaxSize + Gone

LInv == LinkType /\ LinkHolds /\ Undisturbed /\ Collected /\ CollectsLittle

-----------------------------------------------------------------------------
(* Lemmas about messages and their packets. *)

\* An ID is one byte that is not zero, or three of which the first is zero.
LEMMA IdType ==
  ASSUME NEW id \in Ids
  PROVE  /\ id \in Seq(Byte)
         /\ id # <<0, 0, 0>>
         /\ \/ Len(id) = 1 /\ id[1] # 0
            \/ Len(id) = 3 /\ id[1] = 0
<1>1. 0 \in Byte
  BY LinkAssumption DEF LinkAssumption, Collector!CollectorAssumption
<1>2. ASSUME NEW m \in Byte \ {0}, id = <<m>> PROVE id \in Seq(Byte) /\ Len(id) = 1 /\ id[1] # 0
  BY <1>2
<1>3. ASSUME NEW m \in Byte, NEW n \in Byte, id = <<0, m, n>>, id # <<0, 0, 0>>
      PROVE  id \in Seq(Byte) /\ Len(id) = 3 /\ id[1] = 0
  BY <1>1, <1>3
<1> QED BY <1>2, <1>3 DEF Ids

\* A message can be sent, and a collector that reads its bytes reads the message.
LEMMA MessageType ==
  ASSUME NEW m \in Messages
  PROVE  /\ m = [manufacturer |-> m.manufacturer, data |-> m.data]
         /\ m.manufacturer \in Seq(Byte) /\ m.data \in Seq(Byte)
         /\ Bytes(m) \in Seq(Byte)
         /\ Len(Bytes(m)) \in Nat /\ Len(Bytes(m)) > 0 /\ Len(Bytes(m)) <= MaxSize
         /\ C!Sendable(m, m.manufacturer)
         /\ C!Decode(Bytes(m)) = C!Call(m.manufacturer, m.data)
<1> DEFINE id == m.manufacturer
           d == m.data
           b == Bytes(m)
<1>1. /\ id \in Seq(Byte) /\ d \in Seq(Byte) /\ m = [manufacturer |-> id, data |-> d]
      /\ id # <<0, 0, 0>>
      /\ \/ Len(id) = 1 /\ id[1] # 0
         \/ Len(id) = 3 /\ id[1] = 0
  <2>1. m \in [manufacturer : Ids, data : Seq(Byte)]
    BY LinkAssumption DEF LinkAssumption
  <2> QED BY <2>1, IdType
<1>2. PICK I, D \in Nat : I = Len(id) /\ D = Len(d)
  BY <1>1, LenProperties
<1>3. /\ b = id \o d /\ b \in Seq(Byte) /\ Len(b) = I + D
      /\ \A i \in 1..I : b[i] = id[i]
  <2> HIDE DEF id, d
  <2>1. id \o d \in Seq(Byte) /\ Len(id \o d) = Len(id) + Len(d)
    BY <1>1, ConcatProperties
  <2>2. \A i \in 1..Len(id) + Len(d) : (id \o d)[i] = IF i <= Len(id) THEN id[i] ELSE d[i - Len(id)]
    BY <1>1, ConcatProperties
  <2>3. \A i \in 1..I : (id \o d)[i] = id[i]
    BY <1>2, <2>2
  <2> QED BY <1>2, <2>1, <2>3 DEF Bytes, id, d
<1>4. I \in {1, 3}
  BY <1>1, <1>2
<1>5. Sender!TotalDataSize(m) = I + D /\ m.data = d
  BY <1>1, <1>2 DEF Sender!TotalDataSize
<1>6. I + D <= MaxSize
  BY <1>2, <1>5, LinkAssumption DEF LinkAssumption
<1>7. b = Bytes(m) /\ d = m.data /\ id = m.manufacturer
  OBVIOUS
<1> HIDE DEF b, id, d
<1>8. MaxPayload \in Nat /\ MaxPayload > 3
  BY LinkAssumption DEF LinkAssumption, Collector!CollectorAssumption
<1>9. C!Sendable(m, id)
  <2>1. 0 < Len(id) /\ Len(id) < MaxPayload
    BY <1>2, <1>4, <1>8
  <2>2. Len(id) + Len(d) = I + D
    BY <1>2
  <2>3. C!Sender!TotalDataSize(m) = Sender!TotalDataSize(m)
    BY DEF Sender!TotalDataSize, C!Sender!TotalDataSize
  <2> QED BY <1>1, <1>5, <1>8, <2>1, <2>2, <2>3 DEF C!Sendable
<1>10. C!ManufacturerLength(b) = I
  <2>1. b # <<>>
    BY <1>3, <1>4, EmptySeq
  <2>2. b[1] = id[1]
    BY <1>3, <1>4
  <2>3. CASE I = 1
    BY <1>1, <1>2, <2>1, <2>2, <2>3 DEF C!ManufacturerLength
  <2>4. CASE I = 3
    <3>1. b[1] = 0 /\ ~(3 + D < 3)
      BY <1>1, <1>2, <2>2, <2>4
    <3> QED BY <1>3, <2>1, <2>4, <3>1 DEF C!ManufacturerLength, C!Smaller
  <2> QED BY <1>4, <2>3, <2>4
<1>11. SubSeq(b, 1, I) = id /\ SubSeq(b, I + 1, Len(b)) = d
  <2>1. /\ SubSeq(id, 1, I) \o SubSeq(d, 1, 0) = SubSeq(b, 1, I + 0)
        /\ SubSeq(id, I + 1, Len(id)) \o SubSeq(d, 0 + 1, Len(d)) = SubSeq(b, I + 0 + 1, Len(b))
    <3>1. Len(id) \in 0..Len(id) /\ 0 \in 0..Len(d)
      BY <1>2
    <3> QED BY <1>1, <1>2, <1>3, <3>1, C!CutConcat
  <2>2. SubSeq(id, 1, I) = id /\ SubSeq(d, 1, 0) = <<>>
    BY <1>1, <1>2, SubSeqFull, SubSeqEmpty
  <2>3. SubSeq(id, I + 1, Len(id)) = <<>> /\ SubSeq(d, 0 + 1, Len(d)) = d
    BY <1>1, <1>2, SubSeqFull, SubSeqEmpty
  <2>4. id \o <<>> = id /\ <<>> \o d = d
    BY <1>1, ConcatEmptySeq
  <2>5. I + 0 = I
    BY <1>2
  <2> QED BY <2>1, <2>2, <2>3, <2>4, <2>5
<1>12. Len(b) \in Nat /\ Len(b) > 0 /\ Len(b) <= MaxSize
  BY <1>3, <1>4, <1>6
<1>13. C!Decode(b) = C!Call(id, d)
  BY <1>10, <1>11 DEF C!Decode
<1> QED BY <1>1, <1>3, <1>9, <1>12, <1>13, <1>7

\* The collector of the link is the one whose lemmas are cited.
LEMMA SameCollector ==
  /\ C!CollectorAssumption
  /\ Collector!Init <=> C!Init
  /\ \A p : Collector!Feed(p) <=> C!Feed(p)
  /\ \A s : Collector!SetMaxSysexDataSize(s) <=> C!SetMaxSysexDataSize(s)
<1>1. C!CollectorAssumption
  BY LinkAssumption DEF LinkAssumption, Collector!CollectorAssumption, C!CollectorAssumption
<1>2. Collector!Init <=> C!Init
  BY DEF Collector!Init, C!Init, Collector!Empty, C!Empty, Collector!NoCall, C!NoCall,
         Collector!NoWire, C!NoWire
<1>3. \A p : Collector!Feed(p) <=> C!Feed(p)
  BY DEF Collector!Feed, C!Feed, Collector!IgnoreOrphan, C!IgnoreOrphan,
         Collector!Reject, C!Reject, Collector!Store, C!Store, Collector!Deliver, C!Deliver,
         Collector!Accepted, C!Accepted, Collector!Fits, C!Fits, Collector!Grown, C!Grown,
         Collector!Cleared, C!Cleared, Collector!IsFirst, C!IsFirst,
         Collector!IsLast, C!IsLast, Collector!WireAfter, C!WireAfter,
         Collector!Extended, C!Extended, Collector!NoWire, C!NoWire,
         Collector!Collect, C!Collect, Collector!IdBytes, C!IdBytes,
         Collector!Smaller, C!Smaller, Collector!Larger, C!Larger,
         Collector!Empty, C!Empty, Collector!Call, C!Call, Collector!NoCall, C!NoCall
<1>4. \A s : Collector!SetMaxSysexDataSize(s) <=> C!SetMaxSysexDataSize(s)
  BY DEF Collector!SetMaxSysexDataSize, C!SetMaxSysexDataSize, Collector!Larger, C!Larger,
         Collector!NoCall, C!NoCall, Collector!WireIdle, C!WireIdle
<1> QED BY <1>1, <1>2, <1>3, <1>4

\* send_sysex7 cuts a message as CutIntoPackets says.
LEMMA SameCut ==
  ASSUME NEW m \in Messages
  PROVE  /\ C!Sender!Sent(m, m.manufacturer) = Cut(m)
         /\ \A k : C!Carried(m, m.manufacturer, k) = Before(m, k)
<1>1. Sender!Sysex7Id(m.manufacturer) = m.manufacturer
  <2>1. m \in [manufacturer : Ids, data : Seq(Byte)]
    BY LinkAssumption DEF LinkAssumption
  <2> QED BY <2>1, IdType DEF Sender!Sysex7Id
<1>2. C!Sender!Sent(m, m.manufacturer) = Cut(m)
  BY <1>1 DEF Cut, Sender!Sysex7Packets, Sender!Sent, Sender!Filling, Sender!AddByte, Sender!First,
         Sender!TotalDataSize, C!Sender!Sent, C!Sender!Filling, C!Sender!AddByte,
         C!Sender!First, C!Sender!TotalDataSize
<1> QED BY <1>2 DEF C!Carried, Before, Bytes, Count

\* The packets of a message: the first and the last one are told by their
\* formats, and together they carry its bytes.
LEMMA PacketsOfMessage ==
  ASSUME NEW m \in Messages
  PROVE  /\ Cut(m) \in Seq(C!PacketsOf)
         /\ Count(m) \in Nat /\ Count(m) > 0
         /\ Before(m, 1) = <<>>
         /\ Before(m, Count(m) + 1) = Bytes(m)
         /\ \A k \in 1..Count(m) :
              /\ Cut(m)[k] \in C!Packets
              /\ C!IsFirst(Cut(m)[k]) <=> k = 1
              /\ C!IsLast(Cut(m)[k]) <=> k = Count(m)
              /\ Before(m, k) \in Seq(Byte)
              /\ Before(m, k + 1) \in Seq(Byte)
              /\ Before(m, k) \o Cut(m)[k].payload = Before(m, k + 1)
              /\ Len(Before(m, k + 1)) <= MaxSize
<1> DEFINE P == Cut(m)
           N == Count(m)
           L == Len(Bytes(m))
<1>1. /\ C!Sendable(m, m.manufacturer) /\ L \in Nat /\ L <= MaxSize /\ MaxSize \in Nat
      /\ m.manufacturer \o m.data = Bytes(m) /\ N = Len(P)
  BY MessageType, LinkAssumption DEF LinkAssumption, Bytes, Count
<1>2. /\ P \in Seq(C!PacketsOf) /\ N \in Nat /\ N > 0
      /\ Before(m, 1) = <<>>
      /\ Before(m, N + 1) = Bytes(m)
      /\ \A k \in 1..N :
           /\ P[k].status = C!Format(k, N)
           /\ P[k].payload \in C!Payloads
           /\ Before(m, k) \in Seq(Byte)
           /\ Before(m, k + 1) \in Seq(Byte)
           /\ Before(m, k) \o P[k].payload = Before(m, k + 1)
           /\ Len(Before(m, k + 1)) <= L
  <2> DEFINE id == m.manufacturer
  <2>1. C!CollectorAssumption /\ C!Sendable(m, id)
    BY <1>1, SameCollector
  <2>2. /\ C!Sender!Sent(m, id) = P /\ id \o m.data = Bytes(m) /\ N = Len(P)
        /\ \A k : C!Carried(m, id, k) = Before(m, k)
    BY <1>1, SameCut
  <2> HIDE DEF P, N, L, id
  <2>3. /\ C!Sender!Sent(m, id) \in Seq(C!PacketsOf)
        /\ Len(C!Sender!Sent(m, id)) \in Nat /\ Len(C!Sender!Sent(m, id)) > 0
        /\ C!Carried(m, id, 1) = <<>>
        /\ C!Carried(m, id, Len(C!Sender!Sent(m, id)) + 1) = id \o m.data
        /\ \A k \in 1..Len(C!Sender!Sent(m, id)) :
             /\ C!Sender!Sent(m, id)[k].status = C!Format(k, Len(C!Sender!Sent(m, id)))
             /\ C!Sender!Sent(m, id)[k].payload \in C!Payloads
             /\ C!Carried(m, id, k) \in Seq(Byte)
             /\ C!Carried(m, id, k + 1) \in Seq(Byte)
             /\ C!Carried(m, id, k) \o C!Sender!Sent(m, id)[k].payload = C!Carried(m, id, k + 1)
             /\ Len(C!Carried(m, id, k + 1)) <= Len(id \o m.data)
    BY <2>1, C!PacketsCarry
  <2>4. L = Len(Bytes(m))
    BY DEF L
  <2> QED BY <2>2, <2>3, <2>4, Zenon
<1> HIDE DEF P, N, L
<1>3. ASSUME NEW k \in 1..N
      PROVE  /\ P[k] \in C!Packets
             /\ C!IsFirst(P[k]) <=> k = 1
             /\ C!IsLast(P[k]) <=> k = N
             /\ Len(Before(m, k + 1)) <= MaxSize
  <2>1. P[k] \in C!PacketsOf
    BY <1>1, <1>2, ElementOfSeq
  <2>2. P[k] \in C!Packets
    BY <1>2, <2>1 DEF C!PacketsOf, C!Packets, C!Statuses
  <2>3. /\ C!IsFirst(P[k]) <=> k = 1
        /\ C!IsLast(P[k]) <=> k = N
    BY <1>2 DEF C!Format, C!IsFirst, C!IsLast
  <2>4. Len(Before(m, k + 1)) \in Nat /\ Len(Before(m, k + 1)) <= L
    BY <1>2, LenProperties
  <2> QED BY <1>1, <2>2, <2>3, <2>4
<1> QED BY <1>2, <1>3 DEF P, N

-----------------------------------------------------------------------------
(* Lemmas about the collector. *)

\* An undisturbed collector stays so with a packet that does not make its message
\* longer than the limit, and hears what is on the wire.
LEMMA FedWithinLimit ==
  ASSUME Undisturbed, NEW p \in C!Packets, Collector!Feed(p),
         maxSize > 0 => ~(Len(C!WireAfter(p).bytes) > maxSize)
  PROVE  /\ Undisturbed'
         /\ wire' = C!WireAfter(p)
         /\ maxSize' = maxSize
         /\ call'.made <=> wire'.phase = "ended"
         /\ call'.made => call' = C!Decode(wire'.bytes)
<1>1. C!Feed(p) /\ C!CollectorAssumption
  BY SameCollector
<1>2. C!IInv /\ [C!Calls]_C!vars
  BY <1>1 DEF C!Calls, Undisturbed
<1>3. C!IInv'
  BY <1>1, <1>2, C!InvStep
<1>4. ~C!Reject(p)
  <2> SUFFICES ASSUME C!Reject(p) PROVE FALSE
    OBVIOUS
  <2>1. /\ wire' = [C!WireAfter(p) EXCEPT !.phase = "none", !.rejected = TRUE]
        /\ \E m, c : C!Accepted(p, m, c)
    BY DEF C!Reject
  <2>2. C!WireAfter(p) = C!Extended(p)
    BY <1>1, <1>2, <2>1, C!AcceptedIsHeard
  <2>3. /\ wire'.bytes = C!WireAfter(p).bytes
        /\ wire'.rejected /\ ~wire'.tainted
    BY <2>1, <2>2 DEF C!Extended, Undisturbed
  <2>4. wire' # wire
    BY <2>3 DEF Undisturbed
  <2>5. maxSize > 0 /\ Len(wire'.bytes) > maxSize
    BY <1>1, <1>2, <2>3, <2>4, C!RejectionStep
  <2> QED BY <2>3, <2>5
<1>5. wire' = C!WireAfter(p) /\ maxSize' = maxSize /\ hasCallback' = hasCallback
  BY <1>1, <1>4 DEF C!Feed, C!IgnoreOrphan, C!Store, C!Deliver
<1>6. ~wire'.rejected /\ ~wire'.tainted
  BY <1>5 DEF C!WireAfter, C!Extended, C!NoWire, Undisturbed
<1>7. hasCallback'
  BY <1>5 DEF Undisturbed
<1>8. /\ wire'.phase = "ended" /\ hasCallback' <=> call'.made
      /\ call'.made /\ ~wire'.tainted => call' = C!Decode(wire'.bytes)
  BY <1>3 DEF C!IInv, C!DeliveredIffEnded, C!ExactDelivery, C!Decode, C!Call,
              C!ManufacturerLength, C!Smaller
<1> QED BY <1>3, <1>5, <1>6, <1>7, <1>8 DEF Undisturbed

\* A limit changes nothing on the wire but that a message that ended is history.
LEMMA LimitSet ==
  ASSUME Undisturbed, NEW s \in Limits, Collector!SetMaxSysexDataSize(s)
  PROVE  /\ Undisturbed'
         /\ maxSize' = s
         /\ wire'.bytes = wire.bytes
         /\ wire'.phase = "open" <=> wire.phase = "open"
<1>1. C!SetMaxSysexDataSize(s) /\ C!CollectorAssumption
  BY SameCollector
<1>2. C!IInv /\ [C!Calls]_C!vars
  BY <1>1 DEF C!Calls, Undisturbed
<1>3. C!IInv'
  BY <1>1, <1>2, C!InvStep
<1>4. /\ wire' = [wire EXCEPT !.phase = IF @ = "ended" THEN "none" ELSE @]
      /\ maxSize' = s /\ hasCallback' = hasCallback
  BY <1>1 DEF C!SetMaxSysexDataSize, C!WireIdle
<1>5. wire \in [bytes : Seq(Byte), phase : {"none", "open", "ended"},
               rejected : BOOLEAN, tainted : BOOLEAN]
  BY <1>2 DEF C!IInv, C!TypeOK
<1>6. /\ wire'.bytes = wire.bytes /\ wire'.rejected = wire.rejected
      /\ wire'.tainted = wire.tainted
      /\ wire'.phase = "open" <=> wire.phase = "open"
  BY <1>4, <1>5
<1> QED BY <1>3, <1>4, <1>6 DEF Undisturbed

-----------------------------------------------------------------------------
(* Lemmas about the link. *)

LEMMA EmptyLink ==
  \A l \in Seq(Elements) : Len(l) \in Nat /\ (l = <<>> <=> Len(l) = 0)
BY EmptySeq, LenProperties

\* The element at the head of the link
LEMMA HeadOfLink ==
  ASSUME LinkType, LinkHolds, link # <<>>
  PROVE  /\ Len(link) \in Nat /\ Len(link) > 0
         /\ Head(link) = link[1] /\ Head(link) \in Elements
         /\ Genuine(Head(link))
         /\ sent[Head(link).number] \in Messages
<1>1. Len(link) \in Nat /\ Len(link) > 0 /\ link[1] \in Elements
  <2>1. Len(link) \in Nat \ {0}
    BY EmptySeq DEF LinkHolds
  <2>2. 1 \in 1..Len(link)
    BY <2>1
  <2> QED BY <2>1, <2>2, ElementOfSeq DEF LinkHolds
<1>2. Head(link) = link[1]
  BY <1>1 DEF LinkHolds
<1>3. Genuine(link[1])
  BY <1>1 DEF LinkHolds
<1>4. sent[Head(link).number] \in Messages
  BY <1>2, <1>3, ElementOfSeq DEF Genuine, LinkType
<1> QED BY <1>1, <1>2, <1>3, <1>4

\* When the packet at the head leaves, the one that follows it is there, and
\* nothing when it was the last.
LEMMA HeadLeaves ==
  ASSUME LinkType, LinkHolds, link # <<>>,
         link' = Tail(link), sent' = sent, hurt' \in {hurt, Head(link).number}
  PROVE  /\ LinkHolds'
         /\ hurt' \in 0..Len(sent)
         /\ link' = <<>> => Final(Head(link))
         /\ link' # <<>> => Follows(Head(link), Head(link'))
<1>1. /\ Len(link) \in Nat /\ Len(link) > 0
      /\ Head(link) = link[1] /\ Head(link) \in Elements /\ Genuine(Head(link))
  BY HeadOfLink
<1>2. /\ link' \in Seq(Elements) /\ Len(link') = Len(link) - 1
      /\ \A i \in 1..Len(link') : link'[i] = link[i + 1]
  BY HeadTailProperties DEF LinkHolds
<1>3. \A e : Genuine(e) => Genuine(e)'
  BY DEF Genuine
<1>4. \A e, f : Follows(e, f) => Follows(e, f)'
  BY DEF Follows
<1>5. ASSUME NEW i \in 1..Len(link')
      PROVE  /\ Genuine(link[i])'
             /\ i < Len(link') => Follows(link[i], link[i + 1])'
  <2>1. i + 1 \in 1..Len(link) /\ (i < Len(link') => i + 1 \in 1..Len(link'))
    BY <1>1, <1>2
  <2>2. i < Len(link') => i + 1 < Len(link)
    BY <1>1, <1>2
  <2>3. Genuine(link[i + 1])
    BY <2>1 DEF LinkHolds
  <2>4. i < Len(link') => Follows(link[i + 1], link[(i + 1) + 1])
    BY <2>1, <2>2 DEF LinkHolds
  <2>5. link'[i] = link[i + 1] /\ (i < Len(link') => link'[i + 1] = link[(i + 1) + 1])
    BY <1>2, <2>1
  <2>6. Genuine(link[i])'
    BY <2>3, <2>5 DEF Genuine
  <2>7. i < Len(link') => Follows(link[i], link[i + 1])'
    BY <2>4, <2>5 DEF Follows
  <2> QED BY <2>6, <2>7
<1>6. CASE link' = <<>>
  <2>1. Len(link) = 1
    <3>1. Len(link') = 0
      BY <1>2, <1>6, EmptyLink, Zenon
    <3> QED BY <1>1, <1>2, <3>1
  <2>2. Final(Head(link))
    BY <1>1, <2>1 DEF LinkHolds
  <2>3. hurt' \in 0..Len(sent)
    BY <1>1 DEF LinkType, Genuine
  <2> QED BY <1>2, <1>5, <1>6, <2>2, <2>3 DEF LinkHolds
<1>7. CASE link' # <<>>
  <2>1. Len(link') \in Nat /\ Len(link') > 0
    <3>1. Len(link') \in Nat /\ Len(link') # 0
      BY <1>2, <1>7, EmptyLink, Zenon
    <3>2. \A n \in Nat : n # 0 => n > 0
      OBVIOUS
    <3> QED BY <3>1, <3>2, Zenon
  <2>2. Head(link') = link'[1] /\ link'[1] = link[2] /\ link'[Len(link')] = link[Len(link)]
    BY <1>1, <1>2, <2>1
  <2>3. Follows(Head(link), Head(link'))
    BY <1>1, <1>2, <2>1, <2>2 DEF LinkHolds
  <2>4. Final(link[Len(link)])'
    BY <1>7, <2>2 DEF LinkHolds, Final
  <2>5. hurt' <= Head(link').number /\ hurt' \in 0..Len(sent)
    <3>1. /\ hurt' \in Nat /\ hurt' <= Head(link).number /\ Head(link).number \in 1..Len(sent)
      BY <1>1 DEF LinkType, LinkHolds, Genuine
    <3>2. Len(sent) \in Nat
      BY LenProperties DEF LinkType
    <3>3. Head(link').number \in {Head(link).number, Head(link).number + 1}
      BY <2>3 DEF Follows
    <3>4. \A l \in Nat : \A h \in 1..l : \A u \in Nat :
            u <= h => u \in 0..l /\ \A n \in {h, h + 1} : u <= n
      OBVIOUS
    <3> QED BY <3>1, <3>2, <3>3, <3>4, Zenon
  <2> QED BY <1>2, <1>5, <1>7, <2>3, <2>4, <2>5 DEF LinkHolds
<1> QED BY <1>6, <1>7

-----------------------------------------------------------------------------
(* Receiving a packet. *)

\* A limit is ample: the faults so far leave room for a message.
LEMMA LimitIsAmple ==
  ASSUME LinkType
  PROVE  /\ MaxSize \in Nat /\ faults * MaxSize \in Nat
         /\ (faults + 1) * MaxSize = faults * MaxSize + MaxSize
         /\ maxSize > 0 => faults * MaxSize + MaxSize <= maxSize
<1>1. /\ MaxSize \in Nat /\ MaxFaults \in Nat /\ faults \in 0..MaxFaults
      /\ \A s \in Limits : s \in Nat /\ (s = 0 \/ s >= (MaxFaults + 1) * MaxSize)
      /\ maxSize \in Limits \union {0}
  BY LinkAssumption DEF LinkAssumption, LinkType, Collector!CollectorAssumption
<1>2. faults * MaxSize \in Nat /\ (faults + 1) * MaxSize = faults * MaxSize + MaxSize
  BY <1>1
<1>3. ASSUME maxSize > 0 PROVE faults * MaxSize + MaxSize <= maxSize
  <2>1. PICK j \in Nat : MaxFaults = faults + j
    <3>1. MaxFaults - faults \in Nat /\ MaxFaults = faults + (MaxFaults - faults)
      BY <1>1
    <3> QED BY <3>1
  <2>2. (MaxFaults + 1) * MaxSize = faults * MaxSize + j * MaxSize + MaxSize
    BY <1>1, <2>1
  <2>3. j * MaxSize \in Nat
    BY <1>1, <2>1
  <2>4. maxSize \in Nat /\ maxSize >= (MaxFaults + 1) * MaxSize
    BY <1>1, <1>3
  <2>5. PICK x, y \in Nat : x = faults * MaxSize /\ y = j * MaxSize
    BY <1>2, <2>3
  <2>6. maxSize >= x + y + MaxSize
    BY <2>2, <2>4, <2>5, Zenon
  <2> QED BY <1>1, <2>4, <2>5, <2>6
<1> QED BY <1>1, <1>2, <1>3

\* The collector takes for a message the packets of the message at the head that
\* have left the link, this one with them, and less than a message for each fault.
LEMMA ReceivedLength ==
  ASSUME LInv, link # <<>>, NEW m, NEW k,
         m = sent[Head(link).number], k = Head(link).position
  PROVE  /\ Len(C!WireAfter(Head(link).packet).bytes) \in Nat
         /\ Len(C!WireAfter(Head(link).packet).bytes)
              <= faults * MaxSize + Len(Before(m, k + 1))
<1> DEFINE p == Head(link).packet
           w == C!WireAfter(p)
<1>1. /\ m \in Messages /\ k \in 1..Count(m) /\ p = Cut(m)[k]
  BY HeadOfLink DEF LInv, Genuine
<1>2. /\ p \in C!Packets /\ (C!IsFirst(p) <=> k = 1)
      /\ Before(m, 1) = <<>>
      /\ Before(m, k) \in Seq(Byte) /\ Before(m, k + 1) \in Seq(Byte)
      /\ Before(m, k) \o p.payload = Before(m, k + 1)
  BY <1>1, PacketsOfMessage
<1>3. p.payload \in Seq(Byte) /\ wire.bytes \in Seq(Byte)
  BY <1>2, SameCollector, C!PayloadIsSeq DEF LInv, Undisturbed, C!IInv, C!TypeOK
<1> HIDE DEF p
<1>4. PICK B, n, W, F \in Nat :
        /\ B = Len(Before(m, k)) /\ n = Len(p.payload) /\ W = Len(wire.bytes)
        /\ F = faults * MaxSize
  BY <1>2, <1>3, LenProperties, LimitIsAmple DEF LInv
<1>5. Len(Before(m, k + 1)) = B + n
  <2>1. Len(Before(m, k) \o p.payload) = Len(Before(m, k)) + Len(p.payload)
    BY <1>2, <1>3, ConcatProperties
  <2> QED BY <1>2, <1>4, <2>1
<1>6. ASSUME C!IsFirst(p) PROVE Len(w.bytes) \in Nat /\ Len(w.bytes) <= F + (B + n)
  <2>1. w.bytes = p.payload
    BY <1>6 DEF C!WireAfter, C!Extended
  <2>2. Len(w.bytes) = n
    BY <1>4, <2>1
  <2> HIDE DEF w
  <2>3. n <= F + (B + n)
    OBVIOUS
  <2> QED BY <2>2, <2>3
<1>7. ASSUME ~C!IsFirst(p) /\ wire.phase = "open"
      PROVE  Len(w.bytes) \in Nat /\ Len(w.bytes) <= F + (B + n)
  <2>1. w.bytes = wire.bytes \o p.payload
    BY <1>7 DEF C!WireAfter, C!Extended
  <2>2. Len(w.bytes) = W + n
    BY <1>3, <1>4, <2>1, ConcatProperties
  <2>3. W <= F + B
    <3>1. Gone = Len(Before(m, k))
      BY DEF Gone
    <3> QED BY <1>4, <1>7, <3>1 DEF LInv, CollectsLittle
  <2> HIDE DEF w
  <2>4. W + n <= F + (B + n)
    BY <2>3
  <2> QED BY <2>2, <2>4
<1>8. ASSUME ~C!IsFirst(p) /\ wire.phase # "open"
      PROVE  Len(w.bytes) \in Nat /\ Len(w.bytes) <= F + (B + n)
  <2>1. w.bytes = <<>>
    BY <1>8 DEF C!WireAfter, C!NoWire
  <2>2. Len(w.bytes) = 0
    BY <2>1, EmptySeq
  <2> HIDE DEF w
  <2>3. 0 <= F + (B + n)
    OBVIOUS
  <2> QED BY <2>2, <2>3
<1>9. Len(w.bytes) \in Nat /\ Len(w.bytes) <= F + (B + n)
  BY <1>6, <1>7, <1>8, Zenon
<1> QED BY <1>4, <1>5, <1>9, Zenon DEF p, w

\* What the collector makes of the packet at the head.  Of a message that no fault
\* happened to it has what was sent so far, and with the last packet delivers it.
LEMMA HeadReceived ==
  ASSUME LInv, link # <<>>, Collector!Feed(Head(link).packet), NEW m, NEW k,
         m = sent[Head(link).number], k = Head(link).position
  PROVE  /\ Undisturbed'
         /\ maxSize' = maxSize
         /\ call'.made => k = Count(m)
         /\ wire'.phase = "open" =>
              /\ k # Count(m)
              /\ Len(wire'.bytes) <= faults * MaxSize + Len(Before(m, k + 1))
              /\ Len(wire'.bytes) <= (faults + 1) * MaxSize + Len(Before(m, k))
         /\ hurt # Head(link).number /\ k # Count(m) =>
              wire'.phase = "open" /\ wire'.bytes = Before(m, k + 1)
         /\ hurt # Head(link).number /\ k = Count(m) =>
              call' = C!Call(m.manufacturer, m.data)
<1> DEFINE p == Head(link).packet
<1>1. /\ m \in Messages /\ k \in 1..Count(m) /\ p = Cut(m)[k]
  BY HeadOfLink DEF LInv, Genuine
<1>2. /\ p \in C!Packets /\ (C!IsFirst(p) <=> k = 1) /\ (C!IsLast(p) <=> k = Count(m))
      /\ Before(m, 1) = <<>> /\ Before(m, Count(m) + 1) = Bytes(m)
      /\ Before(m, k) \in Seq(Byte) /\ Before(m, k + 1) \in Seq(Byte)
      /\ Before(m, k) \o p.payload = Before(m, k + 1)
      /\ Len(Before(m, k + 1)) <= MaxSize
      /\ Count(m) \in Nat
  BY <1>1, PacketsOfMessage
<1>3. p.payload \in Seq(Byte)
  BY <1>2, SameCollector, C!PayloadIsSeq
<1>4. /\ Len(C!WireAfter(p).bytes) \in Nat
      /\ Len(C!WireAfter(p).bytes) <= faults * MaxSize + Len(Before(m, k + 1))
  BY ReceivedLength
<1> HIDE DEF p
<1>5. PICK w, F, A, B \in Nat :
        /\ w = Len(C!WireAfter(p).bytes) /\ F = faults * MaxSize
        /\ A = Len(Before(m, k + 1)) /\ B = Len(Before(m, k))
  BY <1>2, <1>4, LenProperties, LimitIsAmple DEF LInv
<1>6. /\ w <= F + A /\ A <= MaxSize /\ MaxSize \in Nat
      /\ (faults + 1) * MaxSize = F + MaxSize
      /\ maxSize > 0 => F + MaxSize <= maxSize
  <2>1. /\ MaxSize \in Nat
        /\ (faults + 1) * MaxSize = faults * MaxSize + MaxSize
        /\ maxSize > 0 => faults * MaxSize + MaxSize <= maxSize
    BY LimitIsAmple DEF LInv
  <2> QED BY <1>2, <1>4, <1>5, <2>1, Zenon
<1>7. maxSize > 0 => ~(w > maxSize)
  <2>1. maxSize \in Nat
    BY DEF LInv, Undisturbed, C!IInv, C!TypeOK
  <2> QED BY <1>6, <2>1
<1>8. /\ Undisturbed' /\ maxSize' = maxSize
      /\ wire' = C!WireAfter(p)
      /\ call'.made <=> wire'.phase = "ended"
      /\ call'.made => call' = C!Decode(wire'.bytes)
  BY <1>2, <1>5, <1>7, FedWithinLimit DEF p, LInv
<1>9. call'.made => k = Count(m)
  BY <1>2, <1>8 DEF C!WireAfter, C!Extended, C!NoWire
<1>10. ASSUME wire'.phase = "open"
       PROVE  /\ k # Count(m)
              /\ Len(wire'.bytes) <= faults * MaxSize + Len(Before(m, k + 1))
              /\ Len(wire'.bytes) <= (faults + 1) * MaxSize + Len(Before(m, k))
  <2>0. k # Count(m)
    BY <1>2, <1>8, <1>10 DEF C!WireAfter, C!Extended, C!NoWire
  <2>1. w <= (F + MaxSize) + B
    BY <1>6
  <2> QED BY <1>4, <1>5, <1>6, <1>8, <2>0, <2>1, Zenon
<1>11. ASSUME hurt # Head(link).number
       PROVE  /\ wire'.bytes = Before(m, k + 1)
              /\ wire'.phase = IF k = Count(m) THEN "ended" ELSE "open"
  <2>1. CASE k = 1
    <3>1. wire'.bytes = p.payload
      BY <1>2, <1>8, <2>1 DEF C!WireAfter, C!Extended
    <3>2. Before(m, k + 1) = p.payload
      <4>1. <<>> \o p.payload = p.payload
        BY <1>3, ConcatEmptySeq
      <4> QED BY <1>2, <2>1, <4>1
    <3> QED BY <1>2, <1>8, <2>1, <3>1, <3>2 DEF C!WireAfter, C!Extended
  <2>2. CASE k # 1
    <3>1. k > 1
      <4>1. \A n \in Nat : \A j \in 1..n : j # 1 => j > 1
        OBVIOUS
      <4> QED BY <1>1, <1>2, <2>2, <4>1, Zenon
    <3>2. wire.phase = "open" /\ wire.bytes = Before(m, k)
      BY <1>11, <3>1 DEF LInv, Collected
    <3> QED BY <1>2, <1>8, <2>2, <3>2 DEF C!WireAfter, C!Extended
  <2> QED BY <2>1, <2>2
<1>12. hurt # Head(link).number /\ k = Count(m) => call' = C!Call(m.manufacturer, m.data)
  <2> SUFFICES ASSUME hurt # Head(link).number, k = Count(m)
               PROVE  call' = C!Call(m.manufacturer, m.data)
    OBVIOUS
  <2>1. wire'.phase = "ended" /\ wire'.bytes = Bytes(m)
    BY <1>2, <1>11
  <2>2. call' = C!Decode(Bytes(m))
    BY <1>8, <2>1
  <2> QED BY <1>1, <2>2, MessageType
<1> QED BY <1>8, <1>9, <1>10, <1>11, <1>12

-----------------------------------------------------------------------------
(* The invariant holds throughout. *)

\* At first nothing was sent.
LEMMA LInvInit == Init => LInv
<1> SUFFICES ASSUME Init PROVE LInv
  OBVIOUS
<1>1. link = <<>> /\ sent = <<>> /\ delivered = <<>> /\ hurt = 0 /\ faults = 0 /\ hasCallback
  BY DEF Init
<1>2. C!Init /\ C!CollectorAssumption
  BY SameCollector DEF Init
<1>3. C!IInv
  BY <1>2, C!InvInit
<1>4. wire = C!NoWire /\ maxSize = 0
  BY <1>2 DEF C!Init
<1>5. MaxFaults \in Nat
  BY LinkAssumption DEF LinkAssumption
<1>6. Len(<<>>) = 0
  BY EmptySeq
<1>7. LinkType
  BY <1>1, <1>4, <1>5, <1>6, EmptySeq DEF LinkType
<1>8. LinkHolds
  BY <1>1, <1>6, EmptySeq DEF LinkHolds
<1> QED BY <1>1, <1>3, <1>4, <1>7, <1>8 DEF LInv, Undisturbed, Collected, CollectsLittle, C!NoWire

\* The history of what was delivered keeps its type.
LEMMA DeliveredType ==
  ASSUME LinkType, Undisturbed',
         delivered' = IF call'.made
                        THEN Append(delivered, [manufacturer |-> call'.manufacturer,
                                                data         |-> call'.data])
                        ELSE delivered
  PROVE  delivered' \in Seq([manufacturer : Seq(Byte), data : Seq(Byte)])
<1>1. call' \in {C!NoCall} \union [made : {TRUE}, manufacturer : Seq(Byte), data : Seq(Byte)]
  BY DEF Undisturbed, C!IInv, C!TypeOK
<1>2. CASE call'.made
  <2>1. [manufacturer |-> call'.manufacturer, data |-> call'.data]
          \in [manufacturer : Seq(Byte), data : Seq(Byte)]
    <3>1. call' # C!NoCall
      BY <1>2 DEF C!NoCall
    <3>2. call' \in [made : {TRUE}, manufacturer : Seq(Byte), data : Seq(Byte)]
      BY <1>1, <3>1
    <3> QED BY <3>2
  <2> QED BY <1>2, <2>1, AppendProperties DEF LinkType
<1>3. CASE ~call'.made
  BY <1>3 DEF LinkType
<1> QED BY <1>2, <1>3

\* A packet that leaves the link takes the invariant to the one that follows it.
LEMMA LInvReceive == LInv /\ Receive("none") => LInv'
<1> SUFFICES ASSUME LInv, Receive("none") PROVE LInv'
  OBVIOUS
<1>0. /\ link # <<>> /\ Collector!Feed(Head(link).packet)
      /\ link' = Tail(link) /\ UNCHANGED <<hurt, faults, sent>>
      /\ delivered' = IF call'.made
                        THEN Append(delivered, [manufacturer |-> call'.manufacturer,
                                                data         |-> call'.data])
                        ELSE delivered
  BY DEF Receive
<1>1. LinkType /\ LinkHolds
  BY DEF LInv
<1> DEFINE n == Head(link).number
           m == sent[n]
           k == Head(link).position
<1>2. /\ Undisturbed' /\ maxSize' = maxSize
      /\ wire'.phase = "open" => Len(wire'.bytes) <= faults * MaxSize + Len(Before(m, k + 1))
      /\ hurt # n /\ k # Count(m) => wire'.phase = "open" /\ wire'.bytes = Before(m, k + 1)
      /\ wire'.phase = "open" => k # Count(m)
  BY <1>0, HeadReceived
<1>3. /\ LinkHolds' /\ hurt' \in 0..Len(sent)
      /\ link' = <<>> => Final(Head(link))
      /\ link' # <<>> => Follows(Head(link), Head(link'))
  BY <1>0, <1>1, HeadLeaves
<1>4. LinkType'
  <2>1. delivered' \in Seq([manufacturer : Seq(Byte), data : Seq(Byte)])
    BY <1>0, <1>1, <1>2, DeliveredType
  <2> QED BY <1>0, <1>1, <1>2, <2>1 DEF LinkType
<1>5. k # Count(m) => link' # <<>> /\ Head(link').number = n /\ Head(link').position = k + 1
  BY <1>3 DEF Final, Follows
<1>6. k = Count(m) /\ link' # <<>> => Head(link').position = 1
  BY <1>3 DEF Follows
<1>7. Collected'
  <2>1. CASE k = Count(m)
    BY <1>6, <2>1 DEF Collected
  <2>2. CASE k # Count(m)
    BY <1>0, <1>2, <1>5, <2>2 DEF Collected
  <2> QED BY <2>1, <2>2
<1>8. CollectsLittle'
  <2> SUFFICES ASSUME wire'.phase = "open"
               PROVE  Len(wire'.bytes) <= faults' * MaxSize + Gone'
    BY DEF CollectsLittle
  <2>1. k # Count(m)
    BY <1>2
  <2>2. Gone' = Len(Before(m, k + 1))
    BY <1>0, <1>5, <2>1 DEF Gone
  <2> QED BY <1>0, <1>2, <2>2
<1> QED BY <1>2, <1>3, <1>4, <1>7, <1>8 DEF LInv

\* A repeated packet hurts its message, and adds a message at most.
LEMMA LInvRepeat == LInv /\ Receive("repeated") => LInv'
<1> SUFFICES ASSUME LInv, Receive("repeated") PROVE LInv'
  OBVIOUS
<1>0. /\ link # <<>> /\ Collector!Feed(Head(link).packet)
      /\ UNCHANGED <<link, sent>> /\ hurt' = Head(link).number
      /\ faults < MaxFaults /\ faults' = faults + 1
      /\ delivered' = IF call'.made
                        THEN Append(delivered, [manufacturer |-> call'.manufacturer,
                                                data         |-> call'.data])
                        ELSE delivered
  BY DEF Receive
<1>1. LinkType /\ LinkHolds
  BY DEF LInv
<1>2. /\ Undisturbed' /\ maxSize' = maxSize
      /\ wire'.phase = "open" =>
           Len(wire'.bytes) <= (faults + 1) * MaxSize
                                 + Len(Before(sent[Head(link).number], Head(link).position))
  BY <1>0, HeadReceived
<1>3. hurt' \in 0..Len(sent) /\ hurt' <= Head(link).number
  BY <1>0, <1>1, HeadOfLink DEF Genuine, Elements
<1>4. faults' \in 0..MaxFaults
  BY <1>0, <1>1, LinkAssumption DEF LinkType, LinkAssumption
<1>5. LinkType'
  <2>1. delivered' \in Seq([manufacturer : Seq(Byte), data : Seq(Byte)])
    BY <1>0, <1>1, <1>2, DeliveredType
  <2> QED BY <1>0, <1>1, <1>2, <1>3, <1>4, <2>1 DEF LinkType
<1>6. LinkHolds'
  BY <1>0, <1>1, <1>3 DEF LinkHolds, Genuine, Follows, Final
<1>7. Collected'
  BY <1>0 DEF Collected
<1>8. CollectsLittle'
  BY <1>0, <1>2 DEF CollectsLittle, Gone
<1> QED BY <1>2, <1>5, <1>6, <1>7, <1>8 DEF LInv

\* A lost packet hurts its message, and leaves what was collected.
LEMMA LInvLose == LInv /\ Lose => LInv'
<1> SUFFICES ASSUME LInv, Lose PROVE LInv'
  OBVIOUS
<1>0. /\ link # <<>> /\ link' = Tail(link) /\ hurt' = Head(link).number
      /\ faults < MaxFaults /\ faults' = faults + 1
      /\ UNCHANGED <<sent, delivered, state, msg, capacity, maxSize, hasCallback, call, wire>>
  BY DEF Lose, collectorVars
<1>1. LinkType /\ LinkHolds
  BY DEF LInv
<1> DEFINE n == Head(link).number
           m == sent[n]
           k == Head(link).position
<1>2. /\ m \in Messages /\ k \in 1..Count(m)
  BY <1>0, <1>1, HeadOfLink DEF Genuine
<1>3. /\ LinkHolds' /\ hurt' \in 0..Len(sent)
      /\ link' = <<>> => Final(Head(link))
      /\ link' # <<>> => Follows(Head(link), Head(link'))
  BY <1>0, <1>1, HeadLeaves
<1>4. faults' \in 0..MaxFaults
  BY <1>0, <1>1, LinkAssumption DEF LinkType, LinkAssumption
<1>5. LinkType'
  BY <1>0, <1>1, <1>3, <1>4 DEF LinkType
<1>6. Undisturbed'
  BY <1>0 DEF LInv, Undisturbed, C!IInv, C!TypeOK, C!Holds, C!WithinCapacity, C!ExactDelivery,
              C!DeliveredIffEnded, C!Decode, C!ManufacturerLength
<1>7. Collected'
  <2> SUFFICES ASSUME link' # <<>>, hurt' # Head(link').number, Head(link').position > 1
               PROVE  FALSE
    BY DEF Collected
  <2>1. Follows(Head(link), Head(link'))
    BY <1>3
  <2>2. CASE k = Count(m)
    BY <2>1, <2>2 DEF Follows
  <2>3. CASE k # Count(m)
    BY <1>0, <2>1, <2>3 DEF Follows
  <2> QED BY <2>2, <2>3
<1>8. CollectsLittle'
  <2> SUFFICES ASSUME wire'.phase = "open"
               PROVE  Len(wire'.bytes) <= faults' * MaxSize + Gone'
    BY DEF CollectsLittle
  <2>1. Len(wire.bytes) <= faults * MaxSize + Len(Before(m, k))
    BY <1>0 DEF LInv, CollectsLittle, Gone
  <2>2. /\ Before(m, k) \in Seq(Byte) /\ Before(m, k + 1) \in Seq(Byte)
        /\ Len(Before(m, k)) <= Len(Before(m, k + 1)) /\ Len(Before(m, k + 1)) <= MaxSize
    <3>1. /\ Before(m, k) \in Seq(Byte) /\ Before(m, k + 1) \in Seq(Byte)
          /\ Before(m, k) \o Cut(m)[k].payload = Before(m, k + 1)
          /\ Len(Before(m, k + 1)) <= MaxSize
          /\ Cut(m)[k] \in C!Packets
      BY <1>2, PacketsOfMessage
    <3>2. Cut(m)[k].payload \in Seq(Byte)
      BY <3>1, SameCollector, C!PayloadIsSeq
    <3>3. Len(Before(m, k + 1)) = Len(Before(m, k)) + Len(Cut(m)[k].payload)
      <4>1. Len(Before(m, k) \o Cut(m)[k].payload) = Len(Before(m, k)) + Len(Cut(m)[k].payload)
        BY <3>1, <3>2, ConcatProperties
      <4> QED BY <3>1, <4>1, Zenon
    <3>4. Len(Before(m, k)) \in Nat /\ Len(Cut(m)[k].payload) \in Nat
      BY <3>1, <3>2, LenProperties
    <3>5. \A a, b \in Nat : a <= a + b
      OBVIOUS
    <3> QED BY <3>1, <3>3, <3>4, <3>5, Zenon
  <2>3. wire.bytes \in Seq(Byte)
    BY DEF LInv, Undisturbed, C!IInv, C!TypeOK
  <2>4. PICK w, F, A, B \in Nat :
          /\ w = Len(wire.bytes) /\ F = faults * MaxSize
          /\ A = Len(Before(m, k + 1)) /\ B = Len(Before(m, k))
    BY <1>1, <2>2, <2>3, LenProperties, LimitIsAmple
  <2>5. /\ w <= F + B /\ B <= A /\ A <= MaxSize /\ MaxSize \in Nat
        /\ faults' * MaxSize = F + MaxSize
    BY <1>0, <1>1, <2>1, <2>2, <2>4, LimitIsAmple, Zenon
  <2>6. w <= (F + MaxSize) + 0 /\ w <= (F + MaxSize) + A
    BY <2>5
  <2>7. Gone' \in {0, A}
    <3>1. CASE link' = <<>>
      BY <3>1 DEF Gone
    <3>2. CASE link' # <<>> /\ k = Count(m)
      <4>1. Head(link').number = n + 1 /\ Head(link').position = 1
        BY <1>3, <3>2 DEF Follows
      <4>2. link' \in Seq(Elements) /\ sent'[Head(link').number] \in Messages
        <5>1. LinkType' /\ LinkHolds' /\ link' # <<>>
          BY <1>3, <1>5, <3>2
        <5>2. /\ link' \in Seq(Elements) /\ sent' \in Seq(Messages)
              /\ Genuine(link[1])'
          <6>1. 1 \in 1..Len(link')
            <7>1. Len(link') \in Nat /\ Len(link') # 0
              BY <5>1, EmptyLink, Zenon DEF LinkHolds
            <7>2. \A l \in Nat : l # 0 => 1 \in 1..l
              OBVIOUS
            <7> QED BY <7>1, <7>2, Zenon
          <6> QED BY <5>1, <6>1 DEF LinkHolds, LinkType
        <5>3. link'[1].number \in 1..Len(sent') /\ Head(link') = link'[1]
          BY <5>1, <5>2 DEF Genuine
        <5> QED BY <5>2, <5>3, ElementOfSeq
      <4>3. Before(sent'[Head(link').number], 1) = <<>>
        BY <4>2, PacketsOfMessage
      <4>4. Gone' = Len(<<>>)
        BY <3>2, <4>1, <4>3 DEF Gone
      <4> QED BY <4>4, EmptySeq
    <3>3. CASE link' # <<>> /\ k # Count(m)
      <4>1. Head(link').number = n /\ Head(link').position = k + 1
        BY <1>3, <3>3 DEF Follows
      <4>2. Gone' = Len(Before(m, k + 1))
        BY <1>0, <3>3, <4>1 DEF Gone
      <4> QED BY <2>4, <4>2
    <3> QED BY <3>1, <3>2, <3>3
  <2>8. wire' = wire
    BY <1>0
  <2> QED BY <2>4, <2>5, <2>6, <2>7, <2>8, Zenon
<1> QED BY <1>3, <1>5, <1>6, <1>7, <1>8 DEF LInv

\* A limit changes nothing of what is under way.
LEMMA LInvLimit == LInv /\ (\E s \in Limits : SetLimit(s)) => LInv'
<1> SUFFICES ASSUME LInv, NEW s \in Limits, SetLimit(s) PROVE LInv'
  OBVIOUS
<1>0. /\ Collector!SetMaxSysexDataSize(s)
      /\ UNCHANGED <<link, sent, delivered, hurt, faults>>
  BY DEF SetLimit, linkVars
<1>1. /\ Undisturbed' /\ maxSize' = s /\ wire'.bytes = wire.bytes
      /\ wire'.phase = "open" <=> wire.phase = "open"
  BY <1>0, LimitSet DEF LInv
<1>2. LinkType'
  BY <1>0, <1>1 DEF LInv, LinkType
<1>3. LinkHolds'
  BY <1>0 DEF LInv, LinkHolds, Genuine, Follows, Final
<1>4. Collected' /\ CollectsLittle'
  BY <1>0, <1>1 DEF LInv, Collected, CollectsLittle, Gone
<1> QED BY <1>1, <1>2, <1>3, <1>4 DEF LInv

\* The packets of a new message come after those under way.
LEMMA LInvSend == LInv /\ (\E m \in Messages : Send(m)) => LInv'
<1> SUFFICES ASSUME LInv, NEW m \in Messages, Send(m) PROVE LInv'
  OBVIOUS
<1> DEFINE number == Len(sent) + 1
           new == [i \in 1..Count(m) |->
                     [packet |-> Cut(m)[i], number |-> number, position |-> i]]
<1>0. /\ sent' = Append(sent, m) /\ link' = link \o new
      /\ UNCHANGED <<delivered, hurt, faults, state, msg, capacity, maxSize, hasCallback,
                     call, wire>>
  BY DEF Send, Cut, Count, collectorVars
<1>1. LinkType /\ LinkHolds
  BY DEF LInv
<1>2. /\ Len(sent) \in Nat /\ Len(link) \in Nat /\ Count(m) \in Nat /\ Count(m) > 0
      /\ \A i \in 1..Count(m) : Cut(m)[i] \in C!PacketsOf
      /\ Before(m, 1) = <<>>
  <2>1. Cut(m) \in Seq(C!PacketsOf) /\ Count(m) = Len(Cut(m))
    BY PacketsOfMessage DEF Count
  <2> QED BY <1>1, <2>1, LenProperties, ElementOfSeq, PacketsOfMessage DEF LinkType, LinkHolds
<1>3. /\ sent' \in Seq(Messages) /\ Len(sent') = number /\ sent'[number] = m
      /\ \A i \in 1..Len(sent) : sent'[i] = sent[i]
  BY <1>0, <1>1, AppendProperties DEF LinkType
<1>4. /\ new \in Seq(Elements) /\ Len(new) = Count(m)
      /\ \A i \in 1..Count(m) : new[i] = [packet |-> Cut(m)[i], number |-> number, position |-> i]
  <2>1. new \in [1..Count(m) -> Elements]
    BY <1>2 DEF Elements
  <2>2. new \in Seq(Elements)
    BY <1>2, <2>1, SeqDef
  <2>3. Len(new) = Count(m)
    BY <1>2, <2>1, <2>2, LenProperties
  <2> QED BY <2>2, <2>3
<1> HIDE DEF new
<1>5. /\ link' \in Seq(Elements) /\ Len(link') = Len(link) + Count(m)
      /\ \A i \in 1..Len(link) + Count(m) :
           link'[i] = IF i <= Len(link) THEN link[i] ELSE new[i - Len(link)]
  BY <1>0, <1>1, <1>4, ConcatProperties DEF LinkHolds
<1>6. \A e : Genuine(e) => Genuine(e)'
  <2> SUFFICES ASSUME NEW e, Genuine(e) PROVE Genuine(e)'
    OBVIOUS
  <2>1. e.number \in 1..Len(sent') /\ sent'[e.number] = sent[e.number]
    BY <1>2, <1>3 DEF Genuine
  <2> QED BY <2>1 DEF Genuine
<1>7. \A e, f : Genuine(e) /\ Follows(e, f) => Follows(e, f)'
  BY <1>3 DEF Genuine, Follows
<1>8. ASSUME NEW i \in 1..Len(link')
      PROVE  /\ Genuine(link[i])'
             /\ i < Len(link') => Follows(link[i], link[i + 1])'
  <2>1. CASE i < Len(link)
    <3>1. i \in 1..Len(link) /\ i + 1 \in 1..Len(link)
      BY <1>2, <1>5, <2>1
    <3>2. link'[i] = link[i] /\ link'[i + 1] = link[i + 1]
      BY <1>2, <1>5, <2>1, <3>1
    <3>3. Genuine(link[i]) /\ Follows(link[i], link[i + 1])
      BY <1>1, <2>1, <3>1 DEF LinkHolds
    <3>4. Genuine(link[i])'
      BY <1>6, <3>2, <3>3 DEF Genuine
    <3>5. Follows(link[i], link[i + 1])'
      BY <1>7, <3>2, <3>3 DEF Follows
    <3> QED BY <3>4, <3>5
  <2>2. CASE i = Len(link)
    <3>1. i \in 1..Len(link) /\ link # <<>> /\ i + 1 \in 1..Len(link')
          /\ ~(i + 1 <= Len(link)) /\ (i + 1) - Len(link) = 1 /\ 1 \in 1..Count(m)
      BY <1>2, <1>5, <2>2, EmptySeq
    <3>2. link'[i] = link[i] /\ link'[i + 1] = new[1]
      BY <1>2, <1>5, <2>2, <3>1
    <3>3. Genuine(link[i]) /\ Final(link[i])
      BY <1>1, <2>2, <3>1 DEF LinkHolds
    <3>4. Genuine(link[i])'
      BY <1>6, <3>2, <3>3 DEF Genuine
    <3>5. new[1].number = number /\ new[1].position = 1
      BY <1>4, <3>1
    <3>6. /\ link[i].number = Len(sent) /\ link[i].position = Count(sent[link[i].number])
          /\ sent'[link[i].number] = sent[link[i].number]
      BY <1>3, <3>3 DEF Final, Genuine
    <3>7. Follows(link[i], link[i + 1])'
      BY <3>2, <3>5, <3>6 DEF Follows
    <3> QED BY <3>4, <3>7
  <2>3. CASE i > Len(link)
    <3>1. PICK j \in 1..Count(m) : i = Len(link) + j /\ j = i - Len(link)
      <4>1. i - Len(link) \in 1..Count(m) /\ i = Len(link) + (i - Len(link))
        BY <1>2, <1>5, <2>3
      <4> QED BY <4>1
    <3>2. link'[i] = new[j] /\ new[j] = [packet |-> Cut(m)[j], number |-> number, position |-> j]
      <4>1. i \in 1..Len(link) + Count(m) /\ ~(i <= Len(link))
        BY <1>2, <1>5, <2>3
      <4> QED BY <1>4, <1>5, <3>1, <4>1
    <3>3. number \in 1..Len(sent')
      BY <1>2, <1>3
    <3>4. Genuine(link[i])'
      BY <1>3, <3>2, <3>3 DEF Genuine
    <3>5. ASSUME i < Len(link') PROVE Follows(link[i], link[i + 1])'
      <4>1. /\ i + 1 \in 1..Len(link) + Count(m) /\ ~(i + 1 <= Len(link))
            /\ (i + 1) - Len(link) = j + 1 /\ j + 1 \in 1..Count(m) /\ j # Count(m)
        BY <1>2, <1>5, <2>3, <3>1, <3>5, SMTT(30)
      <4>2. link'[i + 1] = [packet |-> Cut(m)[j + 1], number |-> number, position |-> j + 1]
        BY <1>4, <1>5, <4>1
      <4> QED BY <1>3, <3>2, <4>1, <4>2 DEF Follows
    <3> QED BY <3>4, <3>5
  <2> QED BY <1>2, <1>5, <2>1, <2>2, <2>3
<1>9. /\ link' # <<>> /\ 1 \in 1..Len(link') /\ Len(link') \in 1..Len(link')
      /\ Head(link') = link'[1]
  BY <1>2, <1>5, EmptySeq
<1>10. Final(link[Len(link)])'
  <2>1. /\ Len(link') \in 1..Len(link) + Count(m) /\ ~(Len(link') <= Len(link))
        /\ Len(link') - Len(link) = Count(m) /\ Count(m) \in 1..Count(m)
    BY <1>2, <1>5
  <2>2. link'[Len(link')] = [packet |-> Cut(m)[Count(m)], number |-> number, position |-> Count(m)]
    BY <1>4, <1>5, <2>1
  <2> QED BY <1>3, <2>2 DEF Final
<1>11. ASSUME link = <<>>
       PROVE  /\ hurt' <= Head(link').number /\ hurt' \in 0..Len(sent')
              /\ Gone' = Gone
              /\ Collected'
  <2>1. Head(link') = [packet |-> Cut(m)[1], number |-> number, position |-> 1]
    <3>1. Len(link) = 0
      BY <1>11, EmptySeq
    <3>2. 1 \in 1..Len(link) + Count(m) /\ ~(1 <= Len(link)) /\ 1 - Len(link) = 1 /\ 1 \in 1..Count(m)
      BY <1>2, <3>1
    <3> QED BY <1>4, <1>5, <1>9, <3>2
  <2>2. hurt' <= Head(link').number /\ hurt' \in 0..Len(sent')
    <3>1. \A l \in Nat : \A u \in 0..l : u <= l + 1 /\ u \in 0..l + 1
      OBVIOUS
    <3>2. hurt' = hurt /\ hurt \in 0..Len(sent) /\ Len(sent) \in Nat
      BY <1>0, <1>1, <1>2 DEF LinkType
    <3>3. Head(link').number = Len(sent) + 1 /\ Len(sent') = Len(sent) + 1
      BY <1>3, <2>1
    <3> QED BY <3>1, <3>2, <3>3, Zenon
  <2>3. Gone = 0 /\ Gone' = 0
    BY <1>2, <1>3, <1>9, <1>11, <2>1, EmptySeq DEF Gone
  <2>4. Collected'
    BY <2>1 DEF Collected
  <2> QED BY <2>2, <2>3, <2>4
<1>12. ASSUME link # <<>>
       PROVE  /\ hurt' <= Head(link').number /\ hurt' \in 0..Len(sent')
              /\ Gone' = Gone
              /\ Collected'
  <2>1. /\ Head(link') = Head(link) /\ Genuine(Head(link))
        /\ hurt' <= Head(link').number /\ hurt' \in 0..Len(sent')
    <3>1. Len(link) > 0 /\ Head(link) = link[1] /\ Genuine(Head(link))
      BY <1>1, <1>12, HeadOfLink
    <3>2. 1 <= Len(link) /\ 1 \in 1..Len(link) + Count(m)
      BY <1>2, <3>1
    <3>3. link'[1] = link[1]
      BY <1>5, <3>2
    <3>4. hurt' \in 0..Len(sent')
      BY <1>0, <1>1, <1>2, <1>3 DEF LinkType
    <3> QED BY <1>0, <1>1, <1>9, <1>12, <3>1, <3>3, <3>4 DEF LinkHolds
  <2>2. sent'[Head(link').number] = sent[Head(link).number]
    BY <1>3, <2>1 DEF Genuine
  <2>3. Gone' = Gone
    BY <1>9, <1>12, <2>1, <2>2 DEF Gone
  <2>4. Collected'
    BY <1>0, <1>12, <2>1, <2>2 DEF LInv, Collected
  <2> QED BY <2>1, <2>3, <2>4
<1>13. LinkType'
  BY <1>0, <1>1, <1>3, <1>11, <1>12 DEF LinkType
<1>14. LinkHolds'
  BY <1>5, <1>8, <1>10, <1>11, <1>12 DEF LinkHolds
<1>15. Undisturbed'
  BY <1>0 DEF LInv, Undisturbed, C!IInv, C!TypeOK, C!Holds, C!WithinCapacity, C!ExactDelivery,
              C!DeliveredIffEnded, C!Decode, C!ManufacturerLength
<1>16. CollectsLittle'
  BY <1>0, <1>11, <1>12 DEF LInv, CollectsLittle
<1> QED BY <1>11, <1>12, <1>13, <1>14, <1>15, <1>16 DEF LInv

\* Every step keeps the invariant.
LEMMA LInvStep == LInv /\ [Next]_vars => LInv'
<1>1. ASSUME LInv, UNCHANGED vars PROVE LInv'
  <2>1. UNCHANGED <<link, sent, delivered, hurt, faults, state, msg, capacity, maxSize,
                    hasCallback, call, wire>>
    BY <1>1 DEF vars, linkVars, collectorVars
  <2>2. Undisturbed'
    BY <1>1, <2>1 DEF LInv, Undisturbed, C!IInv, C!TypeOK, C!Holds, C!WithinCapacity,
                C!ExactDelivery, C!DeliveredIffEnded, C!Decode, C!ManufacturerLength
  <2>3. LinkType' /\ LinkHolds'
    BY <1>1, <2>1 DEF LInv, LinkType, LinkHolds, Genuine, Follows, Final
  <2>4. Collected' /\ CollectsLittle'
    BY <1>1, <2>1 DEF LInv, Collected, CollectsLittle, Gone
  <2> QED BY <2>2, <2>3, <2>4 DEF LInv
<1>2. Receive("none") \/ Receive("repeated") <=> \E fault \in {"none", "repeated"} : Receive(fault)
  BY Zenon
<1> QED BY <1>1, <1>2, LInvSend, LInvReceive, LInvRepeat, LInvLose, LInvLimit, Zenon DEF Next

\* The link holds, in order, all that is under way, and the collector has what has
\* left the link of the message at its head.
THEOREM LinkInvariance == Spec => []LInv
BY LInvInit, LInvStep, PTL DEF Spec

-----------------------------------------------------------------------------
(* The channel. *)

IsHurt == link # <<>> /\ hurt = Head(link).number

\* The first message under way is the one at the head of the link.
LEMMA UnderWayIs ==
  ASSUME LinkType, LinkHolds, link # <<>>, NEW n, n = Head(link).number
  PROVE  /\ UnderWay = SubSeq(sent, n, Len(sent)) /\ UnderWay # <<>>
         /\ Head(UnderWay) = sent[n]
         /\ Tail(UnderWay) = SubSeq(sent, n + 1, Len(sent))
<1>1. n \in 1..Len(sent) /\ Len(sent) \in Nat /\ sent \in Seq(Messages)
  BY HeadOfLink, LenProperties DEF Genuine, LinkType
<1>2. UnderWay = SubSeq(sent, n, Len(sent))
  BY DEF UnderWay
<1>3. n \in 1..Len(sent) /\ Len(sent) \in n..Len(sent)
  BY <1>1
<1>4. /\ Head(SubSeq(sent, n, Len(sent))) = sent[n]
      /\ Tail(SubSeq(sent, n, Len(sent))) = SubSeq(sent, n + 1, Len(sent))
  BY <1>1, <1>3, HeadTailOfSubSeq
<1>5. SubSeq(sent, n, Len(sent)) # <<>>
  <2>1. /\ n \in Int /\ Len(sent) \in Int /\ n <= Len(sent)
        /\ \A i \in n..Len(sent) : sent[i] \in Messages
    BY <1>1, ElementOfSeq
  <2>2. Len(SubSeq(sent, n, Len(sent))) = Len(sent) - n + 1
    BY <2>1, SubSeqProperties
  <2>3. \A a, b \in Int : a <= b => b - a + 1 # 0
    OBVIOUS
  <2>4. Len(SubSeq(sent, n, Len(sent))) # 0
    BY <2>1, <2>2, <2>3, Zenon
  <2> QED BY <2>4, EmptySeq, Zenon
<1> QED BY <1>2, <1>4, <1>5

\* With its last packet, and no other, a message leaves the channel.
LEMMA MessageLeaves ==
  ASSUME LinkType, LinkHolds, link # <<>>, NEW k, k = Head(link).position,
         link' = Tail(link), sent' = sent, hurt' \in {hurt, Head(link).number}
  PROVE  /\ k # Count(sent[Head(link).number]) =>
              /\ UnderWay' = UnderWay
              /\ IsHurt' = (hurt' = Head(link).number)
         /\ k = Count(sent[Head(link).number]) =>
              UnderWay' = Tail(UnderWay) /\ ~IsHurt'
<1> DEFINE n == Head(link).number
<1>1. /\ link' = <<>> => Final(Head(link))
      /\ link' # <<>> => Follows(Head(link), Head(link'))
  BY HeadLeaves
<1>2. /\ UnderWay = SubSeq(sent, n, Len(sent))
      /\ Tail(UnderWay) = SubSeq(sent, n + 1, Len(sent))
  BY UnderWayIs
<1>3. n \in 1..Len(sent) /\ Len(sent) \in Nat /\ hurt' <= n /\ hurt' \in Nat
  BY HeadOfLink, LenProperties DEF Genuine, LinkType, LinkHolds
<1>4. ASSUME k # Count(sent[n])
      PROVE  /\ UnderWay' = UnderWay
             /\ IsHurt' = (hurt' = n)
  <2>1. link' # <<>> /\ Head(link').number = n
    BY <1>1, <1>4 DEF Final, Follows
  <2> QED BY <1>2, <2>1 DEF UnderWay, IsHurt
<1>5. ASSUME k = Count(sent[n])
      PROVE  UnderWay' = Tail(UnderWay) /\ ~IsHurt'
  <2>1. CASE link' = <<>>
    <3>1. n = Len(sent)
      BY <1>1, <2>1 DEF Final
    <3>2. SubSeq(sent, n + 1, Len(sent)) = <<>>
      BY <1>3, <3>1, SubSeqEmpty
    <3> QED BY <1>2, <2>1, <3>2 DEF UnderWay, IsHurt
  <2>2. CASE link' # <<>>
    <3>1. Head(link').number = n + 1
      BY <1>1, <1>5, <2>2 DEF Follows
    <3>2. UnderWay' = SubSeq(sent, n + 1, Len(sent))
      BY <2>2, <3>1 DEF UnderWay
    <3>3. \A a, b \in Nat : a <= b => a # b + 1
      OBVIOUS
    <3>4. n \in Nat
      BY <1>3
    <3>5. hurt' # n + 1
      BY <1>3, <3>3, <3>4, Zenon
    <3> QED BY <1>2, <2>2, <3>1, <3>2, <3>5 DEF IsHurt
  <2> QED BY <2>1, <2>2
<1> QED BY <1>4, <1>5

\* What was delivered is a prefix of what is.
LEMMA DeliveredGrows ==
  ASSUME LinkType, LinkType',
         \/ delivered' = delivered
         \/ \E x : delivered' = Append(delivered, x)
  PROVE  Channel!IsPrefix(delivered, delivered') /\ Len(delivered') <= Len(delivered) + 1
<1> DEFINE S == [manufacturer : Seq(Byte), data : Seq(Byte)]
<1>1. delivered \in Seq(S) /\ delivered' \in Seq(S) /\ Len(delivered) \in Nat
  BY LenProperties DEF LinkType
<1> HIDE DEF S
<1>2. CASE delivered' = delivered
  <2>1. SubSeq(delivered, 1, Len(delivered)) = delivered
    BY <1>1, SubSeqFull
  <2> QED BY <1>1, <1>2, <2>1 DEF Channel!IsPrefix
<1>3. ASSUME NEW x, delivered' = Append(delivered, x)
      PROVE  Channel!IsPrefix(delivered, delivered') /\ Len(delivered') <= Len(delivered) + 1
  <2>1. /\ Len(delivered') = Len(delivered) + 1
        /\ \A i \in 1..Len(delivered) : delivered'[i] = delivered[i]
    BY <1>1, <1>3
  <2>2. /\ SubSeq(delivered', 1, Len(delivered)) \in Seq(S)
        /\ Len(SubSeq(delivered', 1, Len(delivered))) = Len(delivered)
        /\ \A i \in 1..Len(delivered) : SubSeq(delivered', 1, Len(delivered))[i] = delivered'[i]
    BY <1>1, <2>1
  <2>3. SubSeq(delivered', 1, Len(delivered)) = delivered
    BY <1>1, <2>1, <2>2, SeqEqual
  <2> QED BY <1>1, <2>1, <2>3 DEF Channel!IsPrefix
<1> QED BY <1>2, <1>3

\* A link that nothing was sent over is an empty channel.
LEMMA ChannelInit == Init => Channel!Init
<1> SUFFICES ASSUME Init PROVE Channel!Init
  OBVIOUS
<1>1. link = <<>> /\ delivered = <<>> /\ faults = 0
  BY DEF Init
<1>2. UnderWay = <<>>
  BY <1>1 DEF UnderWay
<1>3. (link # <<>> /\ hurt = Head(link).number) = FALSE
  BY <1>1, Zenon
<1> QED BY <1>1, <1>2, <1>3, Zenon DEF Channel!Init

\* A message enters the channel with its first packet.
LEMMA ChannelSend ==
  ASSUME LInv, LInv', NEW m \in Messages, Send(m)
  PROVE  Channel!Send(m)
<1>1. LinkType /\ LinkHolds /\ LinkType' /\ LinkHolds'
  BY DEF LInv
<1> DEFINE new == [i \in 1..Count(m) |->
                     [packet |-> Cut(m)[i], number |-> Len(sent) + 1, position |-> i]]
<1>2. /\ sent' = Append(sent, m) /\ link' = link \o new
      /\ UNCHANGED <<delivered, hurt, faults>>
  BY DEF Send, Cut, Count
<1>3. Count(m) \in Nat /\ Count(m) > 0 /\ Cut(m) \in Seq(C!PacketsOf)
  BY PacketsOfMessage
<1>4. /\ new \in Seq(Elements) /\ Len(new) = Count(m)
      /\ new[1].number = Len(sent) + 1
  <2>1. new \in [1..Count(m) -> Elements]
    <3>1. ASSUME NEW i \in 1..Count(m) PROVE Cut(m)[i] \in C!PacketsOf
      BY <1>3, ElementOfSeq DEF Count
    <3>2. Len(sent) + 1 \in Nat
      BY <1>1, LenProperties DEF LinkType
    <3> QED BY <1>3, <3>1, <3>2 DEF Elements
  <2>2. new \in Seq(Elements)
    BY <1>3, <2>1, SeqDef
  <2>3. Len(new) = Count(m)
    BY <1>3, <2>1, <2>2, LenProperties
  <2>4. 1 \in 1..Count(m)
    BY <1>3
  <2> QED BY <2>2, <2>3, <2>4
<1> HIDE DEF new
<1>5. /\ link' \in Seq(Elements) /\ Len(link') = Len(link) + Count(m) /\ Len(link) \in Nat
      /\ \A i \in 1..Len(link) + Count(m) :
           link'[i] = IF i <= Len(link) THEN link[i] ELSE new[i - Len(link)]
  <2>1. link \in Seq(Elements) /\ Len(link) \in Nat
    BY <1>1, LenProperties DEF LinkHolds
  <2>2. /\ link \o new \in Seq(Elements) /\ Len(link \o new) = Len(link) + Len(new)
        /\ \A i \in 1..Len(link) + Len(new) :
             (link \o new)[i] = IF i <= Len(link) THEN link[i] ELSE new[i - Len(link)]
    BY <1>4, <2>1, ConcatProperties
  <2> QED BY <1>2, <1>4, <2>1, <2>2
<1>6. link' # <<>> /\ Head(link') = link'[1]
  BY <1>3, <1>5, EmptySeq
<1>7. /\ sent \in Seq(Messages) /\ Len(sent) \in Nat /\ Len(sent') = Len(sent) + 1
      /\ sent' \in Seq(Messages) /\ sent'[Len(sent) + 1] = m
  BY <1>1, <1>2, LenProperties, AppendProperties DEF LinkType
<1>8. UnderWay' = SubSeq(sent', Head(link').number, Len(sent'))
  BY <1>6 DEF UnderWay
<1>9. CASE link = <<>>
  <2>1. Head(link').number = Len(sent) + 1
    <3>1. Len(link) = 0
      BY <1>9, EmptySeq
    <3>2. 1 \in 1..Len(link) + Count(m) /\ ~(1 <= Len(link)) /\ 1 - Len(link) = 1
      BY <1>3, <3>1
    <3> QED BY <1>4, <1>5, <1>6, <3>2
  <2>2. UnderWay' = <<m>>
    <3>1. Len(sent) + 1 \in 1..Len(sent')
      BY <1>7
    <3>2. SubSeq(sent', Len(sent) + 1, Len(sent) + 1) = <<sent'[Len(sent) + 1]>>
      <4>1. /\ SubSeq(sent', Len(sent) + 1, Len(sent) + 1)
                  = <<sent'[Len(sent) + 1]>> \o SubSeq(sent', (Len(sent) + 1) + 1, Len(sent) + 1)
        <5>1. Len(sent) + 1 \in Len(sent) + 1..Len(sent')
          BY <1>7
        <5> QED BY <1>7, <3>1, <5>1, SubSeqRecursiveFirst
      <4>2. SubSeq(sent', (Len(sent) + 1) + 1, Len(sent) + 1) = <<>>
        BY <1>7, SubSeqEmpty
      <4>3. <<sent'[Len(sent) + 1]>> \in Seq(Messages)
        BY <1>7
      <4> QED BY <4>1, <4>2, <4>3, ConcatEmptySeq
    <3> QED BY <1>7, <1>8, <2>1, <3>2
  <2>3. UnderWay' = Append(UnderWay, m)
    <3>1. UnderWay = <<>>
      BY <1>9 DEF UnderWay
    <3> QED BY <2>2, <3>1
  <2>4. (link' # <<>> /\ hurt' = Head(link').number) = (link # <<>> /\ hurt = Head(link).number)
    <3>1. \A l \in Nat : \A u \in 0..l : u # l + 1
      OBVIOUS
    <3>2. hurt' = hurt /\ hurt \in 0..Len(sent)
      BY <1>1, <1>2 DEF LinkType
    <3>3. hurt' # Head(link').number
      BY <1>7, <2>1, <3>1, <3>2, Zenon
    <3> QED BY <1>9, <3>3, Zenon
  <2> QED BY <1>2, <2>3, <2>4, Zenon DEF Channel!Send
<1>10. CASE link # <<>>
  <2> DEFINE n == Head(link).number
  <2>1. n \in 1..Len(sent) /\ Head(link') = Head(link)
    <3>1. Len(link) > 0 /\ Head(link) = link[1] /\ Genuine(Head(link))
      BY <1>1, <1>10, HeadOfLink
    <3>2. 1 <= Len(link) /\ 1 \in 1..Len(link) + Count(m)
      BY <1>3, <1>5, <3>1
    <3> QED BY <1>5, <1>6, <3>1, <3>2 DEF Genuine
  <2>2. UnderWay = SubSeq(sent, n, Len(sent)) /\ UnderWay' = SubSeq(sent', n, Len(sent) + 1)
    BY <1>7, <1>8, <1>10, <2>1 DEF UnderWay
  <2> HIDE DEF n
  <2>3. SubSeq(sent', n, Len(sent) + 1) = Append(SubSeq(sent, n, Len(sent)), m)
    <3>1. /\ n \in 1..Len(sent') /\ Len(sent) + 1 \in n..Len(sent')
          /\ (Len(sent) + 1) - 1 = Len(sent)
      BY <1>7, <2>1
    <3>2. SubSeq(sent', n, Len(sent) + 1)
            = SubSeq(sent', n, (Len(sent) + 1) - 1) \o <<sent'[Len(sent) + 1]>>
      BY <1>7, <3>1, SubSeqRecursiveSecond
    <3>3. SubSeq(sent', n, Len(sent)) = SubSeq(sent, n, Len(sent))
      <4>1. sent' = sent \o <<m>> /\ <<m>> \in Seq(Messages)
        BY <1>2, <1>7, AppendIsConcat
      <4>2. n \in 1..Len(sent) /\ Len(sent) \in 1..Len(sent)
        BY <1>7, <2>1
      <4> QED BY <1>7, <4>1, <4>2, SubSeqOfConcat1
    <3>4. SubSeq(sent, n, Len(sent)) \in Seq(Messages)
      <4>1. n \in Int /\ Len(sent) \in Int /\ \A i \in n..Len(sent) : sent[i] \in Messages
        BY <1>7, <2>1, ElementOfSeq
      <4> QED BY <4>1, SubSeqProperties
    <3>5. Append(SubSeq(sent, n, Len(sent)), m) = SubSeq(sent, n, Len(sent)) \o <<m>>
      BY <3>4, AppendIsConcat
    <3> QED BY <1>7, <3>1, <3>2, <3>3, <3>5
  <2>4. (link' # <<>> /\ hurt' = Head(link').number) = (link # <<>> /\ hurt = Head(link).number)
    BY <1>2, <1>6, <1>10, <2>1, Zenon
  <2> QED BY <1>2, <2>2, <2>3, <2>4, Zenon DEF Channel!Send
<1> QED BY <1>9, <1>10

\* The packet at the head leaves: with the last one the message is delivered, or
\* it was hurt and leaves as whatever it became.
LEMMA ChannelReceive ==
  ASSUME LInv, LInv', Receive("none")
  PROVE  \/ Channel!Deliver \/ Channel!Discard \/ Channel!Suffer
         \/ UNCHANGED Channel!vars
<1> DEFINE n == Head(link).number
           m == sent[n]
           k == Head(link).position
<1>1. LinkType /\ LinkHolds /\ LinkType' /\ LinkHolds'
  BY DEF LInv
<1>2. /\ link # <<>> /\ Collector!Feed(Head(link).packet)
      /\ link' = Tail(link) /\ UNCHANGED <<hurt, faults, sent>>
      /\ delivered' = IF call'.made
                        THEN Append(delivered, [manufacturer |-> call'.manufacturer,
                                                data         |-> call'.data])
                        ELSE delivered
  BY DEF Receive
<1>3. /\ call'.made => k = Count(m)
      /\ hurt # n /\ k = Count(m) => call' = C!Call(m.manufacturer, m.data)
  BY <1>2, HeadReceived
<1>4. /\ k # Count(m) => UnderWay' = UnderWay /\ IsHurt' = (hurt' = n)
      /\ k = Count(m) => UnderWay' = Tail(UnderWay) /\ ~IsHurt'
  BY <1>1, <1>2, MessageLeaves
<1>5. UnderWay # <<>> /\ Head(UnderWay) = m /\ m \in Messages
  BY <1>1, <1>2, UnderWayIs, HeadOfLink
<1>6. IsHurt = (hurt = n)
  BY <1>2, Zenon DEF IsHurt
<1> HIDE DEF n, m, k
<1>7. CASE k # Count(m)
  <2>1. UnderWay' = UnderWay /\ IsHurt' = IsHurt /\ faults' = faults /\ delivered' = delivered
    BY <1>2, <1>3, <1>4, <1>6, <1>7, Zenon DEF n
  <2> QED BY <2>1, Zenon DEF Channel!vars, IsHurt
<1>8. CASE k = Count(m) /\ ~IsHurt
  <2>1. call' = C!Call(m.manufacturer, m.data)
    BY <1>3, <1>6, <1>8
  <2>2. call'.made /\ m = [manufacturer |-> call'.manufacturer, data |-> call'.data]
    <3>1. m = [manufacturer |-> m.manufacturer, data |-> m.data]
      BY <1>5, MessageType
    <3>2. call'.made /\ call'.manufacturer = m.manufacturer /\ call'.data = m.data
      BY <2>1 DEF C!Call
    <3> QED BY <3>1, <3>2, Zenon
  <2>3. delivered' = Append(delivered, Head(UnderWay))
    BY <1>2, <1>5, <2>2, Zenon
  <2>4. IsHurt' = IsHurt
    BY <1>4, <1>8, Zenon DEF IsHurt
  <2> QED BY <1>2, <1>4, <1>5, <1>8, <2>3, <2>4, Zenon DEF Channel!Deliver, IsHurt
<1>9. CASE k = Count(m) /\ IsHurt
  <2>1. UnderWay' = Tail(UnderWay) /\ IsHurt' = FALSE
    BY <1>4, <1>9, Zenon DEF IsHurt
  <2>2. Channel!IsPrefix(delivered, delivered') /\ Len(delivered') <= Len(delivered) + 1
    <3>1. \/ delivered' = delivered
          \/ \E x : delivered' = Append(delivered, x)
      BY <1>2, Zenon
    <3> QED BY <1>1, <3>1, DeliveredGrows
  <2> QED BY <1>2, <1>5, <1>9, <2>1, <2>2, Zenon DEF Channel!Suffer, IsHurt
<1> QED BY <1>7, <1>8, <1>9, Zenon

\* A packet is repeated: the message is hurt, and something may be delivered.
LEMMA ChannelRepeat ==
  ASSUME LInv, LInv', Receive("repeated")
  PROVE  Channel!Suffer
<1>1. LinkType /\ LinkHolds /\ LinkType' /\ LinkHolds'
  BY DEF LInv
<1>2. /\ link # <<>> /\ UNCHANGED <<link, sent>>
      /\ hurt' = Head(link).number /\ faults' = faults + 1
      /\ delivered' = IF call'.made
                        THEN Append(delivered, [manufacturer |-> call'.manufacturer,
                                                data         |-> call'.data])
                        ELSE delivered
  BY DEF Receive
<1>3. UnderWay # <<>> /\ UnderWay' = UnderWay
  BY <1>1, <1>2, UnderWayIs DEF UnderWay
<1>4. (link' # <<>> /\ hurt' = Head(link').number) = TRUE
  BY <1>2, Zenon
<1>5. Channel!IsPrefix(delivered, delivered') /\ Len(delivered') <= Len(delivered) + 1
  <2>1. \/ delivered' = delivered
        \/ \E x : delivered' = Append(delivered, x)
    BY <1>2, Zenon
  <2> QED BY <1>1, <2>1, DeliveredGrows
<1> QED BY <1>2, <1>3, <1>4, <1>5, Zenon DEF Channel!Suffer

\* A packet is lost: the message is hurt, or leaves if it was the last packet.
LEMMA ChannelLose ==
  ASSUME LInv, LInv', Lose
  PROVE  Channel!Suffer
<1>1. LinkType /\ LinkHolds /\ LinkType' /\ LinkHolds'
  BY DEF LInv
<1>2. /\ link # <<>> /\ link' = Tail(link) /\ sent' = sent /\ hurt' = Head(link).number
      /\ faults' = faults + 1 /\ delivered' = delivered
  BY DEF Lose
<1>3. UnderWay # <<>>
  BY <1>1, <1>2, UnderWayIs
<1>4. \/ UnderWay' = UnderWay /\ (link' # <<>> /\ hurt' = Head(link').number) = TRUE
      \/ UnderWay' = Tail(UnderWay) /\ (link' # <<>> /\ hurt' = Head(link').number) = FALSE
  <2>1. /\ Head(link).position # Count(sent[Head(link).number]) =>
             UnderWay' = UnderWay /\ IsHurt' = (hurt' = Head(link).number)
        /\ Head(link).position = Count(sent[Head(link).number]) =>
             UnderWay' = Tail(UnderWay) /\ ~IsHurt'
    BY <1>1, <1>2, MessageLeaves
  <2> QED BY <1>2, <2>1, Zenon DEF IsHurt
<1>5. Channel!IsPrefix(delivered, delivered') /\ Len(delivered') <= Len(delivered) + 1
  BY <1>1, <1>2, DeliveredGrows
<1> QED BY <1>2, <1>3, <1>4, <1>5, Zenon DEF Channel!Suffer

\* Every step of the link is a step of the channel, or none.
LEMMA ChannelStep == LInv /\ LInv' /\ [Next]_vars => [Channel!Next]_Channel!vars
<1> SUFFICES ASSUME LInv, LInv', [Next]_vars PROVE [Channel!Next]_Channel!vars
  OBVIOUS
<1>1. ASSUME NEW m \in Messages, Send(m) PROVE Channel!Next
  BY <1>1, ChannelSend DEF Channel!Next
<1>2. ASSUME Receive("none") PROVE [Channel!Next]_Channel!vars
  BY <1>2, ChannelReceive DEF Channel!Next
<1>3. ASSUME Receive("repeated") PROVE Channel!Next
  BY <1>3, ChannelRepeat DEF Channel!Next
<1>4. ASSUME Lose PROVE Channel!Next
  BY <1>4, ChannelLose DEF Channel!Next
<1>5. ASSUME UNCHANGED linkVars PROVE UNCHANGED Channel!vars
  BY <1>5, Zenon DEF linkVars, Channel!vars, UnderWay
<1>6. (\E s \in Limits : SetLimit(s)) \/ UNCHANGED vars => UNCHANGED linkVars
  BY DEF SetLimit, vars
<1>7. (\E fault \in {"none", "repeated"} : Receive(fault)) => Receive("none") \/ Receive("repeated")
  BY Zenon
<1> QED BY <1>1, <1>2, <1>3, <1>4, <1>5, <1>6, <1>7, Zenon DEF Next

\* Sender and collector implement the channel, whatever the messages, the sizes of
\* packets and buffers, the limits and the faults (send_sysex7,
\* sysex7_collector::feed): messages that come through do so once, as they were
\* sent, in order, and a fault hurts no message but its own.
THEOREM LinkIsChannel == Spec => Channel!Spec
BY LInvInit, LInvStep, ChannelInit, ChannelStep, PTL DEF Spec, Channel!Spec

=============================================================================
