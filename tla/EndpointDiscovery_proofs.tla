----------------------- MODULE EndpointDiscovery_proofs ----------------------
(***************************************************************************)
(* Proofs about EndpointDiscovery: what the host knows was true, and when  *)
(* nothing is under way it is what is true now, for every endpoint, every  *)
(* text, every room for text in a packet and every number of requests,     *)
(* announcements and losses.                                               *)
(*                                                                         *)
(* The replies under way are packets of tellings: to each belongs a tag    *)
(* that says what fact it tells, what value of it and with which of how    *)
(* many packets.  The invariant is about these tags.                       *)
(***************************************************************************)
EXTENDS EndpointDiscovery, SequenceTheorems, WellFoundedInduction, TLAPS

-----------------------------------------------------------------------------
(* Texts and the packets they come in. *)

\* A part of a text is a text, as long as the part and with its characters.
LEMMA Slice ==
  \A s \in Texts : \A lo, hi \in Int :
    1 <= lo /\ hi <= Len(s) =>
      /\ SubSeq(s, lo, hi) \in Texts
      /\ Len(SubSeq(s, lo, hi)) = IF lo <= hi THEN hi - lo + 1 ELSE 0
      /\ \A i \in 1..hi - lo + 1 : SubSeq(s, lo, hi)[i] = s[lo + i - 1]
<1> SUFFICES ASSUME NEW s \in Texts, NEW lo \in Int, NEW hi \in Int,
                    1 <= lo, hi <= Len(s)
             PROVE  /\ SubSeq(s, lo, hi) \in Texts
                    /\ Len(SubSeq(s, lo, hi)) = IF lo <= hi THEN hi - lo + 1 ELSE 0
                    /\ \A i \in 1..hi - lo + 1 : SubSeq(s, lo, hi)[i] = s[lo + i - 1]
  OBVIOUS
<1>1. \A i \in lo..hi : s[i] \in Characters
  <2>1. Len(s) \in Nat /\ \A i \in 1..Len(s) : s[i] \in Characters
    BY LenProperties, ElementOfSeq DEF Texts
  <2> QED BY <2>1
<1> QED BY <1>1, SubSeqProperties DEF Texts

\* An integer is its quotient times the divisor and a remainder less than the divisor.
LEMMA Divided ==
  \A a \in Nat : \A r \in Nat \ {0} :
    /\ a \div r \in Nat /\ (a \div r) * r <= a /\ a < (a \div r) * r + r
OBVIOUS

PacketCount(text, room) ==
  IF Len(text) <= room THEN 1 ELSE (Len(text) + room - 1) \div room

\* The packets of a text hold it, and all but the last are full.
LEMMA CountBounds ==
  \A L \in Nat : \A r \in Nat \ {0} : \A c :
    c = (IF L <= r THEN 1 ELSE (L + r - 1) \div r) =>
      /\ c \in Nat /\ 1 <= c /\ L <= c * r /\ (c - 1) * r <= L
      /\ \A k \in 1..c : /\ k - 1 \in Nat /\ (k - 1) * r \in Nat /\ k * r \in Nat
                         /\ k * r = (k - 1) * r + r /\ (k - 1) * r <= L
                         /\ k # c => k * r <= L
<1> SUFFICES ASSUME NEW L \in Nat, NEW r \in Nat \ {0}, NEW c,
                    c = (IF L <= r THEN 1 ELSE (L + r - 1) \div r)
             PROVE  /\ c \in Nat /\ 1 <= c /\ L <= c * r /\ (c - 1) * r <= L
                    /\ \A k \in 1..c : /\ k - 1 \in Nat /\ (k - 1) * r \in Nat /\ k * r \in Nat
                         /\ k * r = (k - 1) * r + r /\ (k - 1) * r <= L
                         /\ k # c => k * r <= L
  OBVIOUS
<1>1. c \in Nat /\ 1 <= c /\ L <= c * r /\ (c - 1) * r <= L
  <2>1. CASE L <= r
    BY <2>1
  <2>2. CASE ~(L <= r)
    <3>1. L + r - 1 \in Nat
      BY <2>2
    <3>2. PICK q \in Nat : q = (L + r - 1) \div r /\ q * r <= L + r - 1 /\ L + r - 1 < q * r + r
      BY <3>1, Divided
    <3>3. q # 0
      BY <2>2, <3>2
    <3> QED BY <2>2, <3>2, <3>3
  <2> QED BY <2>1, <2>2
<1>2. \A k \in 1..c : /\ k - 1 \in Nat /\ (k - 1) * r \in Nat /\ k * r \in Nat
                      /\ k * r = (k - 1) * r + r
  BY <1>1
<1>3. \A k \in 1..c : (k - 1) * r <= (c - 1) * r
  <2>1. \A i, j \in Nat : i <= j => i * r <= j * r
    OBVIOUS
  <2> QED BY <1>1, <2>1
<1>4. \A k \in 1..c : k # c => k * r <= (c - 1) * r
  <2>1. \A i, j \in Nat : i <= j => i * r <= j * r
    OBVIOUS
  <2> QED BY <1>1, <2>1
<1> QED BY <1>1, <1>2, <1>3, <1>4

\* Read back
LEMMA PayloadRead ==
  ASSUME NEW status, NEW format, NEW before, NEW text \in Texts,
         NEW o \in Nat, Len(before) = o, o + Len(text) <= TextBytes
  PROVE  PayloadAsString(TextPacket(status, format, before, text), o) = text
<1>1. PICK L, B \in Nat : L = Len(text) /\ B = TextBytes /\ o + L <= B
  BY TextAssumption, LenProperties DEF Texts
<1>2. \A i \in 1..L : text[i] \in Characters
  BY <1>1, ElementOfSeq DEF Texts
<1> DEFINE p == TextPacket(status, format, before, text)
           bytes == [i \in 1..B - o |-> p.bytes[o + i] % 128]
           Stop(t) == /\ \A i \in 1..Len(t) : t[i] # 0
                      /\ Len(t) < Len(bytes) => bytes[Len(t) + 1] = 0
<1>3. p.bytes = [i \in 1..B |-> IF i <= o THEN before[i]
                  ELSE IF i - o <= L THEN text[i - o] ELSE 0]
  BY <1>1, Zenon DEF p, TextPacket, Packet
<1>4. \A i \in 1..B - o : p.bytes[o + i] = IF i <= L THEN text[i] ELSE 0
  <2> HIDE DEF p
  <2>1. \A i \in 1..B - o : o + i \in 1..B /\ ~(o + i <= o) /\ (o + i) - o = i
    BY <1>1
  <2> QED BY <1>3, <2>1
<1>5. \A i \in 1..B - o : bytes[i] = IF i <= L THEN text[i] ELSE 0
  <2>1. \A i \in 1..B - o : bytes[i] = p.bytes[o + i] % 128
    OBVIOUS
  <2>2. \A x \in Characters \union {0} : x % 128 = x
    BY DEF Characters
  <2> HIDE DEF p, bytes
  <2>3. \A i \in 1..B - o : i <= L => i \in 1..L
    BY <1>1
  <2>4. \A i \in 1..B - o : (IF i <= L THEN text[i] ELSE 0) \in Characters \union {0}
    BY <1>2, <2>3
  <2>5. ASSUME NEW i \in 1..B - o PROVE bytes[i] = IF i <= L THEN text[i] ELSE 0
    <3>1. bytes[i] = (IF i <= L THEN text[i] ELSE 0) % 128
      BY <1>4, <2>1, Zenon
    <3>2. (IF i <= L THEN text[i] ELSE 0) \in Characters \union {0}
      BY <2>4, Zenon
    <3> QED BY <2>2, <3>1, <3>2, Zenon
  <2> QED BY <2>5
<1>6. /\ bytes \in Seq(0..127) /\ Len(bytes) = B - o
  <2>1. \A i \in 1..B - o : bytes[i] \in 0..127
    <3>1. \A i \in 1..B - o : i <= L => i \in 1..L
      BY <1>1
    <3>2. (\A x \in Characters : x \in 0..127) /\ 0 \in 0..127
      BY DEF Characters
    <3> HIDE DEF bytes
    <3> QED BY <1>2, <1>5, <3>1, <3>2, Zenon
  <2>2. bytes = [i \in 1..B - o |-> bytes[i]]
    OBVIOUS
  <2> HIDE DEF bytes
  <2>3. B - o \in Nat
    BY <1>1
  <2>4. bytes \in [1..B - o -> 0..127]
    BY <2>1, <2>2
  <2> QED BY <2>3, <2>4
<1> HIDE DEF p, bytes
<1>7. ASSUME NEW n \in 0..B - o
      PROVE  /\ SubSeq(bytes, 1, n) \in Seq(0..127) /\ Len(SubSeq(bytes, 1, n)) = n
             /\ \A i \in 1..n : SubSeq(bytes, 1, n)[i] = bytes[i]
  <2>1. \A i \in 1..n : bytes[i] \in 0..127
    <3>1. \A t \in Seq(0..127) : \A i \in 1..Len(t) : t[i] \in 0..127
      BY ElementOfSeq DEF Texts
    <3>2. \A i \in 1..n : i \in 1..B - o
      BY <1>1
    <3> QED BY <1>6, <3>1, <3>2, Zenon
  <2> QED BY <1>1, <2>1, SubSeqProperties DEF Texts
<1>8. SubSeq(bytes, 1, L) = text
  <2>1. L \in 0..B - o
    BY <1>1
  <2>2. text \in Seq(0..127)
    <3>1. Characters \subseteq 0..127
      BY DEF Characters
    <3> QED BY <3>1, SeqMonotonic DEF Texts
  <2>3. \A i \in 1..L : SubSeq(bytes, 1, L)[i] = text[i]
    BY <1>1, <1>5, <1>7, <2>1
  <2> QED BY <1>1, <1>7, <2>1, <2>2, <2>3, SeqEqual
<1>9. Stop(text)
  <2>1. \A i \in 1..L : text[i] # 0
    <3>1. \A x \in Characters : x # 0
      BY DEF Characters
    <3> QED BY <1>2, <3>1, Zenon
  <2>2. L < B - o => bytes[L + 1] = 0
    BY <1>1, <1>5
  <2> QED BY <1>1, <1>6, <2>1, <2>2
<1>10. ASSUME NEW n \in 0..B - o, Stop(SubSeq(bytes, 1, n)) PROVE n = L
  <2>1. \A i \in 1..n : bytes[i] # 0
    BY <1>7, <1>10
  <2>2. n < B - o => bytes[n + 1] = 0
    <3>1. Len(SubSeq(bytes, 1, n)) = n
      BY <1>7
    <3> QED BY <1>6, <1>10, <3>1, Zenon
  <2>3. ~(n < L)
    <3>1. n < L => n + 1 \in 1..L /\ n + 1 \in 1..B - o /\ n < B - o
      BY <1>1
    <3>2. n < L => n + 1 <= L
      BY <1>1
    <3>3. n < L => bytes[n + 1] = text[n + 1] /\ text[n + 1] \in Characters
      BY <1>2, <1>5, <3>1, <3>2, Zenon
    <3>4. \A x \in Characters : x # 0
      BY DEF Characters
    <3> QED BY <2>2, <3>1, <3>3, <3>4, Zenon
  <2>4. ~(n > L)
    <3>1. n > L => L + 1 \in 1..n /\ L + 1 \in 1..B - o /\ ~(L + 1 <= L)
      BY <1>1
    <3> QED BY <1>5, <2>1, <3>1
  <2> QED BY <1>1, <2>3, <2>4
<1> DEFINE Set == {SubSeq(bytes, 1, n) : n \in 0..Len(bytes)}
<1>11. text \in Set /\ \A t \in Set : Stop(t) => t = text
  <2>1. L \in 0..Len(bytes) /\ Len(bytes) = B - o
    BY <1>1, <1>6
  <2> HIDE DEF Stop
  <2>2. text \in Set
    BY <1>8, <2>1, Zenon
  <2>3. ASSUME NEW n \in 0..Len(bytes), Stop(SubSeq(bytes, 1, n))
        PROVE  SubSeq(bytes, 1, n) = text
    <3>1. n = L
      BY <1>10, <2>1, <2>3, Zenon
    <3> QED BY <1>8, <3>1, Zenon
  <2> QED BY <2>2, <2>3, Zenon
<1>12. PayloadAsString(p, o) = CHOOSE t \in Set : Stop(t)
  BY <1>1, ZenonT(40) DEF PayloadAsString, bytes
<1> HIDE DEF Stop, Set
<1>13. (CHOOSE t \in Set : Stop(t)) = text
  BY <1>9, <1>11, Zenon
<1> QED BY <1>12, <1>13 DEF p

Piece(v, r, k) == Substr(v, (k - 1) * r, r)
SoFar(v, r, k) == SubSeq(v, 1, IF k * r <= Len(v) THEN k * r ELSE Len(v))

\* The pieces of a text put one after the other are the text.
LEMMA Pieces ==
  ASSUME NEW v \in Texts, NEW r \in Nat \ {0}, NEW k \in 1..PacketCount(v, r)
  PROVE  /\ Piece(v, r, k) \in Texts /\ Len(Piece(v, r, k)) <= r
         /\ SoFar(v, r, k) \in Texts
         /\ k = 1 => SoFar(v, r, k) = Piece(v, r, k)
         /\ k # 1 => SoFar(v, r, k) = SoFar(v, r, k - 1) \o Piece(v, r, k)
         /\ k = PacketCount(v, r) => SoFar(v, r, k) = v
<1>1. PICK L \in Nat : L = Len(v)
  BY LenProperties DEF Texts
<1>2. PICK c \in Nat : /\ c = PacketCount(v, r) /\ L <= c * r
                       /\ \A i \in 1..c : /\ i - 1 \in Nat /\ (i - 1) * r \in Nat /\ i * r \in Nat
                                          /\ i * r = (i - 1) * r + r /\ (i - 1) * r <= L
                                          /\ i # c => i * r <= L
  <2> DEFINE c == PacketCount(v, r)
  <2>1. c = (IF L <= r THEN 1 ELSE (L + r - 1) \div r)
    BY <1>1, Zenon DEF PacketCount
  <2> HIDE DEF c
  <2> QED BY <2>1, CountBounds DEF c
<1>3. PICK a, b \in Nat : a = (k - 1) * r /\ b = k * r
  BY <1>2
<1>4. PICK h \in Nat : h = IF b <= L THEN b ELSE L
  OBVIOUS
<1>5. a <= L /\ b = a + r /\ k \in Nat /\ k >= 1
  BY <1>2, <1>3
<1>6. a <= h /\ h <= L /\ h <= a + r
  BY <1>4, <1>5
<1>7. Piece(v, r, k) = SubSeq(v, a + 1, h)
  BY <1>1, <1>3, <1>4, <1>5, Zenon DEF Piece, Substr
<1>8. SoFar(v, r, k) = SubSeq(v, 1, h)
  BY <1>1, <1>3, <1>4, Zenon DEF SoFar
<1>9. /\ SubSeq(v, a + 1, h) \in Texts /\ Len(SubSeq(v, a + 1, h)) <= r
  <2>1. PICK lo \in Nat : lo = a + 1
    BY <1>5
  <2>2. 1 <= lo /\ h <= Len(v) /\ lo \in Int /\ h \in Int
    BY <1>1, <1>6, <2>1
  <2>3. SubSeq(v, lo, h) \in Texts /\ Len(SubSeq(v, lo, h)) = IF lo <= h THEN h - lo + 1 ELSE 0
    BY <2>2, Slice, Zenon
  <2>4. (IF lo <= h THEN h - lo + 1 ELSE 0) <= r
    BY <1>6, <2>1
  <2> QED BY <2>1, <2>3, <2>4, Zenon
<1>10. SubSeq(v, 1, h) \in Texts
  <2>1. 1 <= 1 /\ h <= Len(v) /\ 1 \in Int /\ h \in Int
    BY <1>1, <1>6
  <2> QED BY <2>1, Slice, Zenon
<1>11. k = 1 => a = 0
  BY <1>3
<1>12. k = 1 => SubSeq(v, a + 1, h) = SubSeq(v, 1, h)
  <2>1. 0 + 1 = 1
    OBVIOUS
  <2> QED BY <1>11, <2>1, Zenon
<1>13. k # 1 => SoFar(v, r, k - 1) = SubSeq(v, 1, a)
  <2>1. (k - 1) * r <= L
    BY <1>3, <1>5
  <2> QED BY <1>1, <1>3, <2>1, Zenon DEF SoFar
<1>14. SubSeq(v, 1, a) \o SubSeq(v, a + 1, h) = SubSeq(v, 1, h)
  <2>1. 1 \in 1..Len(v) + 1 /\ a \in 1 - 1..Len(v) /\ h \in a..Len(v)
    BY <1>1, <1>5, <1>6
  <2> QED BY <2>1, ConcatAdjacentSubSeq DEF Texts
<1>15. k = c => h = L
  BY <1>2, <1>3, <1>4
<1>16. k = c => SubSeq(v, 1, h) = v
  BY <1>1, <1>15, SubSeqFull DEF Texts
<1> QED BY <1>2, <1>7, <1>8, <1>9, <1>10, <1>12, <1>13, <1>14, <1>16, Zenon

\* The packets
LEMMA PacketsRead ==
  ASSUME NEW status, NEW before, NEW o \in Nat, Len(before) = o, o < TextBytes,
         NEW v \in Texts, NEW k \in 1..PacketCount(v, TextBytes - o)
  PROVE  LET p == Packets(v, TextBytes - o, status, before)[k]
         IN  /\ p.status = status /\ p.format = FormatOf(k, PacketCount(v, TextBytes - o))
             /\ PayloadAsString(p, o) = Piece(v, TextBytes - o, k)
             /\ \A i \in 1..o : p.bytes[i] = before[i]
<1>1. PICK r \in Nat \ {0} : r = TextBytes - o
  BY TextAssumption
<1>2. PICK B \in Nat : B = TextBytes
  BY TextAssumption
<1> DEFINE p == Packets(v, r, status, before)[k]
           c == PacketCount(v, r)
<1>3. Packets(v, r, status, before) =
        [i \in 1..c |-> TextPacket(status, FormatOf(i, c), before, Piece(v, r, i))]
  BY Zenon DEF Packets, Cut, PacketCount, Piece
<1>4. p = TextPacket(status, FormatOf(k, c), before, Piece(v, r, k))
  BY <1>1, <1>3
<1>5. Piece(v, r, k) \in Texts /\ o + Len(Piece(v, r, k)) <= TextBytes
  <2>1. Piece(v, r, k) \in Texts /\ Len(Piece(v, r, k)) <= r
    BY <1>1, Pieces
  <2>2. \A n \in Nat : n <= r => o + n <= TextBytes
    BY <1>1, <1>2
  <2> QED BY <2>1, <2>2, LenProperties DEF Texts
<1>6. PayloadAsString(p, o) = Piece(v, r, k)
  BY <1>4, <1>5, PayloadRead
<1> HIDE DEF c, p
<1>7. p.status = status /\ p.format = FormatOf(k, c)
  BY <1>4 DEF TextPacket, Packet
<1>8. \A i \in 1..o : p.bytes[i] = before[i]
  <2>1. p.bytes = [i \in 1..B |-> IF i <= o THEN before[i]
                     ELSE IF i - o <= Len(Piece(v, r, k)) THEN Piece(v, r, k)[i - o] ELSE 0]
    BY <1>2, <1>4, Zenon DEF TextPacket, Packet
  <2>2. \A i \in 1..o : i \in 1..B /\ i <= o
    BY <1>2
  <2> QED BY <2>1, <2>2, Zenon
<1> QED BY <1>1, <1>6, <1>7, <1>8, Zenon DEF c, p
\* A block fact
LEMMA BlockFact ==
  ASSUME NEW what \in {"info", "name"}, NEW b \in 0..NumBlocks - 1
  PROVE  /\ <<what, b>> \in BlockFacts /\ <<what, b>> \in Facts
         /\ <<what, b>>[1] = what /\ <<what, b>>[2] = b /\ Len(<<what, b>>) = 2
         /\ <<what, b>> \notin EndpointFacts
BY DEF BlockFacts, Facts, EndpointFacts

\* A fact is one about the endpoint, or the name or the rest of a function block.
LEMMA FactCases ==
  ASSUME NEW f \in Facts
  PROVE  \/ f \in EndpointFacts
         \/ \E b \in 0..NumBlocks - 1 : f = <<"info", b>>
         \/ \E b \in 0..NumBlocks - 1 : f = <<"name", b>>
BY DEF BlockFacts, Facts

\* The packets that tell each fact about the endpoint
LEMMA ToldInfo ==
  \A v : /\ Told(<<"info">>, v) = <<EndpointInfo(v)>>
         /\ Told(<<"identity">>, v) = <<DeviceIdentityMessage(v)>>
         /\ Told(<<"name">>, v) = EndpointName(v)
         /\ Told(<<"product">>, v) = ProductInstanceId(v)
         /\ Told(<<"configuration">>, v) =
               <<StreamConfigurationNotification(v.protocol, v.extensions)>>
BY DEF Told

\* The packets that tell the facts about a function block
LEMMA ToldBlock ==
  \A v : \A b \in 0..NumBlocks - 1 :
         /\ Told(<<"info", b>>, v) = <<FunctionBlockInfo(b, v)>>
         /\ Told(<<"name", b>>, v) = FunctionBlockName(b, v)
BY BlockFact DEF Told, EndpointFacts

\* The packets of a text, by what they carry
LEMMA PacketsMany ==
  ASSUME NEW status, NEW before, NEW v \in Texts, NEW r \in Nat \ {0}
  PROVE  /\ Len(Packets(v, r, status, before)) = PacketCount(v, r)
         /\ PacketCount(v, r) \in Nat \ {0}
         /\ DOMAIN Packets(v, r, status, before) = 1..PacketCount(v, r)
         /\ Packets(v, r, status, before)
              = [k \in DOMAIN Packets(v, r, status, before) |-> Packets(v, r, status, before)[k]]
<1>1. PICK L \in Nat : L = Len(v)
  BY LenProperties DEF Texts
<1>2. PacketCount(v, r) = (IF L <= r THEN 1 ELSE (L + r - 1) \div r)
  BY <1>1, Zenon DEF PacketCount
<1>3. PacketCount(v, r) \in Nat /\ 1 <= PacketCount(v, r)
  BY <1>2, CountBounds
<1>4. Packets(v, r, status, before) =
        [i \in 1..PacketCount(v, r) |->
           TextPacket(status, FormatOf(i, PacketCount(v, r)), before, Piece(v, r, i))]
  BY Zenon DEF Packets, Cut, PacketCount, Piece
<1> HIDE DEF PacketCount
<1> QED BY <1>3, <1>4

\* A product instance ID of two packets at most is cut like a name.
LEMMA ProductCut ==
  ASSUME NEW v \in Texts, Len(v) <= TextBytes + 2
  PROVE  ProductInstanceId(v) = Packets(v, TextBytes, "product_instance_id", <<>>)
<1>1. PICK L \in Nat : L = Len(v)
  BY LenProperties DEF Texts
<1>2. PICK B \in Nat : B = TextBytes /\ B >= 2 /\ L <= B + 2
  BY <1>1, TextAssumption
<1> DEFINE c == PacketCount(v, B)
           T(f, x) == TextPacket("product_instance_id", f, <<>>, x)
<1>3. Packets(v, B, "product_instance_id", <<>>) =
        [i \in 1..c |-> T(FormatOf(i, c), Substr(v, (i - 1) * B, B))]
  BY Zenon DEF Packets, Cut, PacketCount
<1>4. c = IF L <= B THEN 1 ELSE (L + B - 1) \div B
  BY <1>1, Zenon DEF PacketCount
<1> HIDE DEF c, T
<1>5. CASE L <= B
  <2>1. c = 1
    BY <1>4, <1>5
  <2>2. (1 - 1) * B = 0 /\ 0 + 1 = 1 /\ 0 + B = B /\ (B <= L => B = L)
    BY <1>2, <1>5
  <2>3. Substr(v, (1 - 1) * B, B) = v
    <3>1. SubSeq(v, 1, L) = v
      BY <1>1, SubSeqFull DEF Texts
    <3> QED BY <1>1, <2>2, <3>1, Zenon DEF Substr
  <2>4. Packets(v, B, "product_instance_id", <<>>) =
          <<T(FormatOf(1, 1), Substr(v, (1 - 1) * B, B))>>
    BY <1>3, <2>1
  <2>5. FormatOf(1, 1) = "complete"
    BY DEF FormatOf
  <2>6. ProductInstanceId(v) = <<T("complete", v)>>
    BY <1>1, <1>2, <1>5, Zenon DEF ProductInstanceId, T
  <2> QED BY <1>2, <2>3, <2>4, <2>5, <2>6, Zenon
<1>6. CASE ~(L <= B)
  <2>1. c = 2
    <3>1. L + B - 1 \in Nat /\ 2 * B <= L + B - 1 /\ L + B - 1 < 2 * B + B
      BY <1>2, <1>6
    <3>2. PICK q \in Nat : q = (L + B - 1) \div B /\ q * B <= L + B - 1 /\ L + B - 1 < q * B + B
      BY <1>2, <3>1, Divided
    <3>3. q = 2
      <4>1. q # 0 /\ q # 1
        BY <1>2, <3>1, <3>2
      <4>2. ~(q >= 3)
        <5>1. q >= 3 => q * B >= 3 * B
          BY <1>2
        <5> QED BY <1>2, <3>1, <3>2, <5>1
      <4> QED BY <4>1, <4>2
    <3> QED BY <1>4, <1>6, <3>2, <3>3
  <2>2. Packets(v, B, "product_instance_id", <<>>) =
          <<T(FormatOf(1, 2), Substr(v, (1 - 1) * B, B)),
            T(FormatOf(2, 2), Substr(v, (2 - 1) * B, B))>>
    BY <1>3, <2>1
  <2>3. FormatOf(1, 2) = "start" /\ FormatOf(2, 2) = "end"
    BY DEF FormatOf
  <2>4. (1 - 1) * B = 0 /\ (2 - 1) * B = B
    BY <1>2
  <2>5. Substr(v, B, B) = Substr(v, B, 2)
    <3>1. (IF B + B <= L THEN B + B ELSE L) = L /\ (IF B + 2 <= L THEN B + 2 ELSE L) = L
      BY <1>2
    <3> QED BY <1>1, <3>1, Zenon DEF Substr
  <2>6. ProductInstanceId(v) = <<T("start", Substr(v, 0, B)), T("end", Substr(v, B, 2))>>
    BY <1>1, <1>2, <1>6, Zenon DEF ProductInstanceId, T
  <2> QED BY <1>2, <2>2, <2>3, <2>4, <2>5, <2>6, Zenon
<1> QED BY <1>5, <1>6

TextFacts == {<<"name">>, <<"product">>} \union ({"name"} \X (0..NumBlocks - 1))
RoomOf(f) == IF f \in EndpointFacts THEN TextBytes ELSE TextBytes - 1

\* What a fact that is told as a text can be is a text.
LEMMA TextValues ==
  ASSUME NEW f \in TextFacts
  PROVE  ValuesOf(f) \subseteq Texts
<1>1. CASE f \in {<<"name">>, <<"product">>}
  <2>1. ValuesOf(<<"name">>) = Texts
    BY DEF ValuesOf
  <2>2. ValuesOf(<<"product">>) = ProductIds
    BY DEF ValuesOf
  <2> QED BY <1>1, <2>1, <2>2, Zenon DEF Texts, ProductIds
<1>2. CASE f \in {"name"} \X (0..NumBlocks - 1)
  <2>1. PICK b \in 0..NumBlocks - 1 : f = <<"name", b>>
    BY <1>2
  <2>2. ValuesOf(<<"name", b>>) = Texts
    BY DEF ValuesOf
  <2> QED BY <2>1, <2>2, Zenon DEF Texts
<1> QED BY <1>1, <1>2 DEF TextFacts

\* The packets of a text
LEMMA TextTold ==
  ASSUME NEW f \in TextFacts, NEW v \in ValuesOf(f)
  PROVE  /\ Len(Told(f, v)) = PacketCount(v, RoomOf(f)) /\ RoomOf(f) \in Nat \ {0}
         /\ Len(Told(f, v)) \in Nat \ {0}
         /\ Told(f, v) = [k \in 1..Len(Told(f, v)) |-> Told(f, v)[k]]
         /\ \A k \in 1..Len(Told(f, v)) :
              /\ FactOf(Told(f, v)[k]) = f /\ IsText(Told(f, v)[k])
              /\ Told(f, v)[k].format = FormatOf(k, Len(Told(f, v)))
              /\ Text(Told(f, v)[k]) = Piece(v, RoomOf(f), k)
<1>1. v \in Texts
  BY TextValues
<1>2. TextBytes \in Nat \ {0} /\ TextBytes - 1 \in Nat \ {0} /\ TextBytes = TextBytes - 0
      /\ 0 < TextBytes /\ 1 < TextBytes
  BY TextAssumption
<1>3. ASSUME NEW status \in {"endpoint_name", "product_instance_id"},
             Told(f, v) = Packets(v, TextBytes, status, <<>>), RoomOf(f) = TextBytes,
             \A p : p.status = status => FactOf(p) = f
      PROVE  /\ Len(Told(f, v)) = PacketCount(v, RoomOf(f)) /\ RoomOf(f) \in Nat \ {0}
             /\ Len(Told(f, v)) \in Nat \ {0}
             /\ Told(f, v) = [k \in 1..Len(Told(f, v)) |-> Told(f, v)[k]]
             /\ \A k \in 1..Len(Told(f, v)) :
                  /\ FactOf(Told(f, v)[k]) = f /\ IsText(Told(f, v)[k])
                  /\ Told(f, v)[k].format = FormatOf(k, Len(Told(f, v)))
                  /\ Text(Told(f, v)[k]) = Piece(v, RoomOf(f), k)
  <2>1. /\ Len(Told(f, v)) = PacketCount(v, TextBytes) /\ PacketCount(v, TextBytes) \in Nat \ {0}
        /\ Told(f, v) = [k \in 1..PacketCount(v, TextBytes) |-> Told(f, v)[k]]
    BY <1>1, <1>2, <1>3, PacketsMany
  <2>2. ASSUME NEW k \in 1..PacketCount(v, TextBytes), NEW p, p = Told(f, v)[k]
        PROVE  /\ FactOf(p) = f /\ IsText(p)
               /\ p.format = FormatOf(k, PacketCount(v, TextBytes))
               /\ Text(p) = Piece(v, TextBytes, k)
    <3>1. /\ p.status = status /\ p.format = FormatOf(k, PacketCount(v, TextBytes))
          /\ PayloadAsString(p, 0) = Piece(v, TextBytes, k)
      <4>1. Len(<<>>) = 0 /\ 0 \in Nat
        OBVIOUS
      <4> QED BY <1>1, <1>2, <1>3, <2>2, <4>1, PacketsRead
    <3>2. IsText(p) /\ FactOf(p) = f
      BY <1>3, <3>1 DEF IsText
    <3>3. Text(p) = PayloadAsString(p, 0)
      BY <3>1 DEF Text
    <3> QED BY <3>1, <3>2, <3>3, Zenon
  <2> QED BY <1>2, <1>3, <2>1, <2>2, Zenon
<1>4. CASE f = <<"name">>
  <2>1. Told(f, v) = Packets(v, TextBytes, "endpoint_name", <<>>)
    BY <1>4, ToldInfo, Zenon DEF EndpointName
  <2>2. RoomOf(f) = TextBytes
    BY <1>4 DEF RoomOf, EndpointFacts
  <2>3. \A p : p.status = "endpoint_name" => FactOf(p) = f
    BY <1>4 DEF FactOf
  <2> QED BY <1>3, <2>1, <2>2, <2>3
<1>5. CASE f = <<"product">>
  <2>1. Told(f, v) = Packets(v, TextBytes, "product_instance_id", <<>>)
    <3>1. ValuesOf(<<"product">>) = ProductIds
      BY DEF ValuesOf
    <3>2. Len(v) <= TextBytes + 2
      BY <1>5, <3>1, Zenon DEF ProductIds
    <3> QED BY <1>1, <1>5, <3>2, ProductCut, ToldInfo, Zenon
  <2>2. RoomOf(f) = TextBytes
    BY <1>5 DEF RoomOf, EndpointFacts
  <2>3. \A p : p.status = "product_instance_id" => FactOf(p) = f
    BY <1>5 DEF FactOf
  <2> QED BY <1>3, <2>1, <2>2, <2>3
<1>6. CASE f \in {"name"} \X (0..NumBlocks - 1)
  <2>1. PICK b \in 0..NumBlocks - 1 : f = <<"name", b>>
    BY <1>6
  <2>2. RoomOf(f) = TextBytes - 1
    BY <2>1 DEF RoomOf, EndpointFacts
  <2>3. Told(f, v) = Packets(v, TextBytes - 1, "function_block_name", <<b>>)
    BY <2>1, ToldBlock, Zenon DEF FunctionBlockName
  <2>4. /\ Len(Told(f, v)) = PacketCount(v, TextBytes - 1)
        /\ PacketCount(v, TextBytes - 1) \in Nat \ {0}
        /\ Told(f, v) = [k \in 1..PacketCount(v, TextBytes - 1) |-> Told(f, v)[k]]
    BY <1>1, <1>2, <2>3, PacketsMany
  <2>5. ASSUME NEW k \in 1..PacketCount(v, TextBytes - 1), NEW p, p = Told(f, v)[k]
        PROVE  /\ FactOf(p) = f /\ IsText(p)
               /\ p.format = FormatOf(k, PacketCount(v, TextBytes - 1))
               /\ Text(p) = Piece(v, TextBytes - 1, k)
    <3>1. /\ p.status = "function_block_name"
          /\ p.format = FormatOf(k, PacketCount(v, TextBytes - 1))
          /\ PayloadAsString(p, 1) = Piece(v, TextBytes - 1, k)
          /\ \A i \in 1..1 : p.bytes[i] = <<b>>[i]
      <4>1. Len(<<b>>) = 1 /\ 1 \in Nat
        OBVIOUS
      <4>2. PICK o, before : o \in Nat /\ o = 1 /\ before = <<b>>
        BY <4>1, Zenon
      <4>3. Len(before) = o /\ o < TextBytes /\ k \in 1..PacketCount(v, TextBytes - o)
        BY <1>2, <2>5, <4>1, <4>2, Zenon
      <4>4. LET q == Packets(v, TextBytes - o, "function_block_name", before)[k]
            IN  /\ q.status = "function_block_name"
                /\ q.format = FormatOf(k, PacketCount(v, TextBytes - o))
                /\ PayloadAsString(q, o) = Piece(v, TextBytes - o, k)
                /\ \A i \in 1..o : q.bytes[i] = before[i]
        BY <1>1, <4>3, PacketsRead
      <4>5. p = Packets(v, TextBytes - o, "function_block_name", before)[k]
        BY <2>3, <2>5, <4>2, Zenon
      <4> QED BY <4>2, <4>4, <4>5, Zenon
    <3>2. p.bytes[1] = b
      BY <3>1
    <3>3. b % 128 = b
      BY DiscoveryAssumption
    <3>4. FactOf(p) = <<"name", BlockOf(p)>>
      BY <3>1 DEF FactOf
    <3>5. FactOf(p) = f
      BY <2>1, <3>2, <3>3, <3>4, Zenon DEF BlockOf
    <3>6. IsText(p)
      BY <3>1 DEF IsText
    <3>7. Text(p) = PayloadAsString(p, 1)
      BY <3>1 DEF Text
    <3> QED BY <3>1, <3>5, <3>6, <3>7, Zenon
  <2> QED BY <1>2, <2>2, <2>4, <2>5, Zenon
<1> QED BY <1>4, <1>5, <1>6 DEF TextFacts

-----------------------------------------------------------------------------
(* Messages of one packet. *)

\* Two bytes of seven bits hold fourteen bits.
LEMMA LowAndHigh ==
  ASSUME NEW n \in FourteenBits
  PROVE  (Low(n) % 128) + 128 * (High(n) % 128) = n
BY SMTT(30) DEF Low, High, FourteenBits

\* The fourteen low bits of a number and the rest of it are the number.
LEMMA LowHighRest ==
  ASSUME NEW n \in Nat
  PROVE  ((Low(n) % 128) + 128 * (High(n) % 128)) + 16384 * (n \div 16384) = n
<1>1. \A x \in Nat : x % 128 \in 0..127 /\ x \div 128 \in Nat /\ x = 128 * (x \div 128) + (x % 128)
  BY SMT
<1>2. PICK a \in 0..127, m \in Nat : a = n % 128 /\ m = n \div 128 /\ n = 128 * m + a
  BY <1>1, ZenonT(40)
<1>3. PICK b \in 0..127, d \in Nat : b = m % 128 /\ d = m \div 128 /\ m = 128 * d + b
  BY <1>1, Zenon
<1>4. n = 16384 * d + (128 * b + a) /\ 128 * b + a < 16384
  BY <1>2, <1>3, SMT
<1>5. n \div 16384 = d
  BY <1>4, SMT
<1>6. Low(n) = a /\ High(n) = b
  BY <1>2, <1>3, Zenon DEF Low, High
<1>7. a % 128 = a /\ b % 128 = b
  BY SMT
<1>8. (a + 128 * b) + 16384 * d = n
  BY <1>4, SMT
<1>9. Low(n) % 128 = a /\ High(n) % 128 = b
  BY <1>6, <1>7, Zenon
<1> QED BY <1>5, <1>8, <1>9, SMT

\* The fields of an identity
LEMMA IdentityFields ==
  ASSUME NEW v \in Identities
  PROVE  /\ v.manufacturer \in ManufacturerIds
         /\ v.family \in FourteenBits /\ v.model \in FourteenBits /\ v.revision \in TwentyEightBits
         /\ v = [manufacturer |-> v.manufacturer, family |-> v.family, model |-> v.model,
                 revision |-> v.revision]
BY DEF Identities

\* A manufacturer is three bytes.
LEMMA ManufacturerParts ==
  ASSUME NEW m \in ManufacturerIds
  PROVE  \E a, b, c : a \in 0..127 /\ b \in 0..127 /\ c \in 0..127 /\ m = <<a, b, c>>
<1>1. m = <<m[1], m[2], m[3]>> /\ m[1] \in 0..127 /\ m[2] \in 0..127 /\ m[3] \in 0..127
  BY DEF ManufacturerIds
<1> QED BY <1>1, Zenon

\* s is the three bytes of m and the eight of r.
ThreeAndEight(s, m, r) ==
  /\ SubSeq(s, 1, 3) = m
  /\ s[4] = r[1] /\ s[5] = r[2] /\ s[6] = r[3] /\ s[7] = r[4]
  /\ s[8] = r[5] /\ s[9] = r[6] /\ s[10] = r[7] /\ s[11] = r[8]

\* The bytes of a device identity message, one by one
LEMMA Joined ==
  ASSUME NEW a \in 0..127, NEW b \in 0..127, NEW c \in 0..127, NEW r \in Seq(Int), Len(r) = 8
  PROVE  ThreeAndEight(<<a, b, c>> \o r, <<a, b, c>>, r)
<1> DEFINE m == <<a, b, c>>
           s == m \o r
<1>1. m \in Seq(Int) /\ Len(m) = 3
  OBVIOUS
<1> HIDE DEF m
<1>2. /\ s \in Seq(Int) /\ Len(s) = Len(m) + Len(r)
      /\ \A i \in 1..Len(m) + Len(r) : s[i] = IF i <= Len(m) THEN m[i] ELSE r[i - Len(m)]
  BY <1>1, ConcatProperties
<1> HIDE DEF s
<1>3. \A i \in 1..8 : s[i + 3] = r[i]
  <2>1. \A i \in 1..11 : s[i] = IF i <= 3 THEN m[i] ELSE r[i - 3]
    <3>1. Len(m) + Len(r) = 11
      BY <1>1
    <3> QED BY <1>1, <1>2, <3>1, Zenon
  <2>2. \A i \in 1..8 : i + 3 \in 1..11 /\ ~(i + 3 <= 3) /\ (i + 3) - 3 = i
    OBVIOUS
  <2> QED BY <2>1, <2>2, Zenon
<1>4. /\ s[4] = r[1] /\ s[5] = r[2] /\ s[6] = r[3] /\ s[7] = r[4]
      /\ s[8] = r[5] /\ s[9] = r[6] /\ s[10] = r[7] /\ s[11] = r[8]
  <2>1. /\ s[1 + 3] = r[1] /\ s[2 + 3] = r[2] /\ s[3 + 3] = r[3] /\ s[4 + 3] = r[4]
        /\ s[5 + 3] = r[5] /\ s[6 + 3] = r[6] /\ s[7 + 3] = r[7] /\ s[8 + 3] = r[8]
    BY <1>3
  <2>2. 1 + 3 = 4 /\ 2 + 3 = 5 /\ 3 + 3 = 6 /\ 4 + 3 = 7 /\ 5 + 3 = 8 /\ 6 + 3 = 9
        /\ 7 + 3 = 10 /\ 8 + 3 = 11
    OBVIOUS
  <2> QED BY <2>1, <2>2, Zenon
<1>5. SubSeq(s, 1, 3) = m
  <2>1. 1 \in 1..Len(m) /\ 3 \in 1..Len(m)
    BY <1>1
  <2>2. SubSeq(s, 1, 3) = SubSeq(m, 1, 3)
    BY <1>1, <2>1, SubSeqOfConcat1 DEF s
  <2>3. SubSeq(m, 1, Len(m)) = m
    BY <1>1, SubSeqFull
  <2> QED BY <1>1, <2>2, <2>3, Zenon
<1> QED BY <1>4, <1>5, Zenon DEF m, s, ThreeAndEight

\* A host reads of an endpoint info message what the endpoint made it from.
LEMMA InfoRead ==
  ASSUME NEW v \in EndpointInfos
  PROVE  Reading(EndpointInfo(v)) = v
<1> DEFINE p == EndpointInfo(v)
           third == (IF v.static THEN 128 ELSE 0) + v.blocks
<1>1. /\ p.status = "endpoint_info"
      /\ p.bytes = <<v.major, v.minor, third, 0, v.protocols, v.extensions>>
  BY Zenon DEF EndpointInfo, Complete, Packet
<1>2. /\ v.major \in 0..255 /\ v.minor \in 0..255 /\ v.static \in BOOLEAN /\ v.blocks \in 0..127
      /\ v.protocols \in 0..3 /\ v.extensions \in 0..3
  BY DEF EndpointInfos
<1>3. v = [major |-> v.major, minor |-> v.minor, static |-> v.static, blocks |-> v.blocks,
           protocols |-> v.protocols, extensions |-> v.extensions]
  BY DEF EndpointInfos
<1>4. (third >= 128 <=> v.static) /\ third % 128 = v.blocks
  BY <1>2
<1>5. v.protocols % 4 = v.protocols /\ v.extensions % 4 = v.extensions
  BY <1>2
<1> HIDE DEF p, third
<1>6. ReadEndpointInfo(p) = [major |-> v.major, minor |-> v.minor, static |-> third >= 128,
         blocks |-> third % 128, protocols |-> v.protocols % 4, extensions |-> v.extensions % 4]
  BY <1>1 DEF ReadEndpointInfo
<1>7. (third >= 128) = v.static
  <2>1. (third >= 128) \in BOOLEAN
    OBVIOUS
  <2> QED BY <1>2, <1>4, <2>1, Zenon
<1>8. ReadEndpointInfo(p) = v
  BY <1>3, <1>4, <1>5, <1>6, <1>7, Zenon
<1>9. Reading(p) = ReadEndpointInfo(p)
  BY <1>1 DEF Reading
<1> QED BY <1>8, <1>9 DEF p

\* A host reads of a device identity message what the endpoint made it from.
LEMMA IdentityRead ==
  ASSUME NEW v \in Identities
  PROVE  Reading(DeviceIdentityMessage(v)) = v
<1> DEFINE p == DeviceIdentityMessage(v)
<1>1. p.status = "device_identity" /\ p.bytes = v.manufacturer \o
        <<Low(v.family), High(v.family), Low(v.model), High(v.model),
          Low(v.revision), High(v.revision), Low(v.revision \div 16384),
             High(v.revision \div 16384)>>
  BY SMT DEF DeviceIdentityMessage, Complete, Packet
<1>2. /\ v.manufacturer \in ManufacturerIds /\ v.family \in FourteenBits /\ v.model \in FourteenBits
      /\ v.revision \in TwentyEightBits
      /\ v = [manufacturer |-> v.manufacturer, family |-> v.family, model |-> v.model,
              revision |-> v.revision]
  BY IdentityFields, Zenon
<1>3. PICK a, b, c : a \in 0..127 /\ b \in 0..127 /\ c \in 0..127 /\ v.manufacturer = <<a, b, c>>
  BY <1>2, ManufacturerParts, Zenon
<1>4. PICK family \in Nat, model \in Nat, revision \in Nat :
        family = v.family /\ model = v.model /\ revision = v.revision
  <2>1. FourteenBits \subseteq Nat /\ TwentyEightBits \subseteq Nat
    BY SMTT(30) DEF FourteenBits, TwentyEightBits
  <2> QED BY <1>2, <2>1, Zenon
<1>5. PICK top \in FourteenBits : top = revision \div 16384
  <2>1. \A n \in TwentyEightBits : n \div 16384 \in FourteenBits
    BY SMT DEF TwentyEightBits
  <2>2. revision \in TwentyEightBits
    BY <1>2, <1>4, Zenon
  <2> QED BY <2>1, <2>2, SMT
<1>6. \A n \in Nat : Low(n) \in Int /\ High(n) \in Int
  BY SMT DEF Low, High
<1>7. top \in Nat
  BY SMT DEF FourteenBits
<1> HIDE DEF p
<1>8. p.bytes = <<a, b, c>> \o <<Low(family), High(family), Low(model), High(model), Low(revision),
                                 High(revision), Low(top), High(top)>>
  BY <1>1, <1>3, <1>4, <1>5, SMT
<1>9. /\ SubSeq(p.bytes, 1, 3) = v.manufacturer
      /\ p.bytes[4] = Low(family) /\ p.bytes[5] = High(family) /\ p.bytes[6] = Low(model)
      /\ p.bytes[7] = High(model) /\ p.bytes[8] = Low(revision) /\ p.bytes[9] = High(revision)
      /\ p.bytes[10] = Low(top) /\ p.bytes[11] = High(top)
  <2> DEFINE r == <<Low(family), High(family), Low(model), High(model), Low(revision),
                    High(revision), Low(top), High(top)>>
  <2>1. r \in Seq(Int) /\ Len(r) = 8
    BY <1>6, <1>7, SMT
  <2>2. /\ r[1] = Low(family) /\ r[2] = High(family) /\ r[3] = Low(model) /\ r[4] = High(model)
        /\ r[5] = Low(revision) /\ r[6] = High(revision) /\ r[7] = Low(top) /\ r[8] = High(top)
    OBVIOUS
  <2> HIDE DEF r
  <2>3. ThreeAndEight(<<a, b, c>> \o r, <<a, b, c>>, r)
    BY <1>3, <2>1, Joined, Zenon
  <2>4. ThreeAndEight(p.bytes, v.manufacturer, r)
    BY <1>3, <1>8, <2>3, Zenon DEF r
  <2> QED BY <2>2, <2>4, Zenon DEF ThreeAndEight
<1> DEFINE F(k) == (p.bytes[k] % 128) + 128 * (p.bytes[k + 1] % 128)
<1>10. F(4) = family /\ F(6) = model /\ F(10) = top
  <2>1. 4 + 1 = 5 /\ 6 + 1 = 7 /\ 10 + 1 = 11
    OBVIOUS
  <2>2. family \in FourteenBits /\ model \in FourteenBits
    BY <1>2, <1>4, Zenon
  <2>3. F(4) = (Low(family) % 128) + 128 * (High(family) % 128)
    BY <1>9, <2>1, Zenon
  <2>4. F(6) = (Low(model) % 128) + 128 * (High(model) % 128)
    BY <1>9, <2>1, Zenon
  <2>5. F(10) = (Low(top) % 128) + 128 * (High(top) % 128)
    BY <1>9, <2>1, Zenon
  <2> HIDE DEF F
  <2>6. F(4) = family /\ F(6) = model
    BY <2>2, <2>3, <2>4, LowAndHigh, Zenon
  <2> QED BY <2>5, <2>6, LowAndHigh, Zenon
<1>11. F(8) + 16384 * F(10) = revision
  <2>1. 8 + 1 = 9
    OBVIOUS
  <2>2. F(8) = (Low(revision) % 128) + 128 * (High(revision) % 128)
    BY <1>9, <2>1, Zenon
  <2>3. F(10) = revision \div 16384
    BY <1>5, <1>10, SMT
  <2> HIDE DEF F
  <2> QED BY <2>2, <2>3, LowHighRest, SMT
<1>12. ReadDeviceIdentity(p) =
         [manufacturer |-> SubSeq(p.bytes, 1, 3), family |-> F(4), model |-> F(6),
          revision |-> F(8) + 16384 * F(10)]
  BY SMT DEF ReadDeviceIdentity
<1> HIDE DEF F
<1>13. ReadDeviceIdentity(p) = v
  <2>1. ReadDeviceIdentity(p) =
          [manufacturer |-> v.manufacturer, family |-> v.family, model |-> v.model,
           revision |-> v.revision]
    BY <1>4, <1>9, <1>10, <1>11, <1>12, SMT
  <2> QED BY <1>2, <2>1, Zenon
<1>14. Reading(p) = ReadDeviceIdentity(p)
  BY <1>1 DEF Reading
<1> QED BY <1>13, <1>14 DEF p

\* A host reads of a configuration notification what the endpoint made it from.
LEMMA ConfigurationRead ==
  ASSUME NEW v \in StreamConfigurations
  PROVE  Reading(StreamConfigurationNotification(v.protocol, v.extensions)) = v
<1> DEFINE p == StreamConfigurationNotification(v.protocol, v.extensions)
<1>1. p.status = "stream_configuration_notify" /\ p.bytes = <<v.protocol, v.extensions>>
  BY Zenon DEF StreamConfigurationNotification, Complete, Packet
<1>2. v.protocol % 4 = v.protocol /\ v.extensions % 4 = v.extensions
  BY DEF StreamConfigurations
<1>3. v = [protocol |-> v.protocol, extensions |-> v.extensions]
  BY DEF StreamConfigurations
<1> HIDE DEF p
<1>4. StreamConfiguration(p) = [protocol |-> v.protocol % 4, extensions |-> v.extensions % 4]
  BY <1>1 DEF StreamConfiguration
<1>5. Reading(p) = StreamConfiguration(p)
  BY <1>1 DEF Reading
<1> QED BY <1>2, <1>3, <1>4, <1>5, Zenon DEF p

\* A host reads of a function block info message what the endpoint made it from,
\* and of which block.
LEMMA BlockRead ==
  ASSUME NEW v \in BlockInfos, NEW b \in 0..31
  PROVE  Reading(FunctionBlockInfo(b, v)) = v /\ FactOf(FunctionBlockInfo(b, v)) = <<"info", b>>
<1> DEFINE p == FunctionBlockInfo(b, v)
           first == (IF v.active THEN 128 ELSE 0) + (b % 32)
           second == 16 * ((IF v.hint = 0 THEN v.direction ELSE v.hint) % 4) +
                     4 * (v.midi1 % 4) + (v.direction % 4)
<1>1. /\ p.status = "function_block_info"
      /\ p.bytes = <<first, second, v.first % 16, v.groups % 16, v.ci, v.streams>>
  BY Zenon DEF FunctionBlockInfo, Complete, Packet
<1>2. /\ v.active \in BOOLEAN /\ v.direction \in 0..3 /\ v.midi1 \in 0..3 /\ v.hint \in 1..3
      /\ v.first \in 0..15 /\ v.groups \in 0..15
  BY DEF BlockInfos
<1>3. v = [active |-> v.active, direction |-> v.direction, midi1 |-> v.midi1, hint |-> v.hint,
           first |-> v.first, groups |-> v.groups, ci |-> v.ci, streams |-> v.streams]
  BY DEF BlockInfos
<1>4. (first >= 128 <=> v.active) /\ first % 128 = b
  BY <1>2
<1>5. /\ second % 4 = v.direction /\ (second \div 4) % 4 = v.midi1
      /\ (second \div 16) % 4 = v.hint
  <2>1. PICK d \in 0..3, m \in 0..3, h \in 1..3 : d = v.direction /\ m = v.midi1 /\ h = v.hint
    BY <1>2
  <2>2. \A x \in 0..3, y \in 0..3, z \in 1..3 : \A w :
          w = 16 * (z % 4) + 4 * (y % 4) + (x % 4)
            => w % 4 = x /\ (w \div 4) % 4 = y /\ (w \div 16) % 4 = z
    BY SMT
  <2>3. (IF h = 0 THEN d ELSE h) = h
    OBVIOUS
  <2>4. second = 16 * (h % 4) + 4 * (m % 4) + (d % 4)
    BY <2>1, <2>3, Zenon
  <2> HIDE DEF second
  <2>5. second % 4 = d /\ (second \div 4) % 4 = m /\ (second \div 16) % 4 = h
    BY <2>2, <2>4, SMT
  <2> QED BY <2>1, <2>5, Zenon
<1>6. v.first % 16 = v.first /\ v.groups % 16 = v.groups
  BY <1>2
<1> HIDE DEF p, first, second
<1>7. ReadFunctionBlockInfo(p) = [active |-> first >= 128, direction |-> second % 4,
         midi1 |-> (second \div 4) % 4, hint |-> (second \div 16) % 4, first |-> v.first % 16,
         groups |-> v.groups % 16, ci |-> v.ci, streams |-> v.streams]
  BY <1>1 DEF ReadFunctionBlockInfo
<1>8. (first >= 128) = v.active
  <2>1. (first >= 128) \in BOOLEAN
    OBVIOUS
  <2> QED BY <1>2, <1>4, <2>1, Zenon
<1>9. ReadFunctionBlockInfo(p) = v
  BY <1>3, <1>5, <1>6, <1>7, <1>8, Zenon
<1>10. Reading(p) = ReadFunctionBlockInfo(p)
  BY <1>1 DEF Reading
<1>11. FactOf(p) = <<"info", first % 128>>
  BY <1>1 DEF FactOf, BlockOf
<1> QED BY <1>4, <1>9, <1>10, <1>11, Zenon DEF p

-----------------------------------------------------------------------------
(* What the packets of a fact tell. *)

\* A fact that is not a text is told in one packet.
LEMMA OtherTold ==
  ASSUME NEW f \in Facts, f \notin TextFacts, NEW v \in ValuesOf(f)
  PROVE  \E p : /\ Told(f, v) = <<p>> /\ FactOf(p) = f /\ ~IsText(p) /\ p.format = "complete"
                /\ Reading(p) = v
<1>1. CASE f = <<"info">>
  <2>1. v \in EndpointInfos
    BY <1>1 DEF ValuesOf
  <2>2. /\ FactOf(EndpointInfo(v)) = <<"info">> /\ ~IsText(EndpointInfo(v))
        /\ EndpointInfo(v).format = "complete"
    <3>1. EndpointInfo(v).status = "endpoint_info" /\ EndpointInfo(v).format = "complete"
      BY Zenon DEF EndpointInfo, Complete, Packet
    <3> QED BY <3>1 DEF FactOf, IsText
  <2>3. Reading(EndpointInfo(v)) = v
    BY <2>1, InfoRead
  <2> QED BY <1>1, <2>2, <2>3, ToldInfo, Zenon
<1>2. CASE f = <<"identity">>
  <2>1. v \in Identities
    BY <1>2 DEF ValuesOf
  <2>2. /\ FactOf(DeviceIdentityMessage(v)) = <<"identity">> /\ ~IsText(DeviceIdentityMessage(v))
        /\ DeviceIdentityMessage(v).format = "complete"
    <3>1. /\ DeviceIdentityMessage(v).status = "device_identity"
          /\ DeviceIdentityMessage(v).format = "complete"
      BY SMT DEF DeviceIdentityMessage, Complete, Packet
    <3> QED BY <3>1 DEF FactOf, IsText
  <2>3. Reading(DeviceIdentityMessage(v)) = v
    BY <2>1, IdentityRead
  <2> QED BY <1>2, <2>2, <2>3, ToldInfo, Zenon
<1>3. CASE f = <<"configuration">>
  <2>1. v \in StreamConfigurations
    BY <1>3 DEF ValuesOf
  <2> DEFINE p == StreamConfigurationNotification(v.protocol, v.extensions)
  <2>2. FactOf(p) = <<"configuration">> /\ ~IsText(p) /\ p.format = "complete"
    <3>1. p.status = "stream_configuration_notify" /\ p.format = "complete"
      BY Zenon DEF StreamConfigurationNotification, Complete, Packet
    <3> QED BY <3>1 DEF FactOf, IsText
  <2>3. Reading(p) = v
    BY <2>1, ConfigurationRead
  <2> QED BY <1>3, <2>2, <2>3, ToldInfo, Zenon
<1>4. CASE \E b \in 0..NumBlocks - 1 : f = <<"info", b>>
  <2>1. PICK b \in 0..NumBlocks - 1 : f = <<"info", b>>
    BY <1>4
  <2>2. v \in BlockInfos
    BY <2>1 DEF ValuesOf
  <2>3. b \in 0..31
    BY DiscoveryAssumption
  <2> DEFINE p == FunctionBlockInfo(b, v)
  <2>4. ~IsText(p) /\ p.format = "complete"
    <3>1. p.status = "function_block_info" /\ p.format = "complete"
      BY Zenon DEF FunctionBlockInfo, Complete, Packet
    <3> QED BY <3>1 DEF IsText
  <2>5. Reading(p) = v /\ FactOf(p) = <<"info", b>>
    BY <2>2, <2>3, BlockRead
  <2> QED BY <2>1, <2>4, <2>5, ToldBlock, Zenon
<1>5. CASE f \in EndpointFacts \ TextFacts
  BY <1>1, <1>2, <1>3, <1>5 DEF EndpointFacts, TextFacts
<1>6. ~ \E b \in 0..NumBlocks - 1 : f = <<"name", b>>
  BY DEF TextFacts
<1> QED BY <1>4, <1>5, <1>6, FactCases, Zenon

Gathered(f, v, k) == SoFar(v, RoomOf(f), k)

\* The k-th of the packets that tell that f is v
LEMMA PacketTells ==
  ASSUME NEW f \in Facts, NEW v \in ValuesOf(f)
  PROVE  LET T == Told(f, v)
         IN  /\ Len(T) \in Nat \ {0} /\ T = [k \in 1..Len(T) |-> T[k]]
             /\ \A k \in 1..Len(T) :
                  /\ FactOf(T[k]) = f /\ T[k].format = FormatOf(k, Len(T))
                  /\ IsText(T[k]) <=> f \in TextFacts
             /\ f \notin TextFacts => Len(T) = 1 /\ Reading(T[1]) = v
<1>1. CASE f \in TextFacts
  BY <1>1, TextTold, Zenon
<1>2. CASE f \notin TextFacts
  <2>1. PICK p : /\ Told(f, v) = <<p>> /\ FactOf(p) = f /\ ~IsText(p) /\ p.format = "complete"
                 /\ Reading(p) = v
    BY <1>2, OtherTold, Zenon
  <2>2. FormatOf(1, 1) = "complete"
    BY DEF FormatOf
  <2>3. Len(<<p>>) = 1 /\ <<p>>[1] = p /\ <<p>> = [k \in 1..1 |-> <<p>>[k]] /\ \A k \in 1..1 : k = 1
    OBVIOUS
  <2>4. Len(<<p>>) \in Nat \ {0}
    OBVIOUS
  <2> QED BY <1>2, <2>1, <2>2, <2>3, <2>4, Zenon
<1> QED BY <1>1, <1>2

\* With the k-th packet of a text what is gathered grows by its piece, up to the text.
LEMMA TextGathers ==
  ASSUME NEW f \in TextFacts, NEW v \in ValuesOf(f), NEW k \in 1..Len(Told(f, v))
  PROVE  /\ Gathered(f, v, k) # NoText
         /\ k = 1 => Text(Told(f, v)[k]) = Gathered(f, v, k)
         /\ k # 1 => Gathered(f, v, k - 1) \o Text(Told(f, v)[k]) = Gathered(f, v, k)
         /\ k = Len(Told(f, v)) => Gathered(f, v, k) = v
<1>1. v \in Texts
  BY TextValues
<1>2. /\ Len(Told(f, v)) = PacketCount(v, RoomOf(f)) /\ RoomOf(f) \in Nat \ {0}
      /\ Text(Told(f, v)[k]) = Piece(v, RoomOf(f), k)
  BY TextTold, Zenon
<1>3. /\ SoFar(v, RoomOf(f), k) \in Texts
      /\ k = 1 => SoFar(v, RoomOf(f), k) = Piece(v, RoomOf(f), k)
      /\ k # 1 => SoFar(v, RoomOf(f), k) = SoFar(v, RoomOf(f), k - 1) \o Piece(v, RoomOf(f), k)
      /\ k = PacketCount(v, RoomOf(f)) => SoFar(v, RoomOf(f), k) = v
  <2>1. PICK r \in Nat \ {0} : r = RoomOf(f)
    BY <1>2, Zenon
  <2>2. k \in 1..PacketCount(v, r)
    BY <1>2, <2>1, Zenon
  <2>3. /\ SoFar(v, r, k) \in Texts
        /\ k = 1 => SoFar(v, r, k) = Piece(v, r, k)
        /\ k # 1 => SoFar(v, r, k) = SoFar(v, r, k - 1) \o Piece(v, r, k)
        /\ k = PacketCount(v, r) => SoFar(v, r, k) = v
    BY <1>1, <2>2, Pieces
  <2> QED BY <2>1, <2>3, Zenon
<1>4. \A t \in Texts : t # NoText
  <2>1. \A t \in Seq(Characters) : \A i \in 1..Len(t) : t[i] \in Characters
    BY ElementOfSeq
  <2>2. 1 \in 1..Len(<<0>>) /\ <<0>>[1] = 0 /\ 0 \notin Characters
    BY DEF Characters
  <2> QED BY <2>1, <2>2, Zenon DEF Texts, NoText
<1> QED BY <1>2, <1>3, <1>4, Zenon DEF Gathered

-----------------------------------------------------------------------------
(* The replies under way are packets of tellings. *)

AnyValue == UNION {ValuesOf(f) : f \in Facts}

\* A tag says of a packet what fact it tells, what value of it, and which of the
\* packets that tell it the packet is.
Tags == {t \in [fact : Facts, value : AnyValue, number : Nat \ {0}] :
           t.value \in ValuesOf(t.fact) /\ t.number <= Len(Told(t.fact, t.value))}

Count(t)    == Len(Told(t.fact, t.value))
PacketOf(t) == Told(t.fact, t.value)[t.number]
After(t)    == [fact |-> t.fact, value |-> t.value, number |-> t.number + 1]
Sent        == {PacketOf(t) : t \in Tags}

\* The parts of a tag
LEMMA TagParts ==
  ASSUME NEW t \in Tags
  PROVE  /\ t.fact \in Facts /\ t.value \in ValuesOf(t.fact) /\ t.number \in Nat \ {0}
         /\ t.number <= Len(Told(t.fact, t.value))
BY DEF Tags

\* What a packet tells is what its tag says.
LEMMA TagTells ==
  ASSUME NEW t \in Tags
  PROVE  /\ Count(t) \in Nat \ {0} /\ t.number \in 1..Count(t)
         /\ FactOf(PacketOf(t)) = t.fact /\ PacketOf(t).format = FormatOf(t.number, Count(t))
         /\ IsText(PacketOf(t)) <=> t.fact \in TextFacts
         /\ t.fact \notin TextFacts => Count(t) = 1 /\ Reading(PacketOf(t)) = t.value
<1>1. /\ t.fact \in Facts /\ t.value \in ValuesOf(t.fact) /\ t.number \in Nat \ {0}
      /\ t.number <= Count(t)
  BY TagParts, Zenon DEF Count
<1> DEFINE T == Told(t.fact, t.value)
<1>2. /\ Len(T) \in Nat \ {0} /\ T = [k \in 1..Len(T) |-> T[k]]
      /\ \A k \in 1..Len(T) :
           /\ FactOf(T[k]) = t.fact /\ T[k].format = FormatOf(k, Len(T))
           /\ IsText(T[k]) <=> t.fact \in TextFacts
      /\ t.fact \notin TextFacts => Len(T) = 1 /\ Reading(T[1]) = t.value
  BY <1>1, PacketTells, Zenon
<1>3. Count(t) = Len(T) /\ PacketOf(t) = T[t.number]
  BY Zenon DEF Count, PacketOf
<1> HIDE DEF T
<1>4. Count(t) \in Nat \ {0}
  BY <1>2, <1>3, Zenon
<1>5. t.number \in 1..Count(t)
  BY <1>1, <1>4
<1>6. Count(t) = 1 => t.number = 1
  BY <1>1
<1> QED BY <1>2, <1>3, <1>4, <1>5, <1>6, Zenon

\* The first packet of a text begins it, the last one ends it, the others go on.
LEMMA Formats ==
  ASSUME NEW n \in Nat \ {0}, NEW k \in 1..n
  PROVE  /\ FormatOf(k, n) \in {"complete", "start"} <=> k = 1
         /\ FormatOf(k, n) \in {"complete", "end"} <=> k = n
         /\ FormatOf(k, n) \in {"start", "cont"} <=> k # n
BY DEF FormatOf

\* There is a tag for every packet of a telling.
LEMMA TagMade ==
  ASSUME NEW f \in Facts, NEW v \in ValuesOf(f), NEW k \in 1..Len(Told(f, v))
  PROVE  [fact |-> f, value |-> v, number |-> k] \in Tags
<1>1. v \in AnyValue
  BY Zenon DEF AnyValue
<1>2. Len(Told(f, v)) \in Nat
  BY PacketTells
<1>3. k \in Nat \ {0} /\ k <= Len(Told(f, v))
  BY <1>2
<1> QED BY <1>1, <1>3, Zenon DEF Tags

\* What is sent as the packets of `tags`
Matches(packets, tags) ==
  /\ packets \in Seq(Sent) /\ Len(packets) = Len(tags)
  /\ \A i \in 1..Len(tags) : packets[i] = PacketOf(tags[i])

\* A telling goes on until it is complete.
Chain(tags) ==
  \A i \in 1..Len(tags) :
    /\ tags[i].number = Count(tags[i]) => i = Len(tags) \/ tags[i + 1].number = 1
    /\ tags[i].number # Count(tags[i]) => i < Len(tags) /\ tags[i + 1] = After(tags[i])

\* Whole tellings of what the facts are in tr, of the facts of fs among them
Burst(packets, fs, tr) ==
  \E tags \in Seq(Tags) :
    /\ Matches(packets, tags) /\ Chain(tags) /\ (Len(tags) > 0 => tags[1].number = 1)
    /\ \A i \in 1..Len(tags) : tags[i].value = tr[tags[i].fact]
    /\ \A f \in fs : \E i \in 1..Len(tags) : tags[i].fact = f

\* c is a, which has n elements, followed by b, which has m.
Concatenation(c, a, b, n, m) ==
  /\ Len(c) = n + m
  /\ \A i \in 1..n : c[i] = a[i]
  /\ \A j \in 1..m : \A i : i = n + j => c[i] = b[j]
  /\ \A i \in 1..n + m : i \in 1..n \/ \E j \in 1..m : i = n + j

\* What \o makes of two sequences, by their elements
LEMMA Concatenated ==
  ASSUME NEW S, NEW a \in Seq(S), NEW b \in Seq(S), NEW n \in Nat, NEW m \in Nat,
         n = Len(a), m = Len(b)
  PROVE  a \o b \in Seq(S) /\ Concatenation(a \o b, a, b, n, m)
<1> DEFINE c == a \o b
<1>1. /\ c \in Seq(S) /\ Len(c) = n + m
      /\ \A i \in 1..n + m : c[i] = IF i <= n THEN a[i] ELSE b[i - n]
  <2>1. /\ c \in Seq(S) /\ Len(c) = Len(a) + Len(b)
        /\ \A i \in 1..Len(a) + Len(b) : c[i] = IF i <= Len(a) THEN a[i] ELSE b[i - Len(a)]
    BY ConcatProperties
  <2> QED BY <2>1, Zenon
<1> HIDE DEF c
<1>2. \A i \in 1..n : i \in 1..n + m /\ i <= n
  OBVIOUS
<1>3. \A j \in 1..m : \A i : i = n + j => i \in 1..n + m /\ ~(i <= n) /\ i - n = j
  OBVIOUS
<1>4. \A i \in 1..n + m : i \in 1..n \/ \E j \in 1..m : i = n + j
  <2>1. \A i \in 1..n + m : i \notin 1..n => i - n \in 1..m /\ i = n + (i - n)
    OBVIOUS
  <2> QED BY <2>1, Zenon
<1>5. \A i \in 1..n : c[i] = a[i]
  BY <1>1, <1>2, Zenon
<1>6. ASSUME NEW j \in 1..m, NEW i, i = n + j PROVE c[i] = b[j]
  BY <1>1, <1>3, <1>6, Zenon
<1> QED BY <1>1, <1>4, <1>5, <1>6, Zenon DEF c, Concatenation

\* Packets and tags one after the other still belong together.
LEMMA MatchesConcat ==
  ASSUME NEW p, NEW q, NEW a \in Seq(Tags), NEW b \in Seq(Tags), Matches(p, a), Matches(q, b)
  PROVE  Matches(p \o q, a \o b)
<1>1. PICK n \in Nat, m \in Nat : n = Len(a) /\ m = Len(b)
  BY LenProperties
<1>2. /\ p \in Seq(Sent) /\ Len(p) = n /\ \A i \in 1..n : p[i] = PacketOf(a[i])
      /\ q \in Seq(Sent) /\ Len(q) = m /\ \A i \in 1..m : q[i] = PacketOf(b[i])
  BY <1>1, Zenon DEF Matches
<1>3. p \o q \in Seq(Sent) /\ Concatenation(p \o q, p, q, n, m)
  BY <1>2, Concatenated, Zenon
<1>4. Concatenation(a \o b, a, b, n, m)
  BY <1>1, Concatenated, Zenon
<1>5. ASSUME NEW i \in 1..n + m PROVE (p \o q)[i] = PacketOf((a \o b)[i])
  <2>1. CASE i \in 1..n
    <3>1. (p \o q)[i] = p[i] /\ (a \o b)[i] = a[i]
      BY <1>3, <1>4, <2>1, Zenon DEF Concatenation
    <3> QED BY <1>2, <2>1, <3>1, Zenon
  <2>2. CASE \E j \in 1..m : i = n + j
    <3>1. PICK j \in 1..m : i = n + j
      BY <2>2, Zenon
    <3>2. (p \o q)[i] = q[j] /\ (a \o b)[i] = b[j]
      BY <1>3, <1>4, <3>1, Zenon DEF Concatenation
    <3> QED BY <1>2, <3>2, Zenon
  <2> QED BY <1>4, <2>1, <2>2, Zenon DEF Concatenation
<1> QED BY <1>3, <1>4, <1>5, Zenon DEF Matches, Concatenation

\* Tellings one after the other are tellings.
LEMMA ChainConcat ==
  ASSUME NEW a \in Seq(Tags), NEW b \in Seq(Tags), Chain(a), Chain(b),
         Len(b) > 0 => b[1].number = 1
  PROVE  Chain(a \o b)
<1>1. PICK n \in Nat, m \in Nat : n = Len(a) /\ m = Len(b)
  BY LenProperties
<1> DEFINE c == a \o b
<1>2. Concatenation(c, a, b, n, m)
  BY <1>1, Concatenated, Zenon
<1> HIDE DEF c
<1>3. /\ \A i \in 1..n :
           /\ a[i].number = Count(a[i]) => i = n \/ a[i + 1].number = 1
           /\ a[i].number # Count(a[i]) => i < n /\ a[i + 1] = After(a[i])
      /\ \A i \in 1..m :
           /\ b[i].number = Count(b[i]) => i = m \/ b[i + 1].number = 1
           /\ b[i].number # Count(b[i]) => i < m /\ b[i + 1] = After(b[i])
      /\ m > 0 => b[1].number = 1
  BY <1>1, Zenon DEF Chain
<1>4. ASSUME NEW i \in 1..n + m
      PROVE  /\ c[i].number = Count(c[i]) => i = n + m \/ c[i + 1].number = 1
             /\ c[i].number # Count(c[i]) => i < n + m /\ c[i + 1] = After(c[i])
  <2>1. CASE i \in 1..n
    <3>1. CASE i < n
      <4>1. i + 1 \in 1..n /\ i < n + m /\ i # n
        BY <3>1
      <4>2. c[i] = a[i] /\ c[i + 1] = a[i + 1]
        BY <1>2, <2>1, <4>1, Zenon DEF Concatenation
      <4> QED BY <1>3, <2>1, <4>1, <4>2, Zenon
    <3>2. CASE i = n
      <4>1. c[i] = a[i] /\ a[i].number = Count(a[i])
        <5>1. ~(n < n)
          OBVIOUS
        <5> QED BY <1>2, <1>3, <2>1, <3>2, <5>1, Zenon DEF Concatenation
      <4>2. m = 0 => i = n + m
        BY <3>2
      <4>3. m # 0 => m > 0 /\ 1 \in 1..m
        OBVIOUS
      <4>4. m # 0 => c[i + 1].number = 1
        BY <1>2, <1>3, <3>2, <4>3, Zenon DEF Concatenation
      <4> QED BY <4>1, <4>2, <4>4, Zenon
    <3> QED BY <2>1, <3>1, <3>2
  <2>2. CASE \E j \in 1..m : i = n + j
    <3>1. PICK j \in 1..m : i = n + j
      BY <2>2
    <3>2. c[i] = b[j]
      BY <1>2, <3>1, Zenon DEF Concatenation
    <3>3. (j = m => i = n + m) /\ (j < m => i < n + m /\ j + 1 \in 1..m /\ i + 1 = n + (j + 1))
      BY <3>1
    <3>4. j < m => c[i + 1] = b[j + 1]
      BY <1>2, <3>3, Zenon DEF Concatenation
    <3>5. j = m \/ j < m
      OBVIOUS
    <3> QED BY <1>3, <3>2, <3>3, <3>4, <3>5, Zenon
  <2> QED BY <1>2, <2>1, <2>2, Zenon DEF Concatenation
<1> QED BY <1>2, <1>4, Zenon DEF Concatenation, Chain, c

\* No packets tell nothing.
LEMMA BurstNone == \A tr : Burst(<<>>, {}, tr)
<1> SUFFICES ASSUME NEW tr PROVE Burst(<<>>, {}, tr)
  OBVIOUS
<1>1. <<>> \in Seq(Tags) /\ <<>> \in Seq(Sent) /\ Len(<<>>) = 0 /\ ~(0 > 0)
  OBVIOUS
<1>2. \A i \in 1..0 : FALSE
  OBVIOUS
<1>3. Matches(<<>>, <<>>) /\ Chain(<<>>)
  BY <1>1, <1>2, Zenon DEF Matches, Chain
<1> QED BY <1>1, <1>2, <1>3, Zenon DEF Burst

\* Two bursts one after the other are a burst.
LEMMA BurstMore ==
  ASSUME NEW p, NEW q, NEW fs, NEW gs, NEW tr, Burst(p, fs, tr), Burst(q, gs, tr)
  PROVE  Burst(p \o q, fs \union gs, tr)
<1>1. PICK a \in Seq(Tags) :
        /\ Matches(p, a) /\ Chain(a) /\ (Len(a) > 0 => a[1].number = 1)
        /\ \A i \in 1..Len(a) : a[i].value = tr[a[i].fact]
        /\ \A f \in fs : \E i \in 1..Len(a) : a[i].fact = f
  BY Zenon DEF Burst
<1>2. PICK b \in Seq(Tags) :
        /\ Matches(q, b) /\ Chain(b) /\ (Len(b) > 0 => b[1].number = 1)
        /\ \A i \in 1..Len(b) : b[i].value = tr[b[i].fact]
        /\ \A f \in gs : \E i \in 1..Len(b) : b[i].fact = f
  BY Zenon DEF Burst
<1>3. PICK n \in Nat, m \in Nat : n = Len(a) /\ m = Len(b)
  BY LenProperties
<1> DEFINE c == a \o b
<1>4. c \in Seq(Tags) /\ Concatenation(c, a, b, n, m)
  BY <1>3, Concatenated, Zenon
<1>5. Matches(p \o q, c)
  BY <1>1, <1>2, MatchesConcat
<1>6. Chain(c)
  BY <1>1, <1>2, ChainConcat
<1> HIDE DEF c
<1>7. n + m > 0 => c[1].number = 1
  <2>1. CASE n > 0
    <3>1. 1 \in 1..n
      BY <2>1
    <3> QED BY <1>1, <1>3, <1>4, <2>1, <3>1, Zenon DEF Concatenation
  <2>2. CASE n = 0 /\ m > 0
    <3>1. 1 \in 1..m /\ 1 = n + 1
      BY <2>2
    <3>2. c[1] = b[1]
      BY <1>4, <3>1, ZenonT(40) DEF Concatenation
    <3> QED BY <1>2, <1>3, <2>2, <3>2, Zenon
  <2> QED BY <2>1, <2>2
<1>8. \A i \in 1..n + m : c[i].value = tr[c[i].fact]
  <2> SUFFICES ASSUME NEW i \in 1..n + m PROVE c[i].value = tr[c[i].fact]
    OBVIOUS
  <2>1. CASE i \in 1..n
    <3>1. c[i] = a[i]
      BY <1>4, <2>1, Zenon DEF Concatenation
    <3> QED BY <1>1, <1>3, <2>1, <3>1, Zenon
  <2>2. CASE \E j \in 1..m : i = n + j
    <3>1. PICK j \in 1..m : i = n + j
      BY <2>2, Zenon
    <3>2. c[i] = b[j]
      BY <1>4, <3>1, Zenon DEF Concatenation
    <3> QED BY <1>2, <1>3, <3>2, Zenon
  <2> QED BY <1>4, <2>1, <2>2, Zenon DEF Concatenation
<1>9. \A f \in fs \union gs : \E i \in 1..n + m : c[i].fact = f
  <2> SUFFICES ASSUME NEW f \in fs \union gs PROVE \E i \in 1..n + m : c[i].fact = f
    OBVIOUS
  <2>1. CASE f \in fs
    <3>1. PICK i \in 1..n : a[i].fact = f
      BY <1>1, <1>3, <2>1, Zenon
    <3>2. i \in 1..n + m
      OBVIOUS
    <3> QED BY <1>4, <3>1, <3>2, Zenon DEF Concatenation
  <2>2. CASE f \in gs
    <3>1. PICK i \in 1..m : b[i].fact = f
      BY <1>2, <1>3, <2>2, Zenon
    <3>2. PICK k \in 1..n + m : k = n + i
      OBVIOUS
    <3>3. c[k] = b[i]
      BY <1>4, <3>2, Zenon DEF Concatenation
    <3> QED BY <3>1, <3>3, Zenon
  <2> QED BY <2>1, <2>2
<1>10. Len(c) = n + m
  BY <1>4, Zenon DEF Concatenation
<1>11. Len(c) > 0 => c[1].number = 1
  BY <1>7, <1>10, Zenon
<1>12. \A i \in 1..Len(c) : c[i].value = tr[c[i].fact]
  BY <1>8, <1>10, Zenon
<1>13. \A f \in fs \union gs : \E i \in 1..Len(c) : c[i].fact = f
  BY <1>9, <1>10, Zenon
<1> QED BY <1>4, <1>5, <1>6, <1>11, <1>12, <1>13, ZenonT(30) DEF Burst

\* The packets that tell a fact
LEMMA BurstTold ==
  ASSUME NEW f \in Facts, NEW tr, tr[f] \in ValuesOf(f)
  PROVE  Burst(Told(f, tr[f]), {f}, tr)
<1> DEFINE v == tr[f]
           T == Told(f, v)
<1>1. Len(T) \in Nat \ {0} /\ T = [k \in 1..Len(T) |-> T[k]]
  BY PacketTells
<1>2. PICK n \in Nat : n = Len(T) /\ n >= 1
  BY <1>1
<1> DEFINE tag(k) == [fact |-> f, value |-> v, number |-> k]
           tags == [k \in 1..n |-> tag(k)]
<1>3. \A k \in 1..n : tag(k) \in Tags
  BY <1>2, TagMade
<1>4. \A k \in 1..n : /\ PacketOf(tag(k)) = T[k] /\ Count(tag(k)) = n /\ tag(k).number = k
                      /\ After(tag(k)) = tag(k + 1) /\ tag(k).value = v /\ tag(k).fact = f
  <2>1. ASSUME NEW k, NEW t, t = tag(k)
        PROVE  t.fact = f /\ t.value = v /\ t.number = k
    BY <2>1
  <2>2. ASSUME NEW k \in 1..n
        PROVE  PacketOf(tag(k)) = T[k] /\ Count(tag(k)) = n /\ After(tag(k)) = tag(k + 1)
    BY <1>2, <2>1, Zenon DEF PacketOf, Count, After
  <2> QED BY <2>1, <2>2, Zenon
<1>5. \A k \in 1..n : T[k] \in Sent
  BY <1>3, <1>4, Zenon DEF Sent
<1> HIDE DEF T, v, tag
<1>6. tags \in Seq(Tags) /\ Len(tags) = n /\ \A k \in 1..n : tags[k] = tag(k)
  BY <1>3
<1>7. T \in Seq(Sent)
  <2>1. T = [k \in 1..n |-> T[k]]
    BY <1>1, <1>2, Zenon
  <2>2. [k \in 1..n |-> T[k]] \in Seq(Sent)
    BY <1>5
  <2> QED BY <2>1, <2>2, Zenon
<1> HIDE DEF tags
<1>8. Matches(T, tags)
  BY <1>2, <1>4, <1>6, <1>7, Zenon DEF Matches
<1>9. Chain(tags)
  <2>1. ASSUME NEW k \in 1..n
        PROVE  /\ tags[k].number = Count(tags[k]) => k = n \/ tags[k + 1].number = 1
               /\ tags[k].number # Count(tags[k]) => k < n /\ tags[k + 1] = After(tags[k])
    <3>1. tags[k].number = k /\ Count(tags[k]) = n
      BY <1>4, <1>6, Zenon
    <3>2. k # n => k < n /\ k + 1 \in 1..n
      OBVIOUS
    <3>3. k # n => tags[k + 1] = After(tags[k])
      BY <1>4, <1>6, <3>2, Zenon
    <3> QED BY <3>1, <3>2, <3>3, Zenon
  <2> QED BY <1>6, <2>1, Zenon DEF Chain
<1>10. 1 \in 1..n
  BY <1>2
<1>11. /\ tags[1].number = 1 /\ tags[1].fact = f
       /\ \A k \in 1..n : tags[k].value = tr[tags[k].fact]
  <2>1. tags[1].number = 1 /\ tags[1].fact = f
    BY <1>4, <1>6, <1>10, Zenon
  <2>2. \A k \in 1..n : tags[k].value = v /\ tags[k].fact = f
    BY <1>4, <1>6, Zenon
  <2> QED BY <2>1, <2>2, Zenon DEF v
<1>12. \A g \in {f} : \E i \in 1..n : tags[i].fact = g
  BY <1>10, <1>11, Zenon
<1> QED BY <1>6, <1>8, <1>9, <1>11, <1>12, Zenon DEF Burst, T, v

-----------------------------------------------------------------------------
(* The answers of the endpoint. *)

\* A set of numbers that is not empty has a smallest one: what holds of 0, and of
\* every number after one of which it holds, has no smallest counterexample.
LEMMA Least ==
  ASSUME NEW T \in SUBSET Nat, T # {}
  PROVE  \E x \in T : \A y \in T : x <= y
<1> DEFINE R == OpToRel(<, Nat)
<1>1. IsWellFoundedOn(R, Nat)
  BY NatLessThanWellFounded, Zenon
<1>2. \A a, b \in Nat : ~(<<a, b>> \in R) => ~(a < b)
  BY ZenonT(30) DEF OpToRel
<1> HIDE DEF R
<1>3. PICK x \in T : \A y \in T : ~(<<y, x>> \in R)
  BY <1>1, WFMin
<1>4. \A y \in T : ~(y < x)
   BY <1>2, <1>3, Zenon
<1> QED BY <1>3, <1>4

\* FlattenSeq adds one sequence after the other.
LEMMA Flattened ==
  ASSUME NEW s, NEW n \in Nat, Len(s) = n, n # 0
  PROVE  \E f : /\ FlattenSeq(s) = f[n] /\ f[1] = s[1]
                /\ \A k \in 2..n : f[k] = f[k - 1] \o s[k]
<1> DEFINE Rec(f, m) == f = [i \in 1..m |-> IF i = 1 THEN s[i] ELSE f[i - 1] \o s[i]]
<1>1. \E f : Rec(f, n)
  <2> DEFINE T == {m \in Nat : ~ \E f : Rec(f, m)}
  <2> HIDE DEF Rec
  <2>1. SUFFICES ASSUME T # {} PROVE FALSE
    BY Zenon
  <2>2. T \in SUBSET Nat
    OBVIOUS
  <2> HIDE DEF T
  <2>3. PICK m \in T : \A y \in T : m <= y
    BY <2>1, <2>2, Least
  <2>4. m \in Nat /\ ~ \E f : Rec(f, m)
    BY <2>3 DEF T
  <2>5. m # 0
    <3>1. Rec([i \in 1..0 |-> <<>>], 0)
      BY DEF Rec
    <3> QED BY <2>4, <3>1
  <2>6. m - 1 \in Nat /\ m - 1 \notin T
    BY <2>2, <2>3, <2>4, <2>5
  <2>7. PICK f : Rec(f, m - 1)
    BY <2>6 DEF T
  <2> DEFINE g == [i \in 1..m |->
                     IF i = m THEN (IF m = 1 THEN s[m] ELSE f[m - 1] \o s[m]) ELSE f[i]]
  <2>8. Rec(g, m)
    <3>1. \A i \in 1..m - 1 : f[i] = IF i = 1 THEN s[i] ELSE f[i - 1] \o s[i]
      <4>1. f = [i \in 1..m - 1 |-> IF i = 1 THEN s[i] ELSE f[i - 1] \o s[i]]
        BY <2>7, Zenon DEF Rec
      <4> QED BY <4>1, Zenon
    <3>2. \A i \in 1..m : g[i] = IF i = m THEN (IF m = 1 THEN s[m] ELSE f[m - 1] \o s[m]) ELSE f[i]
      OBVIOUS
    <3>3. ASSUME NEW i \in 1..m PROVE g[i] = IF i = 1 THEN s[i] ELSE g[i - 1] \o s[i]
      <4> HIDE DEF g
      <4>1. i # 1 => i - 1 \in 1..m /\ i - 1 # m
        BY <2>4
      <4>2. i # 1 => g[i - 1] = f[i - 1]
        BY <3>2, <4>1, Zenon
      <4>3. CASE i = m
        BY <3>2, <4>2, <4>3, Zenon
      <4>4. CASE i # m
        <5>1. i \in 1..m - 1
          BY <2>4, <4>4
        <5> QED BY <3>1, <3>2, <4>2, <4>4, <5>1, Zenon
      <4> QED BY <4>3, <4>4
    <3>4. [i \in 1..m |-> g[i]] = [i \in 1..m |-> IF i = 1 THEN s[i] ELSE g[i - 1] \o s[i]]
      <4> HIDE DEF g
      <4> QED BY <3>3, Zenon
    <3>5. g = [i \in 1..m |-> g[i]]
      OBVIOUS
    <3> HIDE DEF g
    <3> QED BY <3>4, <3>5, Zenon DEF Rec
  <2> QED BY <2>4, <2>8
<1> DEFINE F == CHOOSE f : Rec(f, n)
<1>2. Rec(F, n)
  BY <1>1, Zenon
<1>3. FlattenSeq(s) = F[n]
  BY DEF FlattenSeq
<1> HIDE DEF F
<1>4. \A k \in 1..n : F[k] = IF k = 1 THEN s[k] ELSE F[k - 1] \o s[k]
  <2>1. F = [i \in 1..n |-> IF i = 1 THEN s[i] ELSE F[i - 1] \o s[i]]
    BY <1>2, Zenon
  <2> QED BY <2>1, Zenon
<1>5. 1 \in 1..n /\ \A k \in 2..n : k \in 1..n /\ k # 1
  OBVIOUS
<1> QED BY <1>3, <1>4, <1>5, Zenon

\* Any number of bursts one after the other are a burst.
LEMMA BurstFlat ==
  ASSUME NEW tr, NEW s, NEW n \in Nat, Len(s) = n, n = 0 => s = <<>>, NEW fs,
         \A i \in 1..n : Burst(s[i], fs[i], tr)
  PROVE  Burst(FlattenSeq(s), UNION {fs[i] : i \in 1..n}, tr)
<1>1. CASE n = 0
  <2>1. FlattenSeq(s) = <<>>
    BY <1>1 DEF FlattenSeq
  <2>2. UNION {fs[i] : i \in 1..n} = {}
    BY <1>1
  <2> QED BY <2>1, <2>2, BurstNone, Zenon
<1>2. CASE n # 0
  <2>1. PICK f : /\ FlattenSeq(s) = f[n] /\ f[1] = s[1]
                 /\ \A k \in 2..n : f[k] = f[k - 1] \o s[k]
    BY <1>2, Flattened
  <2> DEFINE So(k) == UNION {fs[i] : i \in 1..k}
             T == {k \in 1..n : ~ Burst(f[k], So(k), tr)}
  <2>2. SUFFICES ASSUME T # {} PROVE FALSE
    <3>1. n \in 1..n
      BY <1>2
    <3> QED BY <2>1, <2>2, <3>1, Zenon
  <2>3. T \in SUBSET Nat
    OBVIOUS
  <2> HIDE DEF T
  <2>4. PICK k \in T : \A y \in T : k <= y
    BY <2>2, <2>3, Least
  <2>5. k \in 1..n /\ ~ Burst(f[k], So(k), tr)
    BY <2>4 DEF T
  <2>6. CASE k = 1
    <3>1. So(1) = fs[1]
      <4>1. \A i \in 1..1 : i = 1
        OBVIOUS
      <4>2. 1 \in 1..1
        OBVIOUS
      <4> QED BY <4>1, <4>2, Zenon
    <3> QED BY <2>1, <2>5, <2>6, <3>1, Zenon
  <2>7. CASE k # 1
    <3>1. k \in 2..n /\ k - 1 \in 1..n /\ ~(k <= k - 1)
      BY <2>5, <2>7
    <3>2. k - 1 \notin T
      BY <2>4, <3>1, Zenon
    <3>3. Burst(f[k - 1], So(k - 1), tr)
      BY <3>1, <3>2, Zenon DEF T
    <3>4. So(k) = So(k - 1) \union fs[k]
      <4>1. \A i : i \in 1..k <=> i \in 1..k - 1 \/ i = k
        BY <3>1
      <4> QED BY <4>1
    <3>5. Burst(f[k - 1] \o s[k], So(k - 1) \union fs[k], tr)
      <4> HIDE DEF So
      <4>1. Burst(s[k], fs[k], tr)
        BY <2>5, Zenon
      <4> QED BY <3>3, <4>1, BurstMore
    <3> QED BY <2>1, <2>5, <3>1, <3>4, <3>5, Zenon
  <2> QED BY <2>6, <2>7
<1> QED BY <1>1, <1>2

\* A burst of some facts is one of fewer facts.
LEMMA BurstFewer ==
  ASSUME NEW p, NEW fs, NEW gs, NEW tr, Burst(p, fs, tr), gs \subseteq fs
  PROVE  Burst(p, gs, tr)
BY ZenonT(30) DEF Burst

\* A fact is told, or not.
LEMMA BurstWhen ==
  ASSUME NEW f \in Facts, NEW tr, tr[f] \in ValuesOf(f), NEW c \in BOOLEAN
  PROVE  Burst(When(c, Told(f, tr[f])), IF c THEN {f} ELSE {}, tr)
BY BurstTold, BurstNone, Zenon DEF When

\* The answer to endpoint discovery is whole tellings of what was asked for.
LEMMA EndpointBurst ==
  ASSUME \A f \in Facts : truth[f] \in ValuesOf(f),
         NEW filter, {<<what>> : what \in filter} \subseteq EndpointFacts
  PROVE  Burst(EndpointReplies(filter), {<<what>> : what \in filter}, truth)
<1> DEFINE names == <<"info", "identity", "name", "product", "configuration">>
           s == [i \in 1..5 |-> When(names[i] \in filter, Told(<<names[i]>>, truth[<<names[i]>>]))]
           fs == [i \in 1..5 |-> IF names[i] \in filter THEN {<<names[i]>>} ELSE {}]
<1>1. EndpointReplies(filter) = FlattenSeq(s)
  BY Zenon DEF EndpointReplies
<1>2. \A i \in 1..5 : <<names[i]>> \in Facts
  BY DEF Facts, EndpointFacts
<1>3. ASSUME NEW i \in 1..5 PROVE Burst(s[i], fs[i], truth)
  <2> DEFINE c == names[i] \in filter
             f == <<names[i]>>
  <2>1. c \in BOOLEAN /\ f \in Facts
    BY <1>2
  <2> HIDE DEF c, f
  <2>2. Burst(When(c, Told(f, truth[f])), IF c THEN {f} ELSE {}, truth)
    BY <2>1, BurstWhen
  <2>3. s[i] = When(c, Told(f, truth[f])) /\ fs[i] = IF c THEN {f} ELSE {}
    BY Zenon DEF c, f
  <2> QED BY <2>2, <2>3, Zenon
<1>4. Len(s) = 5 /\ 5 \in Nat /\ 5 # 0
  OBVIOUS
<1>5. {<<what>> : what \in filter} \subseteq UNION {fs[i] : i \in 1..5}
  <2> SUFFICES ASSUME NEW what \in filter PROVE \E i \in 1..5 : <<what>> \in fs[i]
    BY Zenon
  <2>1. <<what>> \in EndpointFacts
    BY Zenon
  <2>2. \E i \in 1..5 : what = names[i]
    <3>1. \/ what = "info" \/ what = "identity" \/ what = "name" \/ what = "product"
          \/ what = "configuration"
      BY <2>1 DEF EndpointFacts
    <3>2. /\ names[1] = "info" /\ names[2] = "identity" /\ names[3] = "name" /\ names[4] = "product"
          /\ names[5] = "configuration"
      OBVIOUS
    <3>3. 1 \in 1..5 /\ 2 \in 1..5 /\ 3 \in 1..5 /\ 4 \in 1..5 /\ 5 \in 1..5
      OBVIOUS
    <3> HIDE DEF names
    <3> QED BY <3>1, <3>2, <3>3, Zenon
  <2> HIDE DEF names
  <2> QED BY <2>2, Zenon
<1> HIDE DEF s, fs, names
<1>6. Burst(FlattenSeq(s), UNION {fs[i] : i \in 1..5}, truth)
  BY <1>3, <1>4, BurstFlat, Zenon
<1>7. Burst(FlattenSeq(s), {<<what>> : what \in filter}, truth)
  BY <1>5, <1>6, BurstFewer, Zenon
<1> QED BY <1>1, <1>7, Zenon

AskedOfBlocks(m) == {f \in BlockFacts : f[1] \in m.filter /\ m.block \in {AllBlocks, f[2]}}

\* The answer to function block discovery is whole tellings of what was asked for.
LEMMA BlockBurst ==
  ASSUME \A f \in Facts : truth[f] \in ValuesOf(f), NEW m
  PROVE  Burst(BlockReplies(m), AskedOfBlocks(m), truth)
<1> DEFINE A(what, i) == what \in m.filter /\ RequestsFunctionBlock(m, i - 1)
           s(what) == [i \in 1..NumBlocks |->
                         When(A(what, i), Told(<<what, i - 1>>, truth[<<what, i - 1>>]))]
           fs(what) == [i \in 1..NumBlocks |-> IF A(what, i) THEN {<<what, i - 1>>} ELSE {}]
           U(what) == UNION {fs(what)[i] : i \in 1..NumBlocks}
<1>1. NumBlocks \in Nat /\ \A i \in 1..NumBlocks : i - 1 \in 0..NumBlocks - 1
  BY DiscoveryAssumption
<1>2. ASSUME NEW what \in {"info", "name"} PROVE Burst(FlattenSeq(s(what)), U(what), truth)
  <2>1. ASSUME NEW i \in 1..NumBlocks PROVE Burst(s(what)[i], fs(what)[i], truth)
    <3> DEFINE c == A(what, i)
               f == <<what, i - 1>>
    <3>1. c \in BOOLEAN
      OBVIOUS
    <3>2. f \in Facts
      BY <1>1, BlockFact, Zenon
    <3> HIDE DEF c, f
    <3>3. Burst(When(c, Told(f, truth[f])), IF c THEN {f} ELSE {}, truth)
      BY <3>1, <3>2, BurstWhen
    <3>4. s(what)[i] = When(c, Told(f, truth[f])) /\ fs(what)[i] = IF c THEN {f} ELSE {}
      BY Zenon DEF c, f
    <3> QED BY <3>3, <3>4, Zenon
  <2>2. Len(s(what)) = NumBlocks /\ (NumBlocks = 0 => s(what) = <<>>)
    BY <1>1
  <2> DEFINE ss == s(what)
             ff == fs(what)
  <2>3. \A i \in 1..NumBlocks : Burst(ss[i], ff[i], truth)
    BY <2>1
  <2> HIDE DEF ss, ff
  <2>4. Len(ss) = NumBlocks /\ (NumBlocks = 0 => ss = <<>>)
    BY <2>2 DEF ss
  <2>5. Burst(FlattenSeq(ss), UNION {ff[i] : i \in 1..NumBlocks}, truth)
    BY <1>1, <2>3, <2>4, BurstFlat
  <2> QED BY <2>5, Zenon DEF ss, ff
<1>3. BlockReplies(m) = FlattenSeq(s("info")) \o FlattenSeq(s("name"))
  <2>1. ASSUME NEW what \in {"info", "name"}
        PROVE  s(what) = [i \in 1..NumBlocks |->
                    LET f == <<what, i - 1>>
                    IN  When(what \in m.filter /\ RequestsFunctionBlock(m, f[2]),
                             Told(f, truth[f]))]
    <3>1. \A i : <<what, i - 1>>[2] = i - 1
      OBVIOUS
    <3> QED BY <3>1, Zenon
  <2> HIDE DEF s
  <2> QED BY <2>1, Zenon DEF BlockReplies
<1>4. AskedOfBlocks(m) \subseteq U("info") \union U("name")
  <2> SUFFICES ASSUME NEW f \in AskedOfBlocks(m) PROVE f \in U("info") \union U("name")
    OBVIOUS
  <2>1. f \in BlockFacts /\ f[1] \in m.filter /\ m.block \in {AllBlocks, f[2]}
    BY Zenon DEF AskedOfBlocks
  <2>2. PICK what \in {"info", "name"}, b \in 0..NumBlocks - 1 : f = <<what, b>>
    BY <2>1 DEF BlockFacts
  <2>3. PICK i \in 1..NumBlocks : b = i - 1
    <3>1. b + 1 \in 1..NumBlocks /\ b = (b + 1) - 1
      BY <1>1
    <3> QED BY <3>1, Zenon
  <2>4. A(what, i)
    <3>1. f[1] = what /\ f[2] = b
      BY <2>2
    <3> QED BY <2>1, <2>3, <3>1, Zenon DEF RequestsFunctionBlock
  <2> HIDE DEF A
  <2>5. fs(what)[i] = {f}
    BY <2>2, <2>3, <2>4, Zenon
  <2> HIDE DEF fs
  <2>6. f \in U(what)
    BY <2>5, Zenon
  <2> HIDE DEF U
  <2> QED BY <2>6, Zenon
<1> HIDE DEF s, fs, U, A
<1>5. Burst(FlattenSeq(s("info")) \o FlattenSeq(s("name")), U("info") \union U("name"), truth)
  BY <1>2, BurstMore
<1> QED BY <1>3, <1>4, <1>5, BurstFewer, Zenon

-----------------------------------------------------------------------------
(* The invariant. *)

Requests ==
  {EndpointDiscoveryMessage(filter) : filter \in EndpointFilters}
  \union {FunctionBlockDiscovery(block, filter) :
            block \in 0..NumBlocks - 1 \union {AllBlocks}, filter \in BlockFilters}
  \union {StreamConfigurationRequest(c.protocol, c.extensions) : c \in Configurations}

\* The facts a request asks for
AskedBy(m) ==
  CASE m.status = "endpoint_discovery"       -> {<<what>> : what \in m.filter}
    [] m.status = "function_block_discovery" -> AskedOfBlocks(m)
    [] m.status = "stream_configuration_request" -> {<<"configuration">>}

\* The facts that requests under way ask for
Pending(rq) == {f \in Facts : \E i \in 1..Len(rq) : f \in AskedBy(rq[i])}

Truthful(tr, h) == \A f \in Facts : tr[f] \in ValuesOf(f) /\ tr[f] \in h[f]

Learned(kn, h, hu) ==
  \A f \in Facts :
    \/ kn[f] = <<>>
    \/ \E x : /\ kn[f] = <<x>> /\ (f \notin hu => x \in h[f])
              /\ f = <<"configuration">> => x \in StreamConfigurations

\* What is told was true, the last telling of a fact tells what it is now, and the
\* host has gathered the text whose telling goes on.
Under(tags, tr, h, pa, to) ==
  /\ \A i \in 1..Len(tags) : tags[i].value \in h[tags[i].fact]
  /\ \A i \in 1..Len(tags) :
       (\A j \in 1..Len(tags) : tags[j].fact = tags[i].fact => j <= i) =>
         tags[i].value = tr[tags[i].fact]
  /\ Len(tags) > 0 /\ tags[1].number # 1 /\ tags[1].fact \notin to =>
       \A k \in Nat : k + 1 = tags[1].number =>
         pa[tags[1].fact] = Gathered(tags[1].fact, tags[1].value, k)

\* Host and endpoint agree on what was asked for and is neither asked nor told now.
Settled(tags, tr, rq, kn, as, hu) ==
  \A f \in as \ hu :
    f \notin Pending(rq) /\ (\A i \in 1..Len(tags) : tags[i].fact # f) => kn[f] = <<tr[f]>>

Bookkeeping ==
  /\ DOMAIN truth = Facts /\ DOMAIN had = Facts /\ DOMAIN known = Facts /\ DOMAIN partial = Facts
  /\ requests \in Seq(Requests)
  /\ asked \subseteq Facts /\ hurt \subseteq Facts /\ torn \subseteq hurt
  /\ asks \in 0..MaxAsks /\ announcements \in 0..MaxAnnouncements /\ losses \in 0..MaxLosses

Story(tags, rp, tr, h, pa, to, rq, kn, as, hu) ==
  /\ Matches(rp, tags) /\ Chain(tags)
  /\ Under(tags, tr, h, pa, to)
  /\ Settled(tags, tr, rq, kn, as, hu)

IInv ==
  /\ Bookkeeping
  /\ Truthful(truth, had)
  /\ Learned(known, had, hurt)
  /\ \E tags \in Seq(Tags) :
       Story(tags, replies, truth, had, partial, torn, requests, known, asked, hurt)

\* The configuration is a fact.
LEMMA ConfigurationFact == <<"configuration">> \in Facts
BY DEF Facts, EndpointFacts

\* The invariant holds at the start.
LEMMA InitKeeps == Init => IInv
<1> SUFFICES ASSUME Init PROVE IInv
  OBVIOUS
<1>1. Bookkeeping
  BY DiscoveryAssumption DEF Init, Bookkeeping
<1>2. truth = Endpoint /\ had = [f \in Facts |-> {Endpoint[f]}] /\ known = [f \in Facts |-> <<>>]
  BY DEF Init
<1>3. Truthful(truth, had) /\ Learned(known, had, hurt)
  BY <1>2, DiscoveryAssumption, Zenon DEF Truthful, Learned
<1>4. replies = <<>> /\ asked = {}
  BY DEF Init
<1>5. <<>> \in Seq(Tags) /\ <<>> \in Seq(Sent) /\ Len(<<>>) = 0 /\ ~(0 > 0) /\ \A i \in 1..0 : FALSE
  OBVIOUS
<1>6. Matches(replies, <<>>) /\ Chain(<<>>) /\ Under(<<>>, truth, had, partial, torn)
  BY <1>4, <1>5, Zenon DEF Matches, Chain, Under
<1>7. Settled(<<>>, truth, requests, known, asked, hurt)
  BY <1>4, Zenon DEF Settled
<1> QED BY <1>1, <1>3, <1>5, <1>6, <1>7, Zenon DEF IInv, Story

\* More replies are put behind those under way.
LEMMA Extends ==
  ASSUME NEW tags \in Seq(Tags),
         Story(tags, replies, truth, had, partial, torn, requests, known, asked, hurt),
         asked \subseteq Facts, NEW ps, NEW fs, Burst(ps, fs, truth'),
         \A f \in Facts : /\ had[f] \subseteq had'[f] /\ truth'[f] \in had'[f]
                          /\ f \notin fs => truth'[f] = truth[f],
         Pending(requests) \subseteq Pending(requests') \union fs
  PROVE  \E c \in Seq(Tags) :
           Story(c, replies \o ps, truth', had', partial, torn, requests', known, asked, hurt)
<1>1. PICK b \in Seq(Tags) :
        /\ Matches(ps, b) /\ Chain(b) /\ (Len(b) > 0 => b[1].number = 1)
        /\ \A i \in 1..Len(b) : b[i].value = truth'[b[i].fact]
        /\ \A f \in fs : \E i \in 1..Len(b) : b[i].fact = f
  BY Zenon DEF Burst
<1>2. PICK n \in Nat, m \in Nat : n = Len(tags) /\ m = Len(b)
  BY LenProperties
<1>3. /\ Matches(replies, tags) /\ Chain(tags) /\ Under(tags, truth, had, partial, torn)
      /\ Settled(tags, truth, requests, known, asked, hurt)
  BY Zenon DEF Story
<1> DEFINE c == tags \o b
<1>4. c \in Seq(Tags) /\ Concatenation(c, tags, b, n, m)
  BY <1>2, Concatenated, Zenon
<1>5. Matches(replies \o ps, c)
  BY <1>1, <1>3, MatchesConcat
<1>6. Chain(c)
  BY <1>1, <1>3, ChainConcat
<1> HIDE DEF c
<1>7. /\ Len(c) = n + m
      /\ \A i \in 1..n : c[i] = tags[i]
      /\ \A j \in 1..m : \A i : i = n + j => c[i] = b[j]
      /\ \A i \in 1..n + m : i \in 1..n \/ \E j \in 1..m : i = n + j
  BY <1>4, Zenon DEF Concatenation
<1>8. /\ \A i \in 1..n : i \in 1..n + m
      /\ \A j \in 1..m : \A i : i = n + j => i \in 1..n + m
      /\ \A i \in 1..n : \A j \in 1..m : ~(n + j <= i)
  OBVIOUS
<1>9. /\ \A i \in 1..n : tags[i].fact \in Facts
      /\ \A i \in 1..m : b[i].fact \in Facts
  <2>1. /\ \A i \in 1..n : tags[i] \in Tags
        /\ \A i \in 1..m : b[i] \in Tags
    BY <1>2, ElementOfSeq
  <2> QED BY <2>1, TagParts, Zenon
<1>10. \A i \in 1..n + m : c[i].value \in had'[c[i].fact]
  <2> SUFFICES ASSUME NEW i \in 1..n + m PROVE c[i].value \in had'[c[i].fact]
    OBVIOUS
  <2>1. CASE i \in 1..n
    <3>1. tags[i].value \in had[tags[i].fact]
      BY <1>2, <1>3, <2>1, Zenon DEF Under
    <3>2. c[i] = tags[i] /\ had[tags[i].fact] \subseteq had'[tags[i].fact]
      BY <1>7, <1>9, <2>1, Zenon
    <3> QED BY <3>1, <3>2, Zenon
  <2>2. CASE \E j \in 1..m : i = n + j
    <3>1. PICK j \in 1..m : i = n + j
      BY <2>2, Zenon
    <3>2. c[i] = b[j]
      BY <1>7, <3>1, Zenon
    <3>3. b[j].value = truth'[b[j].fact] /\ b[j].fact \in Facts
      BY <1>1, <1>2, <1>9, Zenon
    <3>4. truth'[b[j].fact] \in had'[b[j].fact]
      BY <3>3, Zenon
    <3> QED BY <3>2, <3>3, <3>4, Zenon
  <2> QED BY <1>7, <2>1, <2>2, Zenon
<1>11. ASSUME NEW i \in 1..n + m, \A j \in 1..n + m : c[j].fact = c[i].fact => j <= i
       PROVE  c[i].value = truth'[c[i].fact]
  <2>1. CASE i \in 1..n
    <3>1. c[i] = tags[i]
      BY <1>7, <2>1, Zenon
    <3>2. \A j \in 1..n : tags[j].fact = tags[i].fact => j <= i
      BY <1>7, <1>8, <1>11, <3>1, Zenon
    <3>3. tags[i].value = truth[tags[i].fact]
      BY <1>2, <1>3, <2>1, <3>2, Zenon DEF Under
    <3>4. \A j \in 1..m : b[j].fact # tags[i].fact
      <4> SUFFICES ASSUME NEW j \in 1..m, b[j].fact = tags[i].fact PROVE FALSE
        BY Zenon
      <4>1. PICK k \in 1..n + m : k = n + j
        BY <1>8, Zenon
      <4>2. c[k].fact = c[i].fact
        BY <1>7, <3>1, <4>1, Zenon
      <4>3. k <= i
        BY <1>11, <4>2, Zenon
      <4> QED BY <1>8, <2>1, <4>1, <4>3, Zenon
    <3>5. tags[i].fact \notin fs
      BY <1>1, <1>2, <3>4, Zenon
    <3>6. truth'[tags[i].fact] = truth[tags[i].fact]
      BY <1>9, <2>1, <3>5, Zenon
    <3> QED BY <3>1, <3>3, <3>6, Zenon
  <2>2. CASE \E j \in 1..m : i = n + j
    <3>1. PICK j \in 1..m : i = n + j
      BY <2>2, Zenon
    <3>2. c[i] = b[j]
      BY <1>7, <3>1, Zenon
    <3> QED BY <1>1, <1>2, <3>2, Zenon
  <2> QED BY <1>7, <2>1, <2>2, Zenon
<1>12. ASSUME n + m > 0, c[1].number # 1, c[1].fact \notin torn, NEW k \in Nat, k + 1 = c[1].number
       PROVE  partial[c[1].fact] = Gathered(c[1].fact, c[1].value, k)
  <2>1. CASE n = 0
    <3>1. m > 0 /\ 1 \in 1..m /\ 1 = n + 1
      BY <1>12, <2>1
    <3>2. c[1] = b[1]
      BY <1>7, <3>1, ZenonT(30)
    <3>3. b[1].number = 1
      BY <1>1, <1>2, <3>1, Zenon
    <3> QED BY <1>12, <3>2, <3>3, Zenon
  <2>2. CASE n # 0
    <3>1. n > 0 /\ 1 \in 1..n
      BY <2>2
    <3>2. c[1] = tags[1]
      BY <1>7, <3>1, Zenon
    <3> QED BY <1>2, <1>3, <1>12, <3>1, <3>2, Zenon DEF Under
  <2> QED BY <2>1, <2>2
<1>13. Under(c, truth', had', partial, torn)
  BY <1>7, <1>10, <1>11, <1>12, Zenon DEF Under
<1>14. ASSUME NEW f \in asked \ hurt, f \notin Pending(requests'), \A i \in 1..n + m : c[i].fact # f
       PROVE  known[f] = <<truth'[f]>>
  <2>1. \A i \in 1..n : tags[i].fact # f
    BY <1>7, <1>8, <1>14, Zenon
  <2>2. \A j \in 1..m : b[j].fact # f
    BY <1>7, <1>8, <1>14, Zenon
  <2>3. f \notin fs
    BY <1>1, <1>2, <2>2, Zenon
  <2>4. f \notin Pending(requests)
    BY <1>14, <2>3, Zenon
  <2>5. known[f] = <<truth[f]>>
    BY <1>2, <1>3, <2>1, <2>4, Zenon DEF Settled
  <2> QED BY <2>3, <2>5, Zenon
<1>15. Settled(c, truth', requests', known, asked, hurt)
  BY <1>7, <1>14, Zenon DEF Settled
<1> QED BY <1>4, <1>5, <1>6, <1>13, <1>15, Zenon DEF Story

\* r is s without its first element.
Rest(r, s, n) ==
  /\ Len(s) = n + 1 /\ Len(r) = n
  /\ \A i \in 1..n : \A j : j = i + 1 => j \in 1..n + 1 /\ r[i] = s[j]
  /\ \A j \in 1..n + 1 : j = 1 \/ \E i \in 1..n : j = i + 1

\* What Tail leaves of a sequence, by its elements
LEMMA TailRest ==
  ASSUME NEW S, NEW s \in Seq(S), NEW n \in Nat, Len(s) = n + 1
  PROVE  Tail(s) \in Seq(S) /\ Rest(Tail(s), s, n)
<1>1. s # <<>>
  OBVIOUS
<1>2. /\ Tail(s) \in Seq(S) /\ Len(Tail(s)) = Len(s) - 1
      /\ \A i \in 1..Len(Tail(s)) : Tail(s)[i] = s[i + 1]
  BY <1>1, HeadTailProperties
<1>3. PICK r \in Seq(S) : r = Tail(s)
  BY <1>2
<1>4. Len(r) = n /\ \A i \in 1..Len(r) : r[i] = s[i + 1]
  <2>1. (n + 1) - 1 = n
    OBVIOUS
  <2> QED BY <1>2, <1>3, <2>1, Zenon
<1>5. \A i \in 1..n : \A j : j = i + 1 => j \in 1..n + 1
  OBVIOUS
<1>6. \A j \in 1..n + 1 : j # 1 => j - 1 \in 1..n /\ j = (j - 1) + 1
  OBVIOUS
<1> QED BY <1>3, <1>4, <1>5, <1>6, Zenon DEF Rest

\* Of the packets rp that tags tell of, the first one, that t tells of, is taken.
Taken(n, t, r, tags, rp) ==
  /\ Rest(r, tags, n) /\ t = tags[1] /\ Head(rp) = PacketOf(t)
  /\ Matches(Tail(rp), r) /\ Chain(r)
  /\ \A f : f # t.fact /\ (\A i \in 1..n : r[i].fact # f) =>
              \A i \in 1..n + 1 : tags[i].fact # f

\* When the first packet is taken the rest is what the rest of the tags tell of.
LEMMA Shortens ==
  ASSUME NEW tags \in Seq(Tags), NEW rp, Matches(rp, tags), Chain(tags), rp # <<>>
  PROVE  \E n \in Nat, t \in Tags, r \in Seq(Tags) : Taken(n, t, r, tags, rp)
<1>1. rp \in Seq(Sent) /\ Len(rp) = Len(tags) /\ \A i \in 1..Len(tags) : rp[i] = PacketOf(tags[i])
  BY Zenon DEF Matches
<1>2. PICK n \in Nat : Len(rp) = n + 1
  <2>1. Len(rp) \in Nat /\ Len(rp) # 0
    BY <1>1, EmptySeq, LenProperties
  <2>2. Len(rp) - 1 \in Nat /\ Len(rp) = (Len(rp) - 1) + 1
    BY <2>1
  <2> QED BY <2>2, Zenon
<1> DEFINE r == Tail(tags)
           t == tags[1]
           q == Tail(rp)
<1>3. r \in Seq(Tags) /\ Rest(r, tags, n)
  BY <1>1, <1>2, TailRest, Zenon
<1>4. q \in Seq(Sent) /\ Rest(q, rp, n)
  BY <1>1, <1>2, TailRest, Zenon
<1>5. 1 \in 1..n + 1
  OBVIOUS
<1>6. t \in Tags
  BY <1>1, <1>2, <1>5, ElementOfSeq, Zenon
<1>7. Head(rp) = PacketOf(t)
  <2>1. Head(rp) = rp[1]
    BY <1>1, HeadTailProperties
  <2> QED BY <1>1, <1>2, <1>5, <2>1, Zenon
<1> HIDE DEF r, q
<1>8. Len(r) = n /\ Len(q) = n /\ \A i \in 1..n : q[i] = PacketOf(r[i])
  BY <1>1, <1>2, <1>3, <1>4, Zenon DEF Rest
<1>9. Matches(q, r)
  BY <1>4, <1>8, Zenon DEF Matches
<1>10. ASSUME NEW i \in 1..n
       PROVE  /\ r[i].number = Count(r[i]) => i = n \/ r[i + 1].number = 1
              /\ r[i].number # Count(r[i]) => i < n /\ r[i + 1] = After(r[i])
  <2>1. PICK j \in 1..n + 1 : j = i + 1
    OBVIOUS
  <2>2. r[i] = tags[j]
    BY <1>3, <2>1, Zenon DEF Rest
  <2>3. j = n + 1 <=> i = n
    BY <2>1
  <2>4. i # n => i + 1 \in 1..n /\ j + 1 = (i + 1) + 1 /\ i < n
    BY <2>1
  <2>5. i # n => r[i + 1] = tags[j + 1]
    <3> SUFFICES ASSUME i # n PROVE r[i + 1] = tags[j + 1]
      OBVIOUS
    <3>1. PICK k \in 1..n, l \in 1..n + 1 : k = i + 1 /\ l = j + 1 /\ l = k + 1
      BY <2>1, <2>4
    <3>2. r[k] = tags[l]
      BY <1>3, <3>1, Zenon DEF Rest
    <3> QED BY <3>1, <3>2, Zenon
  <2>6. j < n + 1 => i # n
    BY <2>1
  <2>7. /\ tags[j].number = Count(tags[j]) => j = n + 1 \/ tags[j + 1].number = 1
        /\ tags[j].number # Count(tags[j]) => j < n + 1 /\ tags[j + 1] = After(tags[j])
    BY <1>1, <1>2, Zenon DEF Chain
  <2> QED BY <2>2, <2>3, <2>4, <2>5, <2>6, <2>7, Zenon
<1>11. Chain(r)
  BY <1>8, <1>10, Zenon DEF Chain
<1>12. ASSUME NEW f, f # t.fact, \A i \in 1..n : r[i].fact # f, NEW i \in 1..n + 1
       PROVE  tags[i].fact # f
  <2>1. CASE i = 1
    BY <1>12, <2>1, Zenon
  <2>2. CASE \E k \in 1..n : i = k + 1
    <3>1. PICK k \in 1..n : i = k + 1
      BY <2>2, Zenon
    <3>2. r[k] = tags[i]
      BY <1>3, <3>1, Zenon DEF Rest
    <3> QED BY <1>12, <3>2, Zenon
  <2> QED BY <1>3, <2>1, <2>2, Zenon DEF Rest
<1> HIDE DEF t
<1>13. t = tags[1]
  BY Zenon DEF t
<1>14. \A f : f # t.fact /\ (\A i \in 1..n : r[i].fact # f) =>
               \A i \in 1..n + 1 : tags[i].fact # f
  BY <1>12, Zenon
<1>15. Matches(Tail(rp), r)
  BY <1>9, Zenon DEF q
<1>16. r \in Seq(Tags) /\ Rest(r, tags, n) /\ Head(rp) = PacketOf(t)
  BY <1>3, <1>7, Zenon
<1>17. Taken(n, t, r, tags, rp)
  BY <1>11, <1>13, <1>14, <1>15, <1>16, Zenon DEF Taken
<1> QED BY <1>6, <1>16, <1>17, Zenon

-----------------------------------------------------------------------------
(* The steps of host and endpoint. *)

\* A function with the value of one fact changed
LEMMA Changed ==
  ASSUME NEW fn, DOMAIN fn = Facts, NEW f \in Facts, NEW v
  PROVE  LET g == [fn EXCEPT ![f] = v]
         IN  DOMAIN g = Facts /\ g[f] = v /\ \A x \in Facts : x # f => g[x] = fn[x]
OBVIOUS

\* What the endpoint finds in a request, by its status
LEMMA RequestCases ==
  ASSUME NEW m \in Requests
  PROVE  \/ /\ m.status = "endpoint_discovery"
            /\ AskedBy(m) = {<<what>> : what \in m.filter} /\ AskedBy(m) \subseteq EndpointFacts
         \/ m.status = "function_block_discovery" /\ AskedBy(m) = AskedOfBlocks(m)
         \/ /\ m.status = "stream_configuration_request" /\ AskedBy(m) = {<<"configuration">>}
            /\ \E c \in Configurations : m.bytes = <<c.protocol, c.extensions>>
<1>1. CASE \E filter \in EndpointFilters : m = EndpointDiscoveryMessage(filter)
  <2>1. PICK filter \in EndpointFilters : m = EndpointDiscoveryMessage(filter)
    BY <1>1
  <2>2. m.status = "endpoint_discovery" /\ m.filter = filter
    BY <2>1, Zenon DEF EndpointDiscoveryMessage
  <2>3. AskedBy(m) = {<<what>> : what \in m.filter}
    BY <2>2 DEF AskedBy
  <2>4. {<<what>> : what \in filter} \subseteq EndpointFacts
    BY <2>1, DiscoveryAssumption, Zenon
  <2> QED BY <2>2, <2>3, <2>4, Zenon
<1>2. CASE \E block \in 0..NumBlocks - 1 \union {AllBlocks}, filter \in BlockFilters :
             m = FunctionBlockDiscovery(block, filter)
  <2>1. m.status = "function_block_discovery"
    BY <1>2 DEF FunctionBlockDiscovery
  <2> QED BY <2>1 DEF AskedBy
<1>3. CASE \E c \in Configurations : m = StreamConfigurationRequest(c.protocol, c.extensions)
  <2>1. PICK c \in Configurations : m = StreamConfigurationRequest(c.protocol, c.extensions)
    BY <1>3
  <2>2. m.status = "stream_configuration_request" /\ m.bytes = <<c.protocol, c.extensions>>
    BY <2>1, Zenon DEF StreamConfigurationRequest, Complete, Packet
  <2>3. AskedBy(m) = {<<"configuration">>}
    BY <2>2 DEF AskedBy
  <2> QED BY <2>2, <2>3, Zenon
<1>4. \/ \E filter \in EndpointFilters : m = EndpointDiscoveryMessage(filter)
      \/ \E block \in 0..NumBlocks - 1 \union {AllBlocks}, filter \in BlockFilters :
           m = FunctionBlockDiscovery(block, filter)
      \/ \E c \in Configurations : m = StreamConfigurationRequest(c.protocol, c.extensions)
  BY DEF Requests
<1> QED BY <1>1, <1>2, <1>3, <1>4, Zenon

\* With one more request, what it asks for is pending as well.
LEMMA PendingAppended ==
  ASSUME NEW rq \in Seq(Requests), NEW m \in Requests
  PROVE  /\ Append(rq, m) \in Seq(Requests)
         /\ Pending(rq) \subseteq Pending(Append(rq, m))
         /\ AskedBy(m) \cap Facts \subseteq Pending(Append(rq, m))
<1> DEFINE q == Append(rq, m)
<1>1. PICK n \in Nat : n = Len(rq)
  BY LenProperties
<1>2. /\ q \in Seq(Requests) /\ Len(q) = n + 1 /\ q[n + 1] = m
      /\ \A i \in 1..n : q[i] = rq[i]
  BY <1>1, AppendProperties
<1>3. n + 1 \in 1..n + 1 /\ \A i \in 1..n : i \in 1..n + 1
  OBVIOUS
<1> HIDE DEF q
<1>4. Pending(rq) \subseteq Pending(q)
  BY <1>1, <1>2, <1>3, Zenon DEF Pending
<1>5. AskedBy(m) \cap Facts \subseteq Pending(q)
  BY <1>2, <1>3, Zenon DEF Pending
<1> QED BY <1>2, <1>4, <1>5, Zenon DEF q

\* With one request less, what others ask for is still pending.
LEMMA PendingTaken ==
  ASSUME NEW rq \in Seq(Requests), rq # <<>>
  PROVE  /\ Head(rq) \in Requests /\ Tail(rq) \in Seq(Requests)
         /\ Pending(rq) \subseteq Pending(Tail(rq)) \union AskedBy(Head(rq))
<1>1. PICK n \in Nat : Len(rq) = n + 1
  <2>1. Len(rq) \in Nat /\ Len(rq) # 0
    BY EmptySeq, LenProperties
  <2>2. Len(rq) - 1 \in Nat /\ Len(rq) = (Len(rq) - 1) + 1
    BY <2>1
  <2> QED BY <2>2, Zenon
<1> DEFINE q == Tail(rq)
           m == Head(rq)
<1>2. q \in Seq(Requests) /\ Rest(q, rq, n)
  BY <1>1, TailRest, Zenon
<1>3. m \in Requests /\ m = rq[1]
  BY HeadTailProperties
<1> HIDE DEF q, m
<1>4. ASSUME NEW f \in Facts, NEW j \in 1..n + 1, f \in AskedBy(rq[j])
      PROVE  f \in Pending(q) \union AskedBy(m)
  <2>1. CASE j = 1
    BY <1>3, <1>4, <2>1, Zenon
  <2>2. CASE \E i \in 1..n : j = i + 1
    <3>1. PICK i \in 1..n : j = i + 1
      BY <2>2, Zenon
    <3>2. q[i] = rq[j] /\ Len(q) = n
      BY <1>2, <3>1, Zenon DEF Rest
    <3> QED BY <1>4, <3>2, Zenon DEF Pending
  <2> QED BY <1>2, <2>1, <2>2, Zenon DEF Rest
<1>5. Pending(rq) \subseteq Pending(q) \union AskedBy(m)
  BY <1>1, <1>4, Zenon DEF Pending
<1> QED BY <1>2, <1>3, <1>5, Zenon DEF q, m

\* A request is sent: what it asks for is pending, so nothing is promised of it yet.
LEMMA AskKeeps ==
  ASSUME IInv, NEW facts \in SUBSET Facts, NEW m \in Requests, facts \subseteq AskedBy(m),
         Ask(facts), requests' = Append(requests, m)
  PROVE  IInv'
<1>1. /\ UNCHANGED <<truth, had, replies, known, partial, hurt, torn>>
      /\ asked' = asked \union facts
  BY DEF Ask, endpointVars, hostVars
<1>2. /\ asks < MaxAsks /\ asks' = asks + 1 /\ announcements' = announcements /\ losses' = losses
  BY DEF Ask
<1>3. Bookkeeping
  BY Zenon DEF IInv
<1>4. requests \in Seq(Requests) /\ requests' \in Seq(Requests)
  BY <1>3, PendingAppended, Zenon DEF Bookkeeping
<1>5. Bookkeeping'
  <2>1. /\ DOMAIN truth = Facts /\ DOMAIN had = Facts
        /\ DOMAIN known = Facts /\ DOMAIN partial = Facts
        /\ asked \subseteq Facts /\ hurt \subseteq Facts /\ torn \subseteq hurt
        /\ asks \in 0..MaxAsks /\ announcements \in 0..MaxAnnouncements /\ losses \in 0..MaxLosses
    BY <1>3, Zenon DEF Bookkeeping
  <2>2. asks + 1 \in 0..MaxAsks
    BY <1>2, <2>1, DiscoveryAssumption
  <2>3. asked' \subseteq Facts
    BY <1>1, <2>1, Zenon
  <2> QED BY <1>1, <1>2, <1>4, <2>1, <2>2, <2>3, Zenon DEF Bookkeeping
<1>6. PICK tags \in Seq(Tags) :
        Story(tags, replies, truth, had, partial, torn, requests, known, asked, hurt)
  BY Zenon DEF IInv
<1>7. Pending(requests) \subseteq Pending(requests') /\ facts \subseteq Pending(requests')
  BY <1>4, PendingAppended, Zenon
<1>8. Settled(tags, truth, requests', known, asked \union facts, hurt)
  BY <1>6, <1>7, Zenon DEF Settled, Story
<1>9. Story(tags, replies, truth, had, partial, torn, requests, known, asked, hurt)'
  BY <1>1, <1>6, <1>8, Zenon DEF Story
<1>10. Truthful(truth, had)' /\ Learned(known, had, hurt)'
  BY <1>1, Zenon DEF IInv
<1> QED BY <1>5, <1>9, <1>10, Zenon DEF IInv

\* Replies are sent; what they do not tell stays as it is.
LEMMA TellKeeps ==
  ASSUME IInv, NEW ps, NEW fs, Burst(ps, fs, truth'), replies' = replies \o ps,
         UNCHANGED <<known, partial, hurt, torn, asked, asks, losses>>,
         DOMAIN truth' = Facts, DOMAIN had' = Facts,
         \A f \in Facts : /\ truth'[f] \in ValuesOf(f) /\ truth'[f] \in had'[f]
                          /\ had[f] \subseteq had'[f] /\ (f \notin fs => truth'[f] = truth[f]),
         requests' \in Seq(Requests), Pending(requests) \subseteq Pending(requests') \union fs,
         announcements' \in 0..MaxAnnouncements
  PROVE  IInv'
<1>1. Bookkeeping /\ Learned(known, had, hurt)
  BY Zenon DEF IInv
<1>2. Bookkeeping'
  BY <1>1, Zenon DEF Bookkeeping
<1>3. Truthful(truth, had)'
  BY Zenon DEF Truthful
<1>4. Learned(known, had, hurt)'
  <2> SUFFICES ASSUME NEW f \in Facts
               PROVE  \/ known[f] = <<>>
                      \/ \E x : /\ known[f] = <<x>> /\ (f \notin hurt => x \in had'[f])
                                /\ f = <<"configuration">> => x \in StreamConfigurations
    BY Zenon DEF Learned
  <2>1. CASE known[f] # <<>>
    <3>1. PICK x : /\ known[f] = <<x>> /\ (f \notin hurt => x \in had[f])
                   /\ f = <<"configuration">> => x \in StreamConfigurations
      BY <1>1, <2>1, Zenon DEF Learned
    <3>2. had[f] \subseteq had'[f]
      BY Zenon
    <3> QED BY <3>1, <3>2, Zenon
  <2> QED BY <2>1
<1>5. PICK tags \in Seq(Tags) :
        Story(tags, replies, truth, had, partial, torn, requests, known, asked, hurt)
  BY Zenon DEF IInv
<1>6. asked \in SUBSET Facts
  BY <1>1, Zenon DEF Bookkeeping
<1>7. \A f \in Facts : /\ had[f] \subseteq had'[f] /\ truth'[f] \in had'[f]
                       /\ f \notin fs => truth'[f] = truth[f]
  BY Zenon
<1>8. \E c \in Seq(Tags) :
         Story(c, replies \o ps, truth', had', partial, torn, requests', known, asked, hurt)
  BY <1>5, <1>6, <1>7, Extends
<1> QED BY <1>2, <1>3, <1>4, <1>8, Zenon DEF IInv

\* A fact is another one now.
LEMMA HaveKeeps ==
  ASSUME IInv, NEW f \in Facts, NEW v \in ValuesOf(f), Have(f, v)
  PROVE  /\ DOMAIN truth' = Facts /\ DOMAIN had' = Facts /\ truth'[f] = v
         /\ \A g \in Facts : /\ truth'[g] \in ValuesOf(g) /\ truth'[g] \in had'[g]
                             /\ had[g] \subseteq had'[g] /\ (g \notin {f} => truth'[g] = truth[g])
<1>1. /\ DOMAIN truth = Facts /\ DOMAIN had = Facts
      /\ \A g \in Facts : truth[g] \in ValuesOf(g) /\ truth[g] \in had[g]
  BY Zenon DEF IInv, Bookkeeping, Truthful
<1>2. truth' = [truth EXCEPT ![f] = v] /\ had' = [had EXCEPT ![f] = had[f] \union {v}]
  BY <1>1 DEF Have
<1>3. DOMAIN truth' = Facts /\ truth'[f] = v /\ \A g \in Facts : g # f => truth'[g] = truth[g]
  BY <1>1, <1>2, Changed
<1>4. /\ DOMAIN had' = Facts /\ had'[f] = had[f] \union {v}
      /\ \A g \in Facts : g # f => had'[g] = had[g]
  BY <1>1, <1>2, Changed
<1>5. ASSUME NEW g \in Facts
      PROVE  /\ truth'[g] \in ValuesOf(g) /\ truth'[g] \in had'[g]
             /\ had[g] \subseteq had'[g] /\ (g \notin {f} => truth'[g] = truth[g])
  <2>1. CASE g = f
    BY <1>3, <1>4, <2>1, Zenon
  <2>2. CASE g # f
    BY <1>1, <1>3, <1>4, <2>2, Zenon
  <2> QED BY <2>1, <2>2
<1> QED BY <1>3, <1>4, <1>5, Zenon

\* One element is put behind a sequence.
LEMMA Appended ==
  ASSUME NEW S, NEW s \in Seq(S), NEW x \in S
  PROVE  Append(s, x) = s \o <<x>>
OBVIOUS

\* The configuration that was asked for is the one the endpoint has and tells.
LEMMA ConfigurationTold ==
  ASSUME NEW c \in StreamConfigurations, NEW m, m.bytes = <<c.protocol, c.extensions>>
  PROVE  /\ StreamConfiguration(m) = c
         /\ Told(<<"configuration">>, c) =
              <<StreamConfigurationNotification(m.bytes[1] % 4, m.bytes[2] % 4)>>
<1>1. c.protocol % 4 = c.protocol /\ c.extensions % 4 = c.extensions
  BY DEF StreamConfigurations
<1>2. c = [protocol |-> c.protocol, extensions |-> c.extensions]
  BY DEF StreamConfigurations
<1>3. m.bytes[1] = c.protocol /\ m.bytes[2] = c.extensions
  OBVIOUS
<1>4. Told(<<"configuration">>, c) = <<StreamConfigurationNotification(c.protocol, c.extensions)>>
  BY ToldInfo, Zenon
<1> QED BY <1>1, <1>2, <1>3, <1>4, Zenon DEF StreamConfiguration

\* The endpoint answers: what was pending is now told.
LEMMA AnswerKeeps == ASSUME IInv, Answer PROVE IInv'
<1> DEFINE m == Head(requests)
<1>1. Bookkeeping /\ Truthful(truth, had)
  BY Zenon DEF IInv
<1>2. requests # <<>> /\ requests' = Tail(requests) /\ requests \in Seq(Requests)
  BY <1>1 DEF Answer, Bookkeeping
<1>3. /\ UNCHANGED <<known, partial, hurt, torn, asked, asks, losses>>
      /\ announcements' = announcements
  BY DEF Answer, hostVars, counters
<1>4. /\ m \in Requests /\ requests' \in Seq(Requests)
      /\ Pending(requests) \subseteq Pending(requests') \union AskedBy(m)
  BY <1>2, PendingTaken
<1>5. announcements' \in 0..MaxAnnouncements
  BY <1>1, <1>3, Zenon DEF Bookkeeping
<1>6. \A f \in Facts : truth[f] \in ValuesOf(f)
  BY <1>1, Zenon DEF Truthful
<1>7. ASSUME NEW ps, Burst(ps, AskedBy(m), truth), replies' = replies \o ps,
             UNCHANGED <<truth, had>>
      PROVE  IInv'
  <2>1. DOMAIN truth' = Facts /\ DOMAIN had' = Facts
    BY <1>1, <1>7, Zenon DEF Bookkeeping
  <2>2. \A f \in Facts : /\ truth'[f] \in ValuesOf(f) /\ truth'[f] \in had'[f]
                         /\ had[f] \subseteq had'[f]
                         /\ f \notin AskedBy(m) => truth'[f] = truth[f]
    BY <1>1, <1>7, Zenon DEF Truthful
  <2>3. Burst(ps, AskedBy(m), truth')
    BY <1>7, Zenon
  <2> HIDE DEF m
  <2> QED BY <1>3, <1>4, <1>5, <1>7, <2>1, <2>2, <2>3, TellKeeps, Zenon
<1>8. CASE m.status = "endpoint_discovery"
  <2>1. replies' = replies \o EndpointReplies(m.filter) /\ UNCHANGED <<truth, had>>
    BY <1>8 DEF Answer, endpointVars
  <2>2. AskedBy(m) = {<<what>> : what \in m.filter} /\ AskedBy(m) \subseteq EndpointFacts
    BY <1>4, <1>8, RequestCases
  <2> HIDE DEF m
  <2>3. Burst(EndpointReplies(m.filter), AskedBy(m), truth)
    BY <1>6, <2>2, EndpointBurst
  <2> QED BY <1>7, <2>1, <2>3, Zenon
<1>9. CASE m.status = "function_block_discovery"
  <2>1. replies' = replies \o BlockReplies(m) /\ UNCHANGED <<truth, had>>
    BY <1>9 DEF Answer, endpointVars
  <2>2. AskedBy(m) = AskedOfBlocks(m)
    BY <1>4, <1>9, RequestCases
  <2> HIDE DEF m
  <2>3. Burst(BlockReplies(m), AskedBy(m), truth)
    BY <1>6, <2>2, BlockBurst
  <2> QED BY <1>7, <2>1, <2>3, Zenon
<1>10. CASE m.status = "stream_configuration_request"
  <2> DEFINE conf == <<"configuration">>
             p == StreamConfigurationNotification(m.bytes[1] % 4, m.bytes[2] % 4)
  <2>1. Have(conf, StreamConfiguration(m)) /\ replies' = Append(replies, p)
    BY <1>10 DEF Answer
  <2> HIDE DEF m
  <2>2. AskedBy(m) = {conf} /\ \E c \in Configurations : m.bytes = <<c.protocol, c.extensions>>
    BY <1>4, <1>10, RequestCases
  <2>3. PICK c \in StreamConfigurations : m.bytes = <<c.protocol, c.extensions>>
    BY <2>2, DiscoveryAssumption, Zenon
  <2>4. StreamConfiguration(m) = c /\ Told(conf, c) = <<p>>
    BY <2>3, ConfigurationTold, Zenon
  <2>5. conf \in Facts /\ c \in ValuesOf(conf)
    BY ConfigurationFact DEF ValuesOf
  <2> HIDE DEF conf, p
  <2>6. /\ DOMAIN truth' = Facts /\ DOMAIN had' = Facts /\ truth'[conf] = c
        /\ \A g \in Facts : /\ truth'[g] \in ValuesOf(g) /\ truth'[g] \in had'[g]
                            /\ had[g] \subseteq had'[g] /\ (g \notin {conf} => truth'[g] = truth[g])
    BY <2>1, <2>4, <2>5, HaveKeeps, Zenon
  <2>7. Burst(Told(conf, c), {conf}, truth')
    <3>1. truth'[conf] \in ValuesOf(conf)
      BY <2>5, <2>6, Zenon
    <3>2. Burst(Told(conf, truth'[conf]), {conf}, truth')
      BY <2>5, <3>1, BurstTold
    <3> QED BY <2>6, <3>2, Zenon
  <2>8. replies' = replies \o Told(conf, c)
    <3>1. PICK tags \in Seq(Tags) : Matches(replies, tags)
      BY Zenon DEF IInv, Story
    <3>2. replies \in Seq(Sent \union {p}) /\ p \in Sent \union {p}
      <4>1. replies \in Seq(Sent)
        BY <3>1, Zenon DEF Matches
      <4> QED BY <4>1
    <3> QED BY <2>1, <2>4, <3>2, Appended, Zenon
  <2> QED BY <1>3, <1>4, <1>5, <2>2, <2>6, <2>7, <2>8, TellKeeps, Zenon
<1> QED BY <1>4, <1>8, <1>9, <1>10, RequestCases, Zenon

\* The endpoint is given a name: whatever older one is told before it, the new one is
\* told last.
LEMMA AnnounceKeeps == ASSUME IInv, NEW name \in NewNames, Announce(name) PROVE IInv'
<1> DEFINE f == <<"name">>
<1>1. Bookkeeping
  BY Zenon DEF IInv
<1>2. f \in Facts /\ name \in ValuesOf(f)
  BY DiscoveryAssumption DEF Facts, EndpointFacts
<1>3. /\ Have(f, name) /\ replies' = replies \o EndpointName(name)
      /\ announcements < MaxAnnouncements /\ announcements' = announcements + 1
      /\ UNCHANGED <<requests, known, partial, hurt, torn, asked, asks, losses>>
  BY DEF Announce, hostVars
<1>4. EndpointName(name) = Told(f, name)
  BY ToldInfo, Zenon
<1> HIDE DEF f
<1>5. /\ DOMAIN truth' = Facts /\ DOMAIN had' = Facts /\ truth'[f] = name
      /\ \A g \in Facts : /\ truth'[g] \in ValuesOf(g) /\ truth'[g] \in had'[g]
                          /\ had[g] \subseteq had'[g] /\ (g \notin {f} => truth'[g] = truth[g])
  BY <1>2, <1>3, HaveKeeps, Zenon
<1>6. Burst(EndpointName(name), {f}, truth')
  <2>1. truth'[f] \in ValuesOf(f)
    BY <1>2, <1>5, Zenon
  <2>2. Burst(Told(f, truth'[f]), {f}, truth')
    BY <1>2, <2>1, BurstTold
  <2> QED BY <1>4, <1>5, <2>2, Zenon
<1>7. announcements' \in 0..MaxAnnouncements
  BY <1>1, <1>3, DiscoveryAssumption DEF Bookkeeping
<1>8. requests' \in Seq(Requests) /\ Pending(requests) \subseteq Pending(requests') \union {f}
  BY <1>1, <1>3, Zenon DEF Bookkeeping
<1> QED BY <1>3, <1>5, <1>6, <1>7, <1>8, TellKeeps, Zenon

\* What is gathered of the text of t when its packet is heard
LEMMA WholeText ==
  ASSUME NEW t \in Tags, t.fact \in TextFacts, NEW text,
         IF t.number = 1 THEN text = Text(PacketOf(t))
         ELSE \A k \in Nat : k + 1 = t.number =>
                text = Gathered(t.fact, t.value, k) \o Text(PacketOf(t))
  PROVE  /\ text = Gathered(t.fact, t.value, t.number)
         /\ t.number = Count(t) => text = t.value
         /\ \A k \in Nat \ {0} : k + 1 = t.number => Gathered(t.fact, t.value, k) # NoText
<1> DEFINE f == t.fact
           v == t.value
           c == Len(Told(f, v))
<1>1. /\ f \in TextFacts /\ v \in ValuesOf(f) /\ c \in Nat \ {0} /\ t.number \in 1..c
      /\ Count(t) = c /\ PacketOf(t) = Told(f, v)[t.number]
  BY TagParts, TagTells, Zenon DEF Count, PacketOf
<1> HIDE DEF c
<1>2. PICK n \in 1..c : n = t.number
  BY <1>1, Zenon
<1> DEFINE T == Told(f, v)
<1>3. /\ n = 1 => Text(T[n]) = Gathered(f, v, n)
      /\ n # 1 => Gathered(f, v, n - 1) \o Text(T[n]) = Gathered(f, v, n)
      /\ n = c => Gathered(f, v, n) = v
  BY <1>1, TextGathers DEF c
<1>4. n # 1 => n - 1 \in Nat /\ (n - 1) + 1 = n
  BY <1>1
<1>5. n # 1 => text = Gathered(f, v, n - 1) \o Text(T[n])
  BY <1>1, <1>2, <1>4, Zenon
<1>6. n = 1 => text = Text(T[n])
  BY <1>1, <1>2, Zenon
<1>7. ASSUME NEW k \in Nat \ {0}, k + 1 = n PROVE Gathered(f, v, k) # NoText
  <2>1. k \in 1..c
    BY <1>1, <1>7
  <2> QED BY <1>1, <2>1, TextGathers DEF c
<1> QED BY <1>1, <1>2, <1>3, <1>5, <1>6, <1>7, Zenon

\* What hearing the packet of t changes
LEMMA Heard ==
  ASSUME Hear, DOMAIN known = Facts, DOMAIN partial = Facts,
         NEW t \in Tags, Head(replies) = PacketOf(t),
         t.number # 1 /\ t.fact \notin torn =>
           \A k \in Nat : k + 1 = t.number => partial[t.fact] = Gathered(t.fact, t.value, k)
  PROVE  /\ torn' = IF t.number = 1 THEN torn \ {t.fact} ELSE torn
         /\ hurt' = IF t.number = Count(t) THEN hurt \ ({t.fact} \ torn') ELSE hurt
         /\ DOMAIN known' = Facts /\ DOMAIN partial' = Facts
         /\ \A g \in Facts : g # t.fact => known'[g] = known[g] /\ partial'[g] = partial[g]
         /\ known' = known \/ (t.number = Count(t) /\ \E x : known'[t.fact] = <<x>>)
         /\ t.fact \notin torn' /\ t.number = Count(t) => known'[t.fact] = <<t.value>>
         /\ t.fact \notin torn' /\ t.number # Count(t) =>
              partial'[t.fact] = Gathered(t.fact, t.value, t.number)
<1> DEFINE p == Head(replies)
           f == FactOf(p)
           begins == p.format \in {"complete", "start"}
           whole == IF begins THEN Text(p) ELSE partial[f] \o Text(p)
           ends == p.format \in {"complete", "end"}
           goes == p.format \in {"start", "cont"}
<1>1. /\ torn' = IF begins THEN torn \ {f} ELSE torn
      /\ hurt' = IF ends THEN hurt \ ({f} \ torn') ELSE hurt
      /\ \/ ~IsText(p) /\ known' = [known EXCEPT ![f] = <<Reading(p)>>] /\ partial' = partial
         \/ /\ IsText(p) /\ (begins \/ partial[f] # NoText)
            /\ \/ /\ ends
                  /\ known' = [known EXCEPT ![f] = <<whole>>]
                  /\ partial' = [partial EXCEPT ![f] = NoText]
               \/ /\ goes
                  /\ partial' = [partial EXCEPT ![f] = whole]
                  /\ known' = known
         \/ /\ IsText(p) /\ ~begins /\ partial[f] = NoText
            /\ known' = known /\ partial' = partial
  BY Zenon DEF Hear
<1>2. /\ Count(t) \in Nat \ {0} /\ t.number \in 1..Count(t) /\ t.fact \in Facts
      /\ f = t.fact /\ p.format = FormatOf(t.number, Count(t))
      /\ IsText(p) <=> t.fact \in TextFacts
      /\ t.fact \notin TextFacts => Count(t) = 1 /\ Reading(p) = t.value
  BY TagTells, TagParts, Zenon
<1>3. (begins <=> t.number = 1) /\ (ends <=> t.number = Count(t)) /\ (goes <=> t.number # Count(t))
  BY <1>2, Formats
<1> HIDE DEF p, f, begins, ends, goes
<1>4. /\ torn' = IF t.number = 1 THEN torn \ {t.fact} ELSE torn
      /\ hurt' = IF t.number = Count(t) THEN hurt \ ({t.fact} \ torn') ELSE hurt
  BY <1>1, <1>2, <1>3, Zenon
<1>5. CASE t.fact \notin TextFacts
  <2>1. known' = [known EXCEPT ![t.fact] = <<t.value>>] /\ partial' = partial
    BY <1>1, <1>2, <1>5, Zenon
  <2>2. /\ DOMAIN known' = Facts /\ known'[t.fact] = <<t.value>>
        /\ \A g \in Facts : g # t.fact => known'[g] = known[g]
    BY <1>2, <2>1, Changed
  <2>3. t.number = Count(t)
    BY <1>2, <1>5
  <2> QED BY <1>4, <2>1, <2>2, <2>3, Zenon
<1>6. CASE t.fact \in TextFacts
  <2> DEFINE Good == t.fact \notin torn'
  <2>1. Good => (begins \/ partial[f] # NoText) /\ whole = Gathered(t.fact, t.value, t.number)
                /\ (t.number = Count(t) => whole = t.value)
    <3> SUFFICES ASSUME Good
                 PROVE  /\ begins \/ partial[f] # NoText
                        /\ whole = Gathered(t.fact, t.value, t.number)
                        /\ t.number = Count(t) => whole = t.value
      OBVIOUS
    <3>1. CASE t.number = 1
      <4>1. begins /\ whole = Text(PacketOf(t))
        BY <1>3, <3>1, Zenon DEF p
      <4> HIDE DEF whole
      <4>2. IF t.number = 1 THEN whole = Text(PacketOf(t))
            ELSE \A k \in Nat : k + 1 = t.number =>
                   whole = Gathered(t.fact, t.value, k) \o Text(PacketOf(t))
        BY <3>1, <4>1, Zenon
      <4>3. /\ whole = Gathered(t.fact, t.value, t.number)
            /\ t.number = Count(t) => whole = t.value
        BY <1>6, <4>2, WholeText, Zenon
      <4> QED BY <4>1, <4>3, Zenon
    <3>2. CASE t.number # 1
      <4>1. t.fact \notin torn
        BY <1>4, <3>2, Zenon
      <4>2. \A k \in Nat : k + 1 = t.number => partial[f] = Gathered(t.fact, t.value, k)
        BY <1>2, <3>2, <4>1, Zenon
      <4>3. ~begins /\ whole = partial[f] \o Text(PacketOf(t))
        BY <1>3, <3>2, Zenon DEF p
      <4> HIDE DEF whole
      <4>4. IF t.number = 1 THEN whole = Text(PacketOf(t))
            ELSE \A k \in Nat : k + 1 = t.number =>
                   whole = Gathered(t.fact, t.value, k) \o Text(PacketOf(t))
        BY <3>2, <4>2, <4>3, Zenon
      <4>5. /\ whole = Gathered(t.fact, t.value, t.number)
            /\ t.number = Count(t) => whole = t.value
            /\ \A k \in Nat \ {0} : k + 1 = t.number => Gathered(t.fact, t.value, k) # NoText
        BY <1>6, <4>4, WholeText, Zenon
      <4>6. \E k \in Nat \ {0} : k + 1 = t.number
        <5>1. t.number - 1 \in Nat \ {0} /\ (t.number - 1) + 1 = t.number
          BY <1>2, <3>2
        <5> QED BY <5>1, Zenon
      <4>7. partial[f] # NoText
        <5>1. PICK k \in Nat \ {0} : k + 1 = t.number
          BY <4>6
        <5>2. k \in Nat
          OBVIOUS
        <5> QED BY <4>2, <4>5, <5>1, <5>2, Zenon
      <4> QED BY <4>5, <4>7, Zenon
    <3> QED BY <3>1, <3>2
  <2> HIDE DEF whole
  <2>2. CASE /\ begins \/ partial[f] # NoText
             /\ t.number = Count(t)
             /\ known' = [known EXCEPT ![f] = <<whole>>]
             /\ partial' = [partial EXCEPT ![f] = NoText]
    <3>1. /\ DOMAIN known' = Facts /\ known'[t.fact] = <<whole>>
          /\ \A g \in Facts : g # t.fact => known'[g] = known[g]
      BY <1>2, <2>2, Changed
    <3>2. /\ DOMAIN partial' = Facts
          /\ \A g \in Facts : g # t.fact => partial'[g] = partial[g]
      BY <1>2, <2>2, Changed
    <3> QED BY <1>4, <2>1, <2>2, <3>1, <3>2, Zenon
  <2>3. CASE /\ begins \/ partial[f] # NoText
             /\ t.number # Count(t)
             /\ partial' = [partial EXCEPT ![f] = whole]
             /\ known' = known
    <3>1. /\ DOMAIN partial' = Facts /\ partial'[t.fact] = whole
          /\ \A g \in Facts : g # t.fact => partial'[g] = partial[g]
      BY <1>2, <2>3, Changed
    <3>2. DOMAIN known' = Facts /\ \A g : known'[g] = known[g]
      BY <2>3
    <3>3. known' = known
      BY <2>3
    <3>4. t.fact \notin torn' => partial'[t.fact] = Gathered(t.fact, t.value, t.number)
      BY <2>1, <3>1, Zenon
    <3> QED BY <1>4, <2>3, <3>1, <3>2, <3>3, <3>4, Zenon
  <2>4. CASE ~begins /\ partial[f] = NoText /\ known' = known /\ partial' = partial
    <3>1. DOMAIN known' = Facts /\ \A g : known'[g] = known[g]
      BY <2>4
    <3>2. DOMAIN partial' = Facts /\ \A g : partial'[g] = partial[g]
      BY <2>4
    <3>3. t.fact \in torn'
      BY <2>1, <2>4, Zenon
    <3>4. known' = known
      BY <2>4
    <3> QED BY <1>4, <3>1, <3>2, <3>3, <3>4, Zenon
  <2> QED BY <1>1, <1>2, <1>3, <1>6, <2>2, <2>3, <2>4, Zenon
<1> QED BY <1>5, <1>6

\* What is under way when the first of it is taken
LEMMA UnderRest ==
  ASSUME NEW tags \in Seq(Tags), NEW n \in Nat, NEW r \in Seq(Tags), NEW t, t = tags[1],
         Rest(r, tags, n), Chain(tags), Under(tags, truth, had, partial, torn)
  PROVE  /\ \A i \in 1..n : r[i].value \in had[r[i].fact]
         /\ \A i \in 1..n :
              (\A j \in 1..n : r[j].fact = r[i].fact => j <= i) => r[i].value = truth[r[i].fact]
         /\ t.value \in had[t.fact]
         /\ (\A i \in 1..n : r[i].fact # t.fact) =>
              t.value = truth[t.fact] /\ t.number = Count(t)
         /\ n > 0 /\ r[1].number # 1 => t.number # Count(t) /\ r[1] = After(t)
<1>1. /\ Len(tags) = n + 1 /\ Len(r) = n
      /\ \A i \in 1..n : \A j : j = i + 1 => j \in 1..n + 1 /\ r[i] = tags[j]
      /\ \A j \in 1..n + 1 : j = 1 \/ \E i \in 1..n : j = i + 1
  BY Zenon DEF Rest
<1>2. /\ \A i \in 1..n + 1 : tags[i].value \in had[tags[i].fact]
      /\ \A i \in 1..n + 1 :
           (\A j \in 1..n + 1 : tags[j].fact = tags[i].fact => j <= i) =>
             tags[i].value = truth[tags[i].fact]
  BY <1>1, Zenon DEF Under
<1>3. 1 \in 1..n + 1 /\ 1 <= 1
  OBVIOUS
<1>4. \A i \in 1..n : \E j \in 1..n + 1 : j = i + 1 /\ r[i] = tags[j]
  <2>1. \A i \in 1..n : \E j \in 1..n + 1 : j = i + 1
    OBVIOUS
  <2> QED BY <1>1, <2>1, Zenon
<1>5. ASSUME NEW i \in 1..n, \A j \in 1..n : r[j].fact = r[i].fact => j <= i
      PROVE  r[i].value = truth[r[i].fact]
  <2>1. PICK k \in 1..n + 1 : k = i + 1 /\ r[i] = tags[k]
    BY <1>4
  <2>2. ASSUME NEW j \in 1..n + 1, tags[j].fact = tags[k].fact PROVE j <= k
    <3>1. CASE j = 1
      BY <2>1, <3>1
    <3>2. CASE \E l \in 1..n : j = l + 1
      <4>1. PICK l \in 1..n : j = l + 1
        BY <3>2
      <4>2. r[l] = tags[j]
        BY <1>1, <4>1, Zenon
      <4>3. l <= i
        BY <1>5, <2>1, <2>2, <4>2, Zenon
      <4> QED BY <2>1, <4>1, <4>3
    <3> QED BY <1>1, <3>1, <3>2, Zenon
  <2> QED BY <1>2, <2>1, <2>2, Zenon
<1>6. \A i \in 1..n : r[i].value \in had[r[i].fact]
  BY <1>2, <1>4, Zenon
<1>7. t.value \in had[t.fact]
  BY <1>2, <1>3, Zenon
<1>8. /\ t.number = Count(t) => 1 = n + 1 \/ tags[1 + 1].number = 1
      /\ t.number # Count(t) => 1 < n + 1 /\ tags[1 + 1] = After(t)
  BY <1>1, <1>3, Zenon DEF Chain
<1>9. n > 0 => 1 \in 1..n /\ ~(1 = n + 1)
  OBVIOUS
<1>10. 1 < n + 1 => n > 0
  OBVIOUS
<1>11. n > 0 => r[1] = tags[1 + 1]
  BY <1>1, <1>9, Zenon
<1>12. ASSUME \A i \in 1..n : r[i].fact # t.fact
       PROVE  t.value = truth[t.fact] /\ t.number = Count(t)
  <2>1. \A j \in 1..n + 1 : tags[j].fact = t.fact => j <= 1
    <3> SUFFICES ASSUME NEW j \in 1..n + 1, tags[j].fact = t.fact PROVE j <= 1
      OBVIOUS
    <3>1. ~ \E i \in 1..n : j = i + 1
      BY <1>1, <1>12, Zenon
    <3> QED BY <1>1, <1>3, <3>1, Zenon
  <2>2. t.value = truth[t.fact]
    BY <1>2, <1>3, <2>1, Zenon
  <2>3. After(t).fact = t.fact
    BY DEF After
  <2>4. t.number = Count(t)
    BY <1>8, <1>9, <1>10, <1>11, <1>12, <2>3, Zenon
  <2> QED BY <2>2, <2>4, Zenon
<1>13. n > 0 /\ r[1].number # 1 => t.number # Count(t) /\ r[1] = After(t)
  BY <1>8, <1>9, <1>11, Zenon
<1> QED BY <1>5, <1>6, <1>7, <1>12, <1>13, Zenon

\* The host hears a packet: a fact told whole, with no packet lost since its first, is
\* known as it was told; and when it was the last one told, as it is.
LEMMA HearKeeps == ASSUME IInv, Hear PROVE IInv'
<1>1. Bookkeeping /\ Truthful(truth, had) /\ Learned(known, had, hurt)
  BY Zenon DEF IInv
<1>2. PICK tags \in Seq(Tags) :
        Story(tags, replies, truth, had, partial, torn, requests, known, asked, hurt)
  BY Zenon DEF IInv
<1>3. /\ Matches(replies, tags) /\ Chain(tags) /\ Under(tags, truth, had, partial, torn)
      /\ Settled(tags, truth, requests, known, asked, hurt)
  BY <1>2, Zenon DEF Story
<1>4. /\ replies # <<>> /\ replies' = Tail(replies)
      /\ UNCHANGED <<truth, had, requests, asked, asks, announcements, losses>>
  BY DEF Hear, endpointVars, counters
<1>5. PICK n \in Nat, t \in Tags, r \in Seq(Tags) : Taken(n, t, r, tags, replies)
  BY <1>3, <1>4, Shortens
<1>6. /\ Rest(r, tags, n) /\ t = tags[1] /\ Head(replies) = PacketOf(t)
       /\ Matches(Tail(replies), r) /\ Chain(r)
       /\ \A f : f # t.fact /\ (\A i \in 1..n : r[i].fact # f) =>
                   \A i \in 1..n + 1 : tags[i].fact # f
  BY <1>5, Zenon DEF Taken
<1>7. Len(tags) = n + 1 /\ Len(r) = n /\ n + 1 > 0
  <2>1. n + 1 > 0
    OBVIOUS
  <2> QED BY <1>6, <2>1, Zenon DEF Rest
<1>8. /\ \A i \in 1..n : r[i].value \in had[r[i].fact]
      /\ \A i \in 1..n :
           (\A j \in 1..n : r[j].fact = r[i].fact => j <= i) => r[i].value = truth[r[i].fact]
      /\ t.value \in had[t.fact]
      /\ (\A i \in 1..n : r[i].fact # t.fact) =>
           t.value = truth[t.fact] /\ t.number = Count(t)
      /\ n > 0 /\ r[1].number # 1 => t.number # Count(t) /\ r[1] = After(t)
  BY <1>3, <1>6, UnderRest
<1>9. t.number # 1 /\ t.fact \notin torn =>
        \A k \in Nat : k + 1 = t.number => partial[t.fact] = Gathered(t.fact, t.value, k)
  BY <1>3, <1>6, <1>7, Zenon DEF Under
<1>10. /\ DOMAIN known = Facts /\ DOMAIN partial = Facts
      /\ asked \subseteq Facts /\ hurt \subseteq Facts /\ torn \subseteq hurt
  BY <1>1, Zenon DEF Bookkeeping
<1>11. /\ torn' = IF t.number = 1 THEN torn \ {t.fact} ELSE torn
       /\ hurt' = IF t.number = Count(t) THEN hurt \ ({t.fact} \ torn') ELSE hurt
       /\ DOMAIN known' = Facts /\ DOMAIN partial' = Facts
       /\ \A g \in Facts : g # t.fact => known'[g] = known[g] /\ partial'[g] = partial[g]
       /\ known' = known \/ (t.number = Count(t) /\ \E x : known'[t.fact] = <<x>>)
       /\ t.fact \notin torn' /\ t.number = Count(t) => known'[t.fact] = <<t.value>>
       /\ t.fact \notin torn' /\ t.number # Count(t) =>
            partial'[t.fact] = Gathered(t.fact, t.value, t.number)
  BY <1>6, <1>9, <1>10, Heard
<1>12. /\ t.fact \in Facts /\ t.value \in ValuesOf(t.fact) /\ t.number \in Nat \ {0}
       /\ t.fact \notin TextFacts => Count(t) = 1
       /\ t.number \in 1..Count(t)
  BY TagParts, TagTells, Zenon
<1>13. torn' \subseteq hurt' /\ hurt' \subseteq hurt /\ \A f \in hurt : f # t.fact => f \in hurt'
  <2>1. CASE t.number = Count(t)
    BY <1>10, <1>11, <2>1, Zenon
  <2>2. CASE t.number # Count(t)
    BY <1>10, <1>11, <2>2, Zenon
  <2> QED BY <2>1, <2>2
<1>14. Bookkeeping'
  <2>1. hurt' \subseteq Facts
    BY <1>10, <1>13, Zenon
  <2> QED BY <1>1, <1>4, <1>11, <1>13, <2>1, Zenon DEF Bookkeeping
<1>15. Truthful(truth, had)'
  BY <1>1, <1>4, Zenon
<1>16. ASSUME NEW f \in Facts
       PROVE  \/ known'[f] = <<>>
              \/ \E x : /\ known'[f] = <<x>> /\ (f \notin hurt' => x \in had[f])
                        /\ f = <<"configuration">> => x \in StreamConfigurations
  <2>1. CASE f # t.fact \/ (known' = known /\ (f \in hurt => f \in hurt'))
    <3>1. known'[f] = known[f] /\ (f \notin hurt' => f \notin hurt)
      BY <1>11, <1>13, <2>1, Zenon
    <3>2. \/ known[f] = <<>>
          \/ \E x : /\ known[f] = <<x>> /\ (f \notin hurt => x \in had[f])
                    /\ f = <<"configuration">> => x \in StreamConfigurations
      BY <1>1, Zenon DEF Learned
    <3> QED BY <3>1, <3>2, Zenon
  <2>2. CASE f = t.fact /\ t.fact \notin torn' /\ t.number = Count(t)
    <3>1. f = <<"configuration">> => t.value \in StreamConfigurations
      BY <1>12, <2>2 DEF ValuesOf
    <3> QED BY <1>8, <1>11, <2>2, <3>1, Zenon
  <2>3. CASE f = t.fact /\ t.fact \in torn' /\ known' # known
    <3>1. PICK x : known'[f] = <<x>>
      BY <1>11, <2>3, Zenon
    <3>2. f \in hurt'
      BY <1>13, <2>3, Zenon
    <3>3. t.number # 1
      BY <1>11, <2>3, Zenon
    <3>4. f \in TextFacts
      <4>1. Count(t) = 1 => t.number = 1
        BY <1>12
      <4> QED BY <1>12, <2>3, <3>3, <4>1, Zenon
    <3>5. f # <<"configuration">>
      BY <3>4 DEF TextFacts
    <3> QED BY <3>1, <3>2, <3>5, Zenon
  <2>4. t.fact \in torn' /\ t.fact \in hurt => t.fact \in hurt'
    BY <1>13, Zenon
  <2>5. t.number # Count(t) => known' = known /\ hurt' = hurt
    BY <1>11, Zenon
  <2> QED BY <2>1, <2>2, <2>3, <2>4, <2>5, Zenon
<1>17. Learned(known, had, hurt)'
  BY <1>4, <1>16, Zenon DEF Learned
<1>18. ASSUME n > 0, r[1].number # 1, r[1].fact \notin torn', NEW k \in Nat, k + 1 = r[1].number
       PROVE  partial'[r[1].fact] = Gathered(r[1].fact, r[1].value, k)
  <2>1. t.number # Count(t) /\ r[1] = After(t)
    BY <1>8, <1>18, Zenon
  <2>2. r[1].fact = t.fact /\ r[1].value = t.value /\ r[1].number = t.number + 1
    BY <2>1 DEF After
  <2>3. k = t.number
    BY <1>12, <1>18, <2>2
  <2> QED BY <1>11, <1>18, <2>1, <2>2, <2>3, Zenon
<1>19. Under(r, truth', had', partial', torn')
  <2>1. Under(r, truth, had, partial', torn')
    BY <1>7, <1>8, <1>18, Zenon DEF Under
  <2> QED BY <1>4, <2>1, Zenon
<1>20. ASSUME NEW f \in asked \ hurt', f \notin Pending(requests), \A i \in 1..n : r[i].fact # f
       PROVE  known'[f] = <<truth[f]>>
  <2>1. CASE f = t.fact
    <3>1. t.value = truth[f] /\ t.number = Count(t)
      BY <1>8, <1>20, <2>1, Zenon
    <3>2. f \notin torn'
      BY <1>13, <1>20, Zenon
    <3> QED BY <1>11, <2>1, <3>1, <3>2, Zenon
  <2>2. CASE f # t.fact
    <3>1. f \in asked \ hurt /\ f \in Facts
      BY <1>10, <1>13, <1>20, <2>2, Zenon
    <3>2. \A i \in 1..n + 1 : tags[i].fact # f
      BY <1>6, <1>20, <2>2, Zenon
    <3>3. known[f] = <<truth[f]>>
      BY <1>3, <1>7, <1>20, <3>1, <3>2, Zenon DEF Settled
    <3> QED BY <1>11, <2>2, <3>1, <3>3, Zenon
  <2> QED BY <2>1, <2>2
<1>21. Settled(r, truth', requests', known', asked', hurt')
  <2>1. Settled(r, truth, requests, known', asked, hurt')
    BY <1>7, <1>20, Zenon DEF Settled
  <2> QED BY <1>4, <2>1, Zenon
<1>22. Matches(replies', r) /\ Chain(r)
  BY <1>4, <1>6, Zenon
<1>23. Story(r, replies', truth', had', partial', torn', requests', known', asked', hurt')
  BY <1>19, <1>21, <1>22, Zenon DEF Story
<1> QED BY <1>14, <1>15, <1>17, <1>23, Zenon DEF IInv

\* A packet is lost: its fact is hurt and its telling torn, nothing else changes.
LEMMA LoseKeeps == ASSUME IInv, Lose PROVE IInv'
<1>1. Bookkeeping /\ Truthful(truth, had) /\ Learned(known, had, hurt)
  BY Zenon DEF IInv
<1>2. PICK tags \in Seq(Tags) :
        Story(tags, replies, truth, had, partial, torn, requests, known, asked, hurt)
  BY Zenon DEF IInv
<1>3. /\ Matches(replies, tags) /\ Chain(tags) /\ Under(tags, truth, had, partial, torn)
      /\ Settled(tags, truth, requests, known, asked, hurt)
  BY <1>2, Zenon DEF Story
<1>4. /\ replies # <<>> /\ replies' = Tail(replies)
      /\ losses < MaxLosses /\ losses' = losses + 1
      /\ hurt' = hurt \union {FactOf(Head(replies))} /\ torn' = torn \union {FactOf(Head(replies))}
      /\ UNCHANGED <<truth, had, requests, known, partial, asked, asks, announcements>>
  BY DEF Lose, endpointVars
<1>5. PICK n \in Nat, t \in Tags, r \in Seq(Tags) : Taken(n, t, r, tags, replies)
  BY <1>3, <1>4, Shortens
<1>6. /\ Rest(r, tags, n) /\ t = tags[1] /\ Head(replies) = PacketOf(t)
       /\ Matches(Tail(replies), r) /\ Chain(r)
       /\ \A f : f # t.fact /\ (\A i \in 1..n : r[i].fact # f) =>
                   \A i \in 1..n + 1 : tags[i].fact # f
  BY <1>5, Zenon DEF Taken
<1>7. Len(tags) = n + 1 /\ Len(r) = n
  BY <1>6, Zenon DEF Rest
<1>8. /\ \A i \in 1..n : r[i].value \in had[r[i].fact]
      /\ \A i \in 1..n :
           (\A j \in 1..n : r[j].fact = r[i].fact => j <= i) => r[i].value = truth[r[i].fact]
      /\ n > 0 /\ r[1].number # 1 => r[1] = After(t)
  BY <1>3, <1>6, UnderRest
<1>9. FactOf(Head(replies)) = t.fact /\ t.fact \in Facts
  BY <1>6, TagTells, TagParts, Zenon
<1>10. hurt' = hurt \union {t.fact} /\ torn' = torn \union {t.fact}
  BY <1>4, <1>9, Zenon
<1>11. Bookkeeping'
  <2>1. losses' \in 0..MaxLosses
    BY <1>1, <1>4, DiscoveryAssumption DEF Bookkeeping
  <2>2. hurt' \subseteq Facts /\ torn' \subseteq hurt'
    BY <1>1, <1>9, <1>10, Zenon DEF Bookkeeping
  <2> QED BY <1>1, <1>4, <2>1, <2>2, Zenon DEF Bookkeeping
<1>12. Truthful(truth, had)'
  BY <1>1, <1>4, Zenon
<1>13. \A f : f \notin hurt' => f \notin hurt
  BY <1>10, Zenon
<1>14. Learned(known, had, hurt)'
  <2>1. Learned(known, had, hurt')
    BY <1>1, <1>13, Zenon DEF Learned
  <2> QED BY <1>4, <2>1, Zenon
<1>15. n > 0 /\ r[1].number # 1 => r[1].fact \in torn'
  <2>1. After(t).fact = t.fact
    BY DEF After
  <2> QED BY <1>8, <1>10, <2>1, Zenon
<1>16. Under(r, truth', had', partial', torn')
  <2>1. Under(r, truth, had, partial, torn')
    BY <1>7, <1>8, <1>15, Zenon DEF Under
  <2> QED BY <1>4, <2>1, Zenon
<1>17. ASSUME NEW f \in asked \ hurt', f \notin Pending(requests), \A i \in 1..n : r[i].fact # f
       PROVE  known[f] = <<truth[f]>>
  <2>1. f # t.fact /\ f \in asked \ hurt
    BY <1>10, <1>17, Zenon
  <2>2. \A i \in 1..n + 1 : tags[i].fact # f
    BY <1>6, <1>17, <2>1, Zenon
  <2> QED BY <1>3, <1>7, <1>17, <2>1, <2>2, Zenon DEF Settled
<1>18. Settled(r, truth', requests', known', asked', hurt')
  <2>1. Settled(r, truth, requests, known, asked, hurt')
    BY <1>7, <1>17, Zenon DEF Settled
  <2> QED BY <1>4, <2>1, Zenon
<1>19. Matches(replies', r) /\ Chain(r)
  BY <1>4, <1>6, Zenon
<1>20. Story(r, replies', truth', had', partial', torn', requests', known', asked', hurt')
  BY <1>16, <1>18, <1>19, Zenon DEF Story
<1> QED BY <1>11, <1>12, <1>14, <1>20, Zenon DEF IInv

\* The three actions of the host that ask
LEMMA AskStepKeeps ==
  ASSUME IInv,
         \/ \E filter \in EndpointFilters : AskEndpoint(filter)
         \/ \E filter \in BlockFilters, block \in 0..NumBlocks - 1 \union {AllBlocks} :
              AskBlocks(block, filter)
         \/ \E c \in Configurations : AskConfiguration(c)
  PROVE  IInv'
<1>1. ASSUME NEW filter \in EndpointFilters, AskEndpoint(filter) PROVE IInv'
  <2> DEFINE m == EndpointDiscoveryMessage(filter)
             facts == {<<what>> : what \in filter}
  <2>1. Ask(facts) /\ requests' = Append(requests, m)
    BY <1>1, Zenon DEF AskEndpoint
  <2>2. m \in Requests
    BY DEF Requests
  <2>3. facts \subseteq EndpointFacts
    BY DiscoveryAssumption, Zenon
  <2>4. m.status = "endpoint_discovery" /\ m.filter = filter
    BY Zenon DEF EndpointDiscoveryMessage
  <2>5. AskedBy(m) = facts
    BY <2>4 DEF AskedBy
  <2>6. facts \in SUBSET Facts
    BY <2>3, Zenon DEF Facts
  <2> HIDE DEF m, facts
  <2> QED BY <2>1, <2>2, <2>5, <2>6, AskKeeps, Zenon
<1>2. ASSUME NEW filter \in BlockFilters, NEW block \in 0..NumBlocks - 1 \union {AllBlocks},
             AskBlocks(block, filter)
      PROVE  IInv'
  <2> DEFINE m == FunctionBlockDiscovery(block, filter)
             facts == {f \in BlockFacts : f[1] \in filter /\ block \in {AllBlocks, f[2]}}
  <2>1. Ask(facts) /\ requests' = Append(requests, m)
    BY <1>2, Zenon DEF AskBlocks
  <2>2. m \in Requests
    BY DEF Requests
  <2>3. m.status = "function_block_discovery" /\ m.block = block /\ m.filter = filter
    BY DEF FunctionBlockDiscovery
  <2>4. AskedBy(m) = facts
    <3>1. AskedBy(m) = AskedOfBlocks(m)
      BY <2>3 DEF AskedBy
    <3> HIDE DEF m
    <3>2. AskedOfBlocks(m) = facts
      BY <2>3, Zenon DEF AskedOfBlocks
    <3> QED BY <3>1, <3>2
  <2>5. facts \in SUBSET Facts
    BY Zenon DEF Facts
  <2> HIDE DEF m, facts
  <2> QED BY <2>1, <2>2, <2>4, <2>5, AskKeeps, Zenon
<1>3. ASSUME NEW c \in Configurations, AskConfiguration(c) PROVE IInv'
  <2> DEFINE m == StreamConfigurationRequest(c.protocol, c.extensions)
             facts == {<<"configuration">>}
  <2>1. Ask(facts) /\ requests' = Append(requests, m)
    BY <1>3, Zenon DEF AskConfiguration
  <2>2. m \in Requests
    BY DEF Requests
  <2>3. m.status = "stream_configuration_request"
    BY Zenon DEF StreamConfigurationRequest, Complete, Packet
  <2>4. AskedBy(m) = facts
    BY <2>3 DEF AskedBy
  <2>5. facts \in SUBSET Facts
    BY ConfigurationFact, Zenon
  <2> HIDE DEF m, facts
  <2> QED BY <2>1, <2>2, <2>4, <2>5, AskKeeps, Zenon
<1> QED BY <1>1, <1>2, <1>3, Zenon

\* Every step keeps the invariant.
LEMMA NextKeeps == IInv /\ [Next]_vars => IInv'
<1> SUFFICES ASSUME IInv, [Next]_vars PROVE IInv'
  OBVIOUS
<1>1. CASE \/ \E filter \in EndpointFilters : AskEndpoint(filter)
           \/ \E filter \in BlockFilters, block \in 0..NumBlocks - 1 \union {AllBlocks} :
                AskBlocks(block, filter)
           \/ \E c \in Configurations : AskConfiguration(c)
  BY <1>1, AskStepKeeps, Zenon
<1>2. CASE Answer
  BY <1>2, AnswerKeeps, Zenon
<1>3. CASE \E name \in NewNames : Announce(name)
  BY <1>3, AnnounceKeeps, Zenon
<1>4. CASE Hear
  BY <1>4, HearKeeps, Zenon
<1>5. CASE Lose
  BY <1>5, LoseKeeps, Zenon
<1>6. CASE UNCHANGED vars
  <2>1. UNCHANGED <<truth, had, requests, replies, known, partial, asked, hurt, torn,
                    asks, announcements, losses>>
    BY <1>6 DEF vars, endpointVars, hostVars, counters
  <2>2. Bookkeeping'
    BY <2>1, Zenon DEF IInv, Bookkeeping
  <2>3. Truthful(truth, had)' /\ Learned(known, had, hurt)'
    BY <2>1, Zenon DEF IInv
  <2>4. \E tags \in Seq(Tags) :
          Story(tags, replies, truth, had, partial, torn, requests, known, asked, hurt)'
    BY <2>1, Zenon DEF IInv
  <2> QED BY <2>2, <2>3, <2>4, Zenon DEF IInv
<1> QED BY <1>1, <1>2, <1>3, <1>4, <1>5, <1>6, Zenon DEF Next

\* The invariant holds in every state.
THEOREM Invariant == Spec => []IInv
<1> QED BY InitKeeps, NextKeeps, PTL DEF Spec

\* The invariant implies the type invariant.
LEMMA IInvTypeOK == IInv => TypeOK
<1> SUFFICES ASSUME IInv PROVE TypeOK
  OBVIOUS
<1>1. Bookkeeping /\ Truthful(truth, had) /\ Learned(known, had, hurt)
  BY Zenon DEF IInv
<1>2. \A f \in Facts : known[f] = <<>> \/ \E x : known[f] = <<x>>
  BY <1>1, Zenon DEF Learned
<1>3. ASSUME NEW f \in Facts PROVE Len(known[f]) <= 1
  <2>1. Len(<<>>) <= 1 /\ \A x : Len(<<x>>) <= 1
    OBVIOUS
  <2> QED BY <1>2, <2>1, Zenon
<1>4. truth[<<"configuration">>] \in StreamConfigurations
  <2>1. truth[<<"configuration">>] \in ValuesOf(<<"configuration">>)
    BY <1>1, ConfigurationFact, Zenon DEF Truthful
  <2> QED BY <2>1 DEF ValuesOf
<1>5. ASSUME NEW c \in Range(known[<<"configuration">>]) PROVE c \in StreamConfigurations
  <2>1. known[<<"configuration">>] # <<>>
    BY <1>5 DEF Range
  <2>2. PICK x : known[<<"configuration">>] = <<x>> /\ x \in StreamConfigurations
    BY <1>1, <2>1, ConfigurationFact, Zenon DEF Learned
  <2>3. c = x
    BY <1>5, <2>2 DEF Range
  <2> QED BY <2>2, <2>3
<1>6. \A i \in DOMAIN replies : FactOf(replies[i]) \in Facts
  <2>1. PICK tags \in Seq(Tags) : Matches(replies, tags)
    BY Zenon DEF IInv, Story
  <2>2. replies \in Seq(Sent)
    BY <2>1, Zenon DEF Matches
  <2>3. \A i \in DOMAIN replies : replies[i] \in Sent
    BY <2>2
  <2>4. \A p \in Sent : FactOf(p) \in Facts
    BY TagTells, TagParts, Zenon DEF Sent
  <2> QED BY <2>3, <2>4, Zenon
<1>7. /\ asked \subseteq Facts /\ torn \subseteq hurt /\ hurt \subseteq Facts
      /\ asks \in 0..MaxAsks /\ announcements \in 0..MaxAnnouncements /\ losses \in 0..MaxLosses
  BY <1>1, Zenon DEF Bookkeeping
<1> QED BY <1>3, <1>4, <1>5, <1>6, <1>7, Zenon DEF TypeOK

-----------------------------------------------------------------------------
(* The theorems. *)

\* The state is well formed: the host has one value of a fact at most, every reply
\* under way is about a fact the endpoint has, and the configurations are ones that
\* the library's two-bit fields hold.
THEOREM TypeCorrect == Spec => []TypeOK
BY Invariant, IInvTypeOK, PTL

\* What the host knows was true.  Texts of any length that come in packets between
\* those of others come back together, and a lost packet hurts only its own text,
\* until that is told whole again.
THEOREM KnownTrue == Spec => []KnownIsTrue
<1>1. IInv => KnownIsTrue
  <2> SUFFICES ASSUME IInv, NEW f \in Facts \ hurt, NEW v \in Range(known[f])
               PROVE  v \in had[f]
    BY DEF KnownIsTrue
  <2>1. Learned(known, had, hurt)
    BY Zenon DEF IInv
  <2>2. known[f] # <<>>
    BY DEF Range
  <2>3. PICK x : known[f] = <<x>> /\ x \in had[f]
    BY <2>1, <2>2, Zenon DEF Learned
  <2>4. v = x
    BY <2>3 DEF Range
  <2> QED BY <2>3, <2>4
<1> QED BY <1>1, Invariant, PTL

\* With no request and no reply under way, host and endpoint agree on every fact the
\* host asked for and no lost packet hurt.
THEOREM AgreedWhenQuiet == Spec => []QuietMeansAgreed
<1>1. IInv => QuietMeansAgreed
  <2> SUFFICES ASSUME IInv, requests = <<>>, replies = <<>>, NEW f \in asked \ hurt
               PROVE  known[f] = <<truth[f]>>
    BY Zenon DEF QuietMeansAgreed
  <2>1. PICK tags \in Seq(Tags) :
          Matches(replies, tags) /\ Settled(tags, truth, requests, known, asked, hurt)
    BY Zenon DEF IInv, Story
  <2>2. Len(<<>>) = 0 /\ \A i \in 1..0 : FALSE
    OBVIOUS
  <2>3. Len(tags) = 0
    BY <2>1, <2>2, Zenon DEF Matches
  <2>4. f \notin Pending(requests)
    BY <2>2, Zenon DEF Pending
  <2> QED BY <2>1, <2>2, <2>3, <2>4, Zenon DEF Settled
<1> QED BY <1>1, Invariant, PTL

=============================================================================
