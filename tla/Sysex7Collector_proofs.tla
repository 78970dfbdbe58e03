----------------------- MODULE Sysex7Collector_proofs -----------------------
(***************************************************************************)
(* Proofs about Sysex7Collector, for every set of bytes, packet size,      *)
(* capacity and set of limits.                                             *)
(***************************************************************************)
EXTENDS Sysex7Collector, SequenceTheorems, WellFoundedInduction, TLAPS

\* The sender, whose packets a collector is fed with
Sender == INSTANCE SysexSender

-----------------------------------------------------------------------------
(* Sequences that are cut in two and joined again. *)

\* Both parts of a sequence cut at k are sequences of the same elements.
LEMMA CutType ==
  ASSUME NEW s \in Seq(Byte), NEW k \in 0..Len(s)
  PROVE  /\ SubSeq(s, 1, k) \in Seq(Byte)
         /\ Len(SubSeq(s, 1, k)) = k
         /\ SubSeq(s, k + 1, Len(s)) \in Seq(Byte)
         /\ Len(SubSeq(s, k + 1, Len(s))) = Len(s) - k
<1>1. Len(s) \in Nat /\ \A i \in 1..Len(s) : s[i] \in Byte
  BY LenProperties, ElementOfSeq
<1>2. \A i \in 1..k : s[i] \in Byte
  BY <1>1
<1>3. \A i \in k+1..Len(s) : s[i] \in Byte
  BY <1>1
<1>4. /\ SubSeq(s, 1, k) \in Seq(Byte)
      /\ Len(SubSeq(s, 1, k)) = IF 1 <= k THEN k - 1 + 1 ELSE 0
  BY <1>1, <1>2, SubSeqProperties
<1>5. /\ SubSeq(s, k + 1, Len(s)) \in Seq(Byte)
      /\ Len(SubSeq(s, k + 1, Len(s)))
           = IF k + 1 <= Len(s) THEN Len(s) - (k + 1) + 1 ELSE 0
  BY <1>1, <1>3, SubSeqProperties
<1> QED BY <1>1, <1>4, <1>5

\* The two parts of a cut sequence make the sequence.
LEMMA CutJoin ==
  ASSUME NEW s \in Seq(Byte), NEW k \in 0..Len(s)
  PROVE  SubSeq(s, 1, k) \o SubSeq(s, k + 1, Len(s)) = s
<1>1. Len(s) \in Nat /\ 1 \in 1..Len(s) + 1 /\ k \in 1 - 1..Len(s) /\ Len(s) \in k..Len(s)
  BY LenProperties
<1>2. SubSeq(s, 1, k) \o SubSeq(s, k + 1, Len(s)) = SubSeq(s, 1, Len(s))
  BY <1>1, ConcatAdjacentSubSeq
<1> QED BY <1>2, SubSeqFull

\* Concatenation of byte sequences is associative.
LEMMA ByteConcatAssociative ==
  \A x, y, z \in Seq(Byte) : (x \o y) \o z = x \o (y \o z)
BY ConcatAssociative

\* Four sequences may be regrouped around an empty second one ...
LEMMA RegroupSecond ==
  \A w, x, y, z \in Seq(Byte) :
    Len(x) = 0 => (w \o y) \o (x \o z) = (w \o x) \o (y \o z)
<1> SUFFICES ASSUME NEW w \in Seq(Byte), NEW x \in Seq(Byte),
                    NEW y \in Seq(Byte), NEW z \in Seq(Byte), Len(x) = 0
             PROVE  (w \o y) \o (x \o z) = (w \o x) \o (y \o z)
  OBVIOUS
<1>1. (w \o y) \o z = w \o (y \o z)
  BY ByteConcatAssociative
<1>2. x = <<>>
  BY EmptySeq
<1> QED BY <1>1, <1>2, ConcatEmptySeq

\* ... and around an empty third one.
LEMMA RegroupThird ==
  \A w, x, y, z \in Seq(Byte) :
    Len(y) = 0 => (w \o y) \o (x \o z) = (w \o x) \o (y \o z)
<1> SUFFICES ASSUME NEW w \in Seq(Byte), NEW x \in Seq(Byte),
                    NEW y \in Seq(Byte), NEW z \in Seq(Byte), Len(y) = 0
             PROVE  (w \o y) \o (x \o z) = (w \o x) \o (y \o z)
  OBVIOUS
<1>1. (w \o x) \o z = w \o (x \o z)
  BY ByteConcatAssociative
<1>2. y = <<>>
  BY EmptySeq
<1> QED BY <1>1, <1>2, ConcatEmptySeq

\* A cut through a concatenation that leaves one of its parts whole.
LEMMA CutConcat ==
  ASSUME NEW b \in Seq(Byte), NEW s \in Seq(Byte),
         NEW i \in 0..Len(b), NEW k \in 0..Len(s), k = 0 \/ i = Len(b)
  PROVE  /\ SubSeq(b, 1, i) \o SubSeq(s, 1, k) = SubSeq(b \o s, 1, i + k)
         /\ SubSeq(b, i + 1, Len(b)) \o SubSeq(s, k + 1, Len(s))
              = SubSeq(b \o s, i + k + 1, Len(b \o s))
<1> DEFINE c == b \o s
           left  == SubSeq(b, 1, i) \o SubSeq(s, 1, k)
           right == SubSeq(b, i + 1, Len(b)) \o SubSeq(s, k + 1, Len(s))
<1>1. /\ Len(b) \in Nat /\ Len(s) \in Nat
      /\ \A j \in 1..Len(b) : b[j] \in Byte
      /\ \A j \in 1..Len(s) : s[j] \in Byte
  BY LenProperties, ElementOfSeq
<1>2. /\ c \in Seq(Byte)
      /\ Len(c) = Len(b) + Len(s)
      /\ \A j \in 1..Len(b) + Len(s) : c[j] = IF j <= Len(b) THEN b[j] ELSE s[j - Len(b)]
  BY ConcatProperties
<1>3. i + k \in 0..Len(c)
  BY <1>1, <1>2
<1>4. /\ SubSeq(c, 1, i + k) \in Seq(Byte)
      /\ Len(SubSeq(c, 1, i + k)) = i + k
      /\ SubSeq(c, i + k + 1, Len(c)) \in Seq(Byte)
      /\ Len(SubSeq(c, i + k + 1, Len(c))) = Len(c) - (i + k)
  BY <1>2, <1>3, CutType
<1>5. /\ SubSeq(b, 1, i) \in Seq(Byte) /\ Len(SubSeq(b, 1, i)) = i
      /\ SubSeq(b, i + 1, Len(b)) \in Seq(Byte)
      /\ Len(SubSeq(b, i + 1, Len(b))) = Len(b) - i
      /\ SubSeq(s, 1, k) \in Seq(Byte) /\ Len(SubSeq(s, 1, k)) = k
      /\ SubSeq(s, k + 1, Len(s)) \in Seq(Byte)
      /\ Len(SubSeq(s, k + 1, Len(s))) = Len(s) - k
  BY CutType
<1>6. /\ \A j \in 1..i : SubSeq(b, 1, i)[j] = b[j]
      /\ \A j \in 1..k : SubSeq(s, 1, k)[j] = s[j]
      /\ \A j \in 1..i + k : SubSeq(c, 1, i + k)[j] = c[j]
  <2>1. \A j \in 1..Len(c) : c[j] \in Byte
    BY <1>2, ElementOfSeq
  <2>2. \A j \in 1..i : SubSeq(b, 1, i)[j] = b[j]
    BY <1>1, SubSeqProperties
  <2>3. \A j \in 1..k : SubSeq(s, 1, k)[j] = s[j]
    BY <1>1, SubSeqProperties
  <2>4. \A j \in 1..i + k : SubSeq(c, 1, i + k)[j] = c[j]
    BY <1>2, <1>3, <2>1, SubSeqProperties
  <2> QED BY <2>2, <2>3, <2>4
<1>7. left = SubSeq(c, 1, i + k)
  <2>1. /\ left \in Seq(Byte) /\ Len(left) = i + k
        /\ \A j \in 1..i + k : left[j] =
             IF j <= i THEN SubSeq(b, 1, i)[j] ELSE SubSeq(s, 1, k)[j - i]
    BY <1>5, ConcatProperties
  <2>2. \A j \in 1..i + k : left[j] = SubSeq(c, 1, i + k)[j]
    <3> SUFFICES ASSUME NEW j \in 1..i + k PROVE left[j] = c[j]
      BY <1>6
    <3>1. CASE j <= i
      BY <1>1, <1>2, <1>6, <2>1, <3>1
    <3>2. CASE j > i
      <4>1. j - i \in 1..k /\ i = Len(b)
        BY <1>1, <3>2
      <4>2. left[j] = s[j - i]
        <5>1. left[j] = SubSeq(s, 1, k)[j - i]
          BY <1>1, <2>1, <3>2
        <5>2. SubSeq(s, 1, k)[j - i] = s[j - i]
          BY <1>6, <4>1
        <5> QED BY <5>1, <5>2
      <4>3. c[j] = s[j - Len(b)]
        BY <1>1, <1>2, <3>2, <4>1
      <4> QED BY <4>1, <4>2, <4>3
    <3> QED BY <1>1, <3>1, <3>2, SMTT(30)
  <2> HIDE DEF left, c
  <2> QED BY <1>4, <2>1, <2>2, SeqEqual
<1>8. left \o right = c
  <2>1. \E b1, b2, s1, s2 \in Seq(Byte) :
          /\ b1 = SubSeq(b, 1, i) /\ b2 = SubSeq(b, i + 1, Len(b))
          /\ s1 = SubSeq(s, 1, k) /\ s2 = SubSeq(s, k + 1, Len(s))
    BY <1>5
  <2>2. PICK b1, b2, s1, s2 \in Seq(Byte) :
          /\ b1 = SubSeq(b, 1, i) /\ b2 = SubSeq(b, i + 1, Len(b))
          /\ s1 = SubSeq(s, 1, k) /\ s2 = SubSeq(s, k + 1, Len(s))
    BY <2>1
  <2>3. Len(b2) = 0 \/ Len(s1) = 0
    <3>1. Len(b2) = Len(b) - i /\ Len(s1) = k
      BY <1>5, <2>2
    <3> QED BY <1>1, <3>1
  <2>4. (b1 \o s1) \o (b2 \o s2) = (b1 \o b2) \o (s1 \o s2)
    <3>1. CASE Len(b2) = 0
      BY <3>1, RegroupSecond, SMTT(30)
    <3>2. CASE Len(s1) = 0
      BY <3>2, RegroupThird, SMTT(30)
    <3> QED BY <2>3, <3>1, <3>2
  <2>5. b1 \o b2 = b /\ s1 \o s2 = s
    BY <2>2, CutJoin
  <2> QED BY <2>2, <2>4, <2>5
<1>9. right = SubSeq(c, i + k + 1, Len(c))
  <2>1. SubSeq(c, 1, i + k) \o SubSeq(c, i + k + 1, Len(c)) = c
    <3> HIDE DEF c
    <3> QED BY <1>2, <1>3, CutJoin
  <2>2. left \in Seq(Byte) /\ right \in Seq(Byte)
    BY <1>5, ConcatProperties
  <2> HIDE DEF left, right, c
  <2> QED BY <1>4, <1>7, <1>8, <2>1, <2>2, ConcatSimplifications
<1> QED BY <1>7, <1>9

-----------------------------------------------------------------------------
(* The loop over the data bytes. *)

\* A set of numbers that is not empty has a smallest one: what holds of 0, and of
\* every number after one of which it holds, has no smallest counterexample.
LEMMA Least ==
  ASSUME NEW T \in SUBSET Nat, T # {}
  PROVE  \E x \in T : \A y \in T : x <= y
<1> DEFINE R == OpToRel(<, Nat)
<1>1. IsWellFoundedOn(R, Nat)
  BY NatLessThanWellFounded, Zenon
<1>2. \A a, b \in Nat : ~(<<a, b>> \in R) => ~(a < b)
  BY ZenonT(30) DEF OpToRel
<1> HIDE DEF R
<1>3. PICK x \in T : \A y \in T : ~(<<y, x>> \in R)
  BY <1>1, WFMin
<1>4. \A y \in T : ~(y < x)
   BY <1>2, <1>3, Zenon
<1> QED BY <1>3, <1>4

Begun(m, id) == [sent |-> <<>>, packet |-> Sender!First(m, id), left |-> Len(m.data)]

\* The loop begins with the first packet and goes on byte by byte.
LEMMA Loop ==
  ASSUME NEW m, NEW id, Len(m.data) \in Nat
  PROVE  /\ Sender!Filling(m, id)[0] = Begun(m, id)
         /\ \A n \in 1..Len(m.data) :
              Sender!Filling(m, id)[n] = Sender!AddByte(Sender!Filling(m, id)[n - 1], m.data[n])
<1> DEFINE Rec(f, n) == f = [k \in 0..n |->
             IF k = 0 THEN [sent |-> <<>>, packet |-> Sender!First(m, id), left |-> Len(m.data)]
                      ELSE Sender!AddByte(f[k - 1], m.data[k])]
<1>1. \E f : Rec(f, Len(m.data))
  <2> DEFINE T == {n \in Nat : ~ \E f : Rec(f, n)}
  <2>1. SUFFICES ASSUME T # {} PROVE FALSE
    OBVIOUS
  <2>2. T \in SUBSET Nat
    OBVIOUS
  <2> HIDE DEF T
  <2>3. PICK n \in T : \A y \in T : n <= y
    BY <2>1, <2>2, Least
  <2>4. n \in Nat /\ ~ \E f : Rec(f, n)
    BY <2>3 DEF T
  <2>5. n # 0
    <3> DEFINE g == [k \in 0..0 |-> Begun(m, id)]
    <3>1. Rec(g, 0)
      BY DEF Begun
    <3> QED BY <2>4, <3>1
  <2>6. n - 1 \in Nat /\ n - 1 \notin T
    BY <2>2, <2>3, <2>4, <2>5
  <2>7. PICK f : Rec(f, n - 1)
    BY <2>6 DEF T
  <2> DEFINE g == [k \in 0..n |-> IF k = n THEN Sender!AddByte(f[n - 1], m.data[n]) ELSE f[k]]
  <2>8. Rec(g, n)
    BY <2>4, <2>5, <2>7, SMTT(30)
  <2> QED BY <2>4, <2>8
<1>2. Sender!Filling(m, id) = CHOOSE f : Rec(f, Len(m.data))
  BY DEF Sender!Filling
<1>3. Rec(Sender!Filling(m, id), Len(m.data))
  BY <1>1, <1>2
<1> DEFINE F == Sender!Filling(m, id)
<1> HIDE DEF F
<1>4. \A k \in 0..Len(m.data) : F[k] = IF k = 0 THEN Begun(m, id) ELSE Sender!AddByte(F[k - 1], m.data[k])
  <2>1. F = [k \in 0..Len(m.data) |->
               IF k = 0 THEN Begun(m, id) ELSE Sender!AddByte(F[k - 1], m.data[k])]
    BY <1>3, Zenon DEF Begun, F
  <2> QED BY <2>1, Zenon
<1>5. 0 \in 0..Len(m.data) /\ \A n \in 1..Len(m.data) : n \in 0..Len(m.data) /\ n # 0
  OBVIOUS
<1> QED BY <1>4, <1>5, Zenon DEF F

-----------------------------------------------------------------------------
(* The packets. *)

PacketsOf == [status : {"complete", "start", "continue", "end"}, payload : Seq(Byte)]

\* The format of the k-th packet of a message of L bytes
StatusOf(k, L) ==
  IF k = 1 THEN (IF L <= MaxPayload THEN "complete" ELSE "start")
           ELSE (IF L <= k * MaxPayload THEN "end" ELSE "continue")

\* Where the loop is after n data bytes of a message that consists of `bytes`: full
\* packets went out, and the one being filled has the bytes behind them.
Progress(s, n, id, bytes) ==
  LET q == Len(s.sent)
  IN  /\ s \in [sent : Seq(PacketsOf), packet : PacketsOf, left : Int]
      /\ s.left = Len(bytes) - (Len(id) + n)
      /\ q * MaxPayload + Len(s.packet.payload) = Len(id) + n
      /\ Len(s.packet.payload) < MaxPayload
      /\ s.packet.payload = SubSeq(bytes, q * MaxPayload + 1, Len(id) + n)
      /\ s.packet.status = StatusOf(q + 1, Len(bytes))
      /\ \A k \in 1..q :
           /\ s.sent[k].payload = SubSeq(bytes, (k - 1) * MaxPayload + 1, k * MaxPayload)
           /\ s.sent[k].status = StatusOf(k, Len(bytes))

\* A part of a sequence and the element behind it
LEMMA PartAndNext ==
  ASSUME NEW b \in Seq(Byte), NEW i \in 1..Len(b), NEW j \in i - 1..Len(b) - 1
  PROVE  /\ Append(SubSeq(b, i, j), b[j + 1]) = SubSeq(b, i, j + 1)
         /\ SubSeq(b, i, j + 1) \in Seq(Byte)
         /\ Len(SubSeq(b, i, j + 1)) = Len(SubSeq(b, i, j)) + 1
<1>1. /\ Len(b) \in Nat /\ i \in Nat /\ i >= 1 /\ j \in Nat /\ i <= j + 1 /\ j + 1 <= Len(b)
      /\ \A k \in 1..Len(b) : b[k] \in Byte
  BY LenProperties, ElementOfSeq
<1>2. /\ SubSeq(b, i, j) \in Seq(Byte) /\ Len(SubSeq(b, i, j)) = j + 1 - i
      /\ \A k \in 1..j - i + 1 : SubSeq(b, i, j)[k] = b[i + k - 1]
  <2>1. \A k \in i..j : b[k] \in Byte
    BY <1>1
  <2>2. i \in Int /\ j \in Int
    BY <1>1
  <2>3. Len(SubSeq(b, i, j)) = IF i <= j THEN j - i + 1 ELSE 0
    BY <2>1, <2>2, SubSeqProperties
  <2> QED BY <1>1, <2>1, <2>2, <2>3, SubSeqProperties
<1>3. /\ SubSeq(b, i, j + 1) \in Seq(Byte) /\ Len(SubSeq(b, i, j + 1)) = j + 2 - i
      /\ \A k \in 1..j + 1 - i + 1 : SubSeq(b, i, j + 1)[k] = b[i + k - 1]
  <2>1. \A k \in i..j + 1 : b[k] \in Byte
    BY <1>1
  <2>2. i \in Int /\ j + 1 \in Int
    BY <1>1
  <2>3. Len(SubSeq(b, i, j + 1)) = IF i <= j + 1 THEN j + 1 - i + 1 ELSE 0
    BY <2>1, <2>2, SubSeqProperties
  <2> QED BY <1>1, <2>1, <2>2, <2>3, SubSeqProperties
<1> DEFINE s == SubSeq(b, i, j)
           t == SubSeq(b, i, j + 1)
<1>4. b[j + 1] \in Byte
  BY <1>1
<1>5. /\ Append(s, b[j + 1]) \in Seq(Byte)
      /\ Len(Append(s, b[j + 1])) = Len(s) + 1
      /\ \A k \in 1..Len(s) : Append(s, b[j + 1])[k] = s[k]
      /\ Append(s, b[j + 1])[Len(s) + 1] = b[j + 1]
  BY <1>2, <1>4, AppendProperties
<1> HIDE DEF s, t
<1>6. Len(s) = j + 1 - i /\ Len(t) = j + 2 - i /\ s \in Seq(Byte) /\ t \in Seq(Byte)
  BY <1>2, <1>3 DEF s, t
<1>7. \A k \in 1..Len(t) : Append(s, b[j + 1])[k] = t[k]
  <2> SUFFICES ASSUME NEW k \in 1..Len(t) PROVE Append(s, b[j + 1])[k] = t[k]
    OBVIOUS
  <2>1. CASE k <= Len(s)
    <3>1. s[k] = b[i + k - 1] /\ t[k] = b[i + k - 1]
      BY <1>1, <1>2, <1>3, <1>6, <2>1 DEF s, t
    <3> QED BY <1>1, <1>5, <1>6, <2>1, <3>1
  <2>2. CASE k = Len(s) + 1
    <3>1. t[k] = b[i + k - 1] /\ i + k - 1 = j + 1
      BY <1>1, <1>3, <1>6, <2>2 DEF t
    <3> QED BY <1>5, <2>2, <3>1
  <2> QED BY <1>1, <1>6, <2>1, <2>2
<1>8. Append(s, b[j + 1]) = t
  <2>1. Len(Append(s, b[j + 1])) = Len(t)
    BY <1>1, <1>5, <1>6
  <2>2. \A k \in 1..Len(Append(s, b[j + 1])) : Append(s, b[j + 1])[k] = t[k]
    BY <1>7, <2>1
  <2> QED BY <1>5, <1>6, <2>1, <2>2, SeqEqual
<1>9. Len(t) = Len(s) + 1
  BY <1>1, <1>6
<1> QED BY <1>6, <1>8, <1>9 DEF s, t

\* What the loop needs to know of a message: `id` goes out in front of its data,
\* does not fill a packet, and total_data_size tells whether one packet is enough.
Sendable(m, id) ==
  /\ MaxPayload \in Nat
  /\ id \in Seq(Byte) /\ 0 < Len(id) /\ Len(id) < MaxPayload
  /\ m.data \in Seq(Byte)
  /\ Sender!TotalDataSize(m) <= MaxPayload <=> Len(id) + Len(m.data) <= MaxPayload

\* Before the first data byte
LEMMA ProgressAtFirst ==
  ASSUME NEW m, NEW id, Sendable(m, id)
  PROVE  Progress(Begun(m, id), 0, id, id \o m.data)
<1> DEFINE bytes == id \o m.data
           s == Begun(m, id)
<1>1. /\ Len(id) \in Nat /\ Len(m.data) \in Nat /\ Len(bytes) = Len(id) + Len(m.data)
      /\ Len(bytes) \in Nat /\ bytes \in Seq(Byte) /\ id \in Seq(Byte) /\ MaxPayload \in Nat /\ 0 < Len(id)
      /\ Len(id) < MaxPayload
  BY LenProperties, ConcatProperties DEF Sendable
<1>2. s = [sent |-> <<>>, packet |-> Sender!First(m, id), left |-> Len(m.data)]
  BY DEF Begun
<1>3. Sender!First(m, id) \in PacketsOf /\ Sender!First(m, id).payload = id
  BY <1>1 DEF Sender!First, PacketsOf
<1>4. id = SubSeq(bytes, 1, Len(id))
  <2>1. SubSeq(bytes, 1, Len(id)) = SubSeq(id, 1, Len(id))
    BY <1>1, SubSeqOfConcat1 DEF Sendable
  <2> QED BY <1>1, <2>1, SubSeqFull
<1>5. Sender!First(m, id).status = StatusOf(1, Len(bytes))
  BY <1>1 DEF Sender!First, StatusOf, Sendable
<1> HIDE DEF s, bytes
<1>6. PICK I, D, L \in Nat : I = Len(id) /\ D = Len(m.data) /\ L = Len(bytes)
  BY <1>1, Zenon
<1>7. /\ s \in [sent : Seq(PacketsOf), packet : PacketsOf, left : Int]
      /\ s.sent = <<>> /\ s.packet = Sender!First(m, id) /\ s.left = D
  <2>1. Len(m.data) \in Int /\ <<>> \in Seq(PacketsOf)
    BY <1>1, EmptySeq
  <2> QED BY <1>2, <1>3, <1>6, <2>1
<1>8. Len(s.sent) = 0
  BY <1>7, EmptySeq
<1>9. L = I + D
  BY <1>1, <1>6, Zenon
<1>10. /\ D = L - (I + 0) /\ 0 * MaxPayload + I = I + 0 /\ 0 * MaxPayload + 1 = 1
       /\ I + 0 = I /\ 0 + 1 = 1
  BY <1>1, <1>9
<1>11. \A k \in 1..0 :
         /\ s.sent[k].payload = SubSeq(bytes, (k - 1) * MaxPayload + 1, k * MaxPayload)
         /\ s.sent[k].status = StatusOf(k, Len(bytes))
  OBVIOUS
<1>12. Progress(s, 0, id, bytes)
  <2>1. /\ s.left = Len(bytes) - (Len(id) + 0)
        /\ Len(s.sent) * MaxPayload + Len(s.packet.payload) = Len(id) + 0
        /\ Len(s.packet.payload) < MaxPayload
    BY <1>1, <1>3, <1>6, <1>7, <1>8, <1>10, Zenon
  <2>2. /\ s.packet.payload = SubSeq(bytes, Len(s.sent) * MaxPayload + 1, Len(id) + 0)
        /\ s.packet.status = StatusOf(Len(s.sent) + 1, Len(bytes))
    BY <1>3, <1>4, <1>5, <1>6, <1>7, <1>8, <1>10, Zenon
  <2> QED BY <1>7, <1>8, <1>11, <2>1, <2>2, Zenon DEF Progress
<1> QED BY <1>12 DEF s, bytes

\* A data byte further
LEMMA ProgressOn ==
  ASSUME NEW m, NEW id, Sendable(m, id), NEW n \in 1..Len(m.data), NEW s,
         Progress(s, n - 1, id, id \o m.data)
  PROVE  Progress(Sender!AddByte(s, m.data[n]), n, id, id \o m.data)
<1> DEFINE bytes == id \o m.data
           full == [s.packet EXCEPT !.payload = Append(@, m.data[n])]
           t == Sender!AddByte(s, m.data[n])
<1>1. /\ Len(id) \in Nat /\ Len(m.data) \in Nat /\ Len(bytes) = Len(id) + Len(m.data)
      /\ Len(bytes) \in Nat /\ bytes \in Seq(Byte) /\ MaxPayload \in Nat /\ 0 < Len(id)
  BY LenProperties, ConcatProperties DEF Sendable
<1>2. /\ s \in [sent : Seq(PacketsOf), packet : PacketsOf, left : Int]
      /\ s.left = Len(bytes) - (Len(id) + (n - 1))
      /\ Len(s.sent) * MaxPayload + Len(s.packet.payload) = Len(id) + (n - 1)
      /\ Len(s.packet.payload) < MaxPayload
      /\ s.packet.payload = SubSeq(bytes, Len(s.sent) * MaxPayload + 1, Len(id) + (n - 1))
      /\ s.packet.status = StatusOf(Len(s.sent) + 1, Len(bytes))
      /\ \A k \in 1..Len(s.sent) :
           /\ s.sent[k].payload = SubSeq(bytes, (k - 1) * MaxPayload + 1, k * MaxPayload)
           /\ s.sent[k].status = StatusOf(k, Len(bytes))
  BY Zenon DEF Progress
<1>3. bytes[Len(id) + n] = m.data[n]
  BY <1>1, ConcatProperties DEF Sendable
<1> HIDE DEF bytes, full, t
<1>4. /\ s.packet \in PacketsOf /\ s.packet.payload \in Seq(Byte) /\ s.sent \in Seq(PacketsOf)
      /\ Len(s.packet.payload) \in Nat /\ Len(s.sent) \in Nat
  BY <1>2, LenProperties DEF PacketsOf
<1>5. PICK I, D, L, q, c \in Nat : /\ I = Len(id) /\ D = Len(m.data) /\ L = Len(bytes)
                                   /\ q = Len(s.sent) /\ c = Len(s.packet.payload)
  BY <1>1, <1>4, Zenon
<1>6. n \in Nat /\ 1 <= n /\ n <= D
  BY <1>5
<1>7. L = I + D /\ 0 < I /\ q * MaxPayload + c = I + (n - 1) /\ c < MaxPayload
      /\ s.left = L - (I + (n - 1))
  BY <1>1, <1>2, <1>5, Zenon
<1>8. PICK o \in Nat : o = q * MaxPayload
  BY <1>1
<1>9. /\ full \in PacketsOf /\ full.status = s.packet.status
      /\ full.payload = SubSeq(bytes, o + 1, I + n)
      /\ Len(full.payload) = c + 1
  <2>1. PICK i, j \in Nat : i = o + 1 /\ j = I + (n - 1)
    <3>1. o + 1 \in Nat /\ I + (n - 1) \in Nat
      BY <1>6
    <3> QED BY <3>1, Zenon
  <2>2. i \in 1..L /\ j \in i - 1..L - 1 /\ j + 1 = I + n
    BY <1>1, <1>6, <1>7, <1>8, <2>1
  <2>3. i \in 1..Len(bytes) /\ j \in i - 1..Len(bytes) - 1
    BY <1>5, <2>2, Zenon
  <2>4. /\ Append(SubSeq(bytes, i, j), bytes[j + 1]) = SubSeq(bytes, i, j + 1)
        /\ SubSeq(bytes, i, j + 1) \in Seq(Byte)
        /\ Len(SubSeq(bytes, i, j + 1)) = Len(SubSeq(bytes, i, j)) + 1
    BY <1>1, <2>3, PartAndNext
  <2>5. s.packet.payload = SubSeq(bytes, i, j)
    BY <1>2, <1>5, <1>8, <2>1, Zenon
  <2>6. bytes[j + 1] = m.data[n]
    BY <1>3, <1>5, <2>2, Zenon
  <2>7. full = [s.packet EXCEPT !.payload = SubSeq(bytes, i, j + 1)]
    BY <2>4, <2>5, <2>6 DEF full
  <2>8. full \in PacketsOf /\ full.status = s.packet.status /\ full.payload = SubSeq(bytes, i, j + 1)
    BY <1>4, <2>4, <2>7 DEF PacketsOf
  <2> QED BY <1>5, <2>1, <2>2, <2>4, <2>5, <2>8, Zenon
<1>10. CASE c + 1 # MaxPayload
  <2>1. t = [s EXCEPT !.packet = full, !.left = s.left - 1]
    BY <1>9, <1>10, Zenon DEF t, Sender!AddByte, full
  <2>2. s.left - 1 = L - (I + n) /\ s.left - 1 \in Int /\ c + 1 < MaxPayload
        /\ q * MaxPayload + (c + 1) = I + n
    BY <1>1, <1>6, <1>7, <1>8, <1>10
  <2>3. /\ t \in [sent : Seq(PacketsOf), packet : PacketsOf, left : Int]
        /\ t.sent = s.sent /\ t.packet = full /\ t.left = s.left - 1
    <3>1. s.left - 1 \in Int /\ full \in PacketsOf
      BY <1>9, <2>2
    <3> HIDE DEF PacketsOf
    <3> QED BY <1>2, <2>1, <3>1
  <2>4. Progress(t, n, id, bytes)
    <3>1. t.left = Len(bytes) - (Len(id) + n)
          /\ Len(t.sent) * MaxPayload + Len(t.packet.payload) = Len(id) + n
          /\ Len(t.packet.payload) < MaxPayload
      BY <1>5, <1>9, <2>2, <2>3, Zenon
    <3>2. t.packet.payload = SubSeq(bytes, Len(t.sent) * MaxPayload + 1, Len(id) + n)
      BY <1>5, <1>8, <1>9, <2>3, Zenon
    <3>3. /\ t.packet.status = StatusOf(Len(t.sent) + 1, Len(bytes))
          /\ \A k \in 1..Len(t.sent) :
               /\ t.sent[k].payload = SubSeq(bytes, (k - 1) * MaxPayload + 1, k * MaxPayload)
               /\ t.sent[k].status = StatusOf(k, Len(bytes))
      BY <1>2, <1>9, <2>3, Zenon
    <3> QED BY <2>3, <3>1, <3>2, <3>3, Zenon DEF Progress
  <2> QED BY <2>4 DEF t, bytes
<1>11. CASE c + 1 = MaxPayload
  <2> DEFINE fresh == [status  |-> IF s.left - 1 <= MaxPayload THEN "end" ELSE "continue",
                       payload |-> <<>>]
  <2>1. t = [sent |-> Append(s.sent, full), left |-> s.left - 1, packet |-> fresh]
    BY <1>9, <1>11, Zenon DEF t, Sender!AddByte, full
  <2>2. fresh \in PacketsOf /\ fresh.payload = <<>>
    BY EmptySeq DEF PacketsOf
  <2>3. /\ Append(s.sent, full) \in Seq(PacketsOf)
        /\ Len(Append(s.sent, full)) = q + 1
        /\ \A k \in 1..q : Append(s.sent, full)[k] = s.sent[k]
        /\ Append(s.sent, full)[q + 1] = full
    <3>1. /\ Append(s.sent, full) \in Seq(PacketsOf)
          /\ Len(Append(s.sent, full)) = Len(s.sent) + 1
          /\ \A k \in 1..Len(s.sent) : Append(s.sent, full)[k] = s.sent[k]
          /\ Append(s.sent, full)[Len(s.sent) + 1] = full
      BY <1>4, <1>9, AppendProperties
    <3> QED BY <1>5, <3>1, Zenon
  <2>4. /\ (q + 1) * MaxPayload = I + n /\ (q + 2) * MaxPayload = (I + n) + MaxPayload
        /\ (q + 1) - 1 = q /\ (q + 1) + 1 = q + 2 /\ q + 2 # 1
        /\ s.left - 1 = L - (I + n) /\ s.left - 1 \in Int
    <3>1. (q + 1) * MaxPayload = o + MaxPayload /\ (q + 2) * MaxPayload = o + MaxPayload + MaxPayload
      BY <1>1, <1>8
    <3> QED BY <1>1, <1>6, <1>7, <1>8, <1>11, <3>1
  <2>5. fresh.status = StatusOf(q + 2, L)
    <3>1. fresh.status = IF s.left - 1 <= MaxPayload THEN "end" ELSE "continue"
      OBVIOUS
    <3>2. s.left - 1 <= MaxPayload <=> L <= (I + n) + MaxPayload
      BY <1>1, <1>6, <2>4
    <3> HIDE DEF fresh
    <3> QED BY <2>4, <3>1, <3>2, Zenon DEF StatusOf
  <2> HIDE DEF fresh
  <2>6. /\ t \in [sent : Seq(PacketsOf), packet : PacketsOf, left : Int]
        /\ t.sent = Append(s.sent, full) /\ t.packet = fresh /\ t.left = s.left - 1
    BY <2>1, <2>2, <2>3, <2>4
  <2>7. \A k \in 1..q + 1 :
           /\ t.sent[k].payload = SubSeq(bytes, (k - 1) * MaxPayload + 1, k * MaxPayload)
           /\ t.sent[k].status = StatusOf(k, L)
    <3>1. /\ t.sent[q + 1].payload = SubSeq(bytes, ((q + 1) - 1) * MaxPayload + 1, (q + 1) * MaxPayload)
          /\ t.sent[q + 1].status = StatusOf(q + 1, L)
      BY <1>2, <1>5, <1>8, <1>9, <2>3, <2>4, <2>6, Zenon
    <3>2. ASSUME NEW k \in 1..q + 1, k # q + 1
          PROVE  k \in 1..q
      BY <3>2
    <3>3. ASSUME NEW k \in 1..q
          PROVE  /\ t.sent[k].payload = SubSeq(bytes, (k - 1) * MaxPayload + 1, k * MaxPayload)
                 /\ t.sent[k].status = StatusOf(k, L)
      BY <1>2, <1>5, <2>3, <2>6, Zenon
    <3> QED BY <3>1, <3>2, <3>3, Zenon
  <2>8. SubSeq(bytes, (q + 1) * MaxPayload + 1, I + n) = <<>>
    <3>1. PICK i \in Nat : i = I + n
      BY <1>6
    <3>2. SubSeq(bytes, i + 1, i) = <<>>
      BY <3>1, SubSeqEmpty
    <3> QED BY <2>4, <3>1, <3>2, Zenon
  <2>9. Len(<<>>) = 0
    BY EmptySeq
  <2>10. (I + n) + 0 = I + n /\ 0 < MaxPayload
    BY <1>1, <1>6, <1>7
  <2>11. Progress(t, n, id, bytes)
    <3>1. /\ Len(t.sent) = q + 1 /\ Len(t.packet.payload) = 0 /\ t.packet.payload = <<>>
      BY <2>2, <2>3, <2>6, <2>9, Zenon
    <3>2. t.left = Len(bytes) - (Len(id) + n)
          /\ Len(t.sent) * MaxPayload + Len(t.packet.payload) = Len(id) + n
          /\ Len(t.packet.payload) < MaxPayload
      BY <1>5, <2>4, <2>6, <2>10, <3>1, Zenon
    <3>3. t.packet.payload = SubSeq(bytes, Len(t.sent) * MaxPayload + 1, Len(id) + n)
      BY <1>5, <2>8, <3>1, Zenon
    <3>4. /\ t.packet.status = StatusOf(Len(t.sent) + 1, Len(bytes))
          /\ \A k \in 1..Len(t.sent) :
               /\ t.sent[k].payload = SubSeq(bytes, (k - 1) * MaxPayload + 1, k * MaxPayload)
               /\ t.sent[k].status = StatusOf(k, Len(bytes))
      BY <1>5, <2>4, <2>5, <2>6, <2>7, <3>1, Zenon
    <3> QED BY <2>6, <3>2, <3>3, <3>4, Zenon DEF Progress
  <2> QED BY <2>11 DEF t, bytes
<1> QED BY <1>10, <1>11

\* After any number of data bytes
LEMMA ProgressThroughout ==
  ASSUME NEW m, NEW id, Sendable(m, id), NEW n \in 0..Len(m.data)
  PROVE  Progress(Sender!Filling(m, id)[n], n, id, id \o m.data)
<1> DEFINE T == {k \in Nat : k <= Len(m.data) /\ ~Progress(Sender!Filling(m, id)[k], k, id, id \o m.data)}
<1>1. Len(m.data) \in Nat
  BY LenProperties DEF Sendable
<1>2. T = {}
  <2> SUFFICES ASSUME T # {} PROVE FALSE
    OBVIOUS
  <2>1. T \in SUBSET Nat
    OBVIOUS
  <2> HIDE DEF T
  <2>2. PICK k \in T : \A y \in T : k <= y
    BY <2>1, Least
  <2>3. k \in 0..Len(m.data) /\ ~Progress(Sender!Filling(m, id)[k], k, id, id \o m.data)
    BY <1>1, <2>2 DEF T
  <2>4. k # 0
    BY <1>1, <2>3, Loop, ProgressAtFirst
  <2>5. k \in 1..Len(m.data) /\ k - 1 \in Nat /\ ~(k <= k - 1) /\ k - 1 <= Len(m.data)
    BY <1>1, <2>3, <2>4
  <2>6. Progress(Sender!Filling(m, id)[k - 1], k - 1, id, id \o m.data)
    BY <2>2, <2>5 DEF T
  <2>7. Sender!Filling(m, id)[k] = Sender!AddByte(Sender!Filling(m, id)[k - 1], m.data[k])
    BY <1>1, <2>5, Loop
  <2> QED BY <2>3, <2>5, <2>6, <2>7, ProgressOn
<1> QED BY <1>1, <1>2

\* The k-th of n packets
Format(k, n) ==
  CASE n = 1 -> "complete"
    [] n # 1 /\ k = 1 -> "start"
    [] n # 1 /\ k # 1 /\ k = n -> "end"
    [] n # 1 /\ k # 1 /\ k # n -> "continue"

\* A message is sent as its bytes, in packets of which all but the last are full,
\* and the formats tell the first and the last one (send_sysex7, send_sysex8).
THEOREM CutIntoPackets ==
  ASSUME NEW m, NEW id, Sendable(m, id)
  PROVE  LET packets == Sender!Sent(m, id)
             bytes   == id \o m.data
             n       == Len(packets)
         IN  /\ packets \in Seq(PacketsOf)
             /\ n \in Nat /\ n > 0
             /\ (n - 1) * MaxPayload < Len(bytes) /\ Len(bytes) <= n * MaxPayload
             /\ \A k \in 1..n :
                  /\ packets[k].status = Format(k, n)
                  /\ packets[k].payload = SubSeq(bytes, (k - 1) * MaxPayload + 1,
                                            IF k = n THEN Len(bytes) ELSE k * MaxPayload)
<1> DEFINE packets == Sender!Sent(m, id)
           bytes == id \o m.data
           N == Len(packets)
           L == Len(bytes)
           s == Sender!Filling(m, id)[Len(m.data)]
           q == Len(s.sent)
<1>1. /\ Len(id) \in Nat /\ Len(m.data) \in Nat /\ L = Len(id) + Len(m.data) /\ L \in Nat
      /\ bytes \in Seq(Byte) /\ MaxPayload \in Nat /\ MaxPayload > 0 /\ L > 0
  BY LenProperties, ConcatProperties DEF Sendable
<1>2. Progress(s, Len(m.data), id, bytes)
  BY <1>1, ProgressThroughout
<1>3. packets = IF s.packet.payload = <<>> THEN s.sent ELSE Append(s.sent, s.packet)
  BY DEF Sender!Sent
<1> HIDE DEF packets, bytes, N, L, s, q
<1>4. /\ q \in Nat /\ s.sent \in Seq(PacketsOf) /\ s.packet \in PacketsOf
      /\ q * MaxPayload + Len(s.packet.payload) = L
      /\ Len(s.packet.payload) < MaxPayload
      /\ s.packet.payload = SubSeq(bytes, q * MaxPayload + 1, L)
      /\ s.packet.status = StatusOf(q + 1, L)
      /\ \A k \in 1..q :
           /\ s.sent[k].payload = SubSeq(bytes, (k - 1) * MaxPayload + 1, k * MaxPayload)
           /\ s.sent[k].status = StatusOf(k, L)
  BY <1>1, <1>2, LenProperties DEF Progress, q, L
<1>5. s.packet.payload \in Seq(Byte)
  BY <1>4 DEF PacketsOf
<1>6. PICK c \in Nat : c = Len(s.packet.payload)
  BY <1>5, LenProperties
<1>7. q * MaxPayload + c = L /\ c < MaxPayload
  BY <1>4, <1>6, Zenon
<1>8. /\ packets \in Seq(PacketsOf) /\ N \in Nat /\ N > 0
      /\ (N - 1) * MaxPayload < L /\ L <= N * MaxPayload
      /\ \A k \in 1..N :
           /\ packets[k].status = StatusOf(k, L)
           /\ packets[k].payload = SubSeq(bytes, (k - 1) * MaxPayload + 1,
                                          IF k = N THEN L ELSE k * MaxPayload)
  <2>1. CASE s.packet.payload = <<>>
    <3>1. packets = s.sent /\ N = q
      BY <1>3, <2>1 DEF N, q
    <3>2. q * MaxPayload = L
      <4>1. c = 0
        BY <1>6, <2>1, EmptySeq
      <4> QED BY <1>1, <1>4, <1>7, <4>1
    <3>3. q > 0 /\ (q - 1) * MaxPayload < L /\ L <= q * MaxPayload
      <4>1. (q - 1) * MaxPayload = L - MaxPayload
        BY <1>1, <1>4, <3>2
      <4>2. q # 0
        BY <1>1, <3>2
      <4> QED BY <1>1, <1>4, <3>2, <4>1, <4>2
    <3>4. \A k \in 1..q :
           /\ packets[k].status = StatusOf(k, L)
           /\ packets[k].payload = SubSeq(bytes, (k - 1) * MaxPayload + 1,
                                          IF k = q THEN L ELSE k * MaxPayload)
      BY <1>4, <3>1, <3>2, Zenon
    <3> QED BY <1>4, <3>1, <3>3, <3>4
  <2>2. CASE s.packet.payload # <<>>
    <3>1. packets = Append(s.sent, s.packet)
      BY <1>3, <2>2
    <3>2. /\ packets \in Seq(PacketsOf) /\ N = q + 1
          /\ \A k \in 1..q : packets[k] = s.sent[k]
          /\ packets[q + 1] = s.packet
      BY <1>4, <3>1, AppendProperties DEF N, q
    <3>3. c > 0
      <4>1. c # 0
        BY <1>5, <1>6, <2>2, EmptySeq
      <4> QED BY <4>1
    <3>4. (N - 1) * MaxPayload < L /\ L <= N * MaxPayload
      <4>1. PICK o \in Nat : o = q * MaxPayload
        BY <1>1, <1>4
      <4>2. (q + 1) * MaxPayload = o + MaxPayload /\ (q + 1) - 1 = q
        <5>1. \A x, y \in Nat : (x + 1) * y = x * y + y /\ (x + 1) - 1 = x
          OBVIOUS
        <5> QED BY <1>1, <1>4, <4>1, <5>1, Zenon
      <4>3. (N - 1) * MaxPayload = o /\ N * MaxPayload = o + MaxPayload
        BY <3>2, <4>1, <4>2, Zenon
      <4>4. o + c = L
        BY <1>7, <4>1, Zenon
      <4>5. o < L /\ L <= o + MaxPayload
        BY <1>1, <1>7, <3>3, <4>4
      <4> QED BY <4>3, <4>5
    <3>5. \A k \in 1..N : k # N => k \in 1..q
      BY <1>4, <3>2
    <3>6. /\ packets[N].status = StatusOf(N, L)
          /\ packets[N].payload = SubSeq(bytes, (N - 1) * MaxPayload + 1, L)
      BY <1>4, <3>2
    <3>7. \A k \in 1..N : k # N =>
           /\ packets[k].status = StatusOf(k, L)
           /\ packets[k].payload = SubSeq(bytes, (k - 1) * MaxPayload + 1, k * MaxPayload)
      BY <1>4, <3>2, <3>5
    <3> QED BY <1>4, <3>2, <3>4, <3>6, <3>7
  <2> QED BY <2>1, <2>2
<1>9. ASSUME NEW k \in 1..N PROVE StatusOf(k, L) = Format(k, N)
  <2>1. N = 1 => k = 1 /\ L <= MaxPayload
    BY <1>1, <1>8
  <2>2. N # 1 => L > MaxPayload
    <3> SUFFICES ASSUME N # 1 PROVE L > MaxPayload
      OBVIOUS
    <3>1. PICK j \in Nat : N = j + 2
      <4>1. N - 2 \in Nat /\ N = (N - 2) + 2
        BY <1>8
      <4> QED BY <4>1
    <3>2. (N - 1) * MaxPayload = j * MaxPayload + MaxPayload /\ j * MaxPayload >= 0
      BY <1>1, <3>1
    <3> QED BY <1>1, <1>8, <3>2, SMTT(30)
  <2>3. k # N => L > k * MaxPayload
    <3> SUFFICES ASSUME k # N PROVE L > k * MaxPayload
      OBVIOUS
    <3>1. PICK j \in Nat : N - 1 = k + j
      <4>1. (N - 1) - k \in Nat /\ N - 1 = k + ((N - 1) - k)
        BY <1>8
      <4> QED BY <4>1
    <3>2. (N - 1) * MaxPayload = k * MaxPayload + j * MaxPayload /\ j * MaxPayload >= 0
      BY <1>1, <1>8, <3>1
    <3>3. k * MaxPayload \in Nat /\ j * MaxPayload \in Nat
      BY <1>1, <1>8, <3>1
    <3> QED BY <1>1, <1>8, <3>2, <3>3
  <2>4. k = N => L <= k * MaxPayload
    BY <1>8
  <2>5. ~(L > MaxPayload) => L <= MaxPayload
    BY <1>1
  <2>6. L > k * MaxPayload => ~(L <= k * MaxPayload)
    BY <1>1, <1>8
  <2>7. L > MaxPayload => ~(L <= MaxPayload)
    BY <1>1
  <2> QED BY <2>1, <2>2, <2>3, <2>4, <2>6, <2>7 DEF StatusOf, Format
<1> QED BY <1>8, <1>9 DEF packets, bytes, N, L

\* What the packets before the k-th one carry
Carried(m, id, k) ==
  SubSeq(id \o m.data, 1, IF k > Len(Sender!Sent(m, id)) THEN Len(id \o m.data)
                                                        ELSE (k - 1) * MaxPayload)

\* Packet by packet a message grows from nothing to all of its bytes.
LEMMA PacketsCarry ==
  ASSUME NEW m, NEW id, Sendable(m, id)
  PROVE  LET packets == Sender!Sent(m, id)
             bytes   == id \o m.data
             n       == Len(packets)
         IN  /\ bytes \in Seq(Byte) /\ Len(bytes) \in Nat /\ Len(bytes) > 0
             /\ packets \in Seq(PacketsOf)
             /\ n \in Nat /\ n > 0
             /\ Carried(m, id, 1) = <<>>
             /\ Carried(m, id, n + 1) = bytes
             /\ \A k \in 1..n :
                  /\ packets[k].status = Format(k, n)
                  /\ packets[k].payload \in Payloads
                  /\ Carried(m, id, k) \in Seq(Byte)
                  /\ Carried(m, id, k + 1) \in Seq(Byte)
                  /\ Carried(m, id, k) \o packets[k].payload = Carried(m, id, k + 1)
                  /\ Len(Carried(m, id, k + 1)) <= Len(bytes)
<1> DEFINE P == Sender!Sent(m, id)
           N == Len(P)
           b == id \o m.data
           L == Len(b)
           To(k) == IF k = N THEN L ELSE k * MaxPayload
<1>1. /\ b \in Seq(Byte) /\ L \in Nat /\ L > 0
      /\ MaxPayload \in Nat /\ MaxPayload > 0
  <2>1. /\ Len(id) \in Nat /\ Len(m.data) \in Nat /\ Len(id) > 0 /\ MaxPayload \in Nat
        /\ Len(id) < MaxPayload
    BY LenProperties DEF Sendable
  <2>2. b \in Seq(Byte) /\ L = Len(id) + Len(m.data)
    BY ConcatProperties DEF Sendable
  <2> QED BY <2>1, <2>2
<1>3. /\ P \in Seq(PacketsOf) /\ N \in Nat /\ N > 0
      /\ (N - 1) * MaxPayload < L /\ L <= N * MaxPayload
      /\ \A k \in 1..N : /\ P[k].status = Format(k, N)
                        /\ P[k].payload = SubSeq(b, (k - 1) * MaxPayload + 1, To(k))
  BY CutIntoPackets
<1>6. \A k : Carried(m, id, k) = SubSeq(b, 1, IF k > N THEN L ELSE (k - 1) * MaxPayload)
  BY DEF Carried
<1> HIDE DEF P, N, b, L
<1>7. Carried(m, id, 1) = <<>>
  <2>1. ~(1 > N) /\ (1 - 1) * MaxPayload = 0
    BY <1>1, <1>3
  <2> QED BY <1>6, <2>1, SubSeqEmpty
<1>8. Carried(m, id, N + 1) = b
  <2>1. N + 1 > N
    BY <1>3
  <2> QED BY <1>1, <1>6, <2>1, SubSeqFull DEF L
<1>9. ASSUME NEW k \in 1..N
      PROVE  /\ P[k].payload \in Payloads
             /\ Carried(m, id, k) \in Seq(Byte)
             /\ Carried(m, id, k + 1) \in Seq(Byte)
             /\ Carried(m, id, k) \o P[k].payload = Carried(m, id, k + 1)
             /\ Len(Carried(m, id, k + 1)) <= L
  <2> DEFINE f == (k - 1) * MaxPayload
             t == To(k)
  <2>1. k \in Nat /\ k > 0 /\ f \in Nat
    BY <1>1, <1>3
  <2>2. f < L /\ t \in f + 1..L /\ t <= f + MaxPayload
    <3>1. k * MaxPayload = f + MaxPayload
      BY <1>1, <2>1
    <3>2. CASE k = N
      BY <1>1, <1>3, <2>1, <3>1, <3>2
    <3>3. CASE k # N
      <4>1. PICK j \in Nat : N - 1 = k + j
        <5>1. (N - 1) - k \in Nat /\ N - 1 = k + ((N - 1) - k)
          BY <1>3, <2>1, <3>3
        <5> QED BY <5>1
      <4>2. (N - 1) * MaxPayload = k * MaxPayload + j * MaxPayload /\ j * MaxPayload \in Nat
        BY <1>1, <1>3, <2>1, <4>1
      <4>3. k * MaxPayload < L
        <5>1. PICK x, y, z \in Nat :
                x = (N - 1) * MaxPayload /\ y = k * MaxPayload /\ z = j * MaxPayload
          BY <1>1, <1>3, <2>1, <4>2
        <5>2. x = y + z /\ x < L
          BY <1>3, <4>2, <5>1
        <5>3. y < L
          BY <1>1, <5>2
        <5> QED BY <5>1, <5>3
      <4> QED BY <1>1, <2>1, <3>1, <3>3, <4>3
    <3> QED BY <3>2, <3>3
  <2>3. Carried(m, id, k) = SubSeq(b, 1, f)
    <3>1. ~(k > N)
      BY <1>3
    <3> QED BY <1>6, <3>1
  <2>4. Carried(m, id, k + 1) = SubSeq(b, 1, t)
    <3>1. CASE k = N
      <4>1. k + 1 > N
        BY <1>3, <3>1
      <4> QED BY <1>6, <3>1, <4>1
    <3>2. CASE k # N
      <4>1. ~(k + 1 > N) /\ (k + 1) - 1 = k
        BY <1>3, <3>2
      <4> QED BY <1>6, <3>2, <4>1
    <3> QED BY <3>1, <3>2
  <2>5. P[k].payload = SubSeq(b, f + 1, t)
    BY <1>3
  <2> HIDE DEF f, t, To
  <2>7. \A i \in 1..L : b[i] \in Byte
    BY <1>1, ElementOfSeq DEF L
  <2>8. SubSeq(b, f + 1, t) \in Seq(Byte) /\ Len(SubSeq(b, f + 1, t)) = t - f
    <3>1. f + 1 \in Int /\ t \in Int /\ \A i \in f + 1..t : b[i] \in Byte
      BY <1>1, <2>1, <2>2, <2>7
    <3>2. /\ SubSeq(b, f + 1, t) \in Seq(Byte)
          /\ Len(SubSeq(b, f + 1, t)) = IF f + 1 <= t THEN t - (f + 1) + 1 ELSE 0
      BY <3>1, SubSeqProperties
    <3>3. f + 1 <= t /\ t - (f + 1) + 1 = t - f
      BY <1>1, <2>1, <2>2
    <3> QED BY <3>2, <3>3
  <2>9. SubSeq(b, 1, f) \in Seq(Byte)
    <3>1. 1 \in Int /\ f \in Int /\ \A i \in 1..f : b[i] \in Byte
      BY <1>1, <2>1, <2>2, <2>7
    <3> QED BY <3>1, SubSeqProperties
  <2>10. SubSeq(b, 1, t) \in Seq(Byte) /\ Len(SubSeq(b, 1, t)) = t
    <3>1. 1 \in Int /\ t \in Int /\ \A i \in 1..t : b[i] \in Byte
      BY <1>1, <2>1, <2>2, <2>7
    <3>2. /\ SubSeq(b, 1, t) \in Seq(Byte)
          /\ Len(SubSeq(b, 1, t)) = IF 1 <= t THEN t - 1 + 1 ELSE 0
      BY <3>1, SubSeqProperties
    <3>3. 1 <= t /\ t - 1 + 1 = t
      BY <1>1, <2>1, <2>2
    <3> QED BY <3>2, <3>3
  <2>11. SubSeq(b, 1, f) \o SubSeq(b, f + 1, t) = SubSeq(b, 1, t)
    <3>1. 1 \in 1..L + 1 /\ f \in 1 - 1..L /\ t \in f..L
      BY <1>1, <2>1, <2>2
    <3> QED BY <1>1, <3>1, ConcatAdjacentSubSeq DEF L
  <2>12. t <= L
    BY <1>1, <2>1, <2>2
  <2>13. P[k].payload \in Payloads
    <3>1. t - f \in 0..MaxPayload
      BY <1>1, <2>1, <2>2
    <3>2. SubSeq(b, f + 1, t) \in [1..t - f -> Byte]
      BY <2>8, LenProperties
    <3> QED BY <2>5, <3>1, <3>2 DEF Payloads
  <2> QED BY <2>3, <2>4, <2>5, <2>8, <2>9, <2>10, <2>11, <2>12, <2>13
<1> QED BY <1>1, <1>3, <1>7, <1>8, <1>9 DEF P, N, b, L

-----------------------------------------------------------------------------
(* The inductive invariant. *)

\* The collector has read exactly `bytes`: its state is what a reader of the
\* whole message at once would have found.
Holds(m, bytes) ==
  /\ m.idRead = IF bytes # <<>> /\ bytes[1] # 0 THEN 3 ELSE Smaller(3, Len(bytes))
  /\ m.manufacturer = SubSeq(bytes, 1, ManufacturerLength(bytes))
  /\ m.data = SubSeq(bytes, ManufacturerLength(bytes) + 1, Len(bytes))

\* The strengthening that makes ExactDelivery and DeliveredIffEnded inductive:
\* the collector and the wire agree on whether a message is open, what is
\* collected of a message is what was sent of it, and outside of a message the
\* buffer is empty unless the last packet was rejected.  WithinCapacity rides
\* along: NoEarlyReject needs it.
IInv ==
  /\ TypeOK
  /\ state = "continue" <=> wire.phase = "open"
  /\ state = "continue" /\ ~wire.tainted => Holds(msg, wire.bytes)
  /\ state = "start" /\ ~wire.rejected => msg = Empty
  /\ wire.rejected => wire.phase = "none"
  /\ WithinCapacity
  /\ ExactDelivery
  /\ DeliveredIffEnded

Messages == [idRead : 0..3, manufacturer : Seq(Byte), data : Seq(Byte)]

\* The calls an application may make, with messages of any length: the bound of
\* Next is TLC's.
Calls ==
  \/ \E p \in Packets : Feed(p)
  \/ Reset
  \/ \E s \in Limits : SetMaxSysexDataSize(s)
  \/ \E set \in BOOLEAN : SetCallback(set)

\* What holds of calls with messages of any length holds of the specification.
LEMMA AnyLength == [Next]_vars => [Calls]_vars
BY DEF Next, Calls

-----------------------------------------------------------------------------
(* Lemmas about packets and the buffer. *)

\* A payload is a sequence of at most MaxPayload bytes.
LEMMA PayloadIsSeq ==
  ASSUME NEW p \in Packets
  PROVE  /\ p.payload \in Seq(Byte)
         /\ Len(p.payload) \in 0..MaxPayload
         /\ p.status \in Statuses
<1>1. PICK n \in 0..MaxPayload : p.payload \in [1..n -> Byte]
  BY DEF Packets, Payloads
<1>2. n \in Nat
  BY CollectorAssumption DEF CollectorAssumption
<1>3. p.payload \in Seq(Byte)
  BY <1>1, <1>2, SeqDef
<1>4. Len(p.payload) = n
  BY <1>1, <1>2, <1>3, LenProperties
<1> QED BY <1>3, <1>4 DEF Packets

\* How many manufacturer bytes a payload holds is bounded by its length.
LEMMA IdBytesType ==
  ASSUME NEW r \in 0..3, NEW s \in Seq(Byte)
  PROVE  /\ IdBytes(r, s) \in 0..Len(s)
         /\ IdBytes(r, s) <= 3 - r
<1>1. Len(s) \in Nat /\ (s # <<>> => Len(s) > 0)
  BY EmptySeq, LenProperties
<1> QED BY <1>1 DEF IdBytes, Smaller

\* The smaller of two positive numbers is positive and bounded by both.
LEMMA SmallerType ==
  \A x, y \in Nat : x > 0 /\ y > 0 => Smaller(x, y) \in 1..x /\ Smaller(x, y) \in 1..y
BY DEF Smaller

\* Collecting a payload keeps the shape of the buffer.
LEMMA CollectType ==
  ASSUME NEW m \in Messages, NEW s \in Seq(Byte)
  PROVE  Collect(m, s) \in Messages
<1> DEFINE k == IdBytes(m.idRead, s)
<1>1. m.idRead \in 0..3 /\ m.manufacturer \in Seq(Byte) /\ m.data \in Seq(Byte)
  BY DEF Messages
<1>2. k \in 0..Len(s) /\ k <= 3 - m.idRead
  BY <1>1, IdBytesType
<1>3. SubSeq(s, 1, k) \in Seq(Byte) /\ SubSeq(s, k + 1, Len(s)) \in Seq(Byte)
  BY <1>2, CutType
<1>4. m.idRead + k \in 0..3
  BY <1>1, <1>2, LenProperties
<1>5. /\ m.manufacturer \o SubSeq(s, 1, k) \in Seq(Byte)
      /\ m.data \o SubSeq(s, k + 1, Len(s)) \in Seq(Byte)
  BY <1>1, <1>3, ConcatProperties
<1> QED BY <1>4, <1>5 DEF Collect, Messages

\* Reading a message packet by packet is reading it at once: the buffer that
\* holds b holds b \o s after a packet with payload s.
LEMMA CollectHolds ==
  ASSUME NEW m \in Messages, NEW b \in Seq(Byte), NEW s \in Seq(Byte), Holds(m, b)
  PROVE  Holds(Collect(m, s), b \o s)
<1> DEFINE c == b \o s
           i == ManufacturerLength(b)
           k == IdBytes(m.idRead, s)
<1>1. /\ Len(b) \in Nat /\ Len(s) \in Nat
      /\ (b = <<>> <=> Len(b) = 0) /\ (s = <<>> <=> Len(s) = 0)
  BY EmptySeq, LenProperties
<1>2. /\ c \in Seq(Byte) /\ Len(c) = Len(b) + Len(s)
      /\ Len(b) > 0 => c[1] = b[1]
      /\ Len(b) = 0 /\ Len(s) > 0 => c[1] = s[1]
      /\ (c = <<>> <=> Len(c) = 0)
  BY <1>1, ConcatProperties, EmptySeq
<1>3. m.idRead = IF b # <<>> /\ b[1] # 0 THEN 3 ELSE Smaller(3, Len(b))
  BY DEF Holds
<1>4. /\ i \in 0..Len(b) /\ k \in 0..Len(s) /\ (k = 0 \/ i = Len(b))
      /\ ManufacturerLength(c) = i + k
      /\ Collect(m, s).idRead = IF c # <<>> /\ c[1] # 0 THEN 3 ELSE Smaller(3, Len(c))
  <2>1. CASE Len(b) = 0
    <3>1. m.idRead = 0 /\ i = 0 /\ b = <<>>
      BY <1>1, <1>3, <2>1 DEF ManufacturerLength, Smaller
    <3>2. k = IF s # <<>> /\ s[1] # 0 THEN 1 ELSE Smaller(3, Len(s))
      BY <1>1, <3>1 DEF IdBytes, Smaller
    <3>3. k \in 0..Len(s)
      BY <1>1, <3>2 DEF Smaller
    <3>4. ManufacturerLength(c) = k
      BY <1>1, <1>2, <2>1, <3>2 DEF ManufacturerLength
    <3>5. Collect(m, s).idRead = IF c # <<>> /\ c[1] # 0 THEN 3 ELSE Smaller(3, Len(c))
      <4>1. Collect(m, s).idRead = IF s # <<>> /\ s[1] # 0 THEN 3 ELSE k
        BY <1>1, <3>1, <3>3 DEF Collect
      <4> QED BY <1>1, <1>2, <2>1, <3>2, <4>1
    <3> QED BY <1>1, <2>1, <3>1, <3>3, <3>4, <3>5
  <2>2. CASE Len(b) > 0
    <3>1. /\ c # <<>> /\ c[1] = b[1] /\ b # <<>>
          /\ m.idRead = IF b[1] # 0 THEN 3 ELSE Smaller(3, Len(b))
          /\ i = IF b[1] # 0 THEN 1 ELSE Smaller(3, Len(b))
      BY <1>1, <1>2, <1>3, <2>2 DEF ManufacturerLength
    <3>2. m.idRead \in 1..3 /\ i \in 1..Len(b)
      <4> HIDE DEF i
      <4>0. Len(b) \in Nat
        BY LenProperties
      <4>1. Smaller(3, Len(b)) \in 1..3 /\ Smaller(3, Len(b)) \in 1..Len(b)
        BY <2>2, <4>0, SmallerType, 3 > 0, 3 \in Nat, Zenon
      <4> QED BY <1>1, <2>2, <3>1, <4>1
    <3>3. k = Smaller(3 - m.idRead, Len(s))
      BY <3>2 DEF IdBytes
    <3>4. k \in 0..Len(s) /\ (k = 0 \/ i = Len(b))
      BY <1>1, <3>1, <3>2, <3>3 DEF Smaller
    <3>5. /\ ManufacturerLength(c) = IF b[1] # 0 THEN 1 ELSE Smaller(3, Len(b) + Len(s))
          /\ Collect(m, s).idRead = m.idRead + k
      BY <1>2, <3>1, <3>2 DEF ManufacturerLength, Collect
    <3>6. ManufacturerLength(c) = i + k
      BY <1>1, <3>1, <3>2, <3>3, <3>5 DEF Smaller
    <3>7. m.idRead + k = IF b[1] # 0 THEN 3 ELSE Smaller(3, Len(b) + Len(s))
      BY <1>1, <3>1, <3>2, <3>3 DEF Smaller
    <3> QED BY <1>1, <1>2, <3>1, <3>2, <3>4, <3>5, <3>6, <3>7
  <2> QED BY <1>1, <2>1, <2>2
<1>5. /\ Collect(m, s).manufacturer = SubSeq(b, 1, i) \o SubSeq(s, 1, k)
      /\ Collect(m, s).data = SubSeq(b, i + 1, Len(b)) \o SubSeq(s, k + 1, Len(s))
  BY DEF Holds, Collect
<1>6. /\ SubSeq(b, 1, i) \o SubSeq(s, 1, k) = SubSeq(c, 1, i + k)
      /\ SubSeq(b, i + 1, Len(b)) \o SubSeq(s, k + 1, Len(s))
           = SubSeq(c, i + k + 1, Len(c))
  <2> HIDE DEF i, k
  <2> QED BY <1>4, CutConcat
<1> HIDE DEF i, k
<1> QED BY <1>4, <1>5, <1>6 DEF Holds

-----------------------------------------------------------------------------
(* Type correctness. *)

\* The capacity of the buffer is a number before and after clear and growth.
LEMMA CapacityType ==
  ASSUME TypeOK, NEW c \in Nat, NEW size \in Nat, NEW n \in Nat
  PROVE  /\ Cleared(c) \subseteq Nat
         /\ Grown(c, size, n) \in Nat
         /\ Grown(c, size, n) >= c
BY CollectorAssumption
   DEF CollectorAssumption, TypeOK, Cleared, Grown, Smaller, Larger

\* The message and the capacity that feed() goes on with have their types.
LEMMA AcceptedType ==
  ASSUME TypeOK, NEW p \in Packets, NEW m \in {msg, Empty}, NEW c \in {0, capacity}
  PROVE  /\ m \in Messages
         /\ c \in Nat
         /\ Len(m.data) \in Nat
         /\ Len(p.payload) \in Nat
         /\ Collect(m, p.payload) \in Messages
         /\ Grown(c, Len(m.data), Len(p.payload)) \in Nat
<1>1. Empty \in Messages
  BY EmptySeq DEF Empty, Messages
<1>2. m \in Messages /\ c \in Nat
  BY <1>1 DEF TypeOK, Messages
<1>3. Len(m.data) \in Nat
  BY <1>2, LenProperties DEF Messages
<1>4. p.payload \in Seq(Byte) /\ Len(p.payload) \in Nat
  BY PayloadIsSeq, LenProperties
<1> QED BY <1>2, <1>3, <1>4, CollectType, CapacityType

\* The history variable keeps its type.
LEMMA WireAfterType ==
  ASSUME TypeOK, NEW p \in Packets
  PROVE  WireAfter(p) \in [bytes : Seq(Byte), phase : {"none", "open", "ended"},
                          rejected : BOOLEAN, tainted : BOOLEAN]
<1>1. p.payload \in Seq(Byte)
  BY PayloadIsSeq
<1>2. wire.bytes \o p.payload \in Seq(Byte)
  BY <1>1, ConcatProperties DEF TypeOK
<1> QED BY <1>1, <1>2, EmptySeq DEF WireAfter, Extended, NoWire, TypeOK

\* A new collector has its types ...
LEMMA TypeInit == Init => TypeOK
BY EmptySeq DEF Init, TypeOK, Empty, NoCall, NoWire

\* ... and every call keeps them.
LEMMA TypeStep == TypeOK /\ [Calls]_vars => TypeOK'
<1> SUFFICES ASSUME TypeOK, [Calls]_vars PROVE TypeOK'
  OBVIOUS
<1> USE DEF TypeOK
<1>1. ASSUME NEW p \in Packets, IgnoreOrphan(p) PROVE TypeOK'
  <2>1. Cleared(capacity) \subseteq Nat
    BY CapacityType
  <2>2. wire' \in [bytes : Seq(Byte), phase : {"none", "open", "ended"},
                  rejected : BOOLEAN, tainted : BOOLEAN]
    BY <1>1, WireAfterType DEF IgnoreOrphan
  <2> QED BY <1>1, <2>1, <2>2, EmptySeq DEF IgnoreOrphan, Empty
<1>2. ASSUME NEW p \in Packets, Reject(p) PROVE TypeOK'
  <2>1. msg' \in Messages /\ capacity' \in Nat
    BY <1>2, AcceptedType, ZenonT(40) DEF Reject
  <2>2. wire' \in [bytes : Seq(Byte), phase : {"none", "open", "ended"},
                  rejected : BOOLEAN, tainted : BOOLEAN]
    BY <1>2, WireAfterType DEF Reject
  <2> QED BY <1>2, <2>1, <2>2 DEF Reject, Messages
<1>3. ASSUME NEW p \in Packets, Store(p) PROVE TypeOK'
  <2>1. msg' \in Messages /\ capacity' \in Nat
    BY <1>3, AcceptedType, ZenonT(40) DEF Store
  <2> QED BY <1>3, <2>1, WireAfterType DEF Store, Messages
<1>4. ASSUME NEW p \in Packets, Deliver(p) PROVE TypeOK'
  <2>1. PICK m \in {msg, Empty}, c \in {0, capacity} :
          /\ capacity' \in Cleared(Grown(c, Len(m.data), Len(p.payload)))
          /\ call' = IF hasCallback
                       THEN LET full == Collect(m, p.payload)
                            IN  Call(full.manufacturer, full.data)
                       ELSE NoCall
    BY <1>4 DEF Deliver
  <2>2. capacity' \in Nat
    BY <2>1, AcceptedType, CapacityType
  <2>3. call' \in {NoCall} \union
                  [made : {TRUE}, manufacturer : Seq(Byte), data : Seq(Byte)]
    <3>1. Collect(m, p.payload) \in Messages
      BY AcceptedType
    <3> QED BY <2>1, <3>1 DEF Messages, Call
  <2>4. Empty \in Messages
    BY EmptySeq DEF Empty, Messages
  <2> QED BY <1>4, <2>2, <2>3, <2>4, WireAfterType DEF Deliver, Messages
<1>5. ASSUME Reset PROVE TypeOK'
  <2>1. Cleared(capacity) \subseteq Nat
    BY CapacityType
  <2> QED BY <1>5, <2>1, EmptySeq DEF Reset, Empty, NoWire
<1>6. ASSUME NEW s \in Limits, SetMaxSysexDataSize(s) PROVE TypeOK'
  BY <1>6, CollectorAssumption
     DEF SetMaxSysexDataSize, CollectorAssumption, Larger, WireIdle
<1>7. ASSUME NEW set \in BOOLEAN, SetCallback(set) PROVE TypeOK'
  BY <1>7 DEF SetCallback, WireIdle
<1>8. CASE UNCHANGED vars
  BY <1>8 DEF vars
<1> QED
  BY <1>1, <1>2, <1>3, <1>4, <1>5, <1>6, <1>7, <1>8 DEF Calls, Feed

\* Every variable keeps its type, whatever the packets, limits and callbacks.
THEOREM TypeCorrect == Spec => []TypeOK
BY TypeInit, TypeStep, AnyLength, PTL DEF Spec

-----------------------------------------------------------------------------
(* Delivery. *)

\* The collector goes on with a packet just when the wire does.
LEMMA AcceptedIsHeard ==
  ASSUME IInv, NEW p \in Packets, NEW m, NEW c, Accepted(p, m, c)
  PROVE  WireAfter(p) = Extended(p)
BY DEF Accepted, WireAfter, IInv

\* What feed() holds after adding a packet to a message that is not tainted is
\* what the wire carried of that message.
LEMMA AcceptedHolds ==
  ASSUME IInv, NEW p \in Packets, NEW m \in {msg, Empty}, NEW c \in {0, capacity},
         Accepted(p, m, c), ~WireAfter(p).tainted
  PROVE  Holds(Collect(m, p.payload), WireAfter(p).bytes)
<1>0. WireAfter(p) = Extended(p)
  BY AcceptedIsHeard
<1>1. TypeOK /\ p.payload \in Seq(Byte) /\ m \in Messages
  BY PayloadIsSeq, AcceptedType DEF IInv
<1>2. CASE IsFirst(p)
  <2>1. ~wire.rejected
    BY <1>0, <1>2 DEF Extended
  <2>2. m = Empty
    BY <1>1, <1>2, <2>1 DEF Accepted, IInv, TypeOK
  <2>3. Holds(Empty, <<>>)
    BY SubSeqEmpty DEF Holds, Empty, ManufacturerLength, Smaller
  <2>4. Holds(Collect(m, p.payload), <<>> \o p.payload)
    BY <1>1, <2>2, <2>3, CollectHolds, EmptySeq
  <2>5. <<>> \o p.payload = p.payload
    BY <1>1, ConcatEmptySeq
  <2> QED BY <1>0, <1>2, <2>4, <2>5 DEF Extended
<1>3. CASE ~IsFirst(p)
  <2>1. m = msg /\ state = "continue" /\ ~wire.tainted
    BY <1>0, <1>3 DEF Accepted, Extended
  <2>2. Holds(m, wire.bytes) /\ wire.bytes \in Seq(Byte)
    BY <1>1, <2>1 DEF IInv, TypeOK
  <2> QED BY <1>0, <1>1, <1>3, <2>2, CollectHolds DEF Extended
<1> QED BY <1>2, <1>3

\* The growth policy makes room for any packet up to the limit, if there is one.
LEMMA GrowthMakesRoom ==
  ASSUME TypeOK, NEW c \in Nat, NEW size \in 0..c, NEW n \in 0..MaxPayload
  PROVE  /\ maxSize = 0 => size + n <= Grown(c, size, n)
         /\ size + n > Grown(c, size, n) => size + n > maxSize
<1>1. MaxPayload \in Nat /\ MinCapacity \in Nat /\ 2 * MaxPayload <= MinCapacity
  BY CollectorAssumption DEF CollectorAssumption
<1>2. maxSize \in Nat
  BY DEF TypeOK
<1>3. size + n <= Larger(MinCapacity, 2 * c)
  BY <1>1 DEF Larger
<1> DEFINE wanted == Larger(MinCapacity, 2 * c)
<1>4. wanted \in Nat /\ size + n <= wanted
  BY <1>1, <1>3 DEF Larger
<1>5. Grown(c, size, n) = IF size + n <= c THEN c
        ELSE Larger(c, IF maxSize > 0 THEN Smaller(wanted, maxSize) ELSE wanted)
  BY DEF Grown
<1> HIDE DEF wanted
<1> QED BY <1>1, <1>2, <1>4, <1>5 DEF Larger, Smaller

\* A packet that fits leaves no more data than the buffer has room for.
LEMMA FittingStaysWithin ==
  ASSUME IInv, NEW p \in Packets, NEW m \in {msg, Empty}, NEW c \in {0, capacity},
         Accepted(p, m, c), Fits(p, m, c)
  PROVE  Len(Collect(m, p.payload).data) <= Grown(c, Len(m.data), Len(p.payload))
<1> DEFINE k == IdBytes(m.idRead, p.payload)
<1>1. /\ TypeOK /\ m \in Messages /\ c \in Nat /\ Len(m.data) \in Nat
      /\ p.payload \in Seq(Byte) /\ Len(p.payload) \in 0..MaxPayload
      /\ Grown(c, Len(m.data), Len(p.payload)) \in Nat
  BY PayloadIsSeq, AcceptedType DEF IInv
<1>2. Len(m.data) <= c
  BY <1>1, EmptySeq DEF Accepted, IInv, WithinCapacity, Empty
<1>3. k \in 0..Len(p.payload)
  BY <1>1, IdBytesType DEF Messages
<1>4. Len(Collect(m, p.payload).data) = Len(m.data) + (Len(p.payload) - k)
  <2>1. /\ SubSeq(p.payload, k + 1, Len(p.payload)) \in Seq(Byte)
        /\ Len(SubSeq(p.payload, k + 1, Len(p.payload))) = Len(p.payload) - k
    BY <1>1, <1>3, CutType
  <2>2. Collect(m, p.payload).data = m.data \o SubSeq(p.payload, k + 1, Len(p.payload))
    BY DEF Collect
  <2>3. m.data \in Seq(Byte)
    BY <1>1 DEF Messages
  <2> HIDE DEF k
  <2> QED BY <2>1, <2>2, <2>3, ConcatProperties
<1>5. Len(m.data) + Len(p.payload) <= Grown(c, Len(m.data), Len(p.payload))
  <2>1. maxSize \in Nat
    BY <1>1 DEF TypeOK
  <2>2. CASE maxSize > 0
    BY <2>2 DEF Fits
  <2>3. CASE maxSize = 0
    <3>1. Len(m.data) \in 0..c
      BY <1>1, <1>2
    <3> QED BY <1>1, <2>3, <3>1, GrowthMakesRoom
  <2>4. maxSize > 0 \/ maxSize = 0
    BY <2>1
  <2> QED BY <2>2, <2>3, <2>4
<1>6. PICK size, n, g, kk \in Nat :
        /\ size = Len(m.data) /\ n = Len(p.payload) /\ kk = k
        /\ g = Grown(c, Len(m.data), Len(p.payload))
  BY <1>1, <1>3
<1>7. size + n <= g
  BY <1>5, <1>6
<1>8. kk <= n => size + (n - kk) <= g
  BY <1>7
<1>9. kk <= n
  BY <1>3, <1>6
<1> QED BY <1>4, <1>6, <1>8, <1>9

\* A new collector satisfies the invariant ...
LEMMA InvInit == Init => IInv
<1> SUFFICES ASSUME Init PROVE IInv
  OBVIOUS
<1>1. TypeOK
  BY TypeInit
<1> QED BY <1>1, EmptySeq
     DEF Init, IInv, NoWire, NoCall, Empty, WithinCapacity, ExactDelivery, DeliveredIffEnded

\* ... and every call keeps it.
LEMMA InvStep == IInv /\ [Calls]_vars => IInv'
<1> SUFFICES ASSUME IInv, [Calls]_vars PROVE IInv'
  OBVIOUS
<1>0. TypeOK /\ TypeOK'
  BY TypeStep DEF IInv
<1>1. ASSUME NEW p \in Packets, IgnoreOrphan(p) PROVE IInv'
  <2>1. WithinCapacity'
    BY <1>0, <1>1, EmptySeq DEF IgnoreOrphan, WithinCapacity, Empty, TypeOK
  <2>2. wire' = NoWire
    BY <1>0, <1>1 DEF IgnoreOrphan, WireAfter, IInv
  <2> QED BY <1>0, <1>1, <2>1, <2>2
    DEF IgnoreOrphan, IInv, NoWire, NoCall, ExactDelivery, DeliveredIffEnded
<1>2. ASSUME NEW p \in Packets, Reject(p) PROVE IInv'
  <2>1. state' = "start" /\ wire'.phase = "none" /\ wire'.rejected /\ ~call'.made
    BY <1>2, AcceptedIsHeard DEF Reject, Extended, NoCall
  <2>2. WithinCapacity'
    <3>1. PICK m \in {msg, Empty}, c \in {0, capacity} :
            /\ Accepted(p, m, c)
            /\ msg' = m /\ capacity' = Grown(c, Len(m.data), Len(p.payload))
      BY <1>2 DEF Reject
    <3>2. Len(m.data) \in Nat /\ Len(p.payload) \in Nat /\ c \in Nat
      BY <1>0, AcceptedType
    <3>3. Len(m.data) <= c
      BY <1>0, <3>1, <3>2, EmptySeq DEF Accepted, IInv, WithinCapacity, Empty
    <3>4. capacity' >= c /\ capacity' \in Nat
      BY <1>0, <3>1, <3>2, CapacityType
    <3> QED BY <3>1, <3>2, <3>3, <3>4 DEF WithinCapacity
  <2> QED BY <1>0, <2>1, <2>2 DEF IInv, ExactDelivery, DeliveredIffEnded
<1>3. ASSUME NEW p \in Packets, Store(p) PROVE IInv'
  <2>1. /\ state' = "continue" /\ wire' = WireAfter(p) /\ wire'.phase = "open" /\ ~call'.made
        /\ ~wire'.rejected
    <3>1. WireAfter(p) = Extended(p)
      BY <1>3, AcceptedIsHeard DEF Store
    <3> QED BY <1>3, <3>1 DEF Store, Extended, NoCall
  <2>2. ~wire'.tainted => Holds(msg', wire'.bytes)
    BY <1>3, <2>1, AcceptedHolds DEF Store
  <2>3. (state = "continue" /\ ~wire.tainted => Holds(msg, wire.bytes))'
    BY <2>2 DEF Holds
  <2>4. WithinCapacity'
    BY <1>3, FittingStaysWithin DEF Store, WithinCapacity
  <2> QED BY <1>0, <2>1, <2>3, <2>4 DEF IInv, ExactDelivery, DeliveredIffEnded
<1>4. ASSUME NEW p \in Packets, Deliver(p) PROVE IInv'
  <2>1. PICK m \in {msg, Empty}, c \in {0, capacity} :
          /\ Accepted(p, m, c)
          /\ call' = IF hasCallback
                       THEN LET full == Collect(m, p.payload)
                            IN  Call(full.manufacturer, full.data)
                       ELSE NoCall
    BY <1>4 DEF Deliver
  <2>2. /\ state' = "start" /\ msg' = Empty /\ hasCallback' = hasCallback
        /\ wire' = WireAfter(p) /\ wire'.phase = "ended"
        /\ ~wire'.rejected
    <3>1. WireAfter(p) = Extended(p)
      BY <2>1, AcceptedIsHeard
    <3> QED BY <1>4, <3>1 DEF Deliver, Extended
  <2>3. ~wire'.tainted => Holds(Collect(m, p.payload), wire'.bytes)
    BY <2>1, <2>2, AcceptedHolds
  <2>4. DeliveredIffEnded'
    BY <1>0, <2>1, <2>2 DEF DeliveredIffEnded, NoCall, Call, TypeOK
  <2>5. ExactDelivery'
    <3>1. SUFFICES ASSUME call'.made, ~wire'.tainted PROVE call' = Decode(wire'.bytes)
      BY DEF ExactDelivery, Decode, Call, ManufacturerLength, Smaller
    <3>2. call' = Call(Collect(m, p.payload).manufacturer, Collect(m, p.payload).data)
      BY <2>1, <3>1 DEF NoCall
    <3> QED BY <2>3, <3>1, <3>2 DEF Holds, Decode
  <2>6. WithinCapacity'
    BY <1>0, <2>2, EmptySeq DEF WithinCapacity, Empty, TypeOK
  <2> QED BY <1>0, <2>2, <2>4, <2>5, <2>6 DEF IInv
<1>5. ASSUME Reset PROVE IInv'
  <2>1. WithinCapacity'
    BY <1>0, <1>5, EmptySeq DEF Reset, WithinCapacity, Empty, TypeOK
  <2> QED BY <1>0, <1>5, <2>1 DEF Reset, IInv, NoWire, NoCall, ExactDelivery, DeliveredIffEnded
<1>6. ASSUME NEW s \in Limits, SetMaxSysexDataSize(s) PROVE IInv'
  <2>1. WithinCapacity'
    <3>1. Len(msg.data) \in Nat /\ capacity \in Nat /\ s \in Nat
      BY <1>0, LenProperties, CollectorAssumption DEF TypeOK, CollectorAssumption
    <3> QED BY <1>6, <3>1 DEF SetMaxSysexDataSize, IInv, WithinCapacity, Larger
  <2> QED BY <1>0, <1>6, <2>1
     DEF SetMaxSysexDataSize, IInv, WireIdle, NoCall, ExactDelivery, DeliveredIffEnded,
         Holds, TypeOK
<1>7. ASSUME NEW set \in BOOLEAN, SetCallback(set) PROVE IInv'
  BY <1>0, <1>7
     DEF SetCallback, IInv, WireIdle, NoCall, ExactDelivery, DeliveredIffEnded, Holds, TypeOK, WithinCapacity
<1>8. CASE UNCHANGED vars
  BY <1>0, <1>8 DEF vars, IInv, WithinCapacity, ExactDelivery, DeliveredIffEnded, Decode, Holds
<1> QED
  BY <1>1, <1>2, <1>3, <1>4, <1>5, <1>6, <1>7, <1>8 DEF Calls, Feed

\* The strengthened invariant holds throughout (sysex7_collector::feed and reset).
THEOREM Invariance == Spec => []IInv
BY InvInit, InvStep, AnyLength, PTL DEF Spec

\* The callback gets exactly what was sent, unless the packet before the start
\* of the message was rejected (sysex7_collector::feed).
THEOREM DeliveryIsExact == Spec => []ExactDelivery
<1>1. IInv => ExactDelivery
  BY DEF IInv
<1> QED BY <1>1, Invariance, PTL

\* The callback is made for the last packet of a message seen from its start,
\* once, and for nothing else (sysex7_collector::feed).
THEOREM DeliveryIsOnce == Spec => []DeliveredIffEnded
<1>1. IInv => DeliveredIffEnded
  BY DEF IInv
<1> QED BY <1>1, Invariance, PTL

\* The data never outgrows the buffer that was reserved for it.
THEOREM DataWithinCapacity == Spec => []WithinCapacity
<1>1. IInv => WithinCapacity
  BY DEF IInv
<1> QED BY <1>1, Invariance, PTL

\* A packet is rejected only when the data is longer than the limit with it, or the
\* packet alone is: the bytes of the manufacturer ID are no data, and a packet that
\* brings them is measured with them only as long as there is no data before it.
LEMMA RejectedPacket ==
  ASSUME IInv, NEW p \in Packets, Reject(p), ~wire'.tainted
  PROVE  /\ maxSize > 0
         /\ Len(wire'.bytes) > maxSize
         /\ Len(Decode(wire'.bytes).data) > maxSize \/ Len(p.payload) > maxSize
<1>2. PICK m \in {msg, Empty}, c \in {0, capacity} : Accepted(p, m, c) /\ ~Fits(p, m, c)
  BY DEF Reject
<1>3. /\ TypeOK /\ maxSize \in Nat /\ m \in Messages /\ c \in Nat
      /\ Len(m.data) \in Nat
      /\ p.payload \in Seq(Byte) /\ Len(p.payload) \in 0..MaxPayload
  BY PayloadIsSeq, AcceptedType DEF IInv, TypeOK
<1>4. Len(m.data) <= c
  BY <1>2, <1>3, EmptySeq DEF Accepted, IInv, WithinCapacity, Empty
<1>5. maxSize > 0 /\ Len(m.data) + Len(p.payload) > maxSize
  <2>1. maxSize > 0 /\ ~(Len(m.data) + Len(p.payload) <= Grown(c, Len(m.data), Len(p.payload)))
    BY <1>2, <1>3 DEF Fits
  <2>2. Grown(c, Len(m.data), Len(p.payload)) \in Nat
    BY <1>3, AcceptedType
  <2>3. Len(m.data) \in 0..c
    BY <1>3, <1>4
  <2>4. Len(m.data) + Len(p.payload) > Grown(c, Len(m.data), Len(p.payload)) =>
          Len(m.data) + Len(p.payload) > maxSize
    BY <1>3, <2>3, GrowthMakesRoom
  <2>5. PICK size, n, g \in Nat :
          /\ size = Len(m.data) /\ n = Len(p.payload)
          /\ g = Grown(c, Len(m.data), Len(p.payload))
    BY <1>3, <2>2
  <2>6. ~(size + n <= g)
    BY <2>1, <2>5
  <2>7. size + n > g
    BY <2>6
  <2> QED BY <2>1, <2>4, <2>5, <2>7
<1>6. Len(wire'.bytes) >= Len(m.data) + Len(p.payload)
  <2>1. wire'.bytes = Extended(p).bytes /\ ~Extended(p).tainted
    <3>1. wire' = [WireAfter(p) EXCEPT !.phase = "none", !.rejected = TRUE]
      BY DEF Reject
    <3>2. WireAfter(p) = Extended(p)
      BY <1>2, AcceptedIsHeard
    <3> QED BY <3>1, <3>2 DEF Extended
  <2>2. CASE IsFirst(p)
    <3>1. m = Empty
      BY <1>2, <1>3, <2>1, <2>2 DEF Accepted, IInv, TypeOK, Extended
    <3>2. Len(m.data) = 0
      BY <3>1, EmptySeq DEF Empty
    <3> QED BY <1>3, <2>1, <2>2, <3>2 DEF Extended
  <2>3. CASE ~IsFirst(p)
    <3>1. m = msg /\ Holds(msg, wire.bytes) /\ wire.bytes \in Seq(Byte)
      BY <1>2, <1>3, <2>1, <2>3 DEF Accepted, IInv, TypeOK, Extended
    <3>2. Len(wire.bytes) \in Nat /\ ManufacturerLength(wire.bytes) \in 0..Len(wire.bytes)
      <4>1. Len(wire.bytes) \in Nat /\ (wire.bytes # <<>> => Len(wire.bytes) > 0)
        BY <3>1, LenProperties, EmptySeq
      <4> QED BY <4>1 DEF ManufacturerLength, Smaller
    <3>3. Len(m.data) = Len(wire.bytes) - ManufacturerLength(wire.bytes)
      BY <3>1, <3>2, CutType DEF Holds
    <3>4. Len(wire'.bytes) = Len(wire.bytes) + Len(p.payload)
      BY <1>3, <2>1, <2>3, <3>1, ConcatProperties DEF Extended
    <3>5. PICK n, b, k \in Nat :
            /\ n = Len(p.payload) /\ b = Len(wire.bytes)
            /\ k = ManufacturerLength(wire.bytes)
      BY <1>3, <3>2
    <3>6. b + n >= (b - k) + n
      OBVIOUS
    <3> QED BY <3>3, <3>4, <3>5, <3>6
  <2> QED BY <2>2, <2>3
<1>7. Len(wire'.bytes) \in Nat
  <2>1. TypeOK'
    BY TypeStep DEF IInv, Calls, Feed
  <2> QED BY <2>1, LenProperties DEF TypeOK
<1>8. PICK size, n, b \in Nat :
        /\ size = Len(m.data) /\ n = Len(p.payload) /\ b = Len(wire'.bytes)
  BY <1>3, <1>7
<1>9. b > maxSize
  <2>1. size + n > maxSize /\ b >= size + n
    BY <1>5, <1>6, <1>8
  <2>2. maxSize \in Nat
    BY <1>3
  <2> QED BY <2>1, <2>2
<1>10. CASE m.data = <<>>
  <2>1. Len(m.data) = 0
    BY <1>10, EmptySeq
  <2> QED BY <1>5, <1>8, <1>9, <2>1
<1>11. CASE m.data # <<>>
  <2>1. WireAfter(p) = Extended(p) /\ wire'.bytes = WireAfter(p).bytes /\ ~WireAfter(p).tainted
    <3>1. wire' = [WireAfter(p) EXCEPT !.phase = "none", !.rejected = TRUE]
      BY DEF Reject
    <3>2. WireAfter(p) = Extended(p)
      BY <1>2, AcceptedIsHeard
    <3>3. wire'.bytes = Extended(p).bytes /\ wire'.tainted = Extended(p).tainted
      BY <3>1, <3>2 DEF Extended
    <3> QED BY <3>2, <3>3
  <2>2. Holds(m, wire.bytes) /\ wire.bytes \in Seq(Byte)
    <3>1. m # Empty
      BY <1>11 DEF Empty
    <3> QED BY <1>2, <1>3, <2>1, <3>1 DEF Accepted, IInv, TypeOK, Extended
  <2>3. m.idRead = 3
    <3>1. Len(wire.bytes) \in Nat /\ (wire.bytes # <<>> => Len(wire.bytes) > 0)
      BY <2>2, LenProperties, EmptySeq
    <3>2. ManufacturerLength(wire.bytes) \in 0..Len(wire.bytes)
      BY <3>1 DEF ManufacturerLength, Smaller
    <3>3. Len(m.data) = Len(wire.bytes) - ManufacturerLength(wire.bytes)
      BY <2>2, <3>2, CutType DEF Holds
    <3>4. Len(m.data) > 0
      BY <1>3, <1>11, EmptySeq DEF Messages
    <3>5. ManufacturerLength(wire.bytes) # Len(wire.bytes)
      BY <3>1, <3>3, <3>4
    <3> QED BY <2>2, <3>1, <3>5 DEF Holds, ManufacturerLength, Smaller
  <2>4. IdBytes(m.idRead, p.payload) = 0
    BY <1>3, <2>3 DEF IdBytes, Smaller
  <2>5. Collect(m, p.payload).data = m.data \o p.payload
    <3>1. SubSeq(p.payload, 1, Len(p.payload)) = p.payload
      BY <1>3, SubSeqFull
    <3>2. IdBytes(m.idRead, p.payload) + 1 = 1
      BY <2>4
    <3> QED BY <3>1, <3>2 DEF Collect
  <2>6. Collect(m, p.payload).data = Decode(wire'.bytes).data
    BY <1>2, <2>1, AcceptedHolds DEF Holds, Decode, Call
  <2>7. Len(Decode(wire'.bytes).data) = Len(m.data) + Len(p.payload)
    <3>1. m.data \in Seq(Byte)
      BY <1>3 DEF Messages
    <3>2. Len(m.data \o p.payload) = Len(m.data) + Len(p.payload)
      BY <1>3, <3>1, ConcatProperties
    <3> QED BY <2>5, <2>6, <3>2
  <2> QED BY <1>5, <1>8, <1>9, <2>7
<1> QED BY <1>10, <1>11

\* The same of a step that leaves a rejected message behind.
LEMMA RejectionStep ==
  ASSUME IInv, [Calls]_vars, wire' # wire, wire'.rejected, ~wire'.tainted
  PROVE  maxSize > 0 /\ Len(wire'.bytes) > maxSize
<1>1. PICK p \in Packets : Reject(p)
  <2>1. ASSUME NEW p \in Packets, IgnoreOrphan(p) \/ Store(p) \/ Deliver(p) PROVE FALSE
    <3>1. ~WireAfter(p).rejected
      BY DEF WireAfter, Extended, NoWire
    <3>2. wire' = WireAfter(p)
      BY <2>1 DEF IgnoreOrphan, Store, Deliver
    <3> QED BY <3>1, <3>2
  <2>2. ~Reset
    BY DEF Reset, NoWire
  <2>3. wire' # WireIdle
    BY DEF WireIdle, IInv, TypeOK
  <2> QED BY <2>1, <2>2, <2>3 DEF Calls, Feed, vars, SetMaxSysexDataSize, SetCallback
<1> QED BY <1>1, RejectedPacket

\* A message is rejected only when its data is longer than the limit, or a packet of
\* it alone: the doubling of the buffer never stops short (sysex7_collector::feed).
THEOREM RejectionIsDue == Spec => NoEarlyReject
<1> DEFINE Due == wire'.rejected /\ ~wire'.tainted => \A p \in Packets : Reject(p) =>
                    /\ maxSize > 0
                    /\ Len(Decode(wire'.bytes).data) > maxSize \/ Len(p.payload) > maxSize
<1>1. IInv => [Due]_vars
  BY RejectedPacket
<1> QED BY <1>1, Invariance, PTL DEF NoEarlyReject

\* While a limit is set the buffer grows up to it at most
\* (sysex7_collector::feed and set_max_sysex_data_size).
THEOREM GrowthIsLimited == Spec => GrowthWithinLimit
<1> DEFINE Within == maxSize' > 0 /\ capacity' > capacity => capacity' <= maxSize'
<1>1. TypeOK /\ [Next]_vars => [Within]_vars
  <2> SUFFICES ASSUME TypeOK, [Next]_vars, maxSize' > 0, capacity' > capacity
               PROVE  capacity' <= maxSize'
    OBVIOUS
  <2>0. TypeOK'
    BY AnyLength, TypeStep
  <2>1. ASSUME NEW c \in {0, capacity}, NEW size \in Nat, NEW n \in Nat,
               maxSize' = maxSize, capacity' \in Cleared(Grown(c, size, n))
        PROVE  capacity' <= maxSize'
    <3>1. c \in Nat /\ c <= capacity /\ capacity \in Nat /\ maxSize \in Nat
      BY DEF TypeOK
    <3>2. Grown(c, size, n) \in Nat
      BY <3>1, CapacityType
    <3>3. capacity' = Grown(c, size, n)
      BY <2>1, <3>1, <3>2 DEF Cleared
    <3>4. Grown(c, size, n) > c
      BY <3>1, <3>2, <3>3
    <3>5. MinCapacity \in Nat
      BY CollectorAssumption DEF CollectorAssumption
    <3> QED BY <2>1, <3>1, <3>3, <3>4, <3>5 DEF Grown, Larger, Smaller
  <2>2. ASSUME NEW p \in Packets, IgnoreOrphan(p) PROVE FALSE
    BY <2>2 DEF IgnoreOrphan, Cleared, TypeOK
  <2>3. ASSUME NEW p \in Packets, Reject(p) \/ Store(p) PROVE capacity' <= maxSize'
    <3>1. PICK m \in {msg, Empty}, c \in {0, capacity} :
            capacity' = Grown(c, Len(m.data), Len(p.payload))
      BY <2>3 DEF Reject, Store
    <3>2. Len(m.data) \in Nat /\ Len(p.payload) \in Nat
      BY AcceptedType
    <3>3. maxSize' = maxSize
      BY <2>3 DEF Reject, Store
    <3>4. capacity' \in Cleared(Grown(c, Len(m.data), Len(p.payload)))
      BY <3>1 DEF Cleared
    <3> QED BY <2>1, <3>2, <3>3, <3>4
  <2>4. ASSUME NEW p \in Packets, Deliver(p) PROVE capacity' <= maxSize'
    <3>1. PICK m \in {msg, Empty}, c \in {0, capacity} :
            capacity' \in Cleared(Grown(c, Len(m.data), Len(p.payload)))
      BY <2>4 DEF Deliver
    <3>2. Len(m.data) \in Nat /\ Len(p.payload) \in Nat
      BY AcceptedType
    <3>3. maxSize' = maxSize
      BY <2>4 DEF Deliver
    <3> QED BY <2>1, <3>1, <3>2, <3>3
  <2>5. ~Reset
    BY DEF Reset, Cleared, TypeOK
  <2>6. ASSUME NEW s \in Limits, SetMaxSysexDataSize(s) PROVE capacity' <= maxSize'
    BY <2>6, CollectorAssumption
       DEF SetMaxSysexDataSize, CollectorAssumption, Larger, TypeOK
  <2>7. ASSUME NEW set \in BOOLEAN, SetCallback(set) PROVE FALSE
    BY <2>7 DEF SetCallback, TypeOK
  <2>8. CASE UNCHANGED vars
    BY <2>8 DEF vars, TypeOK
  <2> QED BY <2>2, <2>3, <2>4, <2>5, <2>6, <2>7, <2>8 DEF Next, Feed
<1> QED BY <1>1, TypeCorrect, PTL DEF Spec, GrowthWithinLimit

=============================================================================
