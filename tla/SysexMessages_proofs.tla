------------------------ MODULE SysexMessages_proofs ------------------------
(***************************************************************************)
(* Proofs about SysexMessages for every radix up to 128, the one of the    *)
(* code among them, and every content of messages: messages consist of     *)
(* bytes, no view that validates reads behind the data, what a factory was *)
(* given is what the views read, and a message that is cut is noticed.     *)
(*                                                                         *)
(* The parts: what the factories return is formed of bytes (Invariance);   *)
(* views stay inside (StaysInside); what numbers and pieces of messages    *)
(* are read as (Division .. MessageComposed); which views look at a message*)
(* and that they read a start of it as the whole (AcceptsIs .. TakesAlike);*)
(* each factory with its view (DiscoveryReads .. MadeReads); changes of    *)
(* the header, cuts, and all steps (HeaderChanged .. ReadInvariance).      *)
(***************************************************************************)
EXTENDS SysexMessages, SequenceTheorems, TLAPS

Bytes == Seq(Byte)
Packed == [manufacturer : Bytes, data : Bytes]

\* What all factories return, those of MIDI-CI with a complete header.
Formed(m) == m \in Packed /\ m.manufacturer = NonRealtime
HasHeader(m) == Formed(m) /\ Len(m.data) >= Payload

\* An answer reads the header of the message it answers: it has to be there.
IInv ==
  /\ TypeOK
  /\ sx # NoMessage => sx.manufacturer = NonRealtime
  /\ Whole /\ IsInquiry => Len(sx.data) >= Payload

-----------------------------------------------------------------------------
(* Numbers and bytes. *)

\* Powers of the radix are positive.
LEMMA Powers ==
  /\ Radix \in Nat /\ Radix > 1 /\ Radix <= 128
  /\ Radix * Radix \in Nat /\ Radix * Radix > 0
  /\ Broadcast \in Nat
<1>1. Radix \in Nat /\ Radix > 1 /\ Radix <= 128
  BY RadixAssumption, MessageAssumption DEF RadixAssumption, MessageAssumption
<1>2. \A a, b \in Nat : a > 0 /\ b > 0 => a * b \in Nat /\ a * b > 0
  OBVIOUS
<1>3. Radix * Radix \in Nat /\ Radix * Radix > 0
  BY <1>1, <1>2
<1>4. Radix * Radix * Radix \in Nat /\ Radix * Radix * Radix > 0
  BY <1>1, <1>2, <1>3
<1>5. Radix * Radix * Radix * Radix \in Nat /\ Radix * Radix * Radix * Radix > 0
  BY <1>1, <1>2, <1>4
<1> QED BY <1>1, <1>3, <1>5 DEF Broadcast

\* A digit is a byte, and what is left of a number is one.
LEMMA Digits ==
  \A n \in Nat : /\ (n % Radix) \in Byte
                 /\ (n \div Radix) \in Nat
                 /\ (n \div (Radix * Radix)) \in Nat
<1> TAKE n \in Nat
<1>1. \A k \in Nat : k > 0 => (n \div k) \in Nat /\ (n % k) \in 0..k-1
  OBVIOUS
<1>2. (n \div (Radix * Radix)) \in Nat
  BY <1>1, Powers
<1>3. (n \div Radix) \in Nat /\ (n % Radix) \in 0..Radix-1
  BY <1>1, Powers
<1> QED BY <1>2, <1>3, Powers DEF Byte

\* Bytes joined are bytes.
LEMMA Joined ==
  \A s, t \in Bytes : s \o t \in Bytes /\ Len(s \o t) = Len(s) + Len(t) /\ Len(s) \in Nat
BY ConcatProperties, LenProperties DEF Bytes

\* Numbers in a message are bytes.
LEMMA Numbers14 ==
  \A n \in Nat : /\ Uint7(n) \in Bytes /\ Len(Uint7(n)) = 1
                 /\ Uint14(n) \in Bytes /\ Len(Uint14(n)) = 2
                 /\ Uint28(n) \in Bytes /\ Len(Uint28(n)) = 4
<1> TAKE n \in Nat
<1>1. \A a, b \in Byte : /\ <<a>> \in Bytes /\ Len(<<a>>) = 1
                         /\ <<a, b>> \in Bytes /\ Len(<<a, b>>) = 2
  BY DEF Bytes
<1>2. \A k \in Nat : Uint7(k) \in Bytes /\ Len(Uint7(k)) = 1
  BY <1>1, Digits DEF Uint7
<1>3. \A k \in Nat : Uint14(k) \in Bytes /\ Len(Uint14(k)) = 2
  <2> TAKE k \in Nat
  <2>1. (k % Radix) \in Byte /\ ((k \div Radix) % Radix) \in Byte
    BY Digits
  <2> QED BY <2>1, <1>1 DEF Uint14
<1>4. (n \div (Radix * Radix)) \in Nat
  BY Digits
<1>5. /\ Uint14(n) \in Bytes /\ Len(Uint14(n)) = 2
      /\ Uint14(n \div (Radix * Radix)) \in Bytes /\ Len(Uint14(n \div (Radix * Radix))) = 2
  BY <1>3, <1>4
<1>6. \A s, t \in Bytes : Len(s) = 2 /\ Len(t) = 2 => s \o t \in Bytes /\ Len(s \o t) = 4
  <2> TAKE s, t \in Bytes
  <2> HAVE Len(s) = 2 /\ Len(t) = 2
  <2>1. s \o t \in Bytes /\ Len(s \o t) = Len(s) + Len(t)
    BY Joined, Zenon
  <2>2. Len(s) + Len(t) = 4
    OBVIOUS
  <2> QED BY <2>1, <2>2, Zenon
<1>7. Uint28(n) \in Bytes /\ Len(Uint28(n)) = 4
  BY <1>5, <1>6, Zenon DEF Uint28
<1> QED BY <1>2, <1>3, <1>7

\* A number read from bytes is one.
LEMMA ReadNumber ==
  ASSUME NEW m \in Packed, NEW k \in Nat, k + 1 < Len(m.data)
  PROVE  MakeUint14(m, k) \in Nat
<1>1. m.data \in Bytes /\ Len(m.data) \in Nat
  BY LenProperties DEF Packed, Bytes
<1>2. m.data[k + 1] \in Byte /\ m.data[k + 2] \in Byte
  BY <1>1, ElementOfSeq DEF Bytes
<1>3. At(m, k) \in Nat /\ At(m, k + 1) \in Nat
  <2>1. (k + 1) + 1 = k + 2
    OBVIOUS
  <2>2. At(m, k) = m.data[k + 1] /\ At(m, k + 1) = m.data[k + 2]
    BY <2>1, Zenon DEF At
  <2>3. \A b \in Byte : b \in Nat
    BY DEF Byte
  <2> QED BY <1>2, <2>2, <2>3, Zenon
<1>4. \A a, b \in Nat : a + Radix * b \in Nat
  BY Powers
<1> QED BY <1>3, <1>4 DEF MakeUint14

LEMMA ReadLongNumber ==
  ASSUME NEW m \in Packed, NEW k \in Nat, k + 3 < Len(m.data)
  PROVE  MakeUint28(m, k) \in Nat
<1>1. Len(m.data) \in Nat
  BY LenProperties DEF Packed, Bytes
<1>2. MakeUint14(m, k) \in Nat
  BY <1>1, ReadNumber
<1>3. MakeUint14(m, k + 2) \in Nat
  BY <1>1, ReadNumber
<1>4. \A a, b, c \in Nat : a + c * b \in Nat
  OBVIOUS
<1> QED BY <1>2, <1>3, <1>4, Powers DEF MakeUint28

-----------------------------------------------------------------------------
(* Factories. *)

LEMMA NonRealtimeType == NonRealtime \in Bytes /\ NonRealtime # <<>>
BY DEF NonRealtime, Bytes, Byte

\* ci::message::message
LEMMA MessageFormed ==
  \A t, e \in Byte : \A s, d \in Nat : HasHeader(Message(t, s, d, e))
<1> TAKE t, e \in Byte
<1> TAKE s, d \in Nat
<1>1. /\ <<e, 13, t, Version2>> \in Bytes
      /\ Len(<<e, 13, t, Version2>>) = 4
  BY DEF Bytes, Byte, Version2
<1>2. /\ Uint28(s) \in Bytes /\ Len(Uint28(s)) = 4
      /\ Uint28(d) \in Bytes /\ Len(Uint28(d)) = 4
  BY Numbers14, Zenon
<1>3. \A a, b, c \in Bytes :
        Len(a) = 4 /\ Len(b) = 4 /\ Len(c) = 4 =>
          a \o b \o c \in Bytes /\ Len(a \o b \o c) = 12
  <2> TAKE a, b, c \in Bytes
  <2> HAVE Len(a) = 4 /\ Len(b) = 4 /\ Len(c) = 4
  <2>1. a \o b \in Bytes /\ Len(a \o b) = Len(a) + Len(b)
    BY Joined, Zenon
  <2>2. a \o b \o c \in Bytes /\ Len(a \o b \o c) = Len(a \o b) + Len(c)
    BY <2>1, Joined, Zenon
  <2>3. Len(a \o b) + Len(c) = 12
    BY <2>1
  <2> QED BY <2>2, <2>3, Zenon
<1> DEFINE bytes == <<e, 13, t, Version2>> \o Uint28(s) \o Uint28(d)
<1>4. bytes \in Bytes /\ Len(bytes) = 12
  BY <1>1, <1>2, <1>3, Zenon
<1>5. Message(t, s, d, e) = [manufacturer |-> NonRealtime, data |-> bytes]
  BY DEF Message
<1> HIDE DEF bytes
<1>6. /\ Message(t, s, d, e) \in Packed
      /\ Message(t, s, d, e).manufacturer = NonRealtime
      /\ Message(t, s, d, e).data = bytes
  BY <1>4, <1>5, NonRealtimeType DEF Packed
<1>7. 12 >= Payload
  BY DEF Payload
<1> QED BY <1>4, <1>6, <1>7, Zenon DEF HasHeader, Formed

\* sysex7::add_data
LEMMA AddedFormed ==
  ASSUME NEW m, HasHeader(m), NEW bytes \in Bytes
  PROVE  HasHeader(Added(m, bytes))
<1>1. m \in Packed /\ m.manufacturer = NonRealtime /\ m.data \in Bytes /\ Len(m.data) >= Payload
  BY DEF HasHeader, Formed, Packed
<1>2. /\ m.data \o bytes \in Bytes
      /\ Len(m.data \o bytes) = Len(m.data) + Len(bytes)
      /\ Len(m.data) \in Nat /\ Len(bytes) \in Nat
  BY <1>1, Joined, Zenon
<1>3. Len(m.data \o bytes) >= Payload
  BY <1>1, <1>2 DEF Payload
<1>4. Added(m, bytes) \in Packed
  BY <1>1, <1>2 DEF Added, Packed
<1>5. /\ Added(m, bytes).manufacturer = NonRealtime
      /\ Added(m, bytes).data = m.data \o bytes
  BY <1>1 DEF Added, Packed
<1> QED BY <1>3, <1>4, <1>5 DEF HasHeader, Formed

\* Bytes are written over others: nothing moves.
LEMMA OverwrittenFormed ==
  ASSUME NEW m \in Packed, NEW k \in Nat, NEW bytes \in Bytes
  PROVE  /\ Overwritten(m, k, bytes) \in Packed
         /\ Overwritten(m, k, bytes).manufacturer = m.manufacturer
         /\ Len(Overwritten(m, k, bytes).data) = Len(m.data)
<1> DEFINE over == [i \in DOMAIN m.data |->
                      IF i - k \in 1..Len(bytes) THEN bytes[i - k] ELSE m.data[i]]
<1>1. /\ m.data \in Bytes /\ Len(m.data) \in Nat
      /\ m.data \in [1..Len(m.data) -> Byte] /\ DOMAIN m.data = 1..Len(m.data)
      /\ \A i \in 1..Len(bytes) : bytes[i] \in Byte
  BY LenProperties, ElementOfSeq DEF Packed, Bytes
<1>2. over \in [1..Len(m.data) -> Byte]
  BY <1>1
<1>3. over \in Bytes /\ Len(over) = Len(m.data)
  BY <1>1, <1>2 DEF Bytes
<1>4. Overwritten(m, k, bytes) = [m EXCEPT !.data = over]
  BY DEF Overwritten
<1> HIDE DEF over
<1> QED BY <1>3, <1>4 DEF Packed

\* A message of version 1
LEMMA Version1Formed ==
  ASSUME NEW m, HasHeader(m)
  PROVE  HasHeader(WithVersion1(m))
<1>1. <<Version1>> \in Bytes
  BY DEF Version1, Bytes, Byte
<1> QED BY <1>1, OverwrittenFormed DEF WithVersion1, HasHeader, Formed

\* All factories of MIDI-CI add bytes to the header.
LEMMA FactoryFormed ==
  \A t, e \in Byte : \A s, d \in Nat : \A bytes \in Bytes :
    HasHeader(Added(Message(t, s, d, e), bytes))
BY MessageFormed, AddedFormed

LEMMA SubtypeBytes ==
  /\ \A v \in {"discovery_inquiry", "discovery_reply", "endpoint_information_inquiry",
               "endpoint_information_reply", "ack", "invalidate_muid", "nak"} :
       Management[v] \in Byte
  /\ \A v \in {"profile_inquiry", "profile_inquiry_reply", "set_profile_on", "set_profile_off",
               "profile_enabled", "profile_disabled", "profile_added", "profile_removed",
               "profile_details_inquiry", "profile_details_reply", "profile_specific_data"} :
       ProfileConfiguration[v] \in Byte
  /\ \A v \in {"property_exchange_capabilities_inquiry", "property_exchange_capabilities_reply",
               "get_property_data_inquiry", "get_property_data_reply",
               "set_property_data_inquiry", "set_property_data_reply",
               "subscription_inquiry", "subscription_reply", "notify"} :
       PropertyExchange[v] \in Byte
  /\ \A v \in {"process_inquiry_capabilities_inquiry", "process_inquiry_capabilities_reply",
               "midi_message_report_inquiry", "midi_message_report_reply",
               "midi_message_report_end"} :
       ProcessInquiry[v] \in Byte
<1>1. \A v \in {"discovery_inquiry", "discovery_reply", "endpoint_information_inquiry",
                "endpoint_information_reply", "ack", "invalidate_muid", "nak"} :
        Management[v] \in Byte
  BY DEF Management, Byte
<1>2. \A v \in {"profile_inquiry", "profile_inquiry_reply", "set_profile_on", "set_profile_off",
                "profile_enabled", "profile_disabled", "profile_added", "profile_removed",
                "profile_details_inquiry", "profile_details_reply", "profile_specific_data"} :
        ProfileConfiguration[v] \in Byte
  BY DEF ProfileConfiguration, Byte
<1>3. \A v \in {"property_exchange_capabilities_inquiry", "property_exchange_capabilities_reply",
                "get_property_data_inquiry", "get_property_data_reply",
                "set_property_data_inquiry", "set_property_data_reply",
                "subscription_inquiry", "subscription_reply", "notify"} :
        PropertyExchange[v] \in Byte
  BY DEF PropertyExchange, Byte
<1>4. \A v \in {"process_inquiry_capabilities_inquiry", "process_inquiry_capabilities_reply",
                "midi_message_report_inquiry", "midi_message_report_reply",
                "midi_message_report_end"} :
        ProcessInquiry[v] \in Byte
  BY DEF ProcessInquiry, Byte
<1> QED BY <1>1, <1>2, <1>3, <1>4

\* An array of bytes is a sequence.
LEMMA FixedSize == \A n \in Nat : \A f \in [1..n -> Byte] : f \in Bytes /\ Len(f) = n
BY DEF Bytes

\* What the constants are.
LEMMA Arguments ==
  /\ \A b \in Devices \union NewDevices \union Numbers \union Damages : b \in Byte /\ b \in Nat
  /\ AllDevices \in Byte
  /\ \A m \in Muids \union NewMuids : m \in Nat
  /\ \A b \in Blobs : b \in Bytes /\ Len(b) \in Nat /\ (Len(b) % Word) \in Nat
  /\ \A p \in ProfileIds \union Details :
       /\ p \in Bytes /\ Len(p) = 5 /\ DOMAIN p = 1..5
       /\ \A k \in 1..5 : p[k] \in Byte
<1>1. \A b \in Devices \union NewDevices \union Numbers \union Damages : b \in Byte /\ b \in Nat
  <2>1. \A b \in Byte : b \in Nat
    BY DEF Byte
  <2>2. Devices \union NewDevices \union Numbers \union Damages \subseteq Byte
    BY MessageAssumption DEF MessageAssumption
  <2> QED BY <2>1, <2>2, Zenon
<1>2. AllDevices \in Byte
  BY DEF AllDevices, Byte
<1>3. \A m \in Muids \union NewMuids : m \in Nat
  BY MessageAssumption DEF MessageAssumption
<1>4. \A b \in Blobs : b \in Bytes /\ Len(b) \in Nat
  BY MessageAssumption, LenProperties DEF MessageAssumption, Bytes
<1>5. Word \in Nat /\ Word > 0
  BY RadixAssumption DEF RadixAssumption
<1>6. \A n, w \in Nat : w > 0 => (n % w) \in Nat
  OBVIOUS
<1>7. \A b \in Blobs : (Len(b) % Word) \in Nat
  BY <1>4, <1>5, <1>6
<1>8. \A p \in ProfileIds \union Details : p \in [1..5 -> Byte]
  BY MessageAssumption DEF MessageAssumption
<1>9. \A p \in [1..5 -> Byte] : /\ p \in Bytes /\ Len(p) = 5 /\ DOMAIN p = 1..5
                                /\ \A k \in 1..5 : p[k] \in Byte
  BY FixedSize
<1> QED BY <1>1, <1>2, <1>3, <1>4, <1>7, <1>8, <1>9

LEMMA IdentityBytes ==
  ASSUME NEW i \in Identities
  PROVE  /\ DeviceIdentity(i) \in Bytes
         /\ i.manufacturer \in [1..3 -> Byte] /\ i.manufacturer \in Bytes
         /\ i.family \in Nat /\ i.model \in Nat /\ i.revision \in Nat
<1>1. /\ i.manufacturer \in [1..3 -> Byte]
      /\ i.family \in Nat /\ i.model \in Nat /\ i.revision \in Nat
  BY MessageAssumption DEF MessageAssumption
<1>2. i.manufacturer \in Bytes
  BY <1>1, FixedSize
<1>3. Uint14(i.family) \in Bytes /\ Uint14(i.model) \in Bytes /\ Uint28(i.revision) \in Bytes
  BY <1>1, Numbers14, Zenon
<1>4. DeviceIdentity(i) \in Bytes
  BY <1>2, <1>3, Joined, Zenon DEF DeviceIdentity
<1> QED BY <1>1, <1>2, <1>4

-----------------------------------------------------------------------------
(* The messages that are made. *)

LEMMA DiscoveryFormed ==
  ASSUME NEW t \in Byte, NEW s \in Nat, NEW d \in Nat, NEW i \in Identities,
         NEW p \in Nat, NEW n \in Nat, NEW q \in Nat, NEW b \in Nat
  PROVE  /\ HasHeader(Discovery(t, s, d, i, p, n, q))
         /\ HasHeader(DiscoveryV1(t, s, d, i, p, n))
         /\ HasHeader(DiscoveryReply(s, d, i, p, n, q, b))
<1>1. /\ Uint7(p) \in Bytes /\ Uint28(n) \in Bytes /\ Uint7(q) \in Bytes /\ Uint7(b) \in Bytes
      /\ DeviceIdentity(i) \in Bytes
  BY Numbers14, IdentityBytes, Zenon
<1>2. /\ DeviceIdentity(i) \o Uint7(p) \o Uint28(n) \in Bytes
      /\ DeviceIdentity(i) \o Uint7(p) \o Uint28(n) \o Uint7(q) \in Bytes
  BY <1>1, Joined, Zenon
<1>3. AllDevices \in Byte /\ Management.discovery_reply \in Byte
  BY Arguments, SubtypeBytes
<1>4. \A k \in Byte : HasHeader(Discovery(k, s, d, i, p, n, q))
  BY <1>2, <1>3, FactoryFormed, Zenon DEF Discovery
<1>5. HasHeader(Added(Message(t, s, d, AllDevices), DeviceIdentity(i) \o Uint7(p) \o Uint28(n)))
  BY <1>2, <1>3, FactoryFormed, Zenon
<1>6. HasHeader(DiscoveryV1(t, s, d, i, p, n))
  BY <1>5, Version1Formed DEF DiscoveryV1
<1>7. HasHeader(DiscoveryReply(s, d, i, p, n, q, b))
  BY <1>1, <1>3, <1>4, AddedFormed DEF DiscoveryReply
<1> QED BY <1>4, <1>6, <1>7

LEMMA AcknowledgementFormed ==
  ASSUME NEW t \in Byte, NEW s \in Nat, NEW d \in Nat, NEW e \in Byte,
         NEW r \in Byte, NEW c \in Byte, NEW x \in Details, NEW b \in Blobs
  PROVE  /\ HasHeader(Acknowledgement(t, s, d, e, r, c, c, x, b))
         /\ HasHeader(NakV1(s, d, e))
<1>1. <<r, c, c>> \in Bytes
  BY DEF Bytes
<1>2. x \in Bytes /\ b \in Bytes /\ Uint14(Len(b) % Word) \in Bytes
  BY Arguments, Numbers14
<1>3. <<r, c, c>> \o x \o Uint14(Len(b) % Word) \o b \in Bytes
  BY <1>1, <1>2, Joined, Zenon
<1>4. HasHeader(Acknowledgement(t, s, d, e, r, c, c, x, b))
  BY <1>3, FactoryFormed, Zenon DEF Acknowledgement
<1>5. HasHeader(Message(Management.nak, s, d, e))
  BY SubtypeBytes, MessageFormed
<1> QED BY <1>4, <1>5, Version1Formed DEF NakV1

LEMMA PropertyFormed ==
  ASSUME NEW t \in Byte, NEW s \in Nat, NEW d \in Nat, NEW e \in Byte,
         NEW h \in Bytes, NEW b \in Bytes, Len(h) \in Nat, Len(b) \in Nat,
         NEW chunks \in Nat, NEW this \in Nat, NEW n \in Nat
  PROVE  HasHeader(PropertyData(t, s, d, h, chunks, this, b, n, e))
<1>1. Word \in Nat /\ Word > 0
  BY RadixAssumption DEF RadixAssumption
<1>2. \A k, w \in Nat : w > 0 => (k % w) \in Nat
  OBVIOUS
<1>3. (Len(h) % Word) \in Nat /\ (Len(b) % Word) \in Nat
  BY <1>1, <1>2
<1>4. /\ Uint7(n) \in Bytes /\ Uint14(Len(h) % Word) \in Bytes /\ Uint14(chunks) \in Bytes
      /\ Uint14(this) \in Bytes /\ Uint14(Len(b) % Word) \in Bytes
  BY <1>3, Numbers14, Zenon
<1>5. Uint7(n) \o Uint14(Len(h) % Word) \o h \in Bytes
  BY <1>4, Joined, Zenon
<1>6. Uint7(n) \o Uint14(Len(h) % Word) \o h \o Uint14(chunks) \o Uint14(this)
        \o Uint14(Len(b) % Word) \o b \in Bytes
  BY <1>4, <1>5, Joined, Zenon
<1> QED BY <1>6, FactoryFormed, Zenon DEF PropertyData

\* Profile IDs one after the other
LEMMA FlatBytes ==
  ASSUME NEW list \in ProfileLists
  PROVE  Flat(list) \in Bytes /\ Len(list) \in Nat
<1>1. /\ Len(list) \in Nat
      /\ \A j \in 1..Len(list) : list[j] \in ProfileIds
  BY DEF ProfileLists
<1>2. \A n \in Nat : \A i \in 1..5 * n :
        /\ ((i - 1) \div 5) + 1 \in 1..n
        /\ ((i - 1) % 5) + 1 \in 1..5
  OBVIOUS
<1>3. \A i \in 1..5 * Len(list) :
        list[((i - 1) \div 5) + 1][((i - 1) % 5) + 1] \in Byte
  BY <1>1, <1>2, Arguments
<1>4. 5 * Len(list) \in Nat
  BY <1>1
<1>5. Flat(list) \in [1..5 * Len(list) -> Byte]
  BY <1>3 DEF Flat, ProfileSize
<1> QED BY <1>1, <1>4, <1>5, FixedSize

LEMMA IdentityRequestFormed ==
  ASSUME NEW e \in Byte
  PROVE  Formed(IdentityRequest(e))
<1>1. <<e, 6, 1>> \in Bytes
  BY DEF Bytes, Byte
<1> QED BY <1>1, NonRealtimeType DEF IdentityRequest, Formed, Packed

LEMMA IdentityReplyFormed ==
  ASSUME NEW i \in Identities, NEW e \in Byte
  PROVE  Formed(IdentityReply(i, e))
<1>1. <<e, 6, 2>> \in Bytes
  BY DEF Bytes, Byte
<1>2. /\ <<i.manufacturer[1]>> \in Bytes /\ i.manufacturer \in Bytes
      /\ Uint14(i.family) \in Bytes /\ Uint14(i.model) \in Bytes /\ Uint28(i.revision) \in Bytes
  <2>1. i.manufacturer[1] \in Byte
    BY IdentityBytes
  <2>2. \A b \in Byte : <<b>> \in Bytes
    BY DEF Bytes
  <2> QED BY <2>1, <2>2, IdentityBytes, Numbers14, Zenon
<1>3. <<e, 6, 2>>
        \o (IF i.manufacturer[1] = 0 THEN i.manufacturer ELSE <<i.manufacturer[1]>>)
        \o Uint14(i.family) \o Uint14(i.model) \o Uint28(i.revision) \in Bytes
  <2>1. (IF i.manufacturer[1] = 0 THEN i.manufacturer ELSE <<i.manufacturer[1]>>) \in Bytes
    BY <1>2
  <2> QED BY <1>1, <1>2, <2>1, Joined, Zenon
<1> QED BY <1>1, <1>3, NonRealtimeType DEF IdentityReply, Formed, Packed

\* A factory returned a message.
Returned ==
  \E m, header, fields :
    /\ Make(m, header, fields)
    /\ HasHeader(m) \/ (Formed(m) /\ header = NoHeader)

LEMMA ManagementReturned == MakeManagement => Returned
<1> HAVE MakeManagement
<1> USE DEF Returned
<1>1. CASE MakeIdentityRequest
  BY <1>1, IdentityRequestFormed, Arguments DEF MakeIdentityRequest
<1>2. CASE MakeIdentityReply
  BY <1>2, IdentityReplyFormed, Arguments DEF MakeIdentityReply
<1>3. CASE MakeDiscoveryInquiry
  <2>1. \A s, n \in Muids, i \in Identities, p \in Numbers :
          HasHeader(Discovery(Management.discovery_inquiry, s, Broadcast, i, p, n, p))
    BY DiscoveryFormed, SubtypeBytes, Arguments, Powers
  <2> QED BY <1>3, <2>1 DEF MakeDiscoveryInquiry
<1>4. CASE MakeDiscoveryInquiryV1
  <2>1. \A s \in Muids, i \in Identities, p \in Numbers :
          HasHeader(DiscoveryV1(Management.discovery_inquiry, s, Broadcast, i, p, s))
    BY DiscoveryFormed, SubtypeBytes, Arguments, Powers
  <2> QED BY <1>4, <2>1 DEF MakeDiscoveryInquiryV1
<1>5. CASE MakeDiscoveryReply
  <2>1. \A s, d \in Muids, i \in Identities, p, b \in Numbers :
          HasHeader(DiscoveryReply(s, d, i, p, s, p, b))
    BY DiscoveryFormed, SubtypeBytes, Arguments
  <2> QED BY <1>5, <2>1 DEF MakeDiscoveryReply
<1>6. CASE MakeDiscoveryReplyV1
  <2>1. \A s, d \in Muids, i \in Identities, p \in Numbers :
          HasHeader(DiscoveryV1(Management.discovery_reply, s, d, i, p, s))
    BY DiscoveryFormed, SubtypeBytes, Arguments
  <2> QED BY <1>6, <2>1 DEF MakeDiscoveryReplyV1
<1>7. CASE MakeEndpointInquiry
  <2>1. \A s, d \in Muids, p \in Numbers : HasHeader(EndpointInquiry(s, d, p))
    BY FactoryFormed, SubtypeBytes, Arguments, Numbers14 DEF EndpointInquiry
  <2> QED BY <1>7, <2>1 DEF MakeEndpointInquiry
<1>8. CASE MakeEndpointReply
  <2>1. \A s, d \in Muids, p \in Numbers, b \in Blobs : HasHeader(EndpointReply(s, d, p, b))
    <3> TAKE s, d \in Muids, p \in Numbers, b \in Blobs
    <3>1. Uint7(p) \in Bytes /\ Uint14(Len(b) % Word) \in Bytes /\ b \in Bytes
      BY Arguments, Numbers14
    <3>2. Uint7(p) \o Uint14(Len(b) % Word) \o b \in Bytes
      BY <3>1, Joined, Zenon
    <3>3. s \in Nat /\ d \in Nat /\ AllDevices \in Byte
          /\ Management.endpoint_information_reply \in Byte
      BY Arguments, SubtypeBytes
    <3> QED BY <3>2, <3>3, FactoryFormed, Zenon DEF EndpointReply
  <2> QED BY <1>8, <2>1 DEF MakeEndpointReply
<1>9. CASE MakeAcknowledgement
  <2>1. \A s, d \in Muids, e \in Devices, p \in Numbers, x \in Details, b \in Blobs :
        \A v \in {"ack", "nak"} :
          HasHeader(Acknowledgement(Management[v], s, d, e, Management.discovery_inquiry,
                                    p, p, x, b))
    BY AcknowledgementFormed, SubtypeBytes, Arguments
  <2> QED BY <1>9, <2>1 DEF MakeAcknowledgement
<1>10. CASE MakeNakV1
  <2>1. \A s, d \in Muids, e \in Devices : HasHeader(NakV1(s, d, e))
    BY MessageFormed, Version1Formed, SubtypeBytes, Arguments DEF NakV1
  <2> QED BY <1>10, <2>1 DEF MakeNakV1
<1>11. CASE MakeInvalidateMuid
  <2>1. \A s, t \in Muids : HasHeader(InvalidateMuid(s, t))
    BY FactoryFormed, SubtypeBytes, Arguments, Numbers14, Powers DEF InvalidateMuid
  <2> QED BY <1>11, <2>1 DEF MakeInvalidateMuid
<1> QED BY <1>1, <1>2, <1>3, <1>4, <1>5, <1>6, <1>7, <1>8, <1>9, <1>10, <1>11
        DEF MakeManagement

LEMMA ProfileReturned == MakeProfile => Returned
<1> HAVE MakeProfile
<1> USE DEF Returned
<1>1. CASE MakeProfileInquiry
  <2>1. \A s, d \in Muids, e \in Devices :
          HasHeader(Message(ProfileConfiguration.profile_inquiry, s, d, e))
    BY MessageFormed, SubtypeBytes, Arguments
  <2> QED BY <1>1, <2>1 DEF MakeProfileInquiry
<1>2. CASE MakeProfileInquiryReply
  <2>1. \A s, d \in Muids, e \in Devices, on, off \in ProfileLists :
          HasHeader(ProfileInquiryReply(s, d, on, off, e))
    <3> TAKE s, d \in Muids, e \in Devices, on, off \in ProfileLists
    <3>1. /\ Flat(on) \in Bytes /\ Flat(off) \in Bytes
          /\ Uint14(Len(on)) \in Bytes /\ Uint14(Len(off)) \in Bytes
      BY FlatBytes, Numbers14
    <3>2. Uint14(Len(on)) \o Flat(on) \o Uint14(Len(off)) \o Flat(off) \in Bytes
      BY <3>1, Joined, Zenon
    <3>3. /\ s \in Nat /\ d \in Nat /\ e \in Byte
          /\ ProfileConfiguration.profile_inquiry_reply \in Byte
      BY Arguments, SubtypeBytes
    <3> QED BY <3>2, <3>3, FactoryFormed, Zenon DEF ProfileInquiryReply
  <2> QED BY <1>2, <2>1 DEF MakeProfileInquiryReply
<1>3. CASE MakeProfileAt
  <2>1. \A t \in Byte : \A s, d \in Muids, e \in Devices, p \in ProfileIds, n \in Numbers :
          HasHeader(ProfileAt(t, s, d, p, e, n))
    <3> TAKE t \in Byte
    <3> TAKE s, d \in Muids, e \in Devices, p \in ProfileIds, n \in Numbers
    <3> DEFINE channels == IF t = ProfileConfiguration.set_profile_off THEN 0 ELSE n
    <3>1. channels \in Nat /\ p \in Bytes /\ s \in Nat /\ d \in Nat /\ e \in Byte
      BY Arguments
    <3> HIDE DEF channels
    <3>2. p \o Uint14(channels) \in Bytes
      BY <3>1, Numbers14, Joined, Zenon
    <3>3. HasHeader(Added(Message(t, s, d, e), p \o Uint14(channels)))
      BY <3>1, <3>2, FactoryFormed, Zenon
    <3> QED BY <3>3 DEF ProfileAt, channels
  <2>2. \A t \in {ProfileConfiguration.set_profile_on, ProfileConfiguration.set_profile_off,
                  ProfileConfiguration.profile_enabled, ProfileConfiguration.profile_disabled} :
          t \in Byte
    BY SubtypeBytes
  <2> QED BY <1>3, <2>1, <2>2 DEF MakeProfileAt
<1>4. CASE MakeProfileNotification
  <2>1. \A t \in {ProfileConfiguration.profile_added, ProfileConfiguration.profile_removed} :
        \A s, d \in Muids, e \in Devices, p \in ProfileIds :
          HasHeader(ProfileNotification(t, s, d, p, e))
    BY FactoryFormed, SubtypeBytes, Arguments DEF ProfileNotification
  <2> QED BY <1>4, <2>1 DEF MakeProfileNotification
<1>5. CASE MakeProfileDetailsInquiry
  <2>1. \A s, d \in Muids, e \in Devices, p \in ProfileIds, n \in Numbers :
          HasHeader(ProfileDetailsInquiry(s, d, p, n, e))
    <3> TAKE s, d \in Muids, e \in Devices, p \in ProfileIds, n \in Numbers
    <3>1. /\ p \in Bytes /\ n \in Nat /\ s \in Nat /\ d \in Nat /\ e \in Byte
          /\ ProfileConfiguration.profile_details_inquiry \in Byte
      BY Arguments, SubtypeBytes
    <3>2. p \o Uint7(n) \in Bytes
      BY <3>1, Numbers14, Joined, Zenon
    <3> QED BY <3>1, <3>2, FactoryFormed, Zenon DEF ProfileDetailsInquiry
  <2> QED BY <1>5, <2>1 DEF MakeProfileDetailsInquiry
<1>6. CASE MakeProfileDetailsReply
  <2>1. \A s, d \in Muids, e \in Devices, p \in ProfileIds, n \in Numbers, b \in Blobs :
          HasHeader(ProfileDetailsReply(s, d, p, n, b, e))
    <3> TAKE s, d \in Muids, e \in Devices, p \in ProfileIds, n \in Numbers, b \in Blobs
    <3>1. /\ p \in Bytes /\ n \in Nat /\ s \in Nat /\ d \in Nat /\ e \in Byte
          /\ b \in Bytes /\ (Len(b) % Word) \in Nat
          /\ ProfileConfiguration.profile_details_reply \in Byte
      BY Arguments, SubtypeBytes
    <3>2. p \o Uint7(n) \o Uint14(Len(b) % Word) \o b \in Bytes
      BY <3>1, Numbers14, Joined, Zenon
    <3> QED BY <3>1, <3>2, FactoryFormed, Zenon DEF ProfileDetailsReply
  <2> QED BY <1>6, <2>1 DEF MakeProfileDetailsReply
<1>7. \A s, d \in Muids, e \in Devices, p \in ProfileIds : \A b \in Bytes :
        HasHeader(SpecificData(s, d, p, b, e))
  <2> TAKE s, d \in Muids, e \in Devices, p \in ProfileIds
  <2> TAKE b \in Bytes
  <2>1. /\ p \in Bytes /\ s \in Nat /\ d \in Nat /\ e \in Byte
        /\ ProfileConfiguration.profile_specific_data \in Byte
    BY Arguments, SubtypeBytes
  <2>2. p \o Uint28(Len(b)) \o b \in Bytes
    BY <2>1, Numbers14, Joined, Zenon
  <2> QED BY <2>1, <2>2, FactoryFormed, Zenon DEF SpecificData
<1>8. CASE MakeSpecificData
  BY <1>7, <1>8, Arguments DEF MakeSpecificData
<1>9. CASE MakeSpecificDataOf
  <2>1. \A b \in Blobs : SubSeq(b, 1, Len(b) % Word) \in Bytes
    <3> TAKE b \in Blobs
    <3>1. /\ b \in Bytes /\ Len(b) \in Nat /\ (Len(b) % Word) \in Nat
          /\ \A i \in 1..Len(b) : b[i] \in Byte
      BY Arguments, ElementOfSeq DEF Bytes
    <3>2. (Len(b) % Word) <= Len(b)
      <4>1. \A n, w \in Nat : w > 0 => (n % w) <= n
        OBVIOUS
      <4>2. Word \in Nat /\ Word > 0
        BY RadixAssumption DEF RadixAssumption
      <4> QED BY <3>1, <4>1, <4>2
    <3>3. \A k \in Nat : k <= Len(b) => SubSeq(b, 1, k) \in Bytes
      BY <3>1, SubSeqProperties DEF Bytes
    <3> QED BY <3>1, <3>2, <3>3, Zenon
  <2>2. \A s, d \in Muids, e \in Devices, p \in ProfileIds, b \in Blobs :
          HasHeader(SpecificDataOf(s, d, p, b, e))
    BY <1>7, <2>1, Zenon DEF SpecificDataOf
  <2> QED BY <1>9, <2>2 DEF MakeSpecificDataOf
<1> QED BY <1>1, <1>2, <1>3, <1>4, <1>5, <1>6, <1>8, <1>9 DEF MakeProfile

LEMMA WithoutDataReturned ==
  ASSUME NEW v, NEW t \in Byte, WithoutData(v, t)
  PROVE  Returned
<1> DEFINE k == IF t = PropertyExchange.subscription_inquiry THEN 0 ELSE 1
<1>1. \A s, d \in Muids, e \in Devices, n \in Numbers, h \in Blobs :
        HasHeader(PropertyMessage(t, s, d, h, n, e))
  <2> TAKE s, d \in Muids, e \in Devices, n \in Numbers, h \in Blobs
  <2>1. /\ s \in Nat /\ d \in Nat /\ e \in Byte /\ n \in Nat /\ h \in Bytes /\ Len(h) \in Nat
        /\ k \in Nat
    BY Arguments
  <2>2. <<>> \in Bytes /\ Len(<<>>) \in Nat
    BY DEF Bytes
  <2> HIDE DEF k
  <2>3. HasHeader(PropertyData(t, s, d, h, k, k, <<>>, n, e))
    BY <2>1, <2>2, PropertyFormed
  <2> QED BY <2>3 DEF PropertyMessage, k
<1> QED BY <1>1 DEF WithoutData, Returned

LEMMA WithDataReturned ==
  ASSUME NEW v, NEW t \in Byte, WithData(v, t)
  PROVE  Returned
<1>1. PICK s, d \in Muids, e \in Devices, n \in Numbers, h, b \in Blobs, chunks, this \in 0..3 :
        Make(PropertyData(t, s, d, h, chunks, this, b, n, e), Header(t, s, d, e),
             Only(v, PropertyFields(h, chunks, this, b, n)))
  BY DEF WithData
<1>2. /\ s \in Nat /\ d \in Nat /\ e \in Byte /\ n \in Nat
      /\ h \in Bytes /\ Len(h) \in Nat /\ b \in Bytes /\ Len(b) \in Nat
      /\ chunks \in Nat /\ this \in Nat
  BY Arguments
<1>3. HasHeader(PropertyData(t, s, d, h, chunks, this, b, n, e))
  BY <1>2, PropertyFormed
<1> QED BY <1>1, <1>3 DEF Returned

LEMMA PropertyReturned == MakeProperty => Returned
<1> HAVE MakeProperty
<1>1. CASE MakeCapabilities
  <2>1. \A t \in {PropertyExchange.property_exchange_capabilities_inquiry,
                  PropertyExchange.property_exchange_capabilities_reply} :
        \A s, d \in Muids, e \in Devices, n \in Numbers :
          HasHeader(Capabilities(t, s, d, n, e))
    <3>1. \A n \in Byte : <<n, 0, 0>> \in Bytes
      BY DEF Bytes, Byte
    <3> QED BY <3>1, FactoryFormed, SubtypeBytes, Arguments DEF Capabilities
  <2> QED BY <1>1, <2>1 DEF MakeCapabilities, Returned
<1>2. CASE MakeGetProperty
  BY <1>2, WithoutDataReturned, WithDataReturned, SubtypeBytes DEF MakeGetProperty
<1>3. CASE MakeSetProperty
  BY <1>3, WithoutDataReturned, WithDataReturned, SubtypeBytes DEF MakeSetProperty
<1>4. CASE MakeSubscription
  BY <1>4, WithoutDataReturned, WithDataReturned, SubtypeBytes DEF MakeSubscription
<1>5. CASE MakeNotify
  BY <1>5, WithoutDataReturned, SubtypeBytes DEF MakeNotify
<1> QED BY <1>1, <1>2, <1>3, <1>4, <1>5 DEF MakeProperty

LEMMA ProcessReturned == MakeProcess => Returned
<1> HAVE MakeProcess
<1> USE DEF Returned
<1>1. CASE MakeProcessInquiry
  <2>1. \A s \in Muids, d \in Nat, e \in Devices :
          /\ HasHeader(Message(ProcessInquiry.process_inquiry_capabilities_inquiry, s, d, e))
          /\ HasHeader(Message(ProcessInquiry.midi_message_report_end, s, d, e))
    BY MessageFormed, SubtypeBytes, Arguments
  <2>2. \A d \in Muids : d \in Nat
    BY Arguments
  <2> QED BY <1>1, <2>1, <2>2, Powers DEF MakeProcessInquiry
<1>2. CASE MakeProcessReply
  <2>1. \A s, d \in Muids, e \in Devices, n \in Numbers : HasHeader(ProcessReply(s, d, n, e))
    <3>1. \A n \in Byte : <<n>> \in Bytes
      BY DEF Bytes
    <3> QED BY <3>1, FactoryFormed, SubtypeBytes, Arguments DEF ProcessReply
  <2> QED BY <1>2, <2>1 DEF MakeProcessReply
<1>3. CASE MakeReportInquiry
  <2>1. \A s, d \in Muids, e \in Devices, a, b, c \in Numbers :
          HasHeader(ReportInquiry(s, d, a, b, c, a, e))
    <3>1. \A a, b, c \in Byte : <<a, b, 0, c, a>> \in Bytes
      BY DEF Bytes, Byte
    <3> QED BY <3>1, FactoryFormed, SubtypeBytes, Arguments DEF ReportInquiry
  <2> QED BY <1>3, <2>1 DEF MakeReportInquiry
<1>4. CASE MakeReportReply
  <2>1. \A s \in Muids, e \in Devices, a, b, c \in Numbers :
          HasHeader(ReportReply(s, a, b, c, e))
    <3>1. \A a, b, c \in Byte : <<a, 0, b, c>> \in Bytes
      BY DEF Bytes, Byte
    <3> QED BY <3>1, FactoryFormed, SubtypeBytes, Arguments, Powers DEF ReportReply
  <2> QED BY <1>4, <2>1 DEF MakeReportReply
<1> QED BY <1>1, <1>2, <1>3, <1>4 DEF MakeProcess

-----------------------------------------------------------------------------
(* The invariant. *)

\* A message that is there has an ID of its own.
LEMMA NotNoMessage ==
  \A m : m.manufacturer = NonRealtime => m # NoMessage
BY NonRealtimeType DEF NoMessage

LEMMA Initially == Init => IInv
<1> HAVE Init
<1>1. sx = [manufacturer |-> <<>>, data |-> <<>>] /\ damage = "none"
  BY DEF Init, NoMessage
<1>2. <<>> \in Seq(Byte)
  OBVIOUS
<1> QED BY <1>1, <1>2 DEF IInv, TypeOK, Whole, NoMessage

LEMMA MakePreserves == IInv /\ Returned => IInv'
<1> HAVE IInv /\ Returned
<1>1. PICK m, header, fields :
        /\ Make(m, header, fields)
        /\ HasHeader(m) \/ (Formed(m) /\ header = NoHeader)
  BY DEF Returned
<1>2. sx' = m /\ damage' = damage /\ damage = "none" /\ made'.header = header
  BY <1>1 DEF Make, IInv, TypeOK
<1>3. m \in Packed /\ m.manufacturer = NonRealtime
  BY <1>1 DEF HasHeader, Formed
<1>4. header # NoHeader => Len(m.data) >= Payload
  BY <1>1 DEF HasHeader
<1>5. TypeOK'
  BY <1>2, <1>3 DEF TypeOK, Packed, Bytes
<1> QED BY <1>2, <1>3, <1>4, <1>5 DEF IInv, IsInquiry

\* A message whose header was changed
LEMMA OverwrittenPreserves ==
  ASSUME IInv, Whole, IsInquiry, NEW k \in Nat, NEW bytes \in Bytes,
         sx' = Overwritten(sx, k, bytes), UNCHANGED damage
  PROVE  IInv'
<1>1. sx \in Packed /\ sx.manufacturer = NonRealtime /\ Len(sx.data) >= Payload /\ damage = "none"
  BY DEF IInv, TypeOK, Whole, Packed, Bytes
<1>2. /\ sx' \in Packed /\ sx'.manufacturer = NonRealtime
      /\ Len(sx'.data) >= Payload
  BY <1>1, OverwrittenFormed
<1>3. TypeOK'
  BY <1>1, <1>2 DEF TypeOK, Packed, Bytes
<1> QED BY <1>2, <1>3 DEF IInv

\* The bytes of a complete header can be read.
LEMMA HeaderBytes ==
  ASSUME IInv, Whole, IsInquiry
  PROVE  /\ sx \in Packed /\ sx.manufacturer = NonRealtime /\ damage = "none"
         /\ sx.data \in Bytes /\ Len(sx.data) \in Nat /\ Len(sx.data) >= Payload
         /\ At(sx, 0) \in Byte /\ SubtypeOf(sx) \in Byte
         /\ MakeUint28(sx, 4) \in Nat /\ MakeUint28(sx, 8) \in Nat
<1>1. sx \in Packed /\ sx.manufacturer = NonRealtime /\ Len(sx.data) >= Payload /\ damage = "none"
  BY DEF IInv, TypeOK, Whole, Packed, Bytes
<1>2. sx.data \in Bytes /\ Len(sx.data) \in Nat /\ Len(sx.data) >= 12
  BY <1>1, LenProperties DEF Packed, Bytes, Payload
<1>3. sx.data[1] \in Byte /\ sx.data[3] \in Byte
  BY <1>2, ElementOfSeq DEF Bytes
<1>4. At(sx, 0) \in Byte /\ At(sx, 2) \in Byte
  BY <1>3 DEF At
<1>5. SubtypeOf(sx) \in Byte
  BY <1>4 DEF SubtypeOf, Byte
<1>6. MakeUint28(sx, 4) \in Nat /\ MakeUint28(sx, 8) \in Nat
  BY <1>1, <1>2, ReadLongNumber
<1> QED BY <1>1, <1>2, <1>4, <1>5, <1>6

LEMMA Preserved == IInv /\ [Next]_vars => IInv'
<1> SUFFICES ASSUME IInv, [Next]_vars PROVE IInv'
  OBVIOUS
<1>1. CASE MakeManagement \/ MakeProfile \/ MakeProperty \/ MakeProcess
  BY <1>1, MakePreserves, ManagementReturned, ProfileReturned, PropertyReturned,
     ProcessReturned
<1>2. ASSUME NEW m \in NewMuids, SetSourceMuid(m) \/ SetDestinationMuid(m)
      PROVE  IInv'
  <2>1. Uint28(m) \in Bytes
    BY Arguments, Numbers14
  <2> QED BY <1>2, <2>1, OverwrittenPreserves
          DEF SetSourceMuid, SetDestinationMuid, WithSourceMuid, WithDestinationMuid
<1>3. ASSUME NEW d \in NewDevices, SetDeviceId(d)
      PROVE  IInv'
  <2>1. Whole /\ IsInquiry /\ sx' = WithDeviceId(sx, d) /\ damage' = damage
    BY <1>3 DEF SetDeviceId
  <2>2. /\ sx \in Packed /\ sx.manufacturer = NonRealtime /\ damage = "none"
        /\ sx.data \in Bytes /\ Len(sx.data) \in Nat /\ Len(sx.data) >= 12
    BY <2>1, HeaderBytes DEF Payload
  <2>3. d \in Byte
    BY Arguments
  <2>4. /\ [sx.data EXCEPT ![1] = d] \in Bytes
        /\ Len([sx.data EXCEPT ![1] = d]) = Len(sx.data)
    BY <2>2, <2>3, ExceptSeq DEF Bytes
  <2>5. sx' = [sx EXCEPT !.data = [sx.data EXCEPT ![1] = d]]
    BY <2>1, <2>2 DEF WithDeviceId, Packed
  <2>6. /\ sx' \in Packed /\ sx'.manufacturer = NonRealtime
        /\ Len(sx'.data) >= Payload
    BY <2>2, <2>4, <2>5 DEF Packed, Payload
  <2>7. TypeOK'
    BY <2>1, <2>2, <2>6 DEF TypeOK, Packed, Bytes
  <2> QED BY <2>6, <2>7 DEF IInv
<1>4. ASSUME HasHeader(sx'), Whole, UNCHANGED damage
      PROVE  IInv'
  <2>1. sx' \in Packed /\ sx'.manufacturer = NonRealtime /\ Len(sx'.data) >= Payload
    BY <1>4 DEF HasHeader, Formed
  <2>2. TypeOK'
    BY <1>4, <2>1 DEF TypeOK, Packed, Bytes, Whole
  <2> QED BY <2>1, <2>2 DEF IInv
<1>5. ASSUME NEW c \in Numbers, NEW x \in Details, NEW b \in Blobs, Answer(c, x, b)
      PROVE  IInv'
  <2>1. Whole /\ IsInquiry /\ sx' = NakFor(sx, c, c, x, b) /\ UNCHANGED damage
    BY <1>5 DEF Answer
  <2>2. c \in Byte /\ Management.nak \in Byte
    BY Arguments, SubtypeBytes
  <2>3. HasHeader(sx')
    BY <2>1, <2>2, HeaderBytes, AcknowledgementFormed DEF NakFor
  <2> QED BY <2>1, <2>3, <1>4
<1>6. CASE AnswerV1
  <2>1. /\ Whole /\ IsInquiry /\ UNCHANGED damage
        /\ sx' = NakV1(MakeUint28(sx, 8), MakeUint28(sx, 4), At(sx, 0))
    BY <1>6 DEF AnswerV1
  <2>2. HasHeader(sx')
    BY <2>1, HeaderBytes, MessageFormed, Version1Formed, SubtypeBytes DEF NakV1
  <2> QED BY <2>1, <2>2, <1>4
<1>7. ASSUME NEW n \in 0..Size(sx), Cut(n)
      PROVE  IInv'
  <2>1. /\ Whole /\ n < Len(sx.data) /\ damage' = "cut"
        /\ sx' = [sx EXCEPT !.data = SubSeq(sx.data, 1, n)]
    BY <1>7 DEF Cut, Size
  <2>2. sx \in Packed /\ sx.manufacturer = NonRealtime
    BY <2>1 DEF IInv, TypeOK, Whole, Packed, Bytes
  <2>3. /\ sx.data \in Bytes /\ Len(sx.data) \in Nat
        /\ \A i \in 1..Len(sx.data) : sx.data[i] \in Byte
    BY <2>2, LenProperties, ElementOfSeq DEF Packed, Bytes
  <2>4. n \in Int /\ \A i \in 1..n : sx.data[i] \in Byte
    BY <2>1, <2>3
  <2>5. SubSeq(sx.data, 1, n) \in Bytes
    BY <2>4, SubSeqProperties DEF Bytes
  <2>6. sx' \in Packed /\ sx'.manufacturer = NonRealtime
    BY <2>1, <2>2, <2>5 DEF Packed
  <2>7. sx' # NoMessage
    BY <2>6, NotNoMessage
  <2>8. TypeOK'
    BY <2>1, <2>6, <2>7 DEF TypeOK, Packed, Bytes
  <2> QED BY <2>1, <2>6, <2>8 DEF IInv, Whole
<1>8. ASSUME NEW k \in 0..Size(sx) - 1, NEW b \in Damages, Alter(k, b)
      PROVE  IInv'
  <2>1. Whole /\ damage' = "altered" /\ sx' = Overwritten(sx, k, <<b>>)
    BY <1>8 DEF Alter
  <2>2. sx \in Packed /\ sx.manufacturer = NonRealtime
    BY <2>1 DEF IInv, TypeOK, Whole, Packed, Bytes
  <2>3. Len(sx.data) \in Nat
    BY <2>2, LenProperties DEF Packed, Bytes
  <2>4. k \in Nat
    BY <2>3 DEF Size
  <2>5. <<b>> \in Bytes
    <3>1. b \in Byte
      BY Arguments
    <3> QED BY <3>1 DEF Bytes
  <2>6. sx' \in Packed /\ sx'.manufacturer = NonRealtime
    BY <2>1, <2>2, <2>4, <2>5, OverwrittenFormed
  <2>7. sx' # NoMessage
    BY <2>6, NotNoMessage
  <2>8. TypeOK'
    BY <2>1, <2>6, <2>7 DEF TypeOK, Packed, Bytes
  <2> QED BY <2>1, <2>6, <2>8 DEF IInv, Whole
<1>9. CASE Drop
  <2>1. sx' = NoMessage /\ damage' = "none"
    BY <1>9 DEF Drop
  <2>2. <<>> \in Seq(Byte)
    OBVIOUS
  <2> QED BY <2>1, <2>2 DEF IInv, TypeOK, Whole, NoMessage
<1>10. CASE UNCHANGED vars
  BY <1>10 DEF vars, IInv, TypeOK, Whole, IsInquiry
<1> QED BY <1>1, <1>2, <1>3, <1>5, <1>6, <1>7, <1>8, <1>9, <1>10 DEF Next

\* Whatever was done to a message, it stays a sequence of bytes, and a message of
\* MIDI-CI that nobody damaged has its header: make_nak_message reads it.
THEOREM Invariance == Spec => []IInv
BY Initially, Preserved, PTL DEF Spec

\* Messages consist of bytes: no factory puts a number in that takes more than 7
\* bits, as sysex7::add_uint14 and add_uint28 cut it into digits.
THEOREM TypeCorrect == Spec => []TypeOK
<1>1. IInv => TypeOK
  BY DEF IInv
<1> QED BY <1>1, Invariance, PTL

-----------------------------------------------------------------------------
(* Views. *)

\* What it takes for a view to accept a message
LEMMA AcceptedIf ==
  ASSUME NEW v, NEW m, Accepts(v, m)
  PROVE  /\ v = "identity_reply" => IsIdentityReply(m)
         /\ v = "inquiry" => InquiryValid(m)
         /\ v = "discovery_inquiry" => DiscoveryInquiryValid(m)
         /\ v = "discovery_reply" => DiscoveryReplyValid(m)
         /\ v = "endpoint_inquiry" => EndpointInquiryValid(m)
         /\ v = "endpoint_reply" => EndpointReplyValid(m)
         /\ v = "ack" => AckValid(m)
         /\ v = "nak" => NakValid(m)
         /\ v = "invalidate_muid" => InvalidateMuidValid(m)
         /\ v = "profile_inquiry" => ProfileInquiryValid(m)
         /\ v = "profile_inquiry_reply" => ProfileInquiryReplyValid(m)
         /\ v = "profile_id" => ProfileIdValid(m)
         /\ v = "profile_destination" => ProfileDestinationValid(m)
         /\ v = "profile_details_inquiry" => ProfileDetailsInquiryValid(m)
         /\ v = "profile_details_reply" => ProfileDetailsReplyValid(m)
         /\ v = "profile_specific_data" => SpecificDataValid(m)
         /\ v = "capabilities" => CapabilitiesValid(m)
         /\ v = "get_property" => GetPropertyValid(m)
         /\ v = "set_property" => SetPropertyValid(m)
         /\ v = "subscription" => SubscriptionValid(m)
         /\ v = "notify" => NotifyValid(m)
         /\ v = "process_reply" => ProcessReplyValid(m)
         /\ v = "report_inquiry" => ReportInquiryValid(m)
         /\ v = "report_reply" => ReportReplyValid(m)
BY ZenonT(60) DEF Accepts

\* The views of discovery accept what has the size its version asks for: a message
\* that ends before the version is too short for any.
LEMMA DiscoveryValid ==
  ASSUME NEW m, Size(m) \in Nat
  PROVE  /\ DiscoveryInquiryValid(m) <=>
              /\ Is(m, 28, {112})
              /\ Size(m) >= 28 + (IF At(m, 3) > 1 THEN 1 ELSE 0)
         /\ DiscoveryReplyValid(m) <=>
              /\ Is(m, 28, {113})
              /\ Size(m) >= 28 + (IF At(m, 3) > 1 THEN 2 ELSE 0)
<1>1. CASE Size(m) > 3
  <2>1. VersionsRead(m) = {At(m, 3)}
    BY <1>1 DEF VersionsRead
  <2> QED BY <2>1 DEF DiscoveryInquiryValid, DiscoveryReplyValid, Is, Payload, Management
<1>2. CASE ~ (Size(m) > 3)
  <2>1. ~ Is(m, 28, {112}) /\ ~ Is(m, 28, {113})
    BY <1>2 DEF Is
  <2>2. ~ DiscoveryInquiryValid(m) /\ ~ DiscoveryReplyValid(m)
    BY <1>2 DEF DiscoveryInquiryValid, DiscoveryReplyValid, Is, Payload
  <2> QED BY <2>1, <2>2
<1> QED BY <1>1, <1>2

\* and how far it reads
LEMMA ReadUpTo ==
  ASSUME NEW v, NEW m
  PROVE  /\ v = "identity_reply" => End(v, m) = IF At(m, 3) # 0 THEN 12 ELSE 14
         /\ v = "inquiry" => End(v, m) = Payload
         /\ v = "profile_inquiry" => End(v, m) = Payload
         /\ v = "discovery_inquiry" => End(v, m) = DiscoveryInquiryEnd(m)
         /\ v = "discovery_reply" => End(v, m) = DiscoveryReplyEnd(m)
         /\ v = "endpoint_inquiry" => End(v, m) = Payload + 1
         /\ v = "endpoint_reply" => End(v, m) = EndpointReplyEnd(m)
         /\ v = "ack" => End(v, m) = NackEnd(m)
         /\ v = "nak" => End(v, m) = NackEnd(m)
         /\ v = "invalidate_muid" => End(v, m) = Payload + 4
         /\ v = "profile_inquiry_reply" => End(v, m) = ProfileInquiryReplyEnd(m)
         /\ v = "profile_id" => End(v, m) = Payload + 5
         /\ v = "profile_destination" => End(v, m) = Payload + 7
         /\ v = "profile_details_inquiry" => End(v, m) = Payload + 6
         /\ v = "profile_details_reply" => End(v, m) = ProfileDetailsReplyEnd(m)
         /\ v = "profile_specific_data" => End(v, m) = SpecificDataEnd(m)
         /\ v = "capabilities" => End(v, m) = CapabilitiesEnd(m)
         /\ v = "get_property" => End(v, m) = PropertyDataEnd(m)
         /\ v = "set_property" => End(v, m) = PropertyDataEnd(m)
         /\ v = "subscription" => End(v, m) = PropertyDataEnd(m)
         /\ v = "notify" => End(v, m) = PropertyDataEnd(m)
         /\ v = "process_reply" => End(v, m) = Payload + 1
         /\ v = "report_inquiry" => End(v, m) = Payload + 5
         /\ v = "report_reply" => End(v, m) = Payload + 4
BY ZenonT(60) DEF End

LEMMA Inside ==
  ASSUME NEW m \in Packed, NEW v \in Views, Accepts(v, m)
  PROVE  End(v, m) <= Size(m)
<1>1. v \in Views /\ Accepts(v, m)
  OBVIOUS
<1>2. Size(m) \in Nat /\ \A n \in 0..Size(m) - 1 : At(m, n) \in Byte
  <2>1. m.data \in Bytes /\ Len(m.data) \in Nat
    BY LenProperties DEF Packed, Bytes
  <2>2. \A n \in 0..Len(m.data) - 1 : m.data[n + 1] \in Byte
    BY <2>1, ElementOfSeq DEF Bytes
  <2> QED BY <2>1, <2>2 DEF Size, At
<1>3. CASE v = "identity_reply"
  <2>1. IsIdentityReply(m)
    BY <1>1, <1>3, AcceptedIf
  <2>2. Size(m) = 14 \/ (Size(m) = 12 /\ At(m, 3) # 0)
    BY <2>1 DEF IsIdentityReply
  <2>3. End(v, m) = IF At(m, 3) # 0 THEN 12 ELSE 14
    BY <1>3, ReadUpTo
  <2> QED BY <2>2, <2>3
<1>4. CASE v \in {"inquiry", "profile_inquiry"}
  BY <1>1, <1>2, <1>4, AcceptedIf, ReadUpTo DEF InquiryValid, ProfileInquiryValid
<1>5. CASE v \in {"discovery_inquiry", "discovery_reply", "capabilities"}
  <2>1. Size(m) >= 13
    BY <1>1, <1>2, <1>5, AcceptedIf
       DEF DiscoveryInquiryValid, DiscoveryReplyValid, CapabilitiesValid, Is, Payload
  <2>2. At(m, 3) \in Nat
    BY <1>2, <2>1 DEF Byte
  <2>3. CASE v = "discovery_inquiry"
    BY <1>1, <1>2, <2>2, <2>3, AcceptedIf, ReadUpTo, DiscoveryValid
       DEF DiscoveryInquiryEnd, Payload, Version2
  <2>4. CASE v = "discovery_reply"
    BY <1>1, <1>2, <2>2, <2>4, AcceptedIf, ReadUpTo, DiscoveryValid
       DEF DiscoveryReplyEnd, Payload, Version2
  <2>5. CASE v = "capabilities"
    BY <1>1, <1>2, <2>2, <2>5, AcceptedIf, ReadUpTo
       DEF CapabilitiesValid, CapabilitiesEnd, Is, Payload, Version2
  <2> QED BY <1>5, <2>3, <2>4, <2>5
<1>6. CASE v \in {"endpoint_inquiry", "process_reply", "invalidate_muid", "report_reply",
                  "profile_id", "report_inquiry", "profile_details_inquiry",
                  "profile_destination"}
  BY <1>1, <1>2, <1>6, AcceptedIf, ReadUpTo
     DEF EndpointInquiryValid, ProcessReplyValid, InvalidateMuidValid,
         ReportReplyValid, ProfileIdValid, ReportInquiryValid, ProfileDetailsInquiryValid,
         ProfileDestinationValid, Is, Payload
<1>7. CASE v \in {"endpoint_reply", "ack", "nak", "profile_inquiry_reply",
                  "profile_details_reply", "profile_specific_data"}
  BY <1>1, <1>2, <1>7, AcceptedIf, ReadUpTo
     DEF EndpointReplyValid, EndpointReplyEnd, AckValid, NakValid,
         ProfileInquiryReplyValid, ProfileInquiryReplyEnd, ProfileDetailsReplyValid,
         SpecificDataValid
<1>8. CASE v \in {"get_property", "set_property", "subscription", "notify"}
  <2>1. PropertyDataValid(m)
    BY <1>1, <1>8, AcceptedIf DEF GetPropertyValid, SetPropertyValid, SubscriptionValid, NotifyValid
  <2>2. PropertyDataEnd(m) <= Size(m)
    BY <2>1 DEF PropertyDataValid
  <2> QED BY <1>8, <2>2, ReadUpTo
<1> QED BY <1>1, <1>3, <1>4, <1>5, <1>6, <1>7, <1>8 DEF Views

\* How far validate() reads
LEMMA ValidatedUpTo ==
  ASSUME NEW v, NEW m
  PROVE  /\ v \in {"discovery_inquiry", "discovery_reply"} => ValidateEnd(v, m) = After(0, 4, m)
         /\ v = "inquiry" => ValidateEnd(v, m) = After(Payload, 2, m)
         /\ v \in {"identity_reply", "invalidate_muid", "profile_inquiry"} =>
              ValidateEnd(v, m) = IF ~IsUniversal(m) THEN 0
                                  ELSE IF v = "identity_reply" /\ Size(m) = 12 THEN 4
                                  ELSE IF Size(m) > 2 THEN 3 ELSE 2
         /\ v \in {"endpoint_inquiry", "process_reply"} =>
              ValidateEnd(v, m) = After(Payload + 1, 3, m)
         /\ v = "capabilities" => ValidateEnd(v, m) = After(Payload + 1, 4, m)
         /\ v = "endpoint_reply" => ValidateEnd(v, m) = After(Payload + 3, Payload + 3, m)
         /\ v \in {"ack", "nak"} => ValidateEnd(v, m) = After(Payload + 10, Payload + 10, m)
         /\ v = "report_reply" => ValidateEnd(v, m) = After(Payload + 4, 3, m)
         /\ v \in {"profile_id", "report_inquiry"} => ValidateEnd(v, m) = After(Payload + 5, 3, m)
         /\ v = "profile_details_inquiry" => ValidateEnd(v, m) = After(Payload + 6, 3, m)
         /\ v = "profile_destination" => ValidateEnd(v, m) = After(Payload + 7, 3, m)
         /\ v = "profile_details_reply" => ValidateEnd(v, m) = After(Payload + 8, Payload + 8, m)
         /\ v = "profile_specific_data" => ValidateEnd(v, m) = After(Payload + 9, Payload + 9, m)
         /\ v = "profile_inquiry_reply" =>
              ValidateEnd(v, m) =
                After(Payload + 4, IF Size(m) >= OffsetOfDisabled(m) + 2
                                     THEN OffsetOfDisabled(m) + 2 ELSE Payload + 2, m)
         /\ v \in {"get_property", "set_property", "subscription", "notify"} =>
              ValidateEnd(v, m) =
                After(Payload + 9, IF Size(m) >= Payload + 9 + HeaderSize(m)
                                     THEN Payload + 9 + HeaderSize(m) ELSE Payload + 3, m)
BY ZenonT(60) DEF ValidateEnd

\* Only the validate() of the views of discovery reads what it has not made sure of.
LEMMA ValidateInside ==
  ASSUME NEW m, Size(m) \in Nat, NEW v \in Views
  PROVE  ValidateEnd(v, m) <= Size(m) <=>
           (v \in {"discovery_inquiry", "discovery_reply"} =>
              m.manufacturer # NonRealtime \/ Size(m) >= 4)
<1>1. CASE v \in {"discovery_inquiry", "discovery_reply"}
  BY <1>1, ValidatedUpTo DEF After
<1>2. CASE v \in {"identity_reply", "invalidate_muid", "profile_inquiry"}
  BY <1>2, ValidatedUpTo DEF IsUniversal
<1>3. CASE v \in {"inquiry", "endpoint_inquiry", "process_reply", "capabilities", "report_reply"}
  BY <1>3, ValidatedUpTo DEF After, Payload
<1>4. CASE v \in {"profile_id", "report_inquiry", "profile_details_inquiry", "profile_destination"}
  BY <1>4, ValidatedUpTo DEF After, Payload
<1>5. CASE v \in {"endpoint_reply", "ack", "nak", "profile_details_reply", "profile_specific_data"}
  BY <1>5, ValidatedUpTo DEF After, Payload
<1>6. CASE v = "profile_inquiry_reply"
  BY <1>6, ValidatedUpTo DEF After, Payload
<1>7. CASE v \in {"get_property", "set_property", "subscription", "notify"}
  BY <1>7, ValidatedUpTo DEF After, Payload
<1> QED BY <1>1, <1>2, <1>3, <1>4, <1>5, <1>6, <1>7 DEF Views

\* A view that validate() lets through reads nothing behind the data, for every
\* message of bytes that can be made, altered or cut: what README.md tells applications
\* to rely on.  Of the views validate() itself reads behind the data for those of
\* discovery, where a message ends before its version, and for no other.
THEOREM StaysInside == Spec => []ViewsStayInside
<1>1. IInv => ViewsStayInside
  <2> SUFFICES ASSUME IInv, NEW v \in Views
               PROVE  /\ Accepts(v, sx) => End(v, sx) <= Size(sx)
                      /\ ValidateEnd(v, sx) <= Size(sx) <=>
                           (v \in {"discovery_inquiry", "discovery_reply"} =>
                              sx.manufacturer # NonRealtime \/ Size(sx) >= 4)
    BY DEF ViewsStayInside
  <2>1. sx \in Packed
    BY DEF IInv, TypeOK, Packed, Bytes
  <2>2. Size(sx) \in Nat
    BY <2>1, LenProperties DEF Packed, Bytes, Size
  <2> QED BY <2>1, <2>2, Inside, ValidateInside
<1> QED BY <1>1, Invariance, PTL

-----------------------------------------------------------------------------
(* Numbers that are cut into digits and put together. *)

\* A number is its quotient times the divisor and a remainder less than it.
LEMMA Division ==
  \A n \in Nat : \A k \in Nat \ {0} :
    /\ n \div k \in Nat /\ n % k \in 0..k-1
    /\ n = k * (n \div k) + (n % k)
OBVIOUS

\* and there is no other one
LEMMA OneQuotient ==
  \A k \in Nat \ {0} : \A p, q \in Nat : \A u, w \in 0..k-1 :
    k * p + u = k * q + w => p = q /\ u = w
<1> SUFFICES ASSUME NEW k \in Nat \ {0}, NEW p \in Nat, NEW q \in Nat,
                    NEW u \in 0..k-1, NEW w \in 0..k-1, k * p + u = k * q + w
             PROVE  p = q /\ u = w
  OBVIOUS
<1>1. ~ p < q
  <2> SUFFICES ASSUME p < q PROVE FALSE
    OBVIOUS
  <2>1. PICK g \in Nat : q = p + 1 + g
    <3>1. q - p - 1 \in Nat /\ q = p + 1 + (q - p - 1)
      OBVIOUS
    <3> QED BY <3>1
  <2>2. k * q = k * p + k + k * g
    BY <2>1
  <2>3. k * g >= 0 /\ k * g \in Int /\ k * p \in Int
    OBVIOUS
  <2> QED BY <2>2, <2>3
<1>2. ~ q < p
  <2> SUFFICES ASSUME q < p PROVE FALSE
    OBVIOUS
  <2>1. PICK g \in Nat : p = q + 1 + g
    <3>1. p - q - 1 \in Nat /\ p = q + 1 + (p - q - 1)
      OBVIOUS
    <3> QED BY <3>1
  <2>2. k * p = k * q + k + k * g
    BY <2>1
  <2>3. k * g >= 0 /\ k * g \in Int /\ k * q \in Int
    OBVIOUS
  <2> QED BY <2>2, <2>3
<1> QED BY <1>1, <1>2

\* The two lowest digits of a number, and what is above them
Low(n) == (n % Radix) + Radix * ((n \div Radix) % Radix)

LEMMA TwoDigits ==
  ASSUME NEW n \in Nat
  PROVE  /\ Low(n) \in 0..Radix * Radix - 1
         /\ n = (Radix * Radix) * (n \div (Radix * Radix)) + Low(n)
<1>1. Radix \in Nat \ {0} /\ Radix * Radix \in Nat \ {0}
  BY Powers
<1> DEFINE q == n \div Radix
           r == n % Radix
           p == q \div Radix
           u == q % Radix
<1>2. q \in Nat /\ r \in 0..Radix-1 /\ n = Radix * q + r
  BY <1>1, Division
<1>3. p \in Nat /\ u \in 0..Radix-1 /\ q = Radix * p + u
  BY <1>1, <1>2, Division
<1>4. Low(n) = r + Radix * u
  BY DEF Low
<1> HIDE DEF q, r, p, u
<1>5. n = (Radix * Radix) * p + (r + Radix * u)
  BY <1>1, <1>2, <1>3
<1>6. r + Radix * u \in 0..Radix * Radix - 1
  <2>1. \A R \in Nat \ {0} : \A x, y \in 0..R-1 : x + R * y \in 0..R * R - 1
    <3> TAKE R \in Nat \ {0}
    <3> TAKE x, y \in 0..R-1
    <3>1. R * y <= R * (R - 1) /\ R * y \in Nat
      OBVIOUS
    <3>2. R * (R - 1) = R * R - R /\ R * R \in Nat
      OBVIOUS
    <3> QED BY <3>1, <3>2
  <2> QED BY <2>1, <1>1, <1>2, <1>3
<1> DEFINE square == Radix * Radix
<1>7. square \in Nat \ {0} /\ r + Radix * u \in 0..square-1 /\ n = square * p + (r + Radix * u)
  BY <1>1, <1>5, <1>6
<1> HIDE DEF square
<1>8. /\ n \div square \in Nat /\ n % square \in 0..square-1
      /\ n = square * (n \div square) + (n % square)
  BY <1>7, Division
<1>9. n \div square = p
  <2>1. PICK d \in Nat, w \in 0..square-1 : d = n \div square /\ n = square * d + w
    BY <1>8
  <2>2. square * d + w = square * p + (r + Radix * u)
    BY <1>7, <2>1
  <2>3. p \in Nat
    BY <1>3
  <2> DEFINE l == r + Radix * u
  <2>4. l \in 0..square-1 /\ square * d + w = square * p + l /\ square \in Nat \ {0}
    BY <1>7, <2>2
  <2> HIDE DEF l
  <2>5. d = p
    BY <2>1, <2>3, <2>4, OneQuotient
  <2> QED BY <2>1, <2>5
<1> QED BY <1>4, <1>6, <1>7, <1>9 DEF square

\* A number of two digits is made of them, and one of four.
LEMMA LowIsAll ==
  /\ \A n \in Nat : n < Radix * Radix => Low(n) = n
  /\ \A n \in 0..Broadcast : Low(n) + Radix * Radix * Low(n \div (Radix * Radix)) = n
<1> DEFINE square == Radix * Radix
<1>1. square \in Nat \ {0} /\ Broadcast = square * square - 1
  <2>1. \A R \in Nat : R * R * R * R = (R * R) * (R * R)
    OBVIOUS
  <2> QED BY <2>1, Powers DEF Broadcast
<1>2. \A n \in Nat : /\ n \div square \in Nat /\ Low(n) \in 0..square-1
                     /\ n = square * (n \div square) + Low(n)
  BY TwoDigits, Digits
<1> HIDE DEF square
<1>3. \A n \in Nat : n < square => n \div square = 0 /\ Low(n) = n
  <2> TAKE n \in Nat
  <2> HAVE n < square
  <2>1. PICK q \in Nat, l \in 0..square-1 : q = n \div square /\ l = Low(n) /\ n = square * q + l
    BY <1>2
  <2>2. square * 0 + n = square * q + l /\ n \in 0..square-1 /\ 0 \in Nat
    BY <1>1, <2>1
  <2> QED BY <1>1, <2>1, <2>2, OneQuotient
<1>4. ASSUME NEW n \in 0..Broadcast
      PROVE  Low(n) + square * Low(n \div square) = n
  <2>1. n \in Nat /\ n < square * square
    BY <1>1
  <2>2. PICK q \in Nat, l \in 0..square-1 : q = n \div square /\ l = Low(n) /\ n = square * q + l
    BY <1>2, <2>1
  <2>3. q < square
    <3> SUFFICES ASSUME q >= square PROVE FALSE
      BY <1>1
    <3>1. PICK g \in Nat : q = square + g
      <4>1. q - square \in Nat /\ q = square + (q - square)
        BY <1>1
      <4> QED BY <4>1
    <3>2. square * q = square * square + square * g /\ square * g >= 0
      BY <1>1, <3>1
    <3> QED BY <1>1, <2>1, <2>2, <3>2
  <2>4. Low(q) = q
    BY <1>3, <2>3
  <2> QED BY <1>1, <2>2, <2>4
<1> QED BY <1>3, <1>4 DEF square

-----------------------------------------------------------------------------
(* Pieces of a message. *)

\* The bytes s are in message m from offset k on.
Holds(m, k, s) ==
  /\ k + Len(s) <= Size(m)
  /\ \A i \in 1..Len(s) : m.data[k + i] = s[i]

\* If two pieces are one after the other, each is where it should be.
LEMMA HoldsBoth ==
  \A m : \A k \in Nat : \A s, t \in Bytes :
    Size(m) \in Nat /\ Holds(m, k, s \o t) => Holds(m, k, s) /\ Holds(m, k + Len(s), t)
<1> SUFFICES ASSUME NEW m, NEW k \in Nat, NEW s \in Bytes, NEW t \in Bytes,
                    Size(m) \in Nat, Holds(m, k, s \o t)
             PROVE  Holds(m, k, s) /\ Holds(m, k + Len(s), t)
  OBVIOUS
<1>1. /\ Len(s) \in Nat /\ Len(t) \in Nat /\ Len(s \o t) = Len(s) + Len(t)
      /\ \A i \in 1..Len(s) : (s \o t)[i] = s[i]
      /\ \A i \in 1..Len(t) : (s \o t)[Len(s) + i] = t[i]
  BY Joined, LenProperties, ConcatProperties DEF Bytes
<1>2. /\ k + Len(s) + Len(t) <= Size(m)
      /\ \A i \in 1..Len(s) + Len(t) : m.data[k + i] = (s \o t)[i]
  BY <1>1 DEF Holds
<1>3. \A i \in 1..Len(s) : m.data[k + i] = s[i]
  BY <1>1, <1>2
<1>4. \A i \in 1..Len(t) : m.data[k + Len(s) + i] = t[i]
  <2> TAKE i \in 1..Len(t)
  <2>1. Len(s) + i \in 1..Len(s) + Len(t) /\ k + Len(s) + i = k + (Len(s) + i)
    BY <1>1
  <2> QED BY <1>1, <1>2, <2>1
<1> QED BY <1>1, <1>2, <1>3, <1>4 DEF Holds

LEMMA HoldsThree ==
  \A m : \A k \in Nat : \A a, b, c \in Bytes :
    Size(m) \in Nat /\ Holds(m, k, a \o b \o c) =>
      /\ Holds(m, k, a)
      /\ Holds(m, k + Len(a), b)
      /\ Holds(m, k + Len(a) + Len(b), c)
      /\ a \o b \o c \in Bytes
      /\ Len(a \o b \o c) = Len(a) + Len(b) + Len(c)
<1> SUFFICES ASSUME NEW m, Size(m) \in Nat, NEW k \in Nat,
                    NEW a \in Bytes, NEW b \in Bytes, NEW c \in Bytes,
                    Holds(m, k, a \o b \o c)
             PROVE  /\ Holds(m, k, a)
                    /\ Holds(m, k + Len(a), b)
                    /\ Holds(m, k + Len(a) + Len(b), c)
                    /\ a \o b \o c \in Bytes
                    /\ Len(a \o b \o c) = Len(a) + Len(b) + Len(c)
  OBVIOUS
<1>1. a \o b \in Bytes /\ Len(a \o b) = Len(a) + Len(b) /\ Len(a) \in Nat /\ Len(b) \in Nat
  BY Joined, Zenon
<1>2. a \o b \o c \in Bytes /\ Len(a \o b \o c) = Len(a \o b) + Len(c)
  BY <1>1, Joined, Zenon
<1>3. Holds(m, k, a \o b) /\ Holds(m, k + Len(a \o b), c)
  BY <1>1, HoldsBoth, Zenon
<1>4. Holds(m, k, a) /\ Holds(m, k + Len(a), b)
  BY <1>3, HoldsBoth, Zenon
<1>5. k + Len(a \o b) = k + Len(a) + Len(b) /\ Len(a \o b) + Len(c) = Len(a) + Len(b) + Len(c)
  BY <1>1
<1> QED BY <1>1, <1>2, <1>3, <1>4, <1>5, Zenon

LEMMA HoldsFour ==
  \A m : \A k \in Nat : \A a, b, c, d \in Bytes :
    Size(m) \in Nat /\ Holds(m, k, a \o b \o c \o d) =>
      /\ Holds(m, k, a)
      /\ Holds(m, k + Len(a), b)
      /\ Holds(m, k + Len(a) + Len(b), c)
      /\ Holds(m, k + Len(a) + Len(b) + Len(c), d)
      /\ a \o b \o c \o d \in Bytes
      /\ Len(a \o b \o c \o d) = Len(a) + Len(b) + Len(c) + Len(d)
<1> SUFFICES ASSUME NEW m, Size(m) \in Nat, NEW k \in Nat,
                    NEW a \in Bytes, NEW b \in Bytes, NEW c \in Bytes, NEW d \in Bytes,
                    Holds(m, k, a \o b \o c \o d)
             PROVE  /\ Holds(m, k, a)
                    /\ Holds(m, k + Len(a), b)
                    /\ Holds(m, k + Len(a) + Len(b), c)
                    /\ Holds(m, k + Len(a) + Len(b) + Len(c), d)
                    /\ a \o b \o c \o d \in Bytes
                    /\ Len(a \o b \o c \o d) = Len(a) + Len(b) + Len(c) + Len(d)
  OBVIOUS
<1>1. a \o b \o c \in Bytes
  BY Joined, Zenon
<1>2. /\ a \o b \o c \o d \in Bytes
      /\ Len(a \o b \o c \o d) = Len(a \o b \o c) + Len(d)
  BY <1>1, Joined, Zenon
<1>3. Holds(m, k, a \o b \o c) /\ Holds(m, k + Len(a \o b \o c), d)
  BY <1>1, HoldsBoth, Zenon
<1>4. /\ Holds(m, k, a)
      /\ Holds(m, k + Len(a), b)
      /\ Holds(m, k + Len(a) + Len(b), c)
      /\ Len(a \o b \o c) = Len(a) + Len(b) + Len(c)
  BY <1>3, HoldsThree
<1>5. Len(a) \in Nat /\ Len(b) \in Nat /\ Len(c) \in Nat
  BY Joined, Zenon
<1>6. k + (Len(a) + Len(b) + Len(c)) = k + Len(a) + Len(b) + Len(c)
  BY <1>5
<1> QED BY <1>2, <1>3, <1>4, <1>6, Zenon

\* The bytes of an array are read where they were put,
LEMMA ReadsSpan ==
  ASSUME NEW m \in Packed, NEW k \in Nat, NEW s \in Bytes, Holds(m, k, s)
  PROVE  Span(m, k, Len(s)) = s
<1>1. /\ m.data \in Bytes /\ Len(m.data) \in Nat /\ Len(s) \in Nat
      /\ \A i \in 1..Len(m.data) : m.data[i] \in Byte
  BY LenProperties, ElementOfSeq DEF Packed, Bytes
<1>2. k + Len(s) <= Len(m.data) /\ \A i \in 1..Len(s) : m.data[k + i] = s[i]
  BY DEF Holds, Size
<1> DEFINE part == SubSeq(m.data, k + 1, k + Len(s))
<1>3. \A i \in k + 1..k + Len(s) : m.data[i] \in Byte
  BY <1>1, <1>2
<1>4. /\ part \in Bytes /\ Len(part) = Len(s)
      /\ \A i \in 1..Len(s) : part[i] = m.data[k + i]
  <2>1. k + 1 \in Int /\ k + Len(s) \in Int
    BY <1>1
  <2>2. /\ part \in Bytes
        /\ Len(part) = IF k + 1 <= k + Len(s) THEN (k + Len(s)) - (k + 1) + 1 ELSE 0
        /\ \A i \in 1..(k + Len(s)) - (k + 1) + 1 : part[i] = m.data[(k + 1) + i - 1]
    BY <1>1, <1>3, <2>1, SubSeqProperties DEF Bytes
  <2> QED BY <1>1, <2>2
<1> HIDE DEF part
<1>5. part = s
  BY <1>1, <1>2, <1>4, SeqEqual DEF Bytes
<1> QED BY <1>5 DEF part, Span

\* and so are single bytes and numbers.
LEMMA ReadsBytes ==
  ASSUME NEW m, NEW k \in Nat
  PROVE  /\ \A a : Holds(m, k, <<a>>) => At(m, k) = a
         /\ \A a, b : Holds(m, k, <<a, b>>) => At(m, k) = a /\ At(m, k + 1) = b
         /\ \A a, b, c : Holds(m, k, <<a, b, c>>) =>
              At(m, k) = a /\ At(m, k + 1) = b /\ At(m, k + 2) = c
<1>1. ASSUME NEW a, Holds(m, k, <<a>>) PROVE At(m, k) = a
  BY <1>1 DEF Holds, At
<1>2. ASSUME NEW a, NEW b, Holds(m, k, <<a, b>>) PROVE At(m, k) = a /\ At(m, k + 1) = b
  <2>1. \A i \in 1..2 : m.data[k + i] = <<a, b>>[i]
    BY <1>2 DEF Holds
  <2>2. m.data[k + 1] = a /\ m.data[k + 2] = b
    BY <2>1
  <2>3. k + 1 + 1 = k + 2
    OBVIOUS
  <2> QED BY <2>2, <2>3 DEF At
<1>3. ASSUME NEW a, NEW b, NEW c, Holds(m, k, <<a, b, c>>)
      PROVE  At(m, k) = a /\ At(m, k + 1) = b /\ At(m, k + 2) = c
  <2>1. \A i \in 1..3 : m.data[k + i] = <<a, b, c>>[i]
    BY <1>3 DEF Holds
  <2>2. m.data[k + 1] = a /\ m.data[k + 2] = b /\ m.data[k + 3] = c
    BY <2>1
  <2>3. k + 1 + 1 = k + 2 /\ k + 2 + 1 = k + 3
    OBVIOUS
  <2> QED BY <2>2, <2>3 DEF At
<1> QED BY <1>1, <1>2, <1>3

LEMMA ReadsUint7 ==
  ASSUME NEW m, NEW k \in Nat, NEW n \in 0..Radix-1, Holds(m, k, Uint7(n))
  PROVE  At(m, k) = n
<1>1. n % Radix = n
  BY Powers
<1> QED BY <1>1, ReadsBytes DEF Uint7

LEMMA ReadsLow ==
  ASSUME NEW m, NEW k \in Nat, NEW n \in Nat, Holds(m, k, Uint14(n))
  PROVE  MakeUint14(m, k) = Low(n)
BY ReadsBytes DEF Uint14, MakeUint14, Low

LEMMA ReadsUint14 ==
  ASSUME NEW m, NEW k \in Nat, NEW n \in Nat, n < Radix * Radix, Holds(m, k, Uint14(n))
  PROVE  MakeUint14(m, k) = n
BY ReadsLow, LowIsAll

LEMMA ReadsUint28 ==
  ASSUME NEW m, Size(m) \in Nat, NEW k \in Nat, NEW n \in 0..Broadcast, Holds(m, k, Uint28(n))
  PROVE  MakeUint28(m, k) = n
<1> DEFINE high == n \div (Radix * Radix)
<1>1. n \in Nat /\ high \in Nat
  BY Digits, Powers
<1>2. /\ Uint14(n) \in Bytes /\ Uint14(high) \in Bytes /\ Len(Uint14(n)) = 2
  BY <1>1, Numbers14, Zenon
<1>3. Holds(m, k, Uint14(n) \o Uint14(high))
  BY DEF Uint28
<1> HIDE DEF high
<1>4. Holds(m, k, Uint14(n)) /\ Holds(m, k + 2, Uint14(high))
  BY <1>2, <1>3, HoldsBoth
<1>5. MakeUint14(m, k) = Low(n) /\ MakeUint14(m, k + 2) = Low(high)
  BY <1>1, <1>4, ReadsLow
<1>6. Low(n) + Radix * Radix * Low(high) = n
  BY LowIsAll DEF high
<1> QED BY <1>5, <1>6 DEF MakeUint28

-----------------------------------------------------------------------------
(* What is behind the header. *)

\* A message of MIDI-CI with this header and these bytes behind it
Composed(m, header, bytes) ==
  /\ HasHeader(m) /\ At(m, 1) = 13 /\ HeaderOf(m) = header
  /\ Size(m) = Payload + Len(bytes)
  /\ Holds(m, Payload, bytes)

\* What can be read of a message that is there
LEMMA MessageBytes ==
  ASSUME NEW m, HasHeader(m)
  PROVE  /\ m \in Packed /\ m.manufacturer = NonRealtime
         /\ m.data \in Bytes /\ Size(m) = Len(m.data) /\ Size(m) \in Nat /\ Size(m) >= 12
         /\ m.data \in [1..Size(m) -> Byte]
         /\ \A k \in 0..Size(m) - 1 : At(m, k) \in Byte /\ At(m, k) \in Nat
<1>1. m \in Packed /\ m.manufacturer = NonRealtime /\ m.data \in Bytes /\ Len(m.data) >= Payload
  BY DEF HasHeader, Formed, Packed
<1>2. Len(m.data) \in Nat /\ m.data \in [1..Len(m.data) -> Byte]
  BY <1>1, LenProperties DEF Bytes
<1>3. \A k \in 0..Len(m.data) - 1 : At(m, k) \in Byte
  BY <1>2 DEF At
<1>4. \A b \in Byte : b \in Nat
  BY DEF Byte
<1> QED BY <1>1, <1>2, <1>3, <1>4 DEF Size, Payload

LEMMA ThreeParts ==
  \A m : \A a, b, c \in Bytes :
    Size(m) \in Nat /\ m.data = a \o b \o c =>
      /\ Holds(m, 0, a)
      /\ Holds(m, Len(a), b)
      /\ Holds(m, Len(a) + Len(b), c)
      /\ Size(m) = Len(a) + Len(b) + Len(c)
<1> TAKE m
<1> TAKE a, b, c \in Bytes
<1> HAVE Size(m) \in Nat /\ m.data = a \o b \o c
<1>1. Holds(m, 0, m.data) /\ 0 \in Nat
  BY DEF Holds, Size
<1>2. Holds(m, 0, a \o b \o c)
  BY <1>1, Zenon
<1>3. /\ Holds(m, 0, a) /\ Holds(m, 0 + Len(a), b) /\ Holds(m, 0 + Len(a) + Len(b), c)
      /\ Len(a \o b \o c) = Len(a) + Len(b) + Len(c)
  BY <1>1, <1>2, HoldsThree
<1>4. 0 + Len(a) = Len(a)
  BY Joined
<1> QED BY <1>3, <1>4 DEF Size

LEMMA MessageComposed ==
  ASSUME NEW t \in Byte, NEW e \in Byte, NEW s \in 0..Broadcast, NEW d \in 0..Broadcast
  PROVE  Composed(Message(t, s, d, e), Header(t, s, d, e), <<>>)
<1> DEFINE msg == Message(t, s, d, e)
           start == <<e, 13, t, Version2>>
<1>1. s \in Nat /\ d \in Nat
  BY Powers
<1>2. HasHeader(msg)
  BY <1>1, MessageFormed
<1>3. /\ start \in Bytes /\ Len(start) = 4
      /\ Uint28(s) \in Bytes /\ Len(Uint28(s)) = 4
      /\ Uint28(d) \in Bytes /\ Len(Uint28(d)) = 4
  <2>1. start \in Bytes /\ Len(start) = 4
    BY DEF Bytes, Byte, Version2
  <2> QED BY <1>1, <2>1, Numbers14, Zenon
<1>4. msg.data = start \o Uint28(s) \o Uint28(d) /\ msg.manufacturer = NonRealtime
  BY DEF Message
<1>5. Size(msg) \in Nat /\ Size(msg) = Len(msg.data)
  BY <1>2, MessageBytes
<1> HIDE DEF msg, start
<1>7. /\ Holds(msg, 0, start) /\ Holds(msg, 4, Uint28(s)) /\ Holds(msg, 8, Uint28(d))
      /\ Size(msg) = 12
  <2>1. /\ Holds(msg, 0, start)
        /\ Holds(msg, Len(start), Uint28(s))
        /\ Holds(msg, Len(start) + Len(Uint28(s)), Uint28(d))
        /\ Size(msg) = Len(start) + Len(Uint28(s)) + Len(Uint28(d))
    BY <1>3, <1>4, <1>5, ThreeParts
  <2> QED BY <1>3, <2>1
<1>8. At(msg, 0) = e /\ At(msg, 1) = 13 /\ At(msg, 2) = t /\ At(msg, 3) = Version2
  <2>1. \A i \in 1..4 : msg.data[0 + i] = start[i]
    BY <1>3, <1>7 DEF Holds
  <2> QED BY <2>1 DEF At, start
<1>9. MakeUint28(msg, 4) = s /\ MakeUint28(msg, 8) = d
  BY <1>5, <1>7, ReadsUint28
<1>10. SubtypeOf(msg) = t
  BY <1>4, <1>7, <1>8 DEF SubtypeOf, IsUniversal
<1>11. HeaderOf(msg) = Header(t, s, d, e)
  BY <1>8, <1>9, <1>10 DEF HeaderOf, Header
<1>12. Holds(msg, Payload, <<>>) /\ Size(msg) = Payload + Len(<<>>)
  BY <1>7 DEF Holds, Payload
<1> QED BY <1>2, <1>8, <1>11, <1>12 DEF Composed, msg

\* Bytes added at the end leave the others where they are.
LEMMA AddedComposed ==
  ASSUME NEW m, NEW header, NEW a \in Bytes, NEW b \in Bytes, Composed(m, header, a)
  PROVE  Composed(Added(m, b), header, a \o b)
<1> DEFINE n == Added(m, b)
<1>1. /\ HasHeader(m) /\ At(m, 1) = 13 /\ HeaderOf(m) = header
      /\ Size(m) = Payload + Len(a) /\ Holds(m, Payload, a)
  BY DEF Composed
<1>2. HasHeader(n)
  BY <1>1, AddedFormed
<1>3. n.data = m.data \o b
  BY <1>1 DEF Added, HasHeader, Formed, Packed
<1>4. /\ m.data \in Bytes /\ Size(m) = Len(m.data) /\ Size(m) \in Nat /\ Size(m) >= 12
      /\ m.manufacturer = NonRealtime /\ n.manufacturer = NonRealtime
      /\ Size(n) = Len(n.data)
  BY <1>1, <1>2, MessageBytes
<1> HIDE DEF n
<1>5. /\ Len(n.data) = Len(m.data) + Len(b) /\ Len(b) \in Nat /\ Len(a) \in Nat
      /\ \A i \in 1..Len(m.data) : n.data[i] = m.data[i]
      /\ \A i \in 1..Len(b) : n.data[Len(m.data) + i] = b[i]
  <2>1. /\ Len(m.data \o b) = Len(m.data) + Len(b)
        /\ \A i \in 1..Len(m.data) : (m.data \o b)[i] = m.data[i]
        /\ \A i \in 1..Len(b) : (m.data \o b)[Len(m.data) + i] = b[i]
    <3> DEFINE whole == m.data
    <3>1. whole \in Seq(Byte) /\ b \in Seq(Byte)
      BY <1>4 DEF Bytes
    <3> HIDE DEF whole
    <3>2. /\ Len(whole \o b) = Len(whole) + Len(b)
          /\ \A i \in 1..Len(whole) : (whole \o b)[i] = whole[i]
          /\ \A i \in 1..Len(b) : (whole \o b)[Len(whole) + i] = b[i]
      BY ONLY <3>1, ConcatProperties
    <3> QED BY <3>2 DEF whole
  <2>2. Len(b) \in Nat /\ Len(a) \in Nat
    BY LenProperties DEF Bytes
  <2> QED BY <1>3, <2>1, <2>2
<1> DEFINE l == Len(a)
           k == Len(b)
<1>15. l \in Nat /\ k \in Nat /\ Len(m.data) = 12 + l /\ Len(n.data) = 12 + l + k
  <2>1. Size(m) = 12 + Len(a)
    BY ONLY <1>1 DEF Payload
  <2> QED BY ONLY <1>4, <1>5, <2>1
<1>6. \A i \in 0..11 : At(n, i) = At(m, i)
  <2>1. \A j \in 1..12 : n.data[j] = m.data[j]
    BY ONLY <1>15, <1>5
  <2> QED BY ONLY <2>1 DEF At
<1>7. MakeUint28(n, 4) = MakeUint28(m, 4) /\ MakeUint28(n, 8) = MakeUint28(m, 8)
  <2>1. \A j \in 0..10 : MakeUint14(n, j) = MakeUint14(m, j)
    BY ONLY <1>6 DEF MakeUint14
  <2>2. /\ MakeUint14(n, 4) = MakeUint14(m, 4) /\ MakeUint14(n, 4 + 2) = MakeUint14(m, 4 + 2)
        /\ MakeUint14(n, 8) = MakeUint14(m, 8) /\ MakeUint14(n, 8 + 2) = MakeUint14(m, 8 + 2)
    BY ONLY <2>1
  <2> QED BY ONLY <2>2 DEF MakeUint28
<1>8. SubtypeOf(n) = SubtypeOf(m)
  <2>1. At(n, 2) = At(m, 2)
    BY ONLY <1>6
  <2>2. n.manufacturer = m.manufacturer
    BY ONLY <1>4
  <2>3. Size(m) >= 2 /\ Size(m) > 2 /\ Size(n) >= 2 /\ Size(n) > 2
    <3>1. Size(m) = 12 + l /\ Size(n) = 12 + l + k
      BY ONLY <1>4, <1>15
    <3> HIDE DEF l, k
    <3> QED BY ONLY <1>15, <3>1
  <2> QED BY ONLY <2>1, <2>2, <2>3 DEF SubtypeOf, IsUniversal
<1>9. HeaderOf(n) = header
  BY <1>1, <1>6, <1>7, <1>8 DEF HeaderOf
<1>10. /\ Len(a \o b) = Len(a) + Len(b)
       /\ \A i \in 1..Len(a) : (a \o b)[i] = a[i]
       /\ \A i \in 1..Len(b) : (a \o b)[Len(a) + i] = b[i]
  BY ConcatProperties DEF Bytes
<1>11. \A i \in 1..l + k : n.data[12 + i] = (a \o b)[i]
  <2> TAKE i \in 1..l + k
  <2>1. CASE i <= l
    <3>1. m.data[12 + i] = a[i]
      BY <1>1, <1>15, <2>1 DEF Holds, Payload
    <3>2. 12 + i \in 1..Len(m.data) /\ i \in 1..Len(a)
      BY <1>15, <2>1
    <3> QED BY <1>5, <1>10, <3>1, <3>2
  <2>2. CASE i > l
    <3>1. PICK j \in 1..k : i = l + j
      <4>1. i - l \in 1..k /\ i = l + (i - l)
        BY <1>15, <2>2
      <4> QED BY <4>1
    <3>2. 12 + i = Len(m.data) + j
      BY <1>15, <3>1
    <3> QED BY <1>5, <1>10, <3>1, <3>2
  <2> QED BY <1>15, <2>1, <2>2
<1>12. Size(n) = Payload + Len(a \o b) /\ Len(a \o b) = l + k
  BY <1>4, <1>10, <1>15 DEF Payload
<1>13. Holds(n, Payload, a \o b)
  BY <1>11, <1>12, <1>15 DEF Holds, Payload
<1>14. At(n, 1) = 13
  BY <1>1, <1>6
<1> QED BY <1>2, <1>9, <1>12, <1>13, <1>14 DEF Composed, n

\* A factory that adds bytes to the header
LEMMA FactoryComposed ==
  ASSUME NEW t \in Byte, NEW e \in Byte, NEW s \in 0..Broadcast, NEW d \in 0..Broadcast,
         NEW bytes \in Bytes
  PROVE  Composed(Added(Message(t, s, d, e), bytes), Header(t, s, d, e), bytes)
<1>1. <<>> \in Bytes /\ <<>> \o bytes = bytes
  BY DEF Bytes
<1> QED BY <1>1, MessageComposed, AddedComposed

\* Bytes written over the header leave the others as they were.
LEMMA OverwrittenBytes ==
  ASSUME NEW m, HasHeader(m), NEW k \in 0..12, NEW bytes \in Bytes, k + Len(bytes) <= 12
  PROVE  LET n == Overwritten(m, k, bytes)
         IN  /\ HasHeader(n) /\ Size(n) = Size(m)
             /\ \A i \in 0..Size(m) - 1 :
                  At(n, i) = IF i >= k /\ i < k + Len(bytes) THEN bytes[i - k + 1] ELSE At(m, i)
<1> DEFINE n == Overwritten(m, k, bytes)
<1>1. /\ m \in Packed /\ m.data \in [1..Size(m) -> Byte] /\ Size(m) = Len(m.data)
      /\ Size(m) \in Nat /\ Size(m) >= 12
  BY MessageBytes
<1>2. /\ n \in Packed /\ n.manufacturer = m.manufacturer
      /\ Len(n.data) = Len(m.data)
  <2>1. k \in Nat
    OBVIOUS
  <2> QED BY <1>1, <2>1, OverwrittenFormed
<1>3. HasHeader(n) /\ Size(n) = Size(m)
  BY <1>1, <1>2 DEF HasHeader, Formed, Size
<1>4. \A i \in 1..Size(m) :
        n.data[i] = IF i - k \in 1..Len(bytes) THEN bytes[i - k] ELSE m.data[i]
  BY <1>1 DEF Overwritten, Packed
<1>5. Len(bytes) \in Nat
  BY LenProperties DEF Bytes
<1> HIDE DEF n
<1>6. ASSUME NEW i \in 0..Size(m) - 1
      PROVE  At(n, i) = IF i >= k /\ i < k + Len(bytes) THEN bytes[i - k + 1] ELSE At(m, i)
  <2>1. i + 1 \in 1..Size(m) /\ i + 1 - k = i - k + 1
    BY <1>1
  <2>2. (i + 1 - k \in 1..Len(bytes)) <=> (i >= k /\ i < k + Len(bytes))
    BY <1>1, <1>5
  <2> QED BY <1>4, <2>1, <2>2 DEF At
<1> QED BY <1>3, <1>6 DEF n

-----------------------------------------------------------------------------
(* Which views look at a message. *)

\* Which validate() decides for a view
LEMMA AcceptsIs ==
  ASSUME NEW m
  PROVE  /\ Accepts("identity_reply", m) <=> IsIdentityReply(m)
         /\ Accepts("inquiry", m) <=> InquiryValid(m)
         /\ Accepts("discovery_inquiry", m) <=> DiscoveryInquiryValid(m)
         /\ Accepts("discovery_reply", m) <=> DiscoveryReplyValid(m)
         /\ Accepts("endpoint_inquiry", m) <=> EndpointInquiryValid(m)
         /\ Accepts("endpoint_reply", m) <=> EndpointReplyValid(m)
         /\ Accepts("ack", m) <=> AckValid(m)
         /\ Accepts("nak", m) <=> NakValid(m)
         /\ Accepts("invalidate_muid", m) <=> InvalidateMuidValid(m)
         /\ Accepts("profile_inquiry", m) <=> ProfileInquiryValid(m)
         /\ Accepts("profile_inquiry_reply", m) <=> ProfileInquiryReplyValid(m)
         /\ Accepts("profile_id", m) <=> ProfileIdValid(m)
         /\ Accepts("profile_destination", m) <=> ProfileDestinationValid(m)
         /\ Accepts("profile_details_inquiry", m) <=> ProfileDetailsInquiryValid(m)
         /\ Accepts("profile_details_reply", m) <=> ProfileDetailsReplyValid(m)
         /\ Accepts("profile_specific_data", m) <=> SpecificDataValid(m)
         /\ Accepts("capabilities", m) <=> CapabilitiesValid(m)
         /\ Accepts("get_property", m) <=> GetPropertyValid(m)
         /\ Accepts("set_property", m) <=> SetPropertyValid(m)
         /\ Accepts("subscription", m) <=> SubscriptionValid(m)
         /\ Accepts("notify", m) <=> NotifyValid(m)
         /\ Accepts("process_reply", m) <=> ProcessReplyValid(m)
         /\ Accepts("report_inquiry", m) <=> ReportInquiryValid(m)
         /\ Accepts("report_reply", m) <=> ReportReplyValid(m)
BY ZenonT(60) DEF Accepts

\* and what its accessors return
LEMMA FieldsAre ==
  ASSUME NEW m
  PROVE  /\ Fields("identity_reply", m) = [identity |-> Identity(m)]
         /\ Fields("profile_inquiry", m) = HeaderOf(m)
         /\ Fields("discovery_inquiry", m) = DiscoveryFields(m)
         /\ Fields("discovery_reply", m) =
              [discovery |-> DiscoveryFields(m), function_block |-> FunctionBlock(m)]
         /\ Fields("endpoint_inquiry", m) = [status |-> At(m, Payload)]
         /\ Fields("endpoint_reply", m) = EndpointReplyFields(m)
         /\ Fields("ack", m) = NackFields(m)
         /\ Fields("nak", m) = NackFields(m)
         /\ Fields("invalidate_muid", m) = [target_muid |-> MakeUint28(m, Payload)]
         /\ Fields("profile_inquiry_reply", m) = ProfileInquiryReplyFields(m)
         /\ Fields("profile_id", m) = ProfileIdFields(m)
         /\ Fields("profile_destination", m) = ProfileDestinationFields(m)
         /\ Fields("profile_details_inquiry", m) = ProfileDetailsInquiryFields(m)
         /\ Fields("profile_details_reply", m) = ProfileDetailsReplyFields(m)
         /\ Fields("profile_specific_data", m) = SpecificDataFields(m)
         /\ Fields("capabilities", m) = CapabilitiesFields(m)
         /\ \A v \in {"get_property", "set_property", "subscription", "notify"} :
              Fields(v, m) = PropertyDataFields(m)
         /\ Fields("process_reply", m) = [supported_features |-> At(m, Payload)]
         /\ Fields("report_inquiry", m) = ReportInquiryFields(m)
         /\ Fields("report_reply", m) = ReportReplyFields(m)
BY ZenonT(60) DEF Fields

\* The views that a subtype is for.  A view looks at no message of another one.
ViewsOf(t) ==
  CASE t = 112 -> {"discovery_inquiry"}
    [] t = 113 -> {"discovery_reply"}
    [] t = 114 -> {"endpoint_inquiry"}
    [] t = 115 -> {"endpoint_reply"}
    [] t = 125 -> {"ack"}
    [] t = 126 -> {"invalidate_muid"}
    [] t = 127 -> {"nak"}
    [] t = 32 -> {"profile_inquiry"}
    [] t = 33 -> {"profile_inquiry_reply"}
    [] t \in 34..37 -> {"profile_id", "profile_destination"}
    [] t \in 38..39 -> {"profile_id"}
    [] t = 40 -> {"profile_details_inquiry"}
    [] t = 41 -> {"profile_details_reply"}
    [] t = 47 -> {"profile_specific_data"}
    [] t \in 48..49 -> {"capabilities"}
    [] t \in 52..53 -> {"get_property"}
    [] t \in 54..55 -> {"set_property"}
    [] t \in 56..57 -> {"subscription"}
    [] t = 63 -> {"notify"}
    [] t = 65 -> {"process_reply"}
    [] t = 66 -> {"report_inquiry"}
    [] t = 67 -> {"report_reply"}
    [] OTHER -> {}

LEMMA OnlyItsViews ==
  ASSUME NEW m, NEW v \in Views, Accepts(v, m), At(m, 1) = 13
  PROVE  v \in {"inquiry"} \union ViewsOf(At(m, 2))
<1> DEFINE t == At(m, 2)
<1>6. v # "identity_reply"
  <2> SUFFICES ASSUME TypeOf(m) = GeneralInformation PROVE FALSE
    BY AcceptedIf DEF IsIdentityReply
  <2>1. TypeOf(m) = <<m.manufacturer, 13>> \/ TypeOf(m) = <<>>
    BY DEF TypeOf, NoType
  <2>2. TypeOf(m) = <<NonRealtime, 6>>
    BY DEF GeneralInformation
  <2> QED BY <2>1, <2>2
<1>1. /\ v = "discovery_inquiry" => t = 112
      /\ v = "discovery_reply" => t = 113
      /\ v = "endpoint_inquiry" => t = 114
      /\ v = "endpoint_reply" => t = 115
      /\ v = "ack" => t = 125
      /\ v = "nak" => t = 127
  BY AcceptedIf, SMTT(30)
     DEF DiscoveryInquiryValid, DiscoveryReplyValid, EndpointInquiryValid, EndpointReplyValid,
         AckValid, NakValid, Is, Management
<1>2. /\ v = "invalidate_muid" => t = 126
      /\ v = "profile_inquiry" => t = 32
  BY AcceptedIf, SMTT(30)
     DEF InvalidateMuidValid, ProfileInquiryValid, SubtypeOf, Management, ProfileConfiguration
<1>3. /\ v = "profile_inquiry_reply" => t = 33
      /\ v = "profile_id" => t \in 34..39
      /\ v = "profile_destination" => t \in 34..37
      /\ v = "profile_details_inquiry" => t = 40
      /\ v = "profile_details_reply" => t = 41
      /\ v = "profile_specific_data" => t = 47
  BY AcceptedIf, SMTT(30)
     DEF ProfileInquiryReplyValid, ProfileIdValid, ProfileDestinationValid,
         ProfileDetailsInquiryValid, ProfileDetailsReplyValid, SpecificDataValid, Is,
         ProfileConfiguration
<1>4. /\ v = "capabilities" => t \in 48..49
      /\ v = "get_property" => t \in 52..53
      /\ v = "set_property" => t \in 54..55
      /\ v = "subscription" => t \in 56..57
      /\ v = "notify" => t = 63
      /\ v = "process_reply" => t = 65
      /\ v = "report_inquiry" => t = 66
      /\ v = "report_reply" => t = 67
  BY AcceptedIf, SMTT(30)
     DEF CapabilitiesValid, GetPropertyValid, SetPropertyValid, SubscriptionValid, NotifyValid,
         ProcessReplyValid, ReportInquiryValid, ReportReplyValid, Is, ProcessInquiry
<1> HIDE DEF t
<1>5. v \in {"inquiry"} \union ViewsOf(t)
  BY <1>1, <1>2, <1>3, <1>4, <1>6, SMTT(60) DEF Views, ViewsOf
<1> QED BY <1>5 DEF t

-----------------------------------------------------------------------------
(* Starts of messages. *)

\* n is a start of m, or all of it, as far as most views look: not at the device
\* ID and the MUIDs.
StartOf(n, m) ==
  /\ n \in Packed /\ m \in Packed /\ n.manufacturer = m.manufacturer /\ Size(n) <= Size(m)
  /\ \A k \in 0..Size(n) - 1 : k \in 1..3 \/ k >= Payload => At(n, k) = At(m, k)

\* What is in a start is read alike.
LEMMA ReadsAlike ==
  ASSUME NEW n, NEW m, StartOf(n, m)
  PROVE  /\ Size(n) \in Nat /\ Size(m) \in Nat
         /\ \A k \in Nat : (k \in 1..3 \/ k >= 12) /\ k < Size(n) =>
              At(n, k) = At(m, k) /\ At(n, k) \in Nat
         /\ \A k \in Nat : k >= 12 /\ k + 1 < Size(n) =>
              MakeUint14(n, k) = MakeUint14(m, k) /\ MakeUint14(n, k) \in Nat
         /\ \A k \in Nat : k >= 12 /\ k + 3 < Size(n) =>
              MakeUint28(n, k) = MakeUint28(m, k) /\ MakeUint28(n, k) \in Nat
         /\ \A k, j \in Nat : k >= 12 /\ k + j <= Size(n) => Span(n, k, j) = Span(m, k, j)
<1>1. /\ n.data \in Bytes /\ m.data \in Bytes /\ Len(n.data) \in Nat /\ Len(m.data) \in Nat
      /\ Size(n) = Len(n.data) /\ Size(m) = Len(m.data) /\ Len(n.data) <= Len(m.data)
      /\ n \in Packed /\ m \in Packed
      /\ \A i \in 1..Len(n.data) : n.data[i] \in Byte
      /\ \A i \in 1..Len(m.data) : m.data[i] \in Byte
  BY LenProperties, ElementOfSeq DEF StartOf, Packed, Bytes, Size
<1>2. ASSUME NEW k \in Nat, k \in 1..3 \/ k >= 12, k < Size(n)
      PROVE  At(n, k) = At(m, k) /\ At(n, k) \in Nat
  <2>1. k \in 0..Size(n) - 1 /\ k + 1 \in 1..Len(n.data)
    BY <1>1, <1>2
  <2>2. n.data[k + 1] \in Byte
    BY <1>1, <2>1
  <2>3. At(n, k) = At(m, k)
    BY <1>2, <2>1 DEF StartOf, Payload
  <2> QED BY <2>2, <2>3 DEF At, Byte
<1>3. ASSUME NEW k \in Nat, k >= 12, k + 1 < Size(n)
      PROVE  MakeUint14(n, k) = MakeUint14(m, k) /\ MakeUint14(n, k) \in Nat
  <2>1. At(n, k) = At(m, k) /\ At(n, k + 1) = At(m, k + 1)
    BY <1>1, <1>2, <1>3
  <2>2. MakeUint14(n, k) \in Nat
    BY <1>1, <1>3, ReadNumber
  <2> QED BY <2>1, <2>2 DEF MakeUint14
<1>4. ASSUME NEW k \in Nat, k >= 12, k + 3 < Size(n)
      PROVE  MakeUint28(n, k) = MakeUint28(m, k) /\ MakeUint28(n, k) \in Nat
  <2>1. MakeUint14(n, k) = MakeUint14(m, k) /\ MakeUint14(n, k + 2) = MakeUint14(m, k + 2)
    BY <1>1, <1>3, <1>4
  <2>2. MakeUint28(n, k) \in Nat
    BY <1>1, <1>4, ReadLongNumber
  <2> QED BY <2>1, <2>2 DEF MakeUint28
<1>5. ASSUME NEW k \in Nat, NEW j \in Nat, k >= 12, k + j <= Size(n)
      PROVE  Span(n, k, j) = Span(m, k, j)
  <2> DEFINE a == SubSeq(n.data, k + 1, k + j)
             b == SubSeq(m.data, k + 1, k + j)
  <2>1. k + 1 \in Int /\ k + j \in Int /\ (k + j) - (k + 1) + 1 = j
    OBVIOUS
  <2>2. /\ \A i \in k + 1..k + j : n.data[i] \in Byte /\ m.data[i] \in Byte
        /\ (IF k + 1 <= k + j THEN (k + j) - (k + 1) + 1 ELSE 0) = j
    BY <1>1, <1>5
  <2>3. /\ a \in Bytes /\ Len(a) = j
        /\ \A i \in 1..j : a[i] = n.data[(k + 1) + i - 1]
    BY <2>1, <2>2, SubSeqProperties DEF Bytes
  <2>4. /\ b \in Bytes /\ Len(b) = j
        /\ \A i \in 1..j : b[i] = m.data[(k + 1) + i - 1]
    BY <2>1, <2>2, SubSeqProperties DEF Bytes
  <2> HIDE DEF a, b
  <2>5. \A i \in 1..j : a[i] = b[i]
    <3> TAKE i \in 1..j
    <3>1. At(n, k + i - 1) = At(m, k + i - 1)
      BY <1>1, <1>2, <1>5
    <3>2. (k + i - 1) + 1 = (k + 1) + i - 1
      OBVIOUS
    <3> QED BY <2>3, <2>4, <3>1, <3>2 DEF At
  <2>6. a = b
    BY <2>3, <2>4, <2>5, SeqEqual DEF Bytes
  <2> QED BY <2>6 DEF a, b, Span
<1> QED BY <1>1, <1>2, <1>3, <1>4, <1>5

\* If a view takes a start of a message, it takes the message, and reads the same.
LEMMA TakesAlike ==
  ASSUME NEW n, NEW m, StartOf(n, m), NEW v \in Views, v # "identity_reply", Accepts(v, n)
  PROVE  /\ Accepts(v, m) /\ End(v, m) = End(v, n)
         /\ v \notin {"inquiry", "profile_inquiry", "profile_destination"} =>
              Fields(v, m) = Fields(v, n)
         /\ v = "profile_destination" =>
              /\ Fields(v, n).profile = Fields(v, m).profile
              /\ Fields(v, n).params[2] = Fields(v, m).params[2]
<1>1. /\ Size(n) \in Nat /\ Size(m) \in Nat /\ Size(n) <= Size(m)
      /\ n.manufacturer = m.manufacturer
      /\ \A k \in Nat : (k \in 1..3 \/ k >= 12) /\ k < Size(n) =>
           At(m, k) = At(n, k) /\ At(n, k) \in Nat
  BY ReadsAlike DEF StartOf
<1>2. \A k \in Nat : k >= 12 /\ k + 1 < Size(n) =>
        MakeUint14(m, k) = MakeUint14(n, k) /\ MakeUint14(n, k) \in Nat
  BY ReadsAlike
<1>3. \A k \in Nat : k >= 12 /\ k + 3 < Size(n) =>
        MakeUint28(m, k) = MakeUint28(n, k) /\ MakeUint28(n, k) \in Nat
  BY ReadsAlike
<1>4. \A k, j \in Nat : k >= 12 /\ k + j <= Size(n) => Span(m, k, j) = Span(n, k, j)
  BY ReadsAlike
<1>5. CASE v \in {"inquiry", "profile_inquiry"}
  <2>1. /\ v = "inquiry" => InquiryValid(n)
        /\ v = "profile_inquiry" => ProfileInquiryValid(n)
    BY AcceptedIf
  <2>2. v = "inquiry" => InquiryValid(m)
    BY <1>1, <2>1 DEF InquiryValid, Payload
  <2>3. v = "profile_inquiry" => ProfileInquiryValid(m)
    <3> HAVE v = "profile_inquiry"
    <3>1. Size(n) >= 12 /\ TypeOf(n) = CapabilityInquiryType /\ SubtypeOf(n) = 32
      BY <2>1 DEF ProfileInquiryValid, Payload, ProfileConfiguration
    <3>2. At(m, 1) = At(n, 1) /\ At(m, 2) = At(n, 2)
      BY <1>1, <3>1
    <3> QED BY <1>1, <3>1, <3>2
            DEF ProfileInquiryValid, Payload, ProfileConfiguration, TypeOf, SubtypeOf, IsUniversal
  <2> QED BY <1>5, <2>2, <2>3, AcceptsIs, ReadUpTo
<1>6. CASE v \in {"discovery_inquiry", "discovery_reply", "capabilities"}
  <2>1. /\ v = "discovery_inquiry" => DiscoveryInquiryValid(n)
        /\ v = "discovery_reply" => DiscoveryReplyValid(n)
        /\ v = "capabilities" => CapabilitiesValid(n)
    BY AcceptedIf
  <2>2. Size(n) >= 13
    BY <1>1, <1>6, <2>1
       DEF DiscoveryInquiryValid, DiscoveryReplyValid, CapabilitiesValid, Is, Payload
  <2>3. /\ At(m, 1) = At(n, 1) /\ At(m, 2) = At(n, 2) /\ At(m, 3) = At(n, 3)
        /\ At(n, 3) \in Nat
    BY <1>1, <2>2
  <2>4. ASSUME v \in {"discovery_inquiry", "discovery_reply"}
        PROVE  DiscoveryFields(m) = DiscoveryFields(n)
    <3>1. Size(n) >= 28 /\ (At(n, 3) >= 2 => Size(n) >= 29)
      <4>1. DiscoveryInquiryValid(n) => Size(n) >= 28 /\ (At(n, 3) >= 2 => Size(n) >= 29)
        BY <1>1, <2>3, DiscoveryValid
      <4>2. DiscoveryReplyValid(n) => Size(n) >= 28 /\ (At(n, 3) >= 2 => Size(n) >= 29)
        BY <1>1, <2>3, DiscoveryValid
      <4> QED BY ONLY <2>1, <2>4, <4>1, <4>2
    <3>2. SubSeq(m.data, 12 + 1, 12 + 3) = SubSeq(n.data, 12 + 1, 12 + 3)
      <4>1. 12 \in Nat /\ 3 \in Nat /\ 12 >= 12 /\ 12 + 3 <= Size(n)
        BY ONLY <1>1, <3>1
      <4>2. Span(m, 12, 3) = Span(n, 12, 3)
        BY ONLY <1>4, <4>1
      <4> QED BY ONLY <4>2 DEF Span
    <3>3. MakeDeviceIdentity(m, 12) = MakeDeviceIdentity(n, 12)
      BY <1>1, <1>2, <1>3, <3>1, <3>2 DEF MakeDeviceIdentity
    <3> QED BY <1>1, <1>3, <2>3, <3>1, <3>3 DEF DiscoveryFields, Payload, Version2
  <2>5. v = "discovery_inquiry" =>
          DiscoveryInquiryValid(m) /\ DiscoveryInquiryEnd(m) = DiscoveryInquiryEnd(n)
    BY <1>1, <2>1, <2>3, DiscoveryValid DEF DiscoveryInquiryEnd, Is, Payload
  <2>6. v = "discovery_reply" =>
          /\ DiscoveryReplyValid(m) /\ DiscoveryReplyEnd(m) = DiscoveryReplyEnd(n)
          /\ FunctionBlock(m) = FunctionBlock(n)
    BY <1>1, <2>1, <2>3, DiscoveryValid
       DEF DiscoveryReplyEnd, FunctionBlock, Is, Payload, Version2
  <2>7. v = "capabilities" =>
          /\ CapabilitiesValid(m) /\ CapabilitiesEnd(m) = CapabilitiesEnd(n)
          /\ CapabilitiesFields(m) = CapabilitiesFields(n)
    BY <1>1, <2>1, <2>3
       DEF CapabilitiesValid, CapabilitiesEnd, CapabilitiesFields, Is, Payload, Version2
  <2> QED BY <1>6, <2>4, <2>5, <2>6, <2>7, AcceptsIs, ReadUpTo, FieldsAre
<1>7. CASE v \in {"endpoint_inquiry", "process_reply", "invalidate_muid", "report_reply",
                  "report_inquiry"}
  <2>1. /\ v = "endpoint_inquiry" => EndpointInquiryValid(n)
        /\ v = "process_reply" => ProcessReplyValid(n)
        /\ v = "invalidate_muid" => InvalidateMuidValid(n)
        /\ v = "report_reply" => ReportReplyValid(n)
        /\ v = "report_inquiry" => ReportInquiryValid(n)
    BY AcceptedIf
  <2>2. v = "endpoint_inquiry" =>
          EndpointInquiryValid(m) /\ At(m, Payload) = At(n, Payload)
    BY <1>1, <2>1 DEF EndpointInquiryValid, Is, Payload
  <2>3. v = "process_reply" => ProcessReplyValid(m) /\ At(m, Payload) = At(n, Payload)
    BY <1>1, <2>1 DEF ProcessReplyValid, Is, Payload
  <2>4. v = "report_reply" => ReportReplyValid(m) /\ ReportReplyFields(m) = ReportReplyFields(n)
    BY <1>1, <2>1 DEF ReportReplyValid, ReportReplyFields, Is, Payload
  <2>5. v = "report_inquiry" =>
          ReportInquiryValid(m) /\ ReportInquiryFields(m) = ReportInquiryFields(n)
    BY <1>1, <2>1 DEF ReportInquiryValid, ReportInquiryFields, Is, Payload
  <2>6. v = "invalidate_muid" =>
          InvalidateMuidValid(m) /\ MakeUint28(m, Payload) = MakeUint28(n, Payload)
    <3> HAVE v = "invalidate_muid"
    <3>1. Size(n) >= 16 /\ TypeOf(n) = CapabilityInquiryType /\ SubtypeOf(n) = 126
      BY <2>1 DEF InvalidateMuidValid, Payload, Management
    <3>2. At(m, 1) = At(n, 1) /\ At(m, 2) = At(n, 2)
      BY <1>1, <3>1
    <3> QED BY <1>1, <1>3, <3>1, <3>2
            DEF InvalidateMuidValid, Payload, Management, TypeOf, SubtypeOf, IsUniversal
  <2> QED BY <1>7, <2>2, <2>3, <2>4, <2>5, <2>6, AcceptsIs, ReadUpTo, FieldsAre
<1>8. CASE v \in {"profile_id", "profile_destination", "profile_details_inquiry"}
  <2>1. /\ v = "profile_id" => ProfileIdValid(n)
        /\ v = "profile_destination" => ProfileDestinationValid(n)
        /\ v = "profile_details_inquiry" => ProfileDetailsInquiryValid(n)
    BY AcceptedIf
  <2>2. Size(n) >= 17
    BY <1>1, <1>8, <2>1
       DEF ProfileIdValid, ProfileDestinationValid, ProfileDetailsInquiryValid, Is, Payload
  <2>3. Span(m, 12, 5) = Span(n, 12, 5)
    BY <1>1, <1>4, <2>2
  <2>4. v = "profile_id" => ProfileIdValid(m) /\ ProfileIdFields(m) = ProfileIdFields(n)
    BY <1>1, <2>1, <2>3 DEF ProfileIdValid, ProfileIdFields, Is, Payload, ProfileSize
  <2>5. v = "profile_details_inquiry" =>
          /\ ProfileDetailsInquiryValid(m)
          /\ ProfileDetailsInquiryFields(m) = ProfileDetailsInquiryFields(n)
    BY <1>1, <2>1, <2>3
       DEF ProfileDetailsInquiryValid, ProfileDetailsInquiryFields, Is, Payload, ProfileSize
  <2>6. v = "profile_destination" =>
          /\ ProfileDestinationValid(m)
          /\ ProfileDestinationFields(m).profile = ProfileDestinationFields(n).profile
          /\ ProfileDestinationFields(m).params[2] = ProfileDestinationFields(n).params[2]
    BY <1>1, <1>2, <2>1, <2>3
       DEF ProfileDestinationValid, ProfileDestinationFields, Is, Payload, ProfileSize
  <2> QED BY <1>8, <2>4, <2>5, <2>6, AcceptsIs, ReadUpTo, FieldsAre
<1>9. CASE v \in {"endpoint_reply", "ack", "nak", "profile_details_reply",
                  "profile_specific_data"}
  <2>1. /\ v = "endpoint_reply" => EndpointReplyValid(n)
        /\ v = "ack" => AckValid(n)
        /\ v = "nak" => NakValid(n)
        /\ v = "profile_details_reply" => ProfileDetailsReplyValid(n)
        /\ v = "profile_specific_data" => SpecificDataValid(n)
    BY AcceptedIf
  <2>2. v = "endpoint_reply" =>
          /\ EndpointReplyValid(m) /\ EndpointReplyEnd(m) = EndpointReplyEnd(n)
          /\ EndpointReplyFields(m) = EndpointReplyFields(n)
    BY <1>1, <1>2, <1>4, <2>1
       DEF EndpointReplyValid, EndpointReplyEnd, EndpointReplyFields, Is, Payload
  <2>3. v \in {"ack", "nak"} => NackEnd(m) = NackEnd(n) /\ NackFields(m) = NackFields(n)
    BY <1>1, <1>2, <1>4, <2>1
       DEF AckValid, NakValid, NackEnd, NackFields, Is, Payload
  <2>4. (v = "ack" => AckValid(m)) /\ (v = "nak" => NakValid(m))
    <3> SUFFICES ASSUME v \in {"ack", "nak"}
                 PROVE  (v = "ack" => AckValid(m)) /\ (v = "nak" => NakValid(m))
      OBVIOUS
    <3>1. Size(n) >= 22
      BY <1>1, <2>1 DEF AckValid, NakValid, Is, Payload
    <3>2. /\ NackEnd(m) = NackEnd(n) /\ NackEnd(n) \in Nat
          /\ At(m, 1) = At(n, 1) /\ At(m, 2) = At(n, 2) /\ At(m, 3) = At(n, 3)
      BY <1>1, <1>2, <2>3, <3>1 DEF NackEnd, Payload
    <3> QED BY <1>1, <2>1, <3>1, <3>2 DEF AckValid, NakValid, Is, Payload, Version2
  <2>5. v = "profile_details_reply" =>
          /\ ProfileDetailsReplyValid(m) /\ ProfileDetailsReplyEnd(m) = ProfileDetailsReplyEnd(n)
          /\ ProfileDetailsReplyFields(m) = ProfileDetailsReplyFields(n)
    BY <1>1, <1>2, <1>4, <2>1
       DEF ProfileDetailsReplyValid, ProfileDetailsReplyEnd, ProfileDetailsReplyFields, Is,
           Payload, ProfileSize
  <2>6. v = "profile_specific_data" =>
          /\ SpecificDataValid(m) /\ SpecificDataEnd(m) = SpecificDataEnd(n)
          /\ SpecificDataFields(m) = SpecificDataFields(n)
    BY <1>1, <1>3, <1>4, <2>1
       DEF SpecificDataValid, SpecificDataEnd, SpecificDataFields, Is, Payload, ProfileSize
  <2> QED BY <1>9, <2>2, <2>3, <2>4, <2>5, <2>6, AcceptsIs, ReadUpTo, FieldsAre
<1>10. CASE v = "profile_inquiry_reply"
  <2>1. ProfileInquiryReplyValid(n)
    BY <1>10, AcceptedIf
  <2> DEFINE e == MakeUint14(n, 12)
             o == 14 + 5 * e
             d == MakeUint14(n, o)
  <2>2. /\ Size(n) >= 16 /\ Is(n, 16, {33}) /\ OffsetOfDisabled(n) = o
        /\ Size(n) >= o + 2 /\ Size(n) >= o + 2 + 5 * d
    BY <2>1 DEF ProfileInquiryReplyValid, OffsetOfDisabled, Is, Payload, ProfileSize,
                ProfileConfiguration
  <2>3. MakeUint14(m, 12) = e /\ e \in Nat
    BY <1>1, <1>2, <2>2
  <2>4. o \in Nat /\ o >= 14
    BY <2>3
  <2>5. MakeUint14(m, o) = d /\ d \in Nat
    BY <1>1, <1>2, <2>2, <2>4
  <2>6. OffsetOfDisabled(m) = o
    BY <2>3 DEF OffsetOfDisabled, Payload, ProfileSize
  <2>7. \A k, c \in Nat : k >= 12 /\ k + 2 + 5 * c <= Size(n) =>
          [j \in 1..c |-> Span(m, k + 2 + 5 * (j - 1), 5)]
            = [j \in 1..c |-> Span(n, k + 2 + 5 * (j - 1), 5)]
    <3> TAKE k, c \in Nat
    <3> HAVE k >= 12 /\ k + 2 + 5 * c <= Size(n)
    <3>1. \A j \in 1..c : Span(m, k + 2 + 5 * (j - 1), 5) = Span(n, k + 2 + 5 * (j - 1), 5)
      <4> TAKE j \in 1..c
      <4>1. /\ k + 2 + 5 * (j - 1) \in Nat /\ k + 2 + 5 * (j - 1) >= 12
            /\ k + 2 + 5 * (j - 1) + 5 <= Size(n)
        BY <1>1
      <4> QED BY <1>4, <4>1
    <3> QED BY <3>1
  <2> HIDE DEF e, o, d
  <2>8. Profiles(m, 12) = Profiles(n, 12)
    <3>1. 12 + 2 + 5 * e <= Size(n) /\ 12 \in Nat
      BY <1>1, <2>2, <2>3, <2>4 DEF o
    <3>2. MakeUint14(n, 12) = e
      BY DEF e
    <3>3. [j \in 1..e |-> Span(m, 12 + 2 + 5 * (j - 1), 5)]
            = [j \in 1..e |-> Span(n, 12 + 2 + 5 * (j - 1), 5)]
      BY <2>3, <2>7, <3>1
    <3> QED BY <2>3, <3>2, <3>3, Zenon DEF Profiles, ProfileSize
  <2>9. Profiles(m, o) = Profiles(n, o)
    <3>1. o + 2 + 5 * d <= Size(n) /\ o >= 12
      BY <1>1, <2>2, <2>4, <2>5
    <3>2. MakeUint14(n, o) = d
      BY DEF d
    <3> QED BY <2>4, <2>5, <2>7, <3>1, <3>2 DEF Profiles, ProfileSize
  <2>10. /\ At(m, 12) = At(n, 12) /\ At(m, 13) = At(n, 13)
         /\ At(m, o) = At(n, o) /\ At(m, o + 1) = At(n, o + 1)
         /\ At(m, 1) = At(n, 1) /\ At(m, 2) = At(n, 2)
    BY <1>1, <2>2, <2>4
  <2>11. ProfileInquiryReplyFields(m) = ProfileInquiryReplyFields(n)
    BY <2>2, <2>6, <2>8, <2>9, <2>10 DEF ProfileInquiryReplyFields, Payload
  <2>12. MakeUint14(n, o) = d
    BY DEF d
  <2>13. ProfileInquiryReplyValid(m) /\ ProfileInquiryReplyEnd(m) = ProfileInquiryReplyEnd(n)
    BY <1>1, <2>2, <2>4, <2>5, <2>6, <2>10, <2>12
       DEF ProfileInquiryReplyValid, ProfileInquiryReplyEnd, Is, Payload, ProfileSize,
           ProfileConfiguration
  <2> QED BY <1>10, <2>11, <2>13, AcceptsIs, ReadUpTo, FieldsAre
<1>11. CASE v \in {"get_property", "set_property", "subscription", "notify"}
  <2>1. PropertyDataValid(n)
    BY <1>11, AcceptedIf DEF GetPropertyValid, SetPropertyValid, SubscriptionValid, NotifyValid
  <2> DEFINE h == MakeUint14(n, 13)
             c == MakeUint14(n, 19 + h)
  <2>2. /\ Is(n, 21, 52..57 \union {63}) /\ Size(n) >= 21
        /\ Size(n) >= 15 + h + 6 /\ 21 + h + c <= Size(n)
    BY <2>1 DEF PropertyDataValid, PropertyDataEnd, HeaderSize, ChunkSize, Is, Payload
  <2>3. MakeUint14(m, 13) = h /\ h \in Nat
    BY <1>1, <1>2, <2>2
  <2>4. /\ MakeUint14(m, 15 + h) = MakeUint14(n, 15 + h)
        /\ MakeUint14(m, 17 + h) = MakeUint14(n, 17 + h)
        /\ MakeUint14(m, 19 + h) = c /\ c \in Nat
    <3>1. /\ 15 + h \in Nat /\ 15 + h >= 12 /\ 15 + h + 1 < Size(n)
          /\ 17 + h \in Nat /\ 17 + h >= 12 /\ 17 + h + 1 < Size(n)
          /\ 19 + h \in Nat /\ 19 + h >= 12 /\ 19 + h + 1 < Size(n)
      BY <1>1, <2>2, <2>3
    <3> QED BY <1>2, <3>1
  <2>5. HeaderSize(m) = h /\ HeaderSize(n) = h /\ ChunkSize(m) = c /\ ChunkSize(n) = c
    BY <2>3, <2>4 DEF HeaderSize, ChunkSize, Payload
  <2>6. PropertyDataEnd(m) = PropertyDataEnd(n) /\ PropertyDataEnd(n) = 21 + h + c
    BY <2>5 DEF PropertyDataEnd, Payload
  <2> HIDE DEF h, c
  <2>7. At(m, 1) = At(n, 1) /\ At(m, 2) = At(n, 2) /\ At(m, 12) = At(n, 12)
    BY <1>1, <2>2
  <2>8. Span(m, 15, h) = Span(n, 15, h) /\ Span(m, 21 + h, c) = Span(n, 21 + h, c)
    <3>1. 15 + h <= Size(n) /\ 21 + h \in Nat /\ 21 + h >= 12 /\ 21 + h + c <= Size(n)
      BY <1>1, <2>2, <2>3, <2>4
    <3> QED BY <1>4, <2>3, <2>4, <3>1
  <2>9. PropertyDataFields(m) = PropertyDataFields(n)
    BY <2>4, <2>5, <2>7, <2>8 DEF PropertyDataFields, Payload
  <2>10. PropertyDataValid(m)
    <3>1. Is(m, 21, 52..57 \union {63})
      BY <1>1, <2>2, <2>7 DEF Is
    <3>2. Size(m) >= 15 + h + 6 /\ 21 + h + c <= Size(m)
      BY <1>1, <2>2, <2>3, <2>4
    <3> QED BY <2>1, <2>4, <2>5, <2>6, <3>1, <3>2 DEF PropertyDataValid, Payload
  <2>11. At(m, 2) = At(n, 2) /\ (Accepts(v, n) => Accepts(v, m))
    BY <1>11, <2>7, <2>10, AcceptsIs
       DEF GetPropertyValid, SetPropertyValid, SubscriptionValid, NotifyValid
  <2> QED BY <1>11, <2>6, <2>9, <2>11, ReadUpTo, FieldsAre
<1> QED BY <1>5, <1>6, <1>7, <1>8, <1>9, <1>10, <1>11 DEF Views

-----------------------------------------------------------------------------
(* Messages that read back. *)

Headers ==
  [device : Byte, subtype : Byte, version : {Version1, Version2},
   source : 0..Broadcast, destination : 0..Broadcast]

\* What ReadBack says of a message, and that its views read all of it.
Reads(m, header, fields) ==
  /\ {v \in Views : Accepts(v, m)}
       = DOMAIN fields \union (IF header # NoHeader THEN {"inquiry"} ELSE {})
  /\ "inquiry" \notin DOMAIN fields
  /\ \A v \in DOMAIN fields : Fields(v, m) = fields[v]
  /\ header # NoHeader =>
       header \in Headers /\ HasHeader(m) /\ At(m, 1) = 13 /\ HeaderOf(m) = header
  /\ header = NoHeader =>
       /\ Formed(m) /\ DOMAIN fields \subseteq {"identity_reply"}
       /\ DOMAIN fields = {} => Size(m) = 3
  /\ \A v \in DOMAIN fields :
       End(v, m) = Size(m) \/ (v = "profile_id" /\ "profile_destination" \in DOMAIN fields)

LEMMA HeaderIsOne ==
  /\ \A h \in Headers : h # NoHeader
  /\ \A t, e \in Byte : \A s, d \in 0..Broadcast :
       Header(t, s, d, e) \in Headers /\ OfVersion1(Header(t, s, d, e)) \in Headers
  /\ \A h \in Headers : OfVersion1(h) = [device |-> h.device, subtype |-> h.subtype,
       version |-> Version1, source |-> h.source, destination |-> h.destination]
<1>1. \A h \in Headers : h # NoHeader
  <2> TAKE h \in Headers
  <2>1. "device" \in DOMAIN h
    BY DEF Headers
  <2>2. DOMAIN NoHeader = 1..0
    BY DEF NoHeader
  <2>3. 1..0 = {}
    OBVIOUS
  <2> QED BY <2>1, <2>2, <2>3
<1>2. \A t, e \in Byte : \A s, d \in 0..Broadcast : Header(t, s, d, e) \in Headers
  BY DEF Header, Headers
<1>3. \A h \in Headers : OfVersion1(h) = [device |-> h.device, subtype |-> h.subtype,
        version |-> Version1, source |-> h.source, destination |-> h.destination]
  BY DEF Headers, OfVersion1
<1>4. \A h \in Headers : OfVersion1(h) \in Headers
  BY DEF Headers, OfVersion1
<1> QED BY <1>1, <1>2, <1>3, <1>4

\* The header of a message is read where it is.
LEMMA HeaderRead ==
  ASSUME NEW m, HasHeader(m), At(m, 1) = 13
  PROVE  /\ HeaderOf(m).device = At(m, 0) /\ HeaderOf(m).subtype = At(m, 2)
         /\ HeaderOf(m).version = At(m, 3)
         /\ HeaderOf(m).source = MakeUint28(m, 4) /\ HeaderOf(m).destination = MakeUint28(m, 8)
         /\ SubtypeOf(m) = At(m, 2) /\ TypeOf(m) = CapabilityInquiryType
         /\ InquiryValid(m)
<1>1. m.manufacturer = NonRealtime /\ Size(m) \in Nat /\ Size(m) >= 12
  BY MessageBytes
<1>2. SubtypeOf(m) = At(m, 2) /\ TypeOf(m) = <<NonRealtime, 13>>
  BY <1>1 DEF SubtypeOf, TypeOf, IsUniversal
<1>3. InquiryValid(m)
  BY <1>1 DEF InquiryValid, Payload
<1> QED BY <1>2, <1>3 DEF HeaderOf, CapabilityInquiryType

\* A message of which one view is to read everything
LEMMA ReadsOne ==
  ASSUME NEW m, NEW h \in Headers, NEW bytes, Composed(m, h, bytes),
         NEW v \in Views, v # "inquiry", ViewsOf(h.subtype) = {v},
         Accepts(v, m), NEW f, Fields(v, m) = f, End(v, m) = Size(m)
  PROVE  Reads(m, h, Only(v, f))
<1>1. HasHeader(m) /\ At(m, 1) = 13 /\ HeaderOf(m) = h
  BY DEF Composed
<1>2. At(m, 2) = h.subtype /\ InquiryValid(m)
  BY <1>1, HeaderRead
<1>3. Accepts("inquiry", m) /\ "inquiry" \in Views
  BY <1>2, AcceptsIs DEF Views
<1>4. \A w \in Views : Accepts(w, m) => w \in {"inquiry", v}
  BY <1>1, <1>2, OnlyItsViews
<1>5. h # NoHeader
  BY HeaderIsOne
<1>6. DOMAIN Only(v, f) = {v} /\ Only(v, f)[v] = f
  BY DEF Only
<1>7. {w \in Views : Accepts(w, m)} = {v, "inquiry"}
  BY <1>3, <1>4
<1> QED BY <1>1, <1>5, <1>6, <1>7 DEF Reads

\* One that no view reads but those of any message
LEMMA ReadsNone ==
  ASSUME NEW m, NEW h \in Headers, NEW bytes, Composed(m, h, bytes),
         \A v \in ViewsOf(h.subtype) : ~ Accepts(v, m)
  PROVE  Reads(m, h, <<>>)
<1>1. HasHeader(m) /\ At(m, 1) = 13 /\ HeaderOf(m) = h
  BY DEF Composed
<1>2. At(m, 2) = h.subtype /\ InquiryValid(m)
  BY <1>1, HeaderRead
<1>3. Accepts("inquiry", m) /\ "inquiry" \in Views
  BY <1>2, AcceptsIs DEF Views
<1>4. \A w \in Views : Accepts(w, m) => w = "inquiry"
  BY <1>1, <1>2, OnlyItsViews
<1>5. h # NoHeader
  BY HeaderIsOne
<1>6. DOMAIN <<>> = {}
  OBVIOUS
<1>7. {w \in Views : Accepts(w, m)} = {"inquiry"}
  BY <1>3, <1>4
<1> QED BY <1>1, <1>5, <1>6, <1>7 DEF Reads

\* What is known of a message behind its header
LEMMA ComposedOf ==
  ASSUME NEW m, NEW h, NEW bytes, Composed(m, h, bytes)
  PROVE  /\ m \in Packed /\ m.manufacturer = NonRealtime /\ Size(m) \in Nat
         /\ At(m, 0) = h.device /\ At(m, 1) = 13 /\ At(m, 2) = h.subtype /\ At(m, 3) = h.version
         /\ SubtypeOf(m) = h.subtype /\ TypeOf(m) = CapabilityInquiryType
         /\ Size(m) = 12 + Len(bytes) /\ Holds(m, 12, bytes)
<1>1. HasHeader(m) /\ At(m, 1) = 13 /\ HeaderOf(m) = h
  BY DEF Composed
<1>2. Size(m) = 12 + Len(bytes) /\ Holds(m, 12, bytes)
  BY DEF Composed, Payload
<1> QED BY <1>1, <1>2, HeaderRead, MessageBytes

\* A message of version 1
LEMMA Version1Composed ==
  ASSUME NEW m, NEW h \in Headers, NEW bytes \in Bytes, Composed(m, h, bytes)
  PROVE  Composed(WithVersion1(m), OfVersion1(h), bytes)
<1> DEFINE n == WithVersion1(m)
<1>1. HasHeader(m) /\ At(m, 1) = 13 /\ HeaderOf(m) = h
      /\ Size(m) = Payload + Len(bytes) /\ Holds(m, Payload, bytes)
  BY DEF Composed
<1>2. <<Version1>> \in Bytes /\ Len(<<Version1>>) = 1 /\ 3 \in 0..12
  BY DEF Version1, Bytes, Byte
<1>3. /\ HasHeader(n) /\ Size(n) = Size(m)
      /\ \A i \in 0..Size(m) - 1 :
           At(n, i) = IF i >= 3 /\ i < 3 + 1 THEN <<Version1>>[i - 3 + 1] ELSE At(m, i)
  <2> DEFINE b == <<Version1>>
  <2>1. b \in Bytes /\ Len(b) = 1 /\ 3 + Len(b) <= 12 /\ 3 \in 0..12
    BY <1>2
  <2>2. n = Overwritten(m, 3, b)
    BY DEF WithVersion1
  <2> HIDE DEF b, n
  <2>3. /\ HasHeader(n) /\ Size(n) = Size(m)
        /\ \A i \in 0..Size(m) - 1 :
             At(n, i) = IF i >= 3 /\ i < 3 + Len(b) THEN b[i - 3 + 1] ELSE At(m, i)
    BY <1>1, <2>1, <2>2, OverwrittenBytes
  <2> QED BY <2>1, <2>3 DEF b
<1>4. Size(m) \in Nat /\ Size(m) >= 12
  BY <1>1, MessageBytes
<1> HIDE DEF n
<1>5. /\ At(n, 3) = Version1
      /\ \A i \in 0..Size(m) - 1 : i # 3 => At(n, i) = At(m, i)
  BY <1>3, <1>4
<1>6. \A i \in {0, 1, 2, 4, 5, 6, 7, 8, 9, 10, 11} : At(n, i) = At(m, i)
  BY <1>4, <1>5
<1>7. MakeUint28(n, 4) = MakeUint28(m, 4) /\ MakeUint28(n, 8) = MakeUint28(m, 8)
  BY <1>6 DEF MakeUint28, MakeUint14
<1>8. HeaderOf(n) = OfVersion1(h)
  BY <1>1, <1>3, <1>5, <1>6, <1>7, HeaderRead, HeaderIsOne DEF HeaderOf
<1>9. Len(bytes) \in Nat
  BY LenProperties DEF Bytes
<1>10. Holds(n, Payload, bytes)
  <2>1. \A i \in 1..Len(bytes) : n.data[12 + i] = bytes[i]
    <3> TAKE i \in 1..Len(bytes)
    <3>1. 11 + i \in 0..Size(m) - 1 /\ 11 + i # 3 /\ (11 + i) + 1 = 12 + i
      BY <1>1, <1>4, <1>9 DEF Payload
    <3>2. At(n, 11 + i) = At(m, 11 + i)
      BY <1>5, <3>1
    <3>3. m.data[12 + i] = bytes[i]
      BY <1>1 DEF Holds, Payload
    <3> QED BY <3>1, <3>2, <3>3 DEF At
  <2> QED BY <1>1, <1>3, <2>1 DEF Holds, Payload
<1> QED BY <1>1, <1>3, <1>6, <1>8, <1>10 DEF Composed, n

LEMMA Fits ==
  ASSUME FieldsFit
  PROVE  /\ \A p \in Numbers : p \in 0..Radix - 1 /\ p \in Nat /\ p \in Byte
         /\ \A b \in Blobs : (Len(b) % Word) = Len(b) /\ Len(b) \in 0..Broadcast
                             /\ Len(b) \in Nat /\ b \in Bytes
         /\ \A m \in Muids \union NewMuids \union {Broadcast} : m \in 0..Broadcast /\ m \in Nat
         /\ \A e \in Devices \union NewDevices \union {AllDevices} : e \in Byte /\ e \in Nat
<1>1. /\ Numbers \subseteq 0..Radix - 1 /\ Word <= Broadcast + 1
      /\ \A b \in Blobs : Len(b) < Word
  BY DEF FieldsFit
<1>2. Radix \in Nat /\ Broadcast \in Nat /\ Word \in Nat /\ Word > 0
  BY Powers, RadixAssumption DEF RadixAssumption
<1>3. \A p \in Numbers : p \in 0..Radix - 1 /\ p \in Nat /\ p \in Byte
  BY <1>1, <1>2, Arguments
<1>4. \A b \in Blobs : Len(b) \in Nat /\ b \in Bytes
  BY Arguments
<1>5. \A n, w \in Nat : n < w => n % w = n
  OBVIOUS
<1>6. \A b \in Blobs : (Len(b) % Word) = Len(b) /\ Len(b) \in 0..Broadcast
  BY <1>1, <1>2, <1>4, <1>5
<1>7. \A m \in Muids \union NewMuids \union {Broadcast} : m \in 0..Broadcast /\ m \in Nat
  BY <1>2, MessageAssumption DEF MessageAssumption
<1>8. \A e \in Devices \union NewDevices \union {AllDevices} : e \in Byte /\ e \in Nat
  BY Arguments DEF AllDevices
<1> QED BY <1>3, <1>4, <1>6, <1>7, <1>8

LEMMA ViewsOfEach ==
  /\ ViewsOf(112) = {"discovery_inquiry"} /\ ViewsOf(113) = {"discovery_reply"}
  /\ ViewsOf(114) = {"endpoint_inquiry"} /\ ViewsOf(115) = {"endpoint_reply"}
  /\ ViewsOf(125) = {"ack"} /\ ViewsOf(126) = {"invalidate_muid"} /\ ViewsOf(127) = {"nak"}
  /\ ViewsOf(32) = {"profile_inquiry"} /\ ViewsOf(33) = {"profile_inquiry_reply"}
  /\ \A t \in 34..37 : ViewsOf(t) = {"profile_id", "profile_destination"}
  /\ \A t \in 38..39 : ViewsOf(t) = {"profile_id"}
  /\ ViewsOf(40) = {"profile_details_inquiry"} /\ ViewsOf(41) = {"profile_details_reply"}
  /\ ViewsOf(47) = {"profile_specific_data"}
  /\ \A t \in 48..49 : ViewsOf(t) = {"capabilities"}
  /\ \A t \in 52..53 : ViewsOf(t) = {"get_property"}
  /\ \A t \in 54..55 : ViewsOf(t) = {"set_property"}
  /\ \A t \in 56..57 : ViewsOf(t) = {"subscription"}
  /\ ViewsOf(63) = {"notify"} /\ ViewsOf(64) = {} /\ ViewsOf(65) = {"process_reply"}
  /\ ViewsOf(66) = {"report_inquiry"} /\ ViewsOf(67) = {"report_reply"} /\ ViewsOf(68) = {}
BY SMTT(60) DEF ViewsOf

-----------------------------------------------------------------------------
LEMMA JoinedThree ==
  \A a, b, c \in Bytes :
    a \o b \o c \in Bytes /\ Len(a \o b \o c) = Len(a) + Len(b) + Len(c)
<1> TAKE a, b, c \in Bytes
<1>1. a \o b \in Bytes /\ Len(a \o b) = Len(a) + Len(b)
  BY Joined, Zenon
<1>2. a \o b \o c \in Bytes /\ Len(a \o b \o c) = Len(a \o b) + Len(c)
  BY <1>1, Joined, Zenon
<1> QED BY <1>1, <1>2, Zenon

LEMMA JoinedFour ==
  \A a, b, c, d \in Bytes :
    /\ a \o b \o c \o d \in Bytes
    /\ Len(a \o b \o c \o d) = Len(a) + Len(b) + Len(c) + Len(d)
<1> TAKE a, b, c, d \in Bytes
<1>1. a \o b \o c \in Bytes /\ Len(a \o b \o c) = Len(a) + Len(b) + Len(c)
  BY JoinedThree, Zenon
<1>2. a \o b \o c \o d \in Bytes /\ Len(a \o b \o c \o d) = Len(a \o b \o c) + Len(d)
  BY <1>1, Joined, Zenon
<1> QED BY <1>1, <1>2, Zenon

LEMMA IdentityHeld ==
  ASSUME FieldsFit, NEW i \in Identities, NEW m \in Packed, Size(m) \in Nat, NEW k \in Nat,
         Holds(m, k, DeviceIdentity(i))
  PROVE  MakeDeviceIdentity(m, k) = i
<1>1. /\ i.manufacturer \in Bytes /\ Len(i.manufacturer) = 3
      /\ i.family \in Nat /\ i.model \in Nat /\ i.revision \in 0..Broadcast
      /\ i.family < Radix * Radix /\ i.model < Radix * Radix
  <2>1. i.revision <= Broadcast /\ i.family < Radix * Radix /\ i.model < Radix * Radix
    BY DEF FieldsFit
  <2> QED BY <2>1, IdentityBytes, FixedSize
<1>2. /\ Uint14(i.family) \in Bytes /\ Len(Uint14(i.family)) = 2
      /\ Uint14(i.model) \in Bytes /\ Len(Uint14(i.model)) = 2
      /\ Uint28(i.revision) \in Bytes
  BY <1>1, Numbers14, Powers
<1>3. /\ Holds(m, k, i.manufacturer)
      /\ Holds(m, k + Len(i.manufacturer), Uint14(i.family))
      /\ Holds(m, k + Len(i.manufacturer) + Len(Uint14(i.family)), Uint14(i.model))
      /\ Holds(m, k + Len(i.manufacturer) + Len(Uint14(i.family)) + Len(Uint14(i.model)),
               Uint28(i.revision))
  <2> DEFINE a == i.manufacturer
             b == Uint14(i.family)
             c == Uint14(i.model)
             d == Uint28(i.revision)
  <2>1. a \in Bytes /\ b \in Bytes /\ c \in Bytes /\ d \in Bytes
    BY <1>1, <1>2
  <2>2. Size(m) \in Nat /\ k \in Nat /\ Holds(m, k, a \o b \o c \o d)
    BY DEF DeviceIdentity
  <2> HIDE DEF a, b, c, d
  <2>3. /\ Holds(m, k, a) /\ Holds(m, k + Len(a), b) /\ Holds(m, k + Len(a) + Len(b), c)
        /\ Holds(m, k + Len(a) + Len(b) + Len(c), d)
    BY ONLY <2>1, <2>2, HoldsFour
  <2> QED BY <2>3 DEF a, b, c, d
<1>4. /\ Holds(m, k + 3, Uint14(i.family)) /\ Holds(m, k + 5, Uint14(i.model))
      /\ Holds(m, k + 7, Uint28(i.revision))
  <2>1. /\ k + Len(i.manufacturer) = k + 3
        /\ k + Len(i.manufacturer) + Len(Uint14(i.family)) = k + 5
        /\ k + Len(i.manufacturer) + Len(Uint14(i.family)) + Len(Uint14(i.model)) = k + 7
    BY <1>1, <1>2
  <2> QED BY ONLY <1>3, <2>1
<1>5. MakeUint14(m, k + 3) = i.family /\ MakeUint14(m, k + 5) = i.model
      /\ MakeUint28(m, k + 7) = i.revision
  BY <1>1, <1>4, ReadsUint14, ReadsUint28
<1>6. SubSeq(m.data, k + 1, k + 3) = i.manufacturer
  BY <1>1, <1>3, ReadsSpan DEF Span
<1>7. i = [manufacturer |-> i.manufacturer, family |-> i.family, model |-> i.model,
           revision |-> i.revision]
  BY MessageAssumption DEF MessageAssumption
<1> QED BY <1>5, <1>6, <1>7 DEF MakeDeviceIdentity

\* A device identity has 11 bytes, what version 1 says of a device 16.
LEMMA DiscoveryLength ==
  ASSUME NEW i \in Identities
  PROVE  /\ DeviceIdentity(i) \in Bytes /\ Len(DeviceIdentity(i)) = 11
         /\ \A p, n \in Nat : /\ DeviceIdentity(i) \o Uint7(p) \o Uint28(n) \in Bytes
                              /\ Len(DeviceIdentity(i) \o Uint7(p) \o Uint28(n)) = 16
<1>1. Len(DeviceIdentity(i)) = 11
  <2>1. i.manufacturer \in Bytes /\ Len(i.manufacturer) = 3
    BY IdentityBytes, FixedSize
  <2>2. /\ Uint14(i.family) \in Bytes /\ Len(Uint14(i.family)) = 2
        /\ Uint14(i.model) \in Bytes /\ Len(Uint14(i.model)) = 2
        /\ Uint28(i.revision) \in Bytes /\ Len(Uint28(i.revision)) = 4
    BY IdentityBytes, Numbers14
  <2>3. Len(DeviceIdentity(i)) = Len(i.manufacturer) + Len(Uint14(i.family))
                                   + Len(Uint14(i.model)) + Len(Uint28(i.revision))
    <3>1. /\ i.manufacturer \in Bytes /\ Uint14(i.family) \in Bytes
          /\ Uint14(i.model) \in Bytes /\ Uint28(i.revision) \in Bytes
      BY <2>1, <2>2
    <3> DEFINE f == Uint14(i.family)
               g == Uint14(i.model)
               r == Uint28(i.revision)
               w == i.manufacturer
    <3>2. DeviceIdentity(i) = w \o f \o g \o r
      BY DEF DeviceIdentity
    <3> HIDE DEF f, g, r, w
    <3>3. Len(w \o f \o g \o r) = Len(w) + Len(f) + Len(g) + Len(r)
      BY <3>1, JoinedFour DEF f, g, r, w
    <3> QED BY <3>2, <3>3 DEF f, g, r, w
  <2> QED BY <2>1, <2>2, <2>3
<1>2. DeviceIdentity(i) \in Bytes
  BY IdentityBytes
<1>3. ASSUME NEW p \in Nat, NEW n \in Nat
      PROVE  /\ DeviceIdentity(i) \o Uint7(p) \o Uint28(n) \in Bytes
             /\ Len(DeviceIdentity(i) \o Uint7(p) \o Uint28(n)) = 16
  <2>1. /\ Uint7(p) \in Bytes /\ Len(Uint7(p)) = 1
        /\ Uint28(n) \in Bytes /\ Len(Uint28(n)) = 4
    BY Numbers14
  <2>2. /\ DeviceIdentity(i) \o Uint7(p) \o Uint28(n) \in Bytes
        /\ Len(DeviceIdentity(i) \o Uint7(p) \o Uint28(n))
             = Len(DeviceIdentity(i)) + Len(Uint7(p)) + Len(Uint28(n))
    BY <1>2, <2>1, JoinedThree
  <2> QED BY <1>1, <2>1, <2>2
<1> QED BY <1>1, <1>2, <1>3

LEMMA DiscoveryHeld ==
  ASSUME FieldsFit, NEW i \in Identities, NEW p \in Numbers, NEW n \in Muids,
         NEW m \in Packed, Size(m) \in Nat,
         Holds(m, 12, DeviceIdentity(i) \o Uint7(p) \o Uint28(n))
  PROVE  /\ MakeDeviceIdentity(m, 12) = i /\ At(m, 23) = p /\ MakeUint28(m, 24) = n
<1>1. p \in 0..Radix - 1 /\ p \in Nat /\ n \in 0..Broadcast /\ n \in Nat
  BY Fits
<1>2. /\ DeviceIdentity(i) \in Bytes /\ Uint7(p) \in Bytes /\ Len(Uint7(p)) = 1
      /\ Uint28(n) \in Bytes
  BY <1>1, IdentityBytes, Numbers14
<1>3. Len(DeviceIdentity(i)) = 11
  BY DiscoveryLength
<1>4. 12 \in Nat
  OBVIOUS
<1>5. /\ Holds(m, 12, DeviceIdentity(i))
      /\ Holds(m, 12 + Len(DeviceIdentity(i)), Uint7(p))
      /\ Holds(m, 12 + Len(DeviceIdentity(i)) + Len(Uint7(p)), Uint28(n))
  BY <1>2, <1>4, HoldsThree
<1>6. Holds(m, 23, Uint7(p)) /\ Holds(m, 24, Uint28(n))
  BY <1>2, <1>3, <1>5
<1> QED BY <1>1, <1>5, <1>6, IdentityHeld, ReadsUint7, ReadsUint28

-----------------------------------------------------------------------------
(* Discovery. *)

LEMMA HeaderParts ==
  \A t, e \in Byte : \A s, d \in 0..Broadcast :
    /\ Header(t, s, d, e).subtype = t /\ Header(t, s, d, e).version = 2
    /\ OfVersion1(Header(t, s, d, e)).subtype = t /\ OfVersion1(Header(t, s, d, e)).version = 1
    /\ Header(t, s, d, e) \in Headers /\ OfVersion1(Header(t, s, d, e)) \in Headers
<1> TAKE t, e \in Byte
<1> TAKE s, d \in 0..Broadcast
<1> DEFINE h == Header(t, s, d, e)
<1>1. h \in Headers /\ OfVersion1(h) \in Headers
  BY HeaderIsOne
<1>2. h.subtype = t /\ h.version = 2
  BY DEF Header, Version2
<1>3. OfVersion1(h) = [device |-> h.device, subtype |-> h.subtype,
       version |-> Version1, source |-> h.source, destination |-> h.destination]
  BY <1>1, HeaderIsOne
<1> HIDE DEF h
<1>4. OfVersion1(h).subtype = t /\ OfVersion1(h).version = 1
  BY <1>2, <1>3 DEF Version1
<1> QED BY <1>1, <1>2, <1>4 DEF h

LEMMA DiscoveryReads ==
  ASSUME FieldsFit, NEW s \in Muids, NEW d \in Muids, NEW i \in Identities, NEW n \in Muids,
         NEW p \in Numbers, NEW b \in Numbers
  PROVE  /\ Reads(Discovery(Management.discovery_inquiry, s, Broadcast, i, p, n, p),
                  Header(Management.discovery_inquiry, s, Broadcast, AllDevices),
                  Only("discovery_inquiry",
                       [identity |-> i, categories |-> p, maximum_message_size |-> n,
                        output_path_id |-> p]))
         /\ Reads(DiscoveryReply(s, d, i, p, n, p, b),
                  Header(Management.discovery_reply, s, d, AllDevices),
                  Only("discovery_reply",
                       [discovery |-> [identity |-> i, categories |-> p,
                                       maximum_message_size |-> n, output_path_id |-> p],
                        function_block |-> b]))
<1> DEFINE X == DeviceIdentity(i) \o Uint7(p) \o Uint28(n)
           f == [identity |-> i, categories |-> p, maximum_message_size |-> n,
                 output_path_id |-> p]
<1>1. /\ p \in 0..Radix - 1 /\ p \in Nat /\ b \in 0..Radix - 1 /\ b \in Nat
      /\ n \in Nat /\ AllDevices \in Byte
      /\ s \in 0..Broadcast /\ d \in 0..Broadcast /\ Broadcast \in 0..Broadcast
  BY Fits
<1>2. /\ Uint7(p) \in Bytes /\ Len(Uint7(p)) = 1 /\ Uint7(b) \in Bytes /\ Len(Uint7(b)) = 1
      /\ Uint28(n) \in Bytes /\ Len(Uint28(n)) = 4 /\ DeviceIdentity(i) \in Bytes
  BY <1>1, Numbers14, IdentityBytes
<1>3. X \in Bytes /\ Len(X) = 16
  BY <1>1, DiscoveryLength
<1>4. \A t \in Byte : \A e \in 0..Broadcast :
        Composed(Discovery(t, s, e, i, p, n, p), Header(t, s, e, AllDevices), X \o Uint7(p))
  BY <1>1, <1>2, <1>3, Joined, FactoryComposed DEF Discovery
<1>5. Management.discovery_inquiry = 112 /\ Management.discovery_reply = 113
      /\ 112 \in Byte /\ 113 \in Byte
  BY DEF Management, Byte
<1>6. ASSUME NEW m, NEW h, NEW bytes \in Bytes, Composed(m, h, X \o Uint7(p) \o bytes),
             h.version = 2
      PROVE  /\ DiscoveryFields(m) = f /\ Holds(m, 29, bytes)
             /\ Size(m) = 29 + Len(bytes) /\ At(m, 3) = 2
  <2>1. /\ m \in Packed /\ Size(m) \in Nat /\ At(m, 3) = 2
        /\ Size(m) = 12 + Len(X \o Uint7(p) \o bytes) /\ Holds(m, 12, X \o Uint7(p) \o bytes)
    BY <1>6, ComposedOf
  <2> HIDE DEF X
  <2>2. /\ Holds(m, 12, X) /\ Holds(m, 12 + Len(X), Uint7(p))
        /\ Holds(m, 12 + Len(X) + Len(Uint7(p)), bytes)
        /\ Len(X \o Uint7(p) \o bytes) = Len(X) + Len(Uint7(p)) + Len(bytes)
    <3>1. X \in Bytes /\ Uint7(p) \in Bytes /\ 12 \in Nat
      BY <1>2, <1>3
    <3> QED BY <2>1, <3>1, HoldsThree
  <2>3. Len(bytes) \in Nat
    BY Joined
  <2>4. Holds(m, 28, Uint7(p)) /\ Holds(m, 29, bytes) /\ Size(m) = 29 + Len(bytes)
    BY <1>2, <1>3, <2>1, <2>2, <2>3
  <2>5. MakeDeviceIdentity(m, 12) = i /\ At(m, 23) = p /\ MakeUint28(m, 24) = n
    BY <2>1, <2>2, DiscoveryHeld DEF X
  <2>6. At(m, 28) = p
    BY <1>1, <2>4, ReadsUint7
  <2>7. DiscoveryFields(m) = f
    BY <2>1, <2>5, <2>6 DEF DiscoveryFields, Payload, Version2
  <2> QED BY <2>1, <2>4, <2>7
<1>61. \A m, h : \A bytes \in Bytes :
         Composed(m, h, X \o Uint7(p) \o bytes) /\ h.version = 2 =>
           /\ DiscoveryFields(m) = f /\ Holds(m, 29, bytes)
           /\ Size(m) = 29 + Len(bytes) /\ At(m, 3) = 2
  BY <1>6
<1> HIDE DEF X, f
<1>7. Reads(Discovery(112, s, Broadcast, i, p, n, p), Header(112, s, Broadcast, AllDevices),
            Only("discovery_inquiry", f))
  <2> DEFINE m == Discovery(112, s, Broadcast, i, p, n, p)
             h == Header(112, s, Broadcast, AllDevices)
  <2>1. Composed(m, h, X \o Uint7(p))
    BY <1>1, <1>4, <1>5
  <2>2. h \in Headers /\ h.subtype = 112 /\ h.version = 2
    BY <1>1, <1>5, HeaderParts
  <2> HIDE DEF m, h
  <2>3. <<>> \in Bytes /\ Len(<<>>) = 0 /\ X \o Uint7(p) \in Bytes
    BY <1>2, <1>3, Joined DEF Bytes
  <2>4. X \o Uint7(p) \o <<>> = X \o Uint7(p)
    BY <2>3 DEF Bytes
  <2>5. /\ DiscoveryFields(m) = f /\ Size(m) = 29 /\ At(m, 3) = 2
    <3>1. Composed(m, h, X \o Uint7(p) \o <<>>)
      BY <2>1, <2>4
    <3>2. DiscoveryFields(m) = f /\ Size(m) = 29 + Len(<<>>) /\ At(m, 3) = 2
      BY <1>61, <2>2, <2>3, <3>1, Zenon
    <3> QED BY <2>3, <3>2
  <2>6. m.manufacturer = NonRealtime /\ At(m, 1) = 13 /\ At(m, 2) = 112
    BY <2>1, <2>2, ComposedOf
  <2>7. DiscoveryInquiryValid(m) /\ DiscoveryInquiryEnd(m) = 29
    BY <1>5, <2>5, <2>6, DiscoveryValid DEF DiscoveryInquiryEnd, Is, Payload, Version2
  <2>8. ViewsOf(h.subtype) = {"discovery_inquiry"} /\ "discovery_inquiry" \in Views
    BY <2>2, ViewsOfEach DEF Views
  <2>9. Accepts("discovery_inquiry", m) /\ Fields("discovery_inquiry", m) = f
        /\ End("discovery_inquiry", m) = Size(m)
    BY <2>5, <2>7, AcceptsIs, FieldsAre, ReadUpTo
  <2>10. Reads(m, h, Only("discovery_inquiry", f))
    BY <2>1, <2>2, <2>8, <2>9, ReadsOne
  <2> QED BY <2>10 DEF m, h
<1>8. Reads(DiscoveryReply(s, d, i, p, n, p, b), Header(113, s, d, AllDevices),
            Only("discovery_reply", [discovery |-> f, function_block |-> b]))
  <2> DEFINE m == DiscoveryReply(s, d, i, p, n, p, b)
             h == Header(113, s, d, AllDevices)
  <2>1. Composed(m, h, X \o Uint7(p) \o Uint7(b))
    <3>1. X \o Uint7(p) \in Bytes
      BY <1>2, <1>3, Joined
    <3> QED BY <1>1, <1>2, <1>4, <1>5, <3>1, AddedComposed DEF DiscoveryReply
  <2>2. h \in Headers /\ h.subtype = 113 /\ h.version = 2
    BY <1>1, <1>5, HeaderParts
  <2> HIDE DEF m, h
  <2>3. /\ DiscoveryFields(m) = f /\ Size(m) = 30 /\ At(m, 3) = 2 /\ Holds(m, 29, Uint7(b))
    <3> DEFINE u == Uint7(b)
    <3>1. u \in Bytes /\ Composed(m, h, X \o Uint7(p) \o u)
      BY <1>2, <2>1
    <3> HIDE DEF u
    <3>2. /\ DiscoveryFields(m) = f /\ Size(m) = 29 + Len(u) /\ At(m, 3) = 2
          /\ Holds(m, 29, u)
      BY <1>61, <2>2, <3>1, ZenonT(40)
    <3> QED BY <1>2, <3>2 DEF u
  <2>4. At(m, 29) = b
    BY <1>1, <2>3, ReadsUint7
  <2>6. m.manufacturer = NonRealtime /\ At(m, 1) = 13 /\ At(m, 2) = 113
    BY <2>1, <2>2, ComposedOf
  <2>7. DiscoveryReplyValid(m) /\ DiscoveryReplyEnd(m) = 30 /\ FunctionBlock(m) = b
    BY <1>5, <2>3, <2>4, <2>6, DiscoveryValid
       DEF DiscoveryReplyEnd, FunctionBlock, Is, Payload, Version2
  <2>8. ViewsOf(h.subtype) = {"discovery_reply"} /\ "discovery_reply" \in Views
    BY <2>2, ViewsOfEach DEF Views
  <2>9. /\ Accepts("discovery_reply", m)
        /\ Fields("discovery_reply", m) = [discovery |-> f, function_block |-> b]
        /\ End("discovery_reply", m) = Size(m)
    BY <2>3, <2>7, AcceptsIs, FieldsAre, ReadUpTo
  <2>10. Reads(m, h, Only("discovery_reply", [discovery |-> f, function_block |-> b]))
    BY <2>1, <2>2, <2>8, <2>9, ReadsOne
  <2> QED BY <2>10 DEF m, h
<1> QED BY <1>5, <1>7, <1>8 DEF f

LEMMA DiscoveryV1Reads ==
  ASSUME FieldsFit, NEW s \in Muids, NEW d \in Muids \union {Broadcast}, NEW i \in Identities,
         NEW n \in Muids, NEW p \in Numbers
  PROVE  LET f == [identity |-> i, categories |-> p, maximum_message_size |-> n,
                   output_path_id |-> 0]
         IN  /\ Reads(DiscoveryV1(Management.discovery_inquiry, s, d, i, p, n),
                      OfVersion1(Header(Management.discovery_inquiry, s, d, AllDevices)),
                      Only("discovery_inquiry", f))
             /\ Reads(DiscoveryV1(Management.discovery_reply, s, d, i, p, n),
                      OfVersion1(Header(Management.discovery_reply, s, d, AllDevices)),
                      Only("discovery_reply", [discovery |-> f, function_block |-> AllDevices]))
<1> DEFINE X == DeviceIdentity(i) \o Uint7(p) \o Uint28(n)
           f == [identity |-> i, categories |-> p, maximum_message_size |-> n,
                 output_path_id |-> 0]
<1>1. /\ p \in 0..Radix - 1 /\ p \in Nat /\ n \in Nat /\ AllDevices \in Byte
      /\ s \in 0..Broadcast /\ d \in 0..Broadcast
  BY Fits
<1>2. X \in Bytes /\ Len(X) = 16
  <2>1. /\ Uint7(p) \in Bytes /\ Len(Uint7(p)) = 1
        /\ Uint28(n) \in Bytes /\ Len(Uint28(n)) = 4 /\ DeviceIdentity(i) \in Bytes
    BY <1>1, Numbers14, IdentityBytes
  <2> QED BY <1>1, DiscoveryLength
<1>3. Management.discovery_inquiry = 112 /\ Management.discovery_reply = 113
      /\ 112 \in Byte /\ 113 \in Byte
  BY DEF Management, Byte
<1>4. ASSUME NEW t \in {112, 113}
      PROVE  LET m == DiscoveryV1(t, s, d, i, p, n)
                 h == OfVersion1(Header(t, s, d, AllDevices))
             IN  /\ Composed(m, h, X) /\ h \in Headers /\ h.subtype = t
                 /\ DiscoveryFields(m) = f /\ Size(m) = 28 /\ At(m, 3) = 1
                 /\ m.manufacturer = NonRealtime /\ At(m, 1) = 13 /\ At(m, 2) = t
  <2> DEFINE m == DiscoveryV1(t, s, d, i, p, n)
             h == OfVersion1(Header(t, s, d, AllDevices))
  <2>1. t \in Byte
    BY <1>3
  <2>2. h \in Headers /\ h.subtype = t /\ h.version = 1 /\ Header(t, s, d, AllDevices) \in Headers
    BY <1>1, <2>1, HeaderParts
  <2> HIDE DEF X
  <2>3. Composed(Added(Message(t, s, d, AllDevices), X), Header(t, s, d, AllDevices), X)
    BY <1>1, <1>2, <2>1, FactoryComposed
  <2>4. Composed(m, h, X)
    BY <1>2, <2>2, <2>3, Version1Composed DEF DiscoveryV1, X
  <2> HIDE DEF m, h
  <2>5. /\ m \in Packed /\ Size(m) \in Nat /\ At(m, 3) = 1 /\ Holds(m, 12, X)
        /\ Size(m) = 12 + Len(X)
        /\ m.manufacturer = NonRealtime /\ At(m, 1) = 13 /\ At(m, 2) = t
    BY <2>2, <2>4, ComposedOf
  <2>6. MakeDeviceIdentity(m, 12) = i /\ At(m, 23) = p /\ MakeUint28(m, 24) = n
    BY <2>5, DiscoveryHeld DEF X
  <2>7. DiscoveryFields(m) = f
    BY <2>5, <2>6 DEF DiscoveryFields, Payload, Version2
  <2> QED BY <1>2, <2>2, <2>4, <2>5, <2>7 DEF m, h
<1> HIDE DEF f, X
<1>5. Reads(DiscoveryV1(112, s, d, i, p, n), OfVersion1(Header(112, s, d, AllDevices)),
            Only("discovery_inquiry", f))
  <2> DEFINE m == DiscoveryV1(112, s, d, i, p, n)
             h == OfVersion1(Header(112, s, d, AllDevices))
  <2>1. /\ Composed(m, h, X) /\ h \in Headers /\ h.subtype = 112
        /\ DiscoveryFields(m) = f /\ Size(m) = 28 /\ At(m, 3) = 1
        /\ m.manufacturer = NonRealtime /\ At(m, 1) = 13 /\ At(m, 2) = 112
    BY <1>4
  <2> HIDE DEF m, h
  <2>2. DiscoveryInquiryValid(m) /\ DiscoveryInquiryEnd(m) = 28
    BY <1>3, <2>1, DiscoveryValid DEF DiscoveryInquiryEnd, Is, Payload, Version2
  <2>3. ViewsOf(h.subtype) = {"discovery_inquiry"} /\ "discovery_inquiry" \in Views
    BY <2>1, ViewsOfEach DEF Views
  <2>4. /\ Accepts("discovery_inquiry", m) /\ Fields("discovery_inquiry", m) = f
        /\ End("discovery_inquiry", m) = Size(m)
    BY <2>1, <2>2, AcceptsIs, FieldsAre, ReadUpTo
  <2>5. Reads(m, h, Only("discovery_inquiry", f))
    BY <2>1, <2>3, <2>4, ReadsOne
  <2> QED BY <2>5 DEF m, h
<1>6. Reads(DiscoveryV1(113, s, d, i, p, n), OfVersion1(Header(113, s, d, AllDevices)),
            Only("discovery_reply", [discovery |-> f, function_block |-> AllDevices]))
  <2> DEFINE m == DiscoveryV1(113, s, d, i, p, n)
             h == OfVersion1(Header(113, s, d, AllDevices))
  <2>1. /\ Composed(m, h, X) /\ h \in Headers /\ h.subtype = 113
        /\ DiscoveryFields(m) = f /\ Size(m) = 28 /\ At(m, 3) = 1
        /\ m.manufacturer = NonRealtime /\ At(m, 1) = 13 /\ At(m, 2) = 113
    BY <1>4
  <2> HIDE DEF m, h
  <2>2. DiscoveryReplyValid(m) /\ DiscoveryReplyEnd(m) = 28 /\ FunctionBlock(m) = AllDevices
    BY <1>3, <2>1, DiscoveryValid
       DEF DiscoveryReplyEnd, FunctionBlock, Is, Payload, Version2
  <2>3. ViewsOf(h.subtype) = {"discovery_reply"} /\ "discovery_reply" \in Views
    BY <2>1, ViewsOfEach DEF Views
  <2>4. /\ Accepts("discovery_reply", m)
        /\ Fields("discovery_reply", m) = [discovery |-> f, function_block |-> AllDevices]
        /\ End("discovery_reply", m) = Size(m)
    BY <2>1, <2>2, AcceptsIs, FieldsAre, ReadUpTo
  <2>5. Reads(m, h, Only("discovery_reply", [discovery |-> f, function_block |-> AllDevices]))
    BY <2>1, <2>3, <2>4, ReadsOne
  <2> QED BY <2>5 DEF m, h
<1> QED BY <1>3, <1>5, <1>6 DEF f

\* A message of version 2 as a factory makes it, of one kind and with bytes behind
\* the header
Sent(m, h, t, bytes) ==
  h \in Headers /\ h.subtype = t /\ h.version = 2 /\ Composed(m, h, bytes)

LEMMA FactorySent ==
  \A t, e \in Byte : \A s, d \in 0..Broadcast : \A bytes \in Bytes :
    Sent(Added(Message(t, s, d, e), bytes), Header(t, s, d, e), t, bytes)
BY FactoryComposed, HeaderParts DEF Sent

LEMMA MessageSent ==
  \A t, e \in Byte : \A s, d \in 0..Broadcast :
    Sent(Message(t, s, d, e), Header(t, s, d, e), t, <<>>)
BY MessageComposed, HeaderParts DEF Sent

LEMMA SentFacts ==
  \A m, h, t, bytes : Sent(m, h, t, bytes) =>
    /\ m \in Packed /\ m.manufacturer = NonRealtime /\ Size(m) \in Nat
    /\ At(m, 0) = h.device /\ At(m, 1) = 13 /\ At(m, 2) = t /\ At(m, 3) = 2
    /\ SubtypeOf(m) = t /\ TypeOf(m) = CapabilityInquiryType
    /\ Size(m) = 12 + Len(bytes) /\ Holds(m, 12, bytes)
    /\ HeaderOf(m) = h
<1> TAKE m, h, t, bytes
<1> HAVE Sent(m, h, t, bytes)
<1>1. h.subtype = t /\ h.version = 2 /\ Composed(m, h, bytes)
  BY DEF Sent
<1>2. HeaderOf(m) = h
  BY <1>1 DEF Composed
<1> QED BY <1>1, <1>2, ComposedOf

\* What a view reads of a message that only it takes is what the factory was given.
LEMMA SentReads ==
  ASSUME NEW m, NEW h, NEW t, NEW bytes, Sent(m, h, t, bytes),
         NEW v \in Views, v # "inquiry", ViewsOf(t) = {v},
         Accepts(v, m), NEW f, Fields(v, m) = f, End(v, m) = Size(m)
  PROVE  Reads(m, h, Only(v, f))
BY ReadsOne DEF Sent

-----------------------------------------------------------------------------
(* Messages without data, and with data of fixed size. *)

LEMMA PlainReads ==
  ASSUME NEW m, NEW h
  PROVE  /\ Sent(m, h, 32, <<>>) => Reads(m, h, Only("profile_inquiry", h))
         /\ \A t \in {64, 68} : Sent(m, h, t, <<>>) => Reads(m, h, <<>>)
<1>1. ASSUME Sent(m, h, 32, <<>>) PROVE Reads(m, h, Only("profile_inquiry", h))
  <2>1. /\ m.manufacturer = NonRealtime /\ SubtypeOf(m) = 32 /\ TypeOf(m) = CapabilityInquiryType
        /\ Size(m) = 12 + Len(<<>>) /\ HeaderOf(m) = h
    BY ONLY <1>1, SentFacts, ZenonT(40)
  <2>2. Size(m) = 12
    BY <2>1
  <2>3. ProfileInquiryValid(m)
    BY <2>1, <2>2 DEF ProfileInquiryValid, Payload, ProfileConfiguration
  <2>4. /\ Accepts("profile_inquiry", m) /\ Fields("profile_inquiry", m) = h
        /\ End("profile_inquiry", m) = Size(m)
    BY <2>1, <2>2, <2>3, AcceptsIs, FieldsAre, ReadUpTo DEF Payload
  <2>5. "profile_inquiry" \in Views /\ "profile_inquiry" # "inquiry"
    BY DEF Views
  <2>6. ViewsOf(32) = {"profile_inquiry"}
    BY ViewsOfEach
  <2> QED BY <1>1, <2>4, <2>5, <2>6, SentReads
<1>2. ASSUME NEW t \in {64, 68}, Sent(m, h, t, <<>>) PROVE Reads(m, h, <<>>)
  <2>1. h \in Headers /\ Composed(m, h, <<>>) /\ h.subtype = t
    BY <1>2 DEF Sent
  <2>2. ViewsOf(t) = {}
    BY ViewsOfEach
  <2> QED BY <2>1, <2>2, ReadsNone
<1> QED BY <1>1, <1>2

\* Bytes at the start of what follows the header
LEMMA FirstBytes ==
  ASSUME NEW m
  PROVE  /\ \A a : Holds(m, 12, <<a>>) => At(m, 12) = a
         /\ \A a, b, c : Holds(m, 12, <<a, b, c>>) =>
              At(m, 12) = a /\ At(m, 13) = b /\ At(m, 14) = c
         /\ \A a, b, c, d : Holds(m, 12, <<a, b, c, d>>) =>
              At(m, 12) = a /\ At(m, 13) = b /\ At(m, 14) = c /\ At(m, 15) = d
         /\ \A a, b, c, d, e : Holds(m, 12, <<a, b, c, d, e>>) =>
              At(m, 12) = a /\ At(m, 13) = b /\ At(m, 14) = c /\ At(m, 15) = d /\ At(m, 16) = e
<1>1. ASSUME NEW a, Holds(m, 12, <<a>>) PROVE At(m, 12) = a
  BY <1>1, ReadsBytes
<1>2. ASSUME NEW a, NEW b, NEW c, Holds(m, 12, <<a, b, c>>)
      PROVE  At(m, 12) = a /\ At(m, 13) = b /\ At(m, 14) = c
  <2>1. \A i \in 1..3 : m.data[12 + i] = <<a, b, c>>[i]
    BY <1>2 DEF Holds
  <2> QED BY <2>1 DEF At
<1>3. ASSUME NEW a, NEW b, NEW c, NEW d, Holds(m, 12, <<a, b, c, d>>)
      PROVE  At(m, 12) = a /\ At(m, 13) = b /\ At(m, 14) = c /\ At(m, 15) = d
  <2>1. \A i \in 1..4 : m.data[12 + i] = <<a, b, c, d>>[i]
    BY <1>3 DEF Holds
  <2> QED BY <2>1 DEF At
<1>4. ASSUME NEW a, NEW b, NEW c, NEW d, NEW e, Holds(m, 12, <<a, b, c, d, e>>)
      PROVE  At(m, 12) = a /\ At(m, 13) = b /\ At(m, 14) = c /\ At(m, 15) = d /\ At(m, 16) = e
  <2>1. \A i \in 1..5 : m.data[12 + i] = <<a, b, c, d, e>>[i]
    BY <1>4 DEF Holds
  <2> QED BY <2>1 DEF At
<1> QED BY <1>1, <1>2, <1>3, <1>4

LEMMA FixedReads ==
  ASSUME NEW m, NEW h, NEW a, NEW b, NEW c, NEW d
  PROVE  /\ \A t \in 48..49 : Sent(m, h, t, <<a, 0, 0>>) =>
              Reads(m, h, Only("capabilities",
                [maximum_number_of_requests |-> a, pe_version_major |-> 0,
                 pe_version_minor |-> 0]))
         /\ Sent(m, h, 65, <<a>>) =>
              Reads(m, h, Only("process_reply", [supported_features |-> a]))
         /\ Sent(m, h, 66, <<a, b, 0, c, d>>) =>
              Reads(m, h, Only("report_inquiry",
                [control |-> a, system |-> b, controllers |-> c, notes |-> d]))
         /\ Sent(m, h, 67, <<a, 0, b, c>>) =>
              Reads(m, h, Only("report_reply", [system |-> a, controllers |-> b, notes |-> c]))
<1> DEFINE v1 == "capabilities"
           f1 == [maximum_number_of_requests |-> a, pe_version_major |-> 0, pe_version_minor |-> 0]
           v2 == "process_reply"
           f2 == [supported_features |-> a]
           v3 == "report_inquiry"
           f3 == [control |-> a, system |-> b, controllers |-> c, notes |-> d]
           v4 == "report_reply"
           f4 == [system |-> a, controllers |-> b, notes |-> c]
<1>0. {v1, v2, v3, v4} \subseteq Views /\ "inquiry" \notin {v1, v2, v3, v4}
  BY DEF Views
<1>1. ASSUME NEW t \in 48..49, Sent(m, h, t, <<a, 0, 0>>) PROVE Reads(m, h, Only(v1, f1))
  <2>1. /\ m.manufacturer = NonRealtime /\ At(m, 1) = 13 /\ At(m, 2) = t /\ At(m, 3) = 2
        /\ Size(m) = 12 + Len(<<a, 0, 0>>) /\ Holds(m, 12, <<a, 0, 0>>)
    BY ONLY <1>1, SentFacts, ZenonT(40)
  <2>2. Size(m) = 15
    BY <2>1
  <2>3. At(m, 12) = a /\ At(m, 13) = 0 /\ At(m, 14) = 0
    BY <2>1, FirstBytes
  <2>4. CapabilitiesValid(m) /\ CapabilitiesFields(m) = f1 /\ CapabilitiesEnd(m) = 15
    BY <2>1, <2>2, <2>3
       DEF CapabilitiesValid, CapabilitiesFields, CapabilitiesEnd, Is, Payload, Version2
  <2>5. Accepts(v1, m) /\ Fields(v1, m) = f1 /\ End(v1, m) = Size(m)
    BY <2>2, <2>4, AcceptsIs, FieldsAre, ReadUpTo
  <2>6. ViewsOf(t) = {v1}
    BY ViewsOfEach
  <2> HIDE DEF v1, f1
  <2> QED BY <1>0, <1>1, <2>5, <2>6, SentReads
<1>2. ASSUME Sent(m, h, 65, <<a>>) PROVE Reads(m, h, Only(v2, f2))
  <2>1. /\ m.manufacturer = NonRealtime /\ At(m, 1) = 13 /\ At(m, 2) = 65 /\ At(m, 3) = 2
        /\ Size(m) = 12 + Len(<<a>>) /\ Holds(m, 12, <<a>>)
    BY ONLY <1>2, SentFacts, ZenonT(40)
  <2>2. Size(m) = 13
    BY <2>1
  <2>3. At(m, 12) = a
    BY <2>1, FirstBytes
  <2>4. ProcessReplyValid(m)
    BY <2>1, <2>2 DEF ProcessReplyValid, Is, Payload, ProcessInquiry
  <2>5. Accepts(v2, m) /\ Fields(v2, m) = f2 /\ End(v2, m) = Size(m)
    BY <2>2, <2>3, <2>4, AcceptsIs, FieldsAre, ReadUpTo DEF Payload
  <2>6. ViewsOf(65) = {v2}
    BY ViewsOfEach
  <2> HIDE DEF v2, f2
  <2> QED BY <1>0, <1>2, <2>5, <2>6, SentReads
<1>3. ASSUME Sent(m, h, 66, <<a, b, 0, c, d>>) PROVE Reads(m, h, Only(v3, f3))
  <2>1. /\ m.manufacturer = NonRealtime /\ At(m, 1) = 13 /\ At(m, 2) = 66 /\ At(m, 3) = 2
        /\ Size(m) = 12 + Len(<<a, b, 0, c, d>>) /\ Holds(m, 12, <<a, b, 0, c, d>>)
    BY ONLY <1>3, SentFacts, ZenonT(40)
  <2>2. Size(m) = 17
    BY <2>1
  <2>3. At(m, 12) = a /\ At(m, 13) = b /\ At(m, 14) = 0 /\ At(m, 15) = c /\ At(m, 16) = d
    BY <2>1, FirstBytes
  <2>4. ReportInquiryValid(m) /\ ReportInquiryFields(m) = f3
    BY <2>1, <2>2, <2>3 DEF ReportInquiryValid, ReportInquiryFields, Is, Payload, ProcessInquiry
  <2>5. Accepts(v3, m) /\ Fields(v3, m) = f3 /\ End(v3, m) = Size(m)
    BY <2>2, <2>4, AcceptsIs, FieldsAre, ReadUpTo DEF Payload
  <2>6. ViewsOf(66) = {v3}
    BY ViewsOfEach
  <2> HIDE DEF v3, f3
  <2> QED BY <1>0, <1>3, <2>5, <2>6, SentReads
<1>4. ASSUME Sent(m, h, 67, <<a, 0, b, c>>) PROVE Reads(m, h, Only(v4, f4))
  <2>1. /\ m.manufacturer = NonRealtime /\ At(m, 1) = 13 /\ At(m, 2) = 67 /\ At(m, 3) = 2
        /\ Size(m) = 12 + Len(<<a, 0, b, c>>) /\ Holds(m, 12, <<a, 0, b, c>>)
    BY ONLY <1>4, SentFacts, ZenonT(40)
  <2>2. Size(m) = 16
    BY <2>1
  <2>3. At(m, 12) = a /\ At(m, 13) = 0 /\ At(m, 14) = b /\ At(m, 15) = c
    BY <2>1, FirstBytes
  <2>4. ReportReplyValid(m) /\ ReportReplyFields(m) = f4
    BY <2>1, <2>2, <2>3 DEF ReportReplyValid, ReportReplyFields, Is, Payload, ProcessInquiry
  <2>5. Accepts(v4, m) /\ Fields(v4, m) = f4 /\ End(v4, m) = Size(m)
    BY <2>2, <2>4, AcceptsIs, FieldsAre, ReadUpTo DEF Payload
  <2>6. ViewsOf(67) = {v4}
    BY ViewsOfEach
  <2> HIDE DEF v4, f4
  <2> QED BY <1>0, <1>4, <2>5, <2>6, SentReads
<1> QED BY <1>1, <1>2, <1>3, <1>4

-----------------------------------------------------------------------------
(* Messages with numbers, profile IDs and data. *)

LEMMA NumberReads ==
  ASSUME NEW m, NEW h
  PROVE  /\ \A p \in 0..Radix - 1 : Sent(m, h, 114, Uint7(p)) =>
              Reads(m, h, Only("endpoint_inquiry", [status |-> p]))
         /\ \A n \in 0..Broadcast : Sent(m, h, 126, Uint28(n)) =>
              Reads(m, h, Only("invalidate_muid", [target_muid |-> n]))
<1> DEFINE v1 == "endpoint_inquiry"
           v2 == "invalidate_muid"
<1>0. {v1, v2} \subseteq Views /\ "inquiry" \notin {v1, v2}
  BY DEF Views
<1>1. ASSUME NEW p \in 0..Radix - 1, Sent(m, h, 114, Uint7(p))
      PROVE  Reads(m, h, Only(v1, [status |-> p]))
  <2> DEFINE u == Uint7(p)
  <2>1. Len(u) = 1 /\ Sent(m, h, 114, u)
    BY <1>1, Numbers14, Powers
  <2> HIDE DEF u
  <2>12. Sent(m, h, 114, u)
    BY ONLY <2>1
  <2>2. /\ m.manufacturer = NonRealtime /\ At(m, 1) = 13 /\ At(m, 2) = 114
        /\ Size(m) = 12 + Len(u) /\ Holds(m, 12, u)
    <3>1. \A t : Sent(m, h, t, u) =>
            /\ m.manufacturer = NonRealtime /\ At(m, 1) = 13 /\ At(m, 2) = t
            /\ Size(m) = 12 + Len(u) /\ Holds(m, 12, u)
      BY ONLY SentFacts, Zenon
    <3> QED BY ONLY <2>12, <3>1
  <2>3. Size(m) = 13
    BY <2>1, <2>2
  <2>4. At(m, 12) = p
    BY <2>2, ReadsUint7 DEF u
  <2>5. EndpointInquiryValid(m)
    BY <2>2, <2>3 DEF EndpointInquiryValid, Is, Payload, Management
  <2>6. Accepts(v1, m) /\ Fields(v1, m) = [status |-> p] /\ End(v1, m) = Size(m)
    BY <2>3, <2>4, <2>5, AcceptsIs, FieldsAre, ReadUpTo DEF Payload
  <2>7. ViewsOf(114) = {v1}
    BY ViewsOfEach
  <2> HIDE DEF v1
  <2> QED BY <1>0, <2>1, <2>6, <2>7, SentReads
<1>2. ASSUME NEW n \in 0..Broadcast, Sent(m, h, 126, Uint28(n))
      PROVE  Reads(m, h, Only(v2, [target_muid |-> n]))
  <2> DEFINE u == Uint28(n)
             t == 126
  <2>1. Len(u) = 4 /\ Sent(m, h, t, u)
    BY <1>2, Numbers14, Powers
  <2> HIDE DEF u, t
  <2>2. /\ SubtypeOf(m) = t /\ TypeOf(m) = CapabilityInquiryType
        /\ Size(m) = 12 + Len(u) /\ Holds(m, 12, u) /\ Size(m) \in Nat
    BY ONLY <2>1, SentFacts, ZenonT(40)
  <2>3. Size(m) = 16
    BY <2>1, <2>2
  <2>4. MakeUint28(m, 12) = n
    BY <2>2, ReadsUint28 DEF u
  <2>5. InvalidateMuidValid(m)
    BY <2>2, <2>3 DEF InvalidateMuidValid, Payload, Management, t
  <2>6. Accepts(v2, m) /\ Fields(v2, m) = [target_muid |-> n] /\ End(v2, m) = Size(m)
    BY <2>3, <2>4, <2>5, AcceptsIs, FieldsAre, ReadUpTo DEF Payload
  <2>7. ViewsOf(t) = {v2}
    BY ViewsOfEach DEF t
  <2> HIDE DEF v2
  <2> QED BY <1>0, <2>1, <2>6, <2>7, SentReads
<1> QED BY <1>1, <1>2

\* The size of data in a message
LEMMA Counted ==
  ASSUME NEW b \in Bytes, Len(b) < Radix * Radix
  PROVE  /\ Len(b) \in Nat /\ Uint14(Len(b)) \in Bytes /\ Len(Uint14(Len(b))) = 2
         /\ \A m : \A k \in Nat : Holds(m, k, Uint14(Len(b))) => MakeUint14(m, k) = Len(b)
<1>1. Len(b) \in Nat
  BY Joined
<1> QED BY <1>1, Numbers14, ReadsUint14

LEMMA EndpointReplyReads ==
  ASSUME NEW m, NEW h, NEW p \in 0..Radix - 1, NEW b \in Bytes, Len(b) < Radix * Radix,
         Sent(m, h, 115, Uint7(p) \o Uint14(Len(b)) \o b)
  PROVE  Reads(m, h, Only("endpoint_reply", [status |-> p, information_data |-> b]))
<1> DEFINE u == Uint7(p)
           w == Uint14(Len(b))
           t == 115
           v == "endpoint_reply"
           f == [status |-> p, information_data |-> b]
<1>1. u \in Bytes /\ w \in Bytes /\ Len(b) \in Nat
  BY Numbers14, Counted, Powers
<1>2. Len(u) = 1 /\ Len(w) = 2
  BY Numbers14, Counted, Powers
<1>3. Sent(m, h, t, u \o w \o b)
  OBVIOUS
<1> HIDE DEF u, w, t
<1>4. /\ m \in Packed /\ m.manufacturer = NonRealtime /\ At(m, 1) = 13 /\ At(m, 2) = t
      /\ Size(m) = 12 + Len(u \o w \o b) /\ Holds(m, 12, u \o w \o b) /\ Size(m) \in Nat
  BY ONLY <1>3, SentFacts, ZenonT(40)
<1>5. /\ Holds(m, 12, u) /\ Holds(m, 12 + Len(u), w) /\ Holds(m, 12 + Len(u) + Len(w), b)
      /\ Len(u \o w \o b) = Len(u) + Len(w) + Len(b)
  BY <1>1, <1>4, HoldsThree
<1>6. Holds(m, 13, w) /\ Holds(m, 15, b) /\ Size(m) = 15 + Len(b)
  BY <1>1, <1>2, <1>4, <1>5
<1>7. At(m, 12) = p /\ MakeUint14(m, 13) = Len(b) /\ Span(m, 15, Len(b)) = b
  BY <1>4, <1>5, <1>6, ReadsUint7, Counted, ReadsSpan DEF u, w
<1>8. EndpointReplyValid(m) /\ EndpointReplyFields(m) = f /\ EndpointReplyEnd(m) = Size(m)
  BY <1>1, <1>4, <1>6, <1>7
     DEF EndpointReplyValid, EndpointReplyFields, EndpointReplyEnd, Is, Payload, Management, t
<1>9. Accepts(v, m) /\ Fields(v, m) = f /\ End(v, m) = Size(m)
  BY <1>8, AcceptsIs, FieldsAre, ReadUpTo
<1>10. v \in Views /\ v # "inquiry" /\ ViewsOf(t) = {v}
  BY ViewsOfEach DEF Views, t
<1> HIDE DEF v, f
<1>11. Reads(m, h, Only(v, f))
  BY <1>3, <1>9, <1>10, SentReads
<1> QED BY <1>11 DEF v, f

LEMMA AcknowledgementReads ==
  ASSUME NEW m, NEW h, NEW r \in Byte, NEW c \in Byte, NEW x \in Bytes, Len(x) = 5,
         NEW b \in Bytes, Len(b) < Radix * Radix, NEW v \in {"ack", "nak"},
         Sent(m, h, Management[v], <<r, c, c>> \o x \o Uint14(Len(b)) \o b)
  PROVE  Reads(m, h, Only(v, [transaction |-> r, status_code |-> c, status_data |-> c,
                              details |-> x, message |-> b]))
<1> DEFINE u == <<r, c, c>>
           w == Uint14(Len(b))
           t == Management[v]
           f == [transaction |-> r, status_code |-> c, status_data |-> c, details |-> x,
                 message |-> b]
<1>1. u \in Bytes /\ w \in Bytes /\ x \in Bytes /\ b \in Bytes /\ Len(b) \in Nat
  BY Counted DEF Bytes
<1>2. Len(u) = 3 /\ Len(w) = 2 /\ Len(x) = 5
  BY Counted
<1>3. Sent(m, h, t, u \o x \o w \o b)
  OBVIOUS
<1>4. (v = "ack" /\ t = 125) \/ (v = "nak" /\ t = 127)
  BY DEF Management
<1> HIDE DEF u, w, t
<1>5. /\ m \in Packed /\ m.manufacturer = NonRealtime /\ At(m, 1) = 13 /\ At(m, 2) = t
      /\ At(m, 3) = 2
      /\ Size(m) = 12 + Len(u \o x \o w \o b) /\ Holds(m, 12, u \o x \o w \o b)
      /\ Size(m) \in Nat
  BY ONLY <1>3, SentFacts, ZenonT(40)
<1>55. 12 \in Nat /\ Size(m) \in Nat /\ Holds(m, 12, u \o x \o w \o b)
  BY <1>5
<1>6. /\ Holds(m, 12, u) /\ Holds(m, 12 + Len(u), x) /\ Holds(m, 12 + Len(u) + Len(x), w)
      /\ Holds(m, 12 + Len(u) + Len(x) + Len(w), b)
      /\ Len(u \o x \o w \o b) = Len(u) + Len(x) + Len(w) + Len(b)
  BY ONLY <1>1, <1>55, HoldsFour
<1>7. Holds(m, 15, x) /\ Holds(m, 20, w) /\ Holds(m, 22, b) /\ Size(m) = 22 + Len(b)
  BY <1>1, <1>2, <1>5, <1>6
<1>8. At(m, 12) = r /\ At(m, 13) = c /\ At(m, 14) = c
  BY <1>6, FirstBytes DEF u
<1>9. Span(m, 15, 5) = x
  <2>1. Span(m, 15, Len(x)) = x
    BY <1>5, <1>7, ReadsSpan
  <2> QED BY <2>1
<1>10. MakeUint14(m, 20) = Len(b) /\ Span(m, 22, Len(b)) = b
  BY <1>5, <1>7, Counted, ReadsSpan DEF w
<1>11. NackFields(m) = f /\ NackEnd(m) = Size(m)
  BY <1>1, <1>7, <1>8, <1>9, <1>10 DEF NackFields, NackEnd, Payload
<1>12. (v = "ack" => AckValid(m)) /\ (v = "nak" => NakValid(m))
  BY <1>1, <1>4, <1>5, <1>7, <1>11 DEF AckValid, NakValid, Is, Payload, Management, Version2
<1>13. Accepts(v, m) /\ Fields(v, m) = f /\ End(v, m) = Size(m)
  BY <1>11, <1>12, AcceptsIs, FieldsAre, ReadUpTo
<1>14. v \in Views /\ v # "inquiry" /\ ViewsOf(t) = {v}
  BY <1>4, ViewsOfEach DEF Views
<1> HIDE DEF f
<1>15. Reads(m, h, Only(v, f))
  BY <1>3, <1>13, <1>14, SentReads
<1> QED BY <1>15 DEF f

-----------------------------------------------------------------------------
LEMMA ProfileReads ==
  ASSUME NEW m, NEW h, NEW x \in Bytes, Len(x) = 5, NEW n \in 0..Radix - 1
  PROVE  /\ \A t \in 38..39 : Sent(m, h, t, x) => Reads(m, h, Only("profile_id", [profile |-> x]))
         /\ Sent(m, h, 40, x \o Uint7(n)) =>
              Reads(m, h, Only("profile_details_inquiry", [profile |-> x, target |-> n]))
<1> DEFINE v1 == "profile_id"
           f1 == [profile |-> x]
           v2 == "profile_details_inquiry"
           f2 == [profile |-> x, target |-> n]
<1>0. {v1, v2} \subseteq Views /\ "inquiry" \notin {v1, v2}
  BY DEF Views
<1>1. ASSUME NEW t \in 38..39, Sent(m, h, t, x) PROVE Reads(m, h, Only(v1, f1))
  <2>1. /\ m \in Packed /\ m.manufacturer = NonRealtime /\ At(m, 1) = 13 /\ At(m, 2) = t
        /\ Size(m) = 12 + Len(x) /\ Holds(m, 12, x)
    BY <1>1, SentFacts
  <2>2. Size(m) = 17
    BY <2>1
  <2>3. Span(m, 12, Len(x)) = x
    BY <2>1, ReadsSpan
  <2>4. ProfileIdValid(m) /\ ProfileIdFields(m) = f1
    BY <2>1, <2>2, <2>3 DEF ProfileIdValid, ProfileIdFields, Is, Payload, ProfileSize
  <2>5. Accepts(v1, m) /\ Fields(v1, m) = f1 /\ End(v1, m) = Size(m)
    BY <2>2, <2>4, AcceptsIs, FieldsAre, ReadUpTo DEF Payload
  <2>6. ViewsOf(t) = {v1}
    BY ViewsOfEach
  <2> HIDE DEF v1, f1
  <2> QED BY <1>0, <1>1, <2>5, <2>6, SentReads
<1>2. ASSUME Sent(m, h, 40, x \o Uint7(n)) PROVE Reads(m, h, Only(v2, f2))
  <2> DEFINE u == Uint7(n)
  <2>1. u \in Bytes /\ x \in Bytes
    BY Numbers14, Powers
  <2>2. Len(u) = 1
    BY Numbers14, Powers
  <2>3. Sent(m, h, 40, x \o u)
    BY <1>2
  <2> HIDE DEF u
  <2>4. /\ m \in Packed /\ m.manufacturer = NonRealtime /\ At(m, 1) = 13 /\ At(m, 2) = 40
        /\ Size(m) = 12 + Len(x \o u) /\ Holds(m, 12, x \o u) /\ Size(m) \in Nat
    BY ONLY <2>3, SentFacts, ZenonT(40)
  <2>5. Holds(m, 12, x) /\ Holds(m, 12 + Len(x), u) /\ Len(x \o u) = Len(x) + Len(u)
    BY <2>1, <2>4, HoldsBoth, Joined
  <2>6. Holds(m, 17, u) /\ Size(m) = 18
    BY <2>2, <2>4, <2>5
  <2>7. Span(m, 12, Len(x)) = x /\ At(m, 17) = n
    BY <2>4, <2>5, <2>6, ReadsSpan, ReadsUint7 DEF u
  <2>8. ProfileDetailsInquiryValid(m) /\ ProfileDetailsInquiryFields(m) = f2
    BY <2>4, <2>6, <2>7
       DEF ProfileDetailsInquiryValid, ProfileDetailsInquiryFields, Is, Payload, ProfileSize,
           ProfileConfiguration
  <2>9. Accepts(v2, m) /\ Fields(v2, m) = f2 /\ End(v2, m) = Size(m)
    BY <2>6, <2>8, AcceptsIs, FieldsAre, ReadUpTo DEF Payload
  <2>10. ViewsOf(40) = {v2}
    BY ViewsOfEach
  <2> HIDE DEF v2, f2
  <2> QED BY <1>0, <2>3, <2>9, <2>10, SentReads
<1> QED BY <1>1, <1>2

LEMMA DetailsReplyReads ==
  ASSUME NEW m, NEW h, NEW x \in Bytes, Len(x) = 5, NEW n \in 0..Radix - 1,
         NEW b \in Bytes, Len(b) < Radix * Radix,
         Sent(m, h, 41, x \o Uint7(n) \o Uint14(Len(b)) \o b)
  PROVE  Reads(m, h, Only("profile_details_reply",
                          [profile |-> x, target |-> n, target_data |-> b]))
<1> DEFINE u == Uint7(n)
           w == Uint14(Len(b))
           v == "profile_details_reply"
           f == [profile |-> x, target |-> n, target_data |-> b]
<1>1. u \in Bytes /\ w \in Bytes /\ x \in Bytes /\ b \in Bytes /\ Len(b) \in Nat
  BY Counted, Numbers14, Powers
<1>2. Len(u) = 1 /\ Len(w) = 2 /\ Len(x) = 5
  BY Counted, Numbers14, Powers
<1>3. Sent(m, h, 41, x \o u \o w \o b)
  OBVIOUS
<1> HIDE DEF u, w
<1>5. /\ m \in Packed /\ m.manufacturer = NonRealtime /\ At(m, 1) = 13 /\ At(m, 2) = 41
      /\ Size(m) = 12 + Len(x \o u \o w \o b) /\ Holds(m, 12, x \o u \o w \o b)
      /\ Size(m) \in Nat
  BY ONLY <1>3, SentFacts, ZenonT(40)
<1>55. 12 \in Nat /\ Size(m) \in Nat /\ Holds(m, 12, x \o u \o w \o b)
  BY <1>5
<1>6. /\ Holds(m, 12, x) /\ Holds(m, 12 + Len(x), u) /\ Holds(m, 12 + Len(x) + Len(u), w)
      /\ Holds(m, 12 + Len(x) + Len(u) + Len(w), b)
      /\ Len(x \o u \o w \o b) = Len(x) + Len(u) + Len(w) + Len(b)
  BY ONLY <1>1, <1>55, HoldsFour
<1>7. Holds(m, 17, u) /\ Holds(m, 18, w) /\ Holds(m, 20, b) /\ Size(m) = 20 + Len(b)
  BY <1>1, <1>2, <1>5, <1>6
<1>8. Span(m, 12, Len(x)) = x /\ At(m, 17) = n
  BY <1>5, <1>6, <1>7, ReadsSpan, ReadsUint7 DEF u
<1>9. MakeUint14(m, 18) = Len(b) /\ Span(m, 20, Len(b)) = b
  BY <1>5, <1>7, Counted, ReadsSpan DEF w
<1>10. /\ ProfileDetailsReplyValid(m) /\ ProfileDetailsReplyFields(m) = f
       /\ ProfileDetailsReplyEnd(m) = Size(m)
  BY <1>1, <1>2, <1>5, <1>7, <1>8, <1>9
     DEF ProfileDetailsReplyValid, ProfileDetailsReplyFields, ProfileDetailsReplyEnd, Is, Payload,
         ProfileSize, ProfileConfiguration
<1>11. Accepts(v, m) /\ Fields(v, m) = f /\ End(v, m) = Size(m)
  BY <1>10, AcceptsIs, FieldsAre, ReadUpTo
<1>12. v \in Views /\ v # "inquiry" /\ ViewsOf(41) = {v}
  BY ViewsOfEach DEF Views
<1> HIDE DEF v, f
<1>13. Reads(m, h, Only(v, f))
  BY <1>3, <1>11, <1>12, SentReads
<1> QED BY <1>13 DEF v, f

LEMMA SpecificDataReads ==
  ASSUME NEW m, NEW h, NEW x \in Bytes, Len(x) = 5,
         NEW b \in Bytes, Len(b) \in 0..Broadcast,
         Sent(m, h, 47, x \o Uint28(Len(b)) \o b)
  PROVE  Reads(m, h, Only("profile_specific_data", [profile |-> x, data |-> b]))
<1> DEFINE w == Uint28(Len(b))
           v == "profile_specific_data"
           f == [profile |-> x, data |-> b]
<1>0. Len(b) \in Nat
  BY Powers
<1>1. w \in Bytes /\ x \in Bytes /\ b \in Bytes
  BY <1>0, Numbers14
<1>2. Len(w) = 4 /\ Len(x) = 5
  BY <1>0, Numbers14
<1>3. Sent(m, h, 47, x \o w \o b)
  OBVIOUS
<1> HIDE DEF w
<1>5. /\ m \in Packed /\ m.manufacturer = NonRealtime /\ At(m, 1) = 13 /\ At(m, 2) = 47
      /\ Size(m) = 12 + Len(x \o w \o b) /\ Holds(m, 12, x \o w \o b)
      /\ Size(m) \in Nat
  BY ONLY <1>3, SentFacts, ZenonT(40)
<1>55. 12 \in Nat /\ Size(m) \in Nat /\ Holds(m, 12, x \o w \o b)
  BY <1>5
<1>6. /\ Holds(m, 12, x) /\ Holds(m, 12 + Len(x), w) /\ Holds(m, 12 + Len(x) + Len(w), b)
      /\ Len(x \o w \o b) = Len(x) + Len(w) + Len(b)
  BY ONLY <1>1, <1>55, HoldsThree
<1>7. Holds(m, 17, w) /\ Holds(m, 21, b) /\ Size(m) = 21 + Len(b)
  BY <1>0, <1>2, <1>5, <1>6
<1>8. Span(m, 12, Len(x)) = x
  BY <1>5, <1>6, ReadsSpan
<1>9. MakeUint28(m, 17) = Len(b) /\ Span(m, 21, Len(b)) = b
  BY <1>5, <1>7, ReadsUint28, ReadsSpan DEF w
<1>10. /\ SpecificDataValid(m) /\ SpecificDataFields(m) = f /\ SpecificDataEnd(m) = Size(m)
  BY <1>0, <1>2, <1>5, <1>7, <1>8, <1>9
     DEF SpecificDataValid, SpecificDataFields, SpecificDataEnd, Is, Payload,
         ProfileSize, ProfileConfiguration
<1>11. Accepts(v, m) /\ Fields(v, m) = f /\ End(v, m) = Size(m)
  BY <1>10, AcceptsIs, FieldsAre, ReadUpTo
<1>12. v \in Views /\ v # "inquiry" /\ ViewsOf(47) = {v}
  BY ViewsOfEach DEF Views
<1> HIDE DEF v, f
<1>13. Reads(m, h, Only(v, f))
  BY <1>3, <1>11, <1>12, SentReads
<1> QED BY <1>13 DEF v, f

\* The destination of a profile is in the header and behind the profile's ID.
LEMMA ProfileAtReads ==
  ASSUME NEW m, NEW h, NEW x \in Bytes, Len(x) = 5, NEW n \in Nat, n < Radix * Radix,
         NEW t \in 34..37, Sent(m, h, t, x \o Uint14(n))
  PROVE  Reads(m, h, [v \in {"profile_id", "profile_destination"} |->
                        IF v = "profile_id" THEN [profile |-> x]
                        ELSE [profile |-> x, params |-> <<h.device, n>>]])
<1> DEFINE u == Uint14(n)
           f == [v \in {"profile_id", "profile_destination"} |->
                   IF v = "profile_id" THEN [profile |-> x]
                   ELSE [profile |-> x, params |-> <<h.device, n>>]]
<1>1. u \in Bytes /\ x \in Bytes
  BY Numbers14
<1>2. Len(u) = 2
  BY Numbers14
<1>3. Sent(m, h, t, x \o u)
  OBVIOUS
<1> HIDE DEF u
<1>4. /\ m \in Packed /\ m.manufacturer = NonRealtime /\ Size(m) \in Nat
      /\ At(m, 0) = h.device /\ At(m, 1) = 13 /\ At(m, 2) = t
      /\ Size(m) = 12 + Len(x \o u) /\ Holds(m, 12, x \o u) /\ HeaderOf(m) = h
  BY ONLY <1>3, SentFacts, ZenonT(40)
<1>5. 12 \in Nat /\ Size(m) \in Nat /\ Holds(m, 12, x \o u)
  BY <1>4
<1>6. Holds(m, 12, x) /\ Holds(m, 12 + Len(x), u) /\ Len(x \o u) = Len(x) + Len(u)
  BY ONLY <1>1, <1>5, HoldsBoth, Joined
<1>7. Holds(m, 17, u) /\ Size(m) = 19
  BY <1>2, <1>4, <1>6
<1>8. Span(m, 12, Len(x)) = x /\ MakeUint14(m, 17) = n
  BY <1>4, <1>6, <1>7, ReadsSpan, ReadsUint14 DEF u
<1>9. /\ ProfileIdValid(m) /\ ProfileDestinationValid(m)
      /\ ProfileIdFields(m) = [profile |-> x]
      /\ ProfileDestinationFields(m) = [profile |-> x, params |-> <<h.device, n>>]
  BY <1>4, <1>7, <1>8
     DEF ProfileIdValid, ProfileDestinationValid, ProfileIdFields, ProfileDestinationFields, Is,
         Payload, ProfileSize
<1>10. /\ Accepts("profile_id", m) /\ Accepts("profile_destination", m)
       /\ Fields("profile_id", m) = [profile |-> x]
       /\ Fields("profile_destination", m) = [profile |-> x, params |-> <<h.device, n>>]
       /\ End("profile_destination", m) = Size(m)
  BY <1>7, <1>9, AcceptsIs, FieldsAre, ReadUpTo DEF Payload
<1>11. /\ DOMAIN f = {"profile_id", "profile_destination"}
       /\ f["profile_id"] = [profile |-> x]
       /\ f["profile_destination"] = [profile |-> x, params |-> <<h.device, n>>]
  OBVIOUS
<1> HIDE DEF f
<1>12. \A v \in DOMAIN f : Fields(v, m) = f[v]
  BY <1>10, <1>11
<1>13. \A v \in DOMAIN f :
         End(v, m) = Size(m) \/ (v = "profile_id" /\ "profile_destination" \in DOMAIN f)
  BY <1>10, <1>11
<1>14. h \in Headers /\ HasHeader(m) /\ h # NoHeader
  BY <1>3, HeaderIsOne DEF Sent, Composed
<1>15. {v \in Views : Accepts(v, m)} = {"profile_id", "profile_destination", "inquiry"}
  <2>1. InquiryValid(m)
    BY <1>4, <1>7 DEF InquiryValid, Payload
  <2>2. Accepts("inquiry", m)
    BY <2>1, AcceptsIs
  <2>3. ViewsOf(t) = {"profile_id", "profile_destination"}
    BY ViewsOfEach
  <2>4. \A v \in Views : Accepts(v, m) => v \in {"profile_id", "profile_destination", "inquiry"}
    BY <1>4, <2>3, OnlyItsViews
  <2>5. {"profile_id", "profile_destination", "inquiry"} \subseteq Views
    BY DEF Views
  <2> QED BY <1>10, <2>2, <2>4, <2>5
<1>16. Reads(m, h, f)
  BY <1>4, <1>11, <1>12, <1>13, <1>14, <1>15 DEF Reads
<1> QED BY <1>16 DEF f

-----------------------------------------------------------------------------
\* A list of profile IDs
LEMMA ListOfProfiles ==
  ASSUME NEW list \in ProfileLists
  PROVE  /\ Len(list) \in 0..2 /\ list \in Seq(ProfileIds)
         /\ Flat(list) \in Bytes /\ Len(Flat(list)) = 5 * Len(list)
         /\ (list = <<>> <=> Len(list) = 0)
         /\ list = [j \in 1..Len(list) |-> list[j]]
         /\ \A j \in 1..Len(list) : list[j] \in Bytes /\ Len(list[j]) = 5
         /\ \A j \in 1..Len(list) : \A i \in 1..5 : Flat(list)[5 * (j - 1) + i] = list[j][i]
<1>1. Len(list) \in 0..2 /\ list \in Seq(ProfileIds)
  <2>1. /\ <<>> \in Seq(ProfileIds) /\ Len(<<>>) = 0
        /\ \A p \in ProfileIds : <<p>> \in Seq(ProfileIds) /\ Len(<<p>>) = 1
        /\ \A p, q \in ProfileIds : <<p, q>> \in Seq(ProfileIds) /\ Len(<<p, q>>) = 2
    OBVIOUS
  <2>2. \/ list = <<>> \/ \E p \in ProfileIds : list = <<p>>
        \/ \E p, q \in ProfileIds : list = <<p, q>>
    BY DEF ProfileLists
  <2>3. list \in Seq(ProfileIds)
    BY <2>1, <2>2, Zenon
  <2> QED BY <2>1, <2>2, <2>3
<1>2. Flat(list) \in Bytes
  BY FlatBytes
<1>3. Len(Flat(list)) = 5 * Len(list)
  <2>1. DOMAIN Flat(list) = 1..5 * Len(list)
    BY DEF Flat, ProfileSize
  <2>2. 5 * Len(list) \in Nat
    BY <1>1
  <2>3. DOMAIN Flat(list) = 1..Len(Flat(list)) /\ Len(Flat(list)) \in Nat
    BY <1>2, LenProperties DEF Bytes
  <2> QED BY <2>1, <2>2, <2>3
<1>4. list = <<>> <=> Len(list) = 0
  BY <1>1, EmptySeq
<1>5. list = [j \in 1..Len(list) |-> list[j]]
  BY <1>1, LenProperties
<1>6. \A j \in 1..Len(list) : list[j] \in ProfileIds
  BY <1>1, ElementOfSeq
<1>7. \A j \in 1..Len(list) : list[j] \in Bytes /\ Len(list[j]) = 5
  BY <1>6, Arguments
<1>8. \A j \in Nat : \A i \in 1..5 :
        j >= 1 => ((5 * (j - 1) + i - 1) \div 5) + 1 = j /\ ((5 * (j - 1) + i - 1) % 5) + 1 = i
  OBVIOUS
<1>9. ASSUME NEW j \in 1..Len(list), NEW i \in 1..5
      PROVE  Flat(list)[5 * (j - 1) + i] = list[j][i]
  <2>1. 5 * (j - 1) + i \in 1..5 * Len(list) /\ j \in Nat /\ j >= 1
    BY <1>1
  <2>2. ((5 * (j - 1) + i - 1) \div 5) + 1 = j /\ ((5 * (j - 1) + i - 1) % 5) + 1 = i
    BY <1>8, <2>1
  <2> QED BY <2>1, <2>2 DEF Flat, ProfileSize
<1> QED BY <1>1, <1>2, <1>3, <1>4, <1>5, <1>7, <1>9

LEMMA ListRead ==
  ASSUME NEW list \in ProfileLists, NEW m \in Packed, NEW k \in Nat, Size(m) \in Nat,
         MakeUint14(m, k) = Len(list), Holds(m, k + 2, Flat(list))
  PROVE  Profiles(m, k) = list
<1>1. ASSUME NEW j \in 1..Len(list) PROVE Span(m, k + 2 + 5 * (j - 1), 5) = list[j]
  <2>1. /\ Len(list) \in 0..2 /\ Len(Flat(list)) = 5 * Len(list)
        /\ list[j] \in Bytes /\ Len(list[j]) = 5
        /\ \A i \in 1..5 : Flat(list)[5 * (j - 1) + i] = list[j][i]
    BY ListOfProfiles
  <2> DEFINE o == k + 2 + 5 * (j - 1)
  <2>2. o \in Nat /\ o + 5 <= Size(m)
    BY <2>1 DEF Holds
  <2>3. \A i \in 1..5 : m.data[o + i] = list[j][i]
    <3> TAKE i \in 1..5
    <3>1. 5 * (j - 1) + i \in 1..Len(Flat(list)) /\ (k + 2) + (5 * (j - 1) + i) = o + i
      BY <2>1
    <3>2. m.data[(k + 2) + (5 * (j - 1) + i)] = Flat(list)[5 * (j - 1) + i]
      BY <3>1 DEF Holds
    <3> QED BY <2>1, <3>1, <3>2
  <2>4. Holds(m, o, list[j])
    BY <2>1, <2>2, <2>3 DEF Holds
  <2> HIDE DEF o
  <2>5. Span(m, o, Len(list[j])) = list[j]
    BY <2>1, <2>2, <2>4, ReadsSpan
  <2> QED BY <2>1, <2>5 DEF o
<1>2. list = [j \in 1..Len(list) |-> list[j]]
  BY ListOfProfiles
<1>3. Profiles(m, k) = [j \in 1..Len(list) |-> Span(m, k + 2 + 5 * (j - 1), 5)]
  BY DEF Profiles, ProfileSize
<1>4. [j \in 1..Len(list) |-> Span(m, k + 2 + 5 * (j - 1), 5)] = [j \in 1..Len(list) |-> list[j]]
  BY <1>1
<1> QED BY <1>2, <1>3, <1>4, Zenon

LEMMA ProfileListsRead ==
  ASSUME NEW m, NEW h, NEW on \in ProfileLists, NEW off \in ProfileLists,
         Radix * Radix > 2,
         Sent(m, h, 33, Uint14(Len(on)) \o Flat(on) \o Uint14(Len(off)) \o Flat(off))
  PROVE  Reads(m, h, Only("profile_inquiry_reply",
           [has_enabled_profiles |-> on # <<>>, has_disabled_profiles |-> off # <<>>,
            enabled_profiles |-> on, disabled_profiles |-> off]))
<1> DEFINE a == Uint14(Len(on))
           b == Flat(on)
           c == Uint14(Len(off))
           d == Flat(off)
           v == "profile_inquiry_reply"
           f == [has_enabled_profiles |-> on # <<>>, has_disabled_profiles |-> off # <<>>,
                 enabled_profiles |-> on, disabled_profiles |-> off]
<1>1. /\ Len(on) \in 0..2 /\ Len(off) \in 0..2
      /\ (on = <<>> <=> Len(on) = 0) /\ (off = <<>> <=> Len(off) = 0)
  BY ListOfProfiles
<1>2. a \in Bytes /\ b \in Bytes /\ c \in Bytes /\ d \in Bytes
  BY <1>1, ListOfProfiles, Numbers14
<1>3. Len(a) = 2 /\ Len(b) = 5 * Len(on) /\ Len(c) = 2 /\ Len(d) = 5 * Len(off)
  BY <1>1, ListOfProfiles, Numbers14
<1>4. Sent(m, h, 33, a \o b \o c \o d)
  OBVIOUS
<1> HIDE DEF a, b, c, d
<1>5. /\ m \in Packed /\ m.manufacturer = NonRealtime /\ Size(m) \in Nat
      /\ At(m, 1) = 13 /\ At(m, 2) = 33
      /\ Size(m) = 12 + Len(a \o b \o c \o d) /\ Holds(m, 12, a \o b \o c \o d)
  BY ONLY <1>4, SentFacts, ZenonT(40)
<1>6. 12 \in Nat /\ Size(m) \in Nat /\ Holds(m, 12, a \o b \o c \o d)
  BY <1>5
<1>7. /\ Holds(m, 12, a) /\ Holds(m, 12 + Len(a), b) /\ Holds(m, 12 + Len(a) + Len(b), c)
      /\ Holds(m, 12 + Len(a) + Len(b) + Len(c), d)
      /\ Len(a \o b \o c \o d) = Len(a) + Len(b) + Len(c) + Len(d)
  BY ONLY <1>2, <1>6, HoldsFour
<1> DEFINE o == 14 + 5 * Len(on)
<1>8. /\ Holds(m, 14, b) /\ Holds(m, o, c) /\ Holds(m, o + 2, d)
      /\ Size(m) = o + 2 + 5 * Len(off) /\ o \in Nat
  BY <1>1, <1>3, <1>5, <1>7
<1>9. MakeUint14(m, 12) = Len(on) /\ MakeUint14(m, o) = Len(off)
  <2>1. /\ Len(on) \in Nat /\ Len(on) < Radix * Radix
        /\ Len(off) \in Nat /\ Len(off) < Radix * Radix
    <3>1. \A s \in Nat : \A n \in 0..2 : s > 2 => n \in Nat /\ n < s
      OBVIOUS
    <3>2. Radix * Radix \in Nat /\ Radix * Radix > 2
      BY Powers
    <3> QED BY ONLY <1>1, <3>1, <3>2, Zenon
  <2> QED BY <1>7, <1>8, <2>1, ReadsUint14 DEF a, c
<1>10. OffsetOfDisabled(m) = o
  BY <1>9 DEF OffsetOfDisabled, Payload, ProfileSize
<1> HIDE DEF o
<1>11. Profiles(m, 12) = on /\ Profiles(m, o) = off
  <2>1. Holds(m, 12 + 2, Flat(on)) /\ Holds(m, o + 2, Flat(off))
    BY <1>8 DEF b, d
  <2> QED BY <1>5, <1>6, <1>8, <1>9, <2>1, ListRead
<1>12. ASSUME NEW list \in {on, off}, NEW k \in Nat, MakeUint14(m, k) = Len(list),
              k + 1 < Size(m)
       PROVE  (At(m, k) # 0 \/ At(m, k + 1) # 0) <=> list # <<>>
  <2>1. At(m, k) \in Nat /\ At(m, k + 1) \in Nat
    <3>1. HasHeader(m)
      BY <1>4 DEF Sent, Composed
    <3>2. \A j \in 0..Size(m) - 1 : At(m, j) \in Nat
      BY <3>1, MessageBytes
    <3> QED BY <1>5, <1>12, <3>2
  <2>2. Len(list) = At(m, k) + Radix * At(m, k + 1)
    BY <1>12 DEF MakeUint14
  <2>3. \A x, y \in Nat : \A r \in Nat : r > 1 => (x + r * y = 0 <=> x = 0 /\ y = 0)
    <3> TAKE x, y \in Nat
    <3> TAKE r \in Nat
    <3>1. r > 1 /\ y > 0 => r * y > 0
      OBVIOUS
    <3>2. r * y \in Nat /\ r * 0 = 0
      OBVIOUS
    <3> QED BY <3>1, <3>2
  <2>4. Len(list) = 0 <=> At(m, k) = 0 /\ At(m, k + 1) = 0
    BY <2>1, <2>2, <2>3, Powers
  <2> QED BY <1>1, <2>4
<1>13. /\ (At(m, 12) # 0 \/ At(m, 13) # 0) <=> on # <<>>
       /\ (At(m, o) # 0 \/ At(m, o + 1) # 0) <=> off # <<>>
  <2>1. 12 + 1 < Size(m) /\ o + 1 < Size(m) /\ 12 \in Nat /\ o \in Nat
    BY <1>1, <1>8 DEF o
  <2>2. (At(m, 12) # 0 \/ At(m, 12 + 1) # 0) <=> on # <<>>
    BY <1>9, <1>12, <2>1
  <2>3. (At(m, o) # 0 \/ At(m, o + 1) # 0) <=> off # <<>>
    BY <1>9, <1>12, <2>1
  <2> QED BY <2>2, <2>3
<1>14. ProfileInquiryReplyFields(m) = f
  <2>1. /\ (At(m, 12) # 0 \/ At(m, 13) # 0) = (on # <<>>)
        /\ (At(m, o) # 0 \/ At(m, o + 1) # 0) = (off # <<>>)
    BY <1>13
  <2>2. ProfileInquiryReplyFields(m) =
          [has_enabled_profiles |-> At(m, 12) # 0 \/ At(m, 13) # 0,
           has_disabled_profiles |-> At(m, o) # 0 \/ At(m, o + 1) # 0,
           enabled_profiles |-> on, disabled_profiles |-> off]
    BY <1>10, <1>11 DEF ProfileInquiryReplyFields, Payload
  <2> QED BY <2>1, <2>2
<1>15. ProfileInquiryReplyValid(m) /\ ProfileInquiryReplyEnd(m) = Size(m)
  <2>1. /\ Size(m) = o + 2 + 5 * Len(off) /\ o \in Nat /\ o >= 14 /\ Len(off) \in Nat
        /\ OffsetOfDisabled(m) = o /\ MakeUint14(m, o) = Len(off)
    BY <1>1, <1>8, <1>9, <1>10 DEF o
  <2>2. Is(m, 12 + 4, {33})
    BY ONLY <1>5, <2>1 DEF Is
  <2>3. Size(m) >= o + 2 /\ Size(m) >= o + 2 + 5 * Len(off)
    BY ONLY <2>1
  <2> QED BY ONLY <2>1, <2>2, <2>3
          DEF ProfileInquiryReplyValid, ProfileInquiryReplyEnd, Payload, ProfileSize,
              ProfileConfiguration
<1>16. Accepts(v, m) /\ Fields(v, m) = f /\ End(v, m) = Size(m)
  BY <1>14, <1>15, AcceptsIs, FieldsAre, ReadUpTo
<1>17. v \in Views /\ v # "inquiry" /\ ViewsOf(33) = {v}
  BY ViewsOfEach DEF Views
<1> HIDE DEF v, f
<1>18. Reads(m, h, Only(v, f))
  BY <1>4, <1>16, <1>17, SentReads
<1> QED BY <1>18 DEF v, f

-----------------------------------------------------------------------------
LEMMA PropertyDataReads ==
  ASSUME NEW m, NEW h, NEW n \in 0..Radix - 1,
         NEW x \in Bytes, Len(x) < Radix * Radix, NEW b \in Bytes, Len(b) < Radix * Radix,
         NEW chunks \in Nat, NEW this \in Nat, chunks < Radix * Radix, this < Radix * Radix,
         chunks # 0 => this <= chunks, x # <<>> => this <= 1, b # <<>> => this >= 1,
         NEW t, t \in 52..57 \union {63}, NEW v, ViewsOf(t) = {v},
         Sent(m, h, t, Uint7(n) \o Uint14(Len(x)) \o x
                       \o Uint14(chunks) \o Uint14(this) \o Uint14(Len(b)) \o b)
  PROVE  Reads(m, h, Only(v, PropertyFields(x, chunks, this, b, n)))
<1> DEFINE a == Uint7(n)
           p == Uint14(Len(x))
           q == Uint14(chunks)
           r == Uint14(this)
           w == Uint14(Len(b))
           y == a \o p \o x \o q
           f == PropertyFields(x, chunks, this, b, n)
           k == Len(x)
           j == Len(b)
<1>1. /\ a \in Bytes /\ p \in Bytes /\ q \in Bytes /\ r \in Bytes /\ w \in Bytes
      /\ k \in Nat /\ j \in Nat
  BY Numbers14, Counted, Powers
<1>2. Len(a) = 1 /\ Len(p) = 2 /\ Len(q) = 2 /\ Len(r) = 2 /\ Len(w) = 2
  BY Numbers14, Counted, Powers
<1>3. Sent(m, h, t, y \o r \o w \o b)
  OBVIOUS
<1>4. y \in Bytes
  BY <1>1, JoinedFour
<1> HIDE DEF a, p, q, r, w, y
<1>5. /\ m \in Packed /\ m.manufacturer = NonRealtime /\ Size(m) \in Nat
      /\ At(m, 1) = 13 /\ At(m, 2) = t
      /\ Size(m) = 12 + Len(y \o r \o w \o b) /\ Holds(m, 12, y \o r \o w \o b)
  BY ONLY <1>3, SentFacts, Zenon
<1>6. 12 \in Nat /\ Size(m) \in Nat /\ Holds(m, 12, y \o r \o w \o b) /\ b \in Bytes
  BY <1>5
<1>7. /\ Holds(m, 12, y) /\ Holds(m, 12 + Len(y), r) /\ Holds(m, 12 + Len(y) + Len(r), w)
      /\ Holds(m, 12 + Len(y) + Len(r) + Len(w), b)
      /\ Len(y \o r \o w \o b) = Len(y) + Len(r) + Len(w) + Len(b)
  BY ONLY <1>1, <1>4, <1>6, HoldsFour
<1>8. 12 \in Nat /\ Size(m) \in Nat /\ Holds(m, 12, a \o p \o x \o q) /\ x \in Bytes
  BY <1>5, <1>7 DEF y
<1>9. /\ Holds(m, 12, a) /\ Holds(m, 12 + Len(a), p) /\ Holds(m, 12 + Len(a) + Len(p), x)
      /\ Holds(m, 12 + Len(a) + Len(p) + Len(x), q)
      /\ Len(a \o p \o x \o q) = Len(a) + Len(p) + Len(x) + Len(q)
  BY ONLY <1>1, <1>8, HoldsFour
<1>10. Len(y) = 5 + k
  BY <1>1, <1>2, <1>9 DEF y
<1>11. /\ Holds(m, 13, p) /\ Holds(m, 15, x) /\ Holds(m, 15 + k, q)
       /\ Holds(m, 17 + k, r) /\ Holds(m, 19 + k, w) /\ Holds(m, 21 + k, b)
       /\ Size(m) = 21 + k + j
  BY <1>1, <1>2, <1>5, <1>7, <1>9, <1>10
<1>12. /\ 15 + k \in Nat /\ 17 + k \in Nat /\ 19 + k \in Nat /\ 21 + k \in Nat
  BY <1>1
<1>13. At(m, 12) = n /\ MakeUint14(m, 13) = k /\ MakeUint14(m, 19 + k) = j
  <2>1. At(m, 12) = n
    BY <1>9, ReadsUint7 DEF a
  <2>2. \A o \in Nat : Holds(m, o, Uint14(Len(x))) => MakeUint14(m, o) = Len(x)
    BY Counted
  <2>3. \A o \in Nat : Holds(m, o, Uint14(Len(b))) => MakeUint14(m, o) = Len(b)
    BY Counted
  <2>4. MakeUint14(m, 13) = k
    <3>1. 13 \in Nat /\ Holds(m, 13, Uint14(Len(x)))
      BY <1>11 DEF p
    <3> QED BY ONLY <2>2, <3>1 DEF k
  <2>5. MakeUint14(m, 19 + k) = j
    <3>1. 19 + k \in Nat /\ Holds(m, 19 + k, Uint14(Len(b)))
      BY <1>11, <1>12 DEF w
    <3> QED BY ONLY <2>3, <3>1 DEF j
  <2> QED BY <2>1, <2>4, <2>5
<1>14. MakeUint14(m, 15 + k) = chunks /\ MakeUint14(m, 17 + k) = this
  BY <1>11, <1>12, ReadsUint14 DEF q, r
<1>15. Span(m, 15, k) = x /\ Span(m, 21 + k, j) = b
  BY <1>5, <1>11, <1>12, ReadsSpan
<1>16. (k # 0 => x # <<>>) /\ (j # 0 => b # <<>>)
  BY Len(<<>>) = 0
<1> HIDE DEF k, j
<1>17. HeaderSize(m) = k /\ ChunkSize(m) = j /\ PropertyDataEnd(m) = Size(m)
  BY <1>1, <1>11, <1>13, SMTT(30) DEF HeaderSize, ChunkSize, PropertyDataEnd, Payload
<1>18. PropertyDataFields(m) = f
  <2>1. 12 + 3 = 15 /\ 12 + 3 + k = 15 + k /\ 12 + 5 + k = 17 + k /\ 12 + 9 + k = 21 + k
    BY <1>1
  <2> QED BY <1>13, <1>14, <1>15, <1>17, <2>1
          DEF PropertyDataFields, PropertyFields, Payload
<1>19. PropertyDataValid(m)
  <2>1. Size(m) >= 21 /\ t \in 52..57 \union {63}
    BY <1>1, <1>11
  <2>2. Is(m, 12 + 9, 52..57 \union {63})
    BY ONLY <1>5, <2>1 DEF Is
  <2>3. /\ Size(m) >= (12 + 3 + k) + 6 /\ (chunks # 0 => this <= chunks)
        /\ (k # 0 => this <= 1) /\ (j # 0 => this >= 1) /\ Size(m) <= Size(m)
    BY <1>1, <1>5, <1>11, <1>16, SMTT(30)
  <2>4. MakeUint14(m, 12 + 3 + k) = chunks /\ MakeUint14(m, 12 + 5 + k) = this
    <3>1. 12 + 3 + k = 15 + k /\ 12 + 5 + k = 17 + k
      BY <1>1
    <3> QED BY <1>14, <3>1
  <2> QED BY ONLY <1>17, <2>2, <2>3, <2>4 DEF PropertyDataValid, Payload
<1>20. \/ (t \in 52..53 /\ v = "get_property") \/ (t \in 54..55 /\ v = "set_property")
       \/ (t \in 56..57 /\ v = "subscription") \/ (t = 63 /\ v = "notify")
  <2>1. t \in 52..53 \/ t \in 54..55 \/ t \in 56..57 \/ t = 63
    OBVIOUS
  <2>2. /\ t \in 52..53 => ViewsOf(t) = {"get_property"}
        /\ t \in 54..55 => ViewsOf(t) = {"set_property"}
        /\ t \in 56..57 => ViewsOf(t) = {"subscription"}
        /\ t = 63 => ViewsOf(t) = {"notify"}
    BY ONLY ViewsOfEach
  <2>3. \A w1 : ViewsOf(t) = {w1} => v = w1
    OBVIOUS
  <2>4. /\ t \in 52..53 => v = "get_property"
        /\ t \in 54..55 => v = "set_property"
        /\ t \in 56..57 => v = "subscription"
        /\ t = 63 => v = "notify"
    BY ONLY <2>2, <2>3
  <2> QED BY ONLY <2>1, <2>4
<1>21. Accepts(v, m) /\ Fields(v, m) = f /\ End(v, m) = Size(m)
  <2>1. /\ (v = "get_property" => GetPropertyValid(m))
        /\ (v = "set_property" => SetPropertyValid(m))
        /\ (v = "subscription" => SubscriptionValid(m))
        /\ (v = "notify" => NotifyValid(m))
    BY <1>5, <1>19, <1>20 DEF GetPropertyValid, SetPropertyValid, SubscriptionValid, NotifyValid
  <2>2. v \in {"get_property", "set_property", "subscription", "notify"}
    BY <1>20
  <2> HIDE DEF f
  <2>3. Accepts(v, m)
    BY <2>1, <2>2, AcceptsIs
  <2>4. Fields(v, m) = f
    BY <1>18, <2>2, FieldsAre, Zenon
  <2>5. End(v, m) = Size(m)
    BY <1>17, <2>2, ReadUpTo
  <2> QED BY <2>3, <2>4, <2>5
<1>22. v \in Views /\ v # "inquiry"
  BY <1>20 DEF Views
<1> HIDE DEF f
<1>23. Reads(m, h, Only(v, f))
  BY <1>3, <1>21, <1>22, SentReads
<1> QED BY <1>23 DEF f

-----------------------------------------------------------------------------
(* Messages that are not of MIDI-CI. *)

LEMMA OnlyIdentity ==
  ASSUME NEW m, NEW v \in Views, Accepts(v, m), At(m, 1) = 6
  PROVE  v = "identity_reply" /\ IsIdentityReply(m)
<1>1. TypeOf(m) # CapabilityInquiryType
  BY DEF TypeOf, CapabilityInquiryType, NoType, NonRealtime
<1>2. \A n, s : ~ Is(m, n, s)
  BY DEF Is
<1>3. /\ v \notin {"inquiry", "profile_inquiry", "invalidate_muid"}
  BY <1>1, AcceptedIf DEF InquiryValid, ProfileInquiryValid, InvalidateMuidValid
<1>4. v \notin {"discovery_inquiry", "discovery_reply", "endpoint_inquiry", "endpoint_reply",
                "ack", "nak"}
  BY <1>2, AcceptedIf
     DEF DiscoveryInquiryValid, DiscoveryReplyValid, EndpointInquiryValid, EndpointReplyValid,
         AckValid, NakValid
<1>5. v \notin {"profile_inquiry_reply", "profile_id", "profile_destination",
                "profile_details_inquiry", "profile_details_reply", "profile_specific_data"}
  BY <1>2, AcceptedIf
     DEF ProfileInquiryReplyValid, ProfileIdValid, ProfileDestinationValid,
         ProfileDetailsInquiryValid, ProfileDetailsReplyValid, SpecificDataValid
<1>6. v \notin {"capabilities", "process_reply", "report_inquiry", "report_reply"}
  BY <1>2, AcceptedIf
     DEF CapabilitiesValid, ProcessReplyValid, ReportInquiryValid, ReportReplyValid
<1>7. v \notin {"get_property", "set_property", "subscription", "notify"}
  BY <1>2, AcceptedIf
     DEF GetPropertyValid, SetPropertyValid, SubscriptionValid, NotifyValid, PropertyDataValid
<1>8. v = "identity_reply"
  BY <1>3, <1>4, <1>5, <1>6, <1>7 DEF Views
<1> QED BY <1>8, AcceptedIf

LEMMA IdentityRequestReads ==
  ASSUME NEW e \in Byte
  PROVE  Reads(IdentityRequest(e), NoHeader, <<>>)
<1> DEFINE m == IdentityRequest(e)
<1>1. Formed(m) /\ At(m, 1) = 6 /\ At(m, 2) = 1 /\ Size(m) = 3
  BY IdentityRequestFormed DEF IdentityRequest, At, Size
<1> HIDE DEF m
<1>2. SubtypeOf(m) = 1
  BY <1>1 DEF SubtypeOf, IsUniversal, Formed
<1>3. \A v \in Views : ~ Accepts(v, m)
  BY <1>1, <1>2, OnlyIdentity DEF IsIdentityReply
<1>4. DOMAIN <<>> = {}
  OBVIOUS
<1>5. Reads(m, NoHeader, <<>>)
  BY <1>1, <1>3, <1>4 DEF Reads
<1> QED BY <1>5 DEF m

LEMMA IdentityReplyReads ==
  ASSUME FieldsFit, NEW i \in Identities, NEW e \in Byte
  PROVE  Reads(IdentityReply(i, e), NoHeader, Only("identity_reply", [identity |-> i]))
<1> DEFINE m == IdentityReply(i, e)
           a == <<e, 6, 2>>
           w == IF i.manufacturer[1] = 0 THEN i.manufacturer ELSE <<i.manufacturer[1]>>
           b == Uint14(i.family)
           c == Uint14(i.model)
           d == Uint28(i.revision)
           x == a \o w
<1>1. /\ i.manufacturer \in [1..3 -> Byte] /\ i.manufacturer \in Bytes
      /\ Len(i.manufacturer) = 3
      /\ i.family \in Nat /\ i.model \in Nat /\ i.revision \in Nat
  BY IdentityBytes, FixedSize
<1>2. /\ i.family < Radix * Radix /\ i.model < Radix * Radix /\ i.revision \in 0..Broadcast
      /\ i.manufacturer[1] # 0 => i.manufacturer[2] = 0 /\ i.manufacturer[3] = 0
  BY <1>1 DEF FieldsFit
<1>3. /\ a \in Bytes /\ w \in Bytes /\ b \in Bytes /\ c \in Bytes /\ d \in Bytes
  <2>1. a \in Bytes
    BY DEF Bytes, Byte
  <2>2. <<i.manufacturer[1]>> \in Bytes
    BY <1>1 DEF Bytes
  <2>3. w \in Bytes
    BY <1>1, <2>2
  <2> QED BY <1>1, <2>1, <2>3, Numbers14
<1>4. /\ Len(a) = 3 /\ Len(b) = 2 /\ Len(c) = 2 /\ Len(d) = 4
      /\ Len(w) = IF i.manufacturer[1] = 0 THEN 3 ELSE 1
  BY <1>1, Numbers14
<1>5. m.data = x \o b \o c \o d
  BY DEF IdentityReply
<1>6. Formed(m) /\ m.data \in Bytes /\ Size(m) = Len(m.data) /\ Size(m) \in Nat
  BY IdentityReplyFormed, LenProperties DEF Formed, Packed, Bytes, Size
<1>7. x \in Bytes /\ Len(x) = Len(a) + Len(w) /\ Len(a) \in Nat /\ Len(w) \in Nat
  BY <1>3, Joined
<1> HIDE DEF m, a, w, b, c, d, x
<1>8. 0 \in Nat /\ Size(m) \in Nat /\ Holds(m, 0, x \o b \o c \o d) /\ x \in Bytes
  <2>1. Holds(m, 0, m.data)
    BY <1>6 DEF Holds
  <2> QED BY <1>5, <1>6, <1>7, <2>1
<1>9. /\ Holds(m, 0, x) /\ Holds(m, 0 + Len(x), b) /\ Holds(m, 0 + Len(x) + Len(b), c)
      /\ Holds(m, 0 + Len(x) + Len(b) + Len(c), d)
      /\ Len(x \o b \o c \o d) = Len(x) + Len(b) + Len(c) + Len(d)
  BY ONLY <1>3, <1>8, HoldsFour
<1>10. Holds(m, 0, a) /\ Holds(m, 0 + Len(a), w)
  <2>1. Holds(m, 0, a \o w)
    BY <1>9 DEF x
  <2> QED BY ONLY <1>3, <1>8, <2>1, HoldsBoth
<1> DEFINE o == 3 + Len(w)
<1>11. /\ Holds(m, 3, w) /\ Holds(m, o, b) /\ Holds(m, o + 2, c) /\ Holds(m, o + 4, d)
       /\ Size(m) = o + 8 /\ o \in Nat
  BY <1>4, <1>5, <1>6, <1>7, <1>9, <1>10
<1>12. At(m, 1) = 6 /\ At(m, 2) = 2
  <2>1. \A k \in 1..3 : m.data[0 + k] = <<e, 6, 2>>[k]
    BY <1>4, <1>10 DEF Holds, a
  <2>2. m.data[0 + 2] = 6 /\ m.data[0 + 3] = 2
    BY <2>1
  <2> QED BY <2>2 DEF At
<1>13. /\ MakeUint14(m, o) = i.family /\ MakeUint14(m, o + 2) = i.model
       /\ MakeUint28(m, o + 4) = i.revision
  <2>1. o + 2 \in Nat /\ o + 4 \in Nat
    BY <1>11
  <2> QED BY <1>1, <1>2, <1>6, <1>11, <2>1, ReadsUint14, ReadsUint28 DEF b, c, d
<1>14. TypeOf(m) = GeneralInformation /\ SubtypeOf(m) = 2
  <2>1. IsUniversal(m) /\ Size(m) > 2
    BY <1>6, <1>7, <1>11 DEF IsUniversal, Formed
  <2> QED BY <1>6, <1>12, <2>1 DEF TypeOf, SubtypeOf, GeneralInformation, Formed
<1>15. i.manufacturer = <<i.manufacturer[1], i.manufacturer[2], i.manufacturer[3]>>
  BY <1>1
<1>16. i = [manufacturer |-> i.manufacturer, family |-> i.family, model |-> i.model,
            revision |-> i.revision]
  BY MessageAssumption DEF MessageAssumption
<1>17. /\ IsIdentityReply(m) /\ Identity(m) = i
       /\ Size(m) = IF At(m, 3) # 0 THEN 12 ELSE 14
  <2>1. CASE i.manufacturer[1] = 0
    <3>0. Len(w) = 3 /\ o = 6
      BY <1>4, <2>1
    <3>1. Len(w) = 3 /\ w = i.manufacturer /\ o = 6
      BY <2>1, <3>0, Zenon DEF w
    <3>2. /\ At(m, 3) = i.manufacturer[1] /\ At(m, 4) = i.manufacturer[2]
          /\ At(m, 5) = i.manufacturer[3]
      <4>1. \A k \in 1..3 : m.data[3 + k] = i.manufacturer[k]
        BY <1>11, <3>1 DEF Holds
      <4>2. /\ m.data[3 + 1] = i.manufacturer[1] /\ m.data[3 + 2] = i.manufacturer[2]
            /\ m.data[3 + 3] = i.manufacturer[3]
        BY <4>1
      <4> QED BY <4>2 DEF At
    <3> HIDE DEF o
    <3>3. Size(m) = 14
      BY <1>11, <3>1
    <3>4. IsIdentityReply(m)
      BY <1>14, <3>3 DEF IsIdentityReply
    <3>5. MakeUint14(m, 6) = i.family /\ MakeUint14(m, 6 + 2) = i.model
          /\ MakeUint28(m, 6 + 4) = i.revision
      BY <1>13, <3>1
    <3>6. Identity(m) = i
      BY <1>15, <1>16, <2>1, <3>2, <3>5 DEF Identity
    <3> QED BY <2>1, <3>2, <3>3, <3>4, <3>6
  <2>2. CASE i.manufacturer[1] # 0
    <3>1. Len(w) = 1 /\ w = <<i.manufacturer[1]>> /\ o = 4
      BY <1>4, <2>2 DEF w
    <3>2. At(m, 3) = i.manufacturer[1]
      BY <1>11, <3>1, ReadsBytes
    <3> HIDE DEF o
    <3>3. Size(m) = 12
      BY <1>11, <3>1
    <3>4. IsIdentityReply(m)
      BY <1>14, <2>2, <3>2, <3>3 DEF IsIdentityReply
    <3>5. MakeUint14(m, 4) = i.family /\ MakeUint14(m, 4 + 2) = i.model
          /\ MakeUint28(m, 4 + 4) = i.revision
      BY <1>13, <3>1
    <3>6. Identity(m) = i
      BY <1>2, <1>15, <1>16, <2>2, <3>2, <3>5 DEF Identity
    <3> QED BY <2>2, <3>2, <3>3, <3>4, <3>6
  <2> QED BY <2>1, <2>2
<1>18. \A v \in Views : Accepts(v, m) => v = "identity_reply"
  BY <1>12, OnlyIdentity
<1>19. /\ Accepts("identity_reply", m) /\ Fields("identity_reply", m) = [identity |-> i]
       /\ End("identity_reply", m) = Size(m) /\ "identity_reply" \in Views
  BY <1>17, AcceptsIs, FieldsAre, ReadUpTo DEF Views
<1>20. /\ DOMAIN Only("identity_reply", [identity |-> i]) = {"identity_reply"}
       /\ Only("identity_reply", [identity |-> i])["identity_reply"] = [identity |-> i]
  BY DEF Only
<1>21. Reads(m, NoHeader, Only("identity_reply", [identity |-> i]))
  BY <1>6, <1>18, <1>19, <1>20 DEF Reads
<1> QED BY <1>21 DEF m

-----------------------------------------------------------------------------
(* What the factories return reads back. *)

LEMMA Square == Radix * Radix > 3
<1>1. \A r \in Nat : r > 1 => r * r >= 2 * r
  <2> TAKE r \in Nat
  <2> HAVE r > 1
  <2>1. PICK g \in Nat : r = 2 + g
    <3>1. r - 2 \in Nat /\ r = 2 + (r - 2)
      OBVIOUS
    <3> QED BY <3>1
  <2>2. r * r = 2 * r + g * r /\ g * r \in Nat
    BY <2>1
  <2> QED BY <2>2
<1>2. Radix \in Nat /\ Radix > 1 /\ Radix * Radix \in Nat
  BY Powers
<1>3. Radix * Radix >= 2 * Radix
  BY <1>1, <1>2
<1> QED BY <1>2, <1>3

\* Sizes that are asserted are kept.
LEMMA SizedFits ==
  ASSUME FieldsFit
  PROVE  /\ \A b \in Bytes : Len(b) < Radix * Radix => (Len(b) % Word) = Len(b)
         /\ \A b \in Blobs : Sized(b) => Len(b) < Radix * Radix
         /\ <<>> \in Bytes /\ Len(<<>>) < Radix * Radix
<1>1. Word \in Nat /\ Word > 0 /\ Radix * Radix <= Word /\ Radix * Radix \in Nat
  BY RadixAssumption, Powers DEF FieldsFit, RadixAssumption
<1>2. \A n, w, q \in Nat : n < q /\ q <= w => n % w = n
  OBVIOUS
<1>3. \A b \in Bytes : Len(b) \in Nat
  BY Joined
<1>4. <<>> \in Bytes /\ Len(<<>>) = 0
  BY DEF Bytes
<1>5. \A b \in Bytes : Len(b) < Radix * Radix => (Len(b) % Word) = Len(b)
  BY <1>1, <1>2, <1>3
<1> QED BY <1>4, <1>5, Square, Powers DEF Sized

LEMMA NakV1Reads ==
  ASSUME NEW s \in 0..Broadcast, NEW d \in 0..Broadcast, NEW e \in Byte
  PROVE  Reads(NakV1(s, d, e), OfVersion1(Header(Management.nak, s, d, e)), <<>>)
<1> DEFINE m == NakV1(s, d, e)
           h == OfVersion1(Header(Management.nak, s, d, e))
           k == Header(Management.nak, s, d, e)
<1>1. Management.nak = 127 /\ 127 \in Byte
  BY DEF Management, Byte
<1>2. h \in Headers /\ h.subtype = 127 /\ h.version = 1 /\ k \in Headers
  BY <1>1, HeaderParts
<1>3. <<>> \in Bytes
  BY DEF Bytes
<1>4. Composed(Message(Management.nak, s, d, e), k, <<>>)
  BY <1>1, MessageComposed
<1>5. Composed(m, h, <<>>)
  BY <1>2, <1>3, <1>4, Version1Composed DEF NakV1
<1> HIDE DEF m, h
<1>6. At(m, 3) = 1
  BY <1>2, <1>5, ComposedOf
<1>7. ~ Accepts("nak", m)
  BY <1>6, AcceptsIs DEF NakValid, Version2
<1>8. \A v \in ViewsOf(h.subtype) : ~ Accepts(v, m)
  BY <1>2, <1>7, ViewsOfEach
<1>9. Reads(m, h, <<>>)
  BY <1>2, <1>5, <1>8, ReadsNone
<1> QED BY <1>9 DEF m, h

LEMMA AnswersRead ==
  ASSUME FieldsFit, NEW v \in {"ack", "nak"}, NEW s \in 0..Broadcast, NEW d \in 0..Broadcast,
         NEW e \in Byte, NEW r \in Byte, NEW c \in Byte, NEW x \in Details, NEW b \in Blobs,
         Sized(b)
  PROVE  Reads(Acknowledgement(Management[v], s, d, e, r, c, c, x, b),
               Header(Management[v], s, d, e),
               Only(v, [transaction |-> r, status_code |-> c, status_data |-> c,
                        details |-> x, message |-> b]))
<1>1. x \in Bytes /\ Len(x) = 5 /\ b \in Bytes
  BY Arguments
<1>2. Len(b) < Radix * Radix /\ (Len(b) % Word) = Len(b)
  BY <1>1, SizedFits
<1>3. Management[v] \in Byte
  BY SubtypeBytes
<1> DEFINE u == <<r, c, c>>
           w == Uint14(Len(b))
<1>4. u \in Bytes /\ w \in Bytes
  BY <1>1, <1>2, Counted DEF Bytes
<1>5. u \o x \o w \o b \in Bytes
  BY <1>1, <1>4, JoinedFour
<1>6. Sent(Acknowledgement(Management[v], s, d, e, r, c, c, x, b),
           Header(Management[v], s, d, e), Management[v], u \o x \o w \o b)
  BY <1>2, <1>3, <1>5, FactorySent DEF Acknowledgement
<1> QED BY <1>1, <1>2, <1>6, AcknowledgementReads

\* A factory returned a message that reads back.
ReadsMade == \E m, header, fields : Make(m, header, fields) /\ Reads(m, header, fields)

LEMMA ManagementReads == FieldsFit /\ MakeManagement => ReadsMade
<1> HAVE FieldsFit /\ MakeManagement
<1> USE DEF ReadsMade
<1>0. /\ \A m \in Muids : m \in 0..Broadcast
      /\ \A e \in Devices : e \in Byte
      /\ Broadcast \in 0..Broadcast /\ AllDevices \in Byte
      /\ \A p \in Numbers : p \in 0..Radix - 1 /\ p \in Byte /\ p \in Nat
  BY Fits
<1>1. CASE MakeIdentityRequest
  BY <1>0, <1>1, IdentityRequestReads DEF MakeIdentityRequest
<1>2. CASE MakeIdentityReply
  BY <1>0, <1>2, IdentityReplyReads DEF MakeIdentityReply
<1>3. CASE MakeDiscoveryInquiry
  <2>1. PICK s \in Muids, i \in Identities, n \in Muids, p \in Numbers :
          Make(Discovery(Management.discovery_inquiry, s, Broadcast, i, p, n, p),
               Header(Management.discovery_inquiry, s, Broadcast, AllDevices),
               Only("discovery_inquiry", [identity |-> i, categories |-> p,
                                          maximum_message_size |-> n, output_path_id |-> p]))
    BY <1>3 DEF MakeDiscoveryInquiry
  <2>2. Reads(Discovery(Management.discovery_inquiry, s, Broadcast, i, p, n, p),
              Header(Management.discovery_inquiry, s, Broadcast, AllDevices),
              Only("discovery_inquiry", [identity |-> i, categories |-> p,
                                         maximum_message_size |-> n, output_path_id |-> p]))
    BY DiscoveryReads
  <2> QED BY <2>1, <2>2
<1>4. CASE MakeDiscoveryInquiryV1
  <2>1. PICK s \in Muids, i \in Identities, p \in Numbers :
          Make(DiscoveryV1(Management.discovery_inquiry, s, Broadcast, i, p, s),
               OfVersion1(Header(Management.discovery_inquiry, s, Broadcast, AllDevices)),
               Only("discovery_inquiry", [identity |-> i, categories |-> p,
                                          maximum_message_size |-> s, output_path_id |-> 0]))
    BY <1>4 DEF MakeDiscoveryInquiryV1
  <2>2. Broadcast \in Muids \union {Broadcast}
    OBVIOUS
  <2>3. Reads(DiscoveryV1(Management.discovery_inquiry, s, Broadcast, i, p, s),
              OfVersion1(Header(Management.discovery_inquiry, s, Broadcast, AllDevices)),
              Only("discovery_inquiry", [identity |-> i, categories |-> p,
                                         maximum_message_size |-> s, output_path_id |-> 0]))
    BY <2>2, DiscoveryV1Reads
  <2> QED BY <2>1, <2>3
<1>5. CASE MakeDiscoveryReply
  BY <1>5, DiscoveryReads DEF MakeDiscoveryReply
<1>6. CASE MakeDiscoveryReplyV1
  BY <1>6, DiscoveryV1Reads DEF MakeDiscoveryReplyV1
<1>7. CASE MakeEndpointInquiry
  <2>1. PICK s, d \in Muids, p \in Numbers :
          Make(EndpointInquiry(s, d, p),
               Header(Management.endpoint_information_inquiry, s, d, AllDevices),
               Only("endpoint_inquiry", [status |-> p]))
    BY <1>7 DEF MakeEndpointInquiry
  <2>2. Uint7(p) \in Bytes /\ Management.endpoint_information_inquiry = 114 /\ 114 \in Byte
    BY <1>0, Numbers14 DEF Management, Byte
  <2>3. Sent(EndpointInquiry(s, d, p), Header(114, s, d, AllDevices), 114, Uint7(p))
    BY <1>0, <2>2, FactorySent DEF EndpointInquiry
  <2> QED BY <1>0, <2>1, <2>2, <2>3, NumberReads
<1>8. CASE MakeEndpointReply
  <2>1. PICK s, d \in Muids, p \in Numbers, b \in Blobs :
          /\ Sized(b)
          /\ Make(EndpointReply(s, d, p, b),
                  Header(Management.endpoint_information_reply, s, d, AllDevices),
                  Only("endpoint_reply", [status |-> p, information_data |-> b]))
    BY <1>8 DEF MakeEndpointReply
  <2>2. Management.endpoint_information_reply = 115 /\ 115 \in Byte
    BY DEF Management, Byte
  <2>3. b \in Bytes /\ Len(b) < Radix * Radix /\ (Len(b) % Word) = Len(b)
    BY <2>1, Arguments, SizedFits
  <2> DEFINE u == Uint7(p)
             w == Uint14(Len(b))
  <2>4. u \in Bytes /\ w \in Bytes
    BY <1>0, <2>3, Numbers14, Counted
  <2>5. u \o w \o b \in Bytes
    BY <2>3, <2>4, JoinedThree
  <2>6. Sent(EndpointReply(s, d, p, b), Header(115, s, d, AllDevices), 115, u \o w \o b)
    BY <1>0, <2>2, <2>3, <2>5, FactorySent DEF EndpointReply
  <2>7. Reads(EndpointReply(s, d, p, b), Header(115, s, d, AllDevices),
              Only("endpoint_reply", [status |-> p, information_data |-> b]))
    BY <1>0, <2>3, <2>6, EndpointReplyReads
  <2> QED BY <2>1, <2>2, <2>7
<1>9. CASE MakeAcknowledgement
  <2>1. PICK s, d \in Muids, e \in Devices, p \in Numbers, x \in Details, b \in Blobs :
          /\ Sized(b)
          /\ \E v \in {"ack", "nak"} :
               Make(Acknowledgement(Management[v], s, d, e, Management.discovery_inquiry, p, p,
                                    x, b),
                    Header(Management[v], s, d, e),
                    Only(v, [transaction |-> Management.discovery_inquiry, status_code |-> p,
                             status_data |-> p, details |-> x, message |-> b]))
    BY <1>9 DEF MakeAcknowledgement
  <2>2. Management.discovery_inquiry \in Byte
    BY SubtypeBytes
  <2> QED BY <1>0, <2>1, <2>2, AnswersRead
<1>10. CASE MakeNakV1
  BY <1>0, <1>10, NakV1Reads DEF MakeNakV1
<1>11. CASE MakeInvalidateMuid
  <2>1. PICK s, t \in Muids :
          Make(InvalidateMuid(s, t), Header(Management.invalidate_muid, s, Broadcast, AllDevices),
               Only("invalidate_muid", [target_muid |-> t]))
    BY <1>11 DEF MakeInvalidateMuid
  <2>2. Management.invalidate_muid = 126 /\ 126 \in Byte
    BY DEF Management, Byte
  <2>3. Uint28(t) \in Bytes
    BY <1>0, Numbers14, Powers
  <2>4. Sent(InvalidateMuid(s, t), Header(126, s, Broadcast, AllDevices), 126, Uint28(t))
    BY <1>0, <2>2, <2>3, FactorySent DEF InvalidateMuid
  <2>5. Reads(InvalidateMuid(s, t), Header(126, s, Broadcast, AllDevices),
              Only("invalidate_muid", [target_muid |-> t]))
    BY <1>0, <2>4, NumberReads
  <2> QED BY <2>1, <2>2, <2>5
<1> QED BY <1>1, <1>2, <1>3, <1>4, <1>5, <1>6, <1>7, <1>8, <1>9, <1>10, <1>11 DEF MakeManagement

LEMMA ProfilesRead == FieldsFit /\ MakeProfile => ReadsMade
<1> HAVE FieldsFit /\ MakeProfile
<1> USE DEF ReadsMade
<1>0. /\ \A m \in Muids : m \in 0..Broadcast
      /\ \A e \in Devices : e \in Byte
      /\ \A p \in Numbers : p \in 0..Radix - 1 /\ p \in Byte /\ p \in Nat
      /\ \A p \in ProfileIds : p \in Bytes /\ Len(p) = 5
      /\ \A b \in Blobs : (Len(b) % Word) = Len(b) /\ Len(b) \in 0..Broadcast /\ b \in Bytes
      /\ \A b \in Blobs : Sized(b) => Len(b) < Radix * Radix
  BY Fits, Arguments, SizedFits
<1>1. CASE MakeProfileInquiry
  <2>1. PICK s, d \in Muids, e \in Devices :
          Make(Message(ProfileConfiguration.profile_inquiry, s, d, e),
               Header(ProfileConfiguration.profile_inquiry, s, d, e),
               Only("profile_inquiry", Header(ProfileConfiguration.profile_inquiry, s, d, e)))
    BY <1>1 DEF MakeProfileInquiry
  <2>2. ProfileConfiguration.profile_inquiry = 32 /\ 32 \in Byte
    BY DEF ProfileConfiguration, Byte
  <2>3. Sent(Message(32, s, d, e), Header(32, s, d, e), 32, <<>>)
    BY <1>0, <2>2, MessageSent
  <2> QED BY <2>1, <2>2, <2>3, PlainReads
<1>2. CASE MakeProfileInquiryReply
  <2>1. PICK s, d \in Muids, e \in Devices, on, off \in ProfileLists :
          Make(ProfileInquiryReply(s, d, on, off, e),
               Header(ProfileConfiguration.profile_inquiry_reply, s, d, e),
               Only("profile_inquiry_reply",
                 [has_enabled_profiles |-> on # <<>>, has_disabled_profiles |-> off # <<>>,
                  enabled_profiles |-> on, disabled_profiles |-> off]))
    BY <1>2 DEF MakeProfileInquiryReply
  <2>2. ProfileConfiguration.profile_inquiry_reply = 33 /\ 33 \in Byte
    BY DEF ProfileConfiguration, Byte
  <2> DEFINE a == Uint14(Len(on))
             b == Flat(on)
             c == Uint14(Len(off))
             g == Flat(off)
  <2>3. a \in Bytes /\ b \in Bytes /\ c \in Bytes /\ g \in Bytes
    BY FlatBytes, Numbers14
  <2>4. a \o b \o c \o g \in Bytes
    BY <2>3, JoinedFour
  <2>5. Sent(ProfileInquiryReply(s, d, on, off, e), Header(33, s, d, e), 33, a \o b \o c \o g)
    BY <1>0, <2>2, <2>4, FactorySent DEF ProfileInquiryReply
  <2>6. Radix * Radix > 2
    BY Square, Powers
  <2>7. Reads(ProfileInquiryReply(s, d, on, off, e), Header(33, s, d, e),
              Only("profile_inquiry_reply",
                 [has_enabled_profiles |-> on # <<>>, has_disabled_profiles |-> off # <<>>,
                  enabled_profiles |-> on, disabled_profiles |-> off]))
    BY <2>5, <2>6, ProfileListsRead
  <2> QED BY <2>1, <2>2, <2>7
<1>3. CASE MakeProfileAt
  <2>1. PICK s, d \in Muids, e \in Devices, p \in ProfileIds, n \in Numbers,
             t \in {ProfileConfiguration.set_profile_on, ProfileConfiguration.set_profile_off,
                    ProfileConfiguration.profile_enabled, ProfileConfiguration.profile_disabled} :
          Make(ProfileAt(t, s, d, p, e, n), Header(t, s, d, e),
               [v \in {"profile_id", "profile_destination"} |->
                  IF v = "profile_id" THEN [profile |-> p]
                  ELSE [profile |-> p,
                        params |-> <<e, IF t = ProfileConfiguration.set_profile_off
                                          THEN 0 ELSE n>>]])
    BY <1>3 DEF MakeProfileAt
  <2>2. t \in 34..37 /\ t \in Byte
    BY DEF ProfileConfiguration, Byte
  <2> DEFINE k == IF t = ProfileConfiguration.set_profile_off THEN 0 ELSE n
             h == Header(t, s, d, e)
             m == ProfileAt(t, s, d, p, e, n)
  <2>3. k \in Nat /\ k < Radix * Radix
    <3>1. n \in 0..Radix - 1
      BY <1>0
    <3>2. \A r \in Nat : r > 1 => r <= r * r
      OBVIOUS
    <3>3. n \in Nat /\ n < Radix * Radix
      BY <3>1, <3>2, Powers
    <3> QED BY <3>3, Square, Powers
  <2> HIDE DEF k
  <2>4. Uint14(k) \in Bytes /\ p \in Bytes /\ Len(p) = 5
    BY <1>0, <2>3, Numbers14
  <2>5. p \o Uint14(k) \in Bytes
    BY <2>4, Joined
  <2>6. Sent(m, h, t, p \o Uint14(k))
    BY <1>0, <2>2, <2>5, FactorySent DEF ProfileAt, k
  <2>7. h.device = e
    BY DEF Header
  <2> HIDE DEF h, m
  <2>8. Reads(m, h, [v \in {"profile_id", "profile_destination"} |->
                        IF v = "profile_id" THEN [profile |-> p]
                        ELSE [profile |-> p, params |-> <<h.device, k>>]])
    BY <2>2, <2>3, <2>4, <2>6, ProfileAtReads
  <2>9. Reads(m, h, [v \in {"profile_id", "profile_destination"} |->
                        IF v = "profile_id" THEN [profile |-> p]
                        ELSE [profile |-> p, params |-> <<e, k>>]])
    BY <2>7, <2>8
  <2> QED BY <2>1, <2>9 DEF h, m, k
<1>4. CASE MakeProfileNotification
  <2>1. PICK s, d \in Muids, e \in Devices, p \in ProfileIds,
             t \in {ProfileConfiguration.profile_added, ProfileConfiguration.profile_removed} :
          Make(ProfileNotification(t, s, d, p, e), Header(t, s, d, e),
               Only("profile_id", [profile |-> p]))
    BY <1>4 DEF MakeProfileNotification
  <2>2. t \in 38..39 /\ t \in Byte
    BY DEF ProfileConfiguration, Byte
  <2>3. Sent(ProfileNotification(t, s, d, p, e), Header(t, s, d, e), t, p)
    BY <1>0, <2>2, FactorySent DEF ProfileNotification
  <2>4. p \in Bytes /\ Len(p) = 5 /\ 0 \in 0..Radix - 1
    BY <1>0, Powers
  <2>5. Reads(ProfileNotification(t, s, d, p, e), Header(t, s, d, e),
              Only("profile_id", [profile |-> p]))
    BY <2>2, <2>3, <2>4, ProfileReads
  <2> QED BY <2>1, <2>5
<1>5. CASE MakeProfileDetailsInquiry
  <2>1. PICK s, d \in Muids, e \in Devices, p \in ProfileIds, n \in Numbers :
          Make(ProfileDetailsInquiry(s, d, p, n, e),
               Header(ProfileConfiguration.profile_details_inquiry, s, d, e),
               Only("profile_details_inquiry", [profile |-> p, target |-> n]))
    BY <1>5 DEF MakeProfileDetailsInquiry
  <2>2. ProfileConfiguration.profile_details_inquiry = 40 /\ 40 \in Byte
    BY DEF ProfileConfiguration, Byte
  <2>3. Uint7(n) \in Bytes /\ p \in Bytes
    BY <1>0, Numbers14
  <2>4. p \o Uint7(n) \in Bytes
    BY <2>3, Joined
  <2>5. Sent(ProfileDetailsInquiry(s, d, p, n, e), Header(40, s, d, e), 40, p \o Uint7(n))
    BY <1>0, <2>2, <2>4, FactorySent DEF ProfileDetailsInquiry
  <2>6. Reads(ProfileDetailsInquiry(s, d, p, n, e), Header(40, s, d, e),
              Only("profile_details_inquiry", [profile |-> p, target |-> n]))
    BY <1>0, <2>5, ProfileReads
  <2> QED BY <2>1, <2>2, <2>6
<1>6. CASE MakeProfileDetailsReply
  <2>1. PICK s, d \in Muids, e \in Devices, p \in ProfileIds, n \in Numbers, b \in Blobs :
          /\ Sized(b)
          /\ Make(ProfileDetailsReply(s, d, p, n, b, e),
                  Header(ProfileConfiguration.profile_details_reply, s, d, e),
                  Only("profile_details_reply", [profile |-> p, target |-> n, target_data |-> b]))
    BY <1>6 DEF MakeProfileDetailsReply
  <2>2. ProfileConfiguration.profile_details_reply = 41 /\ 41 \in Byte
    BY DEF ProfileConfiguration, Byte
  <2> DEFINE u == Uint7(n)
             w == Uint14(Len(b))
  <2>3. u \in Bytes /\ w \in Bytes /\ p \in Bytes /\ b \in Bytes
    BY <1>0, <2>1, Numbers14, Counted
  <2>4. p \o u \o w \o b \in Bytes
    BY <2>3, JoinedFour
  <2>5. Sent(ProfileDetailsReply(s, d, p, n, b, e), Header(41, s, d, e), 41, p \o u \o w \o b)
    BY <1>0, <2>2, <2>4, FactorySent DEF ProfileDetailsReply
  <2>6. Reads(ProfileDetailsReply(s, d, p, n, b, e), Header(41, s, d, e),
              Only("profile_details_reply", [profile |-> p, target |-> n, target_data |-> b]))
    BY <1>0, <2>1, <2>5, DetailsReplyReads
  <2> QED BY <2>1, <2>2, <2>6
<1>7. ASSUME NEW s \in Muids, NEW d \in Muids, NEW e \in Devices, NEW p \in ProfileIds,
             NEW b \in Blobs
      PROVE  Reads(SpecificData(s, d, p, b, e),
                   Header(ProfileConfiguration.profile_specific_data, s, d, e),
                   Only("profile_specific_data", [profile |-> p, data |-> b]))
  <2>1. ProfileConfiguration.profile_specific_data = 47 /\ 47 \in Byte
    BY DEF ProfileConfiguration, Byte
  <2> DEFINE w == Uint28(Len(b))
  <2>2. w \in Bytes /\ p \in Bytes /\ b \in Bytes
    BY <1>0, Numbers14, Powers
  <2>3. p \o w \o b \in Bytes
    BY <2>2, JoinedThree
  <2>4. Sent(SpecificData(s, d, p, b, e), Header(47, s, d, e), 47, p \o w \o b)
    BY <1>0, <2>1, <2>3, FactorySent DEF SpecificData
  <2> QED BY <1>0, <2>1, <2>4, SpecificDataReads
<1>8. CASE MakeSpecificData
  BY <1>7, <1>8 DEF MakeSpecificData
<1>9. CASE MakeSpecificDataOf
  <2>1. PICK s, d \in Muids, e \in Devices, p \in ProfileIds, b \in Blobs :
          Make(SpecificDataOf(s, d, p, b, e),
               Header(ProfileConfiguration.profile_specific_data, s, d, e),
               Only("profile_specific_data", [profile |-> p, data |-> b]))
    BY <1>9 DEF MakeSpecificDataOf
  <2>2. SubSeq(b, 1, Len(b) % Word) = b
    <3>1. (Len(b) % Word) = Len(b) /\ b \in Seq(Byte) /\ Len(b) \in Nat
      BY <1>0, LenProperties DEF Bytes
    <3>2. \A i \in 1..Len(b) : b[i] \in Byte
      BY <3>1, ElementOfSeq
    <3> DEFINE q == SubSeq(b, 1, Len(b))
    <3>3. /\ q \in Seq(Byte) /\ Len(q) = (IF 1 <= Len(b) THEN Len(b) - 1 + 1 ELSE 0)
          /\ \A i \in 1..Len(b) - 1 + 1 : q[i] = b[1 + i - 1]
      BY <3>1, <3>2, SubSeqProperties
    <3> HIDE DEF q
    <3>4. Len(q) = Len(b) /\ \A i \in 1..Len(b) : q[i] = b[i]
      BY <3>1, <3>3
    <3>5. q = b
      BY <3>1, <3>3, <3>4, SeqEqual
    <3> QED BY <3>1, <3>5 DEF q
  <2>3. SpecificDataOf(s, d, p, b, e) = SpecificData(s, d, p, b, e)
    BY <2>2 DEF SpecificDataOf
  <2> QED BY <1>7, <2>1, <2>3
<1> QED BY <1>1, <1>2, <1>3, <1>4, <1>5, <1>6, <1>8, <1>9 DEF MakeProfile

\* A message of property exchange, whichever factory makes it
LEMMA PropertyMade ==
  ASSUME FieldsFit, NEW t, t \in 52..57 \union {63}, NEW v, ViewsOf(t) = {v},
         NEW s \in Muids, NEW d \in Muids, NEW e \in Devices, NEW n \in Numbers,
         NEW x \in Bytes, Len(x) < Radix * Radix, NEW b \in Bytes, Len(b) < Radix * Radix,
         NEW chunks \in 0..3, NEW this \in 0..3,
         chunks # 0 => this <= chunks, x # <<>> => this <= 1, b # <<>> => this >= 1
  PROVE  Reads(PropertyData(t, s, d, x, chunks, this, b, n, e), Header(t, s, d, e),
               Only(v, PropertyFields(x, chunks, this, b, n)))
<1> DEFINE p1 == Uint7(n)
           p2 == Uint14(Len(x))
           p3 == Uint14(chunks)
           p4 == Uint14(this)
           p5 == Uint14(Len(b))
<1>1. /\ s \in 0..Broadcast /\ d \in 0..Broadcast /\ e \in Byte /\ n \in 0..Radix - 1
      /\ n \in Nat
  BY Fits
<1>2. t \in Byte
  BY DEF Byte
<1>3. (Len(x) % Word) = Len(x) /\ (Len(b) % Word) = Len(b)
  BY SizedFits
<1>4. p2 \in Bytes /\ p5 \in Bytes
  BY Counted
<1>5. p1 \in Bytes /\ p3 \in Bytes /\ p4 \in Bytes
  BY <1>1, Numbers14
<1>6. chunks < Radix * Radix /\ this < Radix * Radix
  <2>1. Radix * Radix \in Nat
    BY Powers
  <2> QED BY <2>1, Square
<1>7. p1 \o p2 \o x \o p3 \in Bytes
  BY <1>4, <1>5, JoinedFour
<1>8. p1 \o p2 \o x \o p3 \o p4 \o p5 \o b \in Bytes
  <2> DEFINE a == p1 \o p2 \o x \o p3
  <2>1. a \in Bytes
    BY <1>7
  <2> HIDE DEF a
  <2>2. a \o p4 \o p5 \o b \in Bytes
    BY <1>4, <1>5, <2>1, JoinedFour
  <2> QED BY <2>2 DEF a
<1>9. PropertyData(t, s, d, x, chunks, this, b, n, e)
        = Added(Message(t, s, d, e), p1 \o p2 \o x \o p3 \o p4 \o p5 \o b)
  BY <1>3 DEF PropertyData
<1>10. Sent(PropertyData(t, s, d, x, chunks, this, b, n, e), Header(t, s, d, e), t,
            p1 \o p2 \o x \o p3 \o p4 \o p5 \o b)
  BY <1>1, <1>2, <1>8, <1>9, FactorySent
<1>11. chunks \in Nat /\ this \in Nat
  OBVIOUS
<1> QED BY <1>1, <1>6, <1>10, <1>11, PropertyDataReads

LEMMA WithoutDataRead ==
  ASSUME FieldsFit, NEW t, t \in 52..57 \union {63}, NEW v, ViewsOf(t) = {v}, WithoutData(v, t)
  PROVE  ReadsMade
<1> DEFINE k == IF t = PropertyExchange.subscription_inquiry THEN 0 ELSE 1
<1>1. PICK s, d \in Muids, e \in Devices, n \in Numbers, h \in Blobs :
        /\ Sized(h)
        /\ Make(PropertyMessage(t, s, d, h, n, e), Header(t, s, d, e),
                Only(v, PropertyFields(h, k, k, <<>>, n)))
  BY DEF WithoutData
<1>2. k \in 0..3 /\ k <= 1
  OBVIOUS
<1>3. PropertyMessage(t, s, d, h, n, e) = PropertyData(t, s, d, h, k, k, <<>>, n, e)
  BY DEF PropertyMessage
<1>4. h \in Bytes /\ Len(h) < Radix * Radix /\ <<>> \in Bytes /\ Len(<<>>) < Radix * Radix
  BY <1>1, Arguments, SizedFits
<1> HIDE DEF k
<1>5. Reads(PropertyMessage(t, s, d, h, n, e), Header(t, s, d, e),
            Only(v, PropertyFields(h, k, k, <<>>, n)))
  <2>1. /\ k # 0 => k <= k
        /\ h # <<>> => k <= 1
        /\ <<>> # <<>> => k >= 1
    BY <1>2
  <2>2. Reads(PropertyData(t, s, d, h, k, k, <<>>, n, e), Header(t, s, d, e),
              Only(v, PropertyFields(h, k, k, <<>>, n)))
    BY <1>2, <1>4, <2>1, PropertyMade
  <2> QED BY <1>3, <2>2
<1> QED BY <1>1, <1>5 DEF ReadsMade

LEMMA WithDataRead ==
  ASSUME FieldsFit, NEW t, t \in 52..57 \union {63}, NEW v, ViewsOf(t) = {v}, WithData(v, t)
  PROVE  ReadsMade
<1>1. PICK s, d \in Muids, e \in Devices, n \in Numbers, h, b \in Blobs, chunks, this \in 0..3 :
        /\ Sized(h) /\ Sized(b)
        /\ this \in 1..chunks \/ (chunks = 0 /\ this \in 1..2)
        /\ this > 1 => h = <<>>
        /\ Make(PropertyData(t, s, d, h, chunks, this, b, n, e), Header(t, s, d, e),
                Only(v, PropertyFields(h, chunks, this, b, n)))
  BY Zenon DEF WithData
<1>2. h \in Bytes /\ Len(h) < Radix * Radix /\ b \in Bytes /\ Len(b) < Radix * Radix
  BY <1>1, Arguments, SizedFits
<1>3. (chunks # 0 => this <= chunks) /\ (h # <<>> => this <= 1) /\ this >= 1
  BY <1>1
<1>4. Reads(PropertyData(t, s, d, h, chunks, this, b, n, e), Header(t, s, d, e),
            Only(v, PropertyFields(h, chunks, this, b, n)))
  BY <1>2, <1>3, PropertyMade
<1> QED BY <1>1, <1>4 DEF ReadsMade

LEMMA PropertiesRead == FieldsFit /\ MakeProperty => ReadsMade
<1> HAVE FieldsFit /\ MakeProperty
<1>1. CASE MakeCapabilities
  <2>1. PICK s, d \in Muids, e \in Devices, n \in Numbers,
             t \in {PropertyExchange.property_exchange_capabilities_inquiry,
                    PropertyExchange.property_exchange_capabilities_reply} :
          Make(Capabilities(t, s, d, n, e), Header(t, s, d, e),
               Only("capabilities", [maximum_number_of_requests |-> n, pe_version_major |-> 0,
                                     pe_version_minor |-> 0]))
    BY <1>1 DEF MakeCapabilities
  <2>2. t \in 48..49 /\ t \in Byte
    BY DEF PropertyExchange, Byte
  <2>3. /\ s \in 0..Broadcast /\ d \in 0..Broadcast /\ e \in Byte /\ n \in Byte
    BY Fits
  <2>4. <<n, 0, 0>> \in Bytes
    BY <2>3 DEF Bytes, Byte
  <2>5. Sent(Capabilities(t, s, d, n, e), Header(t, s, d, e), t, <<n, 0, 0>>)
    BY <2>2, <2>3, <2>4, FactorySent DEF Capabilities
  <2>6. Reads(Capabilities(t, s, d, n, e), Header(t, s, d, e),
              Only("capabilities", [maximum_number_of_requests |-> n, pe_version_major |-> 0,
                                    pe_version_minor |-> 0]))
    BY <2>2, <2>5, FixedReads
  <2> QED BY <2>1, <2>6 DEF ReadsMade
<1>2. CASE MakeGetProperty
  BY <1>2, ViewsOfEach, WithDataRead, WithoutDataRead DEF MakeGetProperty, PropertyExchange
<1>3. CASE MakeSetProperty
  BY <1>3, ViewsOfEach, WithDataRead, WithoutDataRead DEF MakeSetProperty, PropertyExchange
<1>4. CASE MakeSubscription
  BY <1>4, ViewsOfEach, WithDataRead, WithoutDataRead DEF MakeSubscription, PropertyExchange
<1>5. CASE MakeNotify
  BY <1>5, ViewsOfEach, WithoutDataRead DEF MakeNotify, PropertyExchange
<1> QED BY <1>1, <1>2, <1>3, <1>4, <1>5 DEF MakeProperty

LEMMA ProcessesRead == FieldsFit /\ MakeProcess => ReadsMade
<1> HAVE FieldsFit /\ MakeProcess
<1>0. /\ \A m \in Muids : m \in 0..Broadcast
      /\ \A e \in Devices : e \in Byte
      /\ \A p \in Numbers : p \in Byte
      /\ Broadcast \in 0..Broadcast
      /\ ProcessInquiry.process_inquiry_capabilities_inquiry = 64
      /\ ProcessInquiry.process_inquiry_capabilities_reply = 65
      /\ ProcessInquiry.midi_message_report_inquiry = 66
      /\ ProcessInquiry.midi_message_report_reply = 67
      /\ ProcessInquiry.midi_message_report_end = 68
  BY Fits DEF ProcessInquiry
<1>1. \A t \in 64..68 : t \in Byte
  BY DEF Byte
<1>2. CASE MakeProcessInquiry
  <2>1. PICK s, d \in Muids, e \in Devices :
          \/ Make(Message(64, s, d, e), Header(64, s, d, e), <<>>)
          \/ Make(Message(68, s, Broadcast, e), Header(68, s, Broadcast, e), <<>>)
    BY <1>0, <1>2 DEF MakeProcessInquiry
  <2>2. /\ Sent(Message(64, s, d, e), Header(64, s, d, e), 64, <<>>)
        /\ Sent(Message(68, s, Broadcast, e), Header(68, s, Broadcast, e), 68, <<>>)
    BY <1>0, <1>1, MessageSent
  <2>3. /\ Reads(Message(64, s, d, e), Header(64, s, d, e), <<>>)
        /\ Reads(Message(68, s, Broadcast, e), Header(68, s, Broadcast, e), <<>>)
    BY <2>2, PlainReads
  <2> QED BY <2>1, <2>3 DEF ReadsMade
<1>3. CASE MakeProcessReply
  <2>1. PICK s, d \in Muids, e \in Devices, n \in Numbers :
          Make(ProcessReply(s, d, n, e), Header(65, s, d, e),
               Only("process_reply", [supported_features |-> n]))
    BY <1>0, <1>3 DEF MakeProcessReply
  <2>2. <<n>> \in Bytes
    BY <1>0 DEF Bytes
  <2>3. Sent(ProcessReply(s, d, n, e), Header(65, s, d, e), 65, <<n>>)
    BY <1>0, <1>1, <2>2, FactorySent DEF ProcessReply
  <2>4. Reads(ProcessReply(s, d, n, e), Header(65, s, d, e),
              Only("process_reply", [supported_features |-> n]))
    BY <2>3, FixedReads
  <2> QED BY <2>1, <2>4 DEF ReadsMade
<1>4. CASE MakeReportInquiry
  <2>1. PICK s, d \in Muids, e \in Devices, a, b, c \in Numbers :
          Make(ReportInquiry(s, d, a, b, c, a, e), Header(66, s, d, e),
               Only("report_inquiry",
                    [control |-> a, system |-> b, controllers |-> c, notes |-> a]))
    BY <1>0, <1>4 DEF MakeReportInquiry
  <2>2. <<a, b, 0, c, a>> \in Bytes
    BY <1>0 DEF Bytes, Byte
  <2>3. Sent(ReportInquiry(s, d, a, b, c, a, e), Header(66, s, d, e), 66, <<a, b, 0, c, a>>)
    BY <1>0, <1>1, <2>2, FactorySent DEF ReportInquiry
  <2>4. Reads(ReportInquiry(s, d, a, b, c, a, e), Header(66, s, d, e),
              Only("report_inquiry",
                   [control |-> a, system |-> b, controllers |-> c, notes |-> a]))
    BY <2>3, FixedReads
  <2> QED BY <2>1, <2>4 DEF ReadsMade
<1>5. CASE MakeReportReply
  <2>1. PICK s \in Muids, e \in Devices, a, b, c \in Numbers :
          Make(ReportReply(s, a, b, c, e), Header(67, s, Broadcast, e),
               Only("report_reply", [system |-> a, controllers |-> b, notes |-> c]))
    BY <1>0, <1>5 DEF MakeReportReply
  <2>2. <<a, 0, b, c>> \in Bytes
    BY <1>0 DEF Bytes, Byte
  <2>3. Sent(ReportReply(s, a, b, c, e), Header(67, s, Broadcast, e), 67, <<a, 0, b, c>>)
    BY <1>0, <1>1, <2>2, FactorySent DEF ReportReply
  <2>4. Reads(ReportReply(s, a, b, c, e), Header(67, s, Broadcast, e),
              Only("report_reply", [system |-> a, controllers |-> b, notes |-> c]))
    BY <2>3, FixedReads
  <2> QED BY <2>1, <2>4 DEF ReadsMade
<1> QED BY <1>2, <1>3, <1>4, <1>5 DEF MakeProcess

\* A message that a factory returned reads back.
LEMMA MadeReads ==
  FieldsFit /\ (MakeManagement \/ MakeProfile \/ MakeProperty \/ MakeProcess) => ReadsMade
BY ManagementReads, ProfilesRead, PropertiesRead, ProcessesRead

-----------------------------------------------------------------------------
(* Changes of the header. *)

\* What Changed(header) makes of the fields
FieldsWith(header, fields) ==
  [v \in DOMAIN fields |->
     CASE v = "profile_inquiry" -> header
       [] v = "profile_destination" -> [fields[v] EXCEPT !.params[1] = header.device]
       [] OTHER -> fields[v]]

LEMMA NoIdentity ==
  ASSUME NEW m, HasHeader(m), At(m, 1) = 13
  PROVE  ~ Accepts("identity_reply", m)
<1>1. TypeOf(m) = CapabilityInquiryType
  BY HeaderRead
<1>2. CapabilityInquiryType # GeneralInformation
  BY DEF CapabilityInquiryType, GeneralInformation
<1> QED BY <1>1, <1>2, AcceptsIs DEF IsIdentityReply

\* A message with another header reads as before behind it.
LEMMA HeaderChanged ==
  ASSUME NEW m, NEW h \in Headers, NEW f, Reads(m, h, f), NEW n, NEW g \in Headers,
         HasHeader(n), Size(n) = Size(m), HeaderOf(n) = g,
         \A k \in 0..Size(m) - 1 : k \in 1..3 \/ k >= Payload => At(n, k) = At(m, k)
  PROVE  Reads(n, g, FieldsWith(g, f))
<1> DEFINE c == FieldsWith(g, f)
<1>1. h # NoHeader /\ g # NoHeader
  BY HeaderIsOne
<1>2. /\ HasHeader(m) /\ At(m, 1) = 13 /\ HeaderOf(m) = h
      /\ {v \in Views : Accepts(v, m)} = DOMAIN f \union {"inquiry"}
      /\ "inquiry" \notin DOMAIN f
      /\ \A v \in DOMAIN f : Fields(v, m) = f[v]
      /\ \A v \in DOMAIN f :
           End(v, m) = Size(m) \/ (v = "profile_id" /\ "profile_destination" \in DOMAIN f)
  BY <1>1 DEF Reads
<1>3. /\ m \in Packed /\ n \in Packed /\ m.manufacturer = n.manufacturer
      /\ Size(m) \in Nat /\ Size(m) >= 12
  BY <1>2, MessageBytes
<1>4. StartOf(n, m) /\ StartOf(m, n)
  BY <1>3 DEF StartOf
<1>5. At(n, 1) = 13
  BY <1>2, <1>3 DEF Payload
<1>6. ~ Accepts("identity_reply", m) /\ ~ Accepts("identity_reply", n)
  BY <1>2, <1>5, NoIdentity
<1>7. \A v \in Views : Accepts(v, n) <=> Accepts(v, m)
  BY <1>4, <1>6, TakesAlike
<1>8. \A v \in DOMAIN f : v \in Views /\ Accepts(v, m) /\ v # "identity_reply" /\ v # "inquiry"
  BY <1>2, <1>6
<1>9. \A v \in DOMAIN f : End(v, n) = End(v, m)
  BY <1>4, <1>8, TakesAlike
<1>10. DOMAIN c = DOMAIN f
  BY DEF FieldsWith
<1>11. ASSUME NEW v \in DOMAIN f
       PROVE  Fields(v, n) = c[v]
  <2>1. CASE v = "profile_inquiry"
    BY <2>1, FieldsAre DEF FieldsWith
  <2>2. CASE v = "profile_destination"
    <3> DEFINE p == Span(m, Payload, ProfileSize)
               k == MakeUint14(m, Payload + 5)
    <3>1. f[v] = [profile |-> p, params |-> <<At(m, 0), k>>]
      BY <1>2, <2>2, FieldsAre DEF ProfileDestinationFields
    <3>2. Fields(v, n) = [profile |-> Span(n, Payload, ProfileSize),
                          params |-> <<At(n, 0), MakeUint14(n, Payload + 5)>>]
      BY <2>2, FieldsAre DEF ProfileDestinationFields
    <3>3. At(n, 0) = g.device
      BY <1>5, HeaderRead
    <3>4. ProfileDestinationValid(m)
      BY <1>8, <2>2, AcceptsIs
    <3>5. Size(m) >= 19
      BY <3>4 DEF ProfileDestinationValid, Is, Payload
    <3>6. Span(n, 12, 5) = p /\ MakeUint14(n, 17) = k
      BY <1>3, <1>4, <3>5, ReadsAlike DEF Payload, ProfileSize
    <3>7. c[v] = [f[v] EXCEPT !.params[1] = g.device]
      BY <2>2 DEF FieldsWith
    <3> HIDE DEF p, k, c
    <3>8. [f[v] EXCEPT !.params[1] = g.device] = [profile |-> p, params |-> <<g.device, k>>]
      BY <3>1
    <3> QED BY <3>2, <3>3, <3>6, <3>7, <3>8 DEF Payload, ProfileSize
  <2>3. CASE v \notin {"profile_inquiry", "profile_destination"}
    <3>1. c[v] = f[v]
      BY <2>3 DEF FieldsWith
    <3>2. Fields(v, n) = Fields(v, m)
      BY <1>4, <1>7, <1>8, <2>3, TakesAlike
    <3> QED BY <1>2, <3>1, <3>2
  <2> QED BY <2>1, <2>2, <2>3
<1> HIDE DEF c
<1>12. {v \in Views : Accepts(v, n)} = DOMAIN c \union {"inquiry"}
  BY <1>2, <1>7, <1>10
<1>13. \A v \in DOMAIN c :
         End(v, n) = Size(n) \/ (v = "profile_id" /\ "profile_destination" \in DOMAIN c)
  BY <1>2, <1>9, <1>10
<1>14. Reads(n, g, c)
  BY <1>1, <1>2, <1>5, <1>10, <1>11, <1>12, <1>13 DEF Reads
<1> QED BY <1>14 DEF c

\* The MUIDs in the header
LEMMA MuidWritten ==
  ASSUME NEW m, HasHeader(m), At(m, 1) = 13, HeaderOf(m) \in Headers,
         NEW k \in {4, 8}, NEW a \in 0..Broadcast
  PROVE  LET n == Overwritten(m, k, Uint28(a))
             h == HeaderOf(m)
         IN  /\ HasHeader(n) /\ Size(n) = Size(m)
             /\ \A i \in 0..Size(m) - 1 : i \in 1..3 \/ i >= Payload => At(n, i) = At(m, i)
             /\ HeaderOf(n) = IF k = 4 THEN [h EXCEPT !.source = a]
                              ELSE [h EXCEPT !.destination = a]
<1> DEFINE b == Uint28(a)
           n == Overwritten(m, k, b)
           h == HeaderOf(m)
<1>1. b \in Bytes /\ Len(b) = 4 /\ a \in Nat
  BY Numbers14, Powers
<1>2. Size(m) \in Nat /\ Size(m) >= 12
  BY MessageBytes
<1>3. /\ HasHeader(n) /\ Size(n) = Size(m)
      /\ \A i \in 0..Size(m) - 1 :
           At(n, i) = IF i >= k /\ i < k + 4 THEN b[i - k + 1] ELSE At(m, i)
  <2>1. k \in 0..12 /\ k + Len(b) <= 12
    BY <1>1
  <2> HIDE DEF b
  <2> QED BY <1>1, <2>1, OverwrittenBytes
<1> HIDE DEF b, n
<1>4. \A i \in 0..Size(m) - 1 : i \notin k..k + 3 => At(n, i) = At(m, i)
  BY <1>2, <1>3
<1>5. MakeUint28(n, k) = a
  <2>1. \A i \in 1..4 : n.data[k + i] = b[i]
    <3> TAKE i \in 1..4
    <3>1. k + i - 1 \in 0..Size(m) - 1 /\ k + i - 1 >= k /\ k + i - 1 < k + 4
      BY <1>2
    <3>2. At(n, k + i - 1) = b[(k + i - 1) - k + 1]
      BY <1>3, <3>1
    <3>3. (k + i - 1) - k + 1 = i /\ (k + i - 1) + 1 = k + i
      OBVIOUS
    <3> QED BY <3>2, <3>3 DEF At
  <2>2. Holds(n, k, b)
    BY <1>1, <1>2, <1>3, <2>1 DEF Holds
  <2>3. k \in Nat /\ Size(n) \in Nat
    BY <1>2, <1>3
  <2> QED BY <2>2, <2>3, ReadsUint28 DEF b
<1>6. \A i \in 0..3 : At(n, i) = At(m, i)
  BY <1>2, <1>4
<1>7. k = 4 => MakeUint28(n, 8) = MakeUint28(m, 8)
  <2> HAVE k = 4
  <2>1. \A i \in 8..11 : At(n, i) = At(m, i)
    BY <1>2, <1>4
  <2> QED BY <2>1 DEF MakeUint28, MakeUint14
<1>8. k = 8 => MakeUint28(n, 4) = MakeUint28(m, 4)
  <2> HAVE k = 8
  <2>1. \A i \in 4..7 : At(n, i) = At(m, i)
    BY <1>2, <1>4
  <2> QED BY <2>1 DEF MakeUint28, MakeUint14
<1>9. /\ SubtypeOf(n) = At(n, 2) /\ SubtypeOf(m) = At(m, 2)
  BY <1>3, <1>6, HeaderRead
<1>10. HeaderOf(n) = IF k = 4 THEN [h EXCEPT !.source = a] ELSE [h EXCEPT !.destination = a]
  <2>1. CASE k = 4
    BY <1>5, <1>6, <1>7, <1>9, <2>1 DEF HeaderOf
  <2>2. CASE k = 8
    BY <1>5, <1>6, <1>8, <1>9, <2>2 DEF HeaderOf
  <2> QED BY <2>1, <2>2
<1>11. \A i \in 0..Size(m) - 1 : i \in 1..3 \/ i >= Payload => At(n, i) = At(m, i)
  BY <1>2, <1>4 DEF Payload
<1> QED BY <1>3, <1>10, <1>11 DEF n, b

\* and the device ID
LEMMA DeviceWritten ==
  ASSUME NEW m, HasHeader(m), At(m, 1) = 13, HeaderOf(m) \in Headers, NEW d \in Byte
  PROVE  LET n == WithDeviceId(m, d)
         IN  /\ HasHeader(n) /\ Size(n) = Size(m)
             /\ \A i \in 0..Size(m) - 1 : i \in 1..3 \/ i >= Payload => At(n, i) = At(m, i)
             /\ HeaderOf(n) = [HeaderOf(m) EXCEPT !.device = d]
<1> DEFINE n == WithDeviceId(m, d)
           x == [m.data EXCEPT ![1] = d]
<1>1. /\ m \in Packed /\ m.manufacturer = NonRealtime
      /\ m.data \in Bytes /\ Size(m) = Len(m.data) /\ Size(m) \in Nat /\ Size(m) >= 12
  BY MessageBytes
<1>2. /\ x \in Bytes /\ Len(x) = Len(m.data)
      /\ \A i \in 1..Len(m.data) : x[i] = IF i = 1 THEN d ELSE m.data[i]
  BY <1>1, ExceptSeq DEF Bytes
<1>3. n = [m EXCEPT !.data = x]
  BY <1>1 DEF WithDeviceId, Packed
<1> HIDE DEF x, n
<1>4. n \in Packed /\ n.manufacturer = NonRealtime /\ n.data = x
  BY <1>1, <1>2, <1>3 DEF Packed
<1>5. HasHeader(n) /\ Size(n) = Size(m)
  BY <1>1, <1>2, <1>4 DEF HasHeader, Formed, Size, Payload
<1>6. At(n, 0) = d /\ \A i \in 1..Size(m) - 1 : At(n, i) = At(m, i)
  BY <1>1, <1>2, <1>4 DEF At
<1>7. \A i \in 1..11 : At(n, i) = At(m, i)
  BY <1>1, <1>6
<1>8. MakeUint28(n, 4) = MakeUint28(m, 4) /\ MakeUint28(n, 8) = MakeUint28(m, 8)
  BY <1>7 DEF MakeUint28, MakeUint14
<1>9. SubtypeOf(n) = SubtypeOf(m) /\ At(n, 3) = At(m, 3)
  BY <1>5, <1>7, HeaderRead
<1>10. HeaderOf(n) = [HeaderOf(m) EXCEPT !.device = d]
  BY <1>6, <1>8, <1>9 DEF HeaderOf
<1>11. \A i \in 0..Size(m) - 1 : i \in 1..3 \/ i >= Payload => At(n, i) = At(m, i)
  BY <1>1, <1>6 DEF Payload
<1> QED BY <1>5, <1>10, <1>11 DEF n

-----------------------------------------------------------------------------
(* Messages that are cut. *)

\* No view takes a message that is shorter than the header of MIDI-CI.
LEMMA AtLeastHeader ==
  ASSUME NEW m \in Packed, NEW v \in Views, Accepts(v, m)
  PROVE  Size(m) >= 12
<1>1. Size(m) \in Nat
  BY LenProperties DEF Packed, Bytes, Size
<1>2. CASE v = "identity_reply"
  BY <1>1, <1>2, AcceptedIf DEF IsIdentityReply
<1>3. CASE v \in {"inquiry", "profile_inquiry", "invalidate_muid"}
  BY <1>1, <1>3, AcceptedIf
     DEF InquiryValid, ProfileInquiryValid, InvalidateMuidValid, Payload
<1>4. \A n, s : Is(m, n, s) => Size(m) >= n
  BY DEF Is
<1>5. CASE v \in {"discovery_inquiry", "discovery_reply", "endpoint_inquiry", "endpoint_reply",
                  "ack", "nak", "profile_inquiry_reply", "profile_id"}
  BY <1>1, <1>4, <1>5, AcceptedIf
     DEF DiscoveryInquiryValid, DiscoveryReplyValid, EndpointInquiryValid, EndpointReplyValid,
         AckValid, NakValid, ProfileInquiryReplyValid, ProfileIdValid, Payload
<1>6. CASE v \in {"profile_destination", "profile_details_inquiry", "profile_details_reply",
                  "profile_specific_data", "capabilities", "process_reply", "report_inquiry",
                  "report_reply"}
  BY <1>1, <1>4, <1>6, AcceptedIf
     DEF ProfileDestinationValid, ProfileDetailsInquiryValid, ProfileDetailsReplyValid,
         SpecificDataValid, CapabilitiesValid, ProcessReplyValid, ReportInquiryValid,
         ReportReplyValid, Payload
<1>7. CASE v \in {"get_property", "set_property", "subscription", "notify"}
  <2>1. PropertyDataValid(m)
    BY <1>7, AcceptedIf DEF GetPropertyValid, SetPropertyValid, SubscriptionValid, NotifyValid
  <2> QED BY <1>1, <1>4, <2>1 DEF PropertyDataValid, Payload
<1> QED BY <1>2, <1>3, <1>5, <1>6, <1>7 DEF Views

\* The first n bytes of a message
LEMMA CutStart ==
  ASSUME NEW m \in Packed, NEW n \in 0..Size(m) - 1, NEW c,
         c = [m EXCEPT !.data = SubSeq(m.data, 1, n)]
  PROVE  /\ c \in Packed /\ c.manufacturer = m.manufacturer /\ Size(c) = n
         /\ \A k \in 0..n - 1 : At(c, k) = At(m, k)
         /\ StartOf(c, m)
<1> DEFINE x == SubSeq(m.data, 1, n)
<1>1. /\ m.data \in Bytes /\ Size(m) = Len(m.data) /\ Len(m.data) \in Nat
      /\ \A i \in 1..Len(m.data) : m.data[i] \in Byte
  BY LenProperties, ElementOfSeq DEF Packed, Bytes, Size
<1>2. n \in Nat /\ n < Len(m.data) /\ \A i \in 1..n : m.data[i] \in Byte
  BY <1>1
<1>3. /\ x \in Bytes /\ Len(x) = n /\ \A i \in 1..n : x[i] = m.data[i]
  <2>1. /\ x \in Seq(Byte) /\ Len(x) = (IF 1 <= n THEN n - 1 + 1 ELSE 0)
        /\ \A i \in 1..n - 1 + 1 : x[i] = m.data[1 + i - 1]
    BY <1>2, SubSeqProperties
  <2> HIDE DEF x
  <2> QED BY <1>2, <2>1 DEF Bytes
<1> HIDE DEF x
<1>4. c \in Packed /\ c.manufacturer = m.manufacturer /\ c.data = x
  BY <1>3 DEF Packed, x
<1>5. Size(c) = n /\ \A k \in 0..n - 1 : At(c, k) = At(m, k)
  BY <1>2, <1>3, <1>4 DEF Size, At
<1>6. StartOf(c, m)
  <2>1. Size(c) <= Size(m)
    BY <1>1, <1>2, <1>5
  <2>2. \A k \in 0..Size(c) - 1 : At(c, k) = At(m, k)
    BY <1>5
  <2> QED BY <1>4, <2>1, <2>2 DEF StartOf
<1> QED BY <1>4, <1>5, <1>6

LEMMA CutRead ==
  ASSUME NEW m, NEW h, NEW f, Reads(m, h, f), m \in Packed, NEW n \in 0..Size(m) - 1, NEW c,
         c = [m EXCEPT !.data = SubSeq(m.data, 1, n)], NEW v \in Views, Accepts(v, c)
  PROVE  v = "inquiry" \/ (v = "profile_id" /\ "profile_destination" \in DOMAIN f)
<1>1. /\ c \in Packed /\ c.manufacturer = m.manufacturer /\ Size(c) = n
      /\ \A k \in 0..n - 1 : At(c, k) = At(m, k)
      /\ StartOf(c, m)
  BY CutStart
<1>2. Size(m) \in Nat /\ n \in Nat /\ n < Size(m) /\ n >= 12
  <2>1. Size(m) \in Nat
    BY LenProperties DEF Packed, Bytes, Size
  <2>2. Size(c) >= 12
    BY <1>1, AtLeastHeader
  <2> QED BY <1>1, <2>1, <2>2
<1>10. At(c, 1) = At(m, 1) /\ At(c, 3) = At(m, 3)
  <2>1. 1 \in 0..n - 1 /\ 3 \in 0..n - 1
    BY <1>2
  <2> QED BY <1>1, <2>1
<1>3. /\ {w \in Views : Accepts(w, m)}
           = DOMAIN f \union (IF h # NoHeader THEN {"inquiry"} ELSE {})
      /\ \A w \in DOMAIN f :
           End(w, m) = Size(m) \/ (w = "profile_id" /\ "profile_destination" \in DOMAIN f)
  BY DEF Reads
<1>4. CASE h # NoHeader
  <2>1. HasHeader(m) /\ At(m, 1) = 13
    BY <1>4 DEF Reads
  <2>2. v # "identity_reply"
    <3> SUFFICES ASSUME TypeOf(c) = GeneralInformation PROVE FALSE
      BY AcceptedIf DEF IsIdentityReply
    <3>1. At(c, 1) = 13
      BY <1>10, <2>1
    <3>2. TypeOf(c) = <<c.manufacturer, 13>> \/ TypeOf(c) = <<>>
      BY <3>1 DEF TypeOf, NoType
    <3>3. TypeOf(c) = <<NonRealtime, 6>>
      BY DEF GeneralInformation
    <3> QED BY <3>2, <3>3
  <2>3. Accepts(v, m) /\ End(v, m) = End(v, c)
    BY <1>1, <2>2, TakesAlike
  <2>4. End(v, c) <= n
    BY <1>1, Inside
  <2>5. v \in DOMAIN f \/ v = "inquiry"
    BY <1>3, <2>3
  <2>6. End(v, m) # Size(m)
    BY <1>2, <2>3, <2>4
  <2> QED BY <1>3, <2>5, <2>6
<1>5. CASE h = NoHeader
  <2>1. /\ Formed(m) /\ DOMAIN f \subseteq {"identity_reply"}
        /\ DOMAIN f = {} => Size(m) = 3
    BY <1>5 DEF Reads
  <2>2. DOMAIN f = {"identity_reply"}
    <3>1. Size(m) # 3
      BY <1>2
    <3>2. DOMAIN f # {}
      BY <2>1, <3>1
    <3> QED BY <2>1, <3>2
  <2>3. Accepts("identity_reply", m) /\ End("identity_reply", m) = Size(m)
    BY <1>3, <2>2
  <2>4. IsIdentityReply(m) /\ Size(m) = IF At(m, 3) # 0 THEN 12 ELSE 14
    BY <2>3, AcceptedIf, ReadUpTo
  <2>5. Size(m) = 14 /\ At(m, 3) = 0
    BY <1>2, <2>4
  <2>6. At(m, 1) = 6
    BY <2>4 DEF IsIdentityReply, TypeOf, GeneralInformation, NoType
  <2>7. At(c, 1) = 6 /\ At(c, 3) = 0
    BY <1>10, <2>5, <2>6
  <2>8. IsIdentityReply(c)
    BY <2>7, OnlyIdentity
  <2>9. FALSE
    BY <1>1, <1>2, <2>5, <2>7, <2>8 DEF IsIdentityReply
  <2> QED BY <2>9
<1> QED BY <1>4, <1>5

-----------------------------------------------------------------------------
(* All steps. *)

\* A message that nobody damaged reads back, and one that is cut is noticed.
RInv ==
  /\ IInv
  /\ Whole => Reads(sx, made.header, made.fields)
  /\ CutIsNoticed

LEMMA ReadsInitially == FieldsFit /\ Init => RInv
<1> HAVE FieldsFit /\ Init
<1>1. sx = NoMessage /\ damage = "none"
  BY DEF Init
<1> QED BY <1>1, Initially DEF RInv, Whole, CutIsNoticed

\* What is known of a message that may be changed or answered
LEMMA HeaderKnown ==
  ASSUME RInv, Whole, IsInquiry
  PROVE  /\ Reads(sx, made.header, made.fields) /\ made.header \in Headers
         /\ HasHeader(sx) /\ At(sx, 1) = 13 /\ HeaderOf(sx) = made.header
         /\ damage = "none"
BY DEF RInv, IsInquiry, Reads, Whole

\* A step after which there is a message that reads
LEMMA ReadsNext ==
  ASSUME NEW h, NEW f, IInv', Reads(sx', h, f), made' = [header |-> h, fields |-> f],
         damage' = "none"
  PROVE  RInv'
BY DEF RInv, CutIsNoticed

LEMMA HeaderStep ==
  ASSUME RInv, IInv', Whole, IsInquiry, UNCHANGED damage, NEW g \in Headers,
         made' = Changed(g), HasHeader(sx'), Size(sx') = Size(sx), HeaderOf(sx') = g,
         \A k \in 0..Size(sx) - 1 : k \in 1..3 \/ k >= Payload => At(sx', k) = At(sx, k)
  PROVE  RInv'
<1>1. /\ Reads(sx, made.header, made.fields) /\ made.header \in Headers /\ damage' = "none"
  BY HeaderKnown
<1> DEFINE f == FieldsWith(g, made.fields)
<1>2. made' = [header |-> g, fields |-> f]
  BY DEF Changed, FieldsWith
<1>3. Reads(sx', g, f)
  BY <1>1, HeaderChanged
<1> HIDE DEF f
<1> QED BY <1>1, <1>2, <1>3, ReadsNext

LEMMA ReadsPreserved == FieldsFit /\ RInv /\ [Next]_vars => RInv'
<1> SUFFICES ASSUME FieldsFit, RInv, [Next]_vars PROVE RInv'
  OBVIOUS
<1>0. IInv /\ IInv'
  BY Preserved DEF RInv
<1>1. CASE MakeManagement \/ MakeProfile \/ MakeProperty \/ MakeProcess
  <2>1. PICK m, header, fields : Make(m, header, fields) /\ Reads(m, header, fields)
    BY <1>1, MadeReads DEF ReadsMade
  <2>2. /\ sx' = m /\ made' = [header |-> header, fields |-> fields]
        /\ sx = NoMessage /\ damage' = damage
    BY <2>1 DEF Make
  <2>3. damage' = "none"
    BY <1>0, <2>2 DEF IInv, TypeOK
  <2> QED BY <1>0, <2>1, <2>2, <2>3, ReadsNext
<1>2. ASSUME NEW a \in NewMuids, SetSourceMuid(a)
      PROVE  RInv'
  <2>1. /\ Whole /\ IsInquiry /\ UNCHANGED damage /\ sx' = Overwritten(sx, 4, Uint28(a))
        /\ made' = Changed([made.header EXCEPT !.source = a])
    BY <1>2 DEF SetSourceMuid, WithSourceMuid
  <2>2. /\ made.header \in Headers /\ HasHeader(sx) /\ At(sx, 1) = 13
        /\ HeaderOf(sx) = made.header
    BY <2>1, HeaderKnown
  <2>3. a \in 0..Broadcast
    BY Fits
  <2>4. [made.header EXCEPT !.source = a] \in Headers
    BY <2>2, <2>3 DEF Headers
  <2>5. /\ HasHeader(sx') /\ Size(sx') = Size(sx)
        /\ HeaderOf(sx') = [made.header EXCEPT !.source = a]
        /\ \A i \in 0..Size(sx) - 1 : i \in 1..3 \/ i >= Payload => At(sx', i) = At(sx, i)
    BY <2>1, <2>2, <2>3, MuidWritten
  <2> QED BY <1>0, <2>1, <2>4, <2>5, HeaderStep
<1>3. ASSUME NEW a \in NewMuids, SetDestinationMuid(a)
      PROVE  RInv'
  <2>1. /\ Whole /\ IsInquiry /\ UNCHANGED damage /\ sx' = Overwritten(sx, 8, Uint28(a))
        /\ made' = Changed([made.header EXCEPT !.destination = a])
    BY <1>3 DEF SetDestinationMuid, WithDestinationMuid
  <2>2. /\ made.header \in Headers /\ HasHeader(sx) /\ At(sx, 1) = 13
        /\ HeaderOf(sx) = made.header
    BY <2>1, HeaderKnown
  <2>3. a \in 0..Broadcast
    BY Fits
  <2>4. [made.header EXCEPT !.destination = a] \in Headers
    BY <2>2, <2>3 DEF Headers
  <2>5. /\ HasHeader(sx') /\ Size(sx') = Size(sx)
        /\ HeaderOf(sx') = [made.header EXCEPT !.destination = a]
        /\ \A i \in 0..Size(sx) - 1 : i \in 1..3 \/ i >= Payload => At(sx', i) = At(sx, i)
    BY <2>1, <2>2, <2>3, MuidWritten
  <2> QED BY <1>0, <2>1, <2>4, <2>5, HeaderStep
<1>4. ASSUME NEW d \in NewDevices, SetDeviceId(d)
      PROVE  RInv'
  <2>1. /\ Whole /\ IsInquiry /\ UNCHANGED damage /\ sx' = WithDeviceId(sx, d)
        /\ made' = Changed([made.header EXCEPT !.device = d])
    BY <1>4 DEF SetDeviceId
  <2>2. /\ made.header \in Headers /\ HasHeader(sx) /\ At(sx, 1) = 13
        /\ HeaderOf(sx) = made.header
    BY <2>1, HeaderKnown
  <2>3. d \in Byte
    BY Fits
  <2>4. [made.header EXCEPT !.device = d] \in Headers
    BY <2>2, <2>3 DEF Headers
  <2>5. /\ HasHeader(sx') /\ Size(sx') = Size(sx)
        /\ HeaderOf(sx') = [made.header EXCEPT !.device = d]
        /\ \A i \in 0..Size(sx) - 1 : i \in 1..3 \/ i >= Payload => At(sx', i) = At(sx, i)
    BY <2>1, <2>2, <2>3, DeviceWritten
  <2> QED BY <1>0, <2>1, <2>4, <2>5, HeaderStep
<1>5. ASSUME Whole, IsInquiry
      PROVE  /\ damage = "none" /\ made.header \in Headers
             /\ MakeUint28(sx, 4) = made.header.source
             /\ MakeUint28(sx, 8) = made.header.destination
             /\ At(sx, 0) = made.header.device /\ SubtypeOf(sx) = made.header.subtype
             /\ made.header.source \in 0..Broadcast /\ made.header.destination \in 0..Broadcast
             /\ made.header.device \in Byte /\ made.header.subtype \in Byte
  <2>1. /\ made.header \in Headers /\ damage = "none" /\ HeaderOf(sx) = made.header
    BY <1>5, HeaderKnown
  <2> QED BY <2>1 DEF HeaderOf, Headers
<1>6. ASSUME NEW c \in Numbers, NEW x \in Details, NEW b \in Blobs, Answer(c, x, b)
      PROVE  RInv'
  <2>1. /\ Whole /\ IsInquiry /\ Sized(b) /\ UNCHANGED damage
        /\ sx' = NakFor(sx, c, c, x, b)
        /\ made' = [header |-> Header(Management.nak, made.header.destination,
                                      made.header.source, made.header.device),
                    fields |-> Only("nak", [transaction |-> made.header.subtype,
                                 status_code |-> c, status_data |-> c, details |-> x,
                                 message |-> b])]
    BY <1>6 DEF Answer
  <2>2. c \in Byte /\ Management["nak"] = Management.nak
    BY Fits
  <2>3. sx' = Acknowledgement(Management["nak"], made.header.destination, made.header.source,
                              made.header.device, made.header.subtype, c, c, x, b)
    BY <1>5, <2>1 DEF NakFor
  <2>4. Reads(sx', Header(Management["nak"], made.header.destination, made.header.source,
                          made.header.device),
              Only("nak", [transaction |-> made.header.subtype, status_code |-> c,
                           status_data |-> c, details |-> x, message |-> b]))
    BY <1>5, <2>1, <2>2, <2>3, AnswersRead
  <2>5. damage' = "none"
    BY <1>5, <2>1
  <2> QED BY <1>0, <2>1, <2>4, <2>5, ReadsNext
<1>7. CASE AnswerV1
  <2>1. /\ Whole /\ IsInquiry /\ UNCHANGED damage
        /\ sx' = NakV1(MakeUint28(sx, 8), MakeUint28(sx, 4), At(sx, 0))
        /\ made' = [header |-> OfVersion1(Header(Management.nak, made.header.destination,
                                                 made.header.source, made.header.device)),
                    fields |-> <<>>]
    BY <1>7 DEF AnswerV1
  <2>2. Reads(sx', OfVersion1(Header(Management.nak, made.header.destination,
                                     made.header.source, made.header.device)), <<>>)
    BY <1>5, <2>1, NakV1Reads
  <2>3. damage' = "none"
    BY <1>5, <2>1
  <2> QED BY <1>0, <2>1, <2>2, <2>3, ReadsNext
<1>8. ASSUME NEW n \in 0..Size(sx), Cut(n)
      PROVE  RInv'
  <2>1. /\ Whole /\ n < Size(sx) /\ sx' = [sx EXCEPT !.data = SubSeq(sx.data, 1, n)]
        /\ damage' = "cut" /\ made' = made
    BY <1>8 DEF Cut
  <2>2. Reads(sx, made.header, made.fields) /\ sx \in Packed
    BY <2>1 DEF RInv, IInv, TypeOK, Packed, Bytes
  <2>3. n \in 0..Size(sx) - 1
    <3>1. Size(sx) \in Nat
      BY <2>2, LenProperties DEF Packed, Bytes, Size
    <3> QED BY <2>1, <3>1
  <2>4. \A v \in Accepted' :
          v = "inquiry" \/ (v = "profile_id" /\ "profile_destination" \in DOMAIN made.fields)
    <3> TAKE v \in Accepted'
    <3>1. v \in Views /\ Accepts(v, sx')
      BY DEF Accepted
    <3> QED BY <2>1, <2>2, <2>3, <3>1, CutRead
  <2>5. CutIsNoticed'
    BY <2>1, <2>4 DEF CutIsNoticed
  <2>6. ~ Whole'
    BY <2>1 DEF Whole
  <2> QED BY <1>0, <2>5, <2>6 DEF RInv
<1>9. ASSUME NEW k \in 0..Size(sx) - 1, NEW b \in Damages, Alter(k, b)
      PROVE  RInv'
  <2>1. damage' = "altered"
    BY <1>9 DEF Alter
  <2> QED BY <1>0, <2>1 DEF RInv, Whole, CutIsNoticed
<1>10. CASE Drop
  <2>1. sx' = NoMessage /\ damage' = "none"
    BY <1>10 DEF Drop
  <2> QED BY <1>0, <2>1 DEF RInv, Whole, CutIsNoticed
<1>11. CASE UNCHANGED vars
  <2>1. sx' = sx /\ made' = made /\ damage' = damage
    BY <1>11 DEF vars
  <2> QED BY <1>0, <2>1 DEF RInv, Whole, CutIsNoticed, Accepted
<1> QED BY <1>1, <1>2, <1>3, <1>4, <1>6, <1>7, <1>8, <1>9, <1>10, <1>11 DEF Next

\* A message that nobody damaged reads as it was made, with all of its bytes, and a
\* message that is cut is noticed.  The first is why the second holds: a view that
\* takes the start of a message takes the message and ends where it ends.
THEOREM ReadInvariance ==
  ASSUME FieldsFit
  PROVE  Spec => []RInv
<1>1. Init => RInv
  BY ReadsInitially
<1>2. RInv /\ [Next]_vars => RInv'
  BY ReadsPreserved
<1> QED BY <1>1, <1>2, PTL DEF Spec

\* What a factory was given is what exactly the views of its kind of message return,
\* whatever the sizes of its parts, after set_source_muid, set_destination_muid and
\* set_device_id and in the answers of make_nak_message.
THEOREM MadeIsRead ==
  ASSUME FieldsFit
  PROVE  Spec => []ReadBack
<1>1. RInv => ReadBack
  BY DEF RInv, ReadBack, Reads, Accepted, IsInquiry
<1> QED BY <1>1, ReadInvariance, PTL

\* No view takes a message that arrived cut, except those that any start of a message
\* of MIDI-CI and the profile of a destination pass: validate() compares the sizes.
THEOREM CutNoticed ==
  ASSUME FieldsFit
  PROVE  Spec => []CutIsNoticed
<1>1. RInv => CutIsNoticed
  BY DEF RInv
<1> QED BY <1>1, ReadInvariance, PTL

=============================================================================
