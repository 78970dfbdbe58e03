---------------------- MODULE ByteStreamParser_proofs ----------------------
(***************************************************************************)
(* Proofs about ByteStreamParser, for every set of bytes and groups, every *)
(* packet size and whatever the callbacks do of what Reactions allows:     *)
(* types, the position of the next byte, and that every callback is the    *)
(* one the stream calls for.                                               *)
(***************************************************************************)
EXTENDS ByteStreamParser, SequenceTheorems, TLAPS

\* The status of a packet fits its kind; a packet of no kind is universal_packet{}.
KindStatus(s) ==
  /\ s.packet.kind = "none" => s.packet.status = 0
  /\ s.packet.kind = "voice" => IsVoice(s.packet.status)
  /\ s.packet.kind = "system" => s.packet.status \in {241, 242, 243}
  /\ s.packet.kind = "data" => s.packet.status \in {Start, Continue}

Sound(s) == s \in ParserStates /\ KindStatus(s) /\ Positioned(s)

\* TypeOK and WritePosition with the status each kind of packet has: without it
\* the branch of feed() that a data byte takes is not determined.
IInv == TypeOK /\ Sound(st)

Sysexes == [manufacturer : Seq(0..127), data : Seq(0..127)]
Calls   == {Silence} \union Packets \union
             [kind : {"sysex"}, manufacturer : Seq(0..127), data : Seq(0..127)]
Hearings == [status : 0..255, group : Groups, data : Seq(0..127), enabled : BOOLEAN]

-----------------------------------------------------------------------------
(* Types of the values feed() builds. *)

\* A new packet is a packet.
LEMMA PacketType ==
  ASSUME NEW kind \in {"none", "system", "voice", "data"}, NEW grp \in Groups,
         NEW status \in 0..255
  PROVE  /\ Packet(kind, grp, status) \in Packets
         /\ Packet(kind, grp, status).kind = kind
         /\ Packet(kind, grp, status).status = status
<1>1. 0 \in 0..PayloadSize
  BY ParserAssumption DEF ParserAssumption, PayloadSize
<1> QED BY <1>1 DEF Packet, Packets

\* The state after reset() is sound.
LEMMA FreshSound ==
  ASSUME NEW packetByte \in {0, 1}
  PROVE  Sound(Fresh(packetByte))
<1>1. NoPacket \in Packets /\ NoPacket.kind = "none" /\ NoPacket.status = 0
  BY PacketType, ParserAssumption DEF NoPacket, ParserAssumption
<1>2. NoSysex \in Sysexes
  BY EmptySeq DEF NoSysex, Sysexes
<1> QED
  BY <1>1, <1>2, ParserAssumption
     DEF Fresh, Sound, ParserStates, Sysexes, KindStatus, Positioned, ParserAssumption

\* The record of what was heard keeps its type.
LEMMA HeardType ==
  ASSUME IInv, NEW b \in Bytes
  PROVE  Heard(b) \in Hearings /\ Nothing \in Hearings
<1>1. heard \in Hearings /\ group \in Groups /\ invoke \in BOOLEAN /\ b \in 0..255
  BY ParserAssumption DEF IInv, TypeOK, Hearings, ParserAssumption
<1>2. IsData(b) => Append(heard.data, b) \in Seq(0..127)
  <2> SUFFICES ASSUME IsData(b) PROVE Append(heard.data, b) \in Seq(0..127)
    OBVIOUS
  <2>1. b \in 0..127 /\ heard.data \in Seq(0..127)
    BY <1>1 DEF IsData, Hearings
  <2> QED BY <2>1, AppendProperties
<1>3. Nothing \in Hearings
  BY EmptySeq, ParserAssumption DEF Nothing, Hearings, ParserAssumption
<1>4. <<>> \in Seq(0..127)
  BY EmptySeq
<1> QED BY <1>1, <1>2, <1>3, <1>4 DEF Heard, Hearings

\* Dropping the packet of a sound state, and its SysEx, keeps it sound.
LEMMA DropSound ==
  ASSUME NEW s \in ParserStates
  PROVE  Sound(DropPacket(s))
<1>1. NoPacket \in Packets /\ NoPacket.kind = "none" /\ NoPacket.status = 0
  BY PacketType, ParserAssumption DEF NoPacket, ParserAssumption
<1> QED BY <1>1 DEF DropPacket, Sound, ParserStates, KindStatus, Positioned

\* The two ways a byte ends: with and without a callback.
LEMMA QuietlySound ==
  ASSUME IInv, NEW b \in Bytes, NEW s, Sound(s), Quietly(b, s)
  PROVE  Sound(st') /\ out' \in Calls /\ heard' \in Hearings
BY HeardType DEF Quietly, Calls

-----------------------------------------------------------------------------
(* Every byte keeps the state sound. *)

Keeps == Sound(st') /\ out' \in Calls /\ heard' \in Hearings

\* What the invariant gives every step.
LEMMA Context ==
  ASSUME IInv, NEW b \in Bytes
  PROVE  /\ b \in 0..255 /\ group \in Groups /\ st \in ParserStates
         /\ st.packet \in Packets /\ st.sysex \in Sysexes /\ Sound(st)
         /\ PacketEnd \in Nat /\ PacketEnd >= 4
BY ParserAssumption DEF IInv, TypeOK, ParserStates, Sysexes, ParserAssumption

\* A packet with another status and size.
Resized(pk, status, size) == [pk EXCEPT !.status = status, !.size = size]

LEMMA ResizedPacket ==
  \A pk \in Packets : \A status \in 0..255 : \A size \in 0..PayloadSize :
    /\ Resized(pk, status, size) \in Packets
    /\ Resized(pk, status, size).kind = pk.kind
    /\ Resized(pk, status, size).group = pk.group
    /\ Resized(pk, status, size).status = status
    /\ Resized(pk, status, size).size = size
    /\ Resized(pk, status, size).body = pk.body
<1> TAKE pk \in Packets
<1> TAKE status \in 0..255
<1> TAKE size \in 0..PayloadSize
<1>1. Resized(pk, status, size).kind = pk.kind /\ Resized(pk, status, size).group = pk.group
  BY DEF Packets, Resized
<1>2. Resized(pk, status, size).status = status /\ Resized(pk, status, size).size = size
  BY DEF Packets, Resized
<1>3. Resized(pk, status, size).body = pk.body
  BY DEF Packets, Resized
<1>4. Resized(pk, status, size) \in Packets
  BY DEF Packets, Resized
<1> QED BY <1>1, <1>2, <1>3, <1>4

LEMMA ResizedKeeps ==
  /\ \A pk \in Packets : \A status \in 0..255 : \A size \in 0..PayloadSize :
       Resized(pk, status, size).kind = pk.kind /\ Resized(pk, status, size).group = pk.group
  /\ \A pk \in Packets : \A status \in 0..255 : \A size \in 0..PayloadSize :
       Resized(pk, status, size).body = pk.body
BY DEF Packets, Resized

\* A state with another packet, position and countdown.
LEMMA UpdateType ==
  \A s \in ParserStates : \A pk \in Packets : \A pos \in Nat : \A n \in 0..2 :
    [s EXCEPT !.packet = pk, !.packetByte = pos, !.missing = n] \in ParserStates
BY DEF ParserStates

LEMMA UpdateFields ==
  ASSUME NEW s \in ParserStates, NEW pk, NEW pos, NEW n
  PROVE  LET t == [s EXCEPT !.packet = pk, !.packetByte = pos, !.missing = n]
         IN  t.packet = pk /\ t.packetByte = pos /\ t.missing = n
BY DEF ParserStates

LEMMA RealtimeKeeps ==
  ASSUME IInv, NEW b \in Bytes, Realtime(b)
  PROVE  Keeps
<1>1. CASE b \in {249, 253}
  BY <1>1, QuietlySound, Context DEF Realtime, Keeps
<1>2. CASE b \notin {249, 253}
  <2>1. Packet("system", group, b) \in Calls
    BY Context, PacketType DEF Calls
  <2>2. Sound(st) /\ Sound(Fresh(1))
    BY Context, FreshSound
  <2>3. Post(b, Packet("system", group, b), st, Same)
    BY <1>2 DEF Realtime
  <2> QED BY <2>1, <2>2, <2>3, QuietlySound, HeardType DEF Post, Same, Keeps
<1> QED BY <1>1, <1>2

LEMMA SysexStartKeeps ==
  ASSUME IInv, NEW b \in Bytes, SysexStart(b)
  PROVE  Keeps
<1> DEFINE s == [packet     |-> Packet("data", group, Start),
                 packetByte |-> IF bySysex /\ ~invoke THEN 0 ELSE 2,
                 missing    |-> 0,
                 sysex      |-> IF bySysex THEN NoSysex ELSE st.sysex]
<1>1. /\ Packet("data", group, Start) \in Packets
      /\ Packet("data", group, Start).kind = "data"
      /\ Packet("data", group, Start).status = Start
  BY Context, PacketType DEF Start
<1>2. NoSysex \in Sysexes
  BY EmptySeq DEF NoSysex, Sysexes
<1>3. Sound(s)
  BY <1>1, <1>2, Context DEF Sound, ParserStates, Sysexes, KindStatus, Positioned, Payload
<1> QED BY <1>3, QuietlySound DEF SysexStart, Keeps

LEMMA SystemCommonKeeps ==
  ASSUME IInv, NEW b \in Bytes, SystemCommon(b)
  PROVE  Keeps
<1> DEFINE pk == Packet("system", group, b)
           opened == [st EXCEPT !.packet = pk, !.packetByte = 2, !.missing = 0]
<1>0. b \in 0..255 /\ group \in Groups /\ st \in ParserStates
  BY Context
<1>1. pk \in Packets /\ pk.kind = "system" /\ pk.status = b
  BY <1>0, PacketType DEF Packet
<1> HIDE DEF pk
<1>2. opened \in ParserStates /\ opened.packet = pk
  <2>1. 2 \in Nat /\ 0 \in 0..2
    OBVIOUS
  <2>2. opened \in ParserStates
    BY <1>0, <1>1, <2>1, UpdateType, Zenon
  <2> QED BY <1>0, <2>2 DEF ParserStates
<1>3. Fresh(1) \in ParserStates
  BY FreshSound DEF Sound
<1>4. Sound(DropPacket(opened)) /\ Sound(DropPacket(Fresh(1)))
  BY <1>2, <1>3, DropSound
<1>5. CASE b \notin DOMAIN CommonLength /\ b # 246
  <2>1. Quietly(b, DropPacket(opened))
    BY <1>5 DEF SystemCommon, pk
  <2> HIDE DEF opened
  <2> QED BY <1>4, <2>1, QuietlySound DEF Keeps
<1>6. CASE b = 246
  <2>1. Post(b, opened.packet, opened, DropPacket)
    BY <1>6 DEF SystemCommon, CommonLength, pk
  <2>2. opened.packet \in Calls
    BY <1>1, <1>2 DEF Calls
  <2> HIDE DEF opened
  <2> QED BY <1>4, <2>1, <2>2, QuietlySound, HeardType DEF Post, Keeps
<1>7. CASE b \in DOMAIN CommonLength
  <2> DEFINE s == [st EXCEPT !.packet = pk, !.packetByte = 2, !.missing = CommonLength[b]]
  <2>1. Quietly(b, s)
    <3>1. [opened EXCEPT !.missing = CommonLength[b]] = s
      BY <1>0 DEF ParserStates
    <3>2. b # 246
      BY <1>7 DEF CommonLength
    <3> QED BY <1>7, <3>1, <3>2 DEF SystemCommon, pk
  <2>2. b \in {241, 242, 243} /\ CommonLength[b] \in {1, 2}
    BY <1>7 DEF CommonLength
  <2>3. s \in ParserStates /\ s.packet = pk /\ s.packetByte = 2 /\ s.missing = CommonLength[b]
    <3>1. 2 \in Nat /\ CommonLength[b] \in 0..2
      BY <2>2
    <3>2. s \in ParserStates
      BY <1>0, <1>1, <3>1, UpdateType, Zenon
    <3> QED BY <1>0, <3>2, UpdateFields
  <2> HIDE DEF s
  <2>4. Sound(s)
    BY <1>1, <2>2, <2>3 DEF Sound, KindStatus, Positioned, MessageLength
  <2> QED BY <2>1, <2>4, QuietlySound DEF Keeps
<1> QED BY <1>5, <1>6, <1>7

LEMMA ChannelVoiceKeeps ==
  ASSUME IInv, NEW b \in Bytes, ChannelVoice(b)
  PROVE  Keeps
<1> DEFINE pk == Packet("voice", group, b)
           s == [st EXCEPT !.packet = pk, !.packetByte = 2, !.missing = VoiceLength(b)]
<1>0. b \in 0..255 /\ group \in Groups /\ st \in ParserStates
  BY Context
<1>1. pk \in Packets /\ pk.kind = "voice" /\ pk.status = b
  BY <1>0, PacketType DEF Packet
<1> HIDE DEF pk
<1>2. VoiceLength(b) \in {1, 2} /\ IsVoice(b)
  BY DEF ChannelVoice, VoiceLength
<1>3. s \in ParserStates /\ s.packet = pk /\ s.packetByte = 2 /\ s.missing = VoiceLength(b)
  <2>1. 2 \in Nat /\ VoiceLength(b) \in 0..2
    BY <1>2
  <2>2. s \in ParserStates
    BY <1>0, <1>1, <2>1, UpdateType, Zenon
  <2> QED BY <1>0, <2>2, UpdateFields
<1>4. Quietly(b, s)
  BY DEF ChannelVoice, pk
<1> HIDE DEF s
<1>5. Sound(s)
  BY <1>1, <1>2, <1>3 DEF Sound, KindStatus, Positioned, MessageLength
<1> QED BY <1>4, <1>5, QuietlySound DEF Keeps

\* A byte put at a payload position leaves a packet of the same kind and status.
LEMMA PutByte ==
  \A s \in ParserStates : \A i \in Payload : \A b \in 0..127 :
    /\ [s EXCEPT !.packet.body[i] = b] \in ParserStates
    /\ [s EXCEPT !.packet.body[i] = b].packet \in Packets
    /\ [s EXCEPT !.packet.body[i] = b].packet.kind = s.packet.kind
    /\ [s EXCEPT !.packet.body[i] = b].packet.status = s.packet.status
<1> SUFFICES ASSUME NEW s \in ParserStates, NEW i \in Payload, NEW b \in 0..127
             PROVE  LET t == [s EXCEPT !.packet.body[i] = b]
                    IN  /\ t \in ParserStates /\ t.packet \in Packets
                        /\ t.packet.kind = s.packet.kind
                        /\ t.packet.status = s.packet.status
  BY ZenonT(40)
<1> DEFINE t == [s EXCEPT !.packet.body[i] = b]
           pk == [s.packet EXCEPT !.body[i] = b]
<1>1. s.packet \in Packets
  BY DEF ParserStates
<1>2. pk \in Packets /\ pk.kind = s.packet.kind /\ pk.status = s.packet.status
  BY <1>1 DEF Packets
<1>3. t = [s EXCEPT !.packet = pk]
  BY <1>1 DEF ParserStates, Packets
<1> HIDE DEF pk
<1>4. [s EXCEPT !.packet = pk] \in ParserStates /\ [s EXCEPT !.packet = pk].packet = pk
  BY <1>2 DEF ParserStates
<1> QED BY <1>2, <1>3, <1>4

LEMMA MessageDataKeeps ==
  ASSUME IInv, NEW b \in Bytes, MessageData(b)
  PROVE  Keeps
<1> DEFINE ignored == st.packet.status = 0 \/ st.missing = 0 \/ st.packetByte >= 4
           put == [st EXCEPT !.packet.body[st.packetByte] = b]
           filled == [st EXCEPT !.packet.body[st.packetByte] = b, !.missing = @ - 1]
           rerun == [filled EXCEPT !.missing = st.packetByte - 1, !.packetByte = 2]
<1>0. /\ b \in 0..255 /\ st \in ParserStates /\ Sound(st) /\ PacketEnd \in Nat /\ PacketEnd >= 4
      /\ st.packet \in Packets
  BY Context
<1>1. CASE ignored
  BY <1>0, <1>1, QuietlySound DEF MessageData, Keeps
<1>2. CASE ~ignored
  <2>1. b \in 0..127 /\ st.packet.kind \in {"voice", "system"}
    BY <1>0, <1>2 DEF MessageData, IsData, Sound, KindStatus, Packets
  <2>2. /\ st.packetByte \in {2, 3} /\ st.missing \in {1, 2}
        /\ st.packetByte - 2 + st.missing = MessageLength(st.packet)
        /\ st.packetByte \in Payload
    BY <1>0, <2>1 DEF Sound, Positioned, ParserStates, Payload
  <2>3. PICK pk \in Packets : /\ put.packet = pk /\ put \in ParserStates
                             /\ pk.kind = st.packet.kind /\ pk.status = st.packet.status
    <3>1. /\ put \in ParserStates /\ put.packet \in Packets
          /\ put.packet.kind = st.packet.kind /\ put.packet.status = st.packet.status
      BY <1>0, <2>1, <2>2, PutByte, Zenon
    <3> QED BY <3>1
  <2>4. /\ filled = [st EXCEPT !.packet = pk, !.packetByte = st.packetByte,
                               !.missing = st.missing - 1]
        /\ \A pos, n : [filled EXCEPT !.missing = n, !.packetByte = pos]
                        = [st EXCEPT !.packet = pk, !.packetByte = pos, !.missing = n]
        /\ \A pos : [filled EXCEPT !.packetByte = pos]
                     = [st EXCEPT !.packet = pk, !.packetByte = pos, !.missing = st.missing - 1]
    BY <1>0, <2>3 DEF ParserStates
  <2>5. /\ filled \in ParserStates /\ filled.packet = pk
        /\ filled.packetByte = st.packetByte /\ filled.missing = st.missing - 1
    <3>1. st.packetByte \in Nat /\ st.missing - 1 \in 0..2
      BY <2>2
    <3>2. [st EXCEPT !.packet = pk, !.packetByte = st.packetByte, !.missing = st.missing - 1]
            \in ParserStates
      BY <1>0, <3>1, UpdateType, Zenon
    <3>3. filled \in ParserStates
      BY <2>4, <3>2
    <3>4. LET t == [st EXCEPT !.packet = pk, !.packetByte = st.packetByte,
                              !.missing = st.missing - 1]
          IN  t.packet = pk /\ t.packetByte = st.packetByte /\ t.missing = st.missing - 1
      BY <1>0, UpdateFields
    <3> HIDE DEF filled
    <3> QED BY <2>4, <3>3, <3>4
  <2>6. MessageLength(pk) = MessageLength(st.packet)
    BY <2>3 DEF MessageLength
  <2>7. /\ pk.kind = "voice" => IsVoice(pk.status)
        /\ pk.kind = "system" => pk.status \in {241, 242, 243}
        /\ pk.kind \in {"voice", "system"}
    BY <1>0, <2>1, <2>3 DEF Sound, KindStatus
  <2>8. CASE st.missing = 2
    <3> DEFINE s == [filled EXCEPT !.packetByte = @ + 1]
    <3>1. Quietly(b, s)
      BY <1>2, <2>5, <2>8 DEF MessageData
    <3>2. st.packetByte = 2 /\ st.missing - 1 = 1
      BY <2>2, <2>3, <2>7, <2>8, <2>6 DEF MessageLength, VoiceLength, CommonLength
    <3>3. s = [st EXCEPT !.packet = pk, !.packetByte = 3, !.missing = 1]
      <4>1. filled.packetByte + 1 = 3
        BY <2>5, <3>2
      <4>2. s = [filled EXCEPT !.packetByte = 3]
        BY <2>5, <4>1 DEF ParserStates
      <4>3. [filled EXCEPT !.packetByte = 3]
             = [st EXCEPT !.packet = pk, !.packetByte = 3, !.missing = st.missing - 1]
        BY <2>4
      <4> HIDE DEF s, filled
      <4> QED BY <3>2, <4>2, <4>3
    <3> HIDE DEF s, filled
    <3>4. s \in ParserStates /\ s.packet = pk /\ s.packetByte = 3 /\ s.missing = 1
      <4>1. 3 \in Nat /\ 1 \in 0..2
        OBVIOUS
      <4>2. s \in ParserStates
        BY <1>0, <3>3, <4>1, UpdateType, Zenon
      <4> QED BY <1>0, <3>3, <4>2, UpdateFields
    <3>5. Sound(s)
      BY <2>2, <2>6, <2>7, <3>2, <3>4, <2>8 DEF Sound, KindStatus, Positioned
    <3> QED BY <3>1, <3>5, QuietlySound DEF Keeps
  <2>9. CASE st.missing = 1 /\ st.packet.kind = "voice"
    <3>1. Post(b, rerun.packet, rerun, Same)
      BY <1>2, <2>5, <2>9 DEF MessageData
    <3>2. rerun = [st EXCEPT !.packet = pk, !.packetByte = 2, !.missing = st.packetByte - 1]
      BY <2>4
    <3> HIDE DEF rerun
    <3>3. /\ rerun \in ParserStates /\ rerun.packet = pk
          /\ rerun.packetByte = 2 /\ rerun.missing = st.packetByte - 1
      <4>1. 2 \in Nat /\ st.packetByte - 1 \in 0..2
        BY <2>2
      <4>2. rerun \in ParserStates
        BY <1>0, <3>2, <4>1, UpdateType, Zenon
      <4> QED BY <1>0, <3>2, <4>2, UpdateFields
    <3>4. Sound(rerun) /\ rerun.packet \in Calls
      BY <2>2, <2>3, <2>6, <2>7, <2>9, <3>3 DEF Sound, KindStatus, Positioned, Calls
    <3>5. Sound(Fresh(1))
      BY FreshSound
    <3> QED BY <3>1, <3>4, <3>5, QuietlySound, HeardType DEF Post, Same, Keeps
  <2>10. CASE st.missing = 1 /\ st.packet.kind # "voice"
    <3>1. Post(b, filled.packet, filled, DropPacket)
      BY <1>2, <2>5, <2>10 DEF MessageData
    <3> HIDE DEF filled
    <3>2. Sound(DropPacket(filled)) /\ Sound(DropPacket(Fresh(1))) /\ filled.packet \in Calls
      BY <2>5, DropSound, FreshSound DEF Sound, Calls
    <3> QED BY <3>1, <3>2, QuietlySound, HeardType DEF Post, Keeps
  <2> QED BY <2>2, <2>8, <2>9, <2>10
<1> QED BY <1>1, <1>2

LEMMA SysexDataToMessageKeeps ==
  ASSUME IInv, NEW b \in Bytes, IsData(b), st.packet.kind = "data", bySysex,
         SysexDataToMessage(b)
  PROVE  Keeps
<1> DEFINE inId == st.sysex.manufacturer = <<>> \/ st.sysex.manufacturer[1] = 0
<1>0. /\ b \in 0..127 /\ st \in ParserStates /\ Sound(st)
      /\ st.sysex \in Sysexes /\ st.packetByte \in {0} \union 2..5
  BY Context DEF IsData, Sound, Positioned
<1>1. /\ <<b>> \in Seq(0..127)
      /\ Append(st.sysex.manufacturer, b) \in Seq(0..127)
      /\ Append(st.sysex.data, b) \in Seq(0..127)
  BY <1>0, AppendProperties DEF Sysexes
<1>2. CASE st.packetByte < 2
  BY <1>0, <1>2, QuietlySound DEF SysexDataToMessage, Keeps
<1>3. CASE st.packetByte = 2
  <2> DEFINE s == [st EXCEPT !.sysex.manufacturer = <<b>>, !.packetByte = 3]
  <2>1. s \in ParserStates /\ s.packet = st.packet /\ s.packetByte = 3
    BY <1>0, <1>1 DEF ParserStates
  <2>2. Quietly(b, s)
    BY <1>3 DEF SysexDataToMessage
  <2> HIDE DEF s
  <2>3. Sound(s)
    BY <1>0, <2>1 DEF Sound, KindStatus, Positioned
  <2> QED BY <2>2, <2>3, QuietlySound DEF Keeps
<1>4. CASE st.packetByte \in {3, 4} /\ inId
  <2> DEFINE s == [st EXCEPT !.sysex.manufacturer = Append(@, b), !.packetByte = @ + 1]
  <2>1. s \in ParserStates /\ s.packet = st.packet /\ s.packetByte = st.packetByte + 1
    <3> DEFINE sx == [st.sysex EXCEPT !.manufacturer = Append(@, b)]
               n  == st.packetByte + 1
    <3>1. sx \in Sysexes /\ n \in Nat
      <4>1. sx \in Sysexes
        BY <1>0, <1>1 DEF Sysexes
      <4>2. n \in Nat
        BY <1>0
      <4> QED BY <4>1, <4>2
    <3>2. s = [st EXCEPT !.sysex = sx, !.packetByte = n]
      BY <1>0 DEF ParserStates, Sysexes
    <3> HIDE DEF s, sx, n
    <3>3. s \in ParserStates /\ s.packet = st.packet /\ s.packetByte = n
      BY <1>0, <3>1, <3>2 DEF ParserStates, Sysexes
    <3> QED BY <3>3 DEF n
  <2>2. Quietly(b, s)
    BY <1>4 DEF SysexDataToMessage
  <2> HIDE DEF s
  <2>3. Sound(s)
    BY <1>0, <1>4, <2>1 DEF Sound, KindStatus, Positioned
  <2> QED BY <2>2, <2>3, QuietlySound DEF Keeps
<1>5. CASE st.packetByte > 2 /\ ~(st.packetByte \in {3, 4} /\ inId)
  <2> DEFINE s == [st EXCEPT !.sysex.data = Append(@, b)]
  <2>1. s \in ParserStates /\ s.packet = st.packet /\ s.packetByte = st.packetByte
    BY <1>0, <1>1 DEF ParserStates
  <2>2. Quietly(b, s)
    BY <1>0, <1>5 DEF SysexDataToMessage
  <2> HIDE DEF s
  <2>3. Sound(s)
    BY <1>0, <2>1 DEF Sound, KindStatus, Positioned
  <2> QED BY <2>2, <2>3, QuietlySound DEF Keeps
<1> QED BY <1>0, <1>2, <1>3, <1>4, <1>5

LEMMA SysexDataToPacketKeeps ==
  ASSUME IInv, NEW b \in Bytes, IsData(b), st.packet.kind = "data", ~bySysex,
         SysexDataToPacket(b)
  PROVE  Keeps
<1> DEFINE put == [st EXCEPT !.packet.body[st.packetByte] = b]
           filled == [st EXCEPT !.packet.body[st.packetByte] = b, !.packetByte = @ + 1]
           Next7(s) == [s EXCEPT !.packet = Packet("data", group, Continue),
                                 !.packetByte = 2]
<1>0. /\ b \in 0..127 /\ group \in Groups /\ st \in ParserStates /\ Sound(st)
      /\ st.packetByte \in Payload /\ PacketEnd \in Nat /\ PacketEnd >= 4
  BY Context DEF IsData, Sound, Positioned
<1>1. /\ put \in ParserStates /\ put.packet \in Packets
      /\ put.packet.kind = "data" /\ put.packet.status \in {Start, Continue}
  <2>1. /\ put \in ParserStates /\ put.packet \in Packets
        /\ put.packet.kind = st.packet.kind /\ put.packet.status = st.packet.status
    BY <1>0, PutByte, Zenon
  <2> QED BY <1>0, <2>1 DEF Sound, KindStatus
<1>2. filled = [put EXCEPT !.packetByte = st.packetByte + 1]
  BY <1>0 DEF ParserStates
<1> HIDE DEF put
<1>3. /\ filled \in ParserStates /\ filled.packet = put.packet
      /\ filled.packetByte = st.packetByte + 1
  <2>1. st.packetByte + 1 \in Nat
    BY <1>0 DEF Payload
  <2> HIDE DEF filled
  <2> QED BY <1>1, <1>2, <2>1 DEF ParserStates
<1>4. Packet("data", group, Continue) \in Packets
      /\ Packet("data", group, Continue).kind = "data"
      /\ Packet("data", group, Continue).status = Continue
  <2>1. Packet("data", group, Continue) \in Packets
    <3>1. Continue \in 0..255
      BY DEF Continue
    <3>2. group \in Groups
      BY <1>0
    <3> QED BY <3>1, <3>2, PacketType
  <2> QED BY <2>1 DEF Packet
<1>5. ASSUME NEW s \in ParserStates PROVE Sound(Next7(s))
  <2> DEFINE pk == Packet("data", group, Continue)
             t  == [s EXCEPT !.packet = pk, !.packetByte = 2]
  <2> HIDE DEF pk
  <2>1. t \in ParserStates /\ t.packet = pk /\ t.packetByte = 2
    BY <1>4 DEF ParserStates, pk
  <2> HIDE DEF t
  <2>2. Sound(t)
    BY <1>0, <1>4, <2>1 DEF Sound, KindStatus, Positioned, Payload, pk
  <2> QED BY <2>2 DEF t, pk
<1>6. CASE filled.packetByte < PacketEnd
  <2>1. Quietly(b, filled)
    BY <1>6 DEF SysexDataToPacket
  <2> HIDE DEF filled
  <2>2. Sound(filled)
    BY <1>0, <1>1, <1>3, <1>6 DEF Sound, KindStatus, Positioned, Payload
  <2> QED BY <2>1, <2>2, QuietlySound DEF Keeps
<1>7. CASE ~(filled.packetByte < PacketEnd)
  <2> DEFINE full == [filled.packet EXCEPT !.size = PayloadSize]
  <2>1. Post(b, full, filled, Next7)
    BY <1>7 DEF SysexDataToPacket
  <2> HIDE DEF filled
  <2>2. full \in Calls
    <3>1. PayloadSize \in 0..PayloadSize
      BY <1>0 DEF PayloadSize
    <3>2. full = [put.packet EXCEPT !.size = PayloadSize]
      BY <1>3
    <3>3. [put.packet EXCEPT !.size = PayloadSize] \in Packets
      BY <1>1, <3>1 DEF Packets
    <3> QED BY <3>2, <3>3 DEF Calls
  <2>3. Sound(Next7(filled)) /\ Sound(Next7(Fresh(1)))
    BY <1>3, <1>5, FreshSound DEF Sound
  <2> HIDE DEF full, Next7
  <2> QED BY <2>1, <2>2, <2>3, QuietlySound, HeardType DEF Post, Keeps
<1> QED BY <1>6, <1>7

LEMMA SysexEndMessageKeeps ==
  ASSUME IInv, NEW b \in Bytes, st.packet.kind = "data", bySysex, SysexEndMessage(b)
  PROVE  Keeps
<1> DEFINE shortId   == st.sysex.manufacturer = <<>> \/ st.sysex.manufacturer[1] = 0
           Forget(s) == [s EXCEPT !.sysex = NoSysex]
<1>0. st \in ParserStates /\ st.sysex \in Sysexes
  BY Context
<1>1. Sound(DropPacket(st))
  BY <1>0, DropSound
<1>2. CASE shortId /\ st.packetByte < 5
  BY <1>1, <1>2, QuietlySound DEF SysexEndMessage, Keeps
<1>3. CASE ~(shortId /\ st.packetByte < 5)
  <2>1. Post(b, SysexCall(st.sysex), DropPacket(st), Forget)
    BY <1>3 DEF SysexEndMessage
  <2>2. SysexCall(st.sysex) \in Calls
    BY <1>0 DEF SysexCall, Sysexes, Calls
  <2>3. ASSUME NEW s, Sound(s), s.packet.kind = "none" PROVE Sound(Forget(s))
    <3>1. NoSysex \in Sysexes
      BY EmptySeq DEF NoSysex, Sysexes
    <3>2. Forget(s) \in ParserStates /\ Forget(s).packet = s.packet
      BY <2>3, <3>1 DEF Sound, ParserStates, Sysexes
    <3> HIDE DEF Forget
    <3> QED BY <2>3, <3>2 DEF Sound, KindStatus, Positioned
  <2>4. DropPacket(st).packet.kind = "none" /\ Fresh(1).packet.kind = "none"
    BY <1>0 DEF DropPacket, Fresh, NoPacket, Packet, ParserStates
  <2>5. Sound(Forget(DropPacket(st))) /\ Sound(Forget(Fresh(1)))
    BY <1>1, <2>3, <2>4, FreshSound
  <2> HIDE DEF Forget
  <2> QED BY <2>1, <2>2, <2>5, QuietlySound, HeardType DEF Post, Keeps
<1> QED BY <1>2, <1>3

LEMMA SysexEndPacketKeeps ==
  ASSUME IInv, NEW b \in Bytes, st.packet.kind = "data", ~bySysex, SysexEndPacket(b)
  PROVE  Keeps
<1> DEFINE first   == st.packet.status = Start
           last    == [st.packet EXCEPT !.status = IF first THEN Complete ELSE End,
                                        !.size = st.packetByte - 2]
           Done(s) == [s EXCEPT !.packet = NoPacket, !.packetByte = 2]
<1>0. /\ st \in ParserStates /\ st.packet \in Packets
      /\ PacketEnd \in Nat /\ PacketEnd >= 4 /\ st.packetByte \in Payload
  BY Context DEF Sound, Positioned
<1>1. Sound(DropPacket(st))
  BY <1>0, DropSound
<1>2. CASE first /\ st.packetByte < 3
  BY <1>1, <1>2, QuietlySound DEF SysexEndPacket, Keeps
<1>3. CASE ~(first /\ st.packetByte < 3)
  <2> DEFINE opened == [st EXCEPT !.packet = last]
  <2>1. Post(b, last, opened, Done)
    BY <1>3 DEF SysexEndPacket
  <2>2. last \in Packets
    <3>1. st.packetByte - 2 \in 0..PayloadSize
      BY <1>0 DEF Payload, PayloadSize
    <3>2. Complete \in 0..255 /\ End \in 0..255
      BY DEF Complete, End
    <3> QED BY <1>0, <3>1, <3>2 DEF Packets
  <2> HIDE DEF last
  <2>3. opened \in ParserStates
    BY <1>0, <2>2 DEF ParserStates
  <2>4. ASSUME NEW s \in ParserStates PROVE Sound(Done(s))
    <3>1. NoPacket \in Packets /\ NoPacket.kind = "none" /\ NoPacket.status = 0
      BY PacketType, ParserAssumption DEF NoPacket, ParserAssumption
    <3>2. NoPacket \in Packets
      BY <3>1
    <3>3. /\ [s EXCEPT !.packet = NoPacket, !.packetByte = 2] \in ParserStates
          /\ [s EXCEPT !.packet = NoPacket, !.packetByte = 2].packet = NoPacket
      BY <3>2 DEF ParserStates
    <3>4. Done(s) \in ParserStates /\ Done(s).packet = NoPacket
      BY <3>3
    <3> HIDE DEF Done
    <3> QED BY <3>1, <3>4 DEF Sound, KindStatus, Positioned
  <2>5. Sound(Done(opened)) /\ Sound(Done(Fresh(1)))
    BY <2>3, <2>4, FreshSound DEF Sound
  <2>6. last \in Calls
    BY <2>2 DEF Calls
  <2> HIDE DEF Done, opened
  <2> QED BY <2>1, <2>5, <2>6, QuietlySound, HeardType DEF Post, Keeps
<1> QED BY <1>2, <1>3

LEMMA FeedKeeps ==
  ASSUME IInv, NEW b \in Bytes, Feed(b)
  PROVE  Keeps
<1>1. CASE Realtime(b)
  BY <1>1, RealtimeKeeps
<1>2. CASE SysexStart(b)
  BY <1>2, SysexStartKeeps
<1>3. CASE SystemCommon(b)
  BY <1>3, SystemCommonKeeps
<1>4. CASE ChannelVoice(b)
  BY <1>4, ChannelVoiceKeeps
<1>5. CASE MessageData(b)
  BY <1>5, MessageDataKeeps
<1>6. CASE SysexData(b)
  BY <1>6, SysexDataToMessageKeeps, SysexDataToPacketKeeps DEF SysexData
<1>7. CASE SysexEnd(b)
  BY <1>7, SysexEndMessageKeeps, SysexEndPacketKeeps DEF SysexEnd
<1> QED BY <1>1, <1>2, <1>3, <1>4, <1>5, <1>6, <1>7 DEF Feed

-----------------------------------------------------------------------------
(* The invariant. *)

LEMMA InitSound ==
  ASSUME Init
  PROVE  IInv
<1>1. Sound(st)
  BY FreshSound DEF Init
<1>2. heard \in Hearings
  BY EmptySeq, ParserAssumption DEF Init, Nothing, Hearings, ParserAssumption
<1> QED BY <1>1, <1>2 DEF IInv, TypeOK, Init, Sound, Hearings

\* Positioned, and so Sound, also speaks of bySysex, which no step changes.
LEMMA StepSound ==
  ASSUME IInv, [Next]_vars
  PROVE  IInv'
<1>0. bySysex' = bySysex
  BY DEF Next, Feed, Reset, SetGroup, EnableCallbacks, vars
<1>1. ASSUME NEW b \in Bytes, Feed(b) PROVE IInv'
  <2>1. Keeps
    BY <1>1, FeedKeeps
  <2> QED
    BY <1>0, <1>1, <2>1
       DEF IInv, TypeOK, Keeps, Calls, Hearings, Feed, Sound, KindStatus, Positioned
<1>2. CASE Reset
  <2>1. Sound(Fresh(1))
    BY FreshSound
  <2>2. Nothing \in Hearings
    BY EmptySeq, ParserAssumption DEF Nothing, Hearings, ParserAssumption
  <2> QED
    BY <1>2, <2>1, <2>2
       DEF Reset, IInv, TypeOK, Hearings, Sound, KindStatus, Positioned
<1>3. ASSUME NEW g \in Groups, SetGroup(g) PROVE IInv'
  BY <1>3 DEF SetGroup, IInv, TypeOK, Sound, KindStatus, Positioned
<1>4. ASSUME NEW enable \in BOOLEAN, EnableCallbacks(enable) PROVE IInv'
  BY <1>4 DEF EnableCallbacks, IInv, TypeOK, Sound, KindStatus, Positioned
<1>5. CASE UNCHANGED vars
  BY <1>5 DEF vars, IInv, TypeOK, Sound, KindStatus, Positioned
<1> QED BY <1>1, <1>2, <1>3, <1>4, <1>5 DEF Next

\* The inductive invariant holds in every reachable state.
THEOREM Invariance == Spec => []IInv
BY InitSound, StepSound, PTL DEF Spec

\* Every variable, and every packet and message handed to a callback, keeps its
\* type: payload bytes are data bytes, sizes fit the packet, statuses fit a byte.
THEOREM TypeCorrect == Spec => []TypeOK
BY Invariance, PTL DEF IInv

\* feed() never writes a byte outside of the packet, and what it still expects is
\* always the rest of the message it is in.
THEOREM WritesInPlace == Spec => []WritePosition
<1>1. IInv => WritePosition
  BY DEF IInv, Sound, WritePosition
<1> QED BY <1>1, Invariance, PTL

-----------------------------------------------------------------------------
(* What the parser holds is what has been heard. *)

\* The first n payload bytes are the last n bytes of data.
Holds(body, data, n) ==
  \A i \in Payload : i - 1 <= n => body[i] = data[Len(data) - n + i - 1]

\* All payload bytes but the first n are 0.
Blank(body, n) == \A i \in Payload : i - 1 > n => body[i] = 0

\* A packet under way, its size not yet known.
Opened(packet, kind, grp, status) ==
  packet.kind = kind /\ packet.group = grp /\ packet.status = status /\ packet.size = 0

\* Under running status the bytes of the message before stay until overwritten.
VoiceTold(h, s) ==
  LET length == VoiceLength(h.status)
      count  == Len(h.data) % length
  IN  /\ Opened(s.packet, "voice", h.group, h.status)
      /\ s.packetByte = 2 + count
      /\ Holds(s.packet.body, h.data, count)
      /\ Blank(s.packet.body, length)

CommonTold(h, s) ==
  LET count == Len(h.data)
  IN  IF count < CommonLength[h.status]
        THEN /\ Opened(s.packet, "system", h.group, h.status)
             /\ s.packetByte = 2 + count
             /\ Holds(s.packet.body, h.data, count)
             /\ Blank(s.packet.body, count)
        ELSE s.packet = NoPacket

SysexPacketTold(h, s) ==
  LET count == Len(h.data) % PayloadSize
  IN  /\ Opened(s.packet, "data", h.group,
                IF Len(h.data) < PayloadSize THEN Start ELSE Continue)
      /\ s.packetByte = 2 + count
      /\ Holds(s.packet.body, h.data, count)
      /\ Blank(s.packet.body, count)

\* Bytes of the manufacturer id among the first bytes of a SysEx.
IdSize(data) ==
  IF data # <<>> /\ data[1] # 0 THEN 1 ELSE IF Len(data) < 3 THEN Len(data) ELSE 3

SysexMessageTold(h, s) ==
  /\ s.packet.kind = "data"
  /\ IF h.enabled
       THEN /\ s.packetByte = 2 + IdSize(h.data)
            /\ s.sysex = [manufacturer |-> SubSeq(h.data, 1, IdSize(h.data)),
                          data |-> SubSeq(h.data, IdSize(h.data) + 1, Len(h.data))]
       ELSE s.packetByte = 0 /\ s.sysex = NoSysex

Tells(h, s) ==
  /\ h.status \in {0} \union 128..247
  /\ h.status \in {0} \union 244..247 => s.packet = NoPacket
  /\ IsVoice(h.status) => VoiceTold(h, s)
  /\ h.status \in {241, 242, 243} => CommonTold(h, s)
  /\ h.status = 240 => IF bySysex THEN SysexMessageTold(h, s) ELSE SysexPacketTold(h, s)

\* The packet or message under way is the one the stream describes: what makes
\* the callback of the next byte the right one.
KeepsWhatWasHeard == Tells(heard, st)

-----------------------------------------------------------------------------
(* Counting and filling. *)

\* How the position in a run of messages of the same length moves.
LEMMA NextCount ==
  \A n \in Nat : \A p \in Nat \ {0} :
    /\ (n % p) \in 0..p-1 /\ (n % p) <= n
    /\ n < p => (n % p) = n
    /\ ((n + 1) % p) = IF (n % p) + 1 = p THEN 0 ELSE (n % p) + 1
<1> SUFFICES ASSUME NEW n \in Nat, NEW p \in Nat \ {0}
             PROVE  /\ (n % p) \in 0..p-1 /\ (n % p) <= n
                    /\ n < p => (n % p) = n
                    /\ ((n + 1) % p) = IF (n % p) + 1 = p THEN 0 ELSE (n % p) + 1
  OBVIOUS
<1>1. (n % p) \in 0..p-1 /\ n = p * (n \div p) + (n % p) /\ (n \div p) \in Nat
  OBVIOUS
<1>2. PICK q \in Nat, r \in 0..p-1 : n = p * q + r /\ (n % p) = r
  BY <1>1
<1>3. \A a \in Int : \A c \in 0..p-1 : ((p * a + c) % p) = c
  OBVIOUS
<1>4. r <= n
  <2>1. p * q \in Nat
    OBVIOUS
  <2>2. PICK k \in Nat : k = p * q
    BY <2>1
  <2> QED BY <1>2, <2>2
<1>5. n < p => r = n
  <2>1. q # 0 => p * q >= p
    OBVIOUS
  <2>2. n < p => q = 0
    <3>1. PICK k \in Nat : k = p * q
      OBVIOUS
    <3> QED BY <1>2, <2>1, <3>1
  <2> QED BY <1>2, <2>2
<1>6. ((n + 1) % p) = IF r + 1 = p THEN 0 ELSE r + 1
  <2>1. CASE r + 1 = p
    <3>1. p * (q + 1) = p * q + p
      OBVIOUS
    <3>2. PICK k \in Nat : k = p * q
      OBVIOUS
    <3>3. n + 1 = p * (q + 1) + 0
      BY <1>2, <2>1, <3>1, <3>2
    <3>4. q + 1 \in Int /\ 0 \in 0..p-1
      OBVIOUS
    <3>5. ((p * (q + 1) + 0) % p) = 0
      BY <1>3, <3>4, Zenon
    <3> QED BY <2>1, <3>3, <3>5, Zenon
  <2>2. CASE r + 1 # p
    <3>1. PICK k \in Nat : k = p * q
      OBVIOUS
    <3>2. n + 1 = p * q + (r + 1) /\ r + 1 \in 0..p-1
      BY <1>2, <2>2, <3>1
    <3>3. q \in Int
      OBVIOUS
    <3>4. ((p * q + (r + 1)) % p) = r + 1
      BY <1>3, <3>2, <3>3, Zenon
    <3> QED BY <2>2, <3>2, <3>4, Zenon
  <2> QED BY <2>1, <2>2
<1> QED BY <1>1, <1>2, <1>4, <1>5, <1>6, Zenon

\* A byte written behind the bytes that are there.
LEMMA HoldsNext ==
  \A body \in [Payload -> 0..127] : \A data \in Seq(0..127) : \A n \in Nat : \A b \in 0..127 :
    Holds(body, data, n) /\ n <= Len(data) /\ n + 2 \in Payload
      => Holds([body EXCEPT ![n + 2] = b], Append(data, b), n + 1)
<1> SUFFICES ASSUME NEW body \in [Payload -> 0..127], NEW data \in Seq(0..127),
                    NEW n \in Nat, NEW b \in 0..127,
                    Holds(body, data, n), n <= Len(data), n + 2 \in Payload
             PROVE  Holds([body EXCEPT ![n + 2] = b], Append(data, b), n + 1)
  OBVIOUS
<1> SUFFICES ASSUME NEW i \in Payload, i - 1 <= n + 1
             PROVE  [body EXCEPT ![n + 2] = b][i]
                      = Append(data, b)[Len(Append(data, b)) - (n + 1) + i - 1]
  BY Zenon DEF Holds
<1>1. PICK m \in Nat : m = Len(data)
  OBVIOUS
<1>2. /\ Len(Append(data, b)) = m + 1
      /\ \A k \in 1..m : Append(data, b)[k] = data[k]
      /\ Append(data, b)[m + 1] = b
  BY <1>1, AppendProperties
<1>3. i \in Nat /\ i >= 2 /\ n <= m
  BY <1>1, ParserAssumption DEF Payload, ParserAssumption
<1>4. CASE i = n + 2
  <2>1. (m + 1) - (n + 1) + i - 1 = m + 1
    BY <1>3, <1>4
  <2> QED BY <1>2, <1>4, <2>1
<1>5. CASE i # n + 2
  <2>1. i - 1 <= n
    BY <1>3, <1>5
  <2>2. /\ (m + 1) - (n + 1) + i - 1 = m - n + i - 1
        /\ m - n + i - 1 \in 1..m
    BY <1>3, <2>1
  <2>3. body[i] = data[m - n + i - 1]
    BY <1>1, <2>1 DEF Holds
  <2> QED BY <1>2, <1>5, <2>2, <2>3
<1> QED BY <1>4, <1>5

LEMMA BlankNext ==
  \A body \in [Payload -> 0..127] : \A n \in Nat : \A b \in 0..127 : \A k \in Nat :
    Blank(body, k) /\ n + 2 \in Payload /\ n + 1 >= k
      => Blank([body EXCEPT ![n + 2] = b], n + 1)
<1>1. Payload \subseteq Int
  BY ParserAssumption DEF Payload, ParserAssumption
<1> QED BY <1>1 DEF Blank

\* A byte written within the part that need not be blank.
LEMMA BlankWithin ==
  \A body \in [Payload -> 0..127] : \A n \in Nat : \A b \in 0..127 : \A k \in Nat :
    Blank(body, k) /\ n + 2 \in Payload /\ n + 1 <= k
      => Blank([body EXCEPT ![n + 2] = b], k)
<1>1. Payload \subseteq Int
  BY ParserAssumption DEF Payload, ParserAssumption
<1> QED BY <1>1 DEF Blank

\* Before the first byte there is nothing to hold.
LEMMA HoldsNothing ==
  ASSUME NEW body, NEW data
  PROVE  Holds(body, data, 0)
BY ParserAssumption DEF Holds, Payload, ParserAssumption

\* The body of a packet whose payload is the last n bytes of data (PacketOf).
BodyOf(data, n) ==
  [i \in Payload |-> IF i - 1 <= n THEN data[Len(data) - n + i - 1] ELSE 0]

\* A body is known by the bytes it holds and the rest of it that is blank.
LEMMA BodyKnown ==
  \A body \in [Payload -> 0..127] : \A data : \A n \in Nat :
    Holds(body, data, n) /\ Blank(body, n)
      => body = BodyOf(data, n)
<1> SUFFICES ASSUME NEW body \in [Payload -> 0..127], NEW data, NEW n \in Nat,
                    Holds(body, data, n), Blank(body, n)
             PROVE  body = BodyOf(data, n)
  OBVIOUS
<1>1. Payload \subseteq Int
  BY ParserAssumption DEF Payload, ParserAssumption
<1>2. \A i \in Payload : body[i] = IF i - 1 <= n THEN data[Len(data) - n + i - 1] ELSE 0
  <2> TAKE i \in Payload
  <2>1. i - 1 <= n \/ i - 1 > n
    BY <1>1
  <2> QED BY <1>1, <2>1 DEF Holds, Blank
<1> QED BY <1>2 DEF BodyOf

\* A packet is known by its fields.
LEMMA PacketKnown ==
  \A packet \in Packets : \A kind, grp, status, size, data : \A n \in Nat :
    /\ packet.kind = kind /\ packet.group = grp
    /\ packet.status = status /\ packet.size = size
    /\ Holds(packet.body, data, n) /\ Blank(packet.body, n)
    => packet = PacketOf(kind, grp, status, data, n, size)
<1> SUFFICES ASSUME NEW packet \in Packets, NEW kind, NEW grp, NEW status, NEW size,
                    NEW data, NEW n \in Nat,
                    packet.kind = kind, packet.group = grp,
                    packet.status = status, packet.size = size,
                    Holds(packet.body, data, n), Blank(packet.body, n)
             PROVE  packet = PacketOf(kind, grp, status, data, n, size)
  OBVIOUS
<1>1. packet.body \in [Payload -> 0..127]
  BY DEF Packets
<1>2. packet.body = BodyOf(data, n)
  BY <1>1, BodyKnown, Zenon
<1>3. packet = [kind |-> kind, group |-> grp, status |-> status, size |-> size,
                body |-> BodyOf(data, n)]
  BY <1>2 DEF Packets
<1> QED BY <1>3 DEF PacketOf, BodyOf

\* A new packet holds no bytes.
LEMMA NewPacket ==
  ASSUME NEW kind, NEW grp, NEW status, NEW data, NEW n \in Nat
  PROVE  LET packet == Packet(kind, grp, status)
         IN  Opened(packet, kind, grp, status) /\ Holds(packet.body, data, 0)
             /\ Blank(packet.body, n)
<1>1. Packet(kind, grp, status).body = [i \in Payload |-> 0]
  BY DEF Packet
<1>2. Blank(Packet(kind, grp, status).body, n)
  BY <1>1 DEF Blank
<1>3. Opened(Packet(kind, grp, status), kind, grp, status)
  BY DEF Packet, Opened
<1> QED BY <1>2, <1>3, HoldsNothing

-----------------------------------------------------------------------------
(* Each byte makes the right callback and leaves what it should. *)

\* Byte b has `what` handed to a callback, if any, and leads to state s, or to a
\* parser without a message under way when the callback resets it.
Answer(b, what, s) ==
  /\ out' = IF invoke THEN what ELSE Silence
  /\ \/ st' = s /\ heard' = Heard(b)
     \/ st'.packet = NoPacket /\ heard' = Nothing

\* What is to be shown of the step for byte b.
Right(b) ==
  /\ out' = IF invoke THEN Expected(b) ELSE Silence
  /\ Tells(heard', st')

\* Where there is no message under way, nothing has been heard.
LEMMA NothingTold ==
  ASSUME NEW s, s.packet = NoPacket
  PROVE  Tells(Nothing, s)
<1>1. Nothing.status = 0
  BY DEF Nothing
<1> QED BY <1>1 DEF Tells, IsVoice

\* Without a message under way there is none after a callback either, whatever
\* it does.
LEMMA ResetLeaves ==
  /\ Fresh(1).packet = NoPacket /\ Same(Fresh(1)) = Fresh(1)
  /\ DropPacket(Fresh(1)).packet = NoPacket
  /\ [Fresh(1) EXCEPT !.sysex = NoSysex].packet = NoPacket
  /\ [Fresh(1) EXCEPT !.packet = NoPacket, !.packetByte = 2].packet = NoPacket
BY DEF Fresh, Same, DropPacket

LEMMA RightAnswer ==
  ASSUME NEW b, NEW what, NEW s, Answer(b, what, s), what = Expected(b), Tells(Heard(b), s)
  PROVE  Right(b)
<1>1. CASE st' = s /\ heard' = Heard(b)
  BY <1>1, Zenon DEF Answer, Right
<1>2. CASE st'.packet = NoPacket /\ heard' = Nothing
  BY <1>2, NothingTold, Zenon DEF Answer, Right
<1> QED BY <1>1, <1>2, Zenon DEF Answer

LEMMA QuietAnswer ==
  ASSUME NEW b, NEW s, Quietly(b, s)
  PROVE  Answer(b, Silence, s)
BY Zenon DEF Answer, Quietly

\* What the invariant gives.
LEMMA HeardContext ==
  ASSUME IInv, NEW b \in Bytes
  PROVE  /\ b \in 0..255 /\ group \in Groups /\ invoke \in BOOLEAN
         /\ heard \in Hearings /\ heard.data \in Seq(0..127) /\ Len(heard.data) \in Nat
         /\ st \in ParserStates /\ st.packet \in Packets
         /\ st.packet.body \in [Payload -> 0..127] /\ Sound(st)
         /\ PayloadSize \in Nat /\ PayloadSize >= 2 /\ PacketEnd = PayloadSize + 2
         /\ IsData(b) => b \in 0..127
<1>1. heard \in Hearings /\ heard.data \in Seq(0..127) /\ Len(heard.data) \in Nat
  BY DEF IInv, TypeOK, Hearings
<1>2. st.packet \in Packets /\ Sound(st) /\ st \in ParserStates /\ b \in 0..255
  BY Context
<1>3. st.packet.body \in [Payload -> 0..127]
  BY <1>2 DEF Packets
<1>4. PayloadSize \in Nat /\ PayloadSize >= 2 /\ PacketEnd = PayloadSize + 2
  BY ParserAssumption DEF ParserAssumption, PayloadSize
<1>5. group \in Groups /\ invoke \in BOOLEAN
  BY DEF IInv, TypeOK
<1>6. IsData(b) => b \in 0..127
  BY <1>2 DEF IsData
<1> QED BY <1>1, <1>2, <1>3, <1>4, <1>5, <1>6

\* A status byte begins a new message.
LEMMA HeardStatus ==
  ASSUME NEW b \in 128..247
  PROVE  Heard(b) = [status |-> b, group |-> group, data |-> <<>>, enabled |-> invoke]
<1>1. ~IsRealtime(b) /\ ~IsData(b)
  BY DEF IsRealtime, IsData
<1> QED BY <1>1, SMT DEF Heard

\* A data byte belongs to the message under way.
LEMMA HeardData ==
  ASSUME heard \in Hearings, NEW b \in 0..127, heard.status # 0
  PROVE  LET h    == Heard(b)
             data == Append(heard.data, b)
         IN  /\ h.status = heard.status /\ h.data = data /\ h.enabled = heard.enabled
             /\ h.group = IF heard.status = 240 /\ ~bySysex /\ (Len(data) % PayloadSize) = 0
                            THEN group ELSE heard.group
<1> DEFINE data == Append(heard.data, b)
           grp  == IF heard.status = 240 /\ ~bySysex /\ (Len(data) % PayloadSize) = 0
                     THEN group ELSE heard.group
<1>1. ~IsRealtime(b) /\ IsData(b)
  BY DEF IsRealtime, IsData
<1>2. Heard(b) = [heard EXCEPT !.data = data, !.group = grp]
  BY <1>1, SMT DEF Heard
<1> HIDE DEF data, grp
<1>3. LET h == Heard(b)
      IN  h.status = heard.status /\ h.data = data /\ h.enabled = heard.enabled
          /\ h.group = grp
  BY <1>2 DEF Hearings
<1> QED BY <1>3 DEF data, grp

\* No callback is called for by a status byte but F6, and F7 within a SysEx.
LEMMA ExpectedStatus ==
  ASSUME NEW b, ~IsData(b), ~IsRealtime(b), b # 246, b = 247 => heard.status # 240
  PROVE  Expected(b) = Silence
BY Zenon DEF Expected

LEMMA RealtimeRight ==
  ASSUME IInv, Tells(heard, st), NEW b \in Bytes, Realtime(b)
  PROVE  Right(b)
<1>0. b \in 0..255 /\ IsRealtime(b)
  BY HeardContext DEF Realtime
<1>1. IsRealtime(b) /\ ~IsData(b) /\ b \notin {246, 247}
  BY <1>0 DEF IsData, IsRealtime
<1>2. Heard(b) = heard
  BY <1>1, SMT DEF Heard
<1>3. CASE b \in {249, 253}
  <2>1. Answer(b, Silence, st)
    BY <1>3, QuietAnswer DEF Realtime
  <2>2. Expected(b) = Silence
    BY <1>1, <1>3, SMT DEF Expected
  <2> QED BY <1>2, <2>1, <2>2, RightAnswer
<1>4. CASE b \notin {249, 253}
  <2>1. Post(b, Packet("system", group, b), st, Same)
    BY <1>4 DEF Realtime
  <2>2. Answer(b, Packet("system", group, b), st)
    BY <2>1, ResetLeaves, Zenon DEF Post, Quietly, Same, Answer
  <2>3. Expected(b) = Packet("system", group, b)
    BY <1>1, <1>4, SMT DEF Expected
  <2> QED BY <1>2, <2>2, <2>3, RightAnswer
<1> QED BY <1>3, <1>4

LEMMA SysexStartRight ==
  ASSUME IInv, Tells(heard, st), NEW b \in Bytes, SysexStart(b)
  PROVE  Right(b)
<1> DEFINE pk == Packet("data", group, Start)
           s == [packet     |-> pk,
                 packetByte |-> IF bySysex /\ ~invoke THEN 0 ELSE 2,
                 missing    |-> 0,
                 sysex      |-> IF bySysex THEN NoSysex ELSE st.sysex]
           h == [status |-> b, group |-> group, data |-> <<>>, enabled |-> invoke]
<1>1. b = 240 /\ Quietly(b, s)
  BY DEF SysexStart
<1>2. Heard(b) = h
  BY <1>1, HeardStatus
<1>3. Expected(b) = Silence
  <2>1. ~IsData(b) /\ ~IsRealtime(b) /\ b # 246 /\ b # 247
    BY <1>1 DEF IsRealtime, IsData
  <2> QED BY <2>1, ExpectedStatus
<1>4. Opened(pk, "data", group, Start) /\ Holds(pk.body, <<>>, 0) /\ Blank(pk.body, 0)
  BY NewPacket
<1>5. PayloadSize \in Nat /\ PayloadSize >= 2 /\ invoke \in BOOLEAN
  BY HeardContext
<1>6. (0 % PayloadSize) = 0
  BY <1>5, NextCount
<1> HIDE DEF pk
<1>7. SysexPacketTold(h, s) \/ bySysex
  BY <1>4, <1>5, <1>6 DEF SysexPacketTold
<1>8. SysexMessageTold(h, s) \/ ~bySysex
  <2>1. IdSize(<<>>) = 0
    BY DEF IdSize
  <2>2. SubSeq(<<>>, 1, 0) = <<>>
    OBVIOUS
  <2>3. 0 + 1 = 1 /\ 2 + 0 = 2 /\ Len(<<>>) = 0
    OBVIOUS
  <2> QED BY <1>4, <1>5, <2>1, <2>2, <2>3 DEF SysexMessageTold, NoSysex, Opened
<1> HIDE DEF s
<1>9. h.status = 240
  BY <1>1
<1> HIDE DEF h
<1>10. Tells(h, s)
  BY <1>7, <1>8, <1>9 DEF Tells, IsVoice
<1> QED BY <1>1, <1>2, <1>3, <1>10, QuietAnswer, RightAnswer

LEMMA SystemCommonRight ==
  ASSUME IInv, Tells(heard, st), NEW b \in Bytes, SystemCommon(b)
  PROVE  Right(b)
<1> DEFINE pk == Packet("system", group, b)
           opened == [st EXCEPT !.packet = pk, !.packetByte = 2, !.missing = 0]
           h == [status |-> b, group |-> group, data |-> <<>>, enabled |-> invoke]
<1>1. b \in 241..247 /\ Heard(b) = h /\ ~IsData(b) /\ ~IsRealtime(b)
  <2>1. b \in 241..247
    BY HeardContext DEF SystemCommon, IsCommon
  <2>2. b \in 128..247 /\ ~IsData(b) /\ ~IsRealtime(b)
    BY <2>1 DEF IsData, IsRealtime
  <2> QED BY <2>1, <2>2, HeardStatus
<1>2. b = 247 => heard.status # 240
  BY DEF SystemCommon, Tells, SysexMessageTold, SysexPacketTold, Opened
<1>3. st \in ParserStates
  BY HeardContext
<1>4. Opened(pk, "system", group, b) /\ Holds(pk.body, <<>>, 0) /\ Blank(pk.body, 0)
  BY NewPacket
<1> HIDE DEF pk
<1>5. CASE b \in {241, 242, 243}
  <2> DEFINE s == [opened EXCEPT !.missing = CommonLength[b]]
  <2>1. Quietly(b, s)
    <3>1. b \in DOMAIN CommonLength /\ b # 246
      BY <1>5 DEF CommonLength
    <3> QED BY <3>1 DEF SystemCommon, pk
  <2>2. s.packet = pk /\ s.packetByte = 2
    BY <1>3 DEF ParserStates
  <2>3. Expected(b) = Silence
    BY <1>1, <1>2, <1>5, ExpectedStatus
  <2>4. CommonLength[b] \in {1, 2}
    BY <1>5 DEF CommonLength
  <2> HIDE DEF s, opened
  <2>5. CommonTold(h, s)
    BY <1>4, <2>2, <2>4 DEF CommonTold
  <2>6. h.status = b
    OBVIOUS
  <2> HIDE DEF h
  <2>7. Tells(h, s)
    BY <1>5, <2>5, <2>6 DEF Tells, IsVoice
  <2> QED BY <1>1, <2>1, <2>3, <2>7, QuietAnswer, RightAnswer
<1>6. ASSUME b \in {244, 245, 246, 247} PROVE Tells(h, DropPacket(opened))
  <2>1. DropPacket(opened).packet = NoPacket
    BY <1>3 DEF DropPacket, ParserStates
  <2>2. h.status = b
    OBVIOUS
  <2> HIDE DEF opened, h
  <2> QED BY <1>6, <2>1, <2>2 DEF Tells, IsVoice
<1>7. CASE b \in {244, 245, 247}
  <2>1. Quietly(b, DropPacket(opened))
    <3>1. b \notin DOMAIN CommonLength /\ b # 246
      BY <1>7 DEF CommonLength
    <3> QED BY <3>1 DEF SystemCommon, pk
  <2>2. Expected(b) = Silence
    BY <1>1, <1>2, <1>7, ExpectedStatus
  <2> HIDE DEF opened
  <2> QED BY <1>1, <1>6, <1>7, <2>1, <2>2, QuietAnswer, RightAnswer
<1>8. CASE b = 246
  <2>1. Post(b, opened.packet, opened, DropPacket)
    BY <1>8 DEF SystemCommon, pk, CommonLength
  <2>2. opened.packet = pk
    BY <1>3 DEF ParserStates
  <2> HIDE DEF opened
  <2>3. Answer(b, pk, DropPacket(opened))
    BY <2>1, <2>2, ResetLeaves, Zenon DEF Post, Quietly, Answer
  <2>4. Expected(b) = pk
    BY <1>1, <1>8, SMT DEF Expected, pk
  <2> QED BY <1>1, <1>6, <1>8, <2>3, <2>4, RightAnswer
<1> QED BY <1>1, <1>5, <1>7, <1>8

LEMMA ChannelVoiceRight ==
  ASSUME IInv, Tells(heard, st), NEW b \in Bytes, ChannelVoice(b)
  PROVE  Right(b)
<1> DEFINE pk == Packet("voice", group, b)
           s == [st EXCEPT !.packet = pk, !.packetByte = 2, !.missing = VoiceLength(b)]
           h == [status |-> b, group |-> group, data |-> <<>>, enabled |-> invoke]
<1>1. /\ b \in 128..239 /\ Heard(b) = h /\ ~IsData(b) /\ ~IsRealtime(b)
      /\ IsVoice(b) /\ st \in ParserStates
  <2>1. b \in 128..239 /\ IsVoice(b)
    BY DEF ChannelVoice, IsVoice
  <2>2. b \in 128..247 /\ ~IsData(b) /\ ~IsRealtime(b)
    BY <2>1 DEF IsData, IsRealtime
  <2>3. Heard(b) = h
    BY <2>2, HeardStatus
  <2> HIDE DEF h
  <2> QED BY <2>1, <2>2, <2>3, HeardContext
<1>2. Expected(b) = Silence
  BY <1>1, ExpectedStatus
<1>3. VoiceLength(b) \in Nat \ {0}
  BY DEF VoiceLength
<1>4. Opened(pk, "voice", group, b) /\ Holds(pk.body, <<>>, 0)
      /\ Blank(pk.body, VoiceLength(b))
  BY <1>3, NewPacket
<1>5. (0 % VoiceLength(b)) = 0
  BY <1>3, NextCount
<1>6. Quietly(b, s)
  BY DEF ChannelVoice
<1> HIDE DEF pk
<1>7. s.packet = pk /\ s.packetByte = 2
  BY <1>1 DEF ParserStates
<1> HIDE DEF s
<1>8. VoiceTold(h, s)
  BY <1>4, <1>5, <1>7 DEF VoiceTold
<1>9. Tells(h, s)
  BY <1>1, <1>8 DEF Tells
<1> QED BY <1>1, <1>2, <1>6, <1>9, QuietAnswer, RightAnswer

\* A byte written into the packet, and what it changes: the body only.
Put(s, i, b) == [s EXCEPT !.packet.body[i] = b]

LEMMA PutBody ==
  \A s \in ParserStates : \A i \in Payload : \A b \in 0..127 :
    /\ Put(s, i, b) \in ParserStates /\ Put(s, i, b).packet \in Packets
    /\ Put(s, i, b).packet.kind = s.packet.kind
    /\ Put(s, i, b).packet.group = s.packet.group
    /\ Put(s, i, b).packet.status = s.packet.status
    /\ Put(s, i, b).packet.size = s.packet.size
    /\ Put(s, i, b).packet.body = [s.packet.body EXCEPT ![i] = b]
<1> TAKE s \in ParserStates
<1> TAKE i \in Payload
<1> TAKE b \in 0..127
<1> DEFINE pk == [s.packet EXCEPT !.body[i] = b]
<1>1. s.packet \in Packets
  BY DEF ParserStates
<1>2. /\ pk \in Packets
      /\ pk.kind = s.packet.kind /\ pk.group = s.packet.group
      /\ pk.status = s.packet.status /\ pk.size = s.packet.size
      /\ pk.body = [s.packet.body EXCEPT ![i] = b]
  BY <1>1 DEF Packets
<1>3. Put(s, i, b) = [s EXCEPT !.packet = pk]
  BY <1>1 DEF ParserStates, Packets, Put
<1> HIDE DEF pk
<1>4. [s EXCEPT !.packet = pk] \in ParserStates /\ [s EXCEPT !.packet = pk].packet = pk
  BY <1>2 DEF ParserStates
<1> QED BY <1>2, <1>3, <1>4

LEMMA PutFields ==
  /\ \A x \in ParserStates : \A i \in Payload : \A b \in 0..127 :
       Put(x, i, b).packet.kind = x.packet.kind /\ Put(x, i, b).packet.group = x.packet.group
  /\ \A x \in ParserStates : \A i \in Payload : \A b \in 0..127 :
       Put(x, i, b).packet.status = x.packet.status /\ Put(x, i, b).packet.size = x.packet.size
BY PutBody, ZenonT(60)

LEMMA PutWrites ==
  \A x \in ParserStates : \A i \in Payload : \A b \in 0..127 :
    Put(x, i, b).packet.body = [x.packet.body EXCEPT ![i] = b]
BY PutBody, ZenonT(60)

\* The packet after the next data byte: the bytes of the message so far.
LEMMA PutHolds ==
  ASSUME IInv, NEW b \in 0..127, NEW count \in Nat, NEW blank \in Nat,
         st.packetByte = 2 + count, st.packetByte \in Payload, count <= Len(heard.data),
         Holds(st.packet.body, heard.data, count), Blank(st.packet.body, blank)
  PROVE  LET put == Put(st, st.packetByte, b)
             pk  == put.packet
         IN  /\ put \in ParserStates /\ pk \in Packets
             /\ pk.kind = st.packet.kind /\ pk.group = st.packet.group
             /\ pk.status = st.packet.status /\ pk.size = st.packet.size
             /\ Holds(pk.body, Append(heard.data, b), count + 1)
             /\ Blank(pk.body, IF count + 1 <= blank THEN blank ELSE count + 1)
<1>0. /\ heard.data \in Seq(0..127) /\ st \in ParserStates
      /\ st.packet.body \in [Payload -> 0..127]
  BY DEF IInv, TypeOK, ParserStates, Packets
<1> DEFINE put == Put(st, st.packetByte, b)
           pk  == put.packet
<1>1. /\ put \in ParserStates /\ pk \in Packets
      /\ pk.kind = st.packet.kind /\ pk.group = st.packet.group
      /\ pk.status = st.packet.status /\ pk.size = st.packet.size
      /\ pk.body = [st.packet.body EXCEPT ![st.packetByte] = b]
  <2>1. put \in ParserStates /\ pk \in Packets
    BY <1>0, PutBody, Zenon
  <2>2. pk.kind = st.packet.kind /\ pk.group = st.packet.group
    BY <1>0, PutFields, Zenon
  <2>3. pk.status = st.packet.status /\ pk.size = st.packet.size
    BY <1>0, PutFields, Zenon
  <2>4. pk.body = [st.packet.body EXCEPT ![st.packetByte] = b]
    BY <1>0, PutWrites, ZenonT(40)
  <2> QED BY <2>1, <2>2, <2>3, <2>4
<1>2. PICK body \in [Payload -> 0..127] : body = st.packet.body
  BY <1>0
<1>3. pk.body = [body EXCEPT ![count + 2] = b] /\ count + 2 \in Payload
  <2>1. st.packetByte = count + 2
    OBVIOUS
  <2> QED BY <1>1, <1>2, <2>1, Zenon
<1>4. Holds(body, heard.data, count) /\ Blank(body, blank)
  BY <1>2, Zenon
<1>5. Holds([body EXCEPT ![count + 2] = b], Append(heard.data, b), count + 1)
  BY <1>0, <1>3, <1>4, HoldsNext, Zenon
<1>6. CASE count + 1 <= blank
  <2>1. Blank([body EXCEPT ![count + 2] = b], blank)
    BY <1>3, <1>4, <1>6, BlankWithin, Zenon
  <2> QED BY <1>1, <1>3, <1>5, <1>6, <2>1, Zenon
<1>7. CASE ~(count + 1 <= blank)
  <2>1. count + 1 >= blank
    BY <1>7
  <2>2. Blank([body EXCEPT ![count + 2] = b], count + 1)
    BY <1>3, <1>4, <2>1, BlankNext, Zenon
  <2> QED BY <1>1, <1>3, <1>5, <1>7, <2>2, Zenon
<1> QED BY <1>6, <1>7

\* A data byte that is not part of a message is ignored.
LEMMA IgnoredRight ==
  ASSUME IInv, Tells(heard, st), NEW b \in Bytes, MessageData(b),
         st.packet = NoPacket, heard.status # 240, ~IsVoice(heard.status)
  PROVE  Right(b)
<1>0. /\ b \in 0..127 /\ IsData(b) /\ heard \in Hearings /\ heard.data \in Seq(0..127)
      /\ heard.status \in {0} \union 241..247
  <2>1. IsData(b) /\ heard.status \in {0} \union 128..247 /\ heard.status \notin 128..239
    BY DEF MessageData, Tells, IsVoice
  <2>2. heard.status \in {0} \union 241..247
    BY <2>1
  <2> QED BY <2>1, <2>2, HeardContext
<1>1. Quietly(b, st)
  BY DEF MessageData, NoPacket, Packet
<1>2. ~IsRealtime(b) /\ b # 246 /\ b # 247
  BY <1>0 DEF IsRealtime
<1>3. CASE heard.status = 0
  <2>1. Heard(b) = heard
    BY <1>0, <1>2, <1>3, SMT DEF Heard
  <2>2. heard.status \notin DOMAIN CommonLength
    BY <1>3 DEF CommonLength
  <2>3. Expected(b) = Silence
    BY <1>0, <1>2, <2>2, Zenon DEF Expected
  <2> QED BY <1>1, <2>1, <2>3, QuietAnswer, RightAnswer
<1>4. CASE heard.status # 0
  <2> DEFINE h == Heard(b)
  <2>1. h.status = heard.status /\ h.data = Append(heard.data, b)
    BY <1>0, <1>4, HeardData
  <2> HIDE DEF h
  <2>2. PICK n \in Nat : n = Len(heard.data)
    BY <1>0
  <2>3. Len(Append(heard.data, b)) = n + 1
    BY <1>0, <2>2, AppendProperties
  <2>4. heard.status \in {241, 242, 243} => ~(n < CommonLength[heard.status])
    <3> SUFFICES ASSUME heard.status \in {241, 242, 243}, n < CommonLength[heard.status]
                 PROVE  FALSE
      OBVIOUS
    <3>1. Opened(st.packet, "system", heard.group, heard.status)
      BY <2>2 DEF Tells, CommonTold
    <3> QED BY <3>1 DEF Opened, NoPacket, Packet
  <2>5. heard.status \in DOMAIN CommonLength => n + 1 # CommonLength[heard.status]
    BY <2>4 DEF CommonLength
  <2>6. Expected(b) = Silence
    BY <1>0, <1>2, <2>3, <2>5, Zenon DEF Expected
  <2>7. heard.status \in {241, 242, 243} => CommonTold(h, st)
    <3>1. heard.status \in {241, 242, 243} => ~(n + 1 < CommonLength[heard.status])
      BY <2>4 DEF CommonLength
    <3>2. Len(h.data) = n + 1
      BY <2>1, <2>3
    <3> QED BY <2>1, <3>1, <3>2 DEF CommonTold
  <2>8. Tells(h, st)
    BY <1>0, <2>1, <2>7 DEF Tells, IsVoice
  <2> QED BY <1>1, <2>6, <2>8, QuietAnswer, RightAnswer DEF h
<1> QED BY <1>3, <1>4

\* The states a data byte of a message may lead to, by their fields.
LEMMA FilledFields ==
  ASSUME IInv, NEW b \in 0..127, st.packetByte \in Payload, st.missing \in {1, 2}
  PROVE  LET pk     == Put(st, st.packetByte, b).packet
             filled == [st EXCEPT !.packet.body[st.packetByte] = b, !.missing = @ - 1]
             rerun  == [filled EXCEPT !.missing = st.packetByte - 1, !.packetByte = 2]
             next   == [filled EXCEPT !.packetByte = @ + 1]
         IN  /\ filled.packet = pk /\ filled.missing = st.missing - 1
             /\ next.packet = pk /\ next.packetByte = st.packetByte + 1
             /\ rerun.packet = pk /\ rerun.packetByte = 2
             /\ DropPacket(filled).packet = NoPacket
<1> DEFINE put    == Put(st, st.packetByte, b)
           pk     == put.packet
           filled == [st EXCEPT !.packet.body[st.packetByte] = b, !.missing = @ - 1]
           rerun  == [filled EXCEPT !.missing = st.packetByte - 1, !.packetByte = 2]
           next   == [filled EXCEPT !.packetByte = @ + 1]
<1>0. st \in ParserStates /\ put \in ParserStates /\ pk \in Packets
  <2>1. st \in ParserStates
    BY DEF IInv, TypeOK
  <2>2. put \in ParserStates /\ pk \in Packets
    BY <2>1, PutBody, Zenon
  <2> QED BY <2>1, <2>2
<1>1. filled = [st EXCEPT !.packet = pk, !.packetByte = st.packetByte,
                          !.missing = st.missing - 1]
  BY <1>0 DEF ParserStates, Put
<1> HIDE DEF put, pk
<1>2. PICK m \in 0..2, n \in Nat : m = st.missing - 1 /\ n = st.packetByte
  BY <1>0 DEF ParserStates
<1> DEFINE f == [st EXCEPT !.packet = pk, !.packetByte = n, !.missing = m]
<1>3. f \in ParserStates
  BY <1>0, UpdateType, Zenon
<1>4. f.packet = pk /\ f.packetByte = n /\ f.missing = m
  BY <1>0, UpdateFields
<1>5. filled = f
  BY <1>1, <1>2, Zenon
<1> HIDE DEF filled, f
<1>6. \A pos, k : LET g == [f EXCEPT !.missing = k, !.packetByte = pos]
                 IN  g.packet = pk /\ g.packetByte = pos
  BY <1>3, <1>4 DEF ParserStates
<1>7. \A pos : LET g == [f EXCEPT !.packetByte = pos]
              IN  g.packet = pk /\ g.packetByte = pos
  BY <1>3, <1>4 DEF ParserStates
<1>8. DropPacket(f).packet = NoPacket
  BY <1>3 DEF DropPacket, ParserStates
<1>9. rerun.packet = pk /\ rerun.packetByte = 2
  <2>1. rerun = [f EXCEPT !.missing = st.packetByte - 1, !.packetByte = 2]
    BY <1>5, Zenon
  <2> QED BY <1>6, <2>1, ZenonT(40)
<1>10. next.packet = pk /\ next.packetByte = st.packetByte + 1
  BY <1>2, <1>4, <1>5, <1>7, Zenon
<1> QED BY <1>2, <1>4, <1>5, <1>8, <1>9, <1>10, Zenon DEF pk, put, filled

LEMMA VoiceDataRight ==
  ASSUME IInv, Tells(heard, st), NEW b \in Bytes, MessageData(b),
         IsVoice(heard.status)
  PROVE  Right(b)
<1> DEFINE data   == Append(heard.data, b)
           pk     == Put(st, st.packetByte, b).packet
           filled == [st EXCEPT !.packet.body[st.packetByte] = b, !.missing = @ - 1]
           rerun  == [filled EXCEPT !.missing = st.packetByte - 1, !.packetByte = 2]
           next   == [filled EXCEPT !.packetByte = @ + 1]
           h      == Heard(b)
<1>0. /\ b \in 0..127 /\ IsData(b) /\ Sound(st) /\ st.packet \in Packets
      /\ heard.status \in 128..239 /\ PacketEnd \in Nat /\ PacketEnd >= 4
  <2>1. IsData(b) /\ heard.status \in 128..239
    BY DEF MessageData, IsVoice
  <2>2. Sound(st) /\ st.packet \in Packets /\ (IsData(b) => b \in 0..127)
    BY HeardContext
  <2> QED BY <2>1, <2>2, ParserAssumption, Zenon DEF ParserAssumption
<1>d. heard \in Hearings /\ heard.data \in Seq(0..127) /\ Len(heard.data) \in Nat
  BY HeardContext
<1>1. ~IsRealtime(b) /\ b # 246 /\ b # 247
  BY <1>0 DEF IsRealtime
<1>2. PICK length \in {1, 2}, n \in Nat, count \in Nat :
        /\ length = VoiceLength(heard.status) /\ n = Len(heard.data) /\ count = (n % length)
  <2>1. VoiceLength(heard.status) \in {1, 2} /\ Len(heard.data) \in Nat
    BY <1>0, <1>d, Zenon DEF VoiceLength
  <2>2. \A l \in {1, 2} : \A k \in Nat : (k % l) \in Nat
    BY NextCount
  <2> QED BY <2>1, <2>2
<1>3. /\ count < length /\ count <= n
      /\ ((n + 1) % length) = IF count + 1 = length THEN 0 ELSE count + 1
  <2>1. length \in Nat \ {0}
    BY <1>2
  <2>2. /\ (n % length) \in 0..length-1 /\ (n % length) <= n
        /\ ((n + 1) % length) = IF (n % length) + 1 = length THEN 0 ELSE (n % length) + 1
    BY <2>1, NextCount
  <2> QED BY <1>2, <2>1, <2>2
<1>4. /\ Opened(st.packet, "voice", heard.group, heard.status)
      /\ st.packetByte = 2 + count
      /\ Holds(st.packet.body, heard.data, count)
      /\ Blank(st.packet.body, length)
  BY <1>2 DEF Tells, VoiceTold
<1>5. /\ st.missing = length - count /\ st.missing \in {1, 2} /\ st.missing # 0
      /\ st.packetByte \in Payload /\ ~(st.packetByte >= 4)
  <2>1. st.packet.kind = "voice" /\ st.packet.status = heard.status
    BY <1>4 DEF Opened
  <2>2. PICK m \in Nat : m = st.missing
    BY <1>0 DEF Sound, ParserStates
  <2>3. st.missing > 0 /\ st.packetByte - 2 + st.missing = MessageLength(st.packet)
    BY <1>0, <2>1 DEF Sound, Positioned
  <2>4. MessageLength(st.packet) = length
    BY <1>2, <2>1, Zenon DEF MessageLength
  <2>5. m > 0 /\ (2 + count) - 2 + m = length
    BY <1>4, <2>2, <2>3, <2>4, Zenon
  <2>6. m = length - count /\ m \in {1, 2} /\ 2 + count < 4
    BY <1>3, <2>5
  <2>7. 2 + count \in Payload
    BY <1>0, <2>6 DEF Payload
  <2>8. ~(2 + count >= 4) /\ m # 0
    BY <2>6
  <2> QED BY <1>4, <2>2, <2>6, <2>7, <2>8, Zenon
<1>6. /\ pk \in Packets /\ pk.kind = "voice" /\ pk.group = heard.group
      /\ pk.status = heard.status /\ pk.size = 0
      /\ Holds(pk.body, data, count + 1) /\ Blank(pk.body, length)
  <2>1. /\ pk \in Packets /\ pk.kind = st.packet.kind /\ pk.group = st.packet.group
        /\ pk.status = st.packet.status /\ pk.size = st.packet.size
        /\ Holds(pk.body, Append(heard.data, b), count + 1)
        /\ Blank(pk.body, IF count + 1 <= length THEN length ELSE count + 1)
    <3>1. length \in Nat /\ count <= Len(heard.data)
      BY <1>2, <1>3
    <3> HIDE DEF pk
    <3> QED BY <1>0, <1>4, <1>5, <3>1, PutHolds, Zenon DEF pk
  <2>2. count + 1 <= length
    BY <1>2, <1>3
  <2> QED BY <1>4, <2>1, <2>2 DEF Opened
<1>7. /\ filled.packet = pk /\ filled.missing = st.missing - 1
      /\ next.packet = pk /\ next.packetByte = st.packetByte + 1
      /\ rerun.packet = pk /\ rerun.packetByte = 2
  BY <1>0, <1>5, FilledFields, Zenon
<1>8. st.packet.status # 0 /\ st.packet.kind = "voice"
  BY <1>0, <1>4 DEF Opened
<1>9. /\ h.status = heard.status /\ h.data = data /\ h.group = heard.group
      /\ Len(h.data) = n + 1
  <2>1. heard.status # 0 /\ heard.status # 240
    BY <1>0
  <2>2. h.status = heard.status /\ h.data = data /\ h.group = heard.group
    BY <1>0, <1>d, <2>1, HeardData, Zenon
  <2>3. Len(Append(heard.data, b)) = Len(heard.data) + 1
    BY <1>0, <1>d, AppendProperties
  <2> QED BY <1>2, <2>2, <2>3, Zenon
<1>10. ASSUME NEW s, s.packet = pk, s.packetByte = 2 + ((n + 1) % length),
              Holds(pk.body, data, (n + 1) % length)
       PROVE  Tells(h, s)
  <2> HIDE DEF h, pk, data
  <2>1. VoiceTold(h, s)
    BY <1>2, <1>6, <1>9, <1>10 DEF VoiceTold, Opened
  <2>2. h.status \in 128..239
    BY <1>0, <1>9, Zenon
  <2> QED BY <2>1, <2>2 DEF Tells, IsVoice
<1>11. CASE count + 1 = length
  <2>1. Post(b, rerun.packet, rerun, Same)
    <3>1. ~(st.packet.status = 0 \/ st.missing = 0 \/ st.packetByte >= 4)
      BY <1>5, <1>8, Zenon
    <3>2. filled.missing = 0
      BY <1>5, <1>7, <1>11
    <3> QED BY <1>8, <3>1, <3>2 DEF MessageData
  <2> HIDE DEF filled, rerun, next
  <2>2. Answer(b, pk, rerun)
    BY <1>7, <2>1, ResetLeaves, Zenon DEF Post, Quietly, Same, Answer
  <2>3. ((n + 1) % length) = 0
    BY <1>3, <1>11
  <2>4. Tells(h, rerun)
    BY <1>7, <1>10, <2>3, HoldsNothing
  <2>5. pk = PacketOf("voice", heard.group, heard.status, data, length, 0)
    <3>1. length \in Nat
      BY <1>2
    <3>2. Holds(pk.body, data, length)
      BY <1>6, <1>11, Zenon
    <3> HIDE DEF pk, data
    <3> QED BY <1>6, <3>1, <3>2, PacketKnown
  <2>6. Expected(b) = pk
    <3>1. (Len(data) % VoiceLength(heard.status)) = 0
      BY <1>2, <1>9, <2>3
    <3>2. IsData(b) /\ IsVoice(heard.status) /\ ~IsRealtime(b)
      BY <1>0, <1>1
    <3>3. heard.status \notin DOMAIN CommonLength /\ heard.status # 240
      BY <1>0 DEF CommonLength
    <3>4. Expected(b) = PacketOf("voice", heard.group, heard.status, data,
                                 VoiceLength(heard.status), 0)
      BY <1>1, <3>1, <3>2, <3>3, SMT DEF Expected
    <3> QED BY <1>2, <2>5, <3>4, Zenon
  <2> QED BY <2>2, <2>4, <2>6, RightAnswer
<1>12. CASE count + 1 # length
  <2>1. Quietly(b, next)
    <3>1. ~(st.packet.status = 0 \/ st.missing = 0 \/ st.packetByte >= 4)
      BY <1>5, <1>8, Zenon
    <3>2. filled.missing > 0
      BY <1>2, <1>3, <1>5, <1>7, <1>12
    <3> QED BY <3>1, <3>2 DEF MessageData
  <2> HIDE DEF filled, rerun, next
  <2>2. ((n + 1) % length) = count + 1
    BY <1>3, <1>12
  <2>3. next.packetByte = 2 + (count + 1)
    BY <1>4, <1>7
  <2>4. Tells(h, next)
    BY <1>6, <1>7, <1>10, <2>2, <2>3
  <2>5. Expected(b) = Silence
    <3>1. (Len(data) % VoiceLength(heard.status)) # 0
      BY <1>2, <1>9, <2>2
    <3>2. heard.status \notin DOMAIN CommonLength /\ heard.status # 240
      BY <1>0 DEF CommonLength
    <3> HIDE DEF data
    <3> QED BY <1>1, <3>1, <3>2, Zenon DEF Expected, data
  <2> QED BY <2>1, <2>4, <2>5, QuietAnswer, RightAnswer
<1> QED BY <1>11, <1>12

\* A system common message of which data bytes are still to come.
CommonUnderWay ==
  /\ heard.status \in {241, 242, 243}
  /\ Len(heard.data) < CommonLength[heard.status]

LEMMA CommonDataRight ==
  ASSUME IInv, Tells(heard, st), NEW b \in Bytes, MessageData(b),
         CommonUnderWay
  PROVE  Right(b)
<1> DEFINE data   == Append(heard.data, b)
           pk     == Put(st, st.packetByte, b).packet
           filled == [st EXCEPT !.packet.body[st.packetByte] = b, !.missing = @ - 1]
           next   == [filled EXCEPT !.packetByte = @ + 1]
           h      == Heard(b)
<1>0. /\ b \in 0..127 /\ IsData(b) /\ Sound(st) /\ st.packet \in Packets
      /\ PacketEnd \in Nat /\ PacketEnd >= 4
  <2>1. Sound(st) /\ st.packet \in Packets /\ (IsData(b) => b \in 0..127)
    BY HeardContext
  <2> QED BY <2>1, ParserAssumption, Zenon DEF ParserAssumption, MessageData
<1>d. heard \in Hearings /\ heard.data \in Seq(0..127) /\ Len(heard.data) \in Nat
  BY HeardContext
<1>s. heard.status \in {241, 242, 243}
  BY DEF CommonUnderWay
<1>1. ~IsRealtime(b) /\ b # 246 /\ b # 247
  BY <1>0 DEF IsRealtime
<1>2. PICK length \in {1, 2}, count \in Nat :
        length = CommonLength[heard.status] /\ count = Len(heard.data)
  <2>1. CommonLength[heard.status] \in {1, 2}
    BY <1>s DEF CommonLength
  <2> QED BY <1>d, <2>1, Zenon
<1>3. count < length
  BY <1>2, Zenon DEF CommonUnderWay
<1>4. /\ Opened(st.packet, "system", heard.group, heard.status)
      /\ st.packetByte = 2 + count
      /\ Holds(st.packet.body, heard.data, count)
      /\ Blank(st.packet.body, count)
  <2>1. CommonTold(heard, st)
    BY <1>s, Zenon DEF Tells
  <2> QED BY <1>2, <1>3, <2>1, Zenon DEF CommonTold
<1>5. /\ st.missing = length - count /\ st.missing \in {1, 2} /\ st.missing # 0
      /\ st.packetByte \in Payload /\ ~(st.packetByte >= 4)
  <2>1. st.packet.kind = "system" /\ st.packet.status = heard.status
    BY <1>4 DEF Opened
  <2>2. PICK m \in Nat : m = st.missing
    BY <1>0 DEF Sound, ParserStates
  <2>3. st.missing > 0 /\ st.packetByte - 2 + st.missing = MessageLength(st.packet)
    BY <1>0, <2>1 DEF Sound, Positioned
  <2>4. MessageLength(st.packet) = length
    BY <1>2, <2>1, Zenon DEF MessageLength
  <2>5. m > 0 /\ (2 + count) - 2 + m = length
    BY <1>4, <2>2, <2>3, <2>4, Zenon
  <2>6. m = length - count /\ m \in {1, 2} /\ 2 + count < 4
    BY <1>3, <2>5
  <2>7. 2 + count \in Payload
    BY <1>0, <2>6 DEF Payload
  <2>8. ~(2 + count >= 4) /\ m # 0
    BY <2>6
  <2>9. st.packetByte = 2 + count
    BY <1>4
  <2> QED BY <2>2, <2>6, <2>7, <2>8, <2>9, Zenon
<1>6. /\ pk \in Packets /\ pk.kind = "system" /\ pk.group = heard.group
      /\ pk.status = heard.status /\ pk.size = 0
      /\ Holds(pk.body, data, count + 1) /\ Blank(pk.body, count + 1)
  <2>1. /\ pk \in Packets /\ pk.kind = st.packet.kind /\ pk.group = st.packet.group
        /\ pk.status = st.packet.status /\ pk.size = st.packet.size
        /\ Holds(pk.body, Append(heard.data, b), count + 1)
        /\ Blank(pk.body, IF count + 1 <= count THEN count ELSE count + 1)
    <3>1. count <= Len(heard.data)
      BY <1>2
    <3> HIDE DEF pk
    <3> QED BY <1>0, <1>4, <1>5, <3>1, PutHolds, Zenon DEF pk
  <2>2. ~(count + 1 <= count)
    OBVIOUS
  <2> QED BY <1>4, <2>1, <2>2, Zenon DEF Opened
<1>7. /\ filled.packet = pk /\ filled.missing = st.missing - 1
      /\ next.packet = pk /\ next.packetByte = st.packetByte + 1
      /\ DropPacket(filled).packet = NoPacket
  BY <1>0, <1>5, FilledFields, Zenon
<1>8. /\ st.packet.status # 0 /\ st.packet.kind = "system"
      /\ st.packet.kind # "voice"
  BY <1>s, <1>4 DEF Opened
<1>9. /\ h.status = heard.status /\ h.data = data /\ h.group = heard.group
      /\ Len(h.data) = count + 1
  <2>1. heard.status # 0 /\ heard.status # 240
    BY <1>s
  <2>2. h.status = heard.status /\ h.data = data /\ h.group = heard.group
    <3>1. b \in 0..127 /\ heard \in Hearings
      BY <1>0, <1>d, Zenon
    <3> QED BY <2>1, <3>1, HeardData, Zenon DEF h, data
  <2>3. Len(Append(heard.data, b)) = Len(heard.data) + 1
    BY <1>0, <1>d, AppendProperties
  <2> QED BY <1>2, <2>2, <2>3, Zenon
<1>10. h.status \in {241, 242, 243} /\ ~IsVoice(heard.status) /\ heard.status # 240
       /\ heard.status \in DOMAIN CommonLength
  <2>1. ~IsVoice(heard.status) /\ heard.status # 240 /\ heard.status \in DOMAIN CommonLength
    BY <1>s DEF IsVoice, CommonLength
  <2> QED BY <1>s, <1>9, <2>1, Zenon
<1>11. ASSUME NEW s, CommonTold(h, s) PROVE Tells(h, s)
  <2>1. h.status \in {241, 242, 243}
    BY <1>10
  <2> HIDE DEF h
  <2>2. h.status \in 128..247 /\ h.status \notin 128..239
    BY <2>1
  <2>3. h.status \notin {0} \union 244..247 /\ h.status # 240
    BY <2>1
  <2> QED BY <1>11, <2>1, <2>2, <2>3, Zenon DEF Tells, IsVoice
<1>12. CASE count + 1 = length
  <2>1. Post(b, filled.packet, filled, DropPacket)
    <3>1. ~(st.packet.status = 0 \/ st.missing = 0 \/ st.packetByte >= 4)
      BY <1>5, <1>8, Zenon
    <3>2. filled.missing = 0
      BY <1>5, <1>7, <1>12
    <3> QED BY <1>8, <3>1, <3>2 DEF MessageData
  <2> HIDE DEF filled, next
  <2>2. Answer(b, pk, DropPacket(filled))
    BY <1>7, <2>1, ResetLeaves, Zenon DEF Post, Quietly, Answer
  <2>3. Tells(h, DropPacket(filled))
    <3>1. ~(count + 1 < CommonLength[h.status])
      BY <1>2, <1>9, <1>12
    <3>2. CommonTold(h, DropPacket(filled))
      BY <1>7, <1>9, <3>1, Zenon DEF CommonTold
    <3> QED BY <1>11, <3>2
  <2>4. pk = PacketOf("system", heard.group, heard.status, data, length, 0)
    <3>1. length \in Nat
      BY <1>2
    <3>2. Holds(pk.body, data, length) /\ Blank(pk.body, length)
      BY <1>6, <1>12, Zenon
    <3> HIDE DEF pk, data
    <3> QED BY <1>6, <3>1, <3>2, PacketKnown
  <2>5. Expected(b) = pk
    <3>1. Len(data) = CommonLength[heard.status]
      BY <1>2, <1>9, <1>12, Zenon
    <3>2. Expected(b) = PacketOf("system", heard.group, heard.status, data, Len(data), 0)
      BY <1>0, <1>1, <1>10, <3>1, Zenon DEF Expected
    <3> QED BY <1>2, <2>4, <3>1, <3>2, Zenon
  <2> QED BY <2>2, <2>3, <2>5, RightAnswer
<1>13. CASE count + 1 # length
  <2>1. Quietly(b, next)
    <3>1. ~(st.packet.status = 0 \/ st.missing = 0 \/ st.packetByte >= 4)
      BY <1>5, <1>8, Zenon
    <3>2. filled.missing > 0
      BY <1>2, <1>3, <1>5, <1>7, <1>13
    <3> QED BY <3>1, <3>2 DEF MessageData
  <2> HIDE DEF filled, next
  <2>2. Tells(h, next)
    <3>1. count + 1 < CommonLength[h.status]
      <4>1. count + 1 < length
        BY <1>2, <1>3, <1>13
      <4> QED BY <1>2, <1>9, <4>1, Zenon
    <3>2. next.packetByte = 2 + (count + 1)
      BY <1>4, <1>7
    <3> HIDE DEF h, pk, data
    <3>3. CommonTold(h, next)
      BY <1>6, <1>7, <1>9, <3>1, <3>2 DEF CommonTold, Opened
    <3> QED BY <1>11, <3>3
  <2>3. Expected(b) = Silence
    <3>1. Len(data) # CommonLength[heard.status]
      BY <1>2, <1>9, <1>13, Zenon
    <3> QED BY <1>1, <1>10, <3>1, Zenon DEF Expected
  <2> QED BY <2>1, <2>2, <2>3, QuietAnswer, RightAnswer
<1> QED BY <1>12, <1>13

LEMMA MessageDataRight ==
  ASSUME IInv, Tells(heard, st), NEW b \in Bytes, MessageData(b)
  PROVE  Right(b)
<1>1. heard.status # 240
  BY DEF Tells, SysexMessageTold, SysexPacketTold, Opened, MessageData
<1>2. CASE IsVoice(heard.status)
  BY <1>2, VoiceDataRight
<1>3. CASE CommonUnderWay
  BY <1>3, CommonDataRight
<1>4. CASE ~IsVoice(heard.status) /\ ~CommonUnderWay
  <2>1. st.packet = NoPacket
    <3>1. CASE heard.status \in {241, 242, 243}
      BY <1>4, <3>1, Zenon DEF Tells, CommonTold, CommonUnderWay
    <3>2. CASE heard.status \notin {241, 242, 243}
      <4>1. heard.status \in {0} \union 244..247
        BY <1>1, <1>4, <3>2 DEF Tells, IsVoice
      <4> QED BY <4>1 DEF Tells
    <3> QED BY <3>1, <3>2
  <2> QED BY <1>1, <1>4, <2>1, IgnoredRight
<1> QED BY <1>2, <1>3, <1>4

-----------------------------------------------------------------------------
(* SysEx as a message: the id and the data. *)

\* A slice of a sequence of bytes.
LEMMA Slice ==
  \A s \in Seq(0..127) : \A lo, hi \in Int :
    (\A i \in lo..hi : s[i] \in 0..127) =>
      /\ SubSeq(s, lo, hi) \in Seq(0..127)
      /\ Len(SubSeq(s, lo, hi)) = IF lo <= hi THEN hi - lo + 1 ELSE 0
      /\ \A i \in 1..hi - lo + 1 : SubSeq(s, lo, hi)[i] = s[lo + i - 1]
<1> SUFFICES ASSUME NEW s \in Seq(0..127), NEW lo \in Int, NEW hi \in Int,
                    \A i \in lo..hi : s[i] \in 0..127
             PROVE  /\ SubSeq(s, lo, hi) \in Seq(0..127)
                    /\ Len(SubSeq(s, lo, hi)) = IF lo <= hi THEN hi - lo + 1 ELSE 0
                    /\ \A i \in 1..hi - lo + 1 : SubSeq(s, lo, hi)[i] = s[lo + i - 1]
  OBVIOUS
<1> QED BY SubSeqProperties

\* The first bytes of a longer sequence, and the last ones.
LEMMA SubSeqAppend ==
  \A data \in Seq(0..127) : \A b \in 0..127 : \A k \in Nat :
    /\ k <= Len(data) => SubSeq(Append(data, b), 1, k) = SubSeq(data, 1, k)
    /\ k <= Len(data) => SubSeq(Append(data, b), k + 1, Len(data) + 1)
                           = Append(SubSeq(data, k + 1, Len(data)), b)
<1> SUFFICES ASSUME NEW data \in Seq(0..127), NEW b \in 0..127, NEW k \in Nat, k <= Len(data)
             PROVE  /\ SubSeq(Append(data, b), 1, k) = SubSeq(data, 1, k)
                    /\ SubSeq(Append(data, b), k + 1, Len(data) + 1)
                         = Append(SubSeq(data, k + 1, Len(data)), b)
  OBVIOUS
<1>1. PICK n \in Nat : n = Len(data)
  OBVIOUS
<1> DEFINE long == Append(data, b)
<1>2. /\ long \in Seq(0..127) /\ Len(long) = n + 1 /\ long[n + 1] = b
      /\ \A i \in 1..n : long[i] = data[i]
  BY <1>1, AppendProperties
<1>3. \A i \in 1..n : data[i] \in 0..127
  BY <1>1
<1> HIDE DEF long
<1>4. SubSeq(long, 1, k) = SubSeq(data, 1, k)
  <2>1. /\ SubSeq(long, 1, k) = [i \in 1..k |-> long[i]]
        /\ SubSeq(data, 1, k) = [i \in 1..k |-> data[i]]
    BY <1>1, <1>2
  <2> QED BY <1>1, <1>2, <2>1
<1>5. SubSeq(long, k + 1, n + 1) = Append(SubSeq(data, k + 1, n), b)
  <2> DEFINE a == SubSeq(long, k + 1, n + 1)
             c == SubSeq(data, k + 1, n)
  <2>1. PICK m \in Nat : n = k + m
    <3>1. \A i, j \in Nat : i <= j => \E m \in Nat : j = i + m
      <4>1. \A i, j \in Nat : i <= j => j - i \in Nat /\ j = i + (j - i)
        OBVIOUS
      <4> QED BY <4>1, Zenon
    <3> QED BY <1>1, <3>1, Zenon
  <2>2. /\ a \in Seq(0..127) /\ Len(a) = m + 1
        /\ \A i \in 1..m + 1 : a[i] = long[k + i]
    <3>1. \A i \in k + 1..n + 1 : long[i] \in 0..127
      <4>1. k + 1..n + 1 \subseteq 1..n + 1
        OBVIOUS
      <4>2. \A i \in 1..n + 1 : long[i] \in 0..127
        <5>1. \A s \in Seq(0..127) : \A i \in 1..Len(s) : s[i] \in 0..127
          BY ElementOfSeq
        <5> QED BY <1>2, <5>1, Zenon
      <4> QED BY <4>1, <4>2, Zenon
    <3>2. /\ a \in Seq(0..127)
          /\ Len(a) = IF k + 1 <= n + 1 THEN (n + 1) - (k + 1) + 1 ELSE 0
          /\ \A i \in 1..(n + 1) - (k + 1) + 1 : a[i] = long[(k + 1) + i - 1]
      <4>1. PICK lo \in Int, hi \in Int : lo = k + 1 /\ hi = n + 1
        OBVIOUS
      <4> HIDE DEF a
      <4>2. a = SubSeq(long, lo, hi) /\ \A i \in lo..hi : long[i] \in 0..127
        BY <3>1, <4>1, Zenon DEF a
      <4>3. /\ a \in Seq(0..127)
            /\ Len(a) = IF lo <= hi THEN hi - lo + 1 ELSE 0
            /\ \A i \in 1..hi - lo + 1 : a[i] = long[lo + i - 1]
        BY <1>2, <4>2, Slice
      <4> QED BY <4>1, <4>3, Zenon
    <3> HIDE DEF a
    <3>3. /\ (n + 1) - (k + 1) + 1 = m + 1 /\ k + 1 <= n + 1
          /\ \A i \in 1..m + 1 : (k + 1) + i - 1 = k + i
      BY <2>1
    <3> QED BY <3>2, <3>3, Zenon
  <2>3. /\ c \in Seq(0..127) /\ Len(c) = m
        /\ \A i \in 1..m : c[i] = data[k + i]
    <3>1. \A i \in k + 1..n : data[i] \in 0..127
      <4>1. k + 1..n \subseteq 1..n
        OBVIOUS
      <4> QED BY <1>3, <4>1
    <3>2. /\ c \in Seq(0..127)
          /\ Len(c) = IF k + 1 <= n THEN n - (k + 1) + 1 ELSE 0
          /\ \A i \in 1..n - (k + 1) + 1 : c[i] = data[(k + 1) + i - 1]
      <4>1. PICK lo \in Int, hi \in Int : lo = k + 1 /\ hi = n
        OBVIOUS
      <4> HIDE DEF c
      <4>2. c = SubSeq(data, lo, hi) /\ \A i \in lo..hi : data[i] \in 0..127
        BY <3>1, <4>1, Zenon DEF c
      <4>3. /\ c \in Seq(0..127)
            /\ Len(c) = IF lo <= hi THEN hi - lo + 1 ELSE 0
            /\ \A i \in 1..hi - lo + 1 : c[i] = data[lo + i - 1]
        BY <4>2, Slice
      <4> QED BY <4>1, <4>3, Zenon
    <3> HIDE DEF c
    <3>3. /\ n - (k + 1) + 1 = m
          /\ (IF k + 1 <= n THEN n - (k + 1) + 1 ELSE 0) = m
          /\ \A i \in 1..m : (k + 1) + i - 1 = k + i
      BY <2>1
    <3> QED BY <3>2, <3>3, Zenon
  <2> HIDE DEF a, c
  <2>4. /\ Append(c, b) \in Seq(0..127) /\ Len(Append(c, b)) = m + 1
        /\ \A i \in 1..m : Append(c, b)[i] = c[i]
        /\ Append(c, b)[m + 1] = b
    BY <2>3, AppendProperties
  <2>5. ASSUME NEW i \in 1..m + 1 PROVE a[i] = Append(c, b)[i]
    <3>1. CASE i = m + 1
      <4>1. k + i = n + 1
        BY <2>1, <3>1
      <4> QED BY <1>2, <2>2, <2>4, <3>1, <4>1
    <3>2. CASE i # m + 1
      <4>1. i \in 1..m /\ k + i \in 1..n
        BY <2>1, <3>2
      <4> QED BY <1>2, <2>2, <2>3, <2>4, <4>1
    <3> QED BY <3>1, <3>2
  <2> QED BY <2>2, <2>4, <2>5, SeqEqual DEF a, c
<1> QED BY <1>1, <1>4, <1>5 DEF long

\* Manufacturer id and data of a SysEx, as the message under way has them.
Split(data) ==
  [manufacturer |-> SubSeq(data, 1, IdSize(data)),
   data         |-> SubSeq(data, IdSize(data) + 1, Len(data))]

LEMMA SplitNothing == IdSize(<<>>) = 0 /\ Split(<<>>) = NoSysex
<1>1. IdSize(<<>>) = 0
  BY DEF IdSize
<1>2. SubSeq(<<>>, 1, 0) = <<>> /\ Len(<<>>) = 0 /\ 0 + 1 = 1
  OBVIOUS
<1> QED BY <1>1, <1>2 DEF Split, NoSysex

\* The first byte of a SysEx begins its id.
LEMMA SplitFirst ==
  ASSUME NEW b \in 0..127
  PROVE  /\ IdSize(Append(<<>>, b)) = 1
         /\ Split(Append(<<>>, b)) = [manufacturer |-> <<b>>, data |-> <<>>]
<1>4. Append(<<>>, b) = <<b>> /\ Len(<<b>>) = 1 /\ <<b>> # <<>>
  OBVIOUS
<1>5. IdSize(<<b>>) = 1
  BY <1>4 DEF IdSize
<1>6. SubSeq(<<b>>, 1, 1) = <<b>> /\ SubSeq(<<b>>, 2, 1) = <<>>
  <2>1. <<b>> \in Seq(0..127)
    OBVIOUS
  <2>2. SubSeq(<<b>>, 1, Len(<<b>>)) = <<b>>
    BY <2>1, SubSeqFull
  <2>3. SubSeq(<<b>>, 2, 1) = <<>>
    BY SubSeqEmpty
  <2> QED BY <1>4, <2>2, <2>3, Zenon
<1>7. 1 + 1 = 2
  OBVIOUS
<1> QED BY <1>4, <1>5, <1>6, <1>7, Zenon DEF Split

\* The id of a SysEx with data, and the byte that tells its size.
LEMMA SplitId ==
  ASSUME NEW data \in Seq(0..127), data # <<>>
  PROVE  /\ Split(data).manufacturer # <<>> /\ Split(data).manufacturer[1] = data[1]
         /\ IdSize(data) \in 1..3 /\ IdSize(data) <= Len(data)
<1>1. PICK n \in Nat : n = Len(data) /\ n >= 1
  <2>1. Len(data) # 0
    BY EmptySeq
  <2> QED BY <2>1
<1>2. PICK k \in 1..3 : k = IdSize(data) /\ k <= n
  BY <1>1 DEF IdSize
<1>3. SubSeq(data, 1, k) # <<>> /\ SubSeq(data, 1, k)[1] = data[1]
  <2>1. Len(SubSeq(data, 1, k)) = k
    BY <1>1, <1>2
  <2> QED BY <1>1, <1>2, <2>1
<1>4. Split(data).manufacturer = SubSeq(data, 1, IdSize(data))
  BY DEF Split
<1> QED BY <1>1, <1>2, <1>3, <1>4, Zenon

\* A further byte belongs to the id while that is short, and to the data then.
LEMMA SplitNext ==
  ASSUME NEW data \in Seq(0..127), data # <<>>, NEW b \in 0..127
  PROVE  IF data[1] = 0 /\ IdSize(data) < 3
           THEN /\ IdSize(Append(data, b)) = IdSize(data) + 1
                /\ Split(Append(data, b))
                     = [manufacturer |-> Append(Split(data).manufacturer, b),
                        data         |-> Split(data).data]
           ELSE /\ IdSize(Append(data, b)) = IdSize(data)
                /\ Split(Append(data, b))
                     = [manufacturer |-> Split(data).manufacturer,
                        data         |-> Append(Split(data).data, b)]
<1> DEFINE long == Append(data, b)
<1>1. PICK n \in Nat : n = Len(data) /\ n >= 1
  <2>1. Len(data) # 0
    BY EmptySeq
  <2> QED BY <2>1
<1>2. long \in Seq(0..127) /\ Len(long) = n + 1 /\ long # <<>> /\ long[1] = data[1]
  <2>1. long \in Seq(0..127) /\ Len(long) = n + 1 /\ \A i \in 1..n : long[i] = data[i]
    BY <1>1, AppendProperties
  <2>2. Len(<<>>) = 0
    OBVIOUS
  <2>3. long # <<>>
    BY <2>1, <2>2
  <2> HIDE DEF long
  <2> QED BY <1>1, <2>1, <2>3
<1>3. \A k \in Nat :
        k <= n => /\ SubSeq(long, 1, k) = SubSeq(data, 1, k)
                  /\ SubSeq(long, k + 1, n + 1) = Append(SubSeq(data, k + 1, n), b)
  BY <1>1, SubSeqAppend
<1>4. /\ Split(data).manufacturer = SubSeq(data, 1, IdSize(data))
      /\ Split(data).data = SubSeq(data, IdSize(data) + 1, n)
      /\ Split(long) = [manufacturer |-> SubSeq(long, 1, IdSize(long)),
                        data |-> SubSeq(long, IdSize(long) + 1, n + 1)]
  BY <1>1, <1>2 DEF Split
<1> HIDE DEF long
<1>5. CASE data[1] = 0 /\ IdSize(data) < 3
  <2>1. IdSize(data) = n /\ IdSize(long) = n + 1
    BY <1>1, <1>2, <1>5 DEF IdSize
  <2>2. SubSeq(long, 1, n + 1) = Append(SubSeq(data, 1, n), b)
    <3>1. 0 \in Nat /\ 0 <= n /\ 0 + 1 = 1
      BY <1>1
    <3> QED BY <1>3, <3>1
  <2>3. SubSeq(data, n + 1, n) = <<>> /\ SubSeq(long, (n + 1) + 1, n + 1) = <<>>
    <3>1. \A s \in Seq(0..127) : \A i \in Nat : SubSeq(s, i + 1, i) = <<>>
      OBVIOUS
    <3> QED BY <1>2, <3>1
  <2>4. Split(data).manufacturer = SubSeq(data, 1, n) /\ Split(data).data = <<>>
    BY <1>4, <2>1, <2>3, Zenon
  <2>5. Split(long) = [manufacturer |-> Append(Split(data).manufacturer, b),
                       data |-> Split(data).data]
    BY <1>4, <2>1, <2>2, <2>3, <2>4, Zenon
  <2> QED BY <1>5, <2>1, <2>5, Zenon DEF long
<1>6. CASE ~(data[1] = 0 /\ IdSize(data) < 3)
  <2>1. PICK k \in Nat : k = IdSize(data) /\ k = IdSize(long) /\ k <= n
    BY <1>1, <1>2, <1>6 DEF IdSize
  <2>2. Split(long) = [manufacturer |-> Split(data).manufacturer,
                       data |-> Append(Split(data).data, b)]
    BY <1>3, <1>4, <2>1, Zenon
  <2> QED BY <1>6, <2>1, <2>2, Zenon DEF long
<1> QED BY <1>5, <1>6

\* Only a SysEx has a packet with data under way.
LEMMA InSysex ==
  ASSUME Tells(heard, st), st.packet.kind = "data"
  PROVE  heard.status = 240
<1>1. CASE IsVoice(heard.status)
  BY <1>1, Zenon DEF Tells, VoiceTold, Opened
<1>2. CASE heard.status \in {241, 242, 243}
  <2>1. CommonTold(heard, st)
    BY <1>2, Zenon DEF Tells
  <2> QED BY <2>1 DEF CommonTold, Opened, NoPacket, Packet
<1>3. CASE heard.status \in {0} \union 244..247
  <2>1. st.packet = NoPacket
    BY <1>3, Zenon DEF Tells
  <2> QED BY <2>1 DEF NoPacket, Packet
<1>4. heard.status \in {0} \union 128..247
  BY DEF Tells
<1>5. \A s \in {0} \union 128..247 :
        s \in 128..239 \/ s = 240 \/ s \in {241, 242, 243} \/ s \in {0} \union 244..247
  OBVIOUS
<1>6. heard.status \in 128..239 => IsVoice(heard.status)
  BY DEF IsVoice
<1> QED BY <1>1, <1>2, <1>3, <1>4, <1>5, <1>6

\* A SysEx with another id, or with other data.
LEMMA SysexUpdate ==
  \A x \in Sysexes : \A v :
    /\ [x EXCEPT !.manufacturer = v] = [manufacturer |-> v, data |-> x.data]
    /\ [x EXCEPT !.data = v] = [manufacturer |-> x.manufacturer, data |-> v]
<1> TAKE x \in Sysexes
<1> TAKE v
<1>1. PICK m \in Seq(0..127), d \in Seq(0..127) : x = [manufacturer |-> m, data |-> d]
  BY DEF Sysexes
<1> QED BY <1>1

LEMMA SysexDataToMessageRight ==
  ASSUME IInv, Tells(heard, st), NEW b \in Bytes, IsData(b), st.packet.kind = "data", bySysex,
         SysexDataToMessage(b)
  PROVE  Right(b)
<1> DEFINE h    == Heard(b)
           data == Append(heard.data, b)
           inId == st.sysex.manufacturer = <<>> \/ st.sysex.manufacturer[1] = 0
<1>1. heard.status = 240 /\ SysexMessageTold(heard, st)
  <2>1. heard.status = 240
    BY InSysex
  <2> QED BY <2>1, Zenon DEF Tells
<1>0. b \in 0..127
  BY HeardContext
<1>2. b \in 0..127 /\ heard \in Hearings /\ heard.data \in Seq(0..127)
  BY HeardContext
<1>3. h.status = 240 /\ h.data = data /\ h.enabled = heard.enabled
  <2>1. heard.status # 0
    BY <1>1
  <2> QED BY <1>1, <1>2, <2>1, HeardData, Zenon
<1>4. Expected(b) = Silence
  <2>1. ~IsRealtime(b) /\ b # 246 /\ b # 247
    BY <1>0 DEF IsRealtime
  <2>2. ~IsVoice(heard.status) /\ heard.status \notin DOMAIN CommonLength
    BY <1>1 DEF IsVoice, CommonLength
  <2> QED BY <2>1, <2>2, Zenon DEF Expected
<1>5. ASSUME NEW s, SysexMessageTold(h, s) PROVE Tells(h, s)
  <2>1. h.status = 240
    BY <1>3, Zenon
  <2> HIDE DEF h
  <2> QED BY <1>5, <2>1 DEF Tells, IsVoice
<1>6. CASE ~heard.enabled
  <2>1. st.packetByte = 0
    BY <1>1, <1>6, Zenon DEF SysexMessageTold
  <2>2. Quietly(b, st)
    BY <2>1 DEF SysexDataToMessage
  <2>3. SysexMessageTold(h, st)
    BY <1>1, <1>3, <1>6, Zenon DEF SysexMessageTold
  <2> QED BY <1>4, <1>5, <2>2, <2>3, QuietAnswer, RightAnswer
<1>7. CASE heard.enabled
  <2>1. st.packetByte = 2 + IdSize(heard.data) /\ st.sysex = Split(heard.data)
    BY <1>1, <1>7, Zenon DEF SysexMessageTold, Split
  <2>2. ASSUME NEW s, Quietly(b, s), s.packet.kind = "data",
               s.packetByte = 2 + IdSize(data), s.sysex = Split(data)
        PROVE  Right(b)
    <3>1. SysexMessageTold(h, s)
      BY <1>3, <1>7, <2>2, Zenon DEF SysexMessageTold, Split
    <3> QED BY <1>4, <1>5, <2>2, <3>1, QuietAnswer, RightAnswer
  <2> HIDE DEF data
  <2>3. CASE heard.data = <<>>
    <3> DEFINE s == [st EXCEPT !.sysex.manufacturer = <<b>>, !.packetByte = 3]
    <3>1. st.packetByte = 2 /\ st.sysex = NoSysex
      <4>1. 2 + 0 = 2
        OBVIOUS
      <4> QED BY <2>1, <2>3, <4>1, SplitNothing, Zenon
    <3>2. Quietly(b, s)
      BY <3>1 DEF SysexDataToMessage
    <3>3. IdSize(data) = 1 /\ Split(data) = [manufacturer |-> <<b>>, data |-> <<>>]
      BY <1>0, <2>3, SplitFirst, Zenon DEF data
    <3>4. s.packet.kind = "data" /\ s.packetByte = 3
          /\ s.sysex = [manufacturer |-> <<b>>, data |-> <<>>]
      BY <3>1, HeardContext DEF ParserStates, NoSysex
    <3> HIDE DEF s
    <3> QED BY <2>2, <3>2, <3>3, <3>4
  <2>4. CASE heard.data # <<>>
    <3>1. /\ st.sysex.manufacturer # <<>> /\ st.sysex.manufacturer[1] = heard.data[1]
          /\ IdSize(heard.data) \in 1..3
      BY <1>2, <2>1, <2>4, SplitId
    <3>2. PICK k \in 1..3 : k = IdSize(heard.data)
      BY <3>1
    <3>3. CASE heard.data[1] = 0 /\ k < 3
      <4> DEFINE sx == [st.sysex EXCEPT !.manufacturer = Append(@, b)]
                 s  == [st EXCEPT !.sysex.manufacturer = Append(@, b), !.packetByte = @ + 1]
      <4>1. Quietly(b, s)
        <5>1. inId
          BY <3>1, <3>3, Zenon
        <5>2. st.packetByte = 2 + k
          BY <2>1, <3>2, Zenon
        <5>3. st.packetByte \in {3, 4} /\ ~(st.packetByte < 2) /\ st.packetByte # 2
          BY <3>3, <5>2
        <5> QED BY <5>1, <5>3, Zenon DEF SysexDataToMessage
      <4>2. IdSize(data) = k + 1 /\ Split(data) = sx
        <5>1. IF heard.data[1] = 0 /\ IdSize(heard.data) < 3
                THEN /\ IdSize(data) = IdSize(heard.data) + 1
                     /\ Split(data) = [manufacturer |-> Append(Split(heard.data).manufacturer, b),
                                       data |-> Split(heard.data).data]
                ELSE TRUE
          BY <1>2, <2>4, SplitNext, Zenon DEF data
        <5>2. sx = [manufacturer |-> Append(st.sysex.manufacturer, b),
                    data |-> st.sysex.data]
          <6>1. st.sysex \in Sysexes
            BY Context, Zenon
          <6> QED BY <6>1, SysexUpdate, Zenon
        <5> QED BY <2>1, <3>2, <3>3, <5>1, <5>2, Zenon
      <4>3. s.packet.kind = "data" /\ s.packetByte = (2 + k) + 1 /\ s.sysex = sx
        <5>1. st \in ParserStates /\ st.sysex \in Sysexes /\ st.packetByte = 2 + k
          BY <2>1, <3>2, Context, Zenon
        <5>2. s = [st EXCEPT !.sysex = sx, !.packetByte = st.packetByte + 1]
          BY <5>1 DEF ParserStates, Sysexes
        <5> HIDE DEF s, sx
        <5> QED BY <5>1, <5>2 DEF ParserStates
      <4>4. (2 + k) + 1 = 2 + (k + 1)
        OBVIOUS
      <4> HIDE DEF s, sx
      <4> QED BY <2>2, <4>1, <4>2, <4>3, <4>4, Zenon
    <3>4. CASE ~(heard.data[1] = 0 /\ k < 3)
      <4> DEFINE sx == [st.sysex EXCEPT !.data = Append(@, b)]
                 s  == [st EXCEPT !.sysex.data = Append(@, b)]
      <4>1. Quietly(b, s)
        <5>1. st.packetByte = 2 + k
          BY <2>1, <3>2, Zenon
        <5>2. ~(st.packetByte < 2) /\ st.packetByte # 2 /\ (k = 3 => st.packetByte \notin {3, 4})
          BY <5>1
        <5>3. k = 3 \/ ~inId
          <6>1. k < 3 \/ k = 3
            OBVIOUS
          <6> QED BY <3>1, <3>4, <6>1, Zenon
        <5> QED BY <5>2, <5>3, Zenon DEF SysexDataToMessage
      <4>2. IdSize(data) = k /\ Split(data) = sx
        <5>1. IF heard.data[1] = 0 /\ IdSize(heard.data) < 3
                THEN TRUE
                ELSE /\ IdSize(data) = IdSize(heard.data)
                     /\ Split(data) = [manufacturer |-> Split(heard.data).manufacturer,
                                       data |-> Append(Split(heard.data).data, b)]
          BY <1>2, <2>4, SplitNext, Zenon DEF data
        <5>2. sx = [manufacturer |-> st.sysex.manufacturer,
                    data |-> Append(st.sysex.data, b)]
          <6>1. st.sysex \in Sysexes
            BY Context, Zenon
          <6> QED BY <6>1, SysexUpdate, Zenon
        <5> QED BY <2>1, <3>2, <3>4, <5>1, <5>2, Zenon
      <4>3. s.packet.kind = "data" /\ s.packetByte = 2 + k /\ s.sysex = sx
        <5>1. st \in ParserStates /\ st.sysex \in Sysexes /\ st.packetByte = 2 + k
          BY <2>1, <3>2, Context, Zenon
        <5>2. s = [st EXCEPT !.sysex = sx]
          BY <5>1 DEF ParserStates, Sysexes
        <5> HIDE DEF s, sx
        <5> QED BY <5>1, <5>2 DEF ParserStates
      <4> HIDE DEF s, sx
      <4> QED BY <2>2, <4>1, <4>2, <4>3, Zenon
    <3> QED BY <3>3, <3>4
  <2> QED BY <2>3, <2>4
<1>8. heard.enabled \in BOOLEAN
  BY <1>2 DEF Hearings
<1> QED BY <1>6, <1>7, <1>8

LEMMA SysexEndMessageRight ==
  ASSUME IInv, Tells(heard, st), NEW b \in Bytes, b = 247,
         st.packet.kind = "data", bySysex, SysexEndMessage(b)
  PROVE  Right(b)
<1> DEFINE h == Heard(b)
           past == heard.data
           id == IF past # <<>> /\ past[1] # 0 THEN 1 ELSE 3
           shortId   == st.sysex.manufacturer = <<>> \/ st.sysex.manufacturer[1] = 0
           Forget(s) == [s EXCEPT !.sysex = NoSysex]
<1>1. heard.status = 240 /\ SysexMessageTold(heard, st)
  <2>1. heard.status = 240
    BY InSysex
  <2> QED BY <2>1, Zenon DEF Tells
<1>2. heard \in Hearings /\ past \in Seq(0..127) /\ st \in ParserStates
  BY HeardContext
<1>3. h.status = 247
  BY HeardStatus
<1>4. ASSUME NEW s, s.packet = NoPacket PROVE Tells(h, s)
  <2> HIDE DEF h
  <2> QED BY <1>3, <1>4 DEF Tells, IsVoice
<1>5. ~IsData(b) /\ ~IsRealtime(b) /\ b # 246
  BY DEF IsData, IsRealtime
<1>6. /\ DropPacket(st).packet = NoPacket
      /\ Forget(DropPacket(st)).packet = NoPacket
  BY <1>2 DEF DropPacket, ParserStates
<1>7. CASE ~heard.enabled
  <2>1. st.packetByte = 0 /\ st.sysex = NoSysex
    BY <1>1, <1>7, Zenon DEF SysexMessageTold
  <2>2. Quietly(b, DropPacket(st))
    BY <2>1 DEF SysexEndMessage, NoSysex
  <2>3. Expected(b) = Silence
    BY <1>5, <1>7 DEF Expected
  <2> QED BY <1>4, <1>6, <2>2, <2>3, QuietAnswer, RightAnswer
<1>8. CASE heard.enabled
  <2>1. st.packetByte = 2 + IdSize(past) /\ st.sysex = Split(past)
    BY <1>1, <1>8, Zenon DEF SysexMessageTold, Split
  <2>2. PICK n \in Nat, k \in 0..3 :
          n = Len(past) /\ k = IdSize(past) /\ (n >= 3 => k \in {1, 3})
          /\ ((k < 3 /\ ~(past # <<>> /\ past[1] # 0)) => k = n)
          /\ ((past # <<>> /\ past[1] # 0) => k = 1)
          /\ (~(past # <<>> /\ past[1] # 0) /\ k = 3 => n >= 3)
    <3>1. PICK n \in Nat : n = Len(past)
      BY <1>2
    <3> HIDE DEF past
    <3> QED BY <3>1 DEF IdSize
  <2>3. shortId <=> ~(past # <<>> /\ past[1] # 0)
    <3>1. CASE past = <<>>
      BY <2>1, <3>1, SplitNothing DEF NoSysex
    <3>2. CASE past # <<>>
      <4>1. st.sysex.manufacturer # <<>> /\ st.sysex.manufacturer[1] = past[1]
        BY <1>2, <2>1, <3>2, SplitId
      <4> QED BY <3>2, <4>1, Zenon
    <3> QED BY <3>1, <3>2
  <2>4. past # <<>> /\ past[1] # 0 => n >= 1
    <3>1. past # <<>> => Len(past) # 0
      BY <1>2, EmptySeq
    <3> QED BY <2>2, <3>1
  <2>5. CASE shortId /\ st.packetByte < 5
    <3>1. Quietly(b, DropPacket(st))
      BY <2>5 DEF SysexEndMessage
    <3>2. ~(n >= id)
      <4>1. ~(past # <<>> /\ past[1] # 0) /\ 2 + k < 5
        BY <2>1, <2>2, <2>3, <2>5, Zenon
      <4>2. id = 3
        BY <4>1, Zenon
      <4>3. k = n /\ k < 3
        BY <2>2, <4>1
      <4> QED BY <4>2, <4>3
    <3>3. Expected(b) = Silence
      BY <1>5, <2>2, <3>2 DEF Expected
    <3> QED BY <1>4, <1>6, <3>1, <3>3, QuietAnswer, RightAnswer
  <2>6. CASE ~(shortId /\ st.packetByte < 5)
    <3>1. Post(b, SysexCall(st.sysex), DropPacket(st), Forget)
      BY <2>6 DEF SysexEndMessage
    <3>2. n >= id /\ k = id
      <4>1. ~(~(past # <<>> /\ past[1] # 0) /\ 2 + k < 5)
        BY <2>1, <2>2, <2>3, <2>6, Zenon
      <4>2. CASE past # <<>> /\ past[1] # 0
        BY <2>2, <2>4, <4>2
      <4>3. CASE ~(past # <<>> /\ past[1] # 0)
        <5>1. id = 3
          BY <4>3, Zenon
        <5>2. ~(2 + k < 5)
          BY <4>1, <4>3, Zenon
        <5>3. k = 3
          BY <5>2
        <5> QED BY <2>2, <4>3, <5>1, <5>3
      <4> QED BY <4>2, <4>3
    <3>r. Forget(Fresh(1)).packet = NoPacket
      BY ResetLeaves
    <3> HIDE DEF Forget
    <3>3. Answer(b, SysexCall(st.sysex), Forget(DropPacket(st)))
      BY <3>1, <3>r, Zenon DEF Post, Quietly, Answer
    <3>4. Expected(b) = SysexCall([manufacturer |-> SubSeq(past, 1, id),
                                   data |-> SubSeq(past, id + 1, Len(past))])
      <4>1. Len(past) >= id
        BY <2>2, <3>2, Zenon
      <4> QED BY <1>1, <1>5, <1>8, <4>1, SMT DEF Expected
    <3>5. st.sysex = [manufacturer |-> SubSeq(past, 1, id),
                      data |-> SubSeq(past, id + 1, Len(past))]
      BY <2>1, <2>2, <3>2, Zenon DEF Split
    <3> QED BY <1>4, <1>6, <3>3, <3>4, <3>5, RightAnswer
  <2> QED BY <2>5, <2>6
<1>9. heard.enabled \in BOOLEAN
  BY <1>2 DEF Hearings
<1> QED BY <1>7, <1>8, <1>9

-----------------------------------------------------------------------------
(* SysEx in packets. *)

LEMMA SysexDataToPacketRight ==
  ASSUME IInv, Tells(heard, st), "reset" \notin Reactions, NEW b \in Bytes, IsData(b),
         st.packet.kind = "data", ~bySysex, SysexDataToPacket(b)
  PROVE  Right(b)
<1> DEFINE h      == Heard(b)
           data   == Append(heard.data, b)
           put    == Put(st, st.packetByte, b)
           pk     == put.packet
           filled == [st EXCEPT !.packet.body[st.packetByte] = b, !.packetByte = @ + 1]
           new    == Packet("data", group, Continue)
           Next7(s) == [s EXCEPT !.packet = Packet("data", group, Continue),
                                 !.packetByte = 2]
<1>0. /\ b \in 0..127 /\ PayloadSize \in Nat /\ PayloadSize >= 2
      /\ PacketEnd = PayloadSize + 2 /\ st \in ParserStates
  BY HeardContext
<1>1. heard.status = 240 /\ SysexPacketTold(heard, st)
  <2>1. heard.status = 240
    BY InSysex
  <2> QED BY <2>1, Zenon DEF Tells
<1>2. heard \in Hearings /\ heard.data \in Seq(0..127)
  BY HeardContext
<1>3. PICK n \in Nat, count \in Nat : n = Len(heard.data) /\ count = (n % PayloadSize)
  <2>1. \A k \in Nat : (k % PayloadSize) \in Nat
    BY <1>0, NextCount
  <2> QED BY <1>2, <2>1
<1>4. /\ count < PayloadSize /\ count <= n
      /\ n < PayloadSize => count = n
      /\ ((n + 1) % PayloadSize) = IF count + 1 = PayloadSize THEN 0 ELSE count + 1
  <2>1. PayloadSize \in Nat \ {0}
    BY <1>0
  <2>2. /\ (n % PayloadSize) \in 0..PayloadSize-1 /\ (n % PayloadSize) <= n
        /\ n < PayloadSize => (n % PayloadSize) = n
        /\ ((n + 1) % PayloadSize)
             = IF (n % PayloadSize) + 1 = PayloadSize THEN 0 ELSE (n % PayloadSize) + 1
    BY <2>1, NextCount
  <2>3. /\ count \in 0..PayloadSize-1 /\ count <= n
        /\ n < PayloadSize => count = n
        /\ ((n + 1) % PayloadSize) = IF count + 1 = PayloadSize THEN 0 ELSE count + 1
    BY <1>3, <2>2, Zenon
  <2>4. count < PayloadSize
    BY <1>0, <2>3
  <2> QED BY <2>3, <2>4, Zenon
<1> DEFINE form == IF n < PayloadSize THEN Start ELSE Continue
<1>5. /\ Opened(st.packet, "data", heard.group, form)
      /\ st.packetByte = 2 + count
      /\ Holds(st.packet.body, heard.data, count)
      /\ Blank(st.packet.body, count)
  BY <1>1, <1>3, Zenon DEF SysexPacketTold
<1>6. st.packetByte \in Payload
  <2>1. 2 + count \in Payload
    BY <1>0, <1>4 DEF Payload
  <2> QED BY <1>5, <2>1, Zenon
<1>7. /\ put \in ParserStates /\ pk \in Packets /\ pk.kind = "data"
      /\ pk.group = heard.group /\ pk.status = form /\ pk.size = 0
      /\ Holds(pk.body, data, count + 1) /\ Blank(pk.body, count + 1)
  <2>1. /\ put \in ParserStates
        /\ pk \in Packets /\ pk.kind = st.packet.kind /\ pk.group = st.packet.group
        /\ pk.status = st.packet.status /\ pk.size = st.packet.size
        /\ Holds(pk.body, Append(heard.data, b), count + 1)
        /\ Blank(pk.body, IF count + 1 <= count THEN count ELSE count + 1)
    <3>1. count <= Len(heard.data)
      BY <1>3, <1>4, Zenon
    <3> HIDE DEF put
    <3> QED BY <1>0, <1>5, <1>6, <3>1, PutHolds, Zenon DEF put
  <2>2. ~(count + 1 <= count)
    OBVIOUS
  <2> QED BY <1>5, <2>1, <2>2, Zenon DEF Opened
<1>8. filled = [put EXCEPT !.packetByte = st.packetByte + 1]
  BY <1>0 DEF ParserStates, Put
<1> HIDE DEF put
<1>9. filled.packet = pk /\ filled.packetByte = (2 + count) + 1 /\ filled \in ParserStates
  <2>1. PICK k \in Nat : k = st.packetByte + 1 /\ k = (2 + count) + 1
    BY <1>5
  <2>2. [put EXCEPT !.packetByte = k].packet = pk
        /\ [put EXCEPT !.packetByte = k].packetByte = k
        /\ [put EXCEPT !.packetByte = k] \in ParserStates
    BY <1>7, ZenonT(60) DEF ParserStates
  <2>3. filled = [put EXCEPT !.packetByte = k]
    BY <1>8, <2>1, Zenon
  <2> QED BY <2>1, <2>2, <2>3, Zenon
<1> HIDE DEF filled
<1>10. /\ h.status = 240 /\ h.data = data /\ h.enabled = heard.enabled /\ Len(data) = n + 1
       /\ h.group = IF ((n + 1) % PayloadSize) = 0 THEN group ELSE heard.group
  <2>1. heard.status # 0
    BY <1>1
  <2>2. Len(Append(heard.data, b)) = Len(heard.data) + 1
    BY <1>0, <1>2, AppendProperties
  <2>3. /\ h.status = 240 /\ h.data = data /\ h.enabled = heard.enabled
        /\ h.group = IF heard.status = 240 /\ ~bySysex /\ (Len(data) % PayloadSize) = 0
                       THEN group ELSE heard.group
    BY <1>0, <1>1, <1>2, <2>1, HeardData, Zenon
  <2>4. Len(data) = n + 1
    BY <1>3, <2>2, Zenon
  <2> QED BY <1>1, <2>3, <2>4, Zenon
<1>11. ASSUME NEW s, SysexPacketTold(h, s) PROVE Tells(h, s)
  <2>1. h.status = 240
    BY <1>10, Zenon
  <2> HIDE DEF h
  <2> QED BY <1>11, <2>1 DEF Tells, IsVoice
<1>12. ~IsRealtime(b) /\ b # 246 /\ b # 247
  BY <1>0 DEF IsRealtime
<1>13. ~IsVoice(heard.status) /\ heard.status \notin DOMAIN CommonLength
  BY <1>1 DEF IsVoice, CommonLength
<1>14. CASE count + 1 # PayloadSize
  <2>1. Quietly(b, filled)
    <3>1. filled.packetByte < PacketEnd
      <4>1. (2 + count) + 1 < PacketEnd
        BY <1>0, <1>4, <1>14
      <4> QED BY <1>9, <4>1, Zenon
    <3> QED BY <3>1, Zenon DEF SysexDataToPacket, filled
  <2>2. ((n + 1) % PayloadSize) = count + 1 /\ count + 1 # 0
    BY <1>4, <1>14
  <2>3. Expected(b) = Silence
    <3>1. (Len(data) % PayloadSize) # 0
      BY <1>10, <2>2, Zenon
    <3> QED BY <1>12, <1>13, <3>1, Zenon DEF Expected
  <2>4. (IF n + 1 < PayloadSize THEN Start ELSE Continue) = form
    <3>1. n + 1 < PayloadSize <=> n < PayloadSize
      BY <1>0, <1>4, <1>14
    <3> QED BY <3>1, Zenon
  <2>5. SysexPacketTold(h, filled)
    <3>1. (2 + count) + 1 = 2 + (count + 1)
      OBVIOUS
    <3>2. Opened(pk, "data", h.group, form)
      BY <1>7, <1>10, <2>2, Zenon DEF Opened
    <3>3. Holds(pk.body, h.data, count + 1) /\ Len(h.data) = n + 1
      BY <1>7, <1>10, Zenon
    <3> HIDE DEF h, pk, data, form
    <3> QED BY <1>7, <1>9, <2>2, <2>4, <3>1, <3>2, <3>3, Zenon DEF SysexPacketTold
  <2> QED BY <1>11, <2>1, <2>3, <2>5, QuietAnswer, RightAnswer
<1>15. CASE count + 1 = PayloadSize
  <2> DEFINE full == [filled.packet EXCEPT !.size = PayloadSize]
  <2>1. Post(b, full, filled, Next7)
    <3>1. ~(filled.packetByte < PacketEnd)
      <4>1. ~((2 + count) + 1 < PacketEnd)
        BY <1>0, <1>15
      <4> QED BY <1>9, <4>1, Zenon
    <3> QED BY <3>1, Zenon DEF SysexDataToPacket, filled
  <2>2. ((n + 1) % PayloadSize) = 0 /\ ~(n + 1 < PayloadSize)
    BY <1>0, <1>4, <1>15
  <2>3. Answer(b, full, Next7(filled))
    <3> HIDE DEF full, Next7
    <3> QED BY <2>1, Zenon DEF Post, Quietly, Answer
  <2>4. SysexPacketTold(h, Next7(filled))
    <3>1. Opened(new, "data", group, Continue) /\ Holds(new.body, data, 0) /\ Blank(new.body, 0)
      BY NewPacket
    <3> HIDE DEF new
    <3>2. /\ [filled EXCEPT !.packet = new, !.packetByte = 2].packet = new
          /\ [filled EXCEPT !.packet = new, !.packetByte = 2].packetByte = 2
      BY <1>9 DEF ParserStates
    <3>3. Next7(filled).packet = new /\ Next7(filled).packetByte = 2
      BY <3>2 DEF new
    <3>4. h.data = data /\ Len(data) = n + 1 /\ h.group = group
      BY <1>10, <2>2, Zenon
    <3>5. 2 + 0 = 2
      OBVIOUS
    <3> HIDE DEF h, data, Next7
    <3> QED BY <2>2, <3>1, <3>3, <3>4, <3>5, Zenon DEF SysexPacketTold
  <2>5. full \in Packets /\ full.kind = "data" /\ full.group = heard.group
        /\ full.status = form /\ full.size = PayloadSize /\ full.body = pk.body
    <3>1. PayloadSize \in 0..PayloadSize
      BY <1>0
    <3>2. full = [pk EXCEPT !.size = PayloadSize]
      BY <1>9, Zenon
    <3> HIDE DEF pk, form, full
    <3> QED BY <1>7, <3>1, <3>2 DEF Packets
  <2>6. full = PacketOf("data", heard.group, form, data, PayloadSize, PayloadSize)
    <3>1. Holds(full.body, data, PayloadSize) /\ Blank(full.body, PayloadSize)
      BY <1>7, <1>15, <2>5, Zenon
    <3> HIDE DEF full, data, form
    <3> QED BY <1>0, <2>5, <3>1, PacketKnown
  <2>7. Expected(b) = full
    <3>1. Len(data) = PayloadSize <=> n < PayloadSize
      <4>1. n + 1 = PayloadSize <=> n < PayloadSize
        BY <1>0, <1>4, <1>15
      <4> QED BY <1>10, <4>1, Zenon
    <3>2. (Len(data) % PayloadSize) = 0
      BY <1>10, <2>2, Zenon
    <3>3. Expected(b) = PacketOf("data", heard.group,
                                 IF Len(data) = PayloadSize THEN Start ELSE Continue,
                                 data, PayloadSize, PayloadSize)
      BY <1>1, <1>12, <1>13, <3>2, SMT DEF Expected
    <3>4. (IF Len(data) = PayloadSize THEN Start ELSE Continue) = form
      BY <3>1, Zenon
    <3> HIDE DEF data, form, full
    <3> QED BY <2>6, <3>3, <3>4, Zenon
  <2> QED BY <1>11, <2>3, <2>4, <2>7, RightAnswer
<1> QED BY <1>14, <1>15

LEMMA SysexEndPacketRight ==
  ASSUME IInv, Tells(heard, st), NEW b \in Bytes, b = 247,
         st.packet.kind = "data", ~bySysex, SysexEndPacket(b)
  PROVE  Right(b)
<1> DEFINE h       == Heard(b)
           past    == heard.data
           first   == st.packet.status = Start
           last    == [st.packet EXCEPT !.status = IF first THEN Complete ELSE End,
                                        !.size = st.packetByte - 2]
           Done(s) == [s EXCEPT !.packet = NoPacket, !.packetByte = 2]
<1>0. /\ PayloadSize \in Nat /\ PayloadSize >= 2 /\ st \in ParserStates /\ st.packet \in Packets
  BY HeardContext
<1>1. heard.status = 240 /\ SysexPacketTold(heard, st)
  <2>1. heard.status = 240
    BY InSysex
  <2> QED BY <2>1, Zenon DEF Tells
<1>2. past \in Seq(0..127)
  BY HeardContext
<1>3. PICK n \in Nat, count \in Nat :
        n = Len(past) /\ count = (n % PayloadSize) /\ (past # <<>> <=> n # 0)
  <2>1. \A k \in Nat : (k % PayloadSize) \in Nat
    BY <1>0, NextCount
  <2>2. past # <<>> <=> Len(past) # 0
    BY <1>2, EmptySeq
  <2>3. Len(past) \in Nat
    BY <1>2
  <2> HIDE DEF past
  <2> QED BY <2>1, <2>2, <2>3, Zenon
<1>4. count < PayloadSize /\ (n < PayloadSize => count = n)
  <2>1. PayloadSize \in Nat \ {0}
    BY <1>0
  <2>2. (n % PayloadSize) \in 0..PayloadSize-1 /\ (n < PayloadSize => (n % PayloadSize) = n)
    BY <2>1, NextCount
  <2>3. count \in 0..PayloadSize-1 /\ (n < PayloadSize => count = n)
    BY <1>3, <2>2, Zenon
  <2>4. count < PayloadSize
    BY <1>0, <2>3
  <2> QED BY <2>3, <2>4, Zenon
<1> DEFINE form == IF n < PayloadSize THEN Complete ELSE End
<1>5. /\ Opened(st.packet, "data", heard.group, IF n < PayloadSize THEN Start ELSE Continue)
      /\ st.packetByte = 2 + count
      /\ Holds(st.packet.body, past, count)
      /\ Blank(st.packet.body, count)
  BY <1>1, <1>3, Zenon DEF SysexPacketTold
<1>6. first <=> n < PayloadSize
  <2>1. Start # Continue
    BY DEF Start, Continue
  <2> QED BY <1>5, <2>1, Zenon DEF Opened
<1>7. ASSUME NEW s, s.packet = NoPacket PROVE Tells(h, s)
  <2>1. h.status = 247
    BY HeardStatus
  <2> HIDE DEF h
  <2> QED BY <1>7, <2>1 DEF Tells, IsVoice
<1>8. ~IsData(b) /\ ~IsRealtime(b) /\ b # 246
  BY DEF IsData, IsRealtime
<1>9. CASE first /\ st.packetByte < 3
  <2>1. Quietly(b, DropPacket(st))
    BY <1>9 DEF SysexEndPacket
  <2>2. DropPacket(st).packet = NoPacket
    BY <1>0 DEF DropPacket, ParserStates
  <2>3. past = <<>>
    <3>1. n < PayloadSize /\ 2 + count < 3
      BY <1>5, <1>6, <1>9, Zenon
    <3>2. n = 0
      BY <1>4, <3>1
    <3> QED BY <1>3, <3>2, Zenon
  <2>4. Expected(b) = Silence
    BY <1>8, <2>3, SMT DEF Expected
  <2> QED BY <1>7, <2>1, <2>2, <2>4, QuietAnswer, RightAnswer
<1>10. CASE ~(first /\ st.packetByte < 3)
  <2> DEFINE opened == [st EXCEPT !.packet = last]
  <2>1. Post(b, last, opened, Done)
    BY <1>10 DEF SysexEndPacket
  <2>2. /\ last \in Packets /\ last.kind = "data" /\ last.group = heard.group
        /\ last.status = form /\ last.size = count /\ last.body = st.packet.body
    <3>1. PICK size \in 0..PayloadSize : size = st.packetByte - 2 /\ size = count
      <4>1. count \in 0..PayloadSize /\ (2 + count) - 2 = count
        BY <1>0, <1>4
      <4> QED BY <1>5, <4>1, Zenon
    <3>2. form \in 0..255 /\ (IF first THEN Complete ELSE End) = form
      <4>1. Complete \in 0..255 /\ End \in 0..255
        BY DEF Complete, End
      <4> QED BY <1>6, <4>1, Zenon
    <3>3. last = Resized(st.packet, form, size)
      BY <3>1, <3>2, Zenon DEF Resized
    <3>4. st.packet.kind = "data" /\ st.packet.group = heard.group
      BY <1>5, Zenon DEF Opened
    <3>5. st.packet \in Packets
      BY <1>0 DEF ParserStates
    <3> HIDE DEF form, last
    <3>6. /\ last \in Packets /\ last.kind = st.packet.kind /\ last.group = st.packet.group
          /\ last.status = form /\ last.size = size /\ last.body = st.packet.body
      <4>1. PICK pk \in Packets, f \in 0..255 : pk = st.packet /\ f = form
        BY <3>2, <3>5, Zenon
      <4>2. /\ Resized(pk, f, size) \in Packets
            /\ Resized(pk, f, size).kind = pk.kind
            /\ Resized(pk, f, size).group = pk.group
            /\ Resized(pk, f, size).status = f
            /\ Resized(pk, f, size).size = size
            /\ Resized(pk, f, size).body = pk.body
        <5>1. Resized(pk, f, size) \in Packets
          BY ResizedPacket, Zenon
        <5>2. Resized(pk, f, size).kind = pk.kind
          BY ResizedKeeps, Zenon
        <5>3. Resized(pk, f, size).group = pk.group
          BY ResizedKeeps, Zenon
        <5>4. Resized(pk, f, size).status = f
          BY ResizedPacket, Zenon
        <5>5. Resized(pk, f, size).size = size
          BY ResizedPacket, Zenon
        <5>6. Resized(pk, f, size).body = pk.body
          BY ResizedKeeps, Zenon
        <5> QED BY <5>1, <5>2, <5>3, <5>4, <5>5, <5>6
      <4>3. last = Resized(pk, f, size)
        BY <3>3, <4>1, Zenon
      <4> QED BY <4>1, <4>2, <4>3, Zenon
    <3> QED BY <3>1, <3>4, <3>6, Zenon
  <2>3. last = PacketOf("data", heard.group, form, past, count, count)
    <3>1. Holds(last.body, past, count) /\ Blank(last.body, count)
      BY <1>5, <2>2, Zenon
    <3> HIDE DEF last, past, form
    <3>2. \A packet \in Packets : \A grp, status, data :
            /\ packet.kind = "data" /\ packet.group = grp
            /\ packet.status = status /\ packet.size = count
            /\ Holds(packet.body, data, count) /\ Blank(packet.body, count)
            => packet = PacketOf("data", grp, status, data, count, count)
      BY PacketKnown
    <3>3. /\ last \in Packets /\ last.kind = "data" /\ last.group = heard.group
          /\ last.status = form /\ last.size = count
      BY <2>2, Zenon
    <3> QED BY <3>1, <3>2, <3>3
  <2> HIDE DEF last
  <2>4. opened \in ParserStates
    BY <1>0, <2>2 DEF ParserStates
  <2> HIDE DEF opened
  <2>5. Done(opened).packet = NoPacket
    <3>1. \A s \in ParserStates : [s EXCEPT !.packet = NoPacket, !.packetByte = 2].packet = NoPacket
      BY DEF ParserStates
    <3> QED BY <2>4, <3>1
  <2>r. Done(Fresh(1)).packet = NoPacket
    BY ResetLeaves
  <2> HIDE DEF Done
  <2>6. Answer(b, last, Done(opened))
    BY <2>1, <2>r, Zenon DEF Post, Quietly, Answer
  <2>7. Expected(b) = last
    <3>1. past # <<>>
      <4>1. ~(n < PayloadSize /\ 2 + count < 3)
        BY <1>5, <1>6, <1>10, Zenon
      <4>2. n # 0
        BY <1>0, <1>4, <4>1
      <4> QED BY <1>3, <4>2, Zenon
    <3>2. Expected(b) = PacketOf("data", heard.group,
                                 IF Len(past) < PayloadSize THEN Complete ELSE End, past,
                                 Len(past) % PayloadSize, Len(past) % PayloadSize)
      BY <1>1, <1>8, <3>1, SMT DEF Expected
    <3> QED BY <1>3, <2>3, <3>2, Zenon
  <2> QED BY <1>7, <2>5, <2>6, <2>7, RightAnswer
<1> QED BY <1>9, <1>10

-----------------------------------------------------------------------------
(* The callbacks. *)

\* No callback resets the parser in the middle of a SysEx: when one can, SysEx is
\* handed over as a message, at its end.
Undisturbed == "reset" \notin Reactions \/ bySysex

LEMMA FeedRight ==
  ASSUME IInv, Tells(heard, st), Undisturbed, NEW b \in Bytes, Feed(b)
  PROVE  Right(b)
<1>1. CASE Realtime(b)
  BY <1>1, RealtimeRight
<1>2. CASE SysexStart(b)
  BY <1>2, SysexStartRight
<1>3. CASE SystemCommon(b)
  BY <1>3, SystemCommonRight
<1>4. CASE ChannelVoice(b)
  BY <1>4, ChannelVoiceRight
<1>5. CASE MessageData(b)
  BY <1>5, MessageDataRight
<1>6. CASE SysexData(b)
  BY <1>6, SysexDataToMessageRight, SysexDataToPacketRight, Zenon DEF SysexData, Undisturbed
<1>7. CASE SysexEnd(b)
  BY <1>7, SysexEndMessageRight, SysexEndPacketRight, Zenon DEF SysexEnd
<1> QED BY <1>1, <1>2, <1>3, <1>4, <1>5, <1>6, <1>7 DEF Feed

\* Tells and Undisturbed also speak of bySysex, which no step changes.
LEMMA StepTells ==
  ASSUME IInv, Tells(heard, st), Undisturbed, [Next]_vars
  PROVE  KeepsWhatWasHeard' /\ Undisturbed'
<1>0. bySysex' = bySysex
  BY DEF Next, Feed, Reset, SetGroup, EnableCallbacks, vars
<1>1. Tells(heard', st')
  <2>1. ASSUME NEW b \in Bytes, Feed(b) PROVE Tells(heard', st')
    BY <2>1, FeedRight, Zenon DEF Right
  <2>2. CASE Reset
    BY <2>2, NothingTold, ResetLeaves, Zenon DEF Reset
  <2>3. ASSUME NEW g \in Groups, SetGroup(g) PROVE Tells(heard', st')
    BY <2>3, Zenon DEF SetGroup
  <2>4. ASSUME NEW enable \in BOOLEAN, EnableCallbacks(enable) PROVE Tells(heard', st')
    BY <2>4, Zenon DEF EnableCallbacks
  <2>5. CASE UNCHANGED vars
    BY <2>5, Zenon DEF vars
  <2> QED BY <2>1, <2>2, <2>3, <2>4, <2>5 DEF Next
<1> QED
  BY <1>0, <1>1 DEF KeepsWhatWasHeard, Tells, SysexMessageTold, SysexPacketTold, Undisturbed

\* What the parser holds of the message under way is what has been heard of it.
THEOREM Faithful == Spec /\ Undisturbed => []KeepsWhatWasHeard
<1>1. Init => KeepsWhatWasHeard
  <2>1. Fresh(0).packet = NoPacket
    BY DEF Fresh
  <2> QED BY <2>1, NothingTold, Zenon DEF Init, KeepsWhatWasHeard
<1>2. IInv /\ KeepsWhatWasHeard /\ Undisturbed /\ [Next]_vars
        => KeepsWhatWasHeard' /\ Undisturbed'
  BY StepTells DEF KeepsWhatWasHeard
<1> QED BY <1>1, <1>2, Invariance, PTL DEF Spec

\* Every byte makes exactly the callback the byte stream calls for, and none when
\* callbacks are disabled: with realtime bytes anywhere, running status, messages
\* cut short and SysEx of any length, in packets of any size or as a message, and
\* with callbacks that reset the parser unless SysEx goes out in packets.
THEOREM Reports == Spec /\ Undisturbed => ReportsWhatWasHeard
<1> DEFINE A == \A b \in Bytes :
                  Feed(b) => out' = IF invoke THEN Expected(b) ELSE Silence
<1>1. IInv /\ KeepsWhatWasHeard /\ Undisturbed => A
  <2>1. ASSUME IInv, KeepsWhatWasHeard, Undisturbed, NEW b \in Bytes, Feed(b)
        PROVE  out' = IF invoke THEN Expected(b) ELSE Silence
    BY <2>1, FeedRight, Zenon DEF Right, KeepsWhatWasHeard
  <2> QED BY <2>1
<1> HIDE DEF A
<1>2. [Next]_vars /\ Undisturbed => Undisturbed'
  BY DEF Next, Feed, Reset, SetGroup, EnableCallbacks, vars, Undisturbed
<1>3. Spec /\ Undisturbed => [][A]_vars
  BY <1>1, <1>2, Invariance, Faithful, PTL DEF Spec
<1> QED BY <1>3 DEF A, ReportsWhatWasHeard

=============================================================================
