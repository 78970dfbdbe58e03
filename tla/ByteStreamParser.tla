-------------------------- MODULE ByteStreamParser --------------------------
(***************************************************************************)
(* The parser of MIDI 1.0 byte streams: class midi1_byte_stream_parser.    *)
(*                                                                         *)
(* Bytes come in one at a time; each may complete a universal MIDI packet  *)
(* or a System Exclusive message, handed to a callback before feed()       *)
(* returns.  SysEx leaves either in packets or, when the parser was built  *)
(* with a SysEx callback, as one message.  A callback may call back into   *)
(* the parser: Reactions says what it may do.                              *)
(***************************************************************************)
EXTENDS Integers, Sequences

CONSTANTS
  Bytes,      \* bytes of the stream
  Groups,     \* groups the packets may be sent to
  PacketEnd,  \* bytes of a sysex7 packet: positions 2..PacketEnd-1 are payload
  Reactions,  \* what a callback may do to the parser: "none", "reset"
  MaxHeard    \* bound on the data bytes after a status byte, for TLC

ASSUME ParserAssumption ==
  /\ Bytes \subseteq 0..255
  /\ Groups \subseteq Nat /\ 0 \in Groups
  /\ PacketEnd \in Nat /\ PacketEnd >= 4  \* room for the longest other message
  /\ Reactions \subseteq {"none", "reset"}
  /\ MaxHeard \in Nat

VARIABLES
  group,    \* m_group
  invoke,   \* m_invoke_callbacks
  bySysex,  \* has_sysex_callback(), fixed by the constructor
  st,       \* m_packet, m_packet_byte, m_num_missing_bytes and m_sysex
  out,      \* the callback the last call made: a packet, a SysEx, or Silence
  heard     \* history: the last status byte and the data bytes since

vars == <<group, invoke, bySysex, st, out, heard>>

-----------------------------------------------------------------------------
(* Packets. *)

Payload == 2..PacketEnd-1

\* Status nibbles of sysex7 packets (data_status).
Complete == 0
Start    == 16
Continue == 32
End      == 48

Packet(kind, grp, status) ==
  [kind |-> kind, group |-> grp, status |-> status, size |-> 0,
   body |-> [i \in Payload |-> 0]]

NoPacket == Packet("none", 0, 0)  \* universal_packet{}
NoSysex  == [manufacturer |-> <<>>, data |-> <<>>]
Silence  == [kind |-> "silence"]
SysexCall(sysex) ==
  [kind |-> "sysex", manufacturer |-> sysex.manufacturer, data |-> sysex.data]

IsData(b)     == b < 128
IsVoice(b)    == b \in 128..239
IsCommon(b)   == b \in 241..247
IsRealtime(b) == b >= 248

\* Faulty variant: counts the status byte.
VoiceLengthWithStatus(b) == IF b \div 16 \in {12, 13} THEN 2 ELSE 3

\* Data bytes of a channel voice message (channel_voice).
VoiceLength(b) == IF b \div 16 \in {12, 13} THEN 1 ELSE 2

\* Data bytes of the system common messages that have any (system_common).
CommonLength == [b \in {241, 242, 243} |-> IF b = 242 THEN 2 ELSE 1]

-----------------------------------------------------------------------------
(* What has been heard: a reference for what the callbacks must get. *)

Nothing == [status |-> 0, group |-> 0, data |-> <<>>, enabled |-> FALSE]

PayloadSize == PacketEnd - 2

\* `group` is the one in force when the packet being filled was begun.
Heard(b) ==
  LET data == Append(heard.data, b)
      full == heard.status = 240 /\ ~bySysex /\ Len(data) % PayloadSize = 0
  IN  CASE IsRealtime(b) -> heard
        [] IsData(b) /\ heard.status = 0 -> heard
        [] IsData(b) /\ heard.status # 0 ->
             [heard EXCEPT !.data = data, !.group = IF full THEN group ELSE @]
        [] OTHER -> [status |-> b, group |-> group, data |-> <<>>, enabled |-> invoke]

-----------------------------------------------------------------------------
Fresh(packetByte) ==
  [packet |-> NoPacket, packetByte |-> packetByte, missing |-> 0, sysex |-> NoSysex]

Init ==
  /\ group \in Groups
  /\ invoke \in BOOLEAN
  /\ bySysex \in BOOLEAN
  /\ st = Fresh(0)
  /\ out = Silence
  /\ heard = Nothing

\* A byte that makes no callback leads to state s.
Quietly(b, s) ==
  /\ st' = s
  /\ out' = Silence
  /\ heard' = Heard(b)

\* A byte hands `what` to a callback when callbacks are enabled: s is the state
\* the callback finds, Rest what feed() does to the state the callback leaves.
Post(b, what, s, Rest(_)) ==
  IF invoke
    THEN \E r \in Reactions :
           /\ st' = Rest(IF r = "reset" THEN Fresh(1) ELSE s)
           /\ out' = what
           /\ heard' = IF r = "reset" THEN Nothing ELSE Heard(b)
    ELSE Quietly(b, Rest(s))

Same(s) == s

\* Faulty variant: the message stays, its status still runs.
KeepPacket(s) == s

DropPacket(s) == [s EXCEPT !.packet = NoPacket]

\* system_realtime
Realtime(b) ==
  /\ IsRealtime(b)
  /\ IF b \in {249, 253}
       THEN Quietly(b, st)
       ELSE Post(b, Packet("system", group, b), st, Same)

\* sysex_start: in callback mode a SysEx that starts while callbacks are
\* disabled is skipped (packetByte 0).
SysexStart(b) ==
  /\ b = 240
  /\ Quietly(b, [packet     |-> Packet("data", group, Start),
                 packetByte |-> IF bySysex /\ ~invoke THEN 0 ELSE 2,
                 missing    |-> 0,
                 sysex      |-> IF bySysex THEN NoSysex ELSE st.sysex])

\* system_common; an F7 within a SysEx is not one.
SystemCommon(b) ==
  /\ IsCommon(b)
  /\ ~(b = 247 /\ st.packet.kind = "data")
  /\ LET opened == [st EXCEPT !.packet = Packet("system", group, b),
                              !.packetByte = 2, !.missing = 0]
     IN  CASE b \in DOMAIN CommonLength ->
                Quietly(b, [opened EXCEPT !.missing = CommonLength[b]])
           [] b = 246 -> Post(b, opened.packet, opened, DropPacket)
           [] OTHER   -> Quietly(b, DropPacket(opened))

\* channel_voice
ChannelVoice(b) ==
  /\ IsVoice(b)
  /\ Quietly(b, [st EXCEPT !.packet = Packet("voice", group, b),
                           !.packetByte = 2, !.missing = VoiceLength(b)])

\* The tail of feed(): a data byte of a channel voice or system common message.
MessageData(b) ==
  /\ IsData(b)
  /\ st.packet.kind # "data"
  /\ IF st.packet.status = 0 \/ st.missing = 0 \/ st.packetByte >= 4
       THEN Quietly(b, st)
       ELSE LET filled == [st EXCEPT !.packet.body[st.packetByte] = b,
                                     !.missing = @ - 1]
                rerun == [filled EXCEPT !.missing = st.packetByte - 1,
                                        !.packetByte = 2]
            IN  CASE filled.missing > 0 ->
                       Quietly(b, [filled EXCEPT !.packetByte = @ + 1])
                  [] filled.missing = 0 /\ st.packet.kind = "voice" ->
                       Post(b, rerun.packet, rerun, Same)
                  [] OTHER -> Post(b, filled.packet, filled, DropPacket)

\* sysex_continue_callback
SysexDataToMessage(b) ==
  LET sysex == st.sysex
      inId  == sysex.manufacturer = <<>> \/ sysex.manufacturer[1] = 0
  IN  CASE st.packetByte < 2 -> Quietly(b, st)
        [] st.packetByte = 2 ->
             Quietly(b, [st EXCEPT !.sysex.manufacturer = <<b>>, !.packetByte = 3])
        [] st.packetByte \in {3, 4} /\ inId ->
             Quietly(b, [st EXCEPT !.sysex.manufacturer = Append(@, b),
                                   !.packetByte = @ + 1])
        [] OTHER -> Quietly(b, [st EXCEPT !.sysex.data = Append(@, b)])

\* Faulty variant: the packet goes out one byte late.
SysexDataToPacketLate(b) ==
  LET filled == [st EXCEPT !.packet.body[st.packetByte] = b, !.packetByte = @ + 1]
      Next7(s) == [s EXCEPT !.packet = Packet("data", group, Continue),
                            !.packetByte = 2]
  IN  IF filled.packetByte <= PacketEnd
        THEN Quietly(b, filled)
        ELSE Post(b, [filled.packet EXCEPT !.size = PayloadSize], filled, Next7)

\* sysex_continue_packet: a full packet goes out at once, whatever the callback
\* does the parser goes on with a continue packet.
SysexDataToPacket(b) ==
  LET filled == [st EXCEPT !.packet.body[st.packetByte] = b, !.packetByte = @ + 1]
      Next7(s) == [s EXCEPT !.packet = Packet("data", group, Continue),
                            !.packetByte = 2]
  IN  IF filled.packetByte < PacketEnd
        THEN Quietly(b, filled)
        ELSE Post(b, [filled.packet EXCEPT !.size = PayloadSize], filled, Next7)

SysexData(b) ==
  /\ IsData(b)
  /\ st.packet.kind = "data"
  /\ IF bySysex THEN SysexDataToMessage(b) ELSE SysexDataToPacket(b)

\* sysex_end_callback
SysexEndMessage(b) ==
  LET sysex     == st.sysex
      shortId   == sysex.manufacturer = <<>> \/ sysex.manufacturer[1] = 0
      Forget(s) == [s EXCEPT !.sysex = NoSysex]
  IN  IF shortId /\ st.packetByte < 5
        THEN Quietly(b, DropPacket(st))
        ELSE Post(b, SysexCall(sysex), DropPacket(st), Forget)

\* sysex_end_packet
SysexEndPacket(b) ==
  LET first   == st.packet.status = Start
      last    == [st.packet EXCEPT !.status = IF first THEN Complete ELSE End,
                                   !.size = st.packetByte - 2]
      Done(s) == [s EXCEPT !.packet = NoPacket, !.packetByte = 2]
  IN  IF first /\ st.packetByte < 3
        THEN Quietly(b, DropPacket(st))
        ELSE Post(b, last, [st EXCEPT !.packet = last], Done)

SysexEnd(b) ==
  /\ b = 247
  /\ st.packet.kind = "data"
  /\ IF bySysex THEN SysexEndMessage(b) ELSE SysexEndPacket(b)

Feed(b) ==
  /\ \/ Realtime(b) \/ SysexStart(b) \/ SystemCommon(b) \/ ChannelVoice(b)
     \/ MessageData(b) \/ SysexData(b) \/ SysexEnd(b)
  /\ UNCHANGED <<group, invoke, bySysex>>

Reset ==
  /\ st' = Fresh(1)
  /\ out' = Silence
  /\ heard' = Nothing
  /\ UNCHANGED <<group, invoke, bySysex>>

SetGroup(g) ==
  /\ group' = g
  /\ out' = Silence
  /\ UNCHANGED <<invoke, bySysex, st, heard>>

EnableCallbacks(enable) ==
  /\ invoke' = enable
  /\ out' = Silence
  /\ UNCHANGED <<group, bySysex, st, heard>>

\* MaxHeard only keeps the instance finite.
Bounded(b) == IsData(b) => Len(heard.data) < MaxHeard

Next ==
  \/ \E b \in Bytes : Bounded(b) /\ Feed(b)
  \/ Reset
  \/ \E g \in Groups : SetGroup(g)
  \/ \E enable \in BOOLEAN : EnableCallbacks(enable)

Spec == Init /\ [][Next]_vars

-----------------------------------------------------------------------------
(* Properties. *)

Packets ==
  [kind : {"none", "system", "voice", "data"}, group : Groups, status : 0..255,
   size : 0..PayloadSize, body : [Payload -> 0..127]]

ParserStates ==
  [packet : Packets, packetByte : Nat, missing : 0..2,
   sysex : [manufacturer : Seq(0..127), data : Seq(0..127)]]

TypeOK ==
  /\ group \in Groups
  /\ invoke \in BOOLEAN
  /\ bySysex \in BOOLEAN
  /\ st \in ParserStates
  /\ out \in {Silence} \union Packets \union
             [kind : {"sysex"}, manufacturer : Seq(0..127), data : Seq(0..127)]
  /\ heard \in [status : 0..255, group : Groups, data : Seq(0..127), enabled : BOOLEAN]

\* Data bytes of the message in a packet.
MessageLength(packet) ==
  IF packet.kind = "voice" THEN VoiceLength(packet.status) ELSE CommonLength[packet.status]

Positioned(s) ==
  /\ s.packet.kind \in {"voice", "system"} =>
       /\ s.missing > 0
       /\ s.packetByte \in {2, 3}
       /\ s.packetByte - 2 + s.missing = MessageLength(s.packet)
  /\ s.packet.kind = "data" =>
       IF bySysex THEN s.packetByte \in {0} \union 2..5 ELSE s.packetByte \in Payload

\* Position and countdown never drift apart, also under running status and when
\* messages cut each other short: the next data byte goes where it belongs, and
\* no byte is ever written outside of the packet.
WritePosition == Positioned(st)

\* A packet as the stream describes it, its payload the last n bytes of data.
PacketOf(kind, grp, status, data, n, size) ==
  [kind |-> kind, group |-> grp, status |-> status, size |-> size,
   body |-> [i \in Payload |-> IF i - 1 <= n THEN data[Len(data) - n + i - 1] ELSE 0]]

\* The callback that byte b calls for after what has been heard.
Expected(b) ==
  LET data  == Append(heard.data, b)
      count == Len(data)
      past  == heard.data
      id    == IF past # <<>> /\ past[1] # 0 THEN 1 ELSE 3
      tail  == Len(past) % PayloadSize
      form  == IF Len(past) < PayloadSize THEN Complete ELSE End
  IN  CASE (IsRealtime(b) /\ b \notin {249, 253}) \/ b = 246 -> Packet("system", group, b)
        [] IsData(b) /\ IsVoice(heard.status)
                    /\ count % VoiceLength(heard.status) = 0 ->
             PacketOf("voice", heard.group, heard.status, data, VoiceLength(heard.status), 0)
        [] IsData(b) /\ heard.status \in DOMAIN CommonLength
                    /\ count = CommonLength[heard.status] ->
             PacketOf("system", heard.group, heard.status, data, count, 0)
        [] IsData(b) /\ heard.status = 240 /\ ~bySysex /\ count % PayloadSize = 0 ->
             PacketOf("data", heard.group, IF count = PayloadSize THEN Start ELSE Continue,
                      data, PayloadSize, PayloadSize)
        [] b = 247 /\ heard.status = 240 /\ ~bySysex /\ past # <<>> ->
             PacketOf("data", heard.group, form, past, tail, tail)
        [] b = 247 /\ heard.status = 240 /\ bySysex /\ heard.enabled /\ Len(past) >= id ->
             SysexCall([manufacturer |-> SubSeq(past, 1, id),
                        data         |-> SubSeq(past, id + 1, Len(past))])
        [] OTHER -> Silence

\* Each byte makes exactly the callback the MIDI 1.0 byte stream calls for: with
\* realtime bytes anywhere, running status, messages cut short, SysEx of any
\* length in packets or as a message, groups and callbacks switched in between.
ReportsWhatWasHeard ==
  [][\A b \in Bytes :
       Feed(b) => out' = IF invoke THEN Expected(b) ELSE Silence]_vars

=============================================================================
