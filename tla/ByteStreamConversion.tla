------------------------ MODULE ByteStreamConversion ------------------------
(***************************************************************************)
(* Universal MIDI packets on a MIDI 1.0 byte stream and back: packets made *)
(* by from_midi1_byte_stream or by a SysEx sender are turned into bytes    *)
(* (to_midi1_byte_stream), the bytes go over a wire that also carries      *)
(* realtime bytes and the bytes of other devices, and a parser turns them  *)
(* into packets again.                                                     *)
(***************************************************************************)
EXTENDS ByteStreamParser, SequencesExt

CONSTANTS
  Messages,  \* arguments of from_midi1_byte_stream: status and two data bytes
  Values,    \* data bytes of SysEx messages
  MaxBefore  \* bound on the data bytes heard before a new message, for TLC

ASSUME ConversionAssumption ==
  /\ Messages \subseteq (0..255) \X (0..127) \X (0..127)
  /\ Values \subseteq 0..127
  /\ MaxBefore \in Nat

VARIABLES
  wire,  \* bytes of a packet on the way to the parser
  sent,  \* history: the packet they come from
  told   \* history: data of the SysEx under way as its packets say, or NoMessage

conversionVars == <<vars, wire, sent, told>>

NoMessage == <<-1>>

-----------------------------------------------------------------------------
(* Conversion. *)

Reserved == {240, 244, 245, 247, 249, 253}

\* from_midi1_byte_stream: packet_type::utility (an empty packet) is "none".
FromBytes(status, d1, d2) ==
  IF status < 128 \/ status \in Reserved
    THEN NoPacket
    ELSE [Packet(IF status >= 240 THEN "system" ELSE "voice", 0, status)
            EXCEPT !.body = [i \in Payload |-> IF i = 2 THEN d1 ELSE IF i = 3 THEN d2 ELSE 0]]

\* Bytes of a message without SysEx data, its status byte included.
SizeOfStatus(kind, status) ==
  CASE kind = "voice" -> IF status \div 16 \in {12, 13} THEN 2 ELSE 3
    [] kind = "system" /\ status = 242 -> 3
    [] kind = "system" /\ status \in {241, 243} -> 2
    [] kind = "system" /\ status \in {246} \union (248..255 \ Reserved) -> 1
    [] OTHER -> 0

\* midi1_byte_stream_size
StreamSize(p) == IF p.kind = "data" THEN p.size ELSE SizeOfStatus(p.kind, p.status)

DataBytes(p, n) == [i \in 1..n |-> p.body[i + 1]]

\* Faulty variant: a SysEx that does not fit into one packet starts with no F0.
ToBytesCompleteOnly(p) ==
  IF p.kind = "data"
    THEN (IF p.status = Complete THEN <<240>> ELSE <<>>)
         \o DataBytes(p, StreamSize(p))
         \o (IF p.status \in {Complete, End} THEN <<247>> ELSE <<>>)
    ELSE IF StreamSize(p) = 0 THEN <<>>
                              ELSE <<p.status>> \o DataBytes(p, StreamSize(p) - 1)

\* to_midi1_byte_stream
ToBytes(p) ==
  IF p.kind = "data"
    THEN (IF p.status \in {Complete, Start} THEN <<240>> ELSE <<>>)
         \o DataBytes(p, StreamSize(p))
         \o (IF p.status \in {Complete, End} THEN <<247>> ELSE <<>>)
    ELSE IF StreamSize(p) = 0 THEN <<>>
                              ELSE <<p.status>> \o DataBytes(p, StreamSize(p) - 1)

-----------------------------------------------------------------------------
ConversionInit ==
  /\ Init
  /\ wire = <<>>
  /\ sent = NoPacket
  /\ told = NoMessage

\* Packet p is converted.
Put(p) ==
  /\ wire = <<>>
  /\ wire' = ToBytes(p)
  /\ sent' = IF wire' = <<>> THEN NoPacket ELSE p
  /\ out' = Silence
  /\ UNCHANGED <<group, invoke, bySysex, st, heard>>

\* A message of one packet: all but realtime messages end a SysEx.
SendMessage ==
  \E msg \in Messages :
    LET p == FromBytes(msg[1], msg[2], msg[3])
    IN  /\ Len(heard.data) <= MaxBefore
        /\ Put(p)
        /\ told' = IF p.kind = "none" \/ IsRealtime(p.status) THEN told ELSE NoMessage

\* A sysex7 packet of a sender that keeps their order.
SendSysex ==
  \E status \in {Complete, Start, Continue, End}, data \in SeqOf(Values, PayloadSize) :
    LET opens == status \in {Complete, Start}
        whole == IF opens THEN data ELSE told \o data
    IN  /\ IF opens THEN Len(heard.data) <= MaxBefore ELSE told # NoMessage
        /\ Len(whole) <= MaxHeard
        /\ Put([Packet("data", 0, status) EXCEPT
                  !.size = Len(data),
                  !.body = [i \in Payload |-> IF i - 1 <= Len(data) THEN data[i - 1] ELSE 0]])
        /\ told' = whole

\* The parser is fed the next byte of the packet.
Deliver ==
  /\ wire # <<>>
  /\ Feed(Head(wire))
  /\ wire' = Tail(wire)
  /\ IF wire' = <<>>
       THEN /\ sent' = NoPacket
            /\ told' = IF sent.kind = "data" /\ sent.status \in {Complete, End}
                         THEN NoMessage ELSE told
       ELSE UNCHANGED <<sent, told>>

\* A byte of another device; between the bytes of a packet, realtime only.
Interject(b) ==
  /\ wire # <<>> => IsRealtime(b)
  /\ Bounded(b)
  /\ Feed(b)
  /\ told' = IF IsRealtime(b) THEN told ELSE NoMessage
  /\ UNCHANGED <<wire, sent>>

ResetParser ==
  /\ Reset
  /\ told' = NoMessage
  /\ sent' = NoPacket
  /\ wire' = <<>>

Control ==
  /\ wire = <<>>
  /\ \/ \E g \in Groups : SetGroup(g)
     \/ \E enable \in BOOLEAN : EnableCallbacks(enable)
  /\ UNCHANGED <<wire, sent, told>>

ConversionNext ==
  \/ SendMessage
  \/ SendSysex
  \/ Deliver
  \/ \E b \in Bytes : Interject(b)
  \/ ResetParser
  \/ Control

ConversionSpec == ConversionInit /\ [][ConversionNext]_conversionVars

-----------------------------------------------------------------------------
(* Properties. *)

\* A packet without the data its message does not have, as the parser makes it.
Plain(p) ==
  [p EXCEPT !.body = [i \in Payload |-> IF i <= StreamSize(p) THEN @[i] ELSE 0]]

\* What the last byte of a packet must make the parser report.
Echo(p) ==
  CASE p.kind # "data" ->
         [Plain(p) EXCEPT !.group = IF IsRealtime(p.status) THEN group ELSE heard'.group]
    [] p.kind = "data" /\ p.status = Complete -> [p EXCEPT !.group = heard.group]
    [] OTHER -> out'

\* Every message that goes out as bytes comes back as the packet it was, whatever
\* was on the stream before and with realtime bytes in its midst; a SysEx split
\* into packets at any place comes back with all of its data.  (A complete SysEx
\* packet without data becomes F0 F7, which the parser does not report; a full
\* one comes back as a start packet and an end packet without data.)
ComesBack ==
  [][Deliver /\ wire' = <<>> =>
       /\ invoke /\ ~(sent.kind = "data" /\ (bySysex \/ sent.size \in {0, PayloadSize})) =>
            out' = Echo(sent)
       /\ sent.kind = "data" /\ sent.status \in {Complete, End} =>
            heard.status = 240 /\ heard.data = told
    ]_conversionVars

=============================================================================
