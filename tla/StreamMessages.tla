--------------------------- MODULE StreamMessages ---------------------------
(***************************************************************************)
(* Stream messages: what the factories make, what the views read, and how  *)
(* a text of any length is sent in packets.                                *)
(*                                                                         *)
(* A packet is its status, its format and its bytes from the third one on. *)
(***************************************************************************)
EXTENDS Integers, Sequences

CONSTANT TextBytes  \* bytes of text in a packet, 14 in the code

ASSUME TextAssumption == TextBytes \in Nat /\ TextBytes >= 2

AllBlocks == 255  \* function_block_discovery_view: all blocks are asked for

Packet(status, format, bytes) == [status |-> status, format |-> format, bytes |-> bytes]
Complete(status, bytes) == Packet(status, "complete", bytes)

\* set_byte for the characters of a text, the rest of the packet stays 0.
TextPacket(status, format, before, text) ==
  Packet(status, format,
         [i \in 1..TextBytes |->
            IF i <= Len(before) THEN before[i]
            ELSE IF i - Len(before) <= Len(text) THEN text[i - Len(before)] ELSE 0])

\* stream_message::payload_as_string: 7 bits of each byte, up to a zero
PayloadAsString(p, offset) ==
  LET bytes == [i \in 1..TextBytes - offset |-> p.bytes[offset + i] % 128]
  IN  CHOOSE text \in {SubSeq(bytes, 1, n) : n \in 0..Len(bytes)} :
        /\ \A i \in 1..Len(text) : text[i] # 0
        /\ Len(text) < Len(bytes) => bytes[Len(text) + 1] = 0

-----------------------------------------------------------------------------
(* Texts *)

FormatOf(i, count) ==
  IF count = 1 THEN "complete"
  ELSE CASE i = 1 -> "start" [] i = count -> "end" [] OTHER -> "cont"

\* string_view::substr: n characters after the first k, or what there is
Substr(text, k, n) == SubSeq(text, k + 1, IF k + n <= Len(text) THEN k + n ELSE Len(text))

Cut(text, room, count, status, before) ==
  [i \in 1..count |->
     TextPacket(status, FormatOf(i, count), before, Substr(text, (i - 1) * room, room))]

\* Faulty variant: a rest that does not fill a packet is left.
FullPacketsOnly(text, room, status, before) ==
  Cut(text, room, IF Len(text) <= room THEN 1 ELSE Len(text) \div room, status, before)

\* The loop of send_endpoint_name and send_function_block_name: packets of as much
\* text as has room, at least one.
Packets(text, room, status, before) ==
  Cut(text, room, IF Len(text) <= room THEN 1 ELSE (Len(text) + room - 1) \div room, status, before)

EndpointName(name) == Packets(name, TextBytes, "endpoint_name", <<>>)

FunctionBlockName(block, name) == Packets(name, TextBytes - 1, "function_block_name", <<block>>)

\* send_product_instance_id: two packets at most, with two characters in the second
ProductInstanceId(id) ==
  IF Len(id) <= TextBytes
    THEN <<TextPacket("product_instance_id", "complete", <<>>, id)>>
    ELSE <<TextPacket("product_instance_id", "start", <<>>, Substr(id, 0, TextBytes)),
           TextPacket("product_instance_id", "end", <<>>, Substr(id, TextBytes, 2))>>

-----------------------------------------------------------------------------
(* Discovery and configuration.  A filter is the set of what is asked for. *)

EndpointDiscoveryMessage(filter) ==
  [status |-> "endpoint_discovery", format |-> "complete", filter |-> filter]

FunctionBlockDiscovery(block, filter) ==
  [status |-> "function_block_discovery", format |-> "complete", block |-> block, filter |-> filter]

\* Faulty variant: nobody is block 255.
RequestsThisBlock(m, block) == m.block = block

RequestsFunctionBlock(m, block) == m.block \in {AllBlocks, block}

StreamConfigurationRequest(protocol, extensions) ==
  Complete("stream_configuration_request", <<protocol, extensions>>)

StreamConfigurationNotification(protocol, extensions) ==
  Complete("stream_configuration_notify", <<protocol, extensions>>)

\* Faulty variant: the two bytes swapped
ConfigurationSwapped(p) == [protocol |-> p.bytes[2] % 4, extensions |-> p.bytes[1] % 4]

StreamConfiguration(p) == [protocol |-> p.bytes[1] % 4, extensions |-> p.bytes[2] % 4]

-----------------------------------------------------------------------------
(* Facts about the endpoint and its function blocks *)

EndpointInfo(i) ==
  Complete("endpoint_info",
           <<i.major, i.minor, (IF i.static THEN 128 ELSE 0) + i.blocks, 0, i.protocols, i.extensions>>)

ReadEndpointInfo(p) ==
  [major |-> p.bytes[1], minor |-> p.bytes[2], static |-> p.bytes[3] >= 128,
   blocks |-> p.bytes[3] % 128, protocols |-> p.bytes[5] % 4, extensions |-> p.bytes[6] % 4]

Low(n) == n % 128
High(n) == (n \div 128) % 128

\* make_device_identity_message, device_identity_view: seven bits in each byte,
\* the lowest first
DeviceIdentityMessage(i) ==
  Complete("device_identity",
           i.manufacturer \o
           <<Low(i.family), High(i.family), Low(i.model), High(i.model),
             Low(i.revision), High(i.revision), Low(i.revision \div 16384),
             High(i.revision \div 16384)>>)

ReadDeviceIdentity(p) ==
  LET Fourteen(k) == (p.bytes[k] % 128) + 128 * (p.bytes[k + 1] % 128)
  IN  [manufacturer |-> SubSeq(p.bytes, 1, 3), family |-> Fourteen(4), model |-> Fourteen(6),
       revision |-> Fourteen(8) + 16384 * Fourteen(10)]

\* make_function_block_info_message with options.  A hint of 0 is the direction.
FunctionBlockInfo(block, b) ==
  Complete("function_block_info",
           <<(IF b.active THEN 128 ELSE 0) + (block % 32),
             16 * ((IF b.hint = 0 THEN b.direction ELSE b.hint) % 4) +
               4 * (b.midi1 % 4) + (b.direction % 4),
             b.first % 16, b.groups % 16, b.ci, b.streams>>)

ReadFunctionBlockInfo(p) ==
  [active |-> p.bytes[1] >= 128, direction |-> p.bytes[2] % 4, midi1 |-> (p.bytes[2] \div 4) % 4,
   hint |-> (p.bytes[2] \div 16) % 4, first |-> p.bytes[3], groups |-> p.bytes[4],
   ci |-> p.bytes[5], streams |-> p.bytes[6]]

BlockOf(p) == p.bytes[1] % 128

=============================================================================
