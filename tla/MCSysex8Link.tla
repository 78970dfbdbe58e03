--------------------------- MODULE MCSysex8Link ---------------------------
(* Small instances of Sysex8Link: packets of the real 13 bytes, messages   *)
(* of up to three packets.  Data bytes are numbered, so that one that is   *)
(* lost or moved shows; bytes above 127 come from the messages' IDs.       *)
EXTENDS Sysex8Link

Numbered(id, n) == [manufacturer |-> id, data |-> [i \in 1..n |-> i]]

\* Two bytes of ID and 11 bytes of data fill a packet, 24 bytes of data two of
\* them.  12 data bytes after an ID of one byte, 11 after one of three, and 12 and
\* 13 after the ID 0 are left out: those are the sizes that send_sysex8 gets wrong.
MCFewMessages ==
  {Numbered(<<7>>, n) : n \in {0, 11, 13}} \union
  {Numbered(<<0, 8, 9>>, n) : n \in {24, 25}} \union {Numbered(<<0, 0, 0>>, 14)}

MCAllMessages ==
  {Numbered(id, n) : id \in {<<7>>, <<0, 8, 9>>, <<0, 0, 0>>}, n \in 0..30}

MCByte == 0..255
=============================================================================
