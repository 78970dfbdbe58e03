--------------------------- MODULE MCSysex7Link ---------------------------
(* Small instances of Sysex7Link: packets of the real six bytes, messages  *)
(* around one, two and three full packets, with both kinds of IDs.  Data   *)
(* bytes are numbered, so that one that is lost or moved shows.            *)
EXTENDS Sysex7Link

Numbered(id, n) == [manufacturer |-> id, data |-> [i \in 1..n |-> i]]

MCMessages ==
  {Numbered(<<7>>, n) : n \in {0, 5, 6, 11, 12, 17, 18}} \union
  {Numbered(<<0, 7, 0>>, n) : n \in {0, 3, 4, 10}}

MCByte == 0..18
=============================================================================
