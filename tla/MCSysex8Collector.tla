------------------------- MODULE MCSysex8Collector -------------------------
(* Small instances of Sysex8Collector: two streams, a sysex8 packet        *)
(* carries up to two bytes instead of 13.  The bytes are one of each kind  *)
(* that the manufacturer ID tells apart: zero, 1..127 and above.           *)
EXTENDS Sysex8Collector

MCByte == {0, 1, 129}
=============================================================================
