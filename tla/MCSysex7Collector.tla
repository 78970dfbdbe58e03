------------------------- MODULE MCSysex7Collector -------------------------
(* Small instances of Sysex7Collector: a sysex7 packet carries up to two   *)
(* bytes instead of six, the buffer starts at four bytes instead of 128    *)
(* and is freed above five instead of 16384.                               *)
EXTENDS Sysex7Collector

MCByte == {0, 1}
=============================================================================
