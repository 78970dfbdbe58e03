----------------------- MODULE MCByteStreamConversion -----------------------
(* Small instances of ByteStreamConversion: one byte of every class the    *)
(* parser tells apart, and sysex7 packets with two payload bytes, not six. *)
EXTENDS ByteStreamConversion

\* a data byte, note on, program change, F0, one and two data bytes of system
\* common, undefined, F7, clock and an undefined realtime byte; other data bytes
\* come with messages and SysEx
MCBytes == {0, 144, 192, 240, 241, 242, 244, 247, 248, 253}
MCGroups == {0, 1}

\* a data byte, three and two bytes of channel voice, SysEx start, one, three
\* and two bytes of system common, realtime; with data their messages do not have
MCMessages ==
  {<<1, 0, 0>>, <<144, 0, 1>>, <<192, 1, 1>>, <<240, 0, 0>>, <<246, 1, 0>>,
   <<242, 0, 1>>, <<241, 1, 1>>, <<248, 0, 0>>}
MCValues == {1}
=============================================================================
