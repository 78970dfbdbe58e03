---------------------------- MODULE SysexSender ----------------------------
(***************************************************************************)
(* How a System Exclusive message is cut into packets: send_sysex7 and     *)
(* send_sysex8, pure functions of the message.                             *)
(*                                                                         *)
(* A message is a manufacturer ID and data.  As in the collectors an ID is *)
(* a sequence of bytes: <<m>> or <<0, m, n>>, the IDs of the MIDI          *)
(* specification, and <<0, 0, 0>>, which is the manufacturerID 0 that a    *)
(* message has until it is given another one.                              *)
(***************************************************************************)
EXTENDS Naturals, Sequences

CONSTANT MaxPayload  \* bytes of a packet: 6 for sysex7, 13 for sysex8

\* sysex::total_data_size: an ID of 0 is not counted, though it is sent.
TotalDataSize(m) ==
  Len(m.data) + (IF m.manufacturer = <<0, 0, 0>> THEN 0 ELSE Len(m.manufacturer))

First(m, id) ==
  [status  |-> IF TotalDataSize(m) <= MaxPayload THEN "complete" ELSE "start",
   payload |-> id]

\* Faulty variant: the last packet, when it is a full one, does not end.
AddByteLate(s, b) ==
  LET full == [s.packet EXCEPT !.payload = Append(@, b)]
      left == s.left - 1
  IN  IF Len(full.payload) = MaxPayload
        THEN [sent   |-> Append(s.sent, full), left |-> left,
              packet |-> [status  |-> IF left < MaxPayload THEN "end" ELSE "continue",
                          payload |-> <<>>]]
        ELSE [s EXCEPT !.packet = full, !.left = left]

\* The loop over the data bytes: s.sent went out, s.packet is being filled,
\* s.left bytes are still to come.
AddByte(s, b) ==
  LET full == [s.packet EXCEPT !.payload = Append(@, b)]
      left == s.left - 1
  IN  IF Len(full.payload) = MaxPayload
        THEN [sent   |-> Append(s.sent, full), left |-> left,
              packet |-> [status  |-> IF left <= MaxPayload THEN "end" ELSE "continue",
                          payload |-> <<>>]]
        ELSE [s EXCEPT !.packet = full, !.left = left]

\* What the loop has done after n of the data bytes, for every n.
Filling(m, id) ==
  LET after[n \in 0..Len(m.data)] ==
        IF n = 0 THEN [sent |-> <<>>, packet |-> First(m, id), left |-> Len(m.data)]
                 ELSE AddByte(after[n - 1], m.data[n])
  IN  after

\* The packets of message m whose manufacturer ID goes out as the bytes `id`.
Sent(m, id) ==
  LET s == Filling(m, id)[Len(m.data)]
  IN  IF s.packet.payload = <<>> THEN s.sent ELSE Append(s.sent, s.packet)

\* Manufacturer ID bytes of sysex7 packets: of an ID of 0 one byte only.
Sysex7Id(id) == IF id = <<0, 0, 0>> THEN <<0>> ELSE id

\* send_sysex7
Sysex7Packets(m) == Sent(m, Sysex7Id(m.manufacturer))

\* Manufacturer ID bytes of sysex8 packets: always two, bit 7 of the first one
\* tells an ID of three bytes, which an ID of 0 is not.
Sysex8Id(id) ==
  IF Len(id) = 3 /\ (id[2] # 0 \/ id[3] # 0) THEN <<128 + id[2], id[3]>> ELSE <<0, id[1]>>

\* send_sysex8
Sysex8Packets(m) == Sent(m, Sysex8Id(m.manufacturer))

=============================================================================
