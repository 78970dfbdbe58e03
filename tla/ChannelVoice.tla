---------------------------- MODULE ChannelVoice ----------------------------
(***************************************************************************)
(* Channel voice messages of the MIDI 1.0 and the MIDI 2.0 protocol: what  *)
(* the factories make, what the accessors that take either kind read, and  *)
(* the translations from one to the other.                                 *)
(*                                                                         *)
(* A packet is a record of its fields: type, group, the two halves of the  *)
(* status byte, bytes 3 and 4, and the second word of 32 bits.             *)
(***************************************************************************)
EXTENDS Values

Status ==
  [registered_per_note_controller |-> 0, assignable_per_note_controller |-> 16,
   registered_controller |-> 32, assignable_controller |-> 48,
   relative_registered_controller |-> 64, relative_assignable_controller |-> 80,
   per_note_pitch_bend |-> 96, note_off |-> 128, note_on |-> 144, poly_pressure |-> 160,
   control_change |-> 176, program_change |-> 192, channel_pressure |-> 208,
   pitch_bend |-> 224, per_note_management |-> 240]

Pitch79 == 3  \* note_attribute::pitch_7_9

Midi1(group, status, channel, d1, d2) ==
  [type |-> "midi1", group |-> group % 16, status |-> status, channel |-> channel % 16,
   byte3 |-> d1 % 128, byte4 |-> d2 % 128, data |-> Least]

Midi2(group, status, channel, byte3, byte4, data) ==
  [type |-> "midi2", group |-> group % 16, status |-> status, channel |-> channel % 16,
   byte3 |-> byte3, byte4 |-> byte4, data |-> data]

\* make_midi1_pitch_bend_message, get_14bit_value: seven bits in each byte
Midi1PitchBend(group, channel, bend) ==
  LET n == Downsample32To14(bend)
  IN  Midi1(group, Status.pitch_bend, channel, n % 128, n \div 128)

FourteenBits(p) == (p.byte3 % 128) + 128 * (p.byte4 % 128)

\* make_midi2_note_on_message, make_midi2_note_off_message
Midi2Note(group, status, channel, note, velocity, attribute, value) ==
  Midi2(group, status, channel, note, attribute, TwoHalves(velocity, value))

\* make_midi2_program_change_message without and with a bank
Midi2Program(group, channel, program) ==
  Midi2(group, Status.program_change, channel, 0, 0,
        <<(program % 128) \div 2, 16777216 * (program % 2)>>)

Midi2ProgramOfBank(group, channel, program, bank) ==
  Midi2(group, Status.program_change, channel, 0, 1,
        <<(program % 128) \div 2,
          16777216 * (program % 2) + 256 * ((bank \div 128) % 128) + (bank % 128)>>)

-----------------------------------------------------------------------------
(* Accessors for messages of both protocols. *)

\* A MIDI 1.0 note on with velocity 0 is a note off.
IsNoteOn(p) == p.status = Status.note_on /\ (p.type = "midi2" \/ p.byte4 # 0)
IsNoteOff(p) ==
  \/ p.status = Status.note_off
  \/ p.type = "midi1" /\ p.status = Status.note_on /\ p.byte4 = 0

NoteNr(p) == p.byte3 % 128

NotePitch(p) ==
  IF p.type = "midi2" /\ p.status = Status.note_on /\ p.byte4 = Pitch79
    THEN LowHalf(p.data)
    ELSE 512 * NoteNr(p)

\* Faulty variant: the release velocity of a note on with velocity 0 is 0.
NoteVelocityAsIs(p) ==
  IF p.type = "midi2" THEN HighHalf(p.data) ELSE Upsample7To16(p.byte4 % 128)

NoteVelocity(p) ==
  CASE p.type = "midi2" -> HighHalf(p.data)
    [] p.type = "midi1" /\ p.status = Status.note_on /\ p.byte4 = 0 -> Upsample7To16(64)
    [] OTHER -> Upsample7To16(p.byte4 % 128)

\* get_controller_value, get_poly_pressure_value
ControllerValue(p) == IF p.type = "midi1" THEN Upsample7To32(p.byte4 % 128) ELSE p.data

ChannelPressure(p) == IF p.type = "midi1" THEN Upsample7To32(p.byte3 % 128) ELSE p.data

PitchBend(p) == IF p.type = "midi1" THEN Upsample14To32(p.byte3 + 128 * p.byte4) ELSE p.data

\* Faulty variant: the top 7 bits, as for a controller.
ProgramFromTop(p) == IF p.type = "midi1" THEN p.byte3 % 128 ELSE p.data[1]

Program(p) ==
  IF p.type = "midi1" THEN p.byte3 % 128
                      ELSE (2 * p.data[1] + (p.data[2] \div 16777216)) % 128

\* is_pitch_bend_sensitivity_message: registered controller 0, 0.  Only its top
\* 14 bits count.
IsPitchBendSensitivity(p) ==
  p.type = "midi2" /\ p.status = Status.registered_controller /\ p.byte3 = 0 /\ p.byte4 = 0

PitchBendSensitivity(p) == Top14(p.data)

-----------------------------------------------------------------------------
(* Translations; "not a complete translator", as the code says. *)

Untranslated == [type |-> "none"]

\* Controllers that belong to sequences of messages: bank select, data entry,
\* the prefix of a high resolution velocity, parameter numbers
ReservedControllers == {0, 6, 32, 38, 88} \union 98..101

\* Faulty variant: a soft note on ends the note.
AsMidi1NoteOnAsIs(p) ==
  Midi1(p.group, Status.note_on, p.channel, NoteNr(p), Downsample16To7(HighHalf(p.data)))

\* The velocity of a note on is at least 1, 0 would be a note off.
AsMidi1NoteOn(p) ==
  LET v == Downsample16To7(HighHalf(p.data))
  IN  Midi1(p.group, Status.note_on, p.channel, NoteNr(p), IF v = 0 THEN 1 ELSE v)

\* as_midi1_channel_voice_message.  A note with an attribute, a reserved
\* controller, a program with a bank and what only MIDI 2.0 has stay untranslated.
AsMidi1(p) ==
  LET To(d1, d2) == Midi1(p.group, p.status, p.channel, d1, d2)
      index      == p.byte3 % 128
      plain      == p.byte4 % 128 = 0
  IN  CASE p.status = Status.note_off /\ plain ->
             To(index, Downsample16To7(HighHalf(p.data)))
        [] p.status = Status.note_on /\ plain -> AsMidi1NoteOn(p)
        [] p.status = Status.poly_pressure -> To(index, Downsample32To7(p.data))
        [] p.status = Status.control_change /\ index \notin ReservedControllers ->
             To(index, Downsample32To7(p.data))
        [] p.status = Status.program_change /\ p.byte4 % 2 = 0 -> To(Program(p), 0)
        [] p.status = Status.channel_pressure -> To(Downsample32To7(p.data), 0)
        [] p.status = Status.pitch_bend -> Midi1PitchBend(p.group, p.channel, p.data)
        [] OTHER -> Untranslated

\* as_midi2_channel_voice_message
AsMidi2(p) ==
  LET d1 == p.byte3 % 128
      d2 == p.byte4 % 128
      To(byte3, data) == Midi2(p.group, p.status, p.channel, byte3, 0, data)
      Note(status, velocity) ==
        Midi2Note(p.group, status, p.channel, d1, Upsample7To16(velocity), 0, 0)
  IN  CASE p.status = Status.note_off -> Note(Status.note_off, d2)
        [] p.status = Status.note_on /\ d2 = 0 -> Note(Status.note_off, 64)
        [] p.status = Status.note_on /\ d2 # 0 -> Note(Status.note_on, d2)
        [] p.status = Status.poly_pressure -> To(d1, Upsample7To32(d2))
        [] p.status = Status.control_change /\ d1 \notin ReservedControllers ->
             To(d1, Upsample7To32(d2))
        [] p.status = Status.program_change -> Midi2Program(p.group, p.channel, d1)
        [] p.status = Status.channel_pressure -> To(0, Upsample7To32(d1))
        [] p.status = Status.pitch_bend -> To(0, Upsample14To32(FourteenBits(p)))
        [] OTHER -> Untranslated

=============================================================================
