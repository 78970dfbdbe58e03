-------------------------- MODULE VoiceTranslation --------------------------
(***************************************************************************)
(* A player and three instruments.  The player makes messages of either    *)
(* protocol with the factories.  An instrument of one protocol hears a     *)
(* message of the other translated, or not at all, and reads it with the   *)
(* accessors; the instrument "again" hears what the MIDI 1.0 instrument    *)
(* heard, translated back.                                                 *)
(*                                                                         *)
(* What an instrument was told is kept per topic: a note, the pressure on  *)
(* it, a controller, the pitch bend, ... of a channel.                     *)
(***************************************************************************)
EXTENDS ChannelVoice, FiniteSets

CONSTANTS
  Group, Channel,  \* all messages are of one group and channel
  Notes, Velocities, Pitches, Controllers, Programs, Banks,
  Levels,          \* of controllers, pressure and pitch bend, of 32 bits
  Increments,      \* of relative controllers
  MaxTopics        \* bound: topics the player touches

ASSUME VoiceAssumption ==
  /\ Group \in 0..15 /\ Channel \in 0..15
  /\ Notes \subseteq Values7 /\ Controllers \subseteq Values7 /\ Programs \subseteq Values7
  /\ Velocities \union Pitches \subseteq Values16 /\ Banks \subseteq Values14
  /\ Levels \subseteq Values32 /\ Increments \subseteq Signed32

VARIABLES played,  \* topic -> what the player meant
          heard,   \* instrument -> topic -> what it was told
          missed   \* instrument -> topics whose last message was not translated

vars == <<played, heard, missed>>

Instruments == {"midi1", "midi2", "again"}
Kinds       == {"registered", "assignable"}  \* of controllers

-----------------------------------------------------------------------------
(* Reading a message. *)

What(p) ==
  LET s == p.status
  IN  CASE IsNoteOn(p) \/ IsNoteOff(p)    -> <<"note", NoteNr(p)>>
        [] s = Status.poly_pressure       -> <<"pressure", NoteNr(p)>>
        [] s = Status.control_change      -> <<"controller", p.byte3 % 128>>
        [] s = Status.program_change      -> <<"program">>
        [] s = Status.channel_pressure    -> <<"pressure">>
        [] s = Status.pitch_bend          -> <<"bend">>
        [] s = Status.per_note_pitch_bend -> <<"bend", NoteNr(p)>>
        [] IsPitchBendSensitivity(p)      -> <<"bend range">>
        [] s \in {Status.registered_controller, Status.relative_registered_controller}
             /\ ~IsPitchBendSensitivity(p) ->
             <<"registered", p.byte3, p.byte4>>
        [] s \in {Status.assignable_controller, Status.relative_assignable_controller} ->
             <<"assignable", p.byte3, p.byte4>>
        [] s = Status.registered_per_note_controller ->
             <<"registered", NoteNr(p), p.byte4, "of note">>
        [] s = Status.assignable_per_note_controller ->
             <<"assignable", NoteNr(p), p.byte4, "of note">>

Topic(group, channel, what) == [group |-> group, channel |-> channel, what |-> what]

IsRelative(p) ==
  p.status \in {Status.relative_registered_controller, Status.relative_assignable_controller}

Value(p, before) ==
  CASE IsNoteOn(p)  -> [on |-> TRUE, velocity |-> NoteVelocity(p), pitch |-> NotePitch(p)]
    [] IsNoteOff(p) -> [on |-> FALSE, velocity |-> NoteVelocity(p), pitch |-> 512 * NoteNr(p)]
    [] p.status = Status.program_change   -> Program(p)
    [] p.status = Status.channel_pressure -> ChannelPressure(p)
    [] p.status \in {Status.pitch_bend, Status.per_note_pitch_bend} -> PitchBend(p)
    [] IsPitchBendSensitivity(p)          -> PitchBendSensitivity(p)
    [] IsRelative(p)                      -> Raised(before, AsIncrement(p.data))
    [] OTHER                              -> ControllerValue(p)

\* A controller nothing was said about is at its default, controller_value{}.
Of(told, t) == IF t \in DOMAIN told THEN told[t] ELSE Least

\* What was told, and v about t
With(told, t, v) == [u \in DOMAIN told \union {t} |-> IF u = t THEN v ELSE told[u]]

Told(told, p) ==
  LET t == Topic(p.group, p.channel, What(p)) IN With(told, t, Value(p, Of(told, t)))

\* What the instrument hears of the packet
HeardBy(i, p) ==
  LET old == IF p.type = "midi1" THEN p ELSE AsMidi1(p)
  IN  CASE i = "midi1" -> old
        [] i = "midi2" -> IF p.type = "midi2" THEN p ELSE AsMidi2(p)
        [] i = "again" -> IF old = Untranslated THEN old ELSE AsMidi2(old)

Send(what, value, p) ==
  LET t == Topic(Group, Channel, what)
  IN  /\ Cardinality(DOMAIN played \union {t}) <= MaxTopics
      /\ played' = With(played, t, value)
      /\ heard' = [i \in Instruments |->
                     IF HeardBy(i, p) = Untranslated THEN heard[i] ELSE Told(heard[i], HeardBy(i, p))]
      /\ missed' = [i \in Instruments |->
                      IF HeardBy(i, p) = Untranslated THEN missed[i] \union {t} ELSE missed[i] \ {t}]

-----------------------------------------------------------------------------
(* The player, one action per factory.  A message of MIDI 1.0 holds the 7  *)
(* bit (14 bit) value of what is played.                                   *)

Init ==
  /\ played = <<>>
  /\ heard = [i \in Instruments |-> <<>>]
  /\ missed = [i \in Instruments |-> {}]

Sounding(n, v) == [on |-> TRUE, velocity |-> v, pitch |-> 512 * n]
Silent(n, v)   == [on |-> FALSE, velocity |-> v, pitch |-> 512 * n]

Coarse16(v) == Upsample7To16(Downsample16To7(v))
Coarse32(v) == Upsample7To32(Downsample32To7(v))

\* make_midi2_note_on_message, make_midi1_note_on_message.  In MIDI 1.0 a
\* velocity below 512 is 0: the note ends.
StrikeNote(n, v) ==
  \/ Send(<<"note", n>>, Sounding(n, v),
          Midi2Note(Group, Status.note_on, Channel, n, v, 0, 0))
  \/ Send(<<"note", n>>,
          IF v >= 512 THEN Sounding(n, Coarse16(v)) ELSE Silent(n, Upsample7To16(64)),
          Midi1(Group, Status.note_on, Channel, n, Downsample16To7(v)))

StrikeNoteAtPitch(n, v, pitch) ==
  Send(<<"note", n>>, [Sounding(n, v) EXCEPT !.pitch = pitch],
       Midi2Note(Group, Status.note_on, Channel, n, v, Pitch79, pitch))

ReleaseNote(n, v) ==
  \/ \E attribute \in {0, 1} :
       Send(<<"note", n>>, Silent(n, v),
            Midi2Note(Group, Status.note_off, Channel, n, v, attribute, attribute))
  \/ Send(<<"note", n>>, Silent(n, Coarse16(v)),
          Midi1(Group, Status.note_off, Channel, n, Downsample16To7(v)))

\* Poly pressure and control change: an index and a level
Turn(what, status, index, v) ==
  \/ Send(<<what, index>>, v, Midi2(Group, status, Channel, index, 0, v))
  \/ Send(<<what, index>>, Coarse32(v), Midi1(Group, status, Channel, index, Downsample32To7(v)))

PressNote(n, v)         == Turn("pressure", Status.poly_pressure, n, v)
TurnController(c, v)    == Turn("controller", Status.control_change, c, v)

PressChannel(v) ==
  \/ Send(<<"pressure">>, v, Midi2(Group, Status.channel_pressure, Channel, 0, 0, v))
  \/ Send(<<"pressure">>, Coarse32(v),
          Midi1(Group, Status.channel_pressure, Channel, Downsample32To7(v), 0))

Bend(v) ==
  \/ Send(<<"bend">>, v, Midi2(Group, Status.pitch_bend, Channel, 0, 0, v))
  \/ Send(<<"bend">>, Upsample14To32(Downsample32To14(v)), Midi1PitchBend(Group, Channel, v))

SelectProgram(n) ==
  \/ Send(<<"program">>, n, Midi2Program(Group, Channel, n))
  \/ Send(<<"program">>, n, Midi1(Group, Status.program_change, Channel, n, 0))
  \/ \E bank \in Banks : Send(<<"program">>, n, Midi2ProgramOfBank(Group, Channel, n, bank))

\* Only MIDI 2.0 has these.
SetBendRange(v) ==
  Send(<<"bend range">>, Top14(v),
       Midi2(Group, Status.registered_controller, Channel, 0, 0, v))

\* Controllers of the two kinds, of the channel and of a note
SetController(kind, index, v) ==
  LET status == [registered |-> Status.registered_controller,
                 assignable |-> Status.assignable_controller]
  IN  Send(<<kind, 0, index>>, v, Midi2(Group, status[kind], Channel, 0, index, v))

Nudge(kind, index, inc) ==
  LET what   == <<kind, 0, index>>
      status == [registered |-> Status.relative_registered_controller,
                 assignable |-> Status.relative_assignable_controller]
  IN  Send(what, Raised(Of(played, Topic(Group, Channel, what)), inc),
           Midi2(Group, status[kind], Channel, 0, index, AsBits(inc)))

SetOfNote(kind, n, controller, v) ==
  LET status == [registered |-> Status.registered_per_note_controller,
                 assignable |-> Status.assignable_per_note_controller]
  IN  Send(<<kind, n, controller, "of note">>, v,
           Midi2(Group, status[kind], Channel, n, controller, v))

BendNote(n, v) ==
  Send(<<"bend", n>>, v, Midi2(Group, Status.per_note_pitch_bend, Channel, n, 0, v))

Next ==
  \/ \E n \in Notes, v \in Velocities :
       \/ StrikeNote(n, v)
       \/ \E pitch \in Pitches : StrikeNoteAtPitch(n, v, pitch)
       \/ ReleaseNote(n, v)
  \/ \E n \in Programs : SelectProgram(n)
  \/ \E v \in Levels :
       \/ \E n \in Notes : PressNote(n, v) \/ BendNote(n, v)
       \/ \E kind \in Kinds, n \in Notes, c \in Controllers : SetOfNote(kind, n, c, v)
       \/ \E c \in Controllers : TurnController(c, v)
       \/ \E kind \in Kinds, c \in Controllers \ {0} : SetController(kind, c, v)
       \/ PressChannel(v)
       \/ Bend(v)
       \/ SetBendRange(v)
  \/ \E kind \in Kinds, c \in Controllers \ {0}, inc \in Increments : Nudge(kind, c, inc)

Spec == Init /\ [][Next]_vars

-----------------------------------------------------------------------------
(* Properties *)

Readings(t) ==
  CASE t.what[1] = "note"    -> [on : BOOLEAN, velocity : Values16, pitch : Values16]
    [] t.what[1] = "program" -> Values7
    [] OTHER                 -> Values32

\* What is heard has the width of its type, and is about what was played.
TypeOK ==
  /\ \A t \in DOMAIN played : played[t] \in Readings(t)
  /\ \A i \in Instruments :
       /\ \A t \in DOMAIN heard[i] : heard[i][t] \in Readings(t)
       /\ DOMAIN heard[i] \union missed[i] = DOMAIN played

Heard(i, j) == (DOMAIN heard[i] \intersect DOMAIN heard[j]) \ (missed[i] \union missed[j])

\* The MIDI 2.0 instrument hears what was played, to the last bit a message of
\* the player's protocol holds, and hears nothing else of other topics.
HeardAsPlayed ==
  \A t \in DOMAIN heard.midi2 \ missed.midi2 : heard.midi2[t] = played[t]

\* Equal at the resolution of MIDI 1.0
SameInMidi1(t, a, b) ==
  CASE t.what[1] = "note" ->
         /\ a.on = b.on
         /\ LET low == IF a.on THEN 1 ELSE 0
                Seven(v) == IF Downsample16To7(v) < low THEN low ELSE Downsample16To7(v)
            IN  Seven(a.velocity) = Seven(b.velocity)
    [] t.what[1] = "program" -> a = b
    [] t.what[1] = "bend"    -> Downsample32To14(a) = Downsample32To14(b)
    [] OTHER                 -> Downsample32To7(a) = Downsample32To7(b)

\* The instruments of both protocols agree on what MIDI 1.0 can express: the
\* same notes sound on both, however softly they were struck, as loud as 7 bits
\* tell, unless the last word on the note could not be translated.
TranslationAgrees ==
  \A t \in Heard("midi1", "midi2") : SameInMidi1(t, heard.midi1[t], heard.midi2[t])

\* Translating upwards loses nothing: after MIDI 1.0 -> 2.0 an instrument hears
\* exactly what the MIDI 1.0 instrument heard.
LosesNothingUpwards ==
  \A t \in Heard("midi1", "again") : heard.midi1[t] = heard.again[t]

\* A relative controller moves where it was sent, or stays at the end of its
\* range: it never wraps around.
NeverWraps ==
  [][\A kind \in Kinds, c \in Controllers \ {0}, inc \in Increments :
       Nudge(kind, c, inc) =>
         LET t      == Topic(Group, Channel, <<kind, 0, c>>)
             before == Of(heard.midi2, t)
         IN  IF inc[1] >= 0 THEN AtMost(before, heard'.midi2[t])
                            ELSE AtMost(heard'.midi2[t], before)]_vars

=============================================================================
