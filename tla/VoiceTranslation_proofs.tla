----------------------- MODULE VoiceTranslation_proofs -----------------------
(***************************************************************************)
(* Proofs about VoiceTranslation, for values of the full widths: a message *)
(* is heard as it was played, and what the two protocols tell agrees.      *)
(*                                                                         *)
(* The scales come first, then what a message means when it is read, what  *)
(* its translations are, and for every factory that what it makes is heard *)
(* as it should be (Carries).  The invariant follows: sending a message    *)
(* that is heard as it should be keeps it.                                 *)
(***************************************************************************)
EXTENDS VoiceTranslation, TLAPS

\* The ranges of values of 7, 14, 16 and 32 bits
LEMMA Range7 == \A x : x \in Values7 <=> x \in Int /\ 0 <= x /\ x <= 127
BY SMT DEF Values7

\* Of 14 bits
LEMMA Range14 == \A x : x \in Values14 <=> x \in Int /\ 0 <= x /\ x <= 16383
<1>1. Most14 \in Int
  BY SMT DEF Most14
<1>2. \A x : x \in Values14 <=> x \in Int /\ 0 <= x /\ x <= Most14
  BY <1>1, SMT DEF Values14
<1>3. Most14 = 16383
  BY SMT DEF Most14
<1> QED BY <1>2, <1>3, SMT

\* Of 16 bits
LEMMA Range16 == \A x : x \in Values16 <=> x \in Int /\ 0 <= x /\ x <= 65535
<1>1. Most16 \in Int
  BY SMT DEF Most16
<1>2. \A x : x \in Values16 <=> x \in Int /\ 0 <= x /\ x <= Most16
  BY <1>1, SMT DEF Values16
<1>3. Most16 = 65535
  BY SMT DEF Most16
<1> QED BY <1>2, <1>3, SMT

\* The low 25 of 32 bits
LEMMA RangeFraction == \A x : x \in 0..Fraction-1 <=> x \in Int /\ 0 <= x /\ x <= 33554431
<1>1. Fraction \in Int /\ Fraction - 1 = 33554431
  BY SMT DEF Fraction
<1> QED BY <1>1, SMT

\* The top 7 bits of a signed number of 32 bits
LEMMA RangeSigned == \A x : x \in -64..63 <=> x \in Int /\ -64 <= x /\ x <= 63
BY SMT

\* The two parts of a number of 32 bits
LEMMA Pairs32 ==
  /\ \A v \in Values32 : /\ v[1] \in Int /\ 0 <= v[1] /\ v[1] <= 127
                         /\ v[2] \in Int /\ 0 <= v[2] /\ v[2] <= 33554431
                         /\ v = <<v[1], v[2]>>
  /\ \A a, b \in Int : 0 <= a /\ a <= 127 /\ 0 <= b /\ b <= 33554431 => <<a, b>> \in Values32
<1> DEFINE F == 0..Fraction-1
<1>1. Values32 = Values7 \X F
  BY SMT DEF Values32
<1> HIDE DEF F
<1>2. \A x : x \in F <=> x \in Int /\ 0 <= x /\ x <= 33554431
  BY RangeFraction, SMT DEF F
<1> QED BY <1>1, <1>2, Range7, SMT

\* The two parts of a signed number of 32 bits
LEMMA PairsSigned ==
  \A v \in Signed32 : /\ v[1] \in Int /\ -64 <= v[1] /\ v[1] <= 63
                      /\ v[2] \in Int /\ 0 <= v[2] /\ v[2] <= 33554431
                      /\ v = <<v[1], v[2]>>
<1> DEFINE F == 0..Fraction-1
           S == -64..63
<1>1. Signed32 = S \X F
  BY SMT DEF Signed32
<1> HIDE DEF F, S
<1>2. \A x : x \in F <=> x \in Int /\ 0 <= x /\ x <= 33554431
  BY RangeFraction, SMT DEF F
<1>3. \A x : x \in S <=> x \in Int /\ -64 <= x /\ x <= 63
  BY RangeSigned, SMT DEF S
<1> QED BY <1>1, <1>2, <1>3, SMT

\* Scaling 7 bits to 16 and back changes nothing.
LEMMA Scaling16 ==
  /\ \A v \in Values16 : Downsample16To7(v) \in Values7
  /\ \A v \in Values7 : Upsample7To16(v) \in Values16
  /\ \A v \in Values7 : Downsample16To7(Upsample7To16(v)) = v
<1>1. ASSUME NEW v \in Values16 PROVE Downsample16To7(v) \in Values7
  BY Range7, Range16, SMT DEF Downsample16To7
<1>2. ASSUME NEW v \in Values7
      PROVE  Upsample7To16(v) \in Values16 /\ Downsample16To7(Upsample7To16(v)) = v
  BY Range7, Range16, SMT DEF Upsample7To16, Downsample16To7
<1> QED BY <1>1, <1>2, SMT

\* Scaling 7 bits to 32 and back changes nothing.
LEMMA Scaling32 ==
  /\ \A v \in Values32 : Downsample32To7(v) \in Values7
  /\ \A v \in Values7 : Upsample7To32(v) \in Values32
  /\ \A v \in Values7 : Downsample32To7(Upsample7To32(v)) = v
<1>1. ASSUME NEW v \in Values32 PROVE Downsample32To7(v) \in Values7
  BY Range7, Pairs32, SMT DEF Downsample32To7
<1>2. ASSUME NEW v \in Values7
      PROVE  Upsample7To32(v) \in Values32 /\ Downsample32To7(Upsample7To32(v)) = v
  <2>1. v \in Int /\ 0 <= v /\ v <= 127
    BY Range7, SMT
  <2> DEFINE low == Upsample7To32(v)[2]
  <2>2. low \in Int /\ 0 <= low /\ low <= 33554431
    BY <2>1, SMT DEF Upsample7To32
  <2>3. Upsample7To32(v) = <<v, low>>
    BY SMT DEF Upsample7To32
  <2> HIDE DEF low
  <2> QED BY <2>1, <2>2, <2>3, Pairs32, SMT DEF Downsample32To7
<1> QED BY <1>1, <1>2, SMT

\* Scaling 14 bits to 32 and back changes nothing.
LEMMA Scaling14 ==
  /\ \A v \in Values32 : Downsample32To14(v) \in Values14
  /\ \A v \in Values14 : Upsample14To32(v) \in Values32
  /\ \A v \in Values14 : Downsample32To14(Upsample14To32(v)) = v
<1>1. ASSUME NEW v \in Values32 PROVE Downsample32To14(v) \in Values14
  BY Range14, Pairs32, SMT DEF Downsample32To14
<1>2. ASSUME NEW v \in Values14
      PROVE  Upsample14To32(v) \in Values32 /\ Downsample32To14(Upsample14To32(v)) = v
  <2>1. v \in Int /\ 0 <= v /\ v <= 16383
    BY Range14, SMT
  <2> DEFINE high == v \div 128
             low  == v % 128
             rest == IF v > 8192 THEN 32 * (v % 8192) + ((v % 8192) \div 256) ELSE 0
             y    == 262144 * low + rest
  <2>2. high \in Int /\ 0 <= high /\ high <= 127
    BY <2>1, SMT
  <2>3. low \in Int /\ 0 <= low /\ low <= 127 /\ v = 128 * high + low
    BY <2>1, SMT
  <2>4. rest \in Int /\ 0 <= rest /\ rest <= 262143
    BY <2>1, SMT
  <2>5. Upsample14To32(v) = <<high, y>>
    BY SMT DEF Upsample14To32
  <2> HIDE DEF high, low, rest
  <2>6. y \in Int /\ 0 <= y /\ y <= 33554431
    BY <2>3, <2>4, SMT
  <2>7. y \div 262144 = low
    BY <2>3, <2>4, SMT
  <2> HIDE DEF y
  <2> QED BY <2>2, <2>3, <2>5, <2>6, <2>7, Pairs32, SMT DEF Downsample32To14
<1> QED BY <1>1, <1>2, SMT

\* What is put into the halves of the second word of a note is read from them.
LEMMA Halves ==
  ASSUME NEW h \in Values16, NEW l \in Values16
  PROVE  /\ TwoHalves(h, l) \in Values32
         /\ HighHalf(TwoHalves(h, l)) = h
         /\ LowHalf(TwoHalves(h, l)) = l
<1> DEFINE high == h \div 512
           low  == h % 512
           y    == 65536 * low + l
<1>1. /\ h \in Int /\ 0 <= h /\ h <= 65535
      /\ l \in Int /\ 0 <= l /\ l <= 65535
  BY Range16, SMT
<1>2. high \in Int /\ 0 <= high /\ high <= 127
  BY <1>1, SMT
<1>3. low \in Int /\ 0 <= low /\ low <= 511 /\ h = 512 * high + low
  BY <1>1, SMT
<1>4. TwoHalves(h, l) = <<high, y>>
  BY SMT DEF TwoHalves
<1> HIDE DEF high, low
<1>5. y \in Int /\ 0 <= y /\ y <= 33554431
  BY <1>1, <1>3, SMT
<1>6. y \div 65536 = low /\ y % 65536 = l
  BY <1>1, <1>3, SMT
<1> HIDE DEF y
<1> QED BY <1>2, <1>3, <1>4, <1>5, <1>6, Pairs32, SMT DEF HighHalf, LowHalf

\* The increment of a relative controller survives its way through unsigned 32 bits.
LEMMA Increment ==
  ASSUME NEW inc \in Signed32
  PROVE  AsIncrement(AsBits(inc)) = inc /\ AsBits(inc) \in Values32
<1> DEFINE r == inc[1] % 128
<1>1. /\ inc[1] \in Int /\ -64 <= inc[1] /\ inc[1] <= 63
      /\ inc[2] \in Int /\ 0 <= inc[2] /\ inc[2] <= 33554431
      /\ inc = <<inc[1], inc[2]>>
  BY PairsSigned, SMT
<1>2. r \in Int /\ 0 <= r /\ r <= 127 /\ inc[1] = IF r >= 64 THEN r - 128 ELSE r
  BY <1>1, SMT
<1>3. AsBits(inc) = <<r, inc[2]>>
  BY SMT DEF AsBits
<1> HIDE DEF r
<1> QED BY <1>1, <1>2, <1>3, Pairs32, SMT DEF AsIncrement

\* A value stays in its range when it is raised, and never moves the other way.
LEMMA Raises ==
  ASSUME NEW v \in Values32, NEW inc \in Signed32
  PROVE  /\ Raised(v, inc) \in Values32
         /\ inc[1] >= 0 => AtMost(v, Raised(v, inc))
         /\ inc[1] < 0 => AtMost(Raised(v, inc), v)
<1> DEFINE a == v[1]
           b == v[2]
           c == inc[1]
           d == inc[2]
           carry == (b + d) \div 33554432
           rest == (b + d) % 33554432
           s == a + c + carry
<1>1. a \in Int /\ 0 <= a /\ a <= 127 /\ b \in Int /\ 0 <= b /\ b <= 33554431 /\ v = <<a, b>>
  BY Pairs32, SMT
<1>2. c \in Int /\ -64 <= c /\ c <= 63 /\ d \in Int /\ 0 <= d /\ d <= 33554431
  BY PairsSigned, SMT
<1>4. Sum(v, inc) = <<s, rest>>
  BY SMT DEF Sum, Fraction
<1>5. inc[1] = c
  BY SMT
<1> HIDE DEF a, b, c, d
<1>3. /\ carry \in Int /\ rest \in Int /\ 0 <= rest /\ rest <= 33554431
      /\ b + d = 33554432 * carry + rest
  BY <1>1, <1>2, SMT
<1> HIDE DEF carry, rest
<1>6. 0 <= carry /\ carry <= 1 /\ s \in Int /\ s = a + c + carry
  BY <1>1, <1>2, <1>3, SMT
<1> HIDE DEF s
<1>7. s < 0 => Raised(v, inc) = <<0, 0>>
  BY <1>3, <1>4, <1>6, SMT DEF Raised, Clamped, Below, Least
<1>8. s > 127 => Raised(v, inc) = <<127, 33554431>>
  BY <1>3, <1>4, <1>6, SMT DEF Raised, Clamped, Below, Least, Greatest, Fraction
<1>9. 0 <= s /\ s <= 127 => Raised(v, inc) = <<s, rest>>
  BY <1>3, <1>4, <1>6, SMT DEF Raised, Clamped, Below, Least, Greatest, Fraction
<1>10. Raised(v, inc) \in Values32
  BY <1>3, <1>6, <1>7, <1>8, <1>9, Pairs32, SMT
<1>11. c >= 0 => AtMost(<<a, b>>, Raised(v, inc))
  BY <1>1, <1>2, <1>3, <1>6, <1>7, <1>8, <1>9, SMT DEF AtMost, Below
<1>12. c < 0 => AtMost(Raised(v, inc), <<a, b>>)
  BY <1>1, <1>2, <1>3, <1>6, <1>7, <1>8, <1>9, SMT DEF AtMost, Below
<1> QED BY <1>1, <1>5, <1>10, <1>11, <1>12, SMT

-----------------------------------------------------------------------------
(* What the messages mean. *)

\* The message is about `what` of the channel, and tells the value.
Means(p, what, value) ==
  /\ p.type \in {"midi1", "midi2"}
  /\ p.group = Group /\ p.channel = Channel
  /\ What(p) = what
  /\ \A before : Value(p, before) = value

\* Group, channel and numbers of 7 bits fit their fields.
LEMMA Fields ==
  /\ Group % 16 = Group
  /\ Channel % 16 = Channel
  /\ \A n \in Values7 : n % 128 = n
<1>1. Group % 16 = Group
  BY VoiceAssumption, SMT DEF VoiceAssumption
<1>2. Channel % 16 = Channel
  BY VoiceAssumption, SMT DEF VoiceAssumption
<1>3. \A n \in Values7 : n % 128 = n
  BY Range7, SMT
<1> QED BY <1>1, <1>2, <1>3, Zenon

\* The fields of a message
Of1(p, status, d1, d2) ==
  /\ p.type = "midi1" /\ p.group = Group /\ p.channel = Channel /\ p.status = status
  /\ p.byte3 = d1 /\ p.byte4 = d2
  /\ p.byte3 % 128 = d1 /\ p.byte4 % 128 = d2

Of2(p, status, byte3, byte4, data) ==
  /\ p.type = "midi2" /\ p.group = Group /\ p.channel = Channel /\ p.status = status
  /\ p.byte3 = byte3 /\ p.byte4 = byte4 /\ p.data = data
  /\ p.byte3 % 128 = byte3 /\ p.byte4 % 128 = byte4

\* The messages the factories make hold the fields they are given.
LEMMA Made ==
  /\ \A status : \A d1, d2 \in Values7 : Of1(Midi1(Group, status, Channel, d1, d2), status, d1, d2)
  /\ \A status, data : \A byte3, byte4 \in Values7 :
       Of2(Midi2(Group, status, Channel, byte3, byte4, data), status, byte3, byte4, data)
BY Fields, SMT DEF Of1, Of2, Midi1, Midi2

\* No two kinds of messages share a status.
LEMMA Distinct ==
  /\ \A x, y \in DOMAIN Status : Status[x] = Status[y] => x = y
  /\ DOMAIN Status =
        {"registered_per_note_controller", "assignable_per_note_controller",
         "registered_controller", "assignable_controller", "relative_registered_controller",
         "relative_assignable_controller", "per_note_pitch_bend", "note_off", "note_on",
         "poly_pressure", "control_change", "program_change", "channel_pressure", "pitch_bend",
         "per_note_management"}
BY SMT DEF Status

\* A message that starts or ends a note is of none of the other kinds.
LEMMA Notable ==
  ASSUME NEW p, IsNoteOn(p) \/ IsNoteOff(p)
  PROVE  /\ What(p) = <<"note", NoteNr(p)>>
         /\ IsNoteOn(p) => \A b : Value(p, b) =
              [on |-> TRUE, velocity |-> NoteVelocity(p), pitch |-> NotePitch(p)]
         /\ ~IsNoteOn(p) => \A b : Value(p, b) =
              [on |-> FALSE, velocity |-> NoteVelocity(p), pitch |-> 512 * NoteNr(p)]
<1>1. p.status \in {Status.note_on, Status.note_off}
  BY SMT DEF IsNoteOn, IsNoteOff
<1>2. \A s \in DOMAIN Status \ {"note_on", "note_off"} : p.status # Status[s]
  BY <1>1, Distinct, Zenon
<1>3. What(p) = <<"note", NoteNr(p)>>
  BY <1>2, Distinct, Zenon DEF What, IsPitchBendSensitivity
<1>4. ~(IsNoteOn(p) /\ IsNoteOff(p))
  BY SMT DEF IsNoteOn, IsNoteOff, Status
<1>5. /\ ~(p.status = Status.program_change) /\ ~(p.status = Status.channel_pressure)
      /\ ~(p.status \in {Status.pitch_bend, Status.per_note_pitch_bend})
      /\ ~IsPitchBendSensitivity(p) /\ ~IsRelative(p)
  BY <1>2, Distinct, Zenon DEF IsPitchBendSensitivity, IsRelative
<1>6. ASSUME IsNoteOn(p), NEW b
      PROVE  Value(p, b) = [on |-> TRUE, velocity |-> NoteVelocity(p), pitch |-> NotePitch(p)]
  BY <1>4, <1>5, <1>6, Zenon DEF Value
<1>7. ASSUME ~IsNoteOn(p), NEW b
      PROVE  Value(p, b) = [on |-> FALSE, velocity |-> NoteVelocity(p), pitch |-> 512 * NoteNr(p)]
  BY <1>5, <1>7, ZenonT(40) DEF Value
<1> QED BY <1>3, <1>6, <1>7, Zenon

\* Notes of MIDI 1.0
LEMMA Midi1Notes ==
  ASSUME NEW p, NEW n \in Values7, NEW d \in Values7
  PROVE  /\ Of1(p, Status.note_on, n, d) =>
              Means(p, <<"note", n>>,
                    IF d = 0 THEN Silent(n, Upsample7To16(64)) ELSE Sounding(n, Upsample7To16(d)))
         /\ Of1(p, Status.note_off, n, d) => Means(p, <<"note", n>>, Silent(n, Upsample7To16(d)))
<1>1. ASSUME Of1(p, Status.note_on, n, d), d = 0
      PROVE  Means(p, <<"note", n>>, Silent(n, Upsample7To16(64)))
  <2>1. IsNoteOff(p) /\ ~IsNoteOn(p) /\ NoteNr(p) = n /\ NoteVelocity(p) = Upsample7To16(64)
    BY <1>1, SMT DEF Of1, IsNoteOn, IsNoteOff, NoteNr, NoteVelocity, Status
  <2> QED BY <1>1, <2>1, Notable, SMT DEF Of1, Means, Silent
<1>2. ASSUME Of1(p, Status.note_on, n, d), d # 0
      PROVE  Means(p, <<"note", n>>, Sounding(n, Upsample7To16(d)))
  <2>1. /\ IsNoteOn(p) /\ NoteNr(p) = n /\ NoteVelocity(p) = Upsample7To16(d)
        /\ NotePitch(p) = 512 * n
    BY <1>2, SMT DEF Of1, IsNoteOn, IsNoteOff, NoteNr, NoteVelocity, NotePitch, Status
  <2> QED BY <1>2, <2>1, Notable, SMT DEF Of1, Means, Sounding
<1>3. ASSUME Of1(p, Status.note_off, n, d)
      PROVE  Means(p, <<"note", n>>, Silent(n, Upsample7To16(d)))
  <2>1. /\ IsNoteOff(p) /\ ~IsNoteOn(p) /\ NoteNr(p) = n
        /\ NoteVelocity(p) = Upsample7To16(d)
    BY <1>3, SMT DEF Of1, IsNoteOn, IsNoteOff, NoteNr, NoteVelocity, Status
  <2> QED BY <1>3, <2>1, Notable, SMT DEF Of1, Means, Silent
<1> QED BY <1>1, <1>2, <1>3, Zenon

\* Notes of MIDI 2.0
LEMMA Midi2Notes ==
  ASSUME NEW p, NEW n \in Values7, NEW v \in Values16, NEW attribute \in {0, 1, Pitch79},
         NEW value \in Values16
  PROVE  /\ Of2(p, Status.note_on, n, attribute, TwoHalves(v, value)) =>
              Means(p, <<"note", n>>,
                    [on |-> TRUE, velocity |-> v,
                     pitch |-> IF attribute = Pitch79 THEN value ELSE 512 * n])
         /\ Of2(p, Status.note_off, n, attribute, TwoHalves(v, value)) =>
              Means(p, <<"note", n>>, Silent(n, v))
<1>1. ASSUME Of2(p, Status.note_on, n, attribute, TwoHalves(v, value))
      PROVE  Means(p, <<"note", n>>,
                   [on |-> TRUE, velocity |-> v,
                     pitch |-> IF attribute = Pitch79 THEN value ELSE 512 * n])
  <2>1. /\ IsNoteOn(p) /\ NoteNr(p) = n /\ NoteVelocity(p) = v
        /\ NotePitch(p) = IF attribute = Pitch79 THEN value ELSE 512 * n
    BY <1>1, Halves, SMT DEF Of2, IsNoteOn, IsNoteOff, NoteNr, NoteVelocity, NotePitch, Status
  <2> QED BY <1>1, <2>1, Notable, SMT DEF Of2, Means
<1>2. ASSUME Of2(p, Status.note_off, n, attribute, TwoHalves(v, value))
      PROVE  Means(p, <<"note", n>>, Silent(n, v))
  <2>1. IsNoteOff(p) /\ ~IsNoteOn(p) /\ NoteNr(p) = n /\ NoteVelocity(p) = v
    BY <1>2, Halves, SMT DEF Of2, IsNoteOn, IsNoteOff, NoteNr, NoteVelocity, Status
  <2> QED BY <1>2, <2>1, Notable, SMT DEF Of2, Means, Silent
<1> QED BY <1>1, <1>2, Zenon

\* The other messages of MIDI 1.0.  A pitch bend holds 14 bits.
LEMMA Midi1Others ==
  ASSUME NEW p, NEW n \in Values7, NEW d \in Values7
  PROVE  /\ Of1(p, Status.poly_pressure, n, d) => Means(p, <<"pressure", n>>, Upsample7To32(d))
         /\ Of1(p, Status.control_change, n, d) => Means(p, <<"controller", n>>, Upsample7To32(d))
         /\ Of1(p, Status.program_change, n, d) => Means(p, <<"program">>, n)
         /\ Of1(p, Status.channel_pressure, n, d) => Means(p, <<"pressure">>, Upsample7To32(n))
         /\ Of1(p, Status.pitch_bend, n, d) => Means(p, <<"bend">>, Upsample14To32(n + 128 * d))
<1> USE DEF Of1, Means, What, Value, Status, IsNoteOn, IsNoteOff, IsPitchBendSensitivity, IsRelative,
            NoteNr, ControllerValue, ChannelPressure, PitchBend, Program
<1>1. Of1(p, Status.poly_pressure, n, d) => Means(p, <<"pressure", n>>, Upsample7To32(d))
  BY SMT
<1>2. Of1(p, Status.control_change, n, d) => Means(p, <<"controller", n>>, Upsample7To32(d))
  BY SMT
<1>3. Of1(p, Status.program_change, n, d) => Means(p, <<"program">>, n)
  BY SMT
<1>4. Of1(p, Status.channel_pressure, n, d) => Means(p, <<"pressure">>, Upsample7To32(n))
  BY SMT
<1>5. Of1(p, Status.pitch_bend, n, d) => Means(p, <<"bend">>, Upsample14To32(n + 128 * d))
  BY SMT
<1> HIDE DEF Of1, Means
<1> QED BY <1>1, <1>2, <1>3, <1>4, <1>5, Zenon

\* The messages of MIDI 2.0 that MIDI 1.0 has as well
LEMMA Midi2Others ==
  ASSUME NEW p, NEW n \in Values7, NEW v \in Values32
  PROVE  /\ Of2(p, Status.poly_pressure, n, 0, v) => Means(p, <<"pressure", n>>, v)
         /\ Of2(p, Status.control_change, n, 0, v) => Means(p, <<"controller", n>>, v)
         /\ Of2(p, Status.channel_pressure, 0, 0, v) => Means(p, <<"pressure">>, v)
         /\ Of2(p, Status.pitch_bend, 0, 0, v) => Means(p, <<"bend">>, v)
<1> USE DEF Of2, Means, What, Value, Status, IsNoteOn, IsNoteOff, IsPitchBendSensitivity, IsRelative,
            NoteNr, ControllerValue, ChannelPressure, PitchBend
<1>1. Of2(p, Status.poly_pressure, n, 0, v) => Means(p, <<"pressure", n>>, v)
  BY SMT
<1>2. Of2(p, Status.control_change, n, 0, v) => Means(p, <<"controller", n>>, v)
  BY SMT
<1>3. Of2(p, Status.channel_pressure, 0, 0, v) => Means(p, <<"pressure">>, v)
  BY SMT
<1>4. Of2(p, Status.pitch_bend, 0, 0, v) => Means(p, <<"bend">>, v)
  BY SMT
<1> HIDE DEF Of2, Means
<1> QED BY <1>1, <1>2, <1>3, <1>4, Zenon

\* A program change of MIDI 2.0 holds the program in the top byte.
LEMMA Midi2Programs ==
  ASSUME NEW p, NEW n \in Values7, NEW rest \in Int, 0 <= rest, rest < 16777216,
         NEW option \in {0, 1},
         Of2(p, Status.program_change, 0, option, <<n \div 2, 16777216 * (n % 2) + rest>>)
  PROVE  Program(p) = n /\ Means(p, <<"program">>, n)
<1>1. Program(p) = n
  <2>1. n \in Int /\ 0 <= n /\ n <= 127
    BY Range7
  <2>2. (16777216 * (n % 2) + rest) \div 16777216 = n % 2
    BY <2>1, SMT
  <2>3. (2 * (n \div 2) + (n % 2)) % 128 = n
    BY <2>1, SMT
  <2> QED BY <2>2, <2>3, SMT DEF Of2, Program
<1>2. p.status = Status.program_change /\ p.type = "midi2" /\ p.group = Group /\ p.channel = Channel
  BY SMT DEF Of2
<1>3. What(p) = <<"program">>
  BY <1>2, SMT DEF What, Status, IsNoteOn, IsNoteOff, IsPitchBendSensitivity
<1>4. \A b : Value(p, b) = Program(p)
  BY <1>2, SMT DEF Value, Status, IsNoteOn, IsNoteOff, IsPitchBendSensitivity, IsRelative
<1> QED BY <1>1, <1>2, <1>3, <1>4, SMT DEF Means

\* What only MIDI 2.0 has
LEMMA Midi2Only ==
  ASSUME NEW p, NEW n \in Values7, NEW c \in Values7, NEW v \in Values32
  PROVE  /\ Of2(p, Status.registered_controller, 0, 0, v) =>
              Means(p, <<"bend range">>, Top14(v))
         /\ Of2(p, Status.registered_controller, 0, c, v) /\ c # 0 =>
              Means(p, <<"registered", 0, c>>, v)
         /\ Of2(p, Status.assignable_controller, 0, c, v) => Means(p, <<"assignable", 0, c>>, v)
         /\ Of2(p, Status.registered_per_note_controller, n, c, v) =>
              Means(p, <<"registered", n, c, "of note">>, v)
         /\ Of2(p, Status.assignable_per_note_controller, n, c, v) =>
              Means(p, <<"assignable", n, c, "of note">>, v)
         /\ Of2(p, Status.per_note_pitch_bend, n, 0, v) => Means(p, <<"bend", n>>, v)
<1>1. ASSUME Of2(p, Status.registered_controller, 0, 0, v)
      PROVE  Means(p, <<"bend range">>, Top14(v))
  <2>1. IsPitchBendSensitivity(p) /\ PitchBendSensitivity(p) = Top14(v)
    BY <1>1, SMT DEF Of2, IsPitchBendSensitivity, PitchBendSensitivity
  <2>2. What(p) = <<"bend range">>
    <3>1. ~IsNoteOn(p) /\ ~IsNoteOff(p)
      BY <1>1, SMT DEF Of2, Status, IsNoteOn, IsNoteOff
    <3>2. p.status = Status.registered_controller
      BY <1>1, SMT DEF Of2
    <3> QED BY <2>1, <3>1, <3>2, Distinct, Zenon DEF What
  <2>3. \A b : Value(p, b) = PitchBendSensitivity(p)
    BY <1>1, <2>1, SMT DEF Of2, Value, Status, IsNoteOn, IsNoteOff, IsRelative
  <2>4. p.type = "midi2" /\ p.group = Group /\ p.channel = Channel
    BY <1>1, SMT DEF Of2
  <2> QED BY <2>1, <2>2, <2>3, <2>4, Zenon DEF Means
<1>2. ASSUME Of2(p, Status.registered_controller, 0, c, v), c # 0
      PROVE  Means(p, <<"registered", 0, c>>, v)
  <2>1. NoteNr(p) = 0 /\ ~IsPitchBendSensitivity(p) /\ ControllerValue(p) = v
    BY <1>2, SMT DEF Of2, NoteNr, IsPitchBendSensitivity, Status, ControllerValue
  <2>2. What(p) = <<"registered", 0, c>>
    BY <1>2, <2>1, SMT DEF Of2, What, Status, IsNoteOn, IsNoteOff
  <2>3. \A b : Value(p, b) = ControllerValue(p)
    BY <1>2, <2>1, SMT DEF Of2, Value, Status, IsNoteOn, IsNoteOff, IsRelative
  <2>4. p.type = "midi2" /\ p.group = Group /\ p.channel = Channel
    BY <1>2, SMT DEF Of2
  <2> QED BY <2>1, <2>2, <2>3, <2>4, Zenon DEF Means
<1>3. ASSUME Of2(p, Status.assignable_controller, 0, c, v)
      PROVE  Means(p, <<"assignable", 0, c>>, v)
  <2>1. NoteNr(p) = 0 /\ ~IsPitchBendSensitivity(p) /\ ControllerValue(p) = v
    BY <1>3, SMT DEF Of2, NoteNr, IsPitchBendSensitivity, Status, ControllerValue
  <2>2. What(p) = <<"assignable", 0, c>>
    BY <1>3, <2>1, SMT DEF Of2, What, Status, IsNoteOn, IsNoteOff
  <2>3. \A b : Value(p, b) = ControllerValue(p)
    BY <1>3, <2>1, SMT DEF Of2, Value, Status, IsNoteOn, IsNoteOff, IsRelative
  <2>4. p.type = "midi2" /\ p.group = Group /\ p.channel = Channel
    BY <1>3, SMT DEF Of2
  <2> QED BY <2>1, <2>2, <2>3, <2>4, Zenon DEF Means
<1>4. ASSUME Of2(p, Status.registered_per_note_controller, n, c, v)
      PROVE  Means(p, <<"registered", n, c, "of note">>, v)
  <2>1. NoteNr(p) = n /\ ~IsPitchBendSensitivity(p) /\ ControllerValue(p) = v
    BY <1>4, SMT DEF Of2, NoteNr, IsPitchBendSensitivity, Status, ControllerValue
  <2>2. What(p) = <<"registered", n, c, "of note">>
    <3>1. ~IsNoteOn(p) /\ ~IsNoteOff(p)
      BY <1>4, SMT DEF Of2, Status, IsNoteOn, IsNoteOff
    <3>2. p.status = Status.registered_per_note_controller /\ p.byte4 = c
      BY <1>4, SMT DEF Of2
    <3>3. What(p) = <<"registered", NoteNr(p), p.byte4, "of note">>
      BY <2>1, <3>1, <3>2, Distinct, Zenon DEF What
    <3> QED BY <2>1, <3>2, <3>3, Zenon
  <2>3. \A b : Value(p, b) = ControllerValue(p)
    BY <1>4, <2>1, SMT DEF Of2, Value, Status, IsNoteOn, IsNoteOff, IsRelative
  <2>4. p.type = "midi2" /\ p.group = Group /\ p.channel = Channel
    BY <1>4, SMT DEF Of2
  <2> QED BY <2>1, <2>2, <2>3, <2>4, Zenon DEF Means
<1>5. ASSUME Of2(p, Status.assignable_per_note_controller, n, c, v)
      PROVE  Means(p, <<"assignable", n, c, "of note">>, v)
  <2>1. NoteNr(p) = n /\ ~IsPitchBendSensitivity(p) /\ ControllerValue(p) = v
    BY <1>5, SMT DEF Of2, NoteNr, IsPitchBendSensitivity, Status, ControllerValue
  <2>2. What(p) = <<"assignable", n, c, "of note">>
    <3>1. ~IsNoteOn(p) /\ ~IsNoteOff(p)
      BY <1>5, SMT DEF Of2, Status, IsNoteOn, IsNoteOff
    <3>2. p.status = Status.assignable_per_note_controller /\ p.byte4 = c
      BY <1>5, SMT DEF Of2
    <3>3. What(p) = <<"assignable", NoteNr(p), p.byte4, "of note">>
      BY <2>1, <3>1, <3>2, Distinct, Zenon DEF What
    <3> QED BY <2>1, <3>2, <3>3, Zenon
  <2>3. \A b : Value(p, b) = ControllerValue(p)
    BY <1>5, <2>1, SMT DEF Of2, Value, Status, IsNoteOn, IsNoteOff, IsRelative
  <2>4. p.type = "midi2" /\ p.group = Group /\ p.channel = Channel
    BY <1>5, SMT DEF Of2
  <2> QED BY <2>1, <2>2, <2>3, <2>4, Zenon DEF Means
<1>6. Of2(p, Status.per_note_pitch_bend, n, 0, v) => Means(p, <<"bend", n>>, v)
  BY SMT DEF Of2, Means, What, Value, Status, IsNoteOn, IsNoteOff, IsPitchBendSensitivity,
             IsRelative, NoteNr, PitchBend
<1> QED BY <1>1, <1>2, <1>3, <1>4, <1>5, <1>6, Zenon

\* A relative controller
LEMMA Midi2Relative ==
  ASSUME NEW p, NEW c \in Values7, NEW bits,
         NEW kind \in Kinds,
         Of2(p, IF kind = "registered" THEN Status.relative_registered_controller
                                       ELSE Status.relative_assignable_controller, 0, c, bits)
  PROVE  /\ What(p) = <<kind, 0, c>>
         /\ \A before : Value(p, before) = Raised(before, AsIncrement(bits))
<1>1. CASE kind = "registered"
  BY <1>1, SMT DEF Of2, What, Value, Status, IsNoteOn, IsNoteOff, IsPitchBendSensitivity, IsRelative
<1>2. CASE kind = "assignable"
  BY <1>2, SMT DEF Of2, What, Value, Status, IsNoteOn, IsNoteOff, IsPitchBendSensitivity, IsRelative
<1> QED BY <1>1, <1>2, SMT DEF Kinds

-----------------------------------------------------------------------------
(* Translations. *)

\* From MIDI 2.0 to MIDI 1.0: the top bits of the values, velocity at least 1.
LEMMA Downwards ==
  ASSUME NEW p, NEW n \in Values7, NEW attribute \in {0, 1, Pitch79}, NEW x, NEW v
  PROVE  /\ Of2(p, Status.note_on, n, 0, v) =>
              AsMidi1(p) = Midi1(Group, Status.note_on, Channel, n,
                                 IF Downsample16To7(HighHalf(v)) = 0
                                   THEN 1 ELSE Downsample16To7(HighHalf(v)))
         /\ Of2(p, Status.note_off, n, 0, v) =>
              AsMidi1(p) = Midi1(Group, Status.note_off, Channel, n, Downsample16To7(HighHalf(v)))
         /\ Of2(p, Status.note_on, n, attribute, v) /\ attribute # 0 => AsMidi1(p) = Untranslated
         /\ Of2(p, Status.note_off, n, attribute, v) /\ attribute # 0 => AsMidi1(p) = Untranslated
         /\ Of2(p, Status.poly_pressure, n, 0, v) =>
              AsMidi1(p) = Midi1(Group, Status.poly_pressure, Channel, n, Downsample32To7(v))
         /\ Of2(p, Status.control_change, n, 0, v) =>
              AsMidi1(p) = IF n \in ReservedControllers THEN Untranslated ELSE
                             Midi1(Group, Status.control_change, Channel, n, Downsample32To7(v))
         /\ Of2(p, Status.program_change, n, 0, v) =>
              AsMidi1(p) = Midi1(Group, Status.program_change, Channel, Program(p), 0)
         /\ Of2(p, Status.program_change, n, 1, v) => AsMidi1(p) = Untranslated
         /\ Of2(p, Status.channel_pressure, n, 0, v) =>
              AsMidi1(p) = Midi1(Group, Status.channel_pressure, Channel, Downsample32To7(v), 0)
         /\ Of2(p, Status.pitch_bend, n, 0, v) => AsMidi1(p) = Midi1PitchBend(Group, Channel, v)
<1> USE DEF Of2, AsMidi1, Status
<1>1. Of2(p, Status.note_on, n, 0, v) =>
        AsMidi1(p) = Midi1(Group, Status.note_on, Channel, n,
                           IF Downsample16To7(HighHalf(v)) = 0
                             THEN 1 ELSE Downsample16To7(HighHalf(v)))
  BY SMT DEF AsMidi1NoteOn, NoteNr
<1>2. Of2(p, Status.note_off, n, 0, v) =>
        AsMidi1(p) = Midi1(Group, Status.note_off, Channel, n, Downsample16To7(HighHalf(v)))
  BY SMT
<1>3. Of2(p, Status.note_on, n, attribute, v) /\ attribute # 0 => AsMidi1(p) = Untranslated
  BY SMT
<1>4. Of2(p, Status.note_off, n, attribute, v) /\ attribute # 0 => AsMidi1(p) = Untranslated
  BY SMT
<1>5. Of2(p, Status.poly_pressure, n, 0, v) =>
        AsMidi1(p) = Midi1(Group, Status.poly_pressure, Channel, n, Downsample32To7(v))
  BY SMT
<1>6. Of2(p, Status.control_change, n, 0, v) =>
        AsMidi1(p) = IF n \in ReservedControllers THEN Untranslated ELSE
                       Midi1(Group, Status.control_change, Channel, n, Downsample32To7(v))
  BY SMT
<1>7. Of2(p, Status.program_change, n, 0, v) =>
        AsMidi1(p) = Midi1(Group, Status.program_change, Channel, Program(p), 0)
  BY SMT
<1>8. Of2(p, Status.program_change, n, 1, v) => AsMidi1(p) = Untranslated
  BY SMT
<1>9. Of2(p, Status.channel_pressure, n, 0, v) =>
        AsMidi1(p) = Midi1(Group, Status.channel_pressure, Channel, Downsample32To7(v), 0)
  BY SMT
<1>10. Of2(p, Status.pitch_bend, n, 0, v) => AsMidi1(p) = Midi1PitchBend(Group, Channel, v)
  BY SMT
<1> HIDE DEF Of2, AsMidi1, Status
<1> QED BY <1>1, <1>2, <1>3, <1>4, <1>5, <1>6, <1>7, <1>8, <1>9, <1>10, Zenon

\* What only MIDI 2.0 has is not translated.
LEMMA OnlyUpstairs ==
  ASSUME NEW p, NEW kind \in DOMAIN Status, p.status = Status[kind],
         kind \notin {"note_on", "note_off", "poly_pressure", "control_change", "program_change",
                      "channel_pressure", "pitch_bend"}
  PROVE  AsMidi1(p) = Untranslated
BY Distinct, Zenon DEF AsMidi1

\* From MIDI 1.0 to MIDI 2.0: the values are scaled up.
LEMMA Upwards ==
  ASSUME NEW p, NEW n \in Values7, NEW d \in Values7
  PROVE  /\ Of1(p, Status.note_on, n, d) =>
              AsMidi2(p) = IF d = 0
                             THEN Midi2Note(Group, Status.note_off, Channel, n, Upsample7To16(64), 0, 0)
                             ELSE Midi2Note(Group, Status.note_on, Channel, n, Upsample7To16(d), 0, 0)
         /\ Of1(p, Status.note_off, n, d) =>
              AsMidi2(p) = Midi2Note(Group, Status.note_off, Channel, n, Upsample7To16(d), 0, 0)
         /\ Of1(p, Status.poly_pressure, n, d) =>
              AsMidi2(p) = Midi2(Group, Status.poly_pressure, Channel, n, 0, Upsample7To32(d))
         /\ Of1(p, Status.control_change, n, d) =>
              AsMidi2(p) = IF n \in ReservedControllers THEN Untranslated ELSE
                             Midi2(Group, Status.control_change, Channel, n, 0, Upsample7To32(d))
         /\ Of1(p, Status.program_change, n, d) => AsMidi2(p) = Midi2Program(Group, Channel, n)
         /\ Of1(p, Status.channel_pressure, n, d) =>
              AsMidi2(p) = Midi2(Group, Status.channel_pressure, Channel, 0, 0, Upsample7To32(n))
         /\ Of1(p, Status.pitch_bend, n, d) =>
              AsMidi2(p) = Midi2(Group, Status.pitch_bend, Channel, 0, 0, Upsample14To32(n + 128 * d))
<1> USE DEF Of1, AsMidi2, Status
<1>1. Of1(p, Status.note_on, n, d) =>
        AsMidi2(p) = IF d = 0
                       THEN Midi2Note(Group, Status.note_off, Channel, n, Upsample7To16(64), 0, 0)
                       ELSE Midi2Note(Group, Status.note_on, Channel, n, Upsample7To16(d), 0, 0)
  BY SMT
<1>2. Of1(p, Status.note_off, n, d) =>
        AsMidi2(p) = Midi2Note(Group, Status.note_off, Channel, n, Upsample7To16(d), 0, 0)
  BY SMT
<1>3. Of1(p, Status.poly_pressure, n, d) =>
        AsMidi2(p) = Midi2(Group, Status.poly_pressure, Channel, n, 0, Upsample7To32(d))
  BY SMT
<1>4. Of1(p, Status.control_change, n, d) =>
        AsMidi2(p) = IF n \in ReservedControllers THEN Untranslated ELSE
                       Midi2(Group, Status.control_change, Channel, n, 0, Upsample7To32(d))
  BY SMT
<1>5. Of1(p, Status.program_change, n, d) => AsMidi2(p) = Midi2Program(Group, Channel, n)
  BY SMT
<1>6. Of1(p, Status.channel_pressure, n, d) =>
        AsMidi2(p) = Midi2(Group, Status.channel_pressure, Channel, 0, 0, Upsample7To32(n))
  BY SMT
<1>7. Of1(p, Status.pitch_bend, n, d) =>
        AsMidi2(p) = Midi2(Group, Status.pitch_bend, Channel, 0, 0, Upsample14To32(n + 128 * d))
  BY SMT DEF FourteenBits
<1> HIDE DEF Of1, AsMidi2, Status
<1> QED BY <1>1, <1>2, <1>3, <1>4, <1>5, <1>6, <1>7, Zenon

-----------------------------------------------------------------------------
(* What the instruments hear of a message. *)

\* What instrument i takes the message for, given what it was told before
Understood(i, p, what) == Value(HeardBy(i, p), Of(heard[i], Topic(Group, Channel, what)))

\* Whoever hears the message hears it as one about `what`.  The MIDI 2.0 instrument
\* hears what was played, unless it is a reserved controller; the others agree
\* with it and with each other as far as the translations promise.
Carries(what, value, p) ==
  LET t == Topic(Group, Channel, what)
      Silence(i) == HeardBy(i, p) = Untranslated
  IN  /\ value \in Readings(t)
      /\ \A i \in Instruments : ~Silence(i) =>
           /\ Topic(HeardBy(i, p).group, HeardBy(i, p).channel, What(HeardBy(i, p))) = t
           /\ Understood(i, p, what) \in Readings(t)
      /\ IF Silence("midi2") THEN what[1] = "controller" ELSE Understood("midi2", p, what) = value
      /\ ~Silence("midi1") /\ ~Silence("midi2") =>
           SameInMidi1(t, Understood("midi1", p, what), Understood("midi2", p, what))
      /\ ~Silence("midi1") /\ ~Silence("again") =>
           Understood("midi1", p, what) = Understood("again", p, what)

\* The instruments hear the message, its translation, and the translation of
\* its translation.
LEMMA Hearing ==
  ASSUME NEW p
  PROVE  /\ p.type = "midi1" =>
              /\ HeardBy("midi1", p) = p
              /\ HeardBy("midi2", p) = AsMidi2(p)
              /\ HeardBy("again", p) = IF p = Untranslated THEN p ELSE AsMidi2(p)
         /\ p.type = "midi2" =>
              /\ HeardBy("midi1", p) = AsMidi1(p)
              /\ HeardBy("midi2", p) = p
              /\ HeardBy("again", p) = IF AsMidi1(p) = Untranslated THEN AsMidi1(p)
                                                                    ELSE AsMidi2(AsMidi1(p))
<1>1. "midi1" # "midi2" /\ "midi1" # "again" /\ "midi2" # "again"
  OBVIOUS
<1> QED BY <1>1, Zenon DEF HeardBy

\* A value is the same as itself.
LEMMA SameReading == \A t, a : SameInMidi1(t, a, a)
BY Zenon DEF SameInMidi1

\* A message that means something was translated.
LEMMA MeansTranslated ==
  \A p, what, value : Means(p, what, value) =>
    /\ p # Untranslated
    /\ Topic(p.group, p.channel, What(p)) = Topic(Group, Channel, what)
    /\ \A b : Value(p, b) = value
<1> SUFFICES ASSUME NEW p, NEW what, NEW value, Means(p, what, value)
             PROVE  /\ p # Untranslated
                    /\ Topic(p.group, p.channel, What(p)) = Topic(Group, Channel, what)
                    /\ \A b : Value(p, b) = value
  OBVIOUS
<1>1. p.type # "none" /\ Untranslated.type = "none"
  BY SMT DEF Means, Untranslated
<1>2. p # Untranslated
  BY <1>1, Zenon
<1> QED BY <1>2, Zenon DEF Means

\* A message of MIDI 1.0
LEMMA CarriesMidi1 ==
  ASSUME NEW p, NEW what, NEW value \in Readings(Topic(Group, Channel, what)),
         p.type = "midi1", Means(p, what, value),
         IF AsMidi2(p) = Untranslated THEN what[1] = "controller" ELSE Means(AsMidi2(p), what, value)
  PROVE  Carries(what, value, p)
<1>1. p # Untranslated
  BY MeansTranslated
<1>2. /\ HeardBy("midi1", p) = p
      /\ HeardBy("midi2", p) = AsMidi2(p)
      /\ HeardBy("again", p) = AsMidi2(p)
  BY <1>1, Hearing, Zenon
<1>3. \A i \in Instruments : HeardBy(i, p) # Untranslated => Means(HeardBy(i, p), what, value)
  BY <1>2, Zenon DEF Instruments
<1>4. \A i \in Instruments : HeardBy(i, p) # Untranslated =>
        /\ Topic(HeardBy(i, p).group, HeardBy(i, p).channel, What(HeardBy(i, p)))
             = Topic(Group, Channel, what)
        /\ Understood(i, p, what) = value
  BY <1>3, MeansTranslated, Zenon DEF Understood
<1>5. "midi1" \in Instruments /\ "midi2" \in Instruments /\ "again" \in Instruments
  BY DEF Instruments
<1> QED BY <1>2, <1>4, <1>5, SameReading, Zenon DEF Carries

\* A message of MIDI 2.0 that is not translated
LEMMA CarriesMidi2Only ==
  ASSUME NEW p, NEW what, NEW value \in Readings(Topic(Group, Channel, what)),
         p.type = "midi2", Means(p, what, value), AsMidi1(p) = Untranslated
  PROVE  Carries(what, value, p)
<1>1. p # Untranslated
  BY MeansTranslated
<1>2. /\ HeardBy("midi1", p) = Untranslated
      /\ HeardBy("midi2", p) = p
      /\ HeardBy("again", p) = Untranslated
  BY Hearing, Zenon
<1>3. /\ Topic(p.group, p.channel, What(p)) = Topic(Group, Channel, what)
      /\ Understood("midi2", p, what) = value
  BY <1>2, MeansTranslated, Zenon DEF Understood
<1> QED BY <1>1, <1>2, <1>3, Zenon DEF Carries, Instruments

\* A message of MIDI 2.0 that is translated, and back
LEMMA CarriesMidi2 ==
  ASSUME NEW p, NEW what, NEW value \in Readings(Topic(Group, Channel, what)),
         NEW coarse \in Readings(Topic(Group, Channel, what)),
         p.type = "midi2", Means(p, what, value), Means(AsMidi1(p), what, coarse),
         Means(AsMidi2(AsMidi1(p)), what, coarse),
         SameInMidi1(Topic(Group, Channel, what), coarse, value)
  PROVE  Carries(what, value, p)
<1>1. p # Untranslated /\ AsMidi1(p) # Untranslated
  BY MeansTranslated
<1>2. /\ HeardBy("midi1", p) = AsMidi1(p)
      /\ HeardBy("midi2", p) = p
      /\ HeardBy("again", p) = AsMidi2(AsMidi1(p))
  BY <1>1, Hearing, Zenon
<1>3. /\ Topic(HeardBy("midi1", p).group, HeardBy("midi1", p).channel, What(HeardBy("midi1", p)))
           = Topic(Group, Channel, what)
      /\ Understood("midi1", p, what) = coarse
  <2>1. Means(HeardBy("midi1", p), what, coarse)
    BY <1>2, Zenon
  <2> QED BY <2>1, MeansTranslated, Zenon DEF Understood
<1>4. /\ Topic(HeardBy("midi2", p).group, HeardBy("midi2", p).channel, What(HeardBy("midi2", p)))
           = Topic(Group, Channel, what)
      /\ Understood("midi2", p, what) = value
  <2>1. Means(HeardBy("midi2", p), what, value)
    BY <1>2, Zenon
  <2> QED BY <2>1, MeansTranslated, Zenon DEF Understood
<1>5. /\ Topic(HeardBy("again", p).group, HeardBy("again", p).channel, What(HeardBy("again", p)))
           = Topic(Group, Channel, what)
      /\ Understood("again", p, what) = coarse
  <2>1. Means(HeardBy("again", p), what, coarse)
    BY <1>2, Zenon
  <2> QED BY <2>1, MeansTranslated, Zenon DEF Understood
<1> QED BY <1>1, <1>2, <1>3, <1>4, <1>5, Zenon DEF Carries, Instruments

-----------------------------------------------------------------------------
(* What the player plays is heard as it should be. *)

\* The readings of a topic
LEMMA ReadingsOf ==
  ASSUME NEW what
  PROVE  LET t == Topic(Group, Channel, what)
         IN  /\ what[1] = "note" =>
                  /\ Readings(t) = [on : BOOLEAN, velocity : Values16, pitch : Values16]
                  /\ \A a, b : /\ a.on = b.on
                               /\ LET low == IF a.on THEN 1 ELSE 0
                                      Seven(v) == IF Downsample16To7(v) < low THEN low
                                                                              ELSE Downsample16To7(v)
                                  IN  Seven(a.velocity) = Seven(b.velocity)
                               => SameInMidi1(t, a, b)
             /\ what[1] = "program" => Readings(t) = Values7
             /\ what[1] \notin {"note", "program"} => Readings(t) = Values32
             /\ what[1] \notin {"note", "program", "bend"} =>
                  \A a, b : Downsample32To7(a) = Downsample32To7(b) => SameInMidi1(t, a, b)
             /\ what[1] = "bend" =>
                  \A a, b : Downsample32To14(a) = Downsample32To14(b) => SameInMidi1(t, a, b)
<1> DEFINE t == Topic(Group, Channel, what)
<1>1. t.what = what
  BY SMT DEF Topic
<1> HIDE DEF t
<1>2. what[1] = "note" =>
        /\ Readings(t) = [on : BOOLEAN, velocity : Values16, pitch : Values16]
        /\ \A a, b : /\ a.on = b.on
                     /\ LET low == IF a.on THEN 1 ELSE 0
                            Seven(v) == IF Downsample16To7(v) < low THEN low
                                                                    ELSE Downsample16To7(v)
                        IN  Seven(a.velocity) = Seven(b.velocity)
                     => SameInMidi1(t, a, b)
  BY <1>1, Zenon DEF Readings, SameInMidi1
<1>3. what[1] = "program" => Readings(t) = Values7
  BY <1>1, Zenon DEF Readings
<1>4. what[1] \notin {"note", "program"} => Readings(t) = Values32
  BY <1>1, Zenon DEF Readings
<1>5. what[1] \notin {"note", "program", "bend"} =>
        \A a, b : Downsample32To7(a) = Downsample32To7(b) => SameInMidi1(t, a, b)
  BY <1>1, Zenon DEF SameInMidi1
<1>6. what[1] = "bend" =>
        \A a, b : Downsample32To14(a) = Downsample32To14(b) => SameInMidi1(t, a, b)
  BY <1>1, Zenon DEF SameInMidi1
<1> QED BY <1>2, <1>3, <1>4, <1>5, <1>6, Zenon DEF t

\* What a note may be told as
LEMMA NoteReadings ==
  ASSUME NEW n \in Values7
  PROVE  LET t == Topic(Group, Channel, <<"note", n>>)
         IN  /\ 0 \in Values16 /\ Upsample7To16(64) \in Values16
             /\ \A v \in Values16 : Sounding(n, v) \in Readings(t) /\ Silent(n, v) \in Readings(t)
             /\ \A v, pitch \in Values16 :
                  [on |-> TRUE, velocity |-> v, pitch |-> pitch] \in Readings(t)
<1>1. 0 \in Values16 /\ 64 \in Values7 /\ 512 * n \in Values16
  BY Range7, Range16, SMT
<1>2. <<"note", n>>[1] = "note"
  BY SMT
<1> DEFINE R == Readings(Topic(Group, Channel, <<"note", n>>))
<1>3. R = [on : BOOLEAN, velocity : Values16, pitch : Values16]
  BY <1>2, ReadingsOf, ZenonT(40)
<1> HIDE DEF R
<1>4. \A v \in Values16 : Sounding(n, v) \in R /\ Silent(n, v) \in R
  BY <1>1, <1>3, SMT DEF Sounding, Silent
<1>5. \A v, pitch \in Values16 : [on |-> TRUE, velocity |-> v, pitch |-> pitch] \in R
  BY <1>3, SMT
<1>6. Upsample7To16(64) \in Values16
  BY <1>1, Scaling16, Zenon
<1> QED BY <1>1, <1>4, <1>5, <1>6, Zenon DEF R

\* Notes with their meanings and translations
LEMMA NoteOn1 ==
  ASSUME NEW n \in Values7, NEW d \in Values7
  PROVE  LET p == Midi1(Group, Status.note_on, Channel, n, d)
         IN  /\ p.type = "midi1"
             /\ d = 0 => /\ Means(p, <<"note", n>>, Silent(n, Upsample7To16(64)))
                         /\ AsMidi2(p) = Midi2Note(Group, Status.note_off, Channel, n,
                                                   Upsample7To16(64), 0, 0)
             /\ d # 0 => /\ Means(p, <<"note", n>>, Sounding(n, Upsample7To16(d)))
                         /\ AsMidi2(p) = Midi2Note(Group, Status.note_on, Channel, n,
                                                   Upsample7To16(d), 0, 0)
<1> DEFINE p == Midi1(Group, Status.note_on, Channel, n, d)
<1>1. Of1(p, Status.note_on, n, d)
  BY Made, Zenon
<1>2. p.type = "midi1"
  BY <1>1, Zenon DEF Of1
<1> HIDE DEF p
<1> QED BY <1>1, <1>2, Midi1Notes, Upwards, ZenonT(40) DEF p

\* A note off of MIDI 1.0, and what it is in MIDI 2.0
LEMMA NoteOff1 ==
  ASSUME NEW n \in Values7, NEW d \in Values7
  PROVE  LET p == Midi1(Group, Status.note_off, Channel, n, d)
         IN  /\ p.type = "midi1"
             /\ Means(p, <<"note", n>>, Silent(n, Upsample7To16(d)))
             /\ AsMidi2(p) = Midi2Note(Group, Status.note_off, Channel, n, Upsample7To16(d), 0, 0)
<1> DEFINE p == Midi1(Group, Status.note_off, Channel, n, d)
<1>1. Of1(p, Status.note_off, n, d)
  BY Made, Zenon
<1>2. p.type = "midi1"
  BY <1>1, Zenon DEF Of1
<1> HIDE DEF p
<1> QED BY <1>1, <1>2, Midi1Notes, Upwards, ZenonT(40) DEF p

\* A note on of MIDI 2.0, and what it is in MIDI 1.0; one at a pitch is not translated.
LEMMA NoteOn2 ==
  ASSUME NEW n \in Values7, NEW v \in Values16, NEW attribute \in {0, Pitch79},
         NEW pitch \in Values16
  PROVE  LET p == Midi2Note(Group, Status.note_on, Channel, n, v, attribute, pitch)
             d == Downsample16To7(v)
         IN  /\ p.type = "midi2"
             /\ attribute = 0 =>
                  /\ Means(p, <<"note", n>>, Sounding(n, v))
                  /\ AsMidi1(p) = Midi1(Group, Status.note_on, Channel, n, IF d = 0 THEN 1 ELSE d)
             /\ attribute # 0 =>
                  /\ Means(p, <<"note", n>>, [on |-> TRUE, velocity |-> v, pitch |-> pitch])
                  /\ AsMidi1(p) = Untranslated
<1> DEFINE p == Midi2Note(Group, Status.note_on, Channel, n, v, attribute, pitch)
           data == TwoHalves(v, pitch)
<1>1. attribute \in Values7 /\ attribute \in {0, 1, Pitch79}
  BY Range7, SMT DEF Pitch79
<1>2. Of2(p, Status.note_on, n, attribute, data)
  BY <1>1, Made, Zenon DEF Midi2Note
<1>3. p.type = "midi2"
  BY <1>2, Zenon DEF Of2
<1>4. HighHalf(data) = v
  BY Halves
<1>5. Means(p, <<"note", n>>, [on |-> TRUE, velocity |-> v,
                              pitch |-> IF attribute = Pitch79 THEN pitch ELSE 512 * n])
  BY <1>1, <1>2, Midi2Notes
<1>6. 0 # Pitch79
  BY SMT DEF Pitch79
<1> HIDE DEF p
<1>7. ASSUME attribute = 0 PROVE Means(p, <<"note", n>>, Sounding(n, v))
  BY <1>7, <1>5, <1>6, Zenon DEF Sounding
<1>8. ASSUME attribute # 0
      PROVE  Means(p, <<"note", n>>, [on |-> TRUE, velocity |-> v, pitch |-> pitch])
  <2>1. attribute = Pitch79
    BY <1>8
  <2> QED BY <1>5, <2>1, Zenon
<1> HIDE DEF data
<1>9. attribute = 0 => AsMidi1(p) = Midi1(Group, Status.note_on, Channel, n,
                                          IF Downsample16To7(v) = 0 THEN 1 ELSE Downsample16To7(v))
  BY <1>1, <1>2, <1>4, Downwards, ZenonT(40)
<1>10. attribute # 0 => AsMidi1(p) = Untranslated
  BY <1>1, <1>2, Downwards, ZenonT(40)
<1> QED BY <1>3, <1>7, <1>8, <1>9, <1>10, Zenon DEF p

\* A note off of MIDI 2.0; one with an attribute is not translated.
LEMMA NoteOff2 ==
  ASSUME NEW n \in Values7, NEW v \in Values16, NEW attribute \in {0, 1}
  PROVE  LET p == Midi2Note(Group, Status.note_off, Channel, n, v, attribute, attribute)
         IN  /\ p.type = "midi2"
             /\ Means(p, <<"note", n>>, Silent(n, v))
             /\ AsMidi1(p) = IF attribute = 0
                               THEN Midi1(Group, Status.note_off, Channel, n, Downsample16To7(v))
                               ELSE Untranslated
<1> DEFINE p == Midi2Note(Group, Status.note_off, Channel, n, v, attribute, attribute)
           data == TwoHalves(v, attribute)
<1>1. attribute \in Values7 /\ attribute \in {0, 1, Pitch79} /\ attribute \in Values16
  BY Range7, Range16, SMT DEF Pitch79
<1>2. Of2(p, Status.note_off, n, attribute, data)
  BY <1>1, Made, Zenon DEF Midi2Note
<1>3. p.type = "midi2"
  BY <1>2, Zenon DEF Of2
<1>4. HighHalf(data) = v
  BY <1>1, Halves
<1>5. Means(p, <<"note", n>>, Silent(n, v))
  BY <1>1, <1>2, Midi2Notes, ZenonT(40)
<1> HIDE DEF p, data
<1>6. AsMidi1(p) = IF attribute = 0
                     THEN Midi1(Group, Status.note_off, Channel, n, Downsample16To7(v))
                     ELSE Untranslated
  BY <1>1, <1>2, <1>4, Downwards, ZenonT(40)
<1> QED BY <1>3, <1>5, <1>6, Zenon DEF p

\* A note on of MIDI 2.0 that has no attribute
LEMMA NoteOn2Plain ==
  ASSUME NEW n \in Values7, NEW v \in Values16
  PROVE  Means(Midi2Note(Group, Status.note_on, Channel, n, v, 0, 0), <<"note", n>>, Sounding(n, v))
<1>1. 0 \in {0, Pitch79} /\ 0 \in Values16
  BY NoteReadings, ZenonT(40)
<1> QED BY <1>1, NoteOn2, ZenonT(40)

\* A note struck or released in MIDI 1.0
LEMMA NotesCarried1 ==
  ASSUME NEW n \in Values7, NEW v \in Values16
  PROVE  /\ Carries(<<"note", n>>,
                    IF v >= 512 THEN Sounding(n, Coarse16(v)) ELSE Silent(n, Upsample7To16(64)),
                    Midi1(Group, Status.note_on, Channel, n, Downsample16To7(v)))
         /\ Carries(<<"note", n>>, Silent(n, Coarse16(v)),
                    Midi1(Group, Status.note_off, Channel, n, Downsample16To7(v)))
<1> DEFINE d == Downsample16To7(v)
           on == Midi1(Group, Status.note_on, Channel, n, d)
           off == Midi1(Group, Status.note_off, Channel, n, d)
           what == <<"note", n>>
<1>1. d \in Values7 /\ (v >= 512 <=> d # 0)
  BY Scaling16, Range16, SMT DEF Downsample16To7
<1>2. Coarse16(v) = Upsample7To16(d)
  BY DEF Coarse16
<1> HIDE DEF d
<1>3. Upsample7To16(d) \in Values16 /\ Upsample7To16(64) \in Values16 /\ 0 \in {0, 1}
  BY <1>1, Scaling16, NoteReadings, ZenonT(40)
<1>4. 0 \in {0, Pitch79} /\ 0 \in Values16
  BY NoteReadings, ZenonT(40)
<1>5. ASSUME d = 0 PROVE Carries(what, Silent(n, Upsample7To16(64)), on)
  <2>1. on.type = "midi1" /\ Means(on, what, Silent(n, Upsample7To16(64)))
    BY <1>1, <1>5, NoteOn1, ZenonT(40)
  <2>2. Means(AsMidi2(on), what, Silent(n, Upsample7To16(64)))
    BY <1>1, <1>3, <1>5, NoteOn1, NoteOff2, ZenonT(40)
  <2> QED BY <1>3, <2>1, <2>2, CarriesMidi1, NoteReadings, MeansTranslated, ZenonT(40)
<1>6. ASSUME d # 0 PROVE Carries(what, Sounding(n, Upsample7To16(d)), on)
  <2>1. on.type = "midi1" /\ Means(on, what, Sounding(n, Upsample7To16(d)))
    BY <1>1, <1>6, NoteOn1, ZenonT(40)
  <2>2. Means(AsMidi2(on), what, Sounding(n, Upsample7To16(d)))
    <3>1. AsMidi2(on) = Midi2Note(Group, Status.note_on, Channel, n, Upsample7To16(d), 0, 0)
      BY <1>1, <1>6, NoteOn1, ZenonT(40)
    <3> QED BY <1>3, <3>1, NoteOn2Plain, ZenonT(40)
  <2> QED BY <1>3, <2>1, <2>2, CarriesMidi1, NoteReadings, MeansTranslated, ZenonT(40)
<1>7. Carries(what, Silent(n, Upsample7To16(d)), off)
  <2>1. off.type = "midi1" /\ Means(off, what, Silent(n, Upsample7To16(d)))
    BY <1>1, NoteOff1, ZenonT(40)
  <2>2. Means(AsMidi2(off), what, Silent(n, Upsample7To16(d)))
    <3>1. AsMidi2(off) = Midi2Note(Group, Status.note_off, Channel, n, Upsample7To16(d), 0, 0)
      BY <1>1, NoteOff1, ZenonT(40)
    <3> HIDE DEF off
    <3> QED BY <1>1, <1>3, <3>1, NoteOff2, ZenonT(40)
  <2> QED BY <1>3, <2>1, <2>2, CarriesMidi1, NoteReadings, MeansTranslated, ZenonT(40)
<1> QED BY <1>1, <1>2, <1>5, <1>6, <1>7, Zenon DEF d

\* A note struck or released in MIDI 2.0
LEMMA NotesCarried2 ==
  ASSUME NEW n \in Values7, NEW v \in Values16
  PROVE  /\ Carries(<<"note", n>>, Sounding(n, v),
                    Midi2Note(Group, Status.note_on, Channel, n, v, 0, 0))
         /\ \A pitch \in Values16 :
              Carries(<<"note", n>>, [on |-> TRUE, velocity |-> v, pitch |-> pitch],
                      Midi2Note(Group, Status.note_on, Channel, n, v, Pitch79, pitch))
         /\ \A attribute \in {0, 1} :
              Carries(<<"note", n>>, Silent(n, v),
                      Midi2Note(Group, Status.note_off, Channel, n, v, attribute, attribute))
<1> DEFINE d == Downsample16To7(v)
           h == IF d = 0 THEN 1 ELSE d
           what == <<"note", n>>
           t == Topic(Group, Channel, what)
<1>1. d \in Values7 /\ Downsample16To7(Upsample7To16(d)) = d /\ Upsample7To16(d) \in Values16
  BY Scaling16, Zenon
<1>2. h \in Values7 /\ h # 0
  BY <1>1, Range7, SMT
<1>3. Downsample16To7(Upsample7To16(h)) = h /\ Upsample7To16(h) \in Values16
  BY <1>2, Scaling16, Zenon
<1>4. 0 \in {0, Pitch79} /\ 0 \in Values16 /\ Pitch79 \in {0, Pitch79} /\ 0 \in {0, 1}
  BY NoteReadings, ZenonT(40)
<1>5. Pitch79 # 0
  BY SMT DEF Pitch79
<1>6. what[1] = "note"
  BY SMT
<1>7. Carries(what, Sounding(n, v), Midi2Note(Group, Status.note_on, Channel, n, v, 0, 0))
  <2> DEFINE p == Midi2Note(Group, Status.note_on, Channel, n, v, 0, 0)
  <2>1. p.type = "midi2" /\ Means(p, what, Sounding(n, v))
    BY <1>4, NoteOn2, ZenonT(40)
  <2>2. AsMidi1(p) = Midi1(Group, Status.note_on, Channel, n, h)
    BY <1>4, NoteOn2, ZenonT(40)
  <2> HIDE DEF h
  <2>3. Means(AsMidi1(p), what, Sounding(n, Upsample7To16(h)))
    BY <1>2, <2>2, NoteOn1, ZenonT(40)
  <2>4. Means(AsMidi2(AsMidi1(p)), what, Sounding(n, Upsample7To16(h)))
    <3>1. AsMidi2(AsMidi1(p)) = Midi2Note(Group, Status.note_on, Channel, n, Upsample7To16(h), 0, 0)
      BY <1>2, <2>2, NoteOn1, ZenonT(40)
    <3> HIDE DEF p
    <3> QED BY <1>3, <3>1, NoteOn2Plain, ZenonT(40)
  <2>5. SameInMidi1(t, Sounding(n, Upsample7To16(h)), Sounding(n, v))
    <3>1. (IF h < 1 THEN 1 ELSE h) = (IF d < 1 THEN 1 ELSE d)
      BY <1>1, <1>2, Range7, SMT DEF h
    <3> HIDE DEF d
    <3>2. /\ Sounding(n, Upsample7To16(h)).on = TRUE /\ Sounding(n, v).on = TRUE
          /\ Sounding(n, Upsample7To16(h)).velocity = Upsample7To16(h)
          /\ Sounding(n, v).velocity = v
      BY SMT DEF Sounding
    <3> QED BY <1>3, <1>6, <3>1, <3>2, ReadingsOf, ZenonT(40) DEF d
  <2> QED BY <1>3, <2>1, <2>3, <2>4, <2>5, CarriesMidi2, NoteReadings, ZenonT(40)
<1>8. ASSUME NEW pitch \in Values16
      PROVE  Carries(what, [on |-> TRUE, velocity |-> v, pitch |-> pitch],
                     Midi2Note(Group, Status.note_on, Channel, n, v, Pitch79, pitch))
  BY <1>4, <1>5, NoteOn2, CarriesMidi2Only, NoteReadings, ZenonT(40)
<1>9. Carries(what, Silent(n, v), Midi2Note(Group, Status.note_off, Channel, n, v, 0, 0))
  <2> DEFINE p == Midi2Note(Group, Status.note_off, Channel, n, v, 0, 0)
  <2>1. p.type = "midi2" /\ Means(p, what, Silent(n, v))
    BY <1>4, NoteOff2, ZenonT(40)
  <2>2. AsMidi1(p) = Midi1(Group, Status.note_off, Channel, n, d)
    BY <1>4, NoteOff2, ZenonT(40)
  <2> HIDE DEF d
  <2>3. Means(AsMidi1(p), what, Silent(n, Upsample7To16(d)))
    BY <1>1, <2>2, NoteOff1, ZenonT(40)
  <2>4. Means(AsMidi2(AsMidi1(p)), what, Silent(n, Upsample7To16(d)))
    <3>1. AsMidi2(AsMidi1(p)) = Midi2Note(Group, Status.note_off, Channel, n, Upsample7To16(d), 0, 0)
      BY <1>1, <2>2, NoteOff1, ZenonT(40)
    <3> HIDE DEF p
    <3> QED BY <1>1, <1>4, <3>1, NoteOff2, ZenonT(40)
  <2>5. SameInMidi1(t, Silent(n, Upsample7To16(d)), Silent(n, v))
    <3>1. /\ Silent(n, Upsample7To16(d)).on = FALSE /\ Silent(n, v).on = FALSE
          /\ Silent(n, Upsample7To16(d)).velocity = Upsample7To16(d)
          /\ Silent(n, v).velocity = v
      BY SMT DEF Silent
    <3> QED BY <1>1, <1>6, <3>1, ReadingsOf, ZenonT(40) DEF d
  <2> QED BY <1>1, <2>1, <2>3, <2>4, <2>5, CarriesMidi2, NoteReadings, ZenonT(40)
<1>10. Carries(what, Silent(n, v), Midi2Note(Group, Status.note_off, Channel, n, v, 1, 1))
  <2>1. 1 \in {0, 1} /\ 1 # 0
    OBVIOUS
  <2> QED BY <2>1, NoteOff2, CarriesMidi2Only, NoteReadings, ZenonT(40)
<1> QED BY <1>7, <1>8, <1>9, <1>10, Zenon

\* The readings of what is told as a level
LEMMA LevelReadings ==
  ASSUME NEW what, what[1] \in {"pressure", "controller"} \union Kinds \union {"bend range", "bend"}
  PROVE  /\ Readings(Topic(Group, Channel, what)) = Values32
         /\ what[1] # "bend" =>
              \A v \in Values32 :
                SameInMidi1(Topic(Group, Channel, what), Upsample7To32(Downsample32To7(v)), v)
         /\ what[1] = "bend" =>
              \A v \in Values32 :
                SameInMidi1(Topic(Group, Channel, what), Upsample14To32(Downsample32To14(v)), v)
<1>1. what[1] # "note" /\ what[1] # "program"
  BY Zenon DEF Kinds
<1>2. \A v \in Values32 : Downsample32To7(Upsample7To32(Downsample32To7(v))) = Downsample32To7(v)
  BY Scaling32, Zenon
<1>3. \A v \in Values32 : Downsample32To14(Upsample14To32(Downsample32To14(v))) = Downsample32To14(v)
  BY Scaling14, Zenon
<1> QED BY <1>1, <1>2, <1>3, ReadingsOf, ZenonT(40)

\* Pressure and controllers, of either protocol
LEMMA LevelsCarried ==
  ASSUME NEW index \in Values7, NEW v \in Values32, NEW what, NEW status,
         \/ what = <<"pressure", index>> /\ status = Status.poly_pressure
         \/ what = <<"controller", index>> /\ status = Status.control_change
  PROVE  /\ Carries(what, v, Midi2(Group, status, Channel, index, 0, v))
         /\ Carries(what, Coarse32(v), Midi1(Group, status, Channel, index, Downsample32To7(v)))
<1> DEFINE d == Downsample32To7(v)
           old == Midi1(Group, status, Channel, index, d)
           new == Midi2(Group, status, Channel, index, 0, v)
           back == Midi2(Group, status, Channel, index, 0, Coarse32(v))
           t == Topic(Group, Channel, what)
<1>1. what[1] \in {"pressure", "controller"} /\ what[1] # "bend"
  BY SMT
<1>2. d \in Values7 /\ 0 \in Values7 /\ Coarse32(v) = Upsample7To32(d) /\ Coarse32(v) \in Values32
  BY Scaling32, Range7, SMT DEF Coarse32
<1>3. v \in Readings(t) /\ Coarse32(v) \in Readings(t) /\ SameInMidi1(t, Coarse32(v), v)
  BY <1>1, <1>2, LevelReadings, ZenonT(40) DEF Coarse32
<1> HIDE DEF d, t
<1>4. Of1(old, status, index, d) /\ Of2(new, status, index, 0, v) /\ Of2(back, status, index, 0, Coarse32(v))
  BY <1>2, Made, Zenon
<1>5. old.type = "midi1" /\ new.type = "midi2"
  BY <1>4, Zenon DEF Of1, Of2
<1>6. Means(old, what, Coarse32(v)) /\ Means(new, what, v) /\ Means(back, what, Coarse32(v))
  <2> HIDE DEF old, new, back
  <2>1. CASE what = <<"pressure", index>> /\ status = Status.poly_pressure
    <3>1. Of1(old, Status.poly_pressure, index, d) => Means(old, <<"pressure", index>>, Coarse32(v))
      BY <1>2, Midi1Others, ZenonT(40)
    <3>2. \A p : \A w \in Values32 :
            Of2(p, Status.poly_pressure, index, 0, w) => Means(p, <<"pressure", index>>, w)
      BY Midi2Others, ZenonT(40)
    <3> QED BY <1>2, <1>4, <2>1, <3>1, <3>2, Zenon
  <2>2. CASE what = <<"controller", index>> /\ status = Status.control_change
    <3>1. Of1(old, Status.control_change, index, d) => Means(old, <<"controller", index>>, Coarse32(v))
      BY <1>2, Midi1Others, ZenonT(40)
    <3>2. \A p : \A w \in Values32 :
            Of2(p, Status.control_change, index, 0, w) => Means(p, <<"controller", index>>, w)
      BY Midi2Others, ZenonT(40)
    <3> QED BY <1>2, <1>4, <2>2, <3>1, <3>2, Zenon
  <2> QED BY <2>1, <2>2
<1>7. \/ AsMidi1(new) = old /\ AsMidi2(old) = back
      \/ AsMidi1(new) = Untranslated /\ AsMidi2(old) = Untranslated /\ what[1] = "controller"
  <2>1. CASE what = <<"pressure", index>> /\ status = Status.poly_pressure
    <3>1. /\ Of1(old, Status.poly_pressure, index, d)
          /\ Of2(new, Status.poly_pressure, index, 0, v)
      BY <1>4, <2>1, Zenon
    <3>2. AsMidi1(new) = Midi1(Group, Status.poly_pressure, Channel, index, d)
      BY <3>1, Downwards, ZenonT(40) DEF d
    <3>3. AsMidi2(old) = Midi2(Group, Status.poly_pressure, Channel, index, 0, Upsample7To32(d))
      BY <1>2, <3>1, Upwards, ZenonT(40)
    <3> QED BY <1>2, <2>1, <3>2, <3>3, Zenon
  <2>2. CASE what = <<"controller", index>> /\ status = Status.control_change
    <3>1. what[1] = "controller"
      BY <2>2, SMT
    <3>2. /\ Of1(old, Status.control_change, index, d)
          /\ Of2(new, Status.control_change, index, 0, v)
      BY <1>4, <2>2, Zenon
    <3>3. AsMidi1(new) = IF index \in ReservedControllers THEN Untranslated
                         ELSE Midi1(Group, Status.control_change, Channel, index, d)
      BY <3>2, Downwards, ZenonT(40) DEF d
    <3>4. AsMidi2(old) = IF index \in ReservedControllers THEN Untranslated
                         ELSE Midi2(Group, Status.control_change, Channel, index, 0, Upsample7To32(d))
      BY <1>2, <3>2, Upwards, ZenonT(40)
    <3> QED BY <1>2, <2>2, <3>1, <3>3, <3>4, Zenon
  <2> QED BY <2>1, <2>2
<1> HIDE DEF old, new, back
<1>8. Carries(what, v, new)
  BY <1>3, <1>5, <1>6, <1>7, CarriesMidi2, CarriesMidi2Only, ZenonT(40) DEF t
<1>9. Carries(what, Coarse32(v), old)
  BY <1>3, <1>5, <1>6, <1>7, CarriesMidi1, MeansTranslated, Zenon DEF t
<1> QED BY <1>8, <1>9, Zenon DEF old, new, d

\* The pressure of a channel
LEMMA PressureCarried ==
  ASSUME NEW v \in Values32
  PROVE  /\ Carries(<<"pressure">>, v, Midi2(Group, Status.channel_pressure, Channel, 0, 0, v))
         /\ Carries(<<"pressure">>, Coarse32(v),
                    Midi1(Group, Status.channel_pressure, Channel, Downsample32To7(v), 0))
<1> DEFINE d == Downsample32To7(v)
           old == Midi1(Group, Status.channel_pressure, Channel, d, 0)
           new == Midi2(Group, Status.channel_pressure, Channel, 0, 0, v)
           back == Midi2(Group, Status.channel_pressure, Channel, 0, 0, Coarse32(v))
           what == <<"pressure">>
           t == Topic(Group, Channel, what)
<1>1. what[1] = "pressure" /\ what[1] \in {"pressure", "controller"} /\ what[1] # "bend"
  BY SMT
<1>2. d \in Values7 /\ 0 \in Values7 /\ Coarse32(v) = Upsample7To32(d) /\ Coarse32(v) \in Values32
  BY Scaling32, Range7, SMT DEF Coarse32
<1>3. v \in Readings(t) /\ Coarse32(v) \in Readings(t) /\ SameInMidi1(t, Coarse32(v), v)
  BY <1>1, <1>2, LevelReadings, ZenonT(40) DEF Coarse32
<1> HIDE DEF d, t
<1>4. /\ Of1(old, Status.channel_pressure, d, 0) /\ Of2(new, Status.channel_pressure, 0, 0, v)
      /\ Of2(back, Status.channel_pressure, 0, 0, Coarse32(v))
  BY <1>2, Made, Zenon
<1>5. old.type = "midi1" /\ new.type = "midi2"
  BY <1>4, Zenon DEF Of1, Of2
<1>6. Means(old, what, Coarse32(v)) /\ Means(new, what, v) /\ Means(back, what, Coarse32(v))
  <2> HIDE DEF old, new, back
  <2> QED BY <1>2, <1>4, Midi1Others, Midi2Others, ZenonT(40)
<1>7. AsMidi1(new) = old /\ AsMidi2(old) = back
  BY <1>2, <1>4, Downwards, Upwards, ZenonT(40) DEF d
<1> HIDE DEF old, new, back, what
<1>8. Carries(what, v, new)
  BY <1>3, <1>5, <1>6, <1>7, CarriesMidi2, ZenonT(40) DEF t
<1>9. Carries(what, Coarse32(v), old)
  BY <1>3, <1>5, <1>6, <1>7, CarriesMidi1, MeansTranslated, Zenon DEF t
<1> QED BY <1>8, <1>9, Zenon DEF old, new, d, what

\* The pitch bend of a channel
LEMMA BendCarried ==
  ASSUME NEW v \in Values32
  PROVE  /\ Carries(<<"bend">>, v, Midi2(Group, Status.pitch_bend, Channel, 0, 0, v))
         /\ Carries(<<"bend">>, Upsample14To32(Downsample32To14(v)),
                    Midi1PitchBend(Group, Channel, v))
<1> DEFINE b == Downsample32To14(v)
           low == b % 128
           high == b \div 128
           coarse == Upsample14To32(b)
           old == Midi1PitchBend(Group, Channel, v)
           new == Midi2(Group, Status.pitch_bend, Channel, 0, 0, v)
           back == Midi2(Group, Status.pitch_bend, Channel, 0, 0, coarse)
           what == <<"bend">>
           t == Topic(Group, Channel, what)
<1>1. what[1] = "bend"
  BY SMT
<1>2. b \in Values14 /\ coarse \in Values32
  BY Scaling14, Zenon
<1>3. old = Midi1(Group, Status.pitch_bend, Channel, low, high)
  BY Zenon DEF Midi1PitchBend
<1>4. v \in Readings(t) /\ coarse \in Readings(t) /\ SameInMidi1(t, coarse, v)
  BY <1>1, <1>2, LevelReadings, ZenonT(40)
<1> HIDE DEF t, b
<1>5. low \in Values7 /\ high \in Values7 /\ low + 128 * high = b /\ 0 \in Values7
  BY <1>2, Range14, Range7, SMT
<1> HIDE DEF low, high, old
<1>6. /\ Of1(old, Status.pitch_bend, low, high) /\ Of2(new, Status.pitch_bend, 0, 0, v)
      /\ Of2(back, Status.pitch_bend, 0, 0, coarse)
  BY <1>3, <1>5, Made, Zenon
<1>7. old.type = "midi1" /\ new.type = "midi2"
  BY <1>6, Zenon DEF Of1, Of2
<1>8. Means(old, what, coarse) /\ Means(new, what, v) /\ Means(back, what, coarse)
  <2> HIDE DEF new, back
  <2> QED BY <1>2, <1>5, <1>6, Midi1Others, Midi2Others, ZenonT(40)
<1>9. AsMidi1(new) = old /\ AsMidi2(old) = back
  BY <1>5, <1>6, Downwards, Upwards, ZenonT(40) DEF old
<1> HIDE DEF new, back, what, coarse
<1>10. Carries(what, v, new)
  BY <1>4, <1>7, <1>8, <1>9, CarriesMidi2, ZenonT(40) DEF t
<1>11. Carries(what, coarse, old)
  BY <1>4, <1>7, <1>8, <1>9, CarriesMidi1, MeansTranslated, Zenon DEF t
<1> QED BY <1>10, <1>11, Zenon DEF old, new, what, coarse, b

\* A program, with a bank or without
LEMMA ProgramCarried ==
  ASSUME NEW n \in Values7
  PROVE  /\ Carries(<<"program">>, n, Midi2Program(Group, Channel, n))
         /\ Carries(<<"program">>, n, Midi1(Group, Status.program_change, Channel, n, 0))
         /\ \A bank \in Banks :
              Carries(<<"program">>, n, Midi2ProgramOfBank(Group, Channel, n, bank))
<1> DEFINE old == Midi1(Group, Status.program_change, Channel, n, 0)
           new == Midi2Program(Group, Channel, n)
           what == <<"program">>
           t == Topic(Group, Channel, what)
<1>1. what[1] = "program"
  BY SMT
<1>2. n \in Readings(t) /\ SameInMidi1(t, n, n)
  BY <1>1, ReadingsOf, SameReading, ZenonT(40)
<1>3. 0 \in Values7 /\ 1 \in Values7 /\ n % 128 = n
  BY Range7, Fields, SMT
<1>4. /\ Of1(old, Status.program_change, n, 0) /\ old.type = "midi1"
      /\ Means(old, what, n)
  <2>1. Of1(old, Status.program_change, n, 0)
    BY <1>3, Made, Zenon
  <2> HIDE DEF old
  <2> QED BY <1>3, <2>1, Midi1Others, ZenonT(40) DEF Of1
<1>5. /\ Of2(new, Status.program_change, 0, 0, <<n \div 2, 16777216 * (n % 2) + 0>>)
      /\ new.type = "midi2"
  <2>1. new = Midi2(Group, Status.program_change, Channel, 0, 0, <<n \div 2, 16777216 * (n % 2) + 0>>)
    BY <1>3, Range7, SMT DEF Midi2Program
  <2> DEFINE data == <<n \div 2, 16777216 * (n % 2) + 0>>
  <2> HIDE DEF data, new
  <2>2. Of2(new, Status.program_change, 0, 0, data)
    BY <1>3, <2>1, Made, SMT DEF data
  <2> QED BY <2>2, SMT DEF Of2, data
<1>6. Program(new) = n /\ Means(new, what, n)
  <2> HIDE DEF new
  <2>1. 0 \in Int /\ 0 <= 0 /\ 0 < 16777216 /\ 0 \in {0, 1}
    BY SMT
  <2> QED BY <1>5, <2>1, Midi2Programs, SMT
<1>7. AsMidi1(new) = old
  <2> DEFINE data == <<n \div 2, 16777216 * (n % 2) + 0>>
  <2>1. Of2(new, Status.program_change, 0, 0, data)
    BY <1>5, SMT
  <2> HIDE DEF data, new
  <2> QED BY <1>3, <1>6, <2>1, Downwards, ZenonT(40)
<1>8. AsMidi2(old) = new
  <2> HIDE DEF old
  <2> QED BY <1>3, <1>4, Upwards, ZenonT(40)
<1>9. Carries(what, n, new)
  <2> HIDE DEF new, old, what
  <2> QED BY <1>2, <1>4, <1>5, <1>6, <1>7, <1>8, CarriesMidi2, SMT
<1>10. Carries(what, n, old)
  <2> HIDE DEF new, old, what
  <2> QED BY <1>2, <1>4, <1>6, <1>8, CarriesMidi1, MeansTranslated, Zenon
<1>11. ASSUME NEW bank \in Banks
       PROVE  Carries(what, n, Midi2ProgramOfBank(Group, Channel, n, bank))
  <2> DEFINE p == Midi2ProgramOfBank(Group, Channel, n, bank)
             rest == 256 * ((bank \div 128) % 128) + (bank % 128)
             data == <<n \div 2, 16777216 * (n % 2) + rest>>
  <2>1. bank \in Int /\ 0 <= bank /\ bank <= 16383
    BY VoiceAssumption, Range14, SMT DEF VoiceAssumption
  <2>2. rest \in Int /\ 0 <= rest /\ rest < 16777216
    BY <2>1, SMT
  <2>3. p = Midi2(Group, Status.program_change, Channel, 0, 1, data)
    <3>1. 16777216 * (n % 2) + 256 * ((bank \div 128) % 128) + (bank % 128)
            = 16777216 * (n % 2) + rest
      BY <2>1, Range7, SMT
    <3> QED BY <1>3, <3>1, SMT DEF Midi2ProgramOfBank
  <2> HIDE DEF p, rest
  <2>4. Of2(p, Status.program_change, 0, 1, data)
    <3> HIDE DEF data
    <3> QED BY <1>3, <2>3, Made, Zenon
  <2>5. p.type = "midi2" /\ 1 \in {0, 1}
    BY <2>4, SMT DEF Of2
  <2>6. Means(p, what, n)
    BY <2>2, <2>4, <2>5, Midi2Programs, SMT
  <2> HIDE DEF data
  <2>7. AsMidi1(p) = Untranslated
    BY <1>3, <2>4, Downwards, ZenonT(40)
  <2> QED BY <1>2, <2>5, <2>6, <2>7, CarriesMidi2Only, ZenonT(40) DEF p
<1> QED BY <1>9, <1>10, <1>11, SMT

\* What only MIDI 2.0 has
LEMMA OnlyCarried ==
  ASSUME NEW n \in Values7, NEW c \in Values7, NEW v \in Values32
  PROVE  /\ Carries(<<"bend range">>, Top14(v),
                    Midi2(Group, Status.registered_controller, Channel, 0, 0, v))
         /\ c # 0 => Carries(<<"registered", 0, c>>, v,
                             Midi2(Group, Status.registered_controller, Channel, 0, c, v))
         /\ Carries(<<"assignable", 0, c>>, v,
                    Midi2(Group, Status.assignable_controller, Channel, 0, c, v))
         /\ Carries(<<"registered", n, c, "of note">>, v,
                    Midi2(Group, Status.registered_per_note_controller, Channel, n, c, v))
         /\ Carries(<<"assignable", n, c, "of note">>, v,
                    Midi2(Group, Status.assignable_per_note_controller, Channel, n, c, v))
         /\ Carries(<<"bend", n>>, v,
                    Midi2(Group, Status.per_note_pitch_bend, Channel, n, 0, v))
<1>1. 0 \in Values7 /\ Top14(v) \in Values32
  <2>1. v[2] - (v[2] % 262144) \in Int /\ 0 <= v[2] - (v[2] % 262144)
                                       /\ v[2] - (v[2] % 262144) <= 33554431
    BY Pairs32, SMT
  <2>2. Top14(v) \in Values32
    BY <2>1, Pairs32, SMT DEF Top14
  <2> QED BY <2>2, Range7, SMT
<1>2. ASSUME NEW kind \in DOMAIN Status, NEW byte3 \in Values7, NEW byte4 \in Values7,
             NEW what, NEW value,
             kind \notin {"note_on", "note_off", "poly_pressure", "control_change",
                          "program_change", "channel_pressure", "pitch_bend"},
             what[1] \in {"bend range", "bend", "registered", "assignable"},
             value \in Values32,
             \A p : Of2(p, Status[kind], byte3, byte4, v) => Means(p, what, value)
      PROVE  Carries(what, value, Midi2(Group, Status[kind], Channel, byte3, byte4, v))
  <2> DEFINE p == Midi2(Group, Status[kind], Channel, byte3, byte4, v)
  <2>1. Of2(p, Status[kind], byte3, byte4, v)
    BY Made, Zenon
  <2> HIDE DEF p
  <2>2. p.type = "midi2" /\ p.status = Status[kind] /\ Means(p, what, value)
    BY <1>2, <2>1, Zenon DEF Of2
  <2>3. AsMidi1(p) = Untranslated
    BY <1>2, <2>2, OnlyUpstairs, ZenonT(40)
  <2>4. value \in Readings(Topic(Group, Channel, what))
    BY <1>2, LevelReadings, ZenonT(40) DEF Kinds
  <2> QED BY <2>2, <2>3, <2>4, CarriesMidi2Only, ZenonT(40) DEF p
<1>3. /\ "registered_controller" \in DOMAIN Status
      /\ "assignable_controller" \in DOMAIN Status
      /\ "registered_per_note_controller" \in DOMAIN Status
      /\ "assignable_per_note_controller" \in DOMAIN Status
      /\ "per_note_pitch_bend" \in DOMAIN Status
  BY Distinct, Zenon
<1>4. Carries(<<"bend range">>, Top14(v),
              Midi2(Group, Status.registered_controller, Channel, 0, 0, v))
  <2>1. <<"bend range">>[1] = "bend range"
    BY SMT
  <2> QED BY <1>1, <1>2, <1>3, <2>1, Midi2Only, ZenonT(40)
<1>5. ASSUME c # 0
      PROVE  Carries(<<"registered", 0, c>>, v,
                     Midi2(Group, Status.registered_controller, Channel, 0, c, v))
  <2>1. <<"registered", 0, c>>[1] = "registered"
    BY SMT
  <2> QED BY <1>1, <1>2, <1>3, <1>5, <2>1, Midi2Only, ZenonT(40)
<1>6. Carries(<<"assignable", 0, c>>, v,
              Midi2(Group, Status.assignable_controller, Channel, 0, c, v))
  <2>1. <<"assignable", 0, c>>[1] = "assignable"
    BY SMT
  <2> QED BY <1>1, <1>2, <1>3, <2>1, Midi2Only, ZenonT(40)
<1>7. Carries(<<"registered", n, c, "of note">>, v,
              Midi2(Group, Status.registered_per_note_controller, Channel, n, c, v))
  <2>1. <<"registered", n, c, "of note">>[1] = "registered"
    BY SMT
  <2> QED BY <1>2, <1>3, <2>1, Midi2Only, ZenonT(40)
<1>8. Carries(<<"assignable", n, c, "of note">>, v,
              Midi2(Group, Status.assignable_per_note_controller, Channel, n, c, v))
  <2>1. <<"assignable", n, c, "of note">>[1] = "assignable"
    BY SMT
  <2> QED BY <1>2, <1>3, <2>1, Midi2Only, ZenonT(40)
<1>9. Carries(<<"bend", n>>, v, Midi2(Group, Status.per_note_pitch_bend, Channel, n, 0, v))
  <2>1. <<"bend", n>>[1] = "bend"
    BY SMT
  <2> QED BY <1>1, <1>2, <1>3, <2>1, Midi2Only, ZenonT(40)
<1> QED BY <1>4, <1>5, <1>6, <1>7, <1>8, <1>9, Zenon

-----------------------------------------------------------------------------
(* The invariant. *)

\* The MIDI 2.0 instrument misses reserved controllers only.  So it knows the
\* value of any other controller, and a relative controller moves from it.
MissesReserved == \A t \in missed.midi2 : t.what[1] = "controller"

IInv == TypeOK /\ MissesReserved /\ HeardAsPlayed /\ TranslationAgrees /\ LosesNothingUpwards

\* A message that is heard as it should be keeps the invariant.
LEMMA Sending ==
  ASSUME IInv, NEW what, NEW value, NEW p, Carries(what, value, p), Send(what, value, p)
  PROVE  IInv'
<1> DEFINE t == Topic(Group, Channel, what)
           Silence(i) == HeardBy(i, p) = Untranslated
           says(i) == Understood(i, p, what)
<1>1. /\ DOMAIN played' = DOMAIN played \union {t} /\ played'[t] = value
      /\ \A u \in DOMAIN played \ {t} : played'[u] = played[u]
  <2>1. played' = With(played, t, value)
    BY Zenon DEF Send
  <2> HIDE DEF t
  <2> QED BY <2>1, Zenon DEF With
<1>2. ASSUME NEW i \in Instruments, Silence(i)
      PROVE  heard'[i] = heard[i] /\ missed'[i] = missed[i] \union {t}
  BY <1>2, Zenon DEF Send
<1>3. ASSUME NEW i \in Instruments, ~Silence(i)
      PROVE  /\ DOMAIN heard'[i] = DOMAIN heard[i] \union {t} /\ heard'[i][t] = says(i)
             /\ \A u \in DOMAIN heard[i] \ {t} : heard'[i][u] = heard[i][u]
             /\ missed'[i] = missed[i] \ {t}
  <2>1. heard'[i] = Told(heard[i], HeardBy(i, p)) /\ missed'[i] = missed[i] \ {t}
    BY <1>3, Zenon DEF Send
  <2>2. Topic(HeardBy(i, p).group, HeardBy(i, p).channel, What(HeardBy(i, p))) = t
    BY <1>3, Zenon DEF Carries
  <2>3. Told(heard[i], HeardBy(i, p)) = With(heard[i], t, says(i))
    BY <2>2, Zenon DEF Told, Understood
  <2>4. heard'[i] = With(heard[i], t, says(i))
    BY <2>1, <2>3, Zenon
  <2> HIDE DEF t, says, Silence
  <2> QED BY <2>1, <2>4, Zenon DEF With
<1>4. /\ value \in Readings(t)
      /\ \A i \in Instruments : ~Silence(i) => says(i) \in Readings(t)
      /\ IF Silence("midi2") THEN what[1] = "controller" ELSE says("midi2") = value
      /\ ~Silence("midi1") /\ ~Silence("midi2") => SameInMidi1(t, says("midi1"), says("midi2"))
      /\ ~Silence("midi1") /\ ~Silence("again") => says("midi1") = says("again")
  BY Zenon DEF Carries
<1>5. t.what = what
  BY SMT DEF Topic
<1>6. "midi1" \in Instruments /\ "midi2" \in Instruments /\ "again" \in Instruments
  BY DEF Instruments
<1> HIDE DEF t, Silence, says
<1>7. TypeOK'
  <2>1. ASSUME NEW u \in DOMAIN played' PROVE played'[u] \in Readings(u)
    BY <1>1, <1>4, Zenon DEF IInv, TypeOK
  <2>2. ASSUME NEW i \in Instruments
        PROVE  /\ \A u \in DOMAIN heard'[i] : heard'[i][u] \in Readings(u)
               /\ DOMAIN heard'[i] \union missed'[i] = DOMAIN played'
    <3>1. /\ \A u \in DOMAIN heard[i] : heard[i][u] \in Readings(u)
          /\ DOMAIN heard[i] \union missed[i] = DOMAIN played
      BY Zenon DEF IInv, TypeOK
    <3>2. CASE Silence(i)
      BY <1>1, <1>2, <3>1, <3>2, Zenon
    <3>3. CASE ~Silence(i)
      <4>1. ASSUME NEW u \in DOMAIN heard'[i] PROVE heard'[i][u] \in Readings(u)
        <5>1. CASE u = t
          BY <1>3, <1>4, <3>3, <5>1, Zenon
        <5>2. CASE u # t
          BY <1>3, <3>1, <3>3, <4>1, <5>2, Zenon
        <5> QED BY <5>1, <5>2
      <4>2. DOMAIN heard'[i] \union missed'[i] = DOMAIN played'
        BY <1>1, <1>3, <3>1, <3>3, Zenon
      <4> QED BY <4>1, <4>2
    <3> QED BY <3>2, <3>3
  <2> QED BY <2>1, <2>2, Zenon DEF TypeOK
<1>8. MissesReserved'
  <2>1. \A u \in missed.midi2 : u.what[1] = "controller"
    BY Zenon DEF IInv, MissesReserved
  <2>2. ASSUME NEW u \in missed'.midi2 PROVE u.what[1] = "controller"
    <3>1. CASE Silence("midi2")
      <4>1. u \in missed.midi2 \/ u = t
        BY <1>2, <1>6, <2>2, <3>1, Zenon
      <4>2. t.what[1] = "controller"
        BY <1>4, <1>5, <3>1, Zenon
      <4> QED BY <2>1, <4>1, <4>2, Zenon
    <3>2. CASE ~Silence("midi2")
      BY <1>3, <1>6, <2>1, <2>2, <3>2, Zenon
    <3> QED BY <3>1, <3>2
  <2> QED BY <2>2, Zenon DEF MissesReserved
<1>9. HeardAsPlayed'
  <2>1. ASSUME NEW u \in DOMAIN heard'.midi2 \ missed'.midi2
        PROVE  heard'.midi2[u] = played'[u]
    <3>1. \A w \in DOMAIN heard.midi2 \ missed.midi2 :
            w \in DOMAIN played /\ heard.midi2[w] = played[w]
      BY <1>6, Zenon DEF IInv, HeardAsPlayed, TypeOK
    <3>2. CASE Silence("midi2")
      <4>1. u \in DOMAIN heard.midi2 \ missed.midi2 /\ u # t /\ heard'.midi2 = heard.midi2
        BY <1>2, <1>6, <2>1, <3>2, Zenon
      <4> QED BY <1>1, <3>1, <4>1, Zenon
    <3>3. CASE ~Silence("midi2") /\ u = t
      BY <1>1, <1>3, <1>4, <1>6, <3>3, Zenon
    <3>4. CASE ~Silence("midi2") /\ u # t
      <4>1. u \in DOMAIN heard.midi2 \ missed.midi2 /\ heard'.midi2[u] = heard.midi2[u]
        BY <1>3, <1>6, <2>1, <3>4, ZenonT(40)
      <4> QED BY <1>1, <3>1, <3>4, <4>1, Zenon
    <3> QED BY <3>2, <3>3, <3>4
  <2> QED BY <2>1, Zenon DEF HeardAsPlayed
<1>10. ASSUME NEW i \in Instruments, NEW j \in Instruments, NEW u \in Heard(i, j)', u # t
       PROVE  u \in Heard(i, j) /\ heard'[i][u] = heard[i][u] /\ heard'[j][u] = heard[j][u]
  <2>1. ASSUME NEW k \in Instruments, u \in DOMAIN heard'[k], u \notin missed'[k]
        PROVE  u \in DOMAIN heard[k] /\ u \notin missed[k] /\ heard'[k][u] = heard[k][u]
    <3>1. CASE Silence(k)
      BY <1>2, <2>1, <3>1, Zenon
    <3>2. CASE ~Silence(k)
      BY <1>3, <1>10, <2>1, <3>2, ZenonT(40)
    <3> QED BY <3>1, <3>2
  <2> QED BY <2>1, Zenon DEF Heard
<1>11. ASSUME NEW i \in Instruments, NEW j \in Instruments, t \in Heard(i, j)'
       PROVE  /\ ~Silence(i) /\ ~Silence(j)
              /\ heard'[i][t] = says(i) /\ heard'[j][t] = says(j)
  <2>1. t \notin missed'[i] /\ t \notin missed'[j]
    BY <1>11, Zenon DEF Heard
  <2>2. ~Silence(i) /\ ~Silence(j)
    BY <1>2, <2>1, Zenon
  <2> QED BY <1>3, <2>2, Zenon
<1>12. TranslationAgrees'
  <2>1. ASSUME NEW u \in Heard("midi1", "midi2")'
        PROVE  SameInMidi1(u, heard'.midi1[u], heard'.midi2[u])
    <3>1. CASE u = t
      BY <1>4, <1>6, <1>11, <2>1, <3>1, Zenon
    <3>2. CASE u # t
      <4>1. /\ u \in Heard("midi1", "midi2") /\ heard'.midi1[u] = heard.midi1[u]
            /\ heard'.midi2[u] = heard.midi2[u]
        BY <1>6, <1>10, <3>2, Zenon
      <4> QED BY <4>1, Zenon DEF IInv, TranslationAgrees
    <3> QED BY <3>1, <3>2
  <2> QED BY <2>1, Zenon DEF TranslationAgrees
<1>13. LosesNothingUpwards'
  <2>1. ASSUME NEW u \in Heard("midi1", "again")'
        PROVE  heard'.midi1[u] = heard'.again[u]
    <3>1. CASE u = t
      BY <1>4, <1>6, <1>11, <2>1, <3>1, Zenon
    <3>2. CASE u # t
      <4>1. /\ u \in Heard("midi1", "again") /\ heard'.midi1[u] = heard.midi1[u]
            /\ heard'.again[u] = heard.again[u]
        BY <1>6, <1>10, <3>2, Zenon
      <4> QED BY <4>1, Zenon DEF IInv, LosesNothingUpwards
    <3> QED BY <3>1, <3>2
  <2> QED BY <2>1, Zenon DEF LosesNothingUpwards
<1> QED BY <1>7, <1>8, <1>9, <1>12, <1>13, Zenon DEF IInv

\* The packet of a relative controller
NudgePacket(kind, index, inc) ==
  LET status == [registered |-> Status.relative_registered_controller,
                 assignable |-> Status.relative_assignable_controller]
  IN  Midi2(Group, status[kind], Channel, 0, index, AsBits(inc))

\* Only the MIDI 2.0 instrument hears a relative controller: it moves from the
\* value it was told before, which is the one that was played.
LEMMA Nudging ==
  ASSUME IInv, NEW kind \in Kinds, NEW c \in Values7, NEW inc \in Signed32
  PROVE  LET what == <<kind, 0, c>>
             t    == Topic(Group, Channel, what)
             p    == NudgePacket(kind, c, inc)
         IN  /\ p # Untranslated
             /\ HeardBy("midi1", p) = Untranslated
             /\ HeardBy("midi2", p) = p
             /\ HeardBy("again", p) = Untranslated
             /\ Topic(p.group, p.channel, What(p)) = t
             /\ \A before : Value(p, before) = Raised(before, inc)
             /\ Of(heard.midi2, t) = Of(played, t)
             /\ Of(played, t) \in Values32
             /\ Readings(t) = Values32
<1> DEFINE what == <<kind, 0, c>>
           t == Topic(Group, Channel, what)
           p == NudgePacket(kind, c, inc)
           status == IF kind = "registered" THEN Status.relative_registered_controller
                                            ELSE Status.relative_assignable_controller
           name == IF kind = "registered" THEN "relative_registered_controller"
                                          ELSE "relative_assignable_controller"
<1>1. p = Midi2(Group, status, Channel, 0, c, AsBits(inc))
  <2>1. CASE kind = "registered"
    BY <2>1, SMT DEF NudgePacket
  <2>2. CASE kind = "assignable"
    BY <2>2, SMT DEF NudgePacket
  <2> QED BY <2>1, <2>2, Zenon DEF Kinds
<1>2. 0 \in Values7 /\ Least \in Values32
  BY Range7, Pairs32, SMT DEF Least
<1>3. name \in DOMAIN Status /\ status = Status[name]
  BY Distinct, Zenon
<1>4. what[1] = kind /\ t.what = what
  BY SMT DEF Topic
<1> HIDE DEF status
<1>5. Of2(p, status, 0, c, AsBits(inc))
  BY <1>1, <1>2, Made, Zenon
<1> HIDE DEF p, what
<1>6. p.type = "midi2" /\ p.group = Group /\ p.channel = Channel /\ p.status = status
  BY <1>5, Zenon DEF Of2
<1>7. p # Untranslated
  BY <1>6, SMT DEF Untranslated
<1>8. AsMidi1(p) = Untranslated
  BY <1>3, <1>6, OnlyUpstairs, ZenonT(40)
<1>9. HeardBy("midi1", p) = Untranslated /\ HeardBy("midi2", p) = p /\ HeardBy("again", p) = Untranslated
  BY <1>6, <1>8, Hearing, ZenonT(40)
<1>10. What(p) = what /\ \A before : Value(p, before) = Raised(before, inc)
  <2>1. What(p) = what /\ \A before : Value(p, before) = Raised(before, AsIncrement(AsBits(inc)))
    BY <1>5, Midi2Relative, ZenonT(40) DEF status, what
  <2> QED BY <2>1, Increment, Zenon
<1>11. Topic(p.group, p.channel, What(p)) = t
  BY <1>6, <1>10, Zenon
<1>12. Readings(t) = Values32
  BY <1>4, LevelReadings, ZenonT(40) DEF Kinds
<1> HIDE DEF t
<1>13. t \notin missed.midi2
  <2>1. kind # "controller"
    BY SMT DEF Kinds
  <2> QED BY <1>4, <2>1, Zenon DEF IInv, MissesReserved
<1>14. (t \in DOMAIN heard.midi2 <=> t \in DOMAIN played)
       /\ (t \in DOMAIN played => played[t] \in Values32 /\ heard.midi2[t] = played[t])
  <2>1. "midi2" \in Instruments
    BY DEF Instruments
  <2> QED BY <1>12, <1>13, <2>1, Zenon DEF IInv, TypeOK, HeardAsPlayed
<1>15. Of(heard.midi2, t) = Of(played, t) /\ Of(played, t) \in Values32
  BY <1>2, <1>14, Zenon DEF Of
<1> QED BY <1>7, <1>9, <1>10, <1>11, <1>12, <1>15, Zenon DEF t, p, what

\* A relative controller is heard as it was played.
LEMMA NudgeCarried ==
  ASSUME IInv, NEW kind \in Kinds, NEW c \in Values7, NEW inc \in Signed32
  PROVE  Carries(<<kind, 0, c>>, Raised(Of(played, Topic(Group, Channel, <<kind, 0, c>>)), inc),
                 NudgePacket(kind, c, inc))
<1> DEFINE what == <<kind, 0, c>>
           t == Topic(Group, Channel, what)
           p == NudgePacket(kind, c, inc)
           value == Raised(Of(played, t), inc)
<1>1. /\ p # Untranslated
      /\ HeardBy("midi1", p) = Untranslated
      /\ HeardBy("midi2", p) = p
      /\ HeardBy("again", p) = Untranslated
      /\ Topic(p.group, p.channel, What(p)) = t
      /\ \A before : Value(p, before) = Raised(before, inc)
      /\ Of(heard.midi2, t) = Of(played, t)
      /\ Of(played, t) \in Values32
      /\ Readings(t) = Values32
  BY Nudging
<1> HIDE DEF what, p
<1>2. value \in Readings(t)
  BY <1>1, Raises, Zenon
<1>3. Understood("midi2", p, what) = value
  BY <1>1, Zenon DEF Understood
<1>4. Carries(what, value, p)
  BY <1>1, <1>2, <1>3, Zenon DEF Carries, Instruments
<1> QED BY <1>4, Zenon DEF what, p

-----------------------------------------------------------------------------
(* The steps. *)

\* At first nothing was played and nothing heard.
LEMMA Starts == Init => IInv
<1> SUFFICES ASSUME Init PROVE IInv
  OBVIOUS
<1>1. DOMAIN played = {}
  BY SMT DEF Init
<1>2. ASSUME NEW i \in Instruments PROVE DOMAIN heard[i] = {} /\ missed[i] = {}
  BY <1>2, SMT DEF Init
<1>3. "midi1" \in Instruments /\ "midi2" \in Instruments /\ "again" \in Instruments
  BY DEF Instruments
<1> QED BY <1>1, <1>2, <1>3, Zenon DEF IInv, TypeOK, MissesReserved, HeardAsPlayed,
           TranslationAgrees, LosesNothingUpwards, Heard

\* A step that says nothing keeps what was heard.
LEMMA Quiet == IInv /\ UNCHANGED vars => IInv'
<1> SUFFICES ASSUME IInv, UNCHANGED vars PROVE IInv'
  OBVIOUS
<1>1. played' = played /\ heard' = heard /\ missed' = missed
  BY DEF vars
<1> QED BY <1>1, Zenon DEF IInv, TypeOK, MissesReserved, HeardAsPlayed, TranslationAgrees,
           LosesNothingUpwards, Heard

\* The player's notes
LEMMA NoteSteps ==
  ASSUME IInv, NEW n \in Notes, NEW v \in Velocities,
         StrikeNote(n, v) \/ (\E pitch \in Pitches : StrikeNoteAtPitch(n, v, pitch)) \/ ReleaseNote(n, v)
  PROVE  IInv'
<1>1. n \in Values7 /\ v \in Values16 /\ Pitches \subseteq Values16
  BY VoiceAssumption, Zenon DEF VoiceAssumption
<1>2. CASE StrikeNote(n, v)
  BY <1>1, <1>2, NotesCarried1, NotesCarried2, Sending, ZenonT(40) DEF StrikeNote
<1>3. ASSUME NEW pitch \in Pitches, StrikeNoteAtPitch(n, v, pitch) PROVE IInv'
  <2>1. [Sounding(n, v) EXCEPT !.pitch = pitch] = [on |-> TRUE, velocity |-> v, pitch |-> pitch]
    <3>1. \A a, b, c, d : [[on |-> a, velocity |-> b, pitch |-> c] EXCEPT !.pitch = d]
                              = [on |-> a, velocity |-> b, pitch |-> d]
      BY SMT
    <3> QED BY <3>1, ZenonT(40) DEF Sounding
  <2>2. Send(<<"note", n>>, [on |-> TRUE, velocity |-> v, pitch |-> pitch],
             Midi2Note(Group, Status.note_on, Channel, n, v, Pitch79, pitch))
    BY <1>3, <2>1, Zenon DEF StrikeNoteAtPitch
  <2> QED BY <1>1, <2>2, NotesCarried2, Sending, ZenonT(40)
<1>4. CASE ReleaseNote(n, v)
  BY <1>1, <1>4, NotesCarried1, NotesCarried2, Sending, ZenonT(40) DEF ReleaseNote
<1> QED BY <1>2, <1>3, <1>4

\* The levels of controllers, pressure and pitch bend, of the channel and of notes
LEMMA LevelSteps ==
  ASSUME IInv, NEW v \in Levels
  PROVE  /\ \A n \in Notes : PressNote(n, v) \/ BendNote(n, v) => IInv'
         /\ \A kind \in Kinds, n \in Notes, c \in Controllers : SetOfNote(kind, n, c, v) => IInv'
         /\ \A c \in Controllers : TurnController(c, v) => IInv'
         /\ \A kind \in Kinds, c \in Controllers \ {0} : SetController(kind, c, v) => IInv'
         /\ PressChannel(v) \/ Bend(v) \/ SetBendRange(v) => IInv'
<1>1. v \in Values32 /\ Notes \subseteq Values7 /\ Controllers \subseteq Values7 /\ 0 \in Values7
  BY VoiceAssumption, Range7, SMT DEF VoiceAssumption
<1>2. ASSUME NEW n \in Notes, PressNote(n, v) PROVE IInv'
  BY <1>1, <1>2, LevelsCarried, Sending, ZenonT(40) DEF PressNote, Turn
<1>3. ASSUME NEW n \in Notes, BendNote(n, v) PROVE IInv'
  BY <1>1, <1>3, OnlyCarried, Sending, ZenonT(40) DEF BendNote
<1>4. ASSUME NEW kind \in Kinds, NEW n \in Notes, NEW c \in Controllers, SetOfNote(kind, n, c, v)
      PROVE  IInv'
  <2> DEFINE status == [registered |-> Status.registered_per_note_controller,
                        assignable |-> Status.assignable_per_note_controller]
  <2>3. Send(<<kind, n, c, "of note">>, v, Midi2(Group, status[kind], Channel, n, c, v))
    BY <1>4, Zenon DEF SetOfNote
  <2>4. /\ status["registered"] = Status.registered_per_note_controller
        /\ status["assignable"] = Status.assignable_per_note_controller
    BY Zenon
  <2> HIDE DEF status
  <2>1. CASE kind = "registered"
    <3>1. Send(<<"registered", n, c, "of note">>, v,
               Midi2(Group, Status.registered_per_note_controller, Channel, n, c, v))
      BY <2>1, <2>3, <2>4, Zenon
    <3> QED BY <1>1, <3>1, OnlyCarried, Sending, ZenonT(40)
  <2>2. CASE kind = "assignable"
    <3>1. Send(<<"assignable", n, c, "of note">>, v,
               Midi2(Group, Status.assignable_per_note_controller, Channel, n, c, v))
      BY <2>2, <2>3, <2>4, Zenon
    <3> QED BY <1>1, <3>1, OnlyCarried, Sending, ZenonT(40)
  <2> QED BY <2>1, <2>2, Zenon DEF Kinds
<1>5. ASSUME NEW c \in Controllers, TurnController(c, v) PROVE IInv'
  BY <1>1, <1>5, LevelsCarried, Sending, ZenonT(40) DEF TurnController, Turn
<1>6. ASSUME NEW kind \in Kinds, NEW c \in Controllers \ {0}, SetController(kind, c, v) PROVE IInv'
  <2>1. CASE kind = "registered"
    <3>1. Send(<<"registered", 0, c>>, v,
               Midi2(Group, Status.registered_controller, Channel, 0, c, v))
      BY <1>6, <2>1, SMT DEF SetController
    <3> QED BY <1>1, <3>1, OnlyCarried, Sending, ZenonT(40)
  <2>2. CASE kind = "assignable"
    <3>1. Send(<<"assignable", 0, c>>, v,
               Midi2(Group, Status.assignable_controller, Channel, 0, c, v))
      BY <1>6, <2>2, SMT DEF SetController
    <3> QED BY <1>1, <3>1, OnlyCarried, Sending, ZenonT(40)
  <2> QED BY <2>1, <2>2, Zenon DEF Kinds
<1>7. CASE PressChannel(v)
  BY <1>1, <1>7, PressureCarried, Sending, ZenonT(40) DEF PressChannel
<1>8. CASE Bend(v)
  BY <1>1, <1>8, BendCarried, Sending, ZenonT(40) DEF Bend
<1>9. CASE SetBendRange(v)
  BY <1>1, <1>9, OnlyCarried, Sending, ZenonT(40) DEF SetBendRange
<1> QED BY <1>2, <1>3, <1>4, <1>5, <1>6, <1>7, <1>8, <1>9, Zenon

\* Relative controllers
LEMMA NudgeStep ==
  ASSUME IInv, NEW kind \in Kinds, NEW c \in Controllers \ {0}, NEW inc \in Increments,
         Nudge(kind, c, inc)
  PROVE  IInv'
<1>1. c \in Values7 /\ inc \in Signed32
  BY VoiceAssumption, Zenon DEF VoiceAssumption
<1>2. Send(<<kind, 0, c>>, Raised(Of(played, Topic(Group, Channel, <<kind, 0, c>>)), inc),
           NudgePacket(kind, c, inc))
  BY Zenon DEF Nudge, NudgePacket
<1> QED BY <1>1, <1>2, NudgeCarried, Sending, ZenonT(40)

\* Every step keeps the invariant.
LEMMA Steps == IInv /\ [Next]_vars => IInv'
<1> SUFFICES ASSUME IInv, [Next]_vars PROVE IInv'
  OBVIOUS
<1>1. ASSUME NEW n \in Notes, NEW v \in Velocities,
             StrikeNote(n, v) \/ (\E pitch \in Pitches : StrikeNoteAtPitch(n, v, pitch))
                              \/ ReleaseNote(n, v)
      PROVE  IInv'
  BY <1>1, NoteSteps
<1>2. ASSUME NEW n \in Programs, SelectProgram(n) PROVE IInv'
  <2>1. n \in Values7
    BY VoiceAssumption, Zenon DEF VoiceAssumption
  <2> QED BY <1>2, <2>1, ProgramCarried, Sending, ZenonT(40) DEF SelectProgram
<1>3. ASSUME NEW kind \in Kinds, NEW c \in Controllers \ {0}, NEW inc \in Increments,
             Nudge(kind, c, inc)
      PROVE  IInv'
  BY <1>3, NudgeStep
<1> QED BY <1>1, <1>2, <1>3, LevelSteps, Quiet, Zenon DEF Next

\* The invariant holds in every behavior.
THEOREM Invariant == Spec => []IInv
BY Starts, Steps, PTL DEF Spec

\* What is heard has the width of its type, and is about what was played.
THEOREM TypeCorrect == Spec => []TypeOK
<1>1. IInv => TypeOK
  BY DEF IInv
<1> QED BY <1>1, Invariant, PTL

\* Whatever is played, the MIDI 2.0 instrument hears it exactly: no factory,
\* translation or accessor loses a bit of it.
THEOREM PlayedIsHeard == Spec => []HeardAsPlayed
<1>1. IInv => HeardAsPlayed
  BY DEF IInv
<1> QED BY <1>1, Invariant, PTL

\* The instruments of both protocols agree on what 7 bits (14 for pitch bend) tell.
THEOREM InstrumentsAgree == Spec => []TranslationAgrees
<1>1. IInv => TranslationAgrees
  BY DEF IInv
<1> QED BY <1>1, Invariant, PTL

\* The translation from MIDI 1.0 to MIDI 2.0 loses nothing.
THEOREM UpwardsIsLossless == Spec => []LosesNothingUpwards
<1>1. IInv => LosesNothingUpwards
  BY DEF IInv
<1> QED BY <1>1, Invariant, PTL

\* A relative controller never wraps around: whatever its value and the
\* increment, it moves where it was sent or stays at the end of its range.
THEOREM StaysInRange == Spec => NeverWraps
<1>1. ASSUME IInv, NEW kind \in Kinds, NEW c \in Controllers \ {0}, NEW inc \in Increments,
             Nudge(kind, c, inc)
      PROVE  LET t      == Topic(Group, Channel, <<kind, 0, c>>)
                 before == Of(heard.midi2, t)
             IN  IF inc[1] >= 0 THEN AtMost(before, heard'.midi2[t])
                                ELSE AtMost(heard'.midi2[t], before)
  <2> DEFINE what == <<kind, 0, c>>
             t == Topic(Group, Channel, what)
             p == NudgePacket(kind, c, inc)
             before == Of(heard.midi2, t)
  <2>1. c \in Values7 /\ inc \in Signed32
    BY VoiceAssumption, Zenon DEF VoiceAssumption
  <2>2. /\ p # Untranslated /\ HeardBy("midi2", p) = p
        /\ Topic(p.group, p.channel, What(p)) = t
        /\ \A b : Value(p, b) = Raised(b, inc)
        /\ before \in Values32
    <3>1. /\ p # Untranslated
          /\ HeardBy("midi1", p) = Untranslated
          /\ HeardBy("midi2", p) = p
          /\ HeardBy("again", p) = Untranslated
          /\ Topic(p.group, p.channel, What(p)) = t
          /\ \A b : Value(p, b) = Raised(b, inc)
          /\ before = Of(played, t)
          /\ Of(played, t) \in Values32
          /\ Readings(t) = Values32
      BY <1>1, <2>1, Nudging
    <3> HIDE DEF p, t, before
    <3> QED BY <3>1, Zenon
  <2>3. heard' = [i \in Instruments |->
                    IF HeardBy(i, p) = Untranslated THEN heard[i] ELSE Told(heard[i], HeardBy(i, p))]
    BY <1>1, Zenon DEF Nudge, NudgePacket, Send
  <2> HIDE DEF p
  <2>4. "midi2" \in Instruments
    BY DEF Instruments
  <2>5. heard'.midi2 = Told(heard.midi2, p)
    BY <2>2, <2>3, <2>4, Zenon
  <2> HIDE DEF t
  <2>6. heard'.midi2 = With(heard.midi2, t, Raised(before, inc))
    BY <2>2, <2>5, Zenon DEF Told
  <2> HIDE DEF before
  <2>7. heard'.midi2[t] = Raised(before, inc)
    BY <2>6, Zenon DEF With
  <2>8. inc[1] < 0 \/ inc[1] >= 0
    BY <2>1, PairsSigned, SMT
  <2>9. IF inc[1] >= 0 THEN AtMost(before, heard'.midi2[t]) ELSE AtMost(heard'.midi2[t], before)
    <3>1. (inc[1] >= 0 => AtMost(before, Raised(before, inc)))
          /\ (inc[1] < 0 => AtMost(Raised(before, inc), before))
      BY <2>1, <2>2, Raises
    <3> QED BY <2>7, <2>8, <3>1, Zenon
  <2> QED BY <2>9, Zenon DEF before, t
<1>2. IInv /\ [Next]_vars => 
        [\A kind \in Kinds, c \in Controllers \ {0}, inc \in Increments :
           Nudge(kind, c, inc) =>
             LET t      == Topic(Group, Channel, <<kind, 0, c>>)
                 before == Of(heard.midi2, t)
             IN  IF inc[1] >= 0 THEN AtMost(before, heard'.midi2[t])
                                ELSE AtMost(heard'.midi2[t], before)]_vars
  BY <1>1, Zenon
<1> QED BY <1>2, Invariant, PTL DEF Spec, NeverWraps

=============================================================================
