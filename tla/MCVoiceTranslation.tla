------------------------- MODULE MCVoiceTranslation -------------------------
(* VoiceTranslation with values around the steps of its scales.            *)
EXTENDS VoiceTranslation

MCVelocities == {0, 511, 512, 32768, 65535}
MCLevels == {Least, <<0, 262144>>, <<63, Fraction - 1>>, Center, <<64, 262145>>, Greatest}
\* 31.5 and -31.5 of 128, and twice down
MCIncrements == {<<31, Fraction \div 2>>, <<-32, Fraction \div 2>>, <<-63, 0>>}

\* The scaling from 7 to 16 bits is upsample_x_to_ybit for these widths.
ASSUME ScalingAssumption ==
  \A v \in 0..127 : Upsample7To16(v) = UpsampleXToY(v, 7, 16)

=============================================================================
