------------------------------- MODULE Values -------------------------------
(***************************************************************************)
(* Values of MIDI 1.0 and MIDI 2.0 messages and their scaling, with the    *)
(* widths they have in the code.                                           *)
(*                                                                         *)
(* Numbers of 7, 14 and 16 bits are numbers.  One of 32 bits is a pair:    *)
(* its top 7 bits and the other 25, the two parts of a pitch_7_25.  The    *)
(* first part of a signed one may be negative.                             *)
(***************************************************************************)
EXTENDS Integers

Fraction == 33554432  \* 2^25
Most14   == 16383
Most16   == 65535

Values7  == 0..127
Values14 == 0..Most14
Values16 == 0..Most16
Values32 == Values7 \X (0..Fraction - 1)
Signed32 == (-64..63) \X (0..Fraction - 1)

Least    == <<0, 0>>
Center   == <<64, 0>>
Greatest == <<127, Fraction - 1>>

\* downsample_16_to_7bit, downsample_32_to_7bit, downsample_32_to_14bit
Downsample16To7(v)  == v \div 512
Downsample32To7(v)  == v[1]
Downsample32To14(v) == 128 * v[1] + v[2] \div 262144

\* upsample_7_to_16bit, upsample_7_to_32bit, upsample_14_to_32bit: above the
\* center the bits below the highest one are repeated.
Upsample7To16(v) ==
  LET bits == v % 64
  IN  512 * v + (IF v > 64 THEN 8 * bits + (bits \div 8) ELSE 0)

Upsample7To32(v) ==
  LET bits == 64 * (v % 64) + (v % 64)
  IN  <<v, IF v > 64 THEN 8192 * bits + 2 * bits + (bits \div 2048) ELSE 0>>

Upsample14To32(v) ==
  LET bits == v % 8192
  IN  <<v \div 128,
        262144 * (v % 128) + (IF v > 8192 THEN 32 * bits + (bits \div 256) ELSE 0)>>

\* What the loop of upsample_x_to_ybit adds up: r, r >> n, r >> 2n, ...
Repeated(r, n) == LET f[k \in Nat] == IF k = 0 THEN 0 ELSE k + f[k \div 2^n] IN f[r]

\* upsample_x_to_ybit, for y below 31
UpsampleXToY(v, x, y) ==
  LET scaleBits  == y - x
      repeatBits == x - 1
      bits       == v % 2^repeatBits
  IN  v * 2^scaleBits +
      (IF v <= 2^repeatBits THEN 0
       ELSE Repeated(IF scaleBits > repeatBits THEN bits * 2^(scaleBits - repeatBits)
                                               ELSE bits \div 2^(repeatBits - scaleBits),
                     repeatBits))

-----------------------------------------------------------------------------
(* Order and arithmetic of 32 bit values. *)

Below(a, b) == a[1] < b[1] \/ (a[1] = b[1] /\ a[2] < b[2])
AtMost(a, b) == a = b \/ Below(a, b)

Sum(a, b) ==
  <<a[1] + b[1] + ((a[2] + b[2]) \div Fraction), (a[2] + b[2]) % Fraction>>

Clamped(v, low, high) == IF Below(v, low) THEN low ELSE IF Below(high, v) THEN high ELSE v

\* Faulty variant: the sum as 32 bits hold it.
RaisedModulo(v, inc) == <<Sum(v, inc)[1] % 128, Sum(v, inc)[2]>>

\* Faulty variant: nothing keeps the sum in its range.
RaisedUnchecked(v, inc) == Sum(v, inc)

\* controller_value::operator+, pitch_7_25::operator+: an increment is signed.
Raised(v, inc) == Clamped(Sum(v, inc), Least, Greatest)

\* The top 14 bits of 32
Top14(v) == <<v[1], v[2] - (v[2] % 262144)>>

\* uint32_t(inc.value), as relative controllers send it, and back
AsBits(inc)     == <<inc[1] % 128, inc[2]>>
AsIncrement(v)  == <<IF v[1] >= 64 THEN v[1] - 128 ELSE v[1], v[2]>>

\* 16 bits each: the velocity of a note and its attribute in 32 bits
TwoHalves(high, low) == <<high \div 512, 65536 * (high % 512) + low>>
HighHalf(v) == 512 * v[1] + (v[2] \div 65536)
LowHalf(v)  == v[2] % 65536

=============================================================================
