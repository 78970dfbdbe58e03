--------------------------- MODULE UniversalSysex ---------------------------
(***************************************************************************)
(* System Exclusive messages as data: numbers of several 7 bit bytes in    *)
(* them, and the universal messages that every device understands.         *)
(*                                                                         *)
(* A message is a manufacturer ID, a triple of bytes as manufacturer_t has *)
(* them, and data.  Offsets count from 0, as in the code.  The radix of    *)
(* numbers, 128 in the code, is a parameter: the interesting sizes are at  *)
(* its square, which a small one brings within reach.                      *)
(***************************************************************************)
EXTENDS Naturals, Sequences

CONSTANTS
  Radix,  \* values of a data byte
  Word    \* values of a uint14_t, which has 16 bits: 4 * Radix^2 in the code

ASSUME RadixAssumption ==
  /\ Radix \in Nat \ {0, 1}
  /\ Word \in Nat \ {0}

NonRealtime == <<126, 0, 0>>
Realtime == <<127, 0, 0>>

\* The default device ID: the message is for everyone.
AllDevices == 127

At(sx, k) == sx.data[k + 1]
Size(sx) == Len(sx.data)

\* sysex7::add_data and the vector's insert at the end
Added(sx, bytes) == [sx EXCEPT !.data = @ \o bytes]

\* sysex7::add_uint7, add_uint14, add_uint28: lowest digit first
Uint7(n) == <<n % Radix>>

\* Faulty variant: digits are not cut to 7 bits.
Uint14Unmasked(n) == <<n, n \div Radix>>

Uint14(n) == <<n % Radix, (n \div Radix) % Radix>>
Uint28(n) == Uint14(n) \o Uint14(n \div (Radix * Radix))

MakeUint14(sx, k) == At(sx, k) + Radix * At(sx, k + 1)
MakeUint28(sx, k) == MakeUint14(sx, k) + Radix * Radix * MakeUint14(sx, k + 2)

\* sysex7::add_device_identity, make_device_identity
DeviceIdentity(i) ==
  i.manufacturer \o Uint14(i.family) \o Uint14(i.model) \o Uint28(i.revision)

MakeDeviceIdentity(sx, k) ==
  [manufacturer |-> SubSeq(sx.data, k + 1, k + 3),
   family       |-> MakeUint14(sx, k + 3),
   model        |-> MakeUint14(sx, k + 5),
   revision     |-> MakeUint28(sx, k + 7)]

-----------------------------------------------------------------------------
(* Universal messages. *)

IsUniversal(sx) == sx.manufacturer \in {Realtime, NonRealtime} /\ Size(sx) >= 2

\* The type is a manufacturer ID and the byte after the device ID.
GeneralInformation == <<NonRealtime, 6>>
CapabilityInquiryType == <<NonRealtime, 13>>
NoType == <<>>

TypeOf(sx) == IF IsUniversal(sx) THEN <<sx.manufacturer, At(sx, 1)>> ELSE NoType
SubtypeOf(sx) == IF IsUniversal(sx) /\ Size(sx) > 2 THEN At(sx, 2) ELSE 0

\* universal_sysex::message::set_device_id
WithDeviceId(sx, d) == [sx EXCEPT !.data[1] = d]

IdentityRequest(device) == [manufacturer |-> NonRealtime, data |-> <<device, 6, 1>>]

IsIdentityRequest(sx) == TypeOf(sx) = GeneralInformation /\ SubtypeOf(sx) = 1

\* A manufacturer ID of one byte goes out as one byte, the others as three.
IdentityReply(i, device) ==
  [manufacturer |-> NonRealtime,
   data |-> <<device, 6, 2>>
            \o (IF i.manufacturer[1] = 0 THEN i.manufacturer ELSE <<i.manufacturer[1]>>)
            \o Uint14(i.family) \o Uint14(i.model) \o Uint28(i.revision)]

\* Faulty variant: the size is tested, the kind of ID is not.
AnyIdentityReply(sx) ==
  /\ TypeOf(sx) = GeneralInformation
  /\ SubtypeOf(sx) = 2
  /\ Size(sx) >= 12

\* identity_reply_view::validate, is_identity_reply
IsIdentityReply(sx) ==
  /\ TypeOf(sx) = GeneralInformation
  /\ SubtypeOf(sx) = 2
  /\ (Size(sx) = 12 /\ At(sx, 3) # 0) \/ Size(sx) = 14

Identity(sx) ==
  LET short  == At(sx, 3) # 0
      offset == IF short THEN 4 ELSE 6
  IN  [manufacturer |-> IF short THEN <<At(sx, 3), 0, 0>> ELSE <<0, At(sx, 4), At(sx, 5)>>,
       family       |-> MakeUint14(sx, offset),
       model        |-> MakeUint14(sx, offset + 2),
       revision     |-> MakeUint28(sx, offset + 4)]

=============================================================================
