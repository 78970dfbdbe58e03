-------------------------- MODULE MCSysexMessages --------------------------
(* Small instances of SysexMessages.  Numbers have four digits of which    *)
(* none repeats, so that digits out of order show; data have 15 bytes at   *)
(* most where the radix is 4: the largest size two digits can tell.        *)
EXTENDS SysexMessages

MCMuids == {27, 228}

MCIdentities ==
  {[manufacturer |-> <<65, 0, 0>>, family |-> 6, model |-> 11, revision |-> 27],
   [manufacturer |-> <<0, 33, 9>>, family |-> 1, model |-> 4, revision |-> 228]}

Filled(n) == [i \in 1..n |-> i % 3]
MCBlobs == {Filled(0), Filled(1), Filled(15)}

MCProfileIds == {<<126, 1, 2, 3, 0>>}
MCDetails == {<<1, 0, 2, 0, 3>>}

ASSUME MCAssumption == FieldsFit
=============================================================================
