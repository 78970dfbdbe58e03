---------------------------- MODULE SysexChannel ----------------------------
(***************************************************************************)
(* What a sender and a collector of System Exclusive messages promise to   *)
(* the application at either end: messages arrive as they were sent, each  *)
(* once, in order.  A fault on the way hurts the message it happens to,    *)
(* which may then arrive as anything or not at all, and no other one.  No  *)
(* packets, no buffer, no states in between.                               *)
(***************************************************************************)
EXTENDS Naturals, Sequences, SequencesExt

CONSTANT Messages

VARIABLES
  pending,    \* messages sent that have not left the channel
  hurt,       \* a fault happened to the first of them
  faults,     \* faults so far
  delivered   \* messages delivered, oldest first

vars == <<pending, hurt, faults, delivered>>

Init == pending = <<>> /\ hurt = FALSE /\ faults = 0 /\ delivered = <<>>

Send(m) ==
  /\ pending' = Append(pending, m)
  /\ UNCHANGED <<hurt, faults, delivered>>

Deliver ==
  /\ pending # <<>> /\ ~hurt
  /\ delivered' = Append(delivered, Head(pending))
  /\ pending' = Tail(pending)
  /\ UNCHANGED <<hurt, faults>>

\* The hurt message leaves, or the rest of it.
Discard ==
  /\ hurt
  /\ pending' = Tail(pending)
  /\ hurt' = FALSE
  /\ UNCHANGED <<faults, delivered>>

\* A fault happens to the first message, or one shows: something is delivered or
\* not, and the message stays or leaves.
Suffer ==
  /\ pending # <<>>
  /\ faults' = faults + 1 \/ (hurt /\ faults' = faults)
  /\ \/ pending' = pending /\ hurt' = TRUE
     \/ pending' = Tail(pending) /\ hurt' = FALSE
  /\ IsPrefix(delivered, delivered') /\ Len(delivered') <= Len(delivered) + 1

Next == (\E m \in Messages : Send(m)) \/ Deliver \/ Discard \/ Suffer

Spec == Init /\ [][Next]_vars

\* Every message leaves the channel, delivered if no fault happens to it.
FairSpec == Spec /\ WF_vars(Deliver) /\ WF_vars(Discard)

=============================================================================
