# A verification project for ni-midi2

TLA+ models of ni-midi2, the configurations that check them with TLC, and
proofs checked by TLAPS.  ni-midi2 is a C++ library for MIDI 2.0: it builds and
reads universal MIDI packets (UMP), cuts and reassembles System Exclusive
messages, converts MIDI 1.0 byte streams, speaks MIDI-CI and reduces the jitter
of timestamps.

## The system

Much of the library is values without behaviour: a packet is four 32 bit words,
and views and factories read and write its fields.  What is hard is where a
message becomes many packets or bytes, where parts of a message have sizes of
their own, where two protocols meet, and where a class keeps state.

| part | state | operations | properties that make it correct |
|---|---|---|---|
| `sysex7_collector` | message so far, bytes of manufacturer ID read, state, limit, buffer capacity, callback | `feed`, `reset`, `set_max_sysex_data_size`, `set_callback` | exactly the messages on the wire are delivered, each once; nothing survives a lost packet or a rejected message; the limit bounds what is accepted and no more |
| `sysex8_collector` | the same and the stream followed | the same | the same per stream; streams are never mixed |
| `send_sysex7`, `send_sysex8` | none | one call sends all packets | collected again the packets give the message |
| `midi1_byte_stream_parser` | packet being filled, position, bytes missing, SysEx being collected, group, callbacks on or off | `feed`, `reset`, `set_group`, `enable_callbacks` | each byte makes the callback the byte stream calls for, under running status, realtime bytes, cut messages, mode switches; no write outside of a packet |
| `to_midi1_byte_stream`, `from_midi1_byte_stream` | none | conversions | packets turned into bytes parse to what they were |
| `jr_clock_follower` | last clock timestamp, its reference time, time of the last message, jitter, security offset | `process_clock`, `schedule_message`, `set_security_offset`, `reset` | what it keeps measures the transport; messages are scheduled in time, promptly, in order |
| values (`types.h`) | none | up- and downscaling, sums | the resolution of the narrower type survives; sums stay in range |
| channel voice messages | none | factories, accessors for both protocols, translation | a receiver of either protocol hears what was played |
| universal SysEx, MIDI-CI | none | factories, changes of the header, NAKs, views | a view reads what a factory was given; a view that validates stays within the data |
| stream messages | none in the library; texts at the application | factories, views, senders of names and IDs | texts arrive whole; both ends agree |
| flex data, system, utility messages | none | field access, bytes of system messages | fields do not overlap |
| `universal_packet`, manufacturers | none | field access, constants | - |

How they interact: an application sends a message with `send_sysex7` or
`send_sysex8`, which hands packet after packet to a sender callback.  The
packets travel over a transport that is not part of the library; at the other
end the application feeds them to a collector, which hands messages to its
callback.  The messages are, among others, those of MIDI-CI, which the
application reads through views once `validate()` accepts them.  Packets may
also become bytes, on the way to an old device; the byte stream parser makes
packets, or SysEx messages, of bytes and hands them to callbacks before `feed`
returns.  Channel voice messages are translated when sender and receiver speak
different protocols.  A host asks an endpoint who it is by stream messages.  The
follower is called for every clock message and every stamped message.

What is hard here.  There are no threads and no waiting: all classes are single
threaded and purely reactive.  The difficulty is in the order of calls and in
numbers: packets that are lost, repeated, interleaved or cut at any byte; limits
and modes that change in the middle of a message; callbacks that call back; a
buffer at its limit; counters that wrap; sizes that just fill a packet; sizes in
a message that came cut; values at the end of a range.  The list is in
`PROJECT.json`, "hazards".

## Modules

| module | models |
|---|---|
| `Sysex7Collector` | `class sysex7_collector` |
| `Sysex8Collector` | `class sysex8_collector` |
| `SysexSender` | `send_sysex7`, `send_sysex8`, `sysex::total_data_size`: pure operators |
| `SysexChannel` | abstract: a channel of whole messages, with faults |
| `Sysex7Link` | sender, link and `Sysex7Collector`; implements `SysexChannel` |
| `Sysex8Link` | senders of several streams and one `Sysex8Collector`, which it extends |
| `ByteStreamParser` | `class midi1_byte_stream_parser` |
| `ByteStreamConversion` | packets to bytes and back, composed with the parser |
| `JrClockFollower` | `class jr_clock_follower`, the timestamps, sender and transport |
| `Values` | scaling and sums of values: pure operators |
| `ChannelVoice` | factories, accessors and translators of channel voice messages: pure operators |
| `VoiceTranslation` | a player and instruments of both protocols |
| `UniversalSysex`, `CapabilityInquiry` | factories and views of universal and MIDI-CI messages: pure operators |
| `SysexMessages` | a message is made, changed, answered, cut or damaged, and read |
| `StreamMessages` | factories, views and senders of texts: pure operators |
| `EndpointDiscovery` | host, endpoint and a link that loses replies |
| `*_proofs` | theorems about the module of that name; `Sysex8_proofs`: about `Sysex8Collector` and `Sysex8Link` |
| `MC*` | values of constants for TLC |

Operators named "Faulty variant" are no part of a specification: each is a
plausible mistake in the operator below it, and `PROJECT.json` says which
property notices it.

### The collectors

State variables are the fields of the class.  `feed` is four actions
(`Sysex8Collector`: five) which are its ways out: `IgnoreOrphan` (a continuation
of nothing: `reset()` and return), `IgnoreForeign` (another stream), `Reject`
(the data exceeds the limit), `Store` and `Deliver`.  `Accepted` is the `switch`
at its beginning, including the `reset()` a start makes in the middle of a
message; `Grown` is the growth of the vector and `Fits` the test of the limit.
Each packet's bytes go where the byte loop puts them; the loop's effect is one
operator, `Collect`.  `shrink_to_fit` may shrink or not, so `Cleared` is a set.

`wire` is a history variable, what an observer of packets knows: the bytes since
the last start and whether a message is open.  It is computed from packets alone
(`WireAfter`); only that a packet was rejected is taken from the collector, and
`NoEarlyReject` says when that may happen: the limit is on the data of a message,
so its measure is the data that the wire's bytes decode to, without the
manufacturer ID.  The code measures a packet that brings ID bytes with them, which
a limit below the size of a packet makes show (see Findings): the property exempts
a packet that alone is larger than the limit, and the limit 1 of the runs makes the
case occur.  Packets are abstracted to status, stream and payload; packets that are
no sysex packets return at once and are left out.  Memory is unbounded but for the
limit.

`ExactDelivery` exempts a message that directly follows a rejected one: there the
code delivers stale bytes (see Findings).  `GrowthWithinLimit` bounds the growth
of the buffer: one that grew before the limit was set takes longer messages.

### The links

A `send_` call puts all packets of a message on the link in one step, as the
code does.  `SysexSender` keeps the loop over the data bytes (`Filling`), because
the sizes matter: whether a packet is the last one is decided before it is
filled.  `Sysex7Link` may lose packets, or deliver one repeatedly; faults are
external to the library.  `ImplementsChannel` is the refinement: the messages
not yet received completely are `pending`, so a message whose last packet
arrives without a delivery is no step of the channel, and a fault may hurt the
message it happens to and no other.  In `Sysex8Link` packets of one stream stay
in order and streams interleave freely.  The collector follows one stream; a
start on another stream takes it over, so a message that another one broke into
is lost by design.  `cut` records those.

A message that was given no manufacturer ID has ID 0, and `total_data_size` does
not count it.  The sysex8 sender and collector carry it as an ID of two zero bytes,
so `Sysex8Link` includes it.  `send_sysex7` writes one zero byte, which a reader
takes for the first of three: `SysexSender` has it, and the messages of `Sysex7Link`
leave it out.

### The byte stream

`st` holds the packet, position, countdown and SysEx.  `feed` is one action per
handler it calls.  A callback is a point where code outside runs: `Post` makes it
with the state the parser has at that point, lets the callback call `reset()` or
do nothing, and goes on with what `feed` does afterwards.  `PacketEnd` is the
size of a sysex7 packet (8); the checks use a smaller one so that long SysEx are
few bytes.  `heard` keeps the last status byte and the data bytes since, which is
all a reference needs: `Expected` says what callback a byte calls for, without
packet, position or countdown.  IDs and lengths are abstracted to sequences.

`ByteStreamConversion` puts a converter in front of the parser.  A packet's bytes
reach the parser one by one; realtime bytes of another device may come between
any two, other bytes between packets.  `Echo` is what the parser must then make
of them: the packet itself for messages and short complete SysEx; of longer
SysEx, which the parser cuts into packets of its own, the data.

### The follower

Sender and transport are modelled as far as the follower depends on them: the
sender's counter moves on by any gap, each message takes a delay of its own and
messages arrive in order.  Both clocks run at the same rate; drift is not
modelled.  `seen` records tick and delays of the clock messages, which is what
the follower can only estimate.  After a gap of a whole cycle of timestamps
between two clock messages nothing is promised (phase "lost").

### Channel voice messages

TLC has 32 bit integers, so `Values` writes 32 bit values as pairs of 7 and 25
bits, the layout of `pitch_7_25`; everything is at its real width.  In
`VoiceTranslation` a player uses all factories of both protocols, instruments
read with the accessors that take either protocol, directly or after translation
down, up, or down and up again.  `played` is what the player meant, per topic (a
note, a controller, ...); the properties compare it to what was heard at the
resolution of the protocols between.  `missed` records messages a translator has
no answer for: a note off with an attribute is one.

### Universal SysEx and MIDI-CI

Each message type has its factory, its `validate()` and what its accessors read,
`End` being the last byte they touch.  `SysexMessages` makes any message, sets
MUIDs and device ID, answers with a NAK, cuts it at any byte or alters any byte;
`made` remembers the arguments.  `ReadBack` demands the arguments back and that
no other view takes the message; `ViewsStayInside` and `CutIsNoticed` are about
messages from a link that loses packets.  `Radix` is 128 in the code and 4 in the
run, so that sizes reach the largest number of two digits, 15, where the code's
reach 16383.

`validate()` reads the data as well.  The two views of discovery read the version
to compute the size they ask for, before they know that there is a version:
`VersionsRead` is what they may find, any byte where the message ends before it.
`ValidateEnd` is the last byte that a `validate()` may touch, as the order of its
guards allows; of the others none reads what it has not made sure of.
`ViewsStayInside` checks it together with the accessors: it says for which views and
messages `validate()` reads behind the data, and that it does so for no other.

### Stream messages

The library has factories, views and senders of texts; host and endpoint are as
`docs/stream_message.examples.cpp` shows them.  The library has no reader for texts
in several packets: the host of the model appends packets by their format, as the
format is there for.  `hurt` are facts that lost a packet and were not told whole
since: a text that lost a packet from its middle looks like a shorter one.

## Runs

`pass` runs check all their properties; `violation` runs show that a statement
of the documentation or a comment does not hold of the code.

| run | shows | bounds |
|---|---|---|
| `collector7` | types, exact delivery once, limits, growth | packets of up to 2 bytes out of 2 values, messages of up to 7 bytes: IDs of one and three bytes in one, two or three packets, with data behind; buffer sizes 4 and 5 so that growth, limit and shrinking occur; limits 1 (below a packet), 3 (below the smallest buffer), 5 (above it) and none |
| `collector8` | the same with two streams | bytes 0, 1 and 129: the three ways an ID can begin; messages of up to 5 bytes, in up to five packets; limits 1, 3 and none |
| `link7` | refinement of the channel, in the end every message has left it | real packet size; messages of 0 to 18 data bytes around one, two and three full packets, with IDs of one and three bytes; 2 messages, 2 packets lost or repeated; a limit set at any time, with the room for messages that `LinkAssumption` asks for (a tighter one shows the recovery bug of `collector7_recovery`) |
| `link8` | streams are kept apart, whole messages arrive | real packet size, 3 messages on 2 streams, one to three packets each, with IDs of one and three bytes and ID 0 |
| `parser` | every callback as expected, position in bounds, packets come back | a byte of every class, messages of every class, packets of 2 payload bytes; up to 2 data bytes before a new message and 4 data bytes in a row: empty, partial and full packets, two rounds of running status; callbacks do not call back here (for those that reset see `WritesInPlace` and `Reports`) |
| `jitter` | measures, in time, promptly, order up to jitter | timestamps modulo 4 over 7 ticks, three delays, of which one exceeds a tick |
| `voice` | heard as played, both protocols agree, nothing wraps | values at both ends, the center, and on both sides of the steps of the scales; two topics |
| `ci` | read back, cuts noticed, what is read behind the data | every factory; data of 0, 1 and 15 bytes; one change after another, then every cut and every byte altered |
| `stream` | what the host knows was true, both agree, the host learns what it asked | two function blocks, texts of one to three packets and one character less or more, 2 requests, 1 new name, 2 packets lost |
| `collector7_recovery`, `link8_sizes`, `jitter_order` | findings, see below | as above; `link8_sizes`: one message of any size up to 30 |

The bounds are enough in this sense: state of the classes depends on the last
packet, on whether counts are 0, below or at a size, and on one earlier message;
the bounds let every such case occur, each with a successor message.  Every
action fires and every property is violated by a mutation of the code.
Deadlock is checked but in `link7`, `link8`, `link8_sizes` and `stream`, which
stop when all messages or requests have been sent and received.

### Fairness and liveness

Every operation of the library finishes within the call and nothing is
scheduled, so in the collectors, the parser and the follower what must happen
happens in the step (`DeliveredIffEnded`), and safety is all there is.  Where
two sides talk, something has to call them.  `Sysex7Link` assumes that `feed` is
called with the packets that arrive (weak fairness of `Receive("none")`; a packet
is not repeated forever), and shows the fair channel: every message leaves it,
delivered when no fault hurt it.  `EndpointDiscovery` assumes the same of the
endpoint's answers and the host's hearing, and shows `AskedIsLearned`.  Sending,
losing, repeating and asking need not happen.

## Findings

1. Both collectors, after giving up a message that exceeds the limit, deliver
   the next one with bytes of the old one in front (`collector7_recovery`; the
   code of the sysex8 collector is the same here).
2. `send_sysex8` counts other manufacturer ID bytes than it sends: messages with
   12 data bytes after a one byte ID, or 11 after a three byte ID, are not
   received as sent (`link8_sizes`).  Nor are those with 12 or 13 data bytes and
   ID 0, which is not counted at all.
3. The `validate()` of both views of discovery reads the version of a message before
   it knows that there is one: an identity request, three bytes of data, is enough
   for a read behind them.  `ViewsStayInside`, in run `ci`, says that this happens for
   every message of the non-realtime class with less than four bytes and for no other.
4. A late clock message after an early one moves the time of the last message
   back, and the next message is scheduled before the previous one
   (`jitter_order`); `OrderWithinJitter` says by how much at most.

Noticed while modelling, and stated as a violation in no run:

- `send_sysex7` writes the manufacturer ID 0 as one byte, and readers look for three
  when the first is zero: two data bytes of the message become its ID
  (`sysex.h:319`, `sysex_collector.cpp:92`).
- The limit of a collector is one for data without the manufacturer ID
  (`sysex_collector.h:47`, `sysex.h:96`), but a packet that brings bytes of the ID is
  measured with them (`sysex_collector.cpp:72` and `191`): with limit 5 a message of one
  ID byte and five data bytes in one packet is given up.  `NoEarlyReject` exempts it.
- The limit of a collector does not bind while the buffer, grown earlier, has
  room (`sysex_collector.cpp:74`).
- `reset()` in the callback that gets a full SysEx packet is undone, as the packet
  is assigned after the callback (`midi1_byte_stream.cpp:323`).
- A note off with an attribute is not translated to MIDI 1.0
  (`channel_voice_message.h:257`).
- Texts are written with 8 bits per character and read with 7
  (`stream_message.h:558`), so names in UTF-8 do not come back.
- A function block that spans 16 groups is told to span none
  (`stream_message.h:622`).

## Proofs

Proved with TLAPS for every value of the constants that the modules' assumptions
allow, so for the real sizes as well as the small ones.

**`Sysex7Collector_proofs`**: `TypeCorrect`, `DeliveryIsExact`, `DeliveryIsOnce`,
`DataWithinCapacity`, `RejectionIsDue`, `GrowthIsLimited`: all properties of the
run `collector7`.  They follow from `Invariance`.  `ExactDelivery` speaks of the
moment of delivery only; what makes it inductive is that at any time in the
middle of a message the collector holds what a reader of all bytes so far would
hold (`Holds`), that collector and wire agree on whether a message is open, and
that outside of a message the buffer is empty but after a rejection.  The heart is
`CollectHolds`: collecting a packet commutes with appending it to the bytes,
wherever the cut falls in the manufacturer ID.  `GrowthMakesRoom` rests on the
assumption `2 * MaxPayload <= MinCapacity` (12 and 128 in the code): without it
one doubling would not make room and messages within the limit would be rejected.
`RejectedPacket`, behind `RejectionIsDue`, then needs that a collector which holds
data has read the whole ID, so that all of the next packet is data: only a packet
that comes before any data can be measured with ID bytes.

The same module holds what every link needs of the sender.  `CutIntoPackets` gives
the closed form of the loop of `send_sysex7` and `send_sysex8`: packet k of n holds
the bytes from `(k - 1) * MaxPayload + 1` on, all but the last are full, and the
formats tell the first and the last.  The loop decides that a packet is the last
before it fills it, by the bytes that are left; `Progress` says why that is right
after any number of bytes.  A recursive function is a theorem away from induction
here: the set of numbers of bytes after which `Progress` fails would have a least
element (`Least`), which is not zero and has no predecessor.  `PacketsCarry` says the
same as what the packets carry together, which is how the links use it.

**`Sysex8_proofs`** begins with the same theorems for the sysex8 collector, all
properties of the run `collector8`.  The invariant adds which stream is followed:
while a message is open the wire's bytes are those of that stream.  The
commutation is by cases of the two byte ID, which may be cut in two.

Then the streams on a link: `StreamsStayApart` and `DeliveredUnlessBroken`, the
properties of the run `link8`, for any set of streams, messages of any length and
any number of them.  The collector's theorems are used through `InvStep`, the
sender's through `PacketsCarry`; `Receiving` says that the collector, at any time
in the middle of a message, has exactly what has left the lane of it (`Before`).
That is not inductive without the shape of the lanes: `LanesHold` says that each
holds the packets of whole messages in the order they were sent, but for those
packets of the first one that have left; `Begun` that a message of which packets have
left is the one being received or was broken into; `DeliveredOnce` that what has left
the lanes was delivered, once, or was broken into.  `Effect` sums up what the
collector makes of the next packet of any lane: it completes the message, goes on
with it, or passes by the rest of one that was broken into.

The one hypothesis that is more than a type is `SizesAreRight`: `total_data_size`
tells whether the message fits one packet.  It fails for the sizes of finding 2 (12
data bytes after an ID of one byte, 11 after one of three, 12 and 13 after ID 0) and
for no other; the messages of `link8` leave them out, those of `link8_sizes` include
them.

**`Sysex7Link_proofs`**: `LinkIsChannel`, the refinement of `SysexChannel` by sender,
link and collector, step by step, for any messages, size of a packet, capacities,
number of faults and limits.  The invariant `LInv` (`LinkInvariance`) has five parts:
types; `LinkHolds`, the elements of the link are the packets of consecutive messages
and nothing is missing up to the last one sent; `Undisturbed`, the collector keeps
its own invariant and has never rejected; `Collected`, of an unhurt message at the
head the collector has exactly what the packets before the head carried (`Before`);
`CollectsLittle`, with every fault the collector takes at most one message more for
part of the one it is collecting.  The last is needed because a hurt message may
run into the next one: without an end packet in between, both count against the
limit until a start packet comes.  Hence the assumption on `Limits`: 0, or room for
`MaxFaults + 1` of the longest messages.  With less, a rejection could take an
unhurt message with it, as in `collector7_recovery`.  The theorems of
`Sysex7Collector_proofs` are used through `InvStep` and `RejectionStep`, and
`PacketsCarry` for the sender.  `ImplementsChannel` adds weak fairness, which
stays with TLC.

**`ByteStreamParser_proofs`**: `TypeCorrect`, `WritesInPlace` and `Reports`, so all
properties of the parser in the run `parser`, for every set of bytes and packet
size.  The first invariant (`IInv`) adds to `WritePosition` which status each kind of
packet has, so that each handler finds a position at which it may write.  `Reports`
is `ReportsWhatWasHeard`: every byte makes exactly the callback the stream calls for.
It speaks of the step only; what makes it inductive is `KeepsWhatWasHeard`
(`Faithful`), which relates the parser's state to all that was heard of the message
under way, message by message: of a voice message the bytes since the last one under
running status, with those of the one before behind them until they are overwritten
(`VoiceTold`); of a system message its bytes, and no packet once it is complete
(`CommonTold`); of a SysEx in packets the bytes of the packet under way, which is the
first one while it has heard less than one packet (`SysexPacketTold`); of a SysEx as a
message its ID and data, and nothing when callbacks were disabled at its start
(`SysexMessageTold`).  Then one lemma per handler.  Both theorems ask for
`Undisturbed`: callbacks may reset the parser if SysEx goes out as a message, and may
not if it goes out in packets, as `feed()` undoes such a reset (see Findings).
`TypeCorrect` and `WritesInPlace` hold all the same.

**`JrClockFollower_proofs`**: `TypeCorrect`, `Measures`, `InTime`, `Promptly`,
`InOrderWithinJitter`: all properties of the run `jitter`.  The invariant says
that timestamps count ticks up to a cycle (`CountsTicks`), and bounds the last
scheduled time by the slowest transport (`Bounds`): that bound is why a late
clock message can take the message time back by the jitter at most.

**`SysexMessages_proofs`**: `TypeCorrect` and `StaysInside`, for every radix up to
128, MUIDs, data and profiles of any size.  That messages consist of 7 bit bytes
is a lemma per factory and a step per change; the invariant adds that a message of
MIDI-CI has its whole header until it is cut, which a NAK reads.  `StaysInside`
then needs no more than the bytes: it holds of every message, however damaged,
as the sizes `validate()` compares are, view by view, those the accessors use.  Its
second half is about `validate()` itself (`ValidateInside`): each reads no further
than a size it has tested, but for the views of discovery and messages that end
before their version, which finding 3 is about.

`MadeIsRead` and `CutNoticed` compare every factory with every view: all properties of
the run `ci` are theorems.  Numbers of two and four digits are read as they were
written (`ReadsUint14`, `ReadsUint28`), pieces of a message are where the accessors
look for them, and a view looks at messages of its own subtypes only (`OnlyItsViews`).
One lemma per factory then says what its views read and that each reads to the end
of the message, up to `MadeReads`.  `TakesAlike` says that a view that takes a start of
a message takes the message, reads the same and ends at the same byte.  With it,
`HeaderChanged` follows for changes of MUIDs and device ID, and `CutRead` for cuts: a
view that took a cut message would end where the whole one ended, which is behind the
cut.  So the inductive invariant `RInv` of the second property is the first, and that
the views read all bytes.

Both ask for `FieldsFit`: arguments fit where they are put.  In the code `Radix`,
`Word` and `Broadcast` are 128, 2^16 and 2^28 - 1, as it asks; what goes to one byte is
a `uint7_t`, what goes to two or four a `uint14_t` or `uint28_t`; a manufacturer ID of
one byte has zeros behind it.  Data are shorter than 2^16 bytes, as the overload of
`make_profile_specific_data_message` for vectors casts their size to 16 bits
(`capability_inquiry.h:1730`): of larger ones it would send a part.  TLC evaluates
`FieldsFit` for the run, and `Invariance`, `TypeCorrect` and `StaysInside` do without.

**`VoiceTranslation_proofs`**: `TypeCorrect`, `PlayedIsHeard`, `InstrumentsAgree`,
`UpwardsIsLossless` and `StaysInRange`: all properties of the run `voice`, for any
channel, notes, controllers and values within the ranges of their fields, so for
all 65536 velocities and all 32 bit values where the run has those around the
steps of the scales.  The scales come first: halving a value and doubling it again
(`Up` after `Down`) is exact where a value was scaled up before, and keeps the top
bits else.  Then a lemma per kind of message says that the message made of a value
is read back by both kinds of instrument, through every translation, at the
resolution of the protocols passed (`Carries`, proved per factory).  The invariant
adds `MissesReserved`: the MIDI 2.0 instrument misses nothing but reserved
controllers, so a relative controller always finds the value it moves.

**`EndpointDiscovery_proofs`**: `TypeCorrect`, `KnownTrue` and `AgreedWhenQuiet`, so
all safety properties of the run `stream`, for any number of blocks, every value a
fact can have, texts of any length, any room for text in a packet from 2 bytes on, and
any number of requests, announcements and losses.  It is done in three layers.

- Values: what a view reads of a packet is what its factory was given.  For messages
  of one packet this is arithmetic of their fields (`InfoRead`, `IdentityRead`,
  `ConfigurationRead`, `BlockRead`).  A text is the concatenation of the pieces its
  packets carry (`Pieces`), `payload_as_string` reads each piece back (`PayloadRead`),
  and the two hand-made packets of `send_product_instance_id` are those of the loop
  of the other senders (`ProductCut`).
- Bursts: an answer is a sequence of whole tellings, of everything that was asked
  for, each of what is true at that moment (`EndpointBurst`, `BlockBurst`).
- The invariant `IInv`.  The replies under way are not told apart by who asked for
  them, so neither property is inductive.  To every packet under way belongs a tag: the
  fact it tells, the value, and the number of the packet in its telling.  `Chain` says
  that tellings are not mixed up, `Under` that every value told was true once, that
  the last telling of a fact under way tells what it is now, and that of a text whose
  telling has begun the host has what was heard of it (`Gathered`) unless a packet was
  lost (`torn`).  `Settled` says that a fact asked for, that no request asks for and no
  tag tells, is known as it is.  A text that lost a packet is `hurt` until it is told
  whole again, but `torn` only until the next telling of it begins: what is gathered
  of that one is right although the host does not know the text yet.

`DiscoveryAssumption` says what the facts can be: what the fields of the messages
hold.  Three parts of it are more than a width.  A text has no character above 127
and no zero (see Findings), a product ID is no longer than
`send_product_instance_id` sends, and the hint of a block is not 0: the factory
replaces that by the direction, which is what the endpoint then tells.

Only model-checked: liveness (the fair half of `ImplementsChannel`, and
`AskedIsLearned`), as fairness is out of the prover's reach; `ComesBack` of the
byte stream, as the converter may be anywhere in a packet of any kind.

## Not modelled, and the plan

Parts left out:

- Floating point values and `pitch_increment::operator*`, whose 64 bit product
  TLC cannot hold.
- Per note management and the layout of `jr_message`: flags and fields with no
  behaviour.
- Flex data messages and the fields of system and utility messages: stateless
  factories and views; the library has no sender that cuts flex data texts.
- `universal_packet`: access to bytes and bits, tested for every position; modules
  here use records of fields in its place.
- Callbacks of the collectors that throw or feed the collector again.
- Manufacturer constants, comparison, copies and allocators, the build.

Next, in this order: reentrant callbacks of the collectors, with the `reset()`
that follows the callback; texts of flex data messages with a sender as an
application would write it.
