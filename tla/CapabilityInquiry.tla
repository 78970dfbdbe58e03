------------------------- MODULE CapabilityInquiry -------------------------
(***************************************************************************)
(* The messages of MIDI Capability Inquiry: how each is made, which views  *)
(* accept a message, and what a view reads of it.                          *)
(*                                                                         *)
(* A view is known by its name.  Xyz(...) makes a message, XyzValid is the *)
(* view's validate(), XyzFields are its accessors and XyzEnd is the end of *)
(* what they read.  Messages come from other devices, or through a link    *)
(* that lost part of them: validate() has to make sure that the accessors  *)
(* stay within the data.                                                   *)
(***************************************************************************)
EXTENDS UniversalSysex

Broadcast == Radix * Radix * Radix * Radix - 1

\* Offset of what follows the header, and versions of the format
Payload == 12
Version1 == 1
Version2 == 2

Management ==
  [discovery_inquiry |-> 112, discovery_reply |-> 113,
   endpoint_information_inquiry |-> 114, endpoint_information_reply |-> 115,
   ack |-> 125, invalidate_muid |-> 126, nak |-> 127]

ProfileConfiguration ==
  [profile_inquiry |-> 32, profile_inquiry_reply |-> 33,
   set_profile_on |-> 34, set_profile_off |-> 35,
   profile_enabled |-> 36, profile_disabled |-> 37,
   profile_added |-> 38, profile_removed |-> 39,
   profile_details_inquiry |-> 40, profile_details_reply |-> 41,
   profile_specific_data |-> 47]

PropertyExchange ==
  [property_exchange_capabilities_inquiry |-> 48, property_exchange_capabilities_reply |-> 49,
   get_property_data_inquiry |-> 52, get_property_data_reply |-> 53,
   set_property_data_inquiry |-> 54, set_property_data_reply |-> 55,
   subscription_inquiry |-> 56, subscription_reply |-> 57, notify |-> 63]

ProcessInquiry ==
  [process_inquiry_capabilities_inquiry |-> 64, process_inquiry_capabilities_reply |-> 65,
   midi_message_report_inquiry |-> 66, midi_message_report_reply |-> 67,
   midi_message_report_end |-> 68]

\* ci::message::message, make_with_payload_size: device ID, type, subtype,
\* version, source and destination.
Message(subtype, source, destination, device) ==
  [manufacturer |-> NonRealtime,
   data |-> <<device, 13, subtype, Version2>> \o Uint28(source) \o Uint28(destination)]

Overwritten(sx, k, bytes) ==
  [sx EXCEPT !.data = [i \in DOMAIN @ |->
     IF i - k \in 1..Len(bytes) THEN bytes[i - k] ELSE @[i]]]

WithVersion1(sx) == Overwritten(sx, 3, <<Version1>>)
WithSourceMuid(sx, m) == Overwritten(sx, 4, Uint28(m))
WithDestinationMuid(sx, m) == Overwritten(sx, 8, Uint28(m))

\* is_capability_inquiry_message
InquiryValid(sx) == sx.manufacturer = NonRealtime /\ Size(sx) >= Payload /\ At(sx, 1) = 13

\* The fields every message has
HeaderOf(sx) ==
  [device |-> At(sx, 0), subtype |-> SubtypeOf(sx), version |-> At(sx, 3),
   source |-> MakeUint28(sx, 4), destination |-> MakeUint28(sx, 8)]

\* What the views' validate() functions have in common: manufacturer, at least
\* n bytes, type and one of a set of subtypes.
Is(sx, n, subtypes) ==
  /\ sx.manufacturer = NonRealtime
  /\ Size(sx) >= n
  /\ At(sx, 1) = 13
  /\ At(sx, 2) \in subtypes

-----------------------------------------------------------------------------
(* Management messages. *)

DiscoveryV1(subtype, source, destination, i, categories, size) ==
  WithVersion1(Added(Message(subtype, source, destination, AllDevices),
                     DeviceIdentity(i) \o Uint7(categories) \o Uint28(size)))

Discovery(subtype, source, destination, i, categories, size, path) ==
  Added(Message(subtype, source, destination, AllDevices),
        DeviceIdentity(i) \o Uint7(categories) \o Uint28(size) \o Uint7(path))

DiscoveryReply(source, destination, i, categories, size, path, block) ==
  Added(Discovery(Management.discovery_reply, source, destination, i, categories, size, path),
        Uint7(block))

DiscoveryFields(sx) ==
  [identity |-> MakeDeviceIdentity(sx, Payload),
   categories |-> At(sx, Payload + 11),
   maximum_message_size |-> MakeUint28(sx, Payload + 12),
   output_path_id |-> IF At(sx, 3) >= Version2 THEN At(sx, Payload + 16) ELSE 0]

\* The version that validate() of the two views of discovery reads to compare sizes,
\* which is before it knows that there is one: behind the data any byte may be found.
VersionsRead(sx) == IF Size(sx) > 3 THEN {At(sx, 3)} ELSE 0..255

DiscoveryInquiryValid(sx) == \E version \in VersionsRead(sx) :
  Is(sx, Payload + 16 + (IF version > 1 THEN 1 ELSE 0), {Management.discovery_inquiry})

DiscoveryInquiryEnd(sx) == Payload + (IF At(sx, 3) >= Version2 THEN 17 ELSE 16)

\* Faulty variant: the function block, which version 2 added, is forgotten.
DiscoveryReplyAsInquiryValid(sx) == \E version \in VersionsRead(sx) :
  Is(sx, Payload + 16 + (IF version > 1 THEN 1 ELSE 0), {Management.discovery_reply})

DiscoveryReplyValid(sx) == \E version \in VersionsRead(sx) :
  Is(sx, Payload + 16 + (IF version > 1 THEN 2 ELSE 0), {Management.discovery_reply})

FunctionBlock(sx) == IF At(sx, 3) >= Version2 THEN At(sx, Payload + 17) ELSE AllDevices

DiscoveryReplyEnd(sx) == Payload + (IF At(sx, 3) >= Version2 THEN 18 ELSE 16)

EndpointInquiry(source, destination, status) ==
  Added(Message(Management.endpoint_information_inquiry, source, destination, AllDevices),
        Uint7(status))

EndpointInquiryValid(sx) == Is(sx, Payload + 1, {Management.endpoint_information_inquiry})

EndpointReply(source, destination, status, data) ==
  Added(Message(Management.endpoint_information_reply, source, destination, AllDevices),
        Uint7(status) \o Uint14(Len(data) % Word) \o data)

EndpointReplyValid(sx) ==
  /\ Is(sx, Payload + 3, {Management.endpoint_information_reply})
  /\ Size(sx) >= Payload + 3 + MakeUint14(sx, Payload + 1)

EndpointReplyEnd(sx) == Payload + 3 + MakeUint14(sx, Payload + 1)

\* n bytes from offset k on: what pointer and size accessors span
Span(sx, k, n) == SubSeq(sx.data, k + 1, k + n)

EndpointReplyFields(sx) ==
  [status |-> At(sx, Payload),
   information_data |-> Span(sx, Payload + 3, MakeUint14(sx, Payload + 1))]

\* make_ack_message, make_nak_message; `details` are five bytes.
Acknowledgement(subtype, source, destination, device, transaction, code, data, details, text) ==
  Added(Message(subtype, source, destination, device),
        <<transaction, code, data>> \o details \o Uint14(Len(text) % Word) \o text)

\* Faulty variant: the answer goes where the message went.
NakForwarded(sx, code, data, details, text) ==
  Acknowledgement(Management.nak, MakeUint28(sx, 4), MakeUint28(sx, 8), At(sx, 0),
                  SubtypeOf(sx), code, data, details, text)

\* make_nak_message for a message received: back to its source.
NakFor(sx, code, data, details, text) ==
  Acknowledgement(Management.nak, MakeUint28(sx, 8), MakeUint28(sx, 4), At(sx, 0),
                  SubtypeOf(sx), code, data, details, text)

NakV1(source, destination, device) ==
  WithVersion1(Message(Management.nak, source, destination, device))

NackEnd(sx) == Payload + 10 + MakeUint14(sx, Payload + 8)

AckValid(sx) == Is(sx, Payload + 10, {Management.ack}) /\ Size(sx) >= NackEnd(sx)

NakValid(sx) ==
  /\ Is(sx, Payload + 10, {Management.nak})
  /\ Size(sx) >= NackEnd(sx)
  /\ At(sx, 3) >= Version2

NackFields(sx) ==
  [transaction |-> At(sx, Payload), status_code |-> At(sx, Payload + 1),
   status_data |-> At(sx, Payload + 2), details |-> Span(sx, Payload + 3, 5),
   message |-> Span(sx, Payload + 10, MakeUint14(sx, Payload + 8))]

InvalidateMuid(source, target) ==
  Added(Message(Management.invalidate_muid, source, Broadcast, AllDevices), Uint28(target))

InvalidateMuidValid(sx) ==
  /\ TypeOf(sx) = CapabilityInquiryType
  /\ SubtypeOf(sx) = Management.invalidate_muid
  /\ Size(sx) >= Payload + 4

-----------------------------------------------------------------------------
(* Profile configuration.  A profile ID is five bytes. *)

ProfileInquiryValid(sx) ==
  /\ TypeOf(sx) = CapabilityInquiryType
  /\ SubtypeOf(sx) = ProfileConfiguration.profile_inquiry
  /\ Size(sx) >= Payload

ProfileSize == 5

\* Concatenation of profile IDs
Flat(profiles) ==
  [i \in 1..ProfileSize * Len(profiles) |->
     profiles[((i - 1) \div ProfileSize) + 1][((i - 1) % ProfileSize) + 1]]

\* make_profile_inquiry_reply: enabled profiles and disabled ones, each with
\* their number in front.
ProfileInquiryReply(source, destination, enabled, disabled, device) ==
  Added(Message(ProfileConfiguration.profile_inquiry_reply, source, destination, device),
        Uint14(Len(enabled)) \o Flat(enabled) \o Uint14(Len(disabled)) \o Flat(disabled))

OffsetOfDisabled(sx) == Payload + 2 + ProfileSize * MakeUint14(sx, Payload)

\* Faulty variant: the disabled profiles are counted where they are when no
\* profile is enabled.
ProfileReplyFixedValid(sx) ==
  /\ Is(sx, Payload + 4, {ProfileConfiguration.profile_inquiry_reply})
  /\ Size(sx) >= Payload + 4 + ProfileSize * MakeUint14(sx, Payload)
  /\ Size(sx) >= Payload + 4 + ProfileSize * MakeUint14(sx, Payload + 2)

ProfileInquiryReplyValid(sx) ==
  /\ Is(sx, Payload + 4, {ProfileConfiguration.profile_inquiry_reply})
  /\ Size(sx) >= OffsetOfDisabled(sx) + 2
  /\ Size(sx) >= OffsetOfDisabled(sx) + 2 + ProfileSize * MakeUint14(sx, OffsetOfDisabled(sx))

ProfileInquiryReplyEnd(sx) ==
  OffsetOfDisabled(sx) + 2 + ProfileSize * MakeUint14(sx, OffsetOfDisabled(sx))

\* make_profiles: as many profile IDs as the number at offset k says
Profiles(sx, k) ==
  [j \in 1..MakeUint14(sx, k) |-> Span(sx, k + 2 + ProfileSize * (j - 1), ProfileSize)]

ProfileInquiryReplyFields(sx) ==
  [has_enabled_profiles |-> At(sx, Payload) # 0 \/ At(sx, Payload + 1) # 0,
   has_disabled_profiles |-> At(sx, OffsetOfDisabled(sx)) # 0
                             \/ At(sx, OffsetOfDisabled(sx) + 1) # 0,
   enabled_profiles |-> Profiles(sx, Payload),
   disabled_profiles |-> Profiles(sx, OffsetOfDisabled(sx))]

\* make_profile_on_request, ..._off_request, ..._enabled_notification and
\* ..._disabled_notification.  The scope of the destination goes into the device
\* ID; a request to turn a profile off carries no number of channels.
ProfileAt(subtype, source, destination, profile, scope, channels) ==
  Added(Message(subtype, source, destination, scope),
        profile \o Uint14(IF subtype = ProfileConfiguration.set_profile_off
                            THEN 0 ELSE channels))

\* make_profile_added_notification, make_profile_removed_notification
ProfileNotification(subtype, source, destination, profile, device) ==
  Added(Message(subtype, source, destination, device), profile)

ProfileIdValid(sx) == Is(sx, Payload + 5, 34..39)
ProfileIdFields(sx) == [profile |-> Span(sx, Payload, ProfileSize)]

ProfileDestinationValid(sx) == Is(sx, Payload + 7, 34..37)
ProfileDestinationFields(sx) ==
  [profile |-> Span(sx, Payload, ProfileSize),
   params |-> <<At(sx, 0), MakeUint14(sx, Payload + 5)>>]

ProfileDetailsInquiry(source, destination, profile, target, device) ==
  Added(Message(ProfileConfiguration.profile_details_inquiry, source, destination, device),
        profile \o Uint7(target))

ProfileDetailsInquiryValid(sx) ==
  Is(sx, Payload + 6, {ProfileConfiguration.profile_details_inquiry})

ProfileDetailsInquiryFields(sx) ==
  [profile |-> Span(sx, Payload, ProfileSize), target |-> At(sx, Payload + 5)]

ProfileDetailsReply(source, destination, profile, target, data, device) ==
  Added(Message(ProfileConfiguration.profile_details_reply, source, destination, device),
        profile \o Uint7(target) \o Uint14(Len(data) % Word) \o data)

ProfileDetailsReplyEnd(sx) == Payload + 8 + MakeUint14(sx, Payload + 6)

ProfileDetailsReplyValid(sx) ==
  /\ Is(sx, Payload + 8, {ProfileConfiguration.profile_details_reply})
  /\ Size(sx) >= ProfileDetailsReplyEnd(sx)

ProfileDetailsReplyFields(sx) ==
  [profile |-> Span(sx, Payload, ProfileSize), target |-> At(sx, Payload + 5),
   target_data |-> Span(sx, Payload + 8, MakeUint14(sx, Payload + 6))]

\* make_profile_specific_data_message for a pointer and a size
SpecificData(source, destination, profile, data, device) ==
  Added(Message(ProfileConfiguration.profile_specific_data, source, destination, device),
        profile \o Uint28(Len(data)) \o data)

\* The overload for a vector, which takes the size for a uint14_t.
SpecificDataOf(source, destination, profile, vector, device) ==
  SpecificData(source, destination, profile, SubSeq(vector, 1, Len(vector) % Word), device)

SpecificDataEnd(sx) == Payload + 9 + MakeUint28(sx, Payload + 5)

SpecificDataValid(sx) ==
  /\ Is(sx, Payload + 9, {ProfileConfiguration.profile_specific_data})
  /\ Size(sx) >= SpecificDataEnd(sx)

SpecificDataFields(sx) ==
  [profile |-> Span(sx, Payload, ProfileSize),
   data |-> Span(sx, Payload + 9, MakeUint28(sx, Payload + 5))]

-----------------------------------------------------------------------------
(* Property exchange. *)

Capabilities(subtype, source, destination, requests, device) ==
  Added(Message(subtype, source, destination, device), <<requests, 0, 0>>)

CapabilitiesValid(sx) ==
  /\ Is(sx, Payload + 1, 48..49)
  /\ At(sx, 3) < Version2 \/ Size(sx) >= Payload + 3

CapabilitiesEnd(sx) == Payload + (IF At(sx, 3) >= Version2 THEN 3 ELSE 1)

CapabilitiesFields(sx) ==
  [maximum_number_of_requests |-> At(sx, Payload),
   pe_version_major |-> IF At(sx, 3) >= Version2 THEN At(sx, Payload + 1) ELSE 0,
   pe_version_minor |-> IF At(sx, 3) >= Version2 THEN At(sx, Payload + 2) ELSE 0]

\* make_property_data_message
PropertyData(subtype, source, destination, header, chunks, this, chunk, request, device) ==
  Added(Message(subtype, source, destination, device),
        Uint7(request) \o Uint14(Len(header) % Word) \o header
        \o Uint14(chunks) \o Uint14(this) \o Uint14(Len(chunk) % Word) \o chunk)

\* The factories of inquiries, replies and notifications that have no data:
\* make_subscription_inquiry without data counts no chunk, the others count one.
PropertyMessage(subtype, source, destination, header, request, device) ==
  LET n == IF subtype = PropertyExchange.subscription_inquiry THEN 0 ELSE 1
  IN  PropertyData(subtype, source, destination, header, n, n, <<>>, request, device)

HeaderSize(sx) == MakeUint14(sx, Payload + 1)
ChunkSize(sx) == MakeUint14(sx, Payload + 7 + HeaderSize(sx))
PropertyDataEnd(sx) == Payload + 9 + HeaderSize(sx) + ChunkSize(sx)

\* Faulty variant: the size of the chunk is read where it is without a header.
PropertyDataFixedValid(sx) ==
  /\ Is(sx, Payload + 9, 52..57 \union {63})
  /\ Size(sx) >= Payload + 9 + HeaderSize(sx) + MakeUint14(sx, Payload + 7)

\* property_data_message_view::validate.  Chunks count from 1, the first one has
\* the header, and 0 chunks means that their number is not known.
PropertyDataValid(sx) ==
  LET h      == HeaderSize(sx)
      chunks == MakeUint14(sx, Payload + 3 + h)
      this   == MakeUint14(sx, Payload + 5 + h)
  IN  /\ Is(sx, Payload + 9, 52..57 \union {63})
      /\ Size(sx) >= Payload + 3 + h + 6
      /\ chunks # 0 => this <= chunks
      /\ h # 0 => this <= 1
      /\ ChunkSize(sx) # 0 => this >= 1
      /\ PropertyDataEnd(sx) <= Size(sx)

PropertyDataFields(sx) ==
  LET h == HeaderSize(sx)
  IN  [request_id |-> At(sx, Payload),
       header |-> Span(sx, Payload + 3, h),
       number_of_chunks |-> MakeUint14(sx, Payload + 3 + h),
       number_of_this_chunk |-> MakeUint14(sx, Payload + 5 + h),
       chunk |-> Span(sx, Payload + 9 + h, ChunkSize(sx))]

GetPropertyValid(sx) == PropertyDataValid(sx) /\ At(sx, 2) \in {52, 53}
SetPropertyValid(sx) == PropertyDataValid(sx) /\ At(sx, 2) \in {54, 55}
SubscriptionValid(sx) == PropertyDataValid(sx) /\ At(sx, 2) \in {56, 57}
NotifyValid(sx) == PropertyDataValid(sx) /\ At(sx, 2) = 63

-----------------------------------------------------------------------------
(* Process inquiry. *)

ProcessReply(source, destination, features, device) ==
  Added(Message(ProcessInquiry.process_inquiry_capabilities_reply, source, destination, device),
        <<features>>)

ProcessReplyValid(sx) ==
  Is(sx, Payload + 1, {ProcessInquiry.process_inquiry_capabilities_reply})

ReportInquiry(source, destination, control, system, controllers, notes, device) ==
  Added(Message(ProcessInquiry.midi_message_report_inquiry, source, destination, device),
        <<control, system, 0, controllers, notes>>)

ReportInquiryValid(sx) == Is(sx, Payload + 5, {ProcessInquiry.midi_message_report_inquiry})

ReportInquiryFields(sx) ==
  [control |-> At(sx, Payload), system |-> At(sx, Payload + 1),
   controllers |-> At(sx, Payload + 3), notes |-> At(sx, Payload + 4)]

ReportReply(source, system, controllers, notes, device) ==
  Added(Message(ProcessInquiry.midi_message_report_reply, source, Broadcast, device),
        <<system, 0, controllers, notes>>)

ReportReplyValid(sx) == Is(sx, Payload + 4, {ProcessInquiry.midi_message_report_reply})

ReportReplyFields(sx) ==
  [system |-> At(sx, Payload), controllers |-> At(sx, Payload + 2), notes |-> At(sx, Payload + 3)]

-----------------------------------------------------------------------------
(* All views. *)

Views ==
  {"identity_reply", "inquiry", "discovery_inquiry", "discovery_reply", "endpoint_inquiry",
   "endpoint_reply", "ack", "nak", "invalidate_muid", "profile_inquiry",
   "profile_inquiry_reply", "profile_id", "profile_destination", "profile_details_inquiry",
   "profile_details_reply", "profile_specific_data", "capabilities", "get_property",
   "set_property", "subscription", "notify", "process_reply", "report_inquiry",
   "report_reply"}

\* as<view>(sx): there is a view if validate() says so.
Accepts(v, sx) ==
  CASE v = "identity_reply"          -> IsIdentityReply(sx)
    [] v = "inquiry"                 -> InquiryValid(sx)
    [] v = "discovery_inquiry"       -> DiscoveryInquiryValid(sx)
    [] v = "discovery_reply"         -> DiscoveryReplyValid(sx)
    [] v = "endpoint_inquiry"        -> EndpointInquiryValid(sx)
    [] v = "endpoint_reply"          -> EndpointReplyValid(sx)
    [] v = "ack"                     -> AckValid(sx)
    [] v = "nak"                     -> NakValid(sx)
    [] v = "invalidate_muid"         -> InvalidateMuidValid(sx)
    [] v = "profile_inquiry"         -> ProfileInquiryValid(sx)
    [] v = "profile_inquiry_reply"   -> ProfileInquiryReplyValid(sx)
    [] v = "profile_id"              -> ProfileIdValid(sx)
    [] v = "profile_destination"     -> ProfileDestinationValid(sx)
    [] v = "profile_details_inquiry" -> ProfileDetailsInquiryValid(sx)
    [] v = "profile_details_reply"   -> ProfileDetailsReplyValid(sx)
    [] v = "profile_specific_data"   -> SpecificDataValid(sx)
    [] v = "capabilities"            -> CapabilitiesValid(sx)
    [] v = "get_property"            -> GetPropertyValid(sx)
    [] v = "set_property"            -> SetPropertyValid(sx)
    [] v = "subscription"            -> SubscriptionValid(sx)
    [] v = "notify"                  -> NotifyValid(sx)
    [] v = "process_reply"           -> ProcessReplyValid(sx)
    [] v = "report_inquiry"          -> ReportInquiryValid(sx)
    [] v = "report_reply"            -> ReportReplyValid(sx)

\* Where the data end that the accessors of a view read
End(v, sx) ==
  CASE v = "identity_reply"          -> IF At(sx, 3) # 0 THEN 12 ELSE 14
    [] v \in {"inquiry", "profile_inquiry"} -> Payload
    [] v = "discovery_inquiry"       -> DiscoveryInquiryEnd(sx)
    [] v = "discovery_reply"         -> DiscoveryReplyEnd(sx)
    [] v = "endpoint_reply"          -> EndpointReplyEnd(sx)
    [] v \in {"ack", "nak"}          -> NackEnd(sx)
    [] v \in {"endpoint_inquiry", "process_reply"} -> Payload + 1
    [] v \in {"invalidate_muid", "report_reply"} -> Payload + 4
    [] v \in {"profile_id", "report_inquiry"} -> Payload + 5
    [] v = "profile_details_inquiry" -> Payload + 6
    [] v = "profile_destination"     -> Payload + 7
    [] v = "profile_inquiry_reply"   -> ProfileInquiryReplyEnd(sx)
    [] v = "profile_details_reply"   -> ProfileDetailsReplyEnd(sx)
    [] v = "profile_specific_data"   -> SpecificDataEnd(sx)
    [] v = "capabilities"            -> CapabilitiesEnd(sx)
    [] v \in {"get_property", "set_property", "subscription", "notify"} -> PropertyDataEnd(sx)

\* validate() goes on and reads up to `end` when the manufacturer ID is right and
\* there are n bytes.
After(n, end, sx) == IF sx.manufacturer = NonRealtime /\ Size(sx) >= n THEN end ELSE 0

\* Where the data end that validate() itself may read to decide on a view: what is
\* read before a size is known shows here.
ValidateEnd(v, sx) ==
  CASE v \in {"discovery_inquiry", "discovery_reply"} -> After(0, 4, sx)
    [] v = "inquiry"                 -> After(Payload, 2, sx)
    [] v \in {"identity_reply", "invalidate_muid", "profile_inquiry"} ->
         IF ~IsUniversal(sx) THEN 0
         ELSE IF v = "identity_reply" /\ Size(sx) = 12 THEN 4
         ELSE IF Size(sx) > 2 THEN 3 ELSE 2
    [] v \in {"endpoint_inquiry", "process_reply"} -> After(Payload + 1, 3, sx)
    [] v = "capabilities"            -> After(Payload + 1, 4, sx)
    [] v = "endpoint_reply"          -> After(Payload + 3, Payload + 3, sx)
    [] v \in {"ack", "nak"}          -> After(Payload + 10, Payload + 10, sx)
    [] v = "report_reply"            -> After(Payload + 4, 3, sx)
    [] v \in {"profile_id", "report_inquiry"} -> After(Payload + 5, 3, sx)
    [] v = "profile_details_inquiry" -> After(Payload + 6, 3, sx)
    [] v = "profile_destination"     -> After(Payload + 7, 3, sx)
    [] v = "profile_details_reply"   -> After(Payload + 8, Payload + 8, sx)
    [] v = "profile_specific_data"   -> After(Payload + 9, Payload + 9, sx)
    [] v = "profile_inquiry_reply"   ->
         After(Payload + 4, IF Size(sx) >= OffsetOfDisabled(sx) + 2
                              THEN OffsetOfDisabled(sx) + 2 ELSE Payload + 2, sx)
    [] v \in {"get_property", "set_property", "subscription", "notify"} ->
         After(Payload + 9, IF Size(sx) >= Payload + 9 + HeaderSize(sx)
                              THEN Payload + 9 + HeaderSize(sx) ELSE Payload + 3, sx)

\* What the accessors of a view return
Fields(v, sx) ==
  CASE v = "identity_reply"          -> [identity |-> Identity(sx)]
    [] v \in {"inquiry", "profile_inquiry"} -> HeaderOf(sx)
    [] v = "discovery_inquiry"       -> DiscoveryFields(sx)
    [] v = "discovery_reply"         -> [discovery |-> DiscoveryFields(sx),
                                         function_block |-> FunctionBlock(sx)]
    [] v = "endpoint_inquiry"        -> [status |-> At(sx, Payload)]
    [] v = "endpoint_reply"          -> EndpointReplyFields(sx)
    [] v \in {"ack", "nak"}          -> NackFields(sx)
    [] v = "invalidate_muid"         -> [target_muid |-> MakeUint28(sx, Payload)]
    [] v = "profile_inquiry_reply"   -> ProfileInquiryReplyFields(sx)
    [] v = "profile_id"              -> ProfileIdFields(sx)
    [] v = "profile_destination"     -> ProfileDestinationFields(sx)
    [] v = "profile_details_inquiry" -> ProfileDetailsInquiryFields(sx)
    [] v = "profile_details_reply"   -> ProfileDetailsReplyFields(sx)
    [] v = "profile_specific_data"   -> SpecificDataFields(sx)
    [] v = "capabilities"            -> CapabilitiesFields(sx)
    [] v \in {"get_property", "set_property", "subscription", "notify"} -> PropertyDataFields(sx)
    [] v = "process_reply"           -> [supported_features |-> At(sx, Payload)]
    [] v = "report_inquiry"          -> ReportInquiryFields(sx)
    [] v = "report_reply"            -> ReportReplyFields(sx)

=============================================================================
