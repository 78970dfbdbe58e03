--------------------------- MODULE SysexMessages ---------------------------
(***************************************************************************)
(* An application makes a universal message or a message of MIDI-CI, may   *)
(* change whom it comes from and goes to, and another one reads it through *)
(* the views, or answers it.  On the way, or by a sender of another make,  *)
(* the message may be cut or hold a byte it should not: a link that loses  *)
(* packets delivers such messages (see Sysex7Link).                        *)
(***************************************************************************)
EXTENDS CapabilityInquiry

CONSTANTS
  Muids,       \* MUIDs of devices
  NewMuids, NewDevices,  \* MUIDs and device IDs set later
  Devices,     \* device IDs
  Identities,  \* device identities
  Numbers,     \* values of fields of one byte
  Blobs,       \* data of variable size
  ProfileIds, Details,  \* profile IDs and the details of a NAK: five bytes each
  Damages      \* bytes that a damaged message may hold

Byte == 0..127

ASSUME MessageAssumption ==
  /\ Radix <= 128
  /\ Muids \union NewMuids \subseteq 0..Broadcast
  /\ Devices \union NewDevices \union Numbers \union Damages \subseteq Byte
  /\ Blobs \subseteq Seq(Byte)
  /\ ProfileIds \union Details \subseteq [1..5 -> Byte]
  /\ Identities \subseteq
       [manufacturer : [1..3 -> Byte], family : Nat, model : Nat, revision : Nat]

\* What factories are given fits where it is put: fields of one byte take a digit,
\* numbers of two and four bytes what these hold; a manufacturer ID has one byte, or
\* three of which the first is 0.  A vector for make_profile_specific_data_message has
\* fewer bytes than the 16 bits of a uint14_t count: of a larger one part would be sent.
FieldsFit ==
  /\ Radix * Radix <= Word /\ Word <= Broadcast + 1
  /\ Numbers \subseteq 0..Radix - 1
  /\ \A b \in Blobs : Len(b) < Word
  /\ \A i \in Identities :
       /\ i.manufacturer[1] # 0 => i.manufacturer[2] = 0 /\ i.manufacturer[3] = 0
       /\ i.family < Radix * Radix /\ i.model < Radix * Radix /\ i.revision <= Broadcast

VARIABLES
  sx,     \* the message, or NoMessage
  made,   \* what it was made of: the header and the fields of each of its views
  damage  \* "none", "altered", "cut"

vars == <<sx, made, damage>>

NoMessage == [manufacturer |-> <<>>, data |-> <<>>]
NoHeader == <<>>

Init == sx = NoMessage /\ made = [header |-> NoHeader, fields |-> <<>>] /\ damage = "none"

\* A factory returns message m.
Make(m, header, fields) ==
  /\ sx = NoMessage
  /\ sx' = m
  /\ made' = [header |-> header, fields |-> fields]
  /\ UNCHANGED damage

\* The fields of the one view that reads a message
Only(view, fields) == [v \in {view} |-> fields]

Header(subtype, source, destination, device) ==
  [device |-> device, subtype |-> subtype, version |-> Version2,
   source |-> source, destination |-> destination]

OfVersion1(header) == [header EXCEPT !.version = Version1]

\* Sizes that a number of two bytes counts; the factories assert it.
Sized(blob) == Len(blob) < Radix * Radix

MakeIdentityRequest == \E d \in Devices : Make(IdentityRequest(d), NoHeader, <<>>)

MakeIdentityReply == \E i \in Identities, d \in Devices :
  Make(IdentityReply(i, d), NoHeader, Only("identity_reply", [identity |-> i]))

MakeDiscoveryInquiry == \E s \in Muids, i \in Identities, n \in Muids, p \in Numbers :
  Make(Discovery(Management.discovery_inquiry, s, Broadcast, i, p, n, p),
       Header(Management.discovery_inquiry, s, Broadcast, AllDevices),
       Only("discovery_inquiry", [identity |-> i, categories |-> p, maximum_message_size |-> n,
                                  output_path_id |-> p]))

MakeDiscoveryInquiryV1 == \E s \in Muids, i \in Identities, p \in Numbers :
  Make(DiscoveryV1(Management.discovery_inquiry, s, Broadcast, i, p, s),
       OfVersion1(Header(Management.discovery_inquiry, s, Broadcast, AllDevices)),
       Only("discovery_inquiry", [identity |-> i, categories |-> p, maximum_message_size |-> s,
                                  output_path_id |-> 0]))

MakeDiscoveryReply == \E s, d \in Muids, i \in Identities, p, b \in Numbers :
  Make(DiscoveryReply(s, d, i, p, s, p, b),
       Header(Management.discovery_reply, s, d, AllDevices),
       Only("discovery_reply",
         [discovery |-> [identity |-> i, categories |-> p, maximum_message_size |-> s,
                         output_path_id |-> p],
          function_block |-> b]))

MakeDiscoveryReplyV1 == \E s, d \in Muids, i \in Identities, p \in Numbers :
  Make(DiscoveryV1(Management.discovery_reply, s, d, i, p, s),
       OfVersion1(Header(Management.discovery_reply, s, d, AllDevices)),
       Only("discovery_reply",
         [discovery |-> [identity |-> i, categories |-> p, maximum_message_size |-> s,
                         output_path_id |-> 0],
          function_block |-> AllDevices]))

MakeEndpointInquiry == \E s, d \in Muids, p \in Numbers :
  Make(EndpointInquiry(s, d, p),
       Header(Management.endpoint_information_inquiry, s, d, AllDevices),
       Only("endpoint_inquiry", [status |-> p]))

MakeEndpointReply == \E s, d \in Muids, p \in Numbers, b \in Blobs :
  /\ Sized(b)
  /\ Make(EndpointReply(s, d, p, b),
          Header(Management.endpoint_information_reply, s, d, AllDevices),
          Only("endpoint_reply", [status |-> p, information_data |-> b]))

\* make_ack_message, make_nak_message
MakeAcknowledgement == \E s, d \in Muids, e \in Devices, p \in Numbers, x \in Details, b \in Blobs :
  /\ Sized(b)
  /\ \E v \in {"ack", "nak"} :
       Make(Acknowledgement(Management[v], s, d, e, Management.discovery_inquiry, p, p, x, b),
            Header(Management[v], s, d, e),
            Only(v, [transaction |-> Management.discovery_inquiry, status_code |-> p,
                     status_data |-> p, details |-> x, message |-> b]))

MakeNakV1 == \E s, d \in Muids, e \in Devices :
  Make(NakV1(s, d, e), OfVersion1(Header(Management.nak, s, d, e)), <<>>)

MakeInvalidateMuid == \E s, t \in Muids :
  Make(InvalidateMuid(s, t),
       Header(Management.invalidate_muid, s, Broadcast, AllDevices),
       Only("invalidate_muid", [target_muid |-> t]))

MakeProfileInquiry == \E s, d \in Muids, e \in Devices :
  LET h == Header(ProfileConfiguration.profile_inquiry, s, d, e)
  IN  Make(Message(ProfileConfiguration.profile_inquiry, s, d, e), h, Only("profile_inquiry", h))

ProfileLists == {<<>>} \union {<<p>> : p \in ProfileIds} \union {<<p, q>> : p, q \in ProfileIds}

MakeProfileInquiryReply == \E s, d \in Muids, e \in Devices, on, off \in ProfileLists :
  Make(ProfileInquiryReply(s, d, on, off, e),
       Header(ProfileConfiguration.profile_inquiry_reply, s, d, e),
       Only("profile_inquiry_reply",
         [has_enabled_profiles |-> on # <<>>, has_disabled_profiles |-> off # <<>>,
          enabled_profiles |-> on, disabled_profiles |-> off]))

\* The factories for turning a profile on and off and for what became of it
MakeProfileAt == \E s, d \in Muids, e \in Devices, p \in ProfileIds, n \in Numbers :
  \E t \in {ProfileConfiguration.set_profile_on, ProfileConfiguration.set_profile_off,
            ProfileConfiguration.profile_enabled, ProfileConfiguration.profile_disabled} :
    Make(ProfileAt(t, s, d, p, e, n),
         Header(t, s, d, e),
         [v \in {"profile_id", "profile_destination"} |->
            IF v = "profile_id" THEN [profile |-> p]
            ELSE [profile |-> p,
                  params |-> <<e, IF t = ProfileConfiguration.set_profile_off THEN 0 ELSE n>>]])

\* make_profile_added_notification, make_profile_removed_notification
MakeProfileNotification == \E s, d \in Muids, e \in Devices, p \in ProfileIds :
  \E t \in {ProfileConfiguration.profile_added, ProfileConfiguration.profile_removed} :
    Make(ProfileNotification(t, s, d, p, e), Header(t, s, d, e),
         Only("profile_id", [profile |-> p]))

MakeProfileDetailsInquiry == \E s, d \in Muids, e \in Devices, p \in ProfileIds, n \in Numbers :
  Make(ProfileDetailsInquiry(s, d, p, n, e),
       Header(ProfileConfiguration.profile_details_inquiry, s, d, e),
       Only("profile_details_inquiry", [profile |-> p, target |-> n]))

MakeProfileDetailsReply ==
  \E s, d \in Muids, e \in Devices, p \in ProfileIds, n \in Numbers, b \in Blobs :
    /\ Sized(b)
    /\ Make(ProfileDetailsReply(s, d, p, n, b, e),
            Header(ProfileConfiguration.profile_details_reply, s, d, e),
            Only("profile_details_reply", [profile |-> p, target |-> n, target_data |-> b]))

MakeSpecificData == \E s, d \in Muids, e \in Devices, p \in ProfileIds, b \in Blobs :
  Make(SpecificData(s, d, p, b, e),
       Header(ProfileConfiguration.profile_specific_data, s, d, e),
       Only("profile_specific_data", [profile |-> p, data |-> b]))

\* The overload for a vector
MakeSpecificDataOf == \E s, d \in Muids, e \in Devices, p \in ProfileIds, b \in Blobs :
  Make(SpecificDataOf(s, d, p, b, e),
       Header(ProfileConfiguration.profile_specific_data, s, d, e),
       Only("profile_specific_data", [profile |-> p, data |-> b]))

MakeCapabilities == \E s, d \in Muids, e \in Devices, n \in Numbers :
  \E t \in {PropertyExchange.property_exchange_capabilities_inquiry,
            PropertyExchange.property_exchange_capabilities_reply} :
    Make(Capabilities(t, s, d, n, e),
         Header(t, s, d, e),
         Only("capabilities", [maximum_number_of_requests |-> n, pe_version_major |-> 0,
                               pe_version_minor |-> 0]))

PropertyFields(header, chunks, this, chunk, request) ==
  [request_id |-> request, header |-> header, number_of_chunks |-> chunks,
   number_of_this_chunk |-> this, chunk |-> chunk]

\* A message without data for view v
WithoutData(v, subtype) ==
  LET k == IF subtype = PropertyExchange.subscription_inquiry THEN 0 ELSE 1
  IN  \E s, d \in Muids, e \in Devices, n \in Numbers, h \in Blobs :
        /\ Sized(h)
        /\ Make(PropertyMessage(subtype, s, d, h, n, e), Header(subtype, s, d, e),
                Only(v, PropertyFields(h, k, k, <<>>, n)))

\* One with a chunk of data: the first chunk comes with the header, the others
\* have factories without.
WithData(v, subtype) ==
  \E s, d \in Muids, e \in Devices, n \in Numbers, h, b \in Blobs, chunks, this \in 0..3 :
    /\ Sized(h) /\ Sized(b)
    /\ this \in 1..chunks \/ (chunks = 0 /\ this \in 1..2)
    /\ this > 1 => h = <<>>
    /\ Make(PropertyData(subtype, s, d, h, chunks, this, b, n, e), Header(subtype, s, d, e),
            Only(v, PropertyFields(h, chunks, this, b, n)))

MakeGetProperty ==
  \/ WithoutData("get_property", PropertyExchange.get_property_data_inquiry)
  \/ WithData("get_property", PropertyExchange.get_property_data_reply)

MakeSetProperty ==
  \/ WithData("set_property", PropertyExchange.set_property_data_inquiry)
  \/ WithoutData("set_property", PropertyExchange.set_property_data_reply)

MakeSubscription ==
  \/ WithoutData("subscription", PropertyExchange.subscription_inquiry)
  \/ WithData("subscription", PropertyExchange.subscription_inquiry)
  \/ WithoutData("subscription", PropertyExchange.subscription_reply)

MakeNotify == WithoutData("notify", PropertyExchange.notify)

MakeProcessInquiry == \E s, d \in Muids, e \in Devices :
  \/ Make(Message(ProcessInquiry.process_inquiry_capabilities_inquiry, s, d, e),
          Header(ProcessInquiry.process_inquiry_capabilities_inquiry, s, d, e), <<>>)
  \/ Make(Message(ProcessInquiry.midi_message_report_end, s, Broadcast, e),
          Header(ProcessInquiry.midi_message_report_end, s, Broadcast, e), <<>>)

MakeProcessReply == \E s, d \in Muids, e \in Devices, n \in Numbers :
  Make(ProcessReply(s, d, n, e),
       Header(ProcessInquiry.process_inquiry_capabilities_reply, s, d, e),
       Only("process_reply", [supported_features |-> n]))

MakeReportInquiry == \E s, d \in Muids, e \in Devices, a, b, c \in Numbers :
  Make(ReportInquiry(s, d, a, b, c, a, e),
       Header(ProcessInquiry.midi_message_report_inquiry, s, d, e),
       Only("report_inquiry", [control |-> a, system |-> b, controllers |-> c, notes |-> a]))

MakeReportReply == \E s \in Muids, e \in Devices, a, b, c \in Numbers :
  Make(ReportReply(s, a, b, c, e),
       Header(ProcessInquiry.midi_message_report_reply, s, Broadcast, e),
       Only("report_reply", [system |-> a, controllers |-> b, notes |-> c]))

-----------------------------------------------------------------------------
(* What may be done with a message. *)

Whole == sx # NoMessage /\ damage = "none"
IsInquiry == made.header # NoHeader

\* What a change of the header changes: the header, and the device ID where it is
\* the scope of a profile.
Changed(header) ==
  [header |-> header,
   fields |-> [v \in DOMAIN made.fields |->
     CASE v = "profile_inquiry" -> header
       [] v = "profile_destination" -> [made.fields[v] EXCEPT !.params[1] = header.device]
       [] OTHER -> made.fields[v]]]

SetSourceMuid(m) ==
  /\ Whole /\ IsInquiry
  /\ sx' = WithSourceMuid(sx, m)
  /\ made' = Changed([made.header EXCEPT !.source = m])
  /\ UNCHANGED damage

SetDestinationMuid(m) ==
  /\ Whole /\ IsInquiry
  /\ sx' = WithDestinationMuid(sx, m)
  /\ made' = Changed([made.header EXCEPT !.destination = m])
  /\ UNCHANGED damage

SetDeviceId(d) ==
  /\ Whole /\ IsInquiry
  /\ sx' = WithDeviceId(sx, d)
  /\ made' = Changed([made.header EXCEPT !.device = d])
  /\ UNCHANGED damage

\* The receiver of a message answers with a NAK to the sender.
Answer(code, details, text) ==
  /\ Whole /\ IsInquiry /\ Sized(text)
  /\ sx' = NakFor(sx, code, code, details, text)
  /\ made' = [header |-> Header(Management.nak, made.header.destination, made.header.source,
                                made.header.device),
              fields |-> Only("nak", [transaction |-> made.header.subtype, status_code |-> code,
                                      status_data |-> code, details |-> details, message |-> text])]
  /\ UNCHANGED damage

\* The same in version 1 of the format
AnswerV1 ==
  /\ Whole /\ IsInquiry
  /\ sx' = NakV1(MakeUint28(sx, 8), MakeUint28(sx, 4), At(sx, 0))
  /\ made' = [header |-> OfVersion1(Header(Management.nak, made.header.destination,
                                           made.header.source, made.header.device)),
              fields |-> <<>>]
  /\ UNCHANGED damage

\* Only the first n bytes arrive.
Cut(n) ==
  /\ Whole /\ n < Size(sx)
  /\ sx' = [sx EXCEPT !.data = SubSeq(@, 1, n)]
  /\ damage' = "cut"
  /\ UNCHANGED made

\* The byte at offset k is another one.
Alter(k, b) ==
  /\ Whole /\ At(sx, k) # b
  /\ sx' = Overwritten(sx, k, <<b>>)
  /\ damage' = "altered"
  /\ UNCHANGED made

\* The application is done with the message.
Drop ==
  /\ sx # NoMessage
  /\ sx' = NoMessage
  /\ made' = [header |-> NoHeader, fields |-> <<>>]
  /\ damage' = "none"

MakeManagement ==
  \/ MakeIdentityRequest \/ MakeIdentityReply
  \/ MakeDiscoveryInquiry \/ MakeDiscoveryInquiryV1
  \/ MakeDiscoveryReply \/ MakeDiscoveryReplyV1
  \/ MakeEndpointInquiry \/ MakeEndpointReply
  \/ MakeAcknowledgement \/ MakeNakV1 \/ MakeInvalidateMuid

MakeProfile ==
  \/ MakeProfileInquiry \/ MakeProfileInquiryReply
  \/ MakeProfileAt \/ MakeProfileNotification
  \/ MakeProfileDetailsInquiry \/ MakeProfileDetailsReply
  \/ MakeSpecificData \/ MakeSpecificDataOf

MakeProperty ==
  MakeCapabilities \/ MakeGetProperty \/ MakeSetProperty \/ MakeSubscription \/ MakeNotify

MakeProcess ==
  MakeProcessInquiry \/ MakeProcessReply \/ MakeReportInquiry \/ MakeReportReply

Next ==
  \/ MakeManagement \/ MakeProfile \/ MakeProperty \/ MakeProcess
  \/ \E m \in NewMuids : SetSourceMuid(m) \/ SetDestinationMuid(m)
  \/ \E d \in NewDevices : SetDeviceId(d)
  \/ \E c \in Numbers, x \in Details, b \in Blobs : Answer(c, x, b)
  \/ AnswerV1
  \/ \E n \in 0..Size(sx) : Cut(n)
  \/ \E k \in 0..Size(sx) - 1, b \in Damages : Alter(k, b)
  \/ Drop

Spec == Init /\ [][Next]_vars

-----------------------------------------------------------------------------
(* Properties. *)

\* Messages consist of bytes, and only a message there is can be damaged.
TypeOK ==
  /\ sx \in [manufacturer : Seq(Byte), data : Seq(Byte)]
  /\ damage \in {"none", "altered", "cut"}
  /\ sx = NoMessage => damage = "none"

Accepted == {v \in Views : Accepts(v, sx)}

\* What was made is what is read: the views that take a message are those of its
\* kind and no other, and they return what the factory was given, whatever the
\* sizes of its parts, after changes of the header, and in answers.  The answer
\* to a message goes to where the message came from.
ReadBack == Whole =>
  /\ Accepted = DOMAIN made.fields \union (IF IsInquiry THEN {"inquiry"} ELSE {})
  /\ \A v \in DOMAIN made.fields : Fields(v, sx) = made.fields[v]
  /\ IsInquiry => HeaderOf(sx) = made.header

\* A view that validate() lets through reads nothing behind the data, whatever is
\* in the message: README.md tells applications to rely on it.  validate() itself
\* tests sizes before it reads what they cover, but for the views of discovery:
\* they read the version first, which is behind the data of a message of the
\* non-realtime class that ends before it, and of no other.
ViewsStayInside == \A v \in Views :
  /\ Accepts(v, sx) => End(v, sx) <= Size(sx)
  /\ ValidateEnd(v, sx) <= Size(sx) <=>
       (v \in {"discovery_inquiry", "discovery_reply"} =>
          sx.manufacturer # NonRealtime \/ Size(sx) >= 4)

\* A message that arrives cut is noticed: no view takes it for the message it
\* was, except that the profile of a destination can be read without the rest and
\* any start of a message of MIDI-CI is one.
CutIsNoticed == damage = "cut" =>
  /\ Accepted \subseteq {"inquiry", "profile_id"}
  /\ "profile_id" \in Accepted => "profile_destination" \in DOMAIN made.fields

=============================================================================
