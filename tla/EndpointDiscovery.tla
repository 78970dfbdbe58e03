-------------------------- MODULE EndpointDiscovery -------------------------
(***************************************************************************)
(* A host asks an endpoint who it is, what function blocks it has and to   *)
(* switch protocol; the endpoint answers every request with a burst of     *)
(* stream messages, as docs/stream_message.examples.cpp shows.  The host   *)
(* puts texts together from the packets they come in.                      *)
(*                                                                         *)
(* The link between them keeps the order and may lose replies.             *)
(***************************************************************************)
EXTENDS StreamMessages, SequencesExt

CONSTANTS
  NumBlocks,          \* function blocks, numbered from 0
  Endpoint,           \* fact -> its value, as the endpoint starts
  NewNames,           \* names the endpoint is given later
  EndpointFilters, BlockFilters,  \* what a request asks for
  Configurations,     \* protocols and extensions the host may ask for
  MaxAsks, MaxAnnouncements, MaxLosses  \* bounds

EndpointFacts == {<<"info">>, <<"identity">>, <<"name">>, <<"product">>, <<"configuration">>}
BlockFacts    == {"info", "name"} \X (0..NumBlocks - 1)
Facts         == EndpointFacts \union BlockFacts

\* What a fact can be: what its message has bits for, and no text has a zero.  A
\* hint of 0 stands for the direction, so the hint in truth is one of the others.
EndpointInfos ==
  [major : 0..255, minor : 0..255, static : BOOLEAN, blocks : 0..127, protocols : 0..3,
   extensions : 0..3]
ManufacturerIds == (0..127) \X (0..127) \X (0..127)
FourteenBits == 0..16383
TwentyEightBits == {n \in Nat : n \div 16384 \in FourteenBits}
Identities ==
  [manufacturer : ManufacturerIds, family : FourteenBits, model : FourteenBits,
   revision : TwentyEightBits]
StreamConfigurations == [protocol : 1..2, extensions : 0..3]
BlockInfos ==
  [active : BOOLEAN, direction : 0..3, midi1 : 0..3, hint : 1..3, first : 0..15,
   groups : 0..15, ci : 0..255, streams : 0..255]
Characters == 1..127
Texts == Seq(Characters)
ProductIds == {id \in Texts : Len(id) <= TextBytes + 2}  \* two packets at most

ValuesOf(f) ==
  CASE f = <<"info">>          -> EndpointInfos
    [] f = <<"identity">>      -> Identities
    [] f = <<"name">>          -> Texts
    [] f = <<"product">>       -> ProductIds
    [] f = <<"configuration">> -> StreamConfigurations
    [] f[1] = "info" /\ Len(f) = 2 -> BlockInfos
    [] f[1] = "name" /\ Len(f) = 2 -> Texts

ASSUME DiscoveryAssumption ==
  /\ NumBlocks \in 0..32
  /\ DOMAIN Endpoint = Facts
  /\ \A f \in Facts : Endpoint[f] \in ValuesOf(f)
  /\ NewNames \subseteq ValuesOf(<<"name">>)
  /\ MaxAsks \in Nat /\ MaxAnnouncements \in Nat /\ MaxLosses \in Nat
  /\ \A filter \in EndpointFilters : {<<what>> : what \in filter} \subseteq EndpointFacts
  /\ \A filter \in BlockFilters : filter \subseteq {"info", "name"}
  /\ Configurations \subseteq StreamConfigurations

VARIABLES
  truth,     \* endpoint: fact -> its value now
  had,       \* history: fact -> the values it ever had
  requests,  \* on their way to the endpoint
  replies,   \* on their way to the host
  known,     \* host: fact -> what it was told last, a sequence of at most one
  partial,   \* host: fact -> the text so far of one that comes in several packets
  asked,     \* history: facts the host asked for
  hurt,      \* history: facts that lost a packet since they were told whole
  torn,      \* history: facts that lost a packet since their telling started
  asks, announcements, losses  \* for the bounds

endpointVars == <<truth, had>>
hostVars     == <<known, partial, hurt, torn>>
counters     == <<asks, announcements, losses>>
vars == <<endpointVars, requests, replies, hostVars, asked, counters>>

NoText == <<0>>  \* no text has a zero

Init ==
  /\ truth = Endpoint
  /\ had = [f \in Facts |-> {Endpoint[f]}]
  /\ requests = <<>> /\ replies = <<>>
  /\ known = [f \in Facts |-> <<>>]
  /\ partial = [f \in Facts |-> NoText]
  /\ asked = {} /\ hurt = {} /\ torn = {}
  /\ asks = 0 /\ announcements = 0 /\ losses = 0

-----------------------------------------------------------------------------
(* The host asks. *)

Ask(facts) ==
  /\ asks < MaxAsks
  /\ asks' = asks + 1
  /\ asked' = asked \union facts
  /\ UNCHANGED <<endpointVars, replies, hostVars, announcements, losses>>

AskEndpoint(filter) ==
  /\ Ask({<<what>> : what \in filter})
  /\ requests' = Append(requests, EndpointDiscoveryMessage(filter))

AskBlocks(block, filter) ==
  /\ Ask({f \in BlockFacts : f[1] \in filter /\ block \in {AllBlocks, f[2]}})
  /\ requests' = Append(requests, FunctionBlockDiscovery(block, filter))

AskConfiguration(c) ==
  /\ Ask({<<"configuration">>})
  /\ requests' = Append(requests, StreamConfigurationRequest(c.protocol, c.extensions))

-----------------------------------------------------------------------------
(* The endpoint answers. *)

When(condition, packets) == IF condition THEN packets ELSE <<>>

\* The packets that tell the host that f is `value`
Told(f, value) ==
  CASE f = <<"info">>     -> <<EndpointInfo(value)>>
    [] f = <<"identity">> -> <<DeviceIdentityMessage(value)>>
    [] f = <<"name">>     -> EndpointName(value)
    [] f = <<"product">>  -> ProductInstanceId(value)
    [] f = <<"configuration">> ->
         <<StreamConfigurationNotification(value.protocol, value.extensions)>>
    [] f[1] = "info" /\ Len(f) = 2 -> <<FunctionBlockInfo(f[2], value)>>
    [] f[1] = "name" /\ Len(f) = 2 -> FunctionBlockName(f[2], value)

\* endpoint_discovery_example: in this order
EndpointReplies(filter) ==
  FlattenSeq([i \in 1..5 |->
    LET what == <<"info", "identity", "name", "product", "configuration">>[i]
    IN  When(what \in filter, Told(<<what>>, truth[<<what>>]))])

\* function_block_discovery_example: what is known of the blocks, then their names
BlockReplies(m) ==
  LET Of(what) == FlattenSeq([i \in 1..NumBlocks |->
                    LET f == <<what, i - 1>>
                    IN  When(what \in m.filter /\ RequestsFunctionBlock(m, f[2]),
                             Told(f, truth[f]))])
  IN  Of("info") \o Of("name")

Have(f, value) ==
  /\ truth' = [truth EXCEPT ![f] = value]
  /\ had' = [had EXCEPT ![f] = @ \union {value}]

Answer ==
  /\ requests # <<>>
  /\ LET m == Head(requests)
     IN  \/ /\ m.status = "endpoint_discovery"
            /\ replies' = replies \o EndpointReplies(m.filter)
            /\ UNCHANGED endpointVars
         \/ /\ m.status = "function_block_discovery"
            /\ replies' = replies \o BlockReplies(m)
            /\ UNCHANGED endpointVars
         \/ /\ m.status = "stream_configuration_request"
            /\ Have(<<"configuration">>, StreamConfiguration(m))
            /\ replies' = Append(replies, StreamConfigurationNotification(m.bytes[1] % 4, m.bytes[2] % 4))
  /\ requests' = Tail(requests)
  /\ UNCHANGED <<hostVars, asked, counters>>

\* The endpoint is given a name and tells it without being asked.
Announce(name) ==
  /\ announcements < MaxAnnouncements
  /\ announcements' = announcements + 1
  /\ Have(<<"name">>, name)
  /\ replies' = replies \o EndpointName(name)
  /\ UNCHANGED <<requests, hostVars, asked, asks, losses>>

-----------------------------------------------------------------------------
(* The host hears the replies. *)

FactOf(p) ==
  CASE p.status = "endpoint_info"              -> <<"info">>
    [] p.status = "device_identity"            -> <<"identity">>
    [] p.status = "endpoint_name"              -> <<"name">>
    [] p.status = "product_instance_id"        -> <<"product">>
    [] p.status = "stream_configuration_notify" -> <<"configuration">>
    [] p.status = "function_block_info"        -> <<"info", BlockOf(p)>>
    [] p.status = "function_block_name"        -> <<"name", BlockOf(p)>>

IsText(p) == p.status \in {"endpoint_name", "product_instance_id", "function_block_name"}

\* payload() of the views: a block name follows the number of its block.
Text(p) == PayloadAsString(p, IF p.status = "function_block_name" THEN 1 ELSE 0)

Reading(p) ==
  CASE p.status = "endpoint_info"              -> ReadEndpointInfo(p)
    [] p.status = "device_identity"            -> ReadDeviceIdentity(p)
    [] p.status = "stream_configuration_notify" -> StreamConfiguration(p)
    [] p.status = "function_block_info"        -> ReadFunctionBlockInfo(p)

\* Packets of a text are appended; one that continues nothing is left out.
Hear ==
  /\ replies # <<>>
  /\ LET p      == Head(replies)
         f      == FactOf(p)
         begins == p.format \in {"complete", "start"}
         whole  == IF begins THEN Text(p) ELSE partial[f] \o Text(p)
     IN  /\ torn' = IF begins THEN torn \ {f} ELSE torn
         /\ hurt' = IF p.format \in {"complete", "end"} THEN hurt \ ({f} \ torn') ELSE hurt
         /\ \/ ~IsText(p) /\ known' = [known EXCEPT ![f] = <<Reading(p)>>] /\ UNCHANGED partial
            \/ /\ IsText(p) /\ (begins \/ partial[f] # NoText)
               /\ \/ /\ p.format \in {"complete", "end"}
                     /\ known' = [known EXCEPT ![f] = <<whole>>]
                     /\ partial' = [partial EXCEPT ![f] = NoText]
                  \/ /\ p.format \in {"start", "cont"}
                     /\ partial' = [partial EXCEPT ![f] = whole]
                     /\ UNCHANGED known
            \/ /\ IsText(p) /\ ~begins /\ partial[f] = NoText
               /\ UNCHANGED <<known, partial>>
  /\ replies' = Tail(replies)
  /\ UNCHANGED <<endpointVars, requests, asked, counters>>

Lose ==
  /\ losses < MaxLosses /\ replies # <<>>
  /\ losses' = losses + 1
  /\ hurt' = hurt \union {FactOf(Head(replies))}
  /\ torn' = torn \union {FactOf(Head(replies))}
  /\ replies' = Tail(replies)
  /\ UNCHANGED <<endpointVars, requests, known, partial, asked, asks, announcements>>

Next ==
  \/ \E filter \in EndpointFilters : AskEndpoint(filter)
  \/ \E filter \in BlockFilters, block \in 0..NumBlocks - 1 \union {AllBlocks} :
       AskBlocks(block, filter)
  \/ \E c \in Configurations : AskConfiguration(c)
  \/ Answer
  \/ \E name \in NewNames : Announce(name)
  \/ Hear
  \/ Lose

Spec == Init /\ [][Next]_vars

\* Requests are handled and replies heard: both are calls that return.
FairSpec == Spec /\ WF_vars(Answer) /\ WF_vars(Hear)

-----------------------------------------------------------------------------
(* Properties *)

TypeOK ==
  /\ \A f \in Facts : Len(known[f]) <= 1
  /\ \A c \in {truth[<<"configuration">>]} \union Range(known[<<"configuration">>]) :
       c \in StreamConfigurations
  /\ \A i \in DOMAIN replies : FactOf(replies[i]) \in Facts
  /\ asked \subseteq Facts /\ torn \subseteq hurt /\ hurt \subseteq Facts
  /\ asks \in 0..MaxAsks /\ announcements \in 0..MaxAnnouncements /\ losses \in 0..MaxLosses

\* What the host knows was true: texts of any length come back together, bursts of
\* replies do not mix them up, and a lost packet hurts only the text it is of, and
\* only until that text is told whole again.
KnownIsTrue == \A f \in Facts \ hurt : Range(known[f]) \subseteq had[f]

\* When nothing is under way host and endpoint agree on all the host asked for,
\* the protocol among it, whoever changed it last.
QuietMeansAgreed ==
  requests = <<>> /\ replies = <<>> =>
    \A f \in asked \ hurt : known[f] = <<truth[f]>>

\* What was asked for is known in the end, and stays current.
AskedIsLearned ==
  \A f \in Facts : <>[](f \in asked => f \in hurt \/ known[f] = <<truth[f]>>)

=============================================================================
