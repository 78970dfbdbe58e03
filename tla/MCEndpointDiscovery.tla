------------------------ MODULE MCEndpointDiscovery -------------------------
(* An endpoint with two function blocks.  A packet takes 3 characters, the *)
(* texts are as long as 1 to 3 packets and one less or more.               *)
EXTENDS EndpointDiscovery

Letters(n) == [i \in 1..n |-> 60 + i]

MCEndpoint == [f \in Facts |->
  CASE f = <<"info">> ->
         [major |-> 1, minor |-> 1, static |-> TRUE, blocks |-> 2, protocols |-> 3, extensions |-> 1]
    [] f = <<"identity">> ->
         [manufacturer |-> <<0, 33, 9>>, family |-> 5936, model |-> 49, revision |-> 2113665]
    [] f = <<"name">> -> Letters(7)
    [] f = <<"product">> -> Letters(5)
    [] f = <<"configuration">> -> [protocol |-> 1, extensions |-> 0]
    [] f = <<"info", 0>> ->
         [active |-> TRUE, direction |-> 3, midi1 |-> 0, hint |-> 1, first |-> 0, groups |-> 1,
          ci |-> 2, streams |-> 0]
    [] f = <<"info", 1>> ->
         [active |-> FALSE, direction |-> 1, midi1 |-> 2, hint |-> 1, first |-> 15, groups |-> 15,
          ci |-> 0, streams |-> 4]
    [] f = <<"name", 0>> -> Letters(2)
    [] f = <<"name", 1>> -> Letters(5)]

MCNewNames == {Letters(4)}
MCEndpointFilters ==
  {{"info", "identity", "name", "product", "configuration"}, {"name"}, {"identity", "configuration"}}
MCBlockFilters == {{"info", "name"}, {"name"}}
MCConfigurations == {[protocol |-> 1, extensions |-> 0], [protocol |-> 2, extensions |-> 3]}
=============================================================================
