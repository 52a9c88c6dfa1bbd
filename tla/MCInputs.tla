------------------------------ MODULE MCInputs ------------------------------
(* What the Reconciler is given for model checking, as values, and the     *)
(* assumption that config and traefik come to these values from an         *)
(* environment and from label maps.                                        *)
EXTENDS Reconciler, TLC

CONSTANTS Unset, Garbage, Unreadable, Blank

\* "a" and "b" pass the filters, "x" does not.
MCNames == {"a", "b", "x"}
MCMatching == {"a", "b"}
MCIPs == {"target", "other"}
MCTargetIP == "target"
MCTypes == {"A"}

\* A label map with two rules, and one whose first name is filtered.
MCHostLists == [two   |-> {<<"a", "b">>, <<"b", "a">>},
                mixed |-> {<<"x", "b">>}]
MCLabelSets == DOMAIN MCHostLists
MCArgLists == {<<"x", "a">>}

-----------------------------------------------------------------------------
Conf == INSTANCE Settings WITH Names <- MCNames, Addresses <- MCIPs

Given(v) == [value |-> v, file |-> Unset]
GivenEnvironment ==
    [TECHNITIUM_URL |-> Given("url"), TECHNITIUM_TOKEN |-> Given("token"),
     TECHNITIUM_ZONE |-> Given("zone"), TARGET_IP |-> Given("target"),
     TTL |-> Unset, HEALTH_PORT |-> Unset,
     INCLUDE_PATTERN |-> Unset, EXCLUDE_PATTERN |-> {"x"},
     DOCKER_MODE |-> Unset, RECONCILE_ON_STARTUP |-> Unset,
     DRY_RUN |-> Unset, LOG_LEVEL |-> Unset]

Parser == INSTANCE Labels WITH Trimmed <- [t \in MCNames |-> t]

Rule(names) == [i \in DOMAIN names |-> [kind |-> "Host", args |-> <<names[i]>>]]
Router(name) == <<"traefik", "http", "routers", name, "rule">>
LabelMaps ==
    [two   |-> Router("web") :> Rule(<<"a">>) @@ Router("api") :> Rule(<<"b">>),
     mixed |-> Router("web") :> Rule(<<"x", "b", "b">>)]

ASSUME InputsAreTheirs ==
    /\ Conf!Errors(GivenEnvironment) = {}
    /\ MCTargetIP = Conf!Config(GivenEnvironment).TargetIP
    /\ MCMatching = {h \in MCNames : Conf!MatchesFilters(Conf!Config(GivenEnvironment), h)}
    /\ MCHostLists = [l \in DOMAIN LabelMaps |-> Parser!ExtractHosts(LabelMaps[l])]
=============================================================================
