------------------------------ MODULE MCDocker ------------------------------
(* Values of the constants of Docker for TLC.                              *)
EXTENDS Docker, TLC

MCNames == {"a", "b"}

\* " a " is another text for the same name.
MCTrimmed == [t \in {"a", " a ", "b", " "} |->
    CASE t = " a " -> "a" [] t = " " -> Blank [] OTHER -> t]

Router(name) == <<"traefik", "http", "routers", name, "rule">>
Matcher(kind, args) == [kind |-> kind, args |-> args]
Host(text) == Matcher("Host", <<text>>)

\* Three rules with a name in common, and a rule beside labels that are none.
MCTwins == Router("http") :> <<Host("a"), Matcher("PathPrefix", <<"b">>)>>
        @@ Router("https") :> <<Host(" a "), Host("b")>>
        @@ Router("") :> <<Host("b"), Host("b")>>
MCOdd == Router("web") :> <<Host(" "), Matcher("Host", <<"a", "b">>), Host("b")>>
      @@ <<"traefik", "http", "routers", "rule">> :> <<Host("a")>>
      @@ <<"traefik", "tcp", "routers", "web", "rule">> :> <<Matcher("HostSNI", <<"a">>)>>
      @@ <<"traefik", "enable">> :> <<>>
MCLabelMaps == {MCTwins, MCOdd}

-----------------------------------------------------------------------------
Value(v)    == [value |-> v, file |-> Unset]
File(v)     == [value |-> Unset, file |-> v]
Word(w)     == [word |-> w, style |-> "plain"]
Padded(w)   == [word |-> w, style |-> "padded"]
Spelt(w)    == [word |-> w, style |-> "upper"]

MCGood ==
    [TECHNITIUM_URL |-> Value("url"), TECHNITIUM_TOKEN |-> File("token"),
     TECHNITIUM_ZONE |-> Value("zone"), TARGET_IP |-> Value("ip"),
     TTL |-> Unset, HEALTH_PORT |-> Unset,
     INCLUDE_PATTERN |-> Unset, EXCLUDE_PATTERN |-> Unset,
     DOCKER_MODE |-> Unset, RECONCILE_ON_STARTUP |-> Unset,
     DRY_RUN |-> Unset, LOG_LEVEL |-> Unset]

\* Values that Load refuses, and others that it takes.
Bad(v) ==
    CASE v \in WithFile \ {"TARGET_IP"} -> {Value(Unset), File(Unreadable)}
      [] v = "TARGET_IP" -> {Value(Unset), Value("host"), [value |-> "host", file |-> "ip"]}
      [] v = "TTL" -> {Garbage, 0, -1}
      [] v = "HEALTH_PORT" -> {Garbage, 0, 65536}
      [] v \in Patterns -> {Garbage}
      [] v \in {"DOCKER_MODE", "LOG_LEVEL"} -> {Word("other"), Padded("auto"), Padded("info")}
      [] OTHER -> {}
Fine(v) ==
    CASE v = "TTL" -> {1}
      [] v = "HEALTH_PORT" -> {1, 65535}
      [] v \in Patterns -> {{"a"}}
      [] v = "DOCKER_MODE" -> {Word("swarm"), Spelt("standalone")}
      [] v \in {"DRY_RUN", "RECONCILE_ON_STARTUP"} -> {Padded("on"), Word("no"), Word("ture")}
      [] OTHER -> {}

\* One variable set otherwise, or two set wrongly.
MCEnvironments ==
    {MCGood}
    \union UNION {{[MCGood EXCEPT ![v] = x] : x \in Fine(v)} : v \in DOMAIN MCGood}
    \union UNION {{[MCGood EXCEPT ![v] = x, ![w] = y] : x \in Bad(v), y \in Bad(w)} :
                     v \in DOMAIN MCGood, w \in DOMAIN MCGood}
=============================================================================
