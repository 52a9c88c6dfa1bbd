------------------------------- MODULE Labels -------------------------------
(***************************************************************************)
(* internal/traefik: the names in the labels of a workload.  A label map   *)
(* is a function from keys, split at the dots, to rules; a rule is the     *)
(* sequence of its matchers [kind, args] - Host(`a`) is the kind "Host"    *)
(* with one argument - whatever stands between them: the expression the    *)
(* code looks for knows neither && and || nor the ! before a matcher.      *)
(***************************************************************************)
EXTENDS Naturals, Sequences, SequencesExt

CONSTANTS
    Trimmed,   \* text between backquotes -> the name strings.TrimSpace leaves
    Blank      \* no name: the text is empty or all blanks

\* A Go map is finite, and an expression has its matchers one after another.
IsLabelMap(map) ==
    /\ IsFiniteSet(DOMAIN map)
    /\ \A key \in DOMAIN map : map[key] \in Seq(Range(map[key]))

\* The router may be the empty name.
IsRouterRuleLabel(key) ==
    /\ Len(key) >= 5
    /\ SubSeq(key, 1, 3) = <<"traefik", "http", "routers">>
    /\ Last(key) = "rule"

\* What hostRegex matches: one argument, no other kind.
IsHost(matcher) == matcher.kind = "Host" /\ Len(matcher.args) = 1

\* Slip: nothing is looked up in seen.
AppendHost(hosts, matcher) ==
    IF IsHost(matcher) /\ Trimmed[matcher.args[1]] # Blank
      THEN Append(hosts, Trimmed[matcher.args[1]])
      ELSE hosts

\* One match: trimmed, dropped if blank or seen before.
AddHost(hosts, matcher) ==
    LET name == Trimmed[matcher.args[1]]
    IN  IF IsHost(matcher) /\ name # Blank /\ ~Contains(hosts, name)
          THEN Append(hosts, name)
          ELSE hosts

AddRule(hosts, rule) == FoldLeft(AddHost, hosts, rule)

ExtractHostsFromRule(rule) == AddRule(<<>>, rule)

RuleLabels(labels) == {key \in DOMAIN labels : IsRouterRuleLabel(key)}

\* The lists ExtractHosts may return: Go iterates over a map in any order.
ExtractHosts(labels) ==
    {FoldLeft(LAMBDA hosts, key : AddRule(hosts, labels[key]), <<>>, order) :
        order \in SetToSeqs(RuleLabels(labels))}
=============================================================================
