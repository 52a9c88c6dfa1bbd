------------------------------ MODULE Settings ------------------------------
(***************************************************************************)
(* internal/config: what Load makes of the environment.  An environment    *)
(* gives every variable the value the code can tell apart:                 *)
(*   TECHNITIUM_*, TARGET_IP   [value, file]: the variable, and what the   *)
(*                             file of its _FILE variable holds            *)
(*   TTL, HEALTH_PORT          a number, or Garbage                        *)
(*   *_PATTERN                 the names the expression matches, or        *)
(*                             Garbage if it does not compile              *)
(*   the others                [word, style]: a word in small letters, and *)
(*                             how it is spelt                             *)
(* or Unset, which is also the empty string.                               *)
(***************************************************************************)
EXTENDS Integers

CONSTANTS
    Names,       \* names workloads are published under
    Addresses,   \* what net.ParseIP accepts
    Unset,       \* not set, or set to the empty string
    Garbage,     \* set to something the parser refuses
    Unreadable   \* a file that cannot be read

ASSUME SettingsAssumption ==
    /\ Unset \notin Addresses
    /\ Garbage \notin Addresses
    /\ Garbage # Names
    /\ Unset # Garbage

WithFile == {"TECHNITIUM_URL", "TECHNITIUM_TOKEN", "TECHNITIUM_ZONE", "TARGET_IP"}
Numbers  == {"TTL", "HEALTH_PORT"}
Patterns == {"INCLUDE_PATTERN", "EXCLUDE_PATTERN"}
Words    == {"DOCKER_MODE", "RECONCILE_ON_STARTUP", "DRY_RUN", "LOG_LEVEL"}
Variables == WithFile \union Numbers \union Patterns \union Words

Modes  == {"auto", "swarm", "standalone"}
Levels == {"debug", "info", "warn", "error"}
Yes    == {"true", "1", "yes", "on"}
No     == {"false", "0", "no", "off"}

\* The variable itself, else the trimmed file; a file that cannot be read is
\* no error here.
GetEnvOrFile(v) ==
    IF v.value # Unset THEN v.value
    ELSE IF v.file = Unreadable THEN Unset ELSE v.file

OrElse(v, default) == IF v = Unset THEN default ELSE v

\* strings.ToLower alone: blanks around the word stay.
Lowered(v, default) ==
    IF v = Unset THEN default
    ELSE IF v.style = "padded" THEN Garbage ELSE v.word

\* parseBool trims, and takes a word it does not know for the default.
ParseBool(v, default) ==
    IF v = Unset THEN default
    ELSE IF v.word \in Yes THEN TRUE
    ELSE IF v.word \in No THEN FALSE
    ELSE default

ValidPort(n) == n \in 1 .. 65535
ValidTTL(n)  == n >= 1

\* The variables Load complains about.
Complaints(env) ==
    {v \in WithFile : GetEnvOrFile(env[v]) = Unset}
    \union {v \in {"TARGET_IP"} : GetEnvOrFile(env[v]) \notin Addresses}
    \union {v \in Numbers : env[v] = Garbage}
    \union {v \in {"TTL"} : env[v] \notin {Unset, Garbage} /\ ~ValidTTL(env[v])}
    \union {v \in {"HEALTH_PORT"} : env[v] \notin {Unset, Garbage} /\ ~ValidPort(env[v])}
    \union {v \in Patterns : env[v] = Garbage}
    \union {v \in {"DOCKER_MODE"} : Lowered(env[v], "auto") \notin Modes}
    \union {v \in {"LOG_LEVEL"} : Lowered(env[v], "info") \notin Levels}

\* Slip: Load returns at the first error.
FirstComplaint(env) == IF Complaints(env) = {} THEN {} ELSE {CHOOSE v \in Complaints(env) : TRUE}

\* errs: all of them are collected.
Errors(env) == Complaints(env)

\* The Config of an environment without errors.
Config(env) ==
    [TechnitiumURL      |-> GetEnvOrFile(env["TECHNITIUM_URL"]),
     TechnitiumToken    |-> GetEnvOrFile(env["TECHNITIUM_TOKEN"]),
     TechnitiumZone     |-> GetEnvOrFile(env["TECHNITIUM_ZONE"]),
     TargetIP           |-> GetEnvOrFile(env["TARGET_IP"]),
     TTL                |-> OrElse(env["TTL"], 300),
     IncludePattern     |-> OrElse(env["INCLUDE_PATTERN"], Names),
     ExcludePattern     |-> env["EXCLUDE_PATTERN"],
     DockerMode         |-> Lowered(env["DOCKER_MODE"], "auto"),
     ReconcileOnStartup |-> ParseBool(env["RECONCILE_ON_STARTUP"], TRUE),
     DryRun             |-> ParseBool(env["DRY_RUN"], FALSE),
     HealthPort         |-> OrElse(env["HEALTH_PORT"], 8080),
     LogLevel           |-> Lowered(env["LOG_LEVEL"], "info")]

\* No exclude pattern is nil.
MatchesFilters(cfg, hostname) ==
    /\ hostname \in cfg.IncludePattern
    /\ cfg.ExcludePattern = Unset \/ hostname \notin cfg.ExcludePattern
=============================================================================
