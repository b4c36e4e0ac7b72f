----------------------------- MODULE ConfigManager -----------------------------
(***************************************************************************)
(* How a service comes to its settings: an environment variable, else the  *)
(* last line of the file .env that names the key, else the default of      *)
(* UberUtils::CONFIG.  A process names the file before it starts a thread, *)
(* and it is read once, so a setting is a function of the three.  Of the   *)
(* text of a value matters what std::stoi makes of it: a number or nothing.*)
(***************************************************************************)
EXTENDS Integers, Sequences
LOCAL INSTANCE SequencesExt

Unset == [kind |-> "unset"]       \* no such variable, no such line
Unreadable == [kind |-> "word"]   \* std::stoi throws: no digits, or too many
Number(n) == [kind |-> "number", is |-> n]

\* A line of the file: a setting, or "other": a comment, no key, no "=".
Setting(key, value) == [kind |-> "setting", key |-> key, value |-> value]
Other == [kind |-> "other"]

\* loadUnlocked: a later line replaces an earlier one.
Values(lines, keys) ==
    [key \in keys |->
        FoldLeft(LAMBDA value, line : IF line.kind = "setting" /\ line.key = key
                                      THEN line.value ELSE value, Unset, lines)]

\* Variant: the file before the environment.
FileFirst(environment, values, key, default) ==
    IF values[key] # Unset THEN values[key]
    ELSE IF environment[key] # Unset THEN environment[key] ELSE default

GetString(environment, values, key, default) ==
    IF environment[key] # Unset THEN environment[key]
    ELSE IF values[key] # Unset THEN values[key] ELSE default

\* What is found but cannot be read gives the default, never the next source.
GetInt(environment, values, key, default) ==
    LET value == GetString(environment, values, key, Number(default))
    IN  IF value = Unreadable THEN default ELSE value.is

GetUnsigned(environment, values, key, default) ==
    LET parsed == GetInt(environment, values, key, default)
    IN  IF parsed < 0 THEN default ELSE parsed

-----------------------------------------------------------------------------
(* The ports of the services: getUserManagerHttpPort and its like *)

Services == {"USER_MANAGER", "LOCATION_MANAGER", "RIDE_MANAGER"}

DefaultPort == [s \in Services |-> CASE s = "USER_MANAGER" -> 8081
                                     [] s = "LOCATION_MANAGER" -> 8082
                                     [] s = "RIDE_MANAGER" -> 8083]

\* .env, as far as the ports go.
EnvFile == <<Setting("USER_MANAGER", Number(8081)), Other,
             Setting("RIDE_MANAGER", Number(8082)), Setting("LOCATION_MANAGER", Number(8083))>>

HttpPort(environment, lines, s) ==
    GetUnsigned(environment, Values(lines, Services), s, DefaultPort[s])

-----------------------------------------------------------------------------
(* Properties *)

\* Each service's variable is not set, negative, cannot be read, or names a port no
\* other service has.
Spoilt == {Unreadable, Number(-8082)}
OwnPort == [s \in Services |-> Number(DefaultPort[s] + 1000)]
Overrides == {f \in [Services -> {Unset} \cup Spoilt \cup {OwnPort[s] : s \in Services}] :
                 \A s \in Services : f[s] \in {Unset, OwnPort[s]} \cup Spoilt}

\* Where variables name ports of nobody else, the services get three ports on one
\* host, except when exactly one of RideManager and LocationManager has its own
\* port from .env and the other's variable cannot be used: its default is then that
\* port (config.h:77, :87 against .env), where a wrong setting should have kept the
\* service on the port of the file or none.
PortsApartUnder(environment, lines) ==
    LET port(s) == HttpPort(environment, lines, s)
    IN  (\E s, t \in Services : s # t /\ port(s) = port(t)) <=>
            /\ lines = EnvFile
            /\ {environment["RIDE_MANAGER"], environment["LOCATION_MANAGER"]}
                  \in {{Unset, value} : value \in Spoilt}
=============================================================================
