---------------------------- MODULE MCSharedServer ----------------------------
(* Values of the constants of SharedServer for TLC: RideManager's topics and *)
(* the consumers that listen to them.                                        *)
EXTENDS SharedServer, ConfigManager

CONSTANTS rides, locations, events, bridge

MCTopicOf == [c \in Consumers |-> IF c = events THEN rides ELSE locations]

\* Whatever variables are set, usable and spoilt ones mixed, and with or without the
\* file, services that start get ports of their own, but for the case
\* PortsApartUnder names; variables that name one port twice are left out (config.h:77,
\* :87, initializeConfigs).
PortsStayApart ==
    ServerInit => \A environment \in Overrides, lines \in {<<>>, EnvFile} :
                      PortsApartUnder(environment, lines)
=============================================================================
