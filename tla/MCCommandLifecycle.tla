------------------------- MODULE MCCommandLifecycle -------------------------
(***************************************************************************)
(* Instances of CommandLifecycle for TLC.                                  *)
(***************************************************************************)
EXTENDS CommandLifecycle

\* All four properties travel and are reported together.
Together == {Props}

\* Commands in both directions and one fault, without the local API.
BothDirections ==
  [requests |-> {"charge", "discharge", "hold"}, api |-> FALSE,
   faults |-> {"conflict", "expire", "outage", "reboot", "restart", "stale"}, most |-> 1]
\* The local API is read, too, and two faults may meet.
TwoReadings ==
  {[requests |-> {"discharge"}, api |-> TRUE, faults |-> f, most |-> 2] :
     f \in {{"expire", "outage", "reboot", "restart"}, {"reboot", "retained"}}}
\* MQTT_DISCONNECTED_SAFE_STATE before the first connection.
BeforeConnecting ==
  [requests |-> {"discharge", "disconnected"}, api |-> TRUE, faults |-> {"retained"}, most |-> 1]
GuardWorlds == {BothDirections, BeforeConnecting} \cup TwoReadings

\* Every kind of a zero target, any number of lost messages.
LossyWorlds ==
  {[requests |-> {"discharge", "neutral", "unforced", "zero"}, api |-> FALSE,
    faults |-> {"conflict", "loss", "retained"}, most |-> 1]}
=============================================================================
