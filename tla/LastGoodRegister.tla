-------------------------- MODULE LastGoodRegister --------------------------
(***************************************************************************)
(* What the Last-Good store promises to the rest of ZEC: a register that   *)
(* holds the configuration a recovery start would use.  A promotion first  *)
(* offers a configuration and then installs it in one indivisible step, or *)
(* abandons it; while the register is anchored nothing else changes it.    *)
(* Only a disturbance from outside (a damaged file, a change of the        *)
(* controller version) can take the anchor away; until the next install    *)
(* the register then gives no guarantee.                                   *)
(***************************************************************************)
EXTENDS Naturals

CONSTANTS Configs,  \* the configurations that can be promoted
          None      \* "no configuration", not one of Configs

VARIABLES value,        \* what a recovery start would use now
          anchored,     \* the value is protected
          offered,      \* the configuration being promoted, or None
          disturbances  \* how often the environment has interfered

registerVars == <<value, anchored, offered, disturbances>>

RegisterInit ==
  /\ value = None
  /\ anchored = FALSE
  /\ offered = None
  /\ disturbances = 0

\* A promotion starts.
Offer(c) ==
  /\ offered = None
  /\ offered' = c
  /\ UNCHANGED <<value, anchored, disturbances>>

\* The offered configuration becomes the protected value.
Install ==
  /\ offered \in Configs
  /\ value' = offered
  /\ anchored' = TRUE
  /\ UNCHANGED <<offered, disturbances>>

\* A promotion ends: after its install, or by a failure or a crash before it.
Close ==
  /\ offered' = None
  /\ UNCHANGED <<value, anchored, disturbances>>

\* Without an anchor the value may move, and the anchor may come back.
Drift ==
  /\ ~anchored
  /\ value' \in Configs \cup {None}
  /\ anchored' \in BOOLEAN
  /\ anchored' => value' # None
  /\ offered' \in {offered, None}
  /\ UNCHANGED disturbances

\* The environment damages the store or changes the controller version.
Disturb ==
  /\ disturbances' = disturbances + 1
  /\ value' \in Configs \cup {None}
  /\ anchored' \in BOOLEAN
  /\ offered' \in {offered, None}

RegisterNext ==
  \/ \E c \in Configs : Offer(c)
  \/ Install
  \/ Close
  \/ Drift
  \/ Disturb

RegisterSpec == RegisterInit /\ [][RegisterNext]_registerVars
=============================================================================
