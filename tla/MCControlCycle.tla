--------------------------- MODULE MCControlCycle ---------------------------
(* SOC 1 is at MIN_SOC and the emergency level, 3 at the trigger, 5 and 6 are  *)
(* the reserves, 5 below the higher one, and 6 is MAX_SOC.  A configuration for *)
(* every mode and every state of Battery Care.                                 *)
EXTENDS ControlCycle

Make(c, r, m, n) == [care |-> c, reserve |-> r, manual |-> m, night |-> n]

AllConfigs ==
  {Make("in", 5, "AUTO", FALSE), Make("in", 6, "AUTO", TRUE),
   Make("out", 5, "AUTO", FALSE), Make("invalid", 5, "AUTO", FALSE),
   Make("off", 5, "AUTO", TRUE), Make("in", 5, "STOP_HOLD", FALSE),
   Make("in", 5, "FIXED_DISCHARGE", FALSE), Make("off", 5, "FIXED_CHARGE", FALSE)}
=============================================================================
