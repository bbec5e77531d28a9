-------------------------- MODULE BatteryCarePolicy --------------------------
(* The policy of Battery Care (battery_care_policy.py): when the battery is    *)
(* charged from the grid, up to which SOC, and when that episode is over.      *)
(*                                                                             *)
(* A configuration c has c.care: "off", "invalid" (CareConfig.validate finds   *)
(* an issue), "out" (of season) or "in"; and c.reserve, the reserve SOC.  An   *)
(* observation o has the SOC, whether it and the safety inputs are usable      *)
(* (o.usable), whether a stage-two charge is acceptable (grid_stage_two_       *)
(* eligible, o.eligible) and whether three seconds have passed since the first *)
(* low sample (o.elapsed).  Sample identifiers are the flag ep.seen: the last  *)
(* evaluated sample is still the current one.                                  *)
EXTENDS Integers

CONSTANTS
  Soc,          \* SOC readings
  MinSoc, MaxSoc,
  EmergencySoc, \* BATTERY_CARE_EMERGENCY_SOC_PERCENT
  TriggerSoc,   \* BATTERY_CARE_GRID_TRIGGER_SOC_PERCENT
  Reserve       \* the values BATTERY_CARE_RESERVE_SOC_PERCENT takes

ASSUME SocAssumption == Soc \subseteq Nat /\ {MinSoc, MaxSoc} \subseteq Nat
\* What validate demands of every accepted configuration.
ASSUME ThresholdAssumption ==
  /\ EmergencySoc \in Nat /\ TriggerSoc \in Nat /\ Reserve \subseteq Nat
  /\ TriggerSoc - EmergencySoc >= 2
  /\ \A r \in Reserve : r - TriggerSoc >= 2 /\ r <= MaxSoc

None == 0       \* no reserve: in a latch, no episode

(* CareEpisode.  lows is consecutive_low_samples, of which only "two or more"  *)
(* matters, done is completed_sample_count.                                    *)
Episode == [level : {0, 2, 3}, reserve : Reserve \cup {None}, seen : BOOLEAN,
            lows : 0..2, done : 0..1]
NoEpisode == [level |-> 0, reserve |-> None, seen |-> FALSE, lows |-> 0, done |-> 0]

(* CareEpisodeStore.signature, and what load makes of it: no confirmation      *)
(* survives.                                                                   *)
Latch == {[level |-> 0, reserve |-> None]} \cup [level : {2, 3}, reserve : Reserve]
NoLatch == [level |-> 0, reserve |-> None]
LatchOf(ep) == IF ep.level = 0 THEN NoLatch ELSE [level |-> ep.level, reserve |-> ep.reserve]
EpisodeOf(latch) == [NoEpisode EXCEPT !.level = latch.level, !.reserve = latch.reserve]

(* _battery_care_reserve_soc.                                                  *)
CareFloor(c) == IF c.care = "in" THEN c.reserve ELSE None

(* A running episode keeps its reserve.                                        *)
\* ConfiguredReserve: the episode follows the settings.
ConfiguredReserve(c, ep) == c.reserve
EpisodeReserve(c, ep) ==
  IF ep.level # 0 THEN ep.reserve ELSE c.reserve

Decision(intent, ep) == [intent |-> intent, ep |-> ep]
IntentOf(level) == IF level = 3 THEN "emergency" ELSE "regular"

(* The SOC is back at the reserve: a second distinct sample ends an episode.   *)
Confirmed(ep) ==
  [ep EXCEPT !.seen = TRUE, !.done = IF ep.seen THEN @ ELSE @ + 1]

Recovered(ep) ==
  IF ep.level # 0 /\ Confirmed(ep).done < 2
    THEN Decision(IntentOf(ep.level), Confirmed(ep))
    ELSE Decision("none", NoEpisode)

(* At or below the trigger: two distinct samples and three seconds start a     *)
(* regular episode.                                                            *)
LowSample(ep) ==
  [ep EXCEPT !.seen = TRUE,
             !.lows = IF ep.seen THEN @ ELSE IF @ = 2 THEN 2 ELSE @ + 1]

Regular(ep, o) == Decision(IF o.eligible THEN "regular" ELSE "none", ep)

BelowReserve(c, o, ep) ==
  LET here == [ep EXCEPT !.seen = TRUE, !.done = 0]
      low == [LowSample(ep) EXCEPT !.done = 0]
  IN CASE o.soc <= EmergencySoc \/ ep.level = 3 ->
            Decision("emergency",
                     [here EXCEPT !.level = 3, !.reserve = EpisodeReserve(c, ep)])
       [] o.soc > EmergencySoc /\ ep.level = 2 -> Regular(here, o)
       [] o.soc > EmergencySoc /\ ep.level = 0 ->
            IF o.soc > TriggerSoc THEN Decision("none", [here EXCEPT !.lows = 0])
            ELSE IF low.lows = 2 /\ o.elapsed
              THEN Regular([low EXCEPT !.level = 2, !.reserve = c.reserve], o)
              ELSE Decision("none", low)

(* decide_care of a valid configuration in mode AUTO.                          *)
Decide(c, o, ep) ==
  IF c.care = "out" /\ ep.level # 3 THEN Decision("none", NoEpisode)
  ELSE IF ~o.usable THEN Decision("none", ep)
  ELSE IF o.soc >= EpisodeReserve(c, ep) THEN Recovered(ep)
  ELSE BelowReserve(c, o, ep)

===============================================================================
