----------------------------- MODULE ControlCycle -----------------------------
(* One cycle of the control loop (controller_logic.py: run_once and its        *)
(* handlers) and the Battery Care episode it keeps in memory and in the event  *)
(* database.  Each cycle reads the configuration, routes to one mode and       *)
(* leaves one signed target: positive charges, negative discharges.            *)
(*                                                                             *)
(* Powers are a few levels, and one level is one ramp step.  Measured grid     *)
(* power is its relation to the deadband, the cross-charge protection and the  *)
(* device limits may bring any target nearer to zero, and a publish the        *)
(* late-effect guard refuses is a target of zero (CommandLifecycle models that *)
(* guard).  Smoothing, gains and the harvest and export arithmetic are an      *)
(* arbitrary new base within one step.  Fast Capture is off.  A cycle uses the *)
(* readings there are when a step begins.                                      *)
EXTENDS BatteryCarePolicy

CONSTANTS
  Configs,      \* contents of the configuration, see Config
  MaxW          \* MAX_CHARGE_POWER_W, MAX_DISCHARGE_POWER_W, the care cap

Config == [care : {"off", "invalid", "out", "in"}, reserve : Reserve,
           manual : {"AUTO", "STOP_HOLD", "FIXED_DISCHARGE", "FIXED_CHARGE"},
           night : BOOLEAN]

ASSUME ConfigAssumption == Configs \subseteq Config /\ Configs # {}
ASSUME MaxWAssumption == MaxW \in Nat \ {0}

VARIABLES
  soc, fresh,   \* battery_soc, and whether it is fresh
  target,       \* last_input_power - last_output_power
  mode,         \* current_mode, "HOLD" for all that nothing depends on
  base,         \* _care_pv_baseline_target_w
  pvLive, pvPending,    \* _care_pv_live_active, _return_to_baseline_pending
  candidate,    \* care_pv_shadow_candidate_w, 0 when it adds nothing
  gridLive,     \* _care_grid_live_active
  ep, loaded,   \* _care_grid_episode, _loaded
  sig,          \* _care_grid_episode_signature
  clearFailed, disabledChecked,
  intent,       \* what a dispatch may act on: shadow decision and readiness
  latch,        \* the row in the event database
  pc, cfg,      \* where the cycle is, and its configuration
  share,        \* history: the part of the target that Battery Care asked for
  stopped       \* history: "stopped" once the last episode met a cycle without
                \* Battery Care; "revived" when it could not be cleared, the
                \* process started again and has not written the row since

reading == <<soc, fresh>>
care == <<ep, loaded, sig, clearFailed, disabledChecked, latch, stopped>>
pv == <<base, pvLive, pvPending>>
vars == <<reading, target, mode, pv, candidate, gridLive, care, intent, pc, cfg, share>>

Lower(a, b) == IF a < b THEN a ELSE b
Higher(a, b) == IF a > b THEN a ELSE b
Between(t) == IF t >= 0 THEN 0..t ELSE t..0
Near(w) == {x \in 0..MaxW : x - w \in -1..1}

Wanted(c) == c.care # "off" /\ c.manual = "AUTO"
AutoFloor == Higher(MinSoc, CareFloor(cfg))
Running == {"route", "care", "dispatch", "auto"}

Init ==
  /\ soc \in Soc /\ fresh = FALSE
  /\ target = 0 /\ mode = "START" /\ base = 0 /\ pvLive = FALSE /\ pvPending = FALSE
  /\ candidate = 0 /\ gridLive = FALSE
  /\ ep = NoEpisode /\ loaded = FALSE /\ sig = NoLatch
  /\ clearFailed = FALSE /\ disabledChecked = FALSE /\ intent = "none"
  /\ latch = NoLatch /\ pc = "idle" /\ cfg \in Configs /\ share = 0 /\ stopped = "no"

(***************************************************************************)
(* Readings arrive and age whenever they like.                             *)
(***************************************************************************)
Sample ==
  /\ soc' \in Soc /\ fresh' = TRUE
  /\ ep' = [ep EXCEPT !.seen = FALSE]
  /\ pc' = IF pc = "settled" THEN "idle" ELSE pc
  /\ UNCHANGED <<target, mode, pv, candidate, gridLive, loaded, sig, clearFailed,
                 disabledChecked, latch, stopped, intent, cfg, share>>

Age ==
  /\ fresh /\ fresh' = FALSE
  /\ pc' = IF pc = "settled" THEN "idle" ELSE pc
  /\ UNCHANGED <<soc, target, mode, pv, candidate, gridLive, care, intent, cfg, share>>

(***************************************************************************)
(* The handlers: what one cycle makes of the target.                       *)
(***************************************************************************)
(* The next cycle reads its own configuration: of this one only whether    *)
(* Battery Care was wanted is kept.                                        *)
Resting == CHOOSE c \in Configs : Wanted(c) = Wanted(cfg)
Leave == pc' = "idle" /\ intent' = "none" /\ candidate' = 0 /\ cfg' = Resting
Settle == pc' = "settled" /\ intent' = "none" /\ candidate' = 0 /\ cfg' = Resting

(* The new target, and the part of it that is still Battery Care's.        *)
Command(t, m) ==
  /\ target' = t /\ mode' = m
  /\ share' = Lower(share, Higher(t, 0))

(* safe_state, soc_limit_hold, stop_hold.                                  *)
Neutral == Command(0, "HOLD")

RampDownCharge ==
  \E s \in Between(Higher(0, target - 1)) : Command(s, "HOLD")
RampDownDischarge ==
  \E s \in Between(Lower(0, target + 1)) : Command(s, "HOLD")

(* handle_deadband: the reserve ends a discharge, harvest reduces a charge,*)
(* and cross-charge protection either; everything else holds.              *)
HandleDeadband ==
  IF CareFloor(cfg) # None /\ soc <= CareFloor(cfg) /\ target < 0 THEN Neutral
  ELSE (target > 0 /\ RampDownCharge) \/ \E s \in Between(target) : Command(s, "HOLD")

(* handle_discharge.  The mode lock holds for a time after a charge.       *)
\* MinFloor: the seasonal reserve does not bound the discharge.
MinFloor(c) == MinSoc
DischargeFloor(c) == Higher(MinSoc, CareFloor(c))

HandleDischarge ==
  IF soc <= DischargeFloor(cfg) THEN Neutral
  ELSE IF target > 0 THEN RampDownCharge
  ELSE \/ mode = "CHARGE" /\ HandleDeadband
       \/ \E b \in Near(-target) : \E s \in Between(-b) : Command(s, "HOLD")

(* handle_charge: the base is built on the base alone, never on Battery    *)
(* Care's part.  A positive candidate is an absolute target above the base.*)
ChargeFrom == IF pvLive \/ pvPending THEN base ELSE target

CareCharges == CareFloor(cfg) # None /\ soc < CareFloor(cfg) /\ candidate > 0

Promote(b, cross) ==
  LET wish == IF CareCharges /\ ~cross THEN Higher(b, candidate) ELSE b
  IN \E s \in Between(wish) :
       /\ target' = s /\ mode' = IF s = 0 /\ cross THEN "HOLD" ELSE "CHARGE"
       /\ base' = b /\ pvLive' = (s > b) /\ pvPending' = FALSE /\ gridLive' = FALSE
       /\ share' = IF s > b THEN s - b ELSE 0

HandleCharge ==
  CASE soc >= MaxSoc -> Neutral /\ UNCHANGED <<pv, gridLive>>
    [] soc < MaxSoc /\ target < 0 -> RampDownDischarge /\ UNCHANGED <<pv, gridLive>>
    [] soc < MaxSoc /\ target >= 0 ->
         \/ ~pvLive /\ ~pvPending /\ candidate = 0 /\ RampDownCharge
            /\ UNCHANGED <<pv, gridLive>>
         \/ \E b \in Near(ChargeFrom), cross \in BOOLEAN : Promote(b, cross)

(***************************************************************************)
(* The start of run_once.                                                  *)
(***************************************************************************)
(* _battery_care_clear_latch_for_explicit_stop, ok: the database answers.  *)
\* ClearedAnyway: a clear that failed is not remembered.
ClearedAnyway(ok) ==
  IF disabledChecked
    THEN UNCHANGED <<ep, sig, loaded, disabledChecked, clearFailed, latch>>
    ELSE /\ ep' = NoEpisode /\ sig' = NoLatch /\ loaded' = FALSE
         /\ disabledChecked' = TRUE /\ clearFailed' = FALSE
         /\ latch' = IF ok THEN NoLatch ELSE latch
ClearLatch(ok) ==
  IF disabledChecked /\ ~clearFailed
    THEN UNCHANGED <<ep, sig, loaded, disabledChecked, clearFailed, latch>>
  ELSE IF ok
    THEN /\ ep' = NoEpisode /\ sig' = NoLatch /\ loaded' = FALSE /\ latch' = NoLatch
         /\ disabledChecked' = TRUE /\ clearFailed' = FALSE
    ELSE /\ disabledChecked' = FALSE /\ clearFailed' = TRUE
         /\ UNCHANGED <<ep, sig, loaded, latch>>

(* Outside AUTO, and without a reserve, Battery Care's part is owed back.  *)
\* PvForgotten: it is no longer known that the target holds such a part.
PvForgotten(c) == pvLive' = FALSE /\ pvPending' = pvPending
PvReturn(c) ==
  IF c.manual # "AUTO" \/ CareFloor(c) = None
    THEN pvPending' = (pvPending \/ pvLive) /\ pvLive' = FALSE
    ELSE UNCHANGED <<pvLive, pvPending>>

BeginWanted(c) ==
  /\ pc \in {"idle", "settled"} /\ Wanted(c)
  /\ cfg' = c /\ pc' = "route"
  /\ PvReturn(c)
  /\ disabledChecked' = FALSE
  /\ UNCHANGED <<reading, target, mode, base, candidate, gridLive, ep, loaded, sig,
                 clearFailed, latch, stopped, intent, share>>

BeginUnwanted(c, ok) ==
  /\ pc \in {"idle", "settled"} /\ ~Wanted(c)
  /\ cfg' = c /\ pc' = "route"
  /\ PvReturn(c)
  /\ ClearLatch(ok)
  /\ stopped' = IF latch # NoLatch THEN "stopped" ELSE stopped
  /\ UNCHANGED <<reading, target, mode, base, candidate, gridLive, intent, share>>

(* Until the configuration is released the cycle only observes.            *)
Preflight ==
  /\ pc = "route" /\ mode = "START" /\ target = 0
  /\ Leave
  /\ UNCHANGED <<reading, target, mode, pv, gridLive, care, share>>

(***************************************************************************)
(* Safety stops and modes that end the cycle before Battery Care.          *)
(***************************************************************************)
NightEnds == ~cfg.night /\ mode = "NIGHT_DISCHARGE" /\ target < 0

(* MQTT is disconnected, or the grid reading is too old or failed once too *)
(* often: safe_state.                                                      *)
SafeStop ==
  /\ pc \in {"route", "care"}
  /\ Neutral /\ Leave
  /\ UNCHANGED <<reading, pv, gridLive, care>>

(* The grid cannot be read but was a moment ago: the exception ends the    *)
(* cycle and the target stands.                                            *)
Raised ==
  /\ pc = "care"
  /\ Leave
  /\ UNCHANGED <<reading, target, mode, share, pv, gridLive, care>>

(* handle_manual_mode: stop, a completed or a blocked fixed mode, or its   *)
(* fixed power.                                                            *)
Manual ==
  /\ pc = "route" /\ cfg.manual # "AUTO"
  /\ gridLive' = FALSE
  /\ IF cfg.manual = "STOP_HOLD" \/ ~fresh THEN Neutral
     ELSE \/ Neutral
          \/ /\ cfg.manual = "FIXED_DISCHARGE" /\ soc > MinSoc
             /\ \E s \in Between(-MaxW) :
                  target' = s /\ mode' = "HOLD" /\ share' = 0
          \/ /\ cfg.manual = "FIXED_CHARGE" /\ soc < MaxSoc
             /\ \E s \in Between(MaxW) :
                  target' = s /\ mode' = "HOLD" /\ share' = 0
  /\ Leave
  /\ UNCHANGED <<reading, pv, care>>

(* The night discharge above its reserve: handle_night_mode.  The reserve  *)
(* is the seasonal one or NIGHT_DISCHARGE_STOP_SOC_PERCENT, which is left  *)
(* open: NightPause may happen at any SOC.                                 *)
Night ==
  /\ pc = "route" /\ cfg.manual = "AUTO" /\ cfg.night
  /\ IF ~fresh \/ soc <= AutoFloor THEN Neutral
     ELSE \E s \in Between(-MaxW) : Command(s, "NIGHT_DISCHARGE")
  /\ ~fresh \/ CareFloor(cfg) = None \/ soc > AutoFloor
  /\ Leave
  /\ UNCHANGED <<reading, pv, gridLive, care>>

(* The stop SOC of the night is reached: the fixed power is withdrawn and  *)
(* AUTO goes on.  At MIN_SOC everything is.                                *)
NightPause ==
  /\ pc = "route" /\ cfg.manual = "AUTO" /\ cfg.night /\ fresh
  /\ IF soc <= MinSoc \/ mode = "NIGHT_DISCHARGE" THEN Neutral
     ELSE UNCHANGED <<target, mode, share>>
  /\ pc' = "care"
  /\ UNCHANGED <<reading, pv, candidate, gridLive, care, intent, cfg>>

(* AUTO by day.                                                            *)
Day ==
  /\ pc = "route" /\ cfg.manual = "AUTO" /\ ~cfg.night
  /\ IF ~fresh \/ NightEnds THEN Neutral ELSE UNCHANGED <<target, mode, share>>
  /\ IF fresh THEN pc' = "care" /\ UNCHANGED <<candidate, intent, cfg>> ELSE Leave
  /\ UNCHANGED <<reading, pv, gridLive, care>>

(***************************************************************************)
(* Battery Care: evaluate, persist, dispatch.                              *)
(***************************************************************************)
(* _battery_care_pv_shadow_step: allocate_care_pv may add to the base      *)
(* while the SOC is below the reserve.                                     *)
PvShadow ==
  LET b == IF pvLive \/ pvPending \/ gridLive THEN base ELSE Higher(0, target)
  IN candidate' \in
       {0} \cup IF CareFloor(cfg) # None /\ soc < CareFloor(cfg)
                  THEN (b + 1)..MaxW ELSE {}

(* _battery_care_persist_episode: a changed episode is saved first.        *)
Persist(e) ==
  /\ latch' = LatchOf(e) /\ sig' = LatchOf(e) /\ ep' = e /\ loaded' = TRUE
  /\ stopped' = IF e.level # 0 /\ (latch = NoLatch \/ (stopped = "revived" /\ latch' # latch))
                  THEN "no" ELSE stopped

(* The database is not touched when the signature is the same.             *)
Observation ==
  [soc : {soc}, usable : IF fresh THEN BOOLEAN ELSE {FALSE}, eligible : BOOLEAN,
   elapsed : BOOLEAN]

Current == IF loaded THEN ep ELSE EpisodeOf(latch)

Decisions ==
  IF cfg.care = "invalid" THEN {Decision("none", NoEpisode)}
  ELSE {Decide(cfg, o, Current) : o \in Observation}

CareStep ==
  /\ pc = "care" /\ cfg.care # "off" /\ ~clearFailed
  /\ PvShadow
  /\ \E d \in Decisions : Persist(d.ep) /\ intent' = d.intent
  /\ pc' = "dispatch"
  /\ UNCHANGED <<reading, target, mode, pv, gridLive, clearFailed, disabledChecked,
                 cfg, share>>

(* The load, or the save of a changed episode, fails: no intent.           *)
\* IntentAnyway: the decision is used although its episode was not saved.
IntentAnyway(d) == IF LatchOf(d.ep) # LatchOf(Current) THEN d.intent ELSE "none"
IntentOnFailure(d) == "none"

CareFails ==
  /\ pc = "care" /\ cfg.care # "off" /\ ~clearFailed
  /\ PvShadow
  /\ \/ ~loaded /\ intent' = "none" /\ UNCHANGED <<ep, sig, loaded>>
     \/ \E d \in Decisions :
          /\ LatchOf(d.ep) # IF loaded THEN sig ELSE latch
          /\ intent' = IntentOnFailure(d)
          /\ ep' = Current /\ loaded' = TRUE
          /\ sig' = IF loaded THEN sig ELSE latch
  /\ pc' = "dispatch"
  /\ UNCHANGED <<reading, target, mode, pv, gridLive, clearFailed, disabledChecked,
                 latch, stopped, cfg, share>>

(* Switched off, or refused since a clear failed.                          *)
\* RefusesNothing: a clear that failed does not keep the episode out.
RefusesNothing == {"none", IntentOf(Current.level)}
Refused == {"none"}

CareOff(ok) ==
  /\ pc = "care" /\ (cfg.care = "off" \/ clearFailed)
  /\ PvShadow
  /\ IF cfg.care = "off" THEN ClearLatch(ok)
     ELSE UNCHANGED <<ep, sig, loaded, disabledChecked, clearFailed, latch>>
  /\ intent' \in Refused
  /\ pc' = "dispatch"
  /\ UNCHANGED <<reading, target, mode, pv, gridLive, stopped, cfg, share>>

Charges == intent # "none" /\ candidate = 0

(* _battery_care_grid_dispatch: not Battery Care's cycle.                  *)
DispatchNothing ==
  /\ pc = "dispatch"
  /\ (intent # "none" /\ candidate > 0) \/ (intent = "none" /\ ~gridLive)
  /\ pc' = "auto"
  /\ UNCHANGED <<reading, target, mode, pv, candidate, gridLive, care, intent, cfg, share>>

(* The grid charge has ended: its target must not reach AUTO.              *)
DispatchExit ==
  /\ pc = "dispatch" /\ intent = "none" /\ gridLive
  /\ Neutral /\ gridLive' = FALSE /\ Leave
  /\ UNCHANGED <<reading, pv, care>>

(* A discharge is neutralized first.                                       *)
\* NotReversing: a running discharge is not looked at.
NotReversing(t) == TRUE
NotDischarging(t) == t >= 0

DispatchNeutralize ==
  /\ pc = "dispatch" /\ Charges /\ ~NotDischarging(target)
  /\ Neutral /\ Leave
  /\ UNCHANGED <<reading, pv, gridLive, care>>

(* The device, or for a regular charge the cross-charge protection, leaves *)
(* nothing.                                                                *)
DispatchVeto ==
  /\ pc = "dispatch" /\ Charges /\ NotDischarging(target)
  /\ IF gridLive THEN \E m \in {mode, "HOLD"} : Command(0, m)
     ELSE \/ UNCHANGED <<target, mode, share>>
          \/ intent = "regular" /\ target > 0 /\ Neutral
  /\ gridLive' = FALSE /\ Leave
  /\ UNCHANGED <<reading, pv, care>>

DispatchCharge ==
  /\ pc = "dispatch" /\ Charges /\ NotDischarging(target)
  /\ base' = 0 /\ pvLive' = FALSE /\ pvPending' = TRUE
  /\ \E s \in 0..MaxW :
       /\ target' = s /\ share' = s /\ gridLive' = (s > 0)
       /\ mode' = IF s > 0 THEN "CHARGE" ELSE "HOLD"
  /\ Leave
  /\ UNCHANGED <<reading, care>>

(***************************************************************************)
(* AUTO.                                                                   *)
(***************************************************************************)
AtReserve == CareFloor(cfg) # None /\ soc <= CareFloor(cfg)

AutoControl(grid) ==
  /\ pc = "auto"
  /\ \/ /\ cfg.night /\ soc <= MinSoc /\ grid # "export"
        /\ UNCHANGED <<target, mode, share, pv, gridLive>>
     \/ /\ ~(cfg.night /\ soc <= MinSoc /\ grid # "export")
        /\ AtReserve /\ target < 0
        /\ Neutral /\ UNCHANGED <<pv, gridLive>>
     \/ /\ ~(cfg.night /\ soc <= MinSoc /\ grid # "export")
        /\ cfg.night /\ AtReserve /\ target >= 0 /\ grid # "export"
        /\ UNCHANGED <<target, mode, share, pv, gridLive>>
     \/ /\ ~(cfg.night /\ (soc <= MinSoc \/ AtReserve) /\ grid # "export")
        /\ ~(AtReserve /\ target < 0)
        /\ \/ \E s \in Between(target) \ {target} :
                /\ Command(s, IF s > 0 THEN "CHARGE" ELSE "HOLD")
                /\ UNCHANGED <<pv, gridLive>>
           \/ /\ \/ grid = "export"
                 \/ grid = "import" /\ (pvLive \/ pvPending)
                 \/ grid = "near"   \* or the harvest of a high primary SOC
              /\ HandleCharge
           \/ /\ grid = "near"
              /\ ~(candidate > 0 \/ pvLive \/ pvPending \/ gridLive)
              /\ HandleDeadband /\ UNCHANGED <<pv, gridLive>>
           \/ /\ grid = "import" /\ ~pvLive /\ ~pvPending
              /\ HandleDischarge /\ UNCHANGED <<pv, gridLive>>
  /\ Settle
  /\ UNCHANGED <<reading, care>>

(***************************************************************************)
(* The process ends anywhere.  The device keeps its last command, the      *)
(* controller knows nothing of it.                                         *)
(***************************************************************************)
Restart ==
  /\ target' = 0 /\ mode' = "START" /\ base' = 0 /\ pvLive' = FALSE /\ pvPending' = FALSE
  /\ candidate' = 0 /\ gridLive' = FALSE
  /\ ep' = NoEpisode /\ loaded' = FALSE /\ sig' = NoLatch
  /\ clearFailed' = FALSE /\ disabledChecked' = FALSE /\ intent' = "none"
  /\ pc' = "idle" /\ share' = 0
  /\ stopped' = IF stopped = "stopped" /\ clearFailed THEN "revived" ELSE stopped
  /\ cfg' = Resting
  /\ UNCHANGED <<reading, latch>>

Begin == \E c \in Configs : BeginWanted(c) \/ \E ok \in BOOLEAN : BeginUnwanted(c, ok)
Route == Preflight \/ SafeStop \/ Raised \/ Manual \/ Night \/ NightPause \/ Day
Care == CareStep \/ CareFails \/ \E ok \in BOOLEAN : CareOff(ok)
Dispatch == DispatchNothing \/ DispatchExit \/ DispatchNeutralize \/ DispatchVeto \/ DispatchCharge
Cycle == Begin \/ Route \/ Care \/ Dispatch \/ \E g \in {"import", "near", "export"} : AutoControl(g)

Next == Cycle \/ Sample \/ Age \/ Restart

Spec == Init /\ [][Next]_vars

(* The loop goes on, and a database that answers now and then answers a    *)
(* clear now and then.                                                     *)
FairSpec ==
  /\ Spec /\ WF_vars(Cycle)
  /\ SF_vars(\E c \in Configs : BeginUnwanted(c, TRUE))

(***************************************************************************)
(* Properties.                                                             *)
(***************************************************************************)
(* Types, and that a part of the target never exceeds it.                  *)
TypeOK ==
  /\ soc \in Soc /\ fresh \in BOOLEAN
  /\ target \in -MaxW..MaxW /\ base \in 0..MaxW /\ candidate \in 0..MaxW
  /\ share \in 0..Higher(target, 0)
  /\ mode \in {"START", "HOLD", "CHARGE", "NIGHT_DISCHARGE"}
  /\ pvLive \in BOOLEAN /\ pvPending \in BOOLEAN /\ gridLive \in BOOLEAN
  /\ ep \in Episode /\ loaded \in BOOLEAN /\ sig \in Latch /\ latch \in Latch
  /\ clearFailed \in BOOLEAN /\ disabledChecked \in BOOLEAN /\ stopped \in {"no", "stopped", "revived"}
  /\ intent \in {"none", "regular", "emergency"}
  /\ pc \in {"idle", "settled"} \cup Running /\ cfg \in Configs

(* A step that commands a grid charge for Battery Care.                    *)
GridCharge == pc = "dispatch" /\ pc' = "idle" /\ gridLive' /\ share' > 0

(* Persisted before commanded: at every grid charge the database holds the *)
(* running episode with its level and reserve, so a restart between any    *)
(* two steps goes on with exactly this episode.                            *)
PersistedBeforeCommand ==
  [][GridCharge => ep.level # 0 /\ latch = LatchOf(ep)]_vars

(* Once a cycle ran with Battery Care off or a manual mode, the episode of *)
(* that time does not charge again, whatever fails, is switched on again,  *)
(* restarts or is escalated: only a new episode does, with its own trigger *)
(* and confirmation.  An episode that could not be cleared is refused by   *)
(* the process that failed to, even before it can clear it; the refusal is *)
(* not persisted, so the next process goes on with what the database says  *)
(* (revived), and that case is excepted.                                   *)
StoppedStaysStopped == [][GridCharge => stopped # "stopped"]_vars

(* While Battery Care stays on with valid settings, an episode keeps its   *)
(* reserve and never falls back to a lower stage, whatever the settings,   *)
(* escalations, failed saves and restarts; it ends at that reserve, or as  *)
(* a regular one with the season.                                          *)
EpisodeEndsAtItsReserve ==
  [][latch # NoLatch /\ latch' # latch =>
       \/ latch' # NoLatch /\ latch'.reserve = latch.reserve /\ latch'.level > latch.level
       \/ latch' = NoLatch /\ pc = "care" /\ cfg.care \in {"in", "out"} /\ soc >= latch.reserve
       \/ latch' = NoLatch /\ pc = "care" /\ cfg.care = "out" /\ latch.level = 2
       \/ latch' = NoLatch /\ (~Wanted(cfg') \/ cfg.care = "invalid")]_vars

(* Only an explicitly fixed power turns a charge into a discharge or back  *)
(* in one cycle; AUTO and Battery Care pass through zero.                  *)
NoDirectReversal ==
  [][target * target' < 0 =>
       pc = "route" /\ (cfg.night \/ cfg.manual # "AUTO")]_vars

(* Power that Battery Care asked for is always known as such: as long as   *)
(* some is part of the target, a flag makes the next cycles exchange it    *)
(* for the ordinary base.                                                  *)
CareShareIsOwned == share > 0 => gridLive \/ pvLive \/ pvPending

(* The parts of the target, the episode and the flags agree.               *)
CareIsConsistent == TypeOK /\ CareShareIsOwned

(* An AUTO cycle never leaves a discharge at or below the seasonal reserve,*)
(* with one exception: at night run_once takes the output for neutralized  *)
(* at MIN_SOC, which it is not when the SOC fell there after that check;   *)
(* the discharge then stands for this cycle, and does not grow.            *)
ReserveIsKept ==
  [][pc = "auto" /\ pc' = "settled" /\ AtReserve =>
       target' >= 0 \/ (cfg.night /\ soc <= MinSoc /\ target' = target)]_vars

(* If Battery Care stays off or manual modes stay on, the database         *)
(* eventually holds no episode any more.                                   *)
StopIsForgotten == <>[]~Wanted(cfg) => <>[](latch = NoLatch)
===============================================================================
