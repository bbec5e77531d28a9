-------------------------- MODULE CommandLifecycle --------------------------
(***************************************************************************)
(* The command path of the controller (controller_logic.py): the control   *)
(* decision of a cycle becomes a desired command batch, a gate decides     *)
(* what of it is published (_publish_command_batch), the command-effect    *)
(* monitor compares the physical power with it, and the late-effect guard  *)
(* holds back an opposite command while an earlier one may still act.      *)
(* Around them the device, the two ways it is read (reports over MQTT and  *)
(* snapshots of the local API) and the MQTT connection.                    *)
(*                                                                         *)
(* Set messages are published with QoS 0 and without retain: they may be   *)
(* late or lost.  Of the messages on their way only the last one of each   *)
(* property is kept: an earlier one of the same property arrived before it *)
(* or was overtaken by it.  A timer of the code is the flag that it has    *)
(* run out; when that happens is left open, so every order of the time     *)
(* limits (5 to 600 s, configurable) is covered.                           *)
(*                                                                         *)
(* The clamping to device limits is part of the choice of a target, and a  *)
(* target within COMMAND_EFFECT_TOLERANCE of another one is the same one.  *)
(***************************************************************************)
EXTENDS Integers

CONSTANTS Watts,     \* charge and discharge powers of a command
          MinTarget, \* COMMAND_EFFECT_MIN_TARGET_W
          MinChange, \* MIN_COMMAND_CHANGE_W
          Worlds,    \* what may happen in a behaviour, of Surroundings
          Reports,   \* sets of properties the device reports together
          Packets    \* sets of properties whose set messages travel together

Power == Watts \cup {0}
Props == {"smart", "mode", "in", "out"}
Limits == {"in", "out"}
Nothing == [smart |-> "none", mode |-> "none", in |-> -1, out |-> -1]
Intents == {"CHARGE", "DISCHARGE", "NEUTRALIZE", "IDLE"}
Active == {"CHARGE", "DISCHARGE"}
Modes == {"InputMode", "OutputMode"}
Guarded == {"late_effect_guard", "late_effect_guard_resync"}
\* charge, discharge: a non-zero target; zero: a zero target with force_zero;
\* unforced: one without; neutral: a safety neutralization; hold: no request;
\* disconnected: a neutralization because MQTT is down, if that is configured.
RequestKinds == {"charge", "discharge", "zero", "unforced", "neutral", "hold", "disconnected"}
\* loss: set messages get lost; expire: reports stay away too long; stale:
\* power observations or all messages do; outage: the connection fails;
\* retained: the broker keeps reports and delivers them again; conflict:
\* contradictory power values; reboot: the device restarts without smartMode;
\* restart: the controller restarts.
FaultKinds == {"loss", "expire", "stale", "outage", "retained", "conflict", "reboot", "restart"}
\* What the control path may ask for, whether the local API is read
\* (ZENDURE_LOCAL_API_ENABLED), the kinds of faults, and how many of them, lost
\* messages not counted.
Surroundings == [requests : SUBSET RequestKinds, api : BOOLEAN,
                 faults : SUBSET FaultKinds, most : Nat]

ASSUME CommandAssumption ==
  /\ Watts \subseteq Nat \ {0}
  /\ MinTarget \in Nat /\ MinChange \in Nat
  /\ Worlds \subseteq Surroundings
  /\ Reports \subseteq SUBSET Props /\ Packets \subseteq SUBSET Props

VARIABLES
  c,       \* the controller's fields
  sent,    \* sent[p]: the value of p on its way to the device, or Nothing[p]
  device,  \* the device's properties
  power,   \* what the device does: positive charges, negative discharges
  rb,      \* the fresh report of each property (state.py), or Nothing[p]
  snap,    \* the newest local API snapshot, or Nothing[p] where it is applied
  held,    \* the reports the broker keeps
  mqtt,    \* "down", "up", or "ok": live messages and status ZENDURE_MQTT_OK
  sight,   \* the power observation: "stale", "clear" or "conflict"
  seen,    \* its signed power
  newer,   \* it is another one than the guard counted last
  phase,   \* the cycle's next step: "apply", "control" or "monitor"
  world,   \* the rest of what may happen: the faults count down
  unproven,\* history: intent of a mismatch that is not resolved, or "none"
  looked,  \* history: a power observation arrived while the guard was active
  suspect  \* history: the device lost smartMode, and something that is still
           \* around says otherwise or was sent because of it

env == <<device, power, rb, snap, held, mqtt, sight, seen, newer>>
history == <<unproven, looked>>
vars == <<c, sent, env, phase, world, history, suspect>>

-----------------------------------------------------------------------------
(* Batches (command_lifecycle.py, _new_command_batch) *)

Intent(w) == IF w > 0 THEN "CHARGE" ELSE IF w < 0 THEN "DISCHARGE" ELSE "IDLE"
Opposite(intent) == IF intent = "CHARGE" THEN "DISCHARGE" ELSE "CHARGE"

Batch(w) ==
  IF w > 0 THEN [intent |-> "CHARGE", mode |-> "InputMode", in |-> w, out |-> 0]
  ELSE [intent |-> "DISCHARGE", mode |-> "OutputMode", in |-> 0, out |-> -w]
Neutral(mode) == [intent |-> "NEUTRALIZE", mode |-> mode, in |-> 0, out |-> 0]
NoBatch == [intent |-> "IDLE", mode |-> "OutputMode", in |-> 0, out |-> 0]

Signed(batch) == batch.in - batch.out

FreshController ==
  [target |-> 0, desired |-> NoBatch, lastMode |-> "OutputMode",
   published |-> Nothing,
   gate |-> <<"none", "IDLE">>, due |-> TRUE,
   neutralizing |-> FALSE, since |-> "none", neutralResend |-> TRUE,
   watch |-> "IDLE", watchAge |-> "none", trackAge |-> "none", resend |-> TRUE,
   mismatch |-> FALSE, uncertain |-> FALSE, paused |-> FALSE, lastStatus |-> "none",
   guard |-> FALSE, guardDue |-> FALSE, count |-> 0, stable |-> FALSE]

-----------------------------------------------------------------------------
(* Readback (zendure_command_state_snapshot) *)

FlashActive == rb["smart"] = "ON"
Complete == \A p \in Props : rb[p] # Nothing[p]
ZeroReadback == Complete /\ FlashActive /\ rb["in"] = 0 /\ rb["out"] = 0

StateMatches(batch) ==
  /\ Complete /\ FlashActive /\ rb["mode"] = batch.mode
  /\ rb["in"] = batch.in /\ rb["out"] = batch.out
\* _command_static_invariants_match of an active batch
StaticMatches(batch) ==
  /\ Complete /\ FlashActive /\ rb["mode"] = batch.mode
  /\ IF batch.intent = "CHARGE" THEN rb["out"] = 0 ELSE rb["in"] = 0

-----------------------------------------------------------------------------
(* Publishing.  An operator maps s = [c, sent] to its successor. *)

Distance(v, w) == IF v > w THEN v - w ELSE w - v
\* MqttBridge.publish without force skips a repeated or hardly changed limit.
Skipped(s, p, v) ==
  /\ s.c.published[p] # Nothing[p]
  /\ \/ s.c.published[p] = v
     \/ v # 0 /\ Distance(v, s.c.published[p]) < MinChange

\* publish: refused by the client while it is disconnected, and then not cached.
Send(s, p, v) ==
  IF mqtt = "down" THEN s
  ELSE [s EXCEPT !.sent[p] = v,
                 !.c.published = IF p \in Limits THEN [@ EXCEPT ![p] = v] ELSE @]
SendChanged(s, p, v) == IF Skipped(s, p, v) THEN s ELSE Send(s, p, v)

\* A new intent ends the mismatch of the old one.
MismatchAfter(old, batch, mismatch) ==
  mismatch /\ (old.intent = batch.intent \/ old = NoBatch)
\* _record_desired_command_batch.  A neutralization that is confirmed already
\* is not reopened by the code; the monitor judges a neutral batch either way.
Record(s, batch) ==
  LET old == s.c.desired
      changed == old.intent # batch.intent
      c1 == [s.c EXCEPT !.desired = batch, !.mismatch = MismatchAfter(old, batch, @)]
      c2 == IF batch.intent \in Active
            THEN [c1 EXCEPT !.lastMode = batch.mode, !.resend = @ \/ changed,
                            !.neutralizing = FALSE, !.since = "none"]
            ELSE IF changed \/ old.mode # batch.mode
            THEN [c1 EXCEPT !.neutralizing = TRUE, !.since = "running", !.neutralResend = TRUE]
            ELSE [c1 EXCEPT !.neutralizing = TRUE, !.since = IF @ = "none" THEN "running" ELSE @]
  IN [s EXCEPT !.c = c2]

\* _gate_retry_allowed: one attempt per phase and intent in a retry window.
\* OncePerPhase: a gate that never retries.
OncePerPhase(s, gate) == s.c.gate # gate
Allowed(s, gate) == s.c.gate # gate \/ s.c.due
Enter(s, gate) == [s EXCEPT !.c.gate = gate, !.c.due = FALSE]
Leave(s) == [s EXCEPT !.c.gate = <<"none", "IDLE">>, !.c.due = TRUE]

SendLimits(s, batch) ==
  IF batch.intent = "DISCHARGE" THEN Send(Send(s, "in", 0), "out", batch.out)
  ELSE Send(Send(s, "out", 0), "in", batch.in)

\* _publish_command_batch of a neutral batch: deduplicated by a matching
\* readback, rate limited, and the only write allowed without smartMode.
DispatchNeutral(s, batch, kind) ==
  LET gate == <<"SAFETY_NEUTRALIZATION", "NEUTRALIZE">>
      entered == Enter(s, gate)
      smart == IF FlashActive THEN entered ELSE Send(entered, "smart", "ON")
      mode == IF kind \in Guarded THEN smart ELSE Send(smart, "mode", batch.mode)
  IN IF StateMatches(batch) /\ kind \notin Guarded \cup {"resync"} THEN Record(Leave(s), batch)
     ELSE IF ~Allowed(s, gate) THEN Record(s, batch)
     ELSE Record(SendLimits(mode, batch), batch)

\* _publish_command_batch of an active batch: first a fresh smartMode, then a
\* full state until it is read back, then only the active limit.
DispatchActive(s, batch, kind) ==
  LET smartGate == <<"WAIT_SMART_MODE", batch.intent>>
      fullGate == <<"WAIT_FULL_STATE", batch.intent>>
      limit == IF batch.intent = "CHARGE" THEN "in" ELSE "out"
  IN IF ~FlashActive
     THEN Record(IF Allowed(s, smartGate) THEN Send(Enter(s, smartGate), "smart", "ON") ELSE s, batch)
     ELSE IF kind = "resync" \/ s.c.desired.intent # batch.intent \/ ~StaticMatches(batch)
     THEN Record(IF Allowed(s, fullGate)
                 THEN SendLimits(Send(Enter(s, fullGate), "mode", batch.mode), batch) ELSE s, batch)
     ELSE Record(IF StateMatches(batch) THEN Leave(s) ELSE SendChanged(Leave(s), limit, batch[limit]),
                 batch)

Dispatch(s, batch, kind) ==
  IF batch.intent = "NEUTRALIZE" THEN DispatchNeutral(s, batch, kind)
  ELSE DispatchActive(s, batch, kind)

\* _force_resend_signed_target
ForceResend(s) ==
  LET batch == IF s.c.desired # NoBatch /\ Signed(s.c.desired) = s.c.target THEN s.c.desired
               ELSE IF s.c.target = 0 THEN Neutral(s.c.lastMode)
               ELSE Batch(s.c.target)
  IN Dispatch(s, batch, "resync")

-----------------------------------------------------------------------------
(* The late-effect guard *)

\* _late_effect_guard_blocks: a wish other than the unresolved active command.
\* ActivatesOnNeutral: a guard that ignores a wish for the opposite direction.
ActivatesOnNeutral(intent) ==
  ~c.guard /\ c.mismatch /\ c.desired.intent \in Active /\ intent = "NEUTRALIZE"
Activates(intent) ==
  /\ ~c.guard /\ c.mismatch
  /\ c.desired.intent \in Active /\ intent # c.desired.intent
\* BlocksOnce: a guard that blocks its first request only.
BlocksOnce(intent) == Activates(intent)
Blocks(intent) == c.guard \/ Activates(intent)

\* The state after a blocked request: the guard's own zero limits on
\* activation, otherwise nothing.
Blocked(s, intent) ==
  IF Activates(intent)
  THEN Dispatch([s EXCEPT !.c.guard = TRUE, !.c.guardDue = FALSE, !.c.count = 0, !.c.stable = FALSE],
                Neutral(s.c.lastMode), "late_effect_guard")
  ELSE s

-----------------------------------------------------------------------------
(* The control step: what run_once asks of the command path, after it has  *)
(* applied a new snapshot of the local API                                 *)

CycleStart == IF world.api THEN "apply" ELSE "control"
Present(m) == {p \in Props : m[p] # Nothing[p]}

\* update_zendure_telemetry_from_local_api_snapshot: whatever the connection is
\* and however new the report is that it replaces, with the time it was read:
\* a snapshot that is too old expires at once (Expire).
Apply ==
  /\ phase = "apply" /\ phase' = "control"
  /\ rb' = [p \in Props |-> IF p \in Present(snap) THEN snap[p] ELSE rb[p]]
  /\ snap' = Nothing
  /\ UNCHANGED <<c, sent, device, power, held, mqtt, sight, seen, newer, history>>

Now == [c |-> c, sent |-> sent]
Adopt(s) ==
  /\ c' = s.c /\ sent' = s.sent
  /\ looked' = (looked /\ s.c.guard)
ControlStep(s) ==
  /\ phase = "control" /\ phase' = "monitor"
  /\ Adopt(s)
  /\ UNCHANGED <<env, unproven>>

\* TargetAnyway: a blocked target that is stored all the same.
TargetAnyway(w) == w
\* What a blocked publish returns and the caller stores.
TargetAfterBlock(w) == 0
\* _publish_signed_target of a non-zero target; its result is stored.
Target(w) ==
  LET s == IF Blocks(Intent(w)) THEN [Blocked(Now, Intent(w)) EXCEPT !.c.target = TargetAfterBlock(w)]
           ELSE Dispatch([Now EXCEPT !.c.target = w, !.c.uncertain = @ \/ mqtt # "ok"],
                         Batch(w), "normal")
  IN ControlStep(s)

\* _publish_signed_target of zero: with force_zero a neutralization, without
\* it nothing is published.
Zero(force) ==
  LET s == IF Blocks("NEUTRALIZE") THEN Blocked(Now, "NEUTRALIZE")
           ELSE IF force THEN Dispatch(Now, Neutral(c.lastMode), "neutralization")
           ELSE Now
  IN ControlStep([s EXCEPT !.c.target = 0])

NeutralMode ==
  IF c.target < 0 THEN "OutputMode" ELSE IF c.target > 0 THEN "InputMode" ELSE c.lastMode
Neutralized ==
  LET s == IF Blocks("NEUTRALIZE") THEN Blocked(Now, "NEUTRALIZE")
           ELSE Dispatch(Now, Neutral(NeutralMode), "neutralization")
  IN [s EXCEPT !.c.target = 0]

\* safe_state, soc_limit_hold, stop_hold
Neutralize == ControlStep(Neutralized)

\* MQTT_DISCONNECTED_SAFE_STATE: the cycle ends before a snapshot is applied.
DisconnectedSafeState ==
  /\ phase = CycleStart /\ phase' = "monitor" /\ mqtt = "down"
  /\ Adopt(Neutralized)
  /\ UNCHANGED <<env, unproven>>

\* neutralize_ended_night_discharge_if_needed: the cycle goes on in AUTO.
NightEnds ==
  /\ phase = "control" /\ c.target < 0
  /\ Adopt(Neutralized)
  /\ UNCHANGED <<env, phase, unproven>>

Hold == ControlStep(Now)

Control ==
  \/ "charge" \in world.requests /\ \E w \in Watts : Target(w)
  \/ "discharge" \in world.requests /\ \E w \in Watts : Target(-w)
  \/ "zero" \in world.requests /\ Zero(TRUE)
  \/ "unforced" \in world.requests /\ Zero(FALSE)
  \/ "neutral" \in world.requests /\ (Neutralize \/ NightEnds)
  \/ "disconnected" \in world.requests /\ DisconnectedSafeState
  \/ "hold" \in world.requests /\ Hold

-----------------------------------------------------------------------------
(* The command-effect monitor (update_command_effect_monitor) *)

SignOf(w) == IF w > 0 THEN 1 ELSE IF w < 0 THEN -1 ELSE 0
Started(age) == IF age = "none" THEN "running" ELSE age
Overdue(age) == age \in {"timeout", "resend"}
MonitorIntent == IF c.desired = NoBatch THEN Intent(c.target) ELSE c.desired.intent
\* An active command is not evaluated before the device state is read back.
Unreadable == MonitorIntent \in Active /\ ~(FlashActive /\ Complete)
TelemetryValid == mqtt = "ok" /\ sight # "stale"
NeutralSeen == sight = "clear" /\ seen = 0

\* Ends the step: s is the state, resolved what is known of the mismatch.
MonitorEnds(s, resolved) ==
  /\ Adopt(s)
  /\ unproven' = resolved

\* Up to the telemetry check: an uncertain zero counts as a neutralization,
\* and a connection that is back triggers a full resync (resync).
UncertainZero == ~c.neutralizing /\ c.target = 0 /\ c.uncertain
Evaluated == IF c.neutralizing \/ UncertainZero THEN "NEUTRALIZE" ELSE MonitorIntent
Resynced(resync) ==
  LET s1 == IF UncertainZero
            THEN [Now EXCEPT !.c.neutralizing = TRUE, !.c.since = "running"] ELSE Now
      s2 == IF resync THEN [ForceResend(s1) EXCEPT !.c.resend = FALSE] ELSE s1
  IN [s2 EXCEPT !.c.lastStatus = IF mqtt = "ok" THEN "ok" ELSE "bad"]
MayResync == c.lastStatus = "bad" /\ mqtt = "ok" /\ Evaluated # "IDLE"

\* _evaluate_late_effect_guard: two separate neutral observations, long
\* enough apart, under a readback of 0/0; otherwise it starts over, and a
\* neutralization that takes too long is sent again.
\* After a reset any observation is a new one; more than two need no count.
\* FirstOnly: a later observation is taken for the first one.
FirstOnly == IF c.count = 0 THEN 1 ELSE c.count
Counted == IF c.count = 0 THEN 1 ELSE IF newer THEN 2 ELSE c.count
GuardRelease == Counted >= 2 /\ c.stable
GuardNeutral == ZeroReadback /\ NeutralSeen
EvaluateGuard(s0) ==
  LET s == [s0 EXCEPT !.c.neutralizing = TRUE, !.c.since = Started(@)]
      late == [s EXCEPT !.c.count = 0, !.c.stable = FALSE, !.c.mismatch = @ \/ s.c.guardDue]
  IN /\ newer' = FALSE
     /\ IF GuardNeutral
        THEN IF GuardRelease
             THEN MonitorEnds([s EXCEPT !.c.guard = FALSE, !.c.guardDue = FALSE, !.c.count = 0,
                                        !.c.stable = FALSE, !.c.mismatch = FALSE,
                                        !.c.neutralizing = FALSE, !.c.since = "none"], "none")
             ELSE MonitorEnds([s EXCEPT !.c.count = Counted, !.c.mismatch = FALSE], unproven)
        ELSE MonitorEnds(IF late.c.guardDue /\ late.c.neutralResend
                         THEN [Dispatch(late, Neutral(late.c.lastMode), "late_effect_guard_resync")
                                 EXCEPT !.c.neutralResend = FALSE]
                         ELSE late, unproven)

\* A neutralization is confirmed by physical neutrality, or sent again.
EvaluateNeutral(s0) ==
  LET s == [s0 EXCEPT !.c.since = Started(@)]
      late == [s EXCEPT !.c.mismatch = TRUE]
  IN IF NeutralSeen
     THEN MonitorEnds([s EXCEPT !.c.mismatch = FALSE, !.c.neutralizing = FALSE,
                                !.c.since = "none", !.c.uncertain = FALSE], "none")
     ELSE IF s.c.since # "timeout" THEN MonitorEnds(s, unproven)
     ELSE MonitorEnds(IF late.c.neutralResend
                      THEN [ForceResend([late EXCEPT !.c.target = 0])
                              EXCEPT !.c.target = s.c.target, !.c.neutralResend = FALSE]
                      ELSE late, unproven)

\* A confirmed mismatch, sent again when it lasts.
Mismatched(s0, age, intent) ==
  LET s == [s0 EXCEPT !.c.mismatch = TRUE]
  IN MonitorEnds(IF age = "resend" /\ s.c.resend
                 THEN [ForceResend(s) EXCEPT !.c.resend = FALSE] ELSE s, intent)

\* High-SOC charge acceptance: the device takes less than it is asked for,
\* which a fresh readback of the charge command shows not to be a mismatch.
AcceptanceLimited(target) ==
  target > 0 /\ seen >= 0 /\ rb["mode"] = "InputMode" /\ rb["out"] = 0 /\ rb["in"] >= MinTarget

\* An active target: tracked, limited by the battery, reacting, or not.
EvaluateActive(s0, intent) ==
  LET target == s0.c.target
      watched == IF s0.c.watch # intent
                 THEN [s0 EXCEPT !.c.watch = intent, !.c.watchAge = "running",
                                 !.c.trackAge = "none", !.c.mismatch = FALSE]
                 ELSE [s0 EXCEPT !.c.watchAge = Started(@)]
      same == SignOf(seen) = SignOf(target)
      s == IF same THEN [watched EXCEPT !.c.trackAge = Started(@)] ELSE watched
      age == IF same THEN s.c.trackAge ELSE s.c.watchAge
  IN \/ /\ seen = target
        /\ MonitorEnds([watched EXCEPT !.c.trackAge = "none", !.c.watchAge = "none",
                                       !.c.mismatch = FALSE, !.c.uncertain = FALSE], "none")
     \/ /\ seen # target /\ AcceptanceLimited(target)
        /\ MonitorEnds([watched EXCEPT !.c.trackAge = "none", !.c.watchAge = "running",
                                       !.c.mismatch = FALSE], "none")
     \/ /\ seen # target /\ ~Overdue(age)
        /\ MonitorEnds([s EXCEPT !.c.mismatch = FALSE], IF same THEN "none" ELSE unproven)
     \/ /\ seen # target /\ Overdue(age)
        /\ Mismatched(s, age, intent)

\* A target too small to be evaluated ends the watch, and nothing is known of
\* an earlier mismatch any longer.
SmallTarget(s0, intent) ==
  MonitorEnds([s0 EXCEPT !.c.watch = intent, !.c.watchAge = "none", !.c.trackAge = "none",
                         !.c.mismatch = FALSE], "none")

\* The evaluation, once the power observation is valid.
Evaluate(s0, intent) ==
  IF s0.c.guard THEN EvaluateGuard([s0 EXCEPT !.c.paused = FALSE])
  ELSE /\ UNCHANGED newer
       /\ LET s == [s0 EXCEPT !.c.paused = FALSE]
          IN IF intent = "NEUTRALIZE" THEN EvaluateNeutral(s)
             ELSE IF sight = "conflict" THEN MonitorEnds([s EXCEPT !.c.paused = TRUE], unproven)
             ELSE IF intent = "IDLE" \/ s.c.target = 0
             THEN MonitorEnds([s EXCEPT !.c.watch = "IDLE", !.c.watchAge = "none",
                                        !.c.trackAge = "none", !.c.mismatch = FALSE], unproven)
             ELSE IF Distance(s.c.target, 0) < MinTarget THEN SmallTarget(s, intent)
             ELSE EvaluateActive(s, intent)

Monitor ==
  /\ phase = "monitor" /\ phase' = CycleStart
  /\ IF Unreadable
     THEN UNCHANGED <<c, sent, newer, unproven, looked>>
     ELSE \E resync \in {MayResync, FALSE} :
            LET s == Resynced(resync)
            IN IF TelemetryValid THEN Evaluate(s, Evaluated)
               ELSE /\ MonitorEnds([s EXCEPT !.c.paused = TRUE, !.c.count = 0, !.c.stable = FALSE],
                                   unproven)
                    /\ newer' = FALSE
  /\ UNCHANGED <<device, power, rb, snap, held, mqtt, sight, seen>>

-----------------------------------------------------------------------------
(* Time limits of the controller.  A pause of the telemetry stops the three *)
(* effect timers, and no other.                                             *)

Older == [none |-> 0, running |-> 1, timeout |-> 2, resend |-> 3]
After(age) == CASE age = "running" -> "timeout" [] age = "timeout" -> "resend"

Elapses(field) == c[field] = FALSE /\ c' = [c EXCEPT ![field] = TRUE]
Ages(field) ==
  /\ ~c.paused /\ c[field] \in {"running", "timeout"}
  /\ c' = [c EXCEPT ![field] = After(@)]

GateWindow == Elapses("due")
ResendInterval == Elapses("resend")
NeutralResendInterval == Elapses("neutralResend")
GuardTimeout == c.guard /\ Elapses("guardDue")
GuardStable == c.count > 0 /\ Elapses("stable")
NeutralTimeout == c.since = "running" /\ Ages("since")
ReactionTimeout == Ages("watchAge")
\* Tracking is watched from a later time on than the reaction.
TrackingTimeout == Older[c.trackAge] < Older[c.watchAge] /\ Ages("trackAge")

Time ==
  /\ \/ GateWindow \/ ResendInterval \/ NeutralResendInterval
     \/ GuardTimeout \/ GuardStable
     \/ NeutralTimeout \/ ReactionTimeout \/ TrackingTimeout
  /\ UNCHANGED <<sent, env, phase, history>>

-----------------------------------------------------------------------------
(* The device and the connection *)

Underway(props) == \E p \in props : sent[p] # Nothing[p]
Settled(props) == [p \in Props |-> IF p \in props THEN Nothing[p] ELSE sent[p]]
Deliver(props) ==
  /\ Underway(props)
  /\ device' = [p \in Props |-> IF p \in props /\ sent[p] # Nothing[p] THEN sent[p] ELSE device[p]]
  /\ sent' = Settled(props)
  /\ UNCHANGED <<c, power, rb, snap, held, mqtt, sight, seen, newer, phase,
                 history>>
Lose(props) ==
  /\ "loss" \in world.faults /\ Underway(props)
  /\ sent' = Settled(props)
  /\ UNCHANGED <<c, env, phase, history>>

\* The device reaches the power its properties ask for, any time later.
Asked == IF device["mode"] = "InputMode" THEN device["in"] ELSE -device["out"]
Act ==
  /\ power' = Asked
  /\ UNCHANGED <<c, sent, device, rb, snap, held, mqtt, sight, seen, newer, phase,
                 history>>

\* A power observation reaches the controller, over MQTT or the local API.
Sample ==
  /\ sight' = "clear" /\ seen' = power
  /\ newer' = (c.count > 0) /\ looked' = c.guard
  /\ UNCHANGED <<c, sent, device, power, rb, snap, held, mqtt, phase,
                 unproven>>
LoseSight(state) ==
  /\ state \in world.faults
  /\ sight' = state /\ seen' = 0
  /\ UNCHANGED <<c, sent, device, power, rb, snap, held, mqtt, newer, phase,
                 history>>

\* on_message of a command property; a broker that retains keeps it.
Report(props) ==
  /\ mqtt # "down"
  /\ rb' = [p \in Props |-> IF p \in props THEN device[p] ELSE rb[p]]
  /\ held' = IF "retained" \in world.faults
             THEN [p \in Props |-> IF p \in props THEN device[p] ELSE held[p]] ELSE held
  /\ UNCHANGED <<c, sent, device, power, snap, mqtt, sight, seen, newer, phase, unproven, looked>>
\* The broker delivers what it keeps to a new subscription (on_connect,
\* refresh_subscriptions); on_message treats it like a report.
Redeliver ==
  LET props == Present(held)
  IN /\ mqtt # "down" /\ props # {}
     /\ rb' = [p \in Props |-> IF p \in props THEN held[p] ELSE rb[p]]
     /\ UNCHANGED <<c, sent, device, power, snap, held, mqtt, sight, seen, newer, phase,
                    history>>
\* The worker reads the device, MQTT or not (LocalApiWorker has its requests,
\* failures and configurations).
Poll(props) ==
  /\ world.api
  /\ snap' = [p \in Props |-> IF p \in props THEN device[p] ELSE Nothing[p]]
  /\ UNCHANGED <<c, sent, device, power, rb, held, mqtt, sight, seen, newer, phase, unproven, looked>>
\* A report or an applied snapshot older than 30 s.
Expire(props) ==
  /\ "expire" \in world.faults
  /\ \A p \in props : rb[p] # Nothing[p]
  /\ rb' = [p \in Props |-> IF p \in props THEN Nothing[p] ELSE rb[p]]
  /\ UNCHANGED <<c, sent, device, power, snap, held, mqtt, sight, seen, newer, phase,
                 history>>

\* on_disconnect and on_connect invalidate the readback
\* (invalidate_zendure_command_state).
Link(from, to) ==
  /\ mqtt \in from /\ mqtt' = to
  /\ UNCHANGED <<c, sent, device, power, snap, held, sight, seen, newer, phase, unproven, looked>>
\* KeptFresh: a connection that keeps the readback.
KeptFresh == rb
Invalidated == Nothing
Disconnect ==
  "outage" \in world.faults /\ Link({"up", "ok"}, "down") /\ rb' = Invalidated
Connect == Link({"down"}, "up") /\ rb' = Invalidated
GoLive == Link({"up"}, "ok") /\ UNCHANGED rb
Degrade == "stale" \in world.faults /\ Link({"ok"}, "up") /\ UNCHANGED rb

\* The device loses the volatile smartMode.
Reboot ==
  /\ "reboot" \in world.faults
  /\ device' = [device EXCEPT !["smart"] = "OFF"]
  /\ UNCHANGED <<c, sent, power, rb, snap, held, mqtt, sight, seen, newer, phase,
                 history>>
\* The controller restarts and forgets everything, a mismatch included.
Restart ==
  /\ "restart" \in world.faults
  /\ c' = FreshController /\ phase' = CycleStart
  /\ rb' = Nothing /\ snap' = Nothing /\ mqtt' = "down" /\ sight' = "stale" /\ seen' = 0
  /\ newer' = FALSE /\ unproven' = "none" /\ looked' = FALSE
  /\ UNCHANGED <<sent, device, power, held>>

Environment ==
  \/ \E props \in Packets : Deliver(props) \/ Lose(props)
  \/ \E props \in Reports : Report(props) \/ Poll(props)
  \/ Act \/ Sample \/ Connect \/ GoLive
Fault ==
  \/ \E props \in Reports : Expire(props)
  \/ \E state \in {"stale", "conflict"} : LoseSight(state)
  \/ Redeliver \/ Disconnect \/ Degrade \/ Reboot \/ Restart

-----------------------------------------------------------------------------
\* A start of both, the device idle in either mode and smartMode.
Init ==
  /\ world \in Worlds /\ c = FreshController /\ sent = Nothing
  /\ device \in [smart : {"ON", "OFF"}, mode : {"OutputMode"}, in : {0}, out : {0}]
  /\ power = 0 /\ rb = Nothing /\ snap = Nothing
  /\ held = Nothing /\ mqtt = "down"
  /\ sight = "stale" /\ seen = 0 /\ newer = FALSE /\ phase = CycleStart
  /\ unproven = "none" /\ looked = FALSE
  /\ suspect = FALSE

\* What says that smartMode is on, or was sent because something did.  A
\* report in state.py does not outlive the connection it came over.
Elsewhere ==
  "ON" \in {snap["smart"], held["smart"]} \/ \E p \in Limits : sent[p] \in Watts
Believed == rb["smart"] = "ON" \/ Elsewhere
Suspicion ==
  LET lost == device["smart"] = "ON" /\ device'["smart"] = "OFF"
      linked == mqtt # mqtt' /\ "down" \in {mqtt, mqtt'}
      left == IF linked THEN Elsewhere' ELSE Believed'
  IN suspect' = (left /\ (suspect \/ lost))

Usually(A) == A /\ UNCHANGED world /\ Suspicion
Next ==
  \/ Usually(Apply) \/ Usually(Control) \/ Usually(Monitor) \/ Usually(Time) \/ Usually(Environment)
  \/ Fault /\ world.most > 0 /\ world' = [world EXCEPT !.most = @ - 1] /\ Suspicion
Spec == Init /\ [][Next]_vars

-----------------------------------------------------------------------------
Timers == {"none", "running", "timeout", "resend"}
Signals == Power \cup {-w : w \in Power}
Messages == [smart : {"none", "ON", "OFF"}, mode : {"none"} \cup Modes,
             in : {-1} \cup Power, out : {-1} \cup Power]
Batches == [intent : Intents, mode : Modes, in : Power, out : Power]
Gates == {"none", "SAFETY_NEUTRALIZATION", "WAIT_SMART_MODE", "WAIT_FULL_STATE"} \X Intents
Controllers ==
  [target : Signals, desired : Batches, lastMode : Modes, published : Messages,
   gate : Gates, due : BOOLEAN,
   neutralizing : BOOLEAN, since : Timers, neutralResend : BOOLEAN,
   watch : Active \cup {"IDLE"}, watchAge : Timers, trackAge : Timers, resend : BOOLEAN,
   mismatch : BOOLEAN, uncertain : BOOLEAN, paused : BOOLEAN,
   lastStatus : {"none", "ok", "bad"},
   guard : BOOLEAN, guardDue : BOOLEAN, count : 0..2, stable : BOOLEAN]

\* Every variable stays in its type; the guard's count in particular stops at
\* the two observations it needs.
TypeOK ==
  /\ c \in Controllers
  /\ {sent, device, rb, snap, held} \subseteq Messages
  /\ power \in Signals /\ seen \in Signals
  /\ mqtt \in {"down", "up", "ok"} /\ sight \in {"stale", "clear", "conflict"}
  /\ phase \in {"apply", "control", "monitor"} /\ world \in Surroundings
  /\ unproven \in Active \cup {"none"}
  /\ {newer, looked, suspect} \subseteq BOOLEAN

\* As long as nothing physical has resolved the mismatch of an active command,
\* the opposite command is not given: neither a neutralization in between, nor
\* a reconnect, a resync or the guard's own progress opens the way.  (A target
\* of the same direction below COMMAND_EFFECT_MIN_TARGET_W does: the monitor
\* cannot judge it, and drops the mismatch without an observation.)
OppositeNeedsProof ==
  unproven # "none" => c.desired.intent # Opposite(unproven)

\* While the late-effect guard is active nothing but zero limits leaves the
\* controller, whoever publishes: control path, resync or recovery.
GuardHoldsBack ==
  [][c.guard /\ c'.guard => \A p \in Limits : sent'[p] \in {sent[p], 0, -1}]_vars

\* What the controller takes for its target (last_input_power and
\* last_output_power) is what it last asked the device for, unless it is a
\* zero without force_zero.
TargetIsCommanded == c.target # 0 => c.target = Signed(c.desired)

\* Targets, counters and flags stay in range and agree with the commands.
CommandsAreConsistent == TypeOK /\ TargetIsCommanded

\* The guard only lets go after a power observation made under it: what was
\* observed before, or the same observation twice, is not enough.
GuardLooksAgain ==
  [][c.guard /\ ~c'.guard => looked \/ c' = FreshController]_vars

\* The guard stands between a command without effect and everything active,
\* until it has seen for itself that the device is at rest.
GuardHolds == GuardHoldsBack /\ GuardLooksAgain

\* Flash protection: the device only takes over an active limit while its
\* smartMode is on, whichever of the two ways it is read, with reports that are
\* late, expired, kept by the broker or overtaken by an older snapshot.  The
\* exception no readback can prevent: the device has lost smartMode, and a
\* report, snapshot or limit from before that is still around; a report in the
\* controller is none after the connection has changed.
FlashProtected ==
  [][(\E p \in Limits : device'[p] # device[p] /\ device'[p] \in Watts)
       => device["smart"] = "ON" \/ suspect]_vars

-----------------------------------------------------------------------------
(* Fairness: run_forever goes on, timers run out, the connection and the      *)
(* device come back, and what is sent and reported again and again arrives    *)
(* in the end.                                                                *)

Fairness ==
  /\ WF_vars(Usually(Apply)) /\ WF_vars(Usually(Control)) /\ WF_vars(Usually(Monitor))
  /\ WF_vars(Usually(Time /\ GateWindow)) /\ WF_vars(Usually(Time /\ ResendInterval))
  /\ WF_vars(Usually(Time /\ NeutralResendInterval)) /\ WF_vars(Usually(Time /\ GuardTimeout))
  /\ WF_vars(Usually(Time /\ GuardStable)) /\ WF_vars(Usually(Time /\ NeutralTimeout))
  /\ WF_vars(Usually(Time /\ ReactionTimeout)) /\ WF_vars(Usually(Time /\ TrackingTimeout))
  /\ \A props \in Packets : SF_vars(Usually(Deliver(props)))
  /\ \A props \in Reports : SF_vars(Usually(Report(props)))
  /\ WF_vars(Usually(Act)) /\ WF_vars(Usually(Sample)) /\ WF_vars(Usually(Connect)) /\ WF_vars(Usually(GoLive))
FairSpec == Spec /\ Fairness

\* The guard does not latch: it lets go again and again.
GuardNoLatch == []<>(~c.guard)

\* What the device was asked for and stays the target is reached, zero
\* included, although any of the messages may get lost.  Targets below
\* COMMAND_EFFECT_MIN_TARGET_W are not watched, and a zero target without
\* force_zero asks for nothing.
TargetTakesEffect ==
  \A t \in {0} \cup {-w : w \in {v \in Watts : v >= MinTarget}} :
    <>[](c.target = t /\ Signed(c.desired) = t) => []<>(power = t)
=============================================================================
