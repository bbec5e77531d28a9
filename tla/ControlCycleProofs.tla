-------------------------- MODULE ControlCycleProofs --------------------------
(* Theorems about the control loop.  ControlCycle: what a cycle may do to the  *)
(* target, and which Battery Care episode a grid charge belongs to, for every  *)
(* set of SOC values, configurations, reserves and thresholds that validation  *)
(* accepts and every power.  LocalApiWorker, the thread beside the loop: no    *)
(* wake-up is lost between the two, and the loop only applies what was read    *)
(* from the device of its configuration, for every set of addresses and        *)
(* settings and every number of configuration generations.                     *)
EXTENDS ControlCycle, LocalApiWorker, TLAPS

USE SocAssumption, ThresholdAssumption, ConfigAssumption, MaxWAssumption

-----------------------------------------------------------------------------
(* The inductive invariants *)

Powers == -MaxW..MaxW
Modes == {"START", "HOLD", "CHARGE", "NIGHT_DISCHARGE"}
Programs == {"idle", "settled"} \cup Running

\* The target, and the flags that know which part of it is Battery Care's.
TargetInv ==
  /\ target \in Powers /\ base \in 0..MaxW
  /\ share \in 0..Higher(target, 0)
  /\ mode \in Modes
  /\ pvLive \in BOOLEAN /\ pvPending \in BOOLEAN /\ gridLive \in BOOLEAN
  /\ CareShareIsOwned

\* Where the cycle is, and what Battery Care wants in it.
FlowInv ==
  /\ soc \in Soc /\ fresh \in BOOLEAN /\ candidate \in 0..MaxW
  /\ intent \in {"none", "regular", "emergency"}
  /\ pc \in Programs /\ cfg \in Configs
  /\ pc = "care" => cfg.manual = "AUTO"

\* What is in memory is what the database would be read as.
WholeEpisodes == {e \in Episode : e.level # 0 => e.reserve \in Reserve}
EpisodeInv ==
  /\ ep \in WholeEpisodes /\ sig \in Latch /\ latch \in Latch
  /\ loaded \in BOOLEAN /\ clearFailed \in BOOLEAN
  /\ disabledChecked \in BOOLEAN /\ stopped \in {"no", "stopped", "revived"}
  /\ loaded => LatchOf(ep) = latch /\ sig = latch

\* An episode that met a cycle without Battery Care is gone from the database,
\* or it is known that it could not be removed.
StopInv ==
  /\ disabledChecked => latch = NoLatch
  /\ Wanted(cfg) => ~disabledChecked
  /\ stopped = "stopped" => latch = NoLatch \/ clearFailed

\* There is an intent only between its persistence and the end of the cycle.
IntentInv ==
  intent # "none" =>
    /\ pc \in {"dispatch", "auto"}
    /\ ep.level # 0 /\ latch = LatchOf(ep) /\ stopped # "stopped"

CareInv == TargetInv /\ FlowInv /\ EpisodeInv /\ StopInv /\ IntentInv

-----------------------------------------------------------------------------
(* The target: what every handler does to it *)

\* A step that does not change the side of zero the target is on.
SameSide == (target > 0 => target' >= 0) /\ (target < 0 => target' <= 0)

LEMMA BetweenType ==
  ASSUME NEW t \in Powers, NEW s \in Between(t)
  PROVE  /\ s \in Powers
         /\ t >= 0 => 0 <= s /\ s <= t
         /\ t <= 0 => t <= s /\ s <= 0
BY DEF Between, Powers

LEMMA BoundsType ==
  ASSUME NEW a \in Int, NEW b \in Int
  PROVE  /\ Lower(a, b) \in Int /\ Lower(a, b) <= a /\ Lower(a, b) <= b
         /\ Higher(a, b) \in Int /\ Higher(a, b) >= a /\ Higher(a, b) >= b
         /\ Lower(a, b) \in {a, b} /\ Higher(a, b) \in {a, b}
BY DEF Lower, Higher

\* A commanded target takes of Battery Care's part what it has no room for.
LEMMA CommandKeeps ==
  ASSUME TargetInv, NEW t \in Powers, NEW m \in Modes, Command(t, m),
         base' = base, pvLive' = pvLive, pvPending' = pvPending,
         gridLive' = gridLive \/ t = 0, gridLive' \in BOOLEAN
  PROVE  TargetInv' /\ target' = t
<1>1. target' = t /\ mode' = m /\ share' = Lower(share, Higher(t, 0))
  BY DEF Command
<1>2. /\ share \in Nat /\ Higher(t, 0) \in Nat
      /\ t <= 0 => Higher(t, 0) = 0
  BY DEF TargetInv, Higher, Powers
<1>3. share' \in 0..Higher(t, 0) /\ share' <= share
  BY <1>1, <1>2 DEF Lower
<1>4. CareShareIsOwned'
  <2> SUFFICES ASSUME share' > 0 PROVE (gridLive \/ pvLive \/ pvPending)'
    BY DEF CareShareIsOwned
  <2>1. share > 0 /\ t # 0
    BY <1>2, <1>3
  <2>2. gridLive \/ pvLive \/ pvPending
    BY <2>1 DEF TargetInv, CareShareIsOwned
  <2> QED
    BY <2>1, <2>2
<1> QED
  BY <1>1, <1>3, <1>4 DEF TargetInv

\* The two ends of a target: nothing, and a part of what there was.
LEMMA NeutralKeeps ==
  ASSUME TargetInv, Neutral, base' = base, pvLive' = pvLive, pvPending' = pvPending,
         gridLive' \in BOOLEAN
  PROVE  TargetInv' /\ target' = 0 /\ share' = 0
<1>1. target' = 0 /\ mode' = "HOLD" /\ share' = Lower(share, Higher(0, 0))
  BY DEF Neutral, Command
<1>2. share' = 0
  BY <1>1 DEF TargetInv, Lower, Higher
<1> QED
  BY <1>1, <1>2 DEF TargetInv, CareShareIsOwned, Powers, Modes, Higher

LEMMA PartKeeps ==
  ASSUME TargetInv, NEW t \in Powers, NEW s \in Between(t), NEW m \in Modes,
         Command(s, m), UNCHANGED <<pv, gridLive>>
  PROVE  /\ TargetInv'
         /\ t >= 0 => 0 <= target' /\ target' <= t
         /\ t <= 0 => t <= target' /\ target' <= 0
<1>1. base' = base /\ pvLive' = pvLive /\ pvPending' = pvPending /\ gridLive' = gridLive
  BY DEF pv
<1>2. gridLive' \in BOOLEAN
  BY <1>1 DEF TargetInv
<1> QED
  BY <1>1, <1>2, BetweenType, CommandKeeps

LEMMA RampKeeps ==
  ASSUME TargetInv, UNCHANGED <<pv, gridLive>>, RampDownCharge \/ RampDownDischarge
  PROVE  /\ TargetInv'
         /\ RampDownCharge => target' >= 0
         /\ RampDownDischarge => target' <= 0
<1>1. target \in Powers
  BY DEF TargetInv
<1>2. /\ Higher(0, target - 1) \in Powers /\ Higher(0, target - 1) >= 0
      /\ Lower(0, target + 1) \in Powers /\ Lower(0, target + 1) <= 0
  BY <1>1 DEF Powers, Higher, Lower
<1>3. ASSUME RampDownCharge PROVE TargetInv' /\ target' >= 0
  <2>1. PICK s \in Between(Higher(0, target - 1)) : Command(s, "HOLD")
    BY <1>3 DEF RampDownCharge
  <2>2. TargetInv' /\ target' >= 0
    BY <1>2, <2>1, PartKeeps DEF Modes
  <2> QED
    BY <2>2
<1>4. ASSUME RampDownDischarge PROVE TargetInv' /\ target' <= 0
  <2>1. PICK s \in Between(Lower(0, target + 1)) : Command(s, "HOLD")
    BY <1>4 DEF RampDownDischarge
  <2>2. TargetInv' /\ target' <= 0
    BY <1>2, <2>1, PartKeeps DEF Modes
  <2> QED
    BY <2>2
<1> QED
  BY <1>3, <1>4

LEMMA NeutralAlone ==
  ASSUME TargetInv, Neutral, UNCHANGED <<pv, gridLive>>
  PROVE  TargetInv' /\ target' = 0 /\ share' = 0
<1>1. base' = base /\ pvLive' = pvLive /\ pvPending' = pvPending /\ gridLive' \in BOOLEAN
  BY DEF pv, TargetInv
<1> QED
  BY <1>1, NeutralKeeps

\* Near the deadband the target comes nearer to zero.
LEMMA DeadbandKeeps ==
  ASSUME TargetInv, HandleDeadband, UNCHANGED <<pv, gridLive>>
  PROVE  TargetInv' /\ SameSide /\ (target >= 0 => target' >= 0)
<1>1. target \in Powers
  BY DEF TargetInv
<1>2. CASE Neutral
  BY <1>2, NeutralAlone DEF SameSide
<1>3. CASE target > 0 /\ RampDownCharge
  <2>1. TargetInv' /\ target' >= 0
    BY <1>3, RampKeeps
  <2> QED
    BY <1>1, <1>3, <2>1 DEF SameSide, Powers
<1>4. CASE \E s \in Between(target) : Command(s, "HOLD")
  <2>1. PICK s \in Between(target) : Command(s, "HOLD")
    BY <1>4
  <2>2. /\ TargetInv'
        /\ target >= 0 => 0 <= target' /\ target' <= target
        /\ target <= 0 => target <= target' /\ target' <= 0
    BY <1>1, <2>1, PartKeeps DEF Modes
  <2> QED
    BY <1>1, <2>2 DEF SameSide, Powers
<1> QED
  BY <1>2, <1>3, <1>4 DEF HandleDeadband

\* Demand ends a charge before it discharges, and discharges above the floor.
LEMMA DischargeKeeps ==
  ASSUME TargetInv, HandleDischarge, UNCHANGED <<pv, gridLive>>
  PROVE  TargetInv' /\ SameSide /\ (soc <= DischargeFloor(cfg) => target' = 0)
<1>1. target \in Powers
  BY DEF TargetInv
<1>2. CASE soc <= DischargeFloor(cfg)
  BY <1>2, NeutralAlone DEF HandleDischarge, SameSide
<1>3. CASE ~(soc <= DischargeFloor(cfg)) /\ target > 0
  <2>1. TargetInv' /\ target' >= 0
    BY <1>3, RampKeeps DEF HandleDischarge
  <2> QED
    BY <1>1, <1>3, <2>1 DEF SameSide, Powers
<1>4. CASE ~(soc <= DischargeFloor(cfg)) /\ ~(target > 0)
  <2>1. CASE HandleDeadband
    BY <1>4, <2>1, DeadbandKeeps
  <2>2. CASE \E b \in Near(-target) : \E s \in Between(-b) : Command(s, "HOLD")
    <3>1. PICK b \in Near(-target) : \E s \in Between(-b) : Command(s, "HOLD")
      BY <2>2
    <3>2. -b \in Powers /\ -b <= 0
      BY <3>1 DEF Near, Powers
    <3>3. TargetInv' /\ target' <= 0
      BY <3>1, <3>2, PartKeeps DEF Modes
    <3> QED
      BY <1>1, <1>4, <3>3 DEF SameSide, Powers
  <2> QED
    BY <1>4, <2>1, <2>2 DEF HandleDischarge
<1> QED
  BY <1>2, <1>3, <1>4

\* What a promoted candidate adds to the base is what the flag is set for.
LEMMA PromoteKeeps ==
  ASSUME TargetInv, candidate \in 0..MaxW, NEW b \in 0..MaxW, NEW cross \in BOOLEAN,
         Promote(b, cross)
  PROVE  TargetInv' /\ target' >= 0
<1> DEFINE wish == IF CareCharges /\ ~cross THEN Higher(b, candidate) ELSE b
<1>1. wish \in 0..MaxW
  BY DEF Higher
<1> HIDE DEF wish
<1>2. PICK s \in Between(wish) :
        /\ target' = s /\ mode' = IF s = 0 /\ cross THEN "HOLD" ELSE "CHARGE"
        /\ base' = b /\ pvLive' = (s > b) /\ pvPending' = FALSE /\ gridLive' = FALSE
        /\ share' = IF s > b THEN s - b ELSE 0
  BY DEF Promote, wish
<1>3. s \in 0..MaxW
  BY <1>1, <1>2 DEF Between
<1>4. share' \in 0..s /\ (share' > 0 => s > b)
  BY <1>2, <1>3
<1>5. target' \in Powers /\ target' >= 0 /\ Higher(target', 0) = s
  BY <1>2, <1>3 DEF Powers, Higher
<1>6. mode' \in Modes
  BY <1>2 DEF Modes
<1>7. CareShareIsOwned'
  BY <1>2, <1>4 DEF CareShareIsOwned
<1>8. pvLive' \in BOOLEAN /\ pvPending' \in BOOLEAN /\ gridLive' \in BOOLEAN
  <2>1. (s > b) \in BOOLEAN
    OBVIOUS
  <2> QED
    BY <1>2, <2>1
<1> QED
  BY <1>2, <1>4, <1>5, <1>6, <1>7, <1>8 DEF TargetInv

\* Export ends a discharge before it charges.
LEMMA ChargeKeeps ==
  ASSUME TargetInv, soc \in Soc, candidate \in 0..MaxW, HandleCharge
  PROVE  TargetInv' /\ SameSide /\ (target >= 0 => target' >= 0)
<1>1. target \in Powers
  BY DEF TargetInv
<1>2. CASE Neutral /\ UNCHANGED <<pv, gridLive>>
  BY <1>2, NeutralAlone DEF SameSide
<1>3. CASE target < 0 /\ RampDownDischarge /\ UNCHANGED <<pv, gridLive>>
  <2>1. TargetInv' /\ target' <= 0
    BY <1>3, RampKeeps
  <2> QED
    BY <1>1, <1>3, <2>1 DEF SameSide, Powers
<1>4. CASE target >= 0 /\ RampDownCharge /\ UNCHANGED <<pv, gridLive>>
  <2>1. TargetInv' /\ target' >= 0
    BY <1>4, RampKeeps
  <2> QED
    BY <1>1, <1>4, <2>1 DEF SameSide, Powers
<1>5. CASE target >= 0 /\ \E b \in Near(ChargeFrom), cross \in BOOLEAN : Promote(b, cross)
  <2>1. TargetInv' /\ target' >= 0
    BY <1>5, PromoteKeeps DEF Near
  <2> QED
    BY <1>1, <1>5, <2>1 DEF SameSide, Powers
<1>6. \/ Neutral /\ UNCHANGED <<pv, gridLive>>
      \/ target < 0 /\ RampDownDischarge /\ UNCHANGED <<pv, gridLive>>
      \/ target >= 0 /\ RampDownCharge /\ UNCHANGED <<pv, gridLive>>
      \/ target >= 0 /\ \E b \in Near(ChargeFrom), cross \in BOOLEAN : Promote(b, cross)
  <2>1. soc >= MaxSoc \/ soc < MaxSoc
    OBVIOUS
  <2>2. target >= 0 \/ target < 0
    BY <1>1 DEF Powers
  <2> QED
    BY <2>1, <2>2 DEF HandleCharge
<1> QED
  BY <1>2, <1>3, <1>4, <1>5, <1>6

\* A step that leaves the target, and forgets no flag of it.
LEMMA TargetStands ==
  ASSUME TargetInv, UNCHANGED <<target, mode, share, base>>,
         pvLive' \in BOOLEAN, pvPending' \in BOOLEAN, gridLive' \in BOOLEAN,
         (gridLive \/ pvLive \/ pvPending) => (gridLive' \/ pvLive' \/ pvPending')
  PROVE  TargetInv' /\ SameSide
<1>1. target \in Powers
  BY DEF TargetInv
<1>2. SameSide
  BY <1>1 DEF SameSide, Powers
<1>3. CareShareIsOwned'
  BY DEF TargetInv, CareShareIsOwned
<1> QED
  BY <1>2, <1>3 DEF TargetInv

\* AUTO changes the side only through zero, and at the reserve it leaves no
\* discharge but the one that stands at MIN_SOC in the night.
LEMMA AutoKeeps ==
  ASSUME TargetInv, FlowInv, NEW grid, AutoControl(grid)
  PROVE  /\ TargetInv' /\ SameSide
         /\ AtReserve => target' >= 0 \/ (cfg.night /\ soc <= MinSoc /\ target' = target)
<1> DEFINE atMin == cfg.night /\ soc <= MinSoc /\ grid # "export"
           Kept == AtReserve => target' >= 0 \/ (cfg.night /\ soc <= MinSoc /\ target' = target)
<1>1. /\ target \in Powers /\ soc \in Soc /\ candidate \in 0..MaxW
      /\ pvLive \in BOOLEAN /\ pvPending \in BOOLEAN /\ gridLive \in BOOLEAN
  BY DEF TargetInv, FlowInv
<1>2. CASE atMin /\ UNCHANGED <<target, mode, share, pv, gridLive>>
  <2>1. TargetInv' /\ SameSide
    BY <1>1, <1>2, TargetStands DEF pv
  <2> QED
    BY <1>2, <2>1
<1>3. CASE Neutral /\ UNCHANGED <<pv, gridLive>>
  BY <1>3, NeutralAlone DEF SameSide
<1>4. CASE target >= 0 /\ UNCHANGED <<target, mode, share, pv, gridLive>>
  <2>1. TargetInv' /\ SameSide
    BY <1>1, <1>4, TargetStands DEF pv
  <2> QED
    BY <1>4, <2>1
<1>5. CASE /\ ~(AtReserve /\ target < 0)
           /\ \E s \in Between(target) \ {target} :
                /\ Command(s, IF s > 0 THEN "CHARGE" ELSE "HOLD")
                /\ UNCHANGED <<pv, gridLive>>
  <2>1. PICK s \in Between(target) :
          Command(s, IF s > 0 THEN "CHARGE" ELSE "HOLD") /\ UNCHANGED <<pv, gridLive>>
    BY <1>5
  <2> DEFINE m == IF s > 0 THEN "CHARGE" ELSE "HOLD"
  <2>2. m \in Modes /\ Command(s, m)
    BY <2>1 DEF Modes
  <2> HIDE DEF m
  <2>3. /\ TargetInv'
        /\ target >= 0 => 0 <= target' /\ target' <= target
        /\ target <= 0 => target <= target' /\ target' <= 0
    BY <1>1, <2>1, <2>2, PartKeeps
  <2> QED
    BY <1>1, <1>5, <2>3 DEF SameSide, Powers
<1>6. CASE ~(AtReserve /\ target < 0) /\ HandleCharge
  <2>1. TargetInv' /\ SameSide /\ (target >= 0 => target' >= 0)
    BY <1>1, <1>6, ChargeKeeps
  <2> QED
    BY <1>1, <1>6, <2>1 DEF Powers
<1>7. CASE ~(AtReserve /\ target < 0) /\ HandleDeadband /\ UNCHANGED <<pv, gridLive>>
  <2>1. TargetInv' /\ SameSide /\ (target >= 0 => target' >= 0)
    BY <1>7, DeadbandKeeps
  <2> QED
    BY <1>1, <1>7, <2>1 DEF Powers
<1>8. CASE HandleDischarge /\ UNCHANGED <<pv, gridLive>>
  <2>1. TargetInv' /\ SameSide /\ (soc <= DischargeFloor(cfg) => target' = 0)
    BY <1>8, DischargeKeeps
  <2>2. AtReserve => soc <= DischargeFloor(cfg)
    <3>1. cfg \in Config
      BY DEF FlowInv
    <3>2. CareFloor(cfg) \in Nat
      BY <3>1 DEF CareFloor, Config, None
    <3>3. CareFloor(cfg) <= Higher(MinSoc, CareFloor(cfg))
      BY <3>2 DEF Higher
    <3>4. Higher(MinSoc, CareFloor(cfg)) \in Nat
      BY <3>2 DEF Higher
    <3> QED
      BY <1>1, <3>2, <3>3, <3>4 DEF AtReserve, DischargeFloor
  <2> QED
    BY <2>1, <2>2
<1>9. \/ atMin /\ UNCHANGED <<target, mode, share, pv, gridLive>>
      \/ Neutral /\ UNCHANGED <<pv, gridLive>>
      \/ target >= 0 /\ UNCHANGED <<target, mode, share, pv, gridLive>>
      \/ /\ ~(AtReserve /\ target < 0)
         /\ \/ \E s \in Between(target) \ {target} :
                 /\ Command(s, IF s > 0 THEN "CHARGE" ELSE "HOLD")
                 /\ UNCHANGED <<pv, gridLive>>
            \/ HandleCharge
            \/ HandleDeadband /\ UNCHANGED <<pv, gridLive>>
      \/ HandleDischarge /\ UNCHANGED <<pv, gridLive>>
  BY DEF AutoControl
<1> HIDE DEF atMin
<1> QED
  BY <1>2, <1>3, <1>4, <1>5, <1>6, <1>7, <1>8, <1>9

\* A grid charge starts at zero or above, and is all Battery Care's.
LEMMA DispatchKeeps ==
  ASSUME TargetInv, FlowInv, Dispatch
  PROVE  TargetInv' /\ SameSide
<1>1. /\ target \in Powers /\ mode \in Modes
      /\ pvLive \in BOOLEAN /\ pvPending \in BOOLEAN /\ gridLive \in BOOLEAN
  BY DEF TargetInv
<1>2. CASE DispatchNothing
  BY <1>1, <1>2, TargetStands DEF DispatchNothing, pv
<1>3. CASE DispatchExit
  <2>1. /\ Neutral /\ base' = base /\ pvLive' = pvLive /\ pvPending' = pvPending
        /\ gridLive' \in BOOLEAN
    BY <1>3 DEF DispatchExit, pv
  <2>2. TargetInv' /\ target' = 0
    BY <2>1, NeutralKeeps
  <2> QED
    BY <2>2 DEF SameSide
<1>4. CASE DispatchNeutralize
  BY <1>4, NeutralAlone DEF DispatchNeutralize, SameSide
<1>5. CASE DispatchVeto
  <2>1. base' = base /\ pvLive' = pvLive /\ pvPending' = pvPending /\ gridLive' = FALSE
    BY <1>5 DEF DispatchVeto, pv
  <2>2. CASE gridLive
    <3>1. PICK m \in {mode, "HOLD"} : Command(0, m)
      BY <1>5, <2>2 DEF DispatchVeto
    <3>2. m \in Modes /\ 0 \in Powers
      BY <1>1 DEF Modes, Powers
    <3>3. TargetInv' /\ target' = 0
      BY <2>1, <3>1, <3>2, CommandKeeps
    <3> QED
      BY <3>3 DEF SameSide
  <2>3. CASE ~gridLive /\ UNCHANGED <<target, mode, share>>
    BY <1>1, <2>1, <2>3, TargetStands
  <2>4. CASE Neutral
    <3>1. gridLive' \in BOOLEAN
      BY <2>1
    <3>2. TargetInv' /\ target' = 0
      BY <2>1, <2>4, <3>1, NeutralKeeps
    <3> QED
      BY <3>2 DEF SameSide
  <2> QED
    BY <1>5, <2>2, <2>3, <2>4 DEF DispatchVeto
<1>6. CASE DispatchCharge
  <2>1. PICK s \in 0..MaxW :
          /\ target' = s /\ share' = s /\ gridLive' = (s > 0)
          /\ mode' = IF s > 0 THEN "CHARGE" ELSE "HOLD"
    BY <1>6 DEF DispatchCharge
  <2>2. base' = 0 /\ pvLive' = FALSE /\ pvPending' = TRUE /\ target >= 0
    BY <1>6 DEF DispatchCharge, NotDischarging
  <2>3. gridLive' \in BOOLEAN
    <3>1. (s > 0) \in BOOLEAN
      OBVIOUS
    <3> QED
      BY <2>1, <3>1
  <2>4. share' \in 0..Higher(target', 0) /\ target' \in Powers /\ target' >= 0
    BY <2>1 DEF Higher, Powers
  <2>5. mode' \in Modes
    BY <2>1 DEF Modes
  <2>6. CareShareIsOwned'
    BY <2>2 DEF CareShareIsOwned
  <2>7. TargetInv'
    <3>1. base' \in 0..MaxW
      BY <2>2
    <3>2. pvLive' \in BOOLEAN /\ pvPending' \in BOOLEAN
      BY <2>2
    <3> QED
      BY <2>3, <2>4, <2>5, <2>6, <3>1, <3>2 DEF TargetInv
  <2> QED
    BY <1>1, <2>2, <2>4, <2>7 DEF SameSide, Powers
<1> QED
  BY <1>2, <1>3, <1>4, <1>5, <1>6 DEF Dispatch

\* Steps of the cycle before Battery Care.
LEMMA RouteKeeps ==
  ASSUME TargetInv, FlowInv, Route
  PROVE  TargetInv' /\ (SameSide \/ (pc = "route" /\ (cfg.night \/ cfg.manual # "AUTO")))
<1>1. /\ target \in Powers /\ mode \in Modes
      /\ pvLive \in BOOLEAN /\ pvPending \in BOOLEAN /\ gridLive \in BOOLEAN
  BY DEF TargetInv
<1>2. CASE Preflight \/ Raised
  BY <1>1, <1>2, TargetStands DEF Preflight, Raised, pv
<1>3. CASE SafeStop
  BY <1>3, NeutralAlone DEF SafeStop, SameSide
<1>4. CASE NightPause \/ Day
  <2>1. UNCHANGED <<pv, gridLive>>
    BY <1>4 DEF NightPause, Day
  <2>2. CASE Neutral
    BY <2>1, <2>2, NeutralAlone DEF SameSide
  <2>3. CASE UNCHANGED <<target, mode, share>>
    BY <1>1, <2>1, <2>3, TargetStands DEF pv
  <2> QED
    BY <1>4, <2>2, <2>3 DEF NightPause, Day
<1>5. CASE Night
  <2>1. UNCHANGED <<pv, gridLive>> /\ pc = "route" /\ cfg.night
    BY <1>5 DEF Night
  <2>2. CASE Neutral
    BY <2>1, <2>2, NeutralAlone
  <2>3. CASE \E s \in Between(-MaxW) : Command(s, "NIGHT_DISCHARGE")
    <3>1. PICK s \in Between(-MaxW) : Command(s, "NIGHT_DISCHARGE")
      BY <2>3
    <3>2. -MaxW \in Powers
      BY DEF Powers
    <3>3. TargetInv'
      BY <2>1, <3>1, <3>2, PartKeeps DEF Modes
    <3> QED
      BY <2>1, <3>3
  <2> QED
    BY <1>5, <2>1, <2>2, <2>3 DEF Night
<1>6. CASE Manual
  <2>1. pc = "route" /\ cfg.manual # "AUTO" /\ gridLive' = FALSE
        /\ base' = base /\ pvLive' = pvLive /\ pvPending' = pvPending
    BY <1>6 DEF Manual, pv
  <2>2. CASE Neutral
    BY <2>1, <2>2, NeutralKeeps
  <2>3. CASE \E s \in Between(-MaxW) \cup Between(MaxW) :
               target' = s /\ mode' = "HOLD" /\ share' = 0
    <3>1. target' \in Powers /\ share' = 0 /\ mode' \in Modes
      BY <2>3 DEF Between, Powers, Modes
    <3>2. share' \in 0..Higher(target', 0) /\ CareShareIsOwned'
      BY <3>1 DEF Higher, Powers, CareShareIsOwned
    <3>3. TargetInv'
      BY <2>1, <3>1, <3>2 DEF TargetInv
    <3> QED
      BY <2>1, <3>3
  <2> QED
    BY <1>6, <2>2, <2>3 DEF Manual
<1> QED
  BY <1>2, <1>3, <1>4, <1>5, <1>6 DEF Route

\* A new cycle keeps the target; what it may forget is owed instead.
LEMMA BeginKeeps ==
  ASSUME TargetInv, NEW c \in Configs,
         BeginWanted(c) \/ \E ok \in BOOLEAN : BeginUnwanted(c, ok)
  PROVE  TargetInv' /\ SameSide
<1>1. /\ pvLive \in BOOLEAN /\ pvPending \in BOOLEAN /\ gridLive \in BOOLEAN
  BY DEF TargetInv
<1>2. /\ UNCHANGED <<target, mode, share, base, gridLive>> /\ PvReturn(c)
  BY DEF BeginWanted, BeginUnwanted
<1>3. /\ pvLive' \in BOOLEAN /\ pvPending' \in BOOLEAN
      /\ (pvLive \/ pvPending) => (pvLive' \/ pvPending')
  <2>1. CASE c.manual # "AUTO" \/ CareFloor(c) = None
    <3>1. pvPending' = (pvPending \/ pvLive) /\ pvLive' = FALSE
      BY <1>2, <2>1 DEF PvReturn
    <3> QED
      BY <1>1, <3>1
  <2>2. CASE ~(c.manual # "AUTO" \/ CareFloor(c) = None)
    <3>1. pvPending' = pvPending /\ pvLive' = pvLive
      BY <1>2, <2>2 DEF PvReturn
    <3> QED
      BY <1>1, <3>1
  <2> QED
    BY <2>1, <2>2
<1> QED
  BY <1>1, <1>2, <1>3, TargetStands

LEMMA TargetNext ==
  ASSUME TargetInv, FlowInv, Next
  PROVE  TargetInv' /\ (SameSide \/ (pc = "route" /\ (cfg.night \/ cfg.manual # "AUTO")))
<1>1. /\ pvLive \in BOOLEAN /\ pvPending \in BOOLEAN /\ gridLive \in BOOLEAN
  BY DEF TargetInv
<1>2. CASE Begin
  <2>1. PICK c \in Configs : BeginWanted(c) \/ \E ok \in BOOLEAN : BeginUnwanted(c, ok)
    BY <1>2 DEF Begin
  <2> QED
    BY <2>1, BeginKeeps
<1>3. CASE Route
  BY <1>3, RouteKeeps
<1>4. CASE Care \/ Sample \/ Age
  <2>1. UNCHANGED <<target, mode, share, base, pvLive, pvPending, gridLive>>
    BY <1>4 DEF Care, CareStep, CareFails, CareOff, Sample, Age, pv
  <2> QED
    BY <1>1, <2>1, TargetStands
<1>5. CASE Dispatch
  BY <1>5, DispatchKeeps
<1>6. CASE \E g \in {"import", "near", "export"} : AutoControl(g)
  BY <1>6, AutoKeeps
<1>7. CASE Restart
  <2>1. /\ target' = 0 /\ mode' = "START" /\ base' = 0 /\ share' = 0
        /\ pvLive' = FALSE /\ pvPending' = FALSE /\ gridLive' = FALSE
    BY <1>7 DEF Restart
  <2>2. target' \in Powers /\ base' \in 0..MaxW /\ share' \in 0..Higher(target', 0)
    BY <2>1 DEF Powers, Higher
  <2>3. mode' \in Modes /\ pvLive' \in BOOLEAN /\ pvPending' \in BOOLEAN /\ gridLive' \in BOOLEAN
    BY <2>1 DEF Modes
  <2>4. CareShareIsOwned' /\ SameSide
    BY <2>1 DEF CareShareIsOwned, SameSide
  <2> QED
    BY <2>2, <2>3, <2>4 DEF TargetInv
<1> QED
  BY <1>2, <1>3, <1>4, <1>5, <1>6, <1>7 DEF Next, Cycle

-----------------------------------------------------------------------------
(* The policy: what a decision makes of an episode *)

Observations == [soc : Soc, usable : BOOLEAN, eligible : BOOLEAN, elapsed : BOOLEAN]
Intents == {"none", "regular", "emergency"}

\* What a decision may do to a running episode: end it at its own reserve or,
\* a regular one, with the season; or raise it and keep the reserve.
ContinuesOrEnds(c, o, e, new) ==
  \/ LatchOf(new) = LatchOf(e)
  \/ new.level = 0 /\ o.soc >= e.reserve
  \/ new.level = 0 /\ c.care = "out" /\ e.level = 2
  \/ new.level > e.level /\ new.reserve = e.reserve

LEMMA LatchType ==
  ASSUME NEW e \in WholeEpisodes
  PROVE  /\ LatchOf(e) \in Latch
         /\ LatchOf(e) = NoLatch <=> e.level = 0
<1>1. e \in Episode /\ (e.level # 0 => e.reserve \in Reserve)
  BY DEF WholeEpisodes
<1>2. e.level \in {0, 2, 3}
  BY <1>1 DEF Episode
<1>3. CASE e.level = 0
  BY <1>3 DEF LatchOf, NoLatch, Latch
<1>4. CASE e.level # 0
  BY <1>1, <1>2, <1>4 DEF LatchOf, NoLatch, Latch
<1> QED
  BY <1>3, <1>4

\* What is loaded is what was saved.
LEMMA LoadType ==
  ASSUME NEW l \in Latch
  PROVE  EpisodeOf(l) \in WholeEpisodes /\ LatchOf(EpisodeOf(l)) = l
<1>1. CASE l = [level |-> 0, reserve |-> None]
  <2>1. EpisodeOf(l) = [level |-> 0, reserve |-> None, seen |-> FALSE, lows |-> 0, done |-> 0]
    <3> DEFINE e == EpisodeOf(l)
    <3>1. e = [NoEpisode EXCEPT !.level = l.level, !.reserve = l.reserve]
      BY DEF EpisodeOf
    <3>2. e = [level |-> l.level, reserve |-> l.reserve, seen |-> FALSE, lows |-> 0, done |-> 0]
      BY <3>1 DEF NoEpisode
    <3> QED
      BY <1>1, <3>2
  <2>2. EpisodeOf(l) \in WholeEpisodes /\ EpisodeOf(l).level = 0
    BY <2>1 DEF WholeEpisodes, Episode
  <2> QED
    BY <1>1, <2>2 DEF LatchOf, NoLatch
<1>2. CASE l \in [level : {2, 3}, reserve : Reserve]
  <2> DEFINE e == EpisodeOf(l)
  <2>1. e = [NoEpisode EXCEPT !.level = l.level, !.reserve = l.reserve]
    BY DEF EpisodeOf
  <2>2. e \in Episode /\ e.level = l.level /\ e.reserve = l.reserve
    <3>1. e = [level |-> l.level, reserve |-> l.reserve, seen |-> FALSE, lows |-> 0, done |-> 0]
      BY <2>1 DEF NoEpisode
    <3>2. l.level \in {0, 2, 3} /\ l.reserve \in Reserve \cup {None}
      BY <1>2
    <3> HIDE DEF e
    <3> QED
      BY <3>1, <3>2 DEF Episode
  <2> HIDE DEF e
  <2>3. LatchOf(e) = [level |-> l.level, reserve |-> l.reserve]
    BY <1>2, <2>2 DEF LatchOf
  <2>4. LatchOf(e) = l
    BY <1>2, <2>3
  <2>5. e \in WholeEpisodes
    BY <1>2, <2>2 DEF WholeEpisodes
  <2> QED
    BY <2>4, <2>5 DEF e
<1> QED
  BY <1>1, <1>2 DEF Latch

LEMMA NoEpisodeType == NoEpisode \in WholeEpisodes /\ NoEpisode.level = 0 /\ LatchOf(NoEpisode) = NoLatch
BY DEF NoEpisode, WholeEpisodes, Episode, LatchOf

\* Two distinct samples at the reserve end an episode; it is not changed before.
LEMMA RecoveredDecides ==
  ASSUME NEW c \in Config, NEW o \in Observations, NEW e \in WholeEpisodes,
         o.soc >= EpisodeReserve(c, e)
  PROVE  LET d == Recovered(e)
         IN /\ d.ep \in WholeEpisodes /\ d.intent \in Intents
            /\ d.intent # "none" => d.ep.level # 0
            /\ e.level # 0 => ContinuesOrEnds(c, o, e, d.ep)
<1> DEFINE d == Recovered(e)
           done == IF e.seen THEN e.done ELSE e.done + 1
           again == Confirmed(e)
<1>1. e \in Episode /\ (e.level # 0 => e.reserve \in Reserve)
  BY DEF WholeEpisodes
<1>2. again = [e EXCEPT !.seen = TRUE, !.done = done]
  BY <1>1 DEF Confirmed, Episode
<1>3. done \in 0..2
  BY <1>1 DEF Episode
<1> HIDE DEF done, again
<1>4. /\ again.level = e.level /\ again.reserve = e.reserve /\ again.done = done
      /\ again.seen = TRUE /\ again.lows = e.lows
  BY <1>1, <1>2 DEF Episode
<1>5. CASE e.level # 0 /\ again.done < 2
  <2>1. again \in Episode
    <3>1. done \in 0..1
      BY <1>3, <1>4, <1>5
    <3> QED
      BY <1>1, <1>2, <3>1 DEF Episode
  <2>2. again \in WholeEpisodes /\ LatchOf(again) = LatchOf(e)
    BY <1>1, <1>4, <2>1 DEF WholeEpisodes, LatchOf
  <2>3. d.ep = again /\ d.intent = IntentOf(e.level)
    BY <1>5 DEF Recovered, Decision, again
  <2>4. d.intent \in Intents
    BY <2>3 DEF IntentOf, Intents
  <2> HIDE DEF d
  <2>5. d.ep.level # 0 /\ ContinuesOrEnds(c, o, e, d.ep)
    BY <1>4, <1>5, <2>2, <2>3 DEF ContinuesOrEnds
  <2> QED
    BY <2>2, <2>3, <2>4, <2>5 DEF d
<1>6. CASE ~(e.level # 0 /\ again.done < 2)
  <2>1. d.ep = NoEpisode /\ d.intent = "none"
    BY <1>6 DEF Recovered, Decision, again
  <2>2. e.level # 0 => o.soc >= e.reserve
    BY DEF EpisodeReserve
  <2> QED
    BY <2>1, <2>2, NoEpisodeType DEF ContinuesOrEnds, Intents
<1> QED
  BY <1>5, <1>6

\* Below the reserve an episode starts, goes on or is raised.
LEMMA BelowDecides ==
  ASSUME NEW c \in Config, NEW o \in Observations, NEW e \in WholeEpisodes
  PROVE  LET d == BelowReserve(c, o, e)
         IN /\ d.ep \in WholeEpisodes /\ d.intent \in Intents
            /\ d.intent # "none" => d.ep.level # 0
            /\ e.level # 0 => ContinuesOrEnds(c, o, e, d.ep)
<1> DEFINE d == BelowReserve(c, o, e)
           here == [e EXCEPT !.seen = TRUE, !.done = 0]
           low == [LowSample(e) EXCEPT !.done = 0]
           reserve == EpisodeReserve(c, e)
           lows == IF e.seen THEN e.lows ELSE IF e.lows = 2 THEN 2 ELSE e.lows + 1
<1>1. e \in Episode /\ (e.level # 0 => e.reserve \in Reserve) /\ c.reserve \in Reserve
  BY DEF WholeEpisodes, Config
<1>2. e.level \in {0, 2, 3} /\ o.soc \in Nat
  BY <1>1 DEF Episode, Observations
<1>3. here \in Episode /\ here.level = e.level /\ here.reserve = e.reserve
  <2> DEFINE looked == [e EXCEPT !.seen = TRUE]
  <2>1. looked \in Episode /\ looked.level = e.level /\ looked.reserve = e.reserve
    BY <1>1 DEF Episode
  <2>2. here = [looked EXCEPT !.done = 0]
    OBVIOUS
  <2> HIDE DEF here, looked
  <2> QED
    BY <2>1, <2>2 DEF Episode
<1>4. low \in Episode /\ low.level = e.level /\ low.reserve = e.reserve
  <2>1. LowSample(e) = [e EXCEPT !.seen = TRUE, !.lows = lows]
    BY <1>1 DEF LowSample, Episode
  <2>2. lows \in 0..2
    BY <1>1 DEF Episode
  <2> HIDE DEF lows
  <2>3. /\ LowSample(e) \in Episode
        /\ LowSample(e).level = e.level /\ LowSample(e).reserve = e.reserve
    BY <1>1, <2>1, <2>2 DEF Episode
  <2> QED
    BY <2>3 DEF Episode
<1>5. reserve \in Reserve /\ (e.level # 0 => reserve = e.reserve)
  BY <1>1 DEF EpisodeReserve
<1> HIDE DEF here, low, reserve
<1>6. CASE o.soc <= EmergencySoc \/ e.level = 3
  <2> DEFINE new == [here EXCEPT !.level = 3, !.reserve = reserve]
  <2>1. d.intent = "emergency" /\ d.ep = new
    BY <1>2, <1>6 DEF BelowReserve, Decision, here, reserve
  <2>2. new \in Episode /\ new.level = 3 /\ new.reserve = reserve
    BY <1>3, <1>5 DEF Episode
  <2> HIDE DEF d, new
  <2>3. new \in WholeEpisodes
    BY <1>5, <2>2 DEF WholeEpisodes
  <2>4. e.level # 0 => ContinuesOrEnds(c, o, e, new)
    <3>1. CASE e.level = 3
      BY <1>5, <2>2, <3>1 DEF ContinuesOrEnds, LatchOf
    <3>2. CASE e.level = 2
      BY <1>5, <2>2, <3>2 DEF ContinuesOrEnds
    <3> QED
      BY <1>2, <3>1, <3>2
  <2> QED
    BY <2>1, <2>2, <2>3, <2>4 DEF Intents, d
<1>7. CASE o.soc > EmergencySoc /\ e.level = 2
  <2>1. d = Regular(here, o)
    BY <1>2, <1>7 DEF BelowReserve, here
  <2>2. d.ep = here /\ d.intent \in {"none", "regular"}
    BY <2>1 DEF Regular, Decision
  <2> HIDE DEF d
  <2>3. here \in WholeEpisodes /\ LatchOf(here) = LatchOf(e)
    BY <1>1, <1>3 DEF WholeEpisodes, LatchOf
  <2> QED
    BY <1>3, <1>7, <2>2, <2>3 DEF Intents, ContinuesOrEnds, d
<1>8. CASE o.soc > EmergencySoc /\ e.level = 0
  <2> DEFINE calm == [here EXCEPT !.lows = 0]
             begun == [low EXCEPT !.level = 2, !.reserve = c.reserve]
  <2>1. calm \in Episode /\ calm.level = 0
    BY <1>3, <1>8 DEF Episode
  <2>2. begun \in Episode /\ begun.level = 2 /\ begun.reserve \in Reserve
    BY <1>1, <1>4 DEF Episode
  <2>3. d = IF o.soc > TriggerSoc THEN Decision("none", calm)
            ELSE IF low.lows = 2 /\ o.elapsed THEN Regular(begun, o)
                 ELSE Decision("none", low)
    BY <1>2, <1>8 DEF BelowReserve, here, low
  <2> HIDE DEF d, calm, begun
  <2>4. \/ d.ep = calm /\ d.intent = "none"
        \/ d.ep = low /\ d.intent = "none"
        \/ d.ep = begun /\ d.intent \in {"none", "regular"}
    BY <2>3 DEF Decision, Regular
  <2>5. calm \in WholeEpisodes /\ low \in WholeEpisodes /\ begun \in WholeEpisodes
    BY <1>4, <1>8, <2>1, <2>2 DEF WholeEpisodes
  <2> QED
    BY <1>8, <2>2, <2>4, <2>5 DEF Intents, d
<1> QED
  BY <1>2, <1>6, <1>7, <1>8

LEMMA DecideType ==
  ASSUME NEW c \in Config, NEW o \in Observations, NEW e \in WholeEpisodes
  PROVE  LET d == Decide(c, o, e)
         IN /\ d.ep \in WholeEpisodes /\ d.intent \in Intents
            /\ d.intent # "none" => d.ep.level # 0
            /\ e.level # 0 => ContinuesOrEnds(c, o, e, d.ep)
<1> DEFINE d == Decide(c, o, e)
<1>1. CASE c.care = "out" /\ e.level # 3
  <2>1. d.ep = NoEpisode /\ d.intent = "none"
    BY <1>1 DEF Decide, Decision
  <2>2. e.level # 0 => e.level = 2
    BY <1>1 DEF WholeEpisodes, Episode
  <2> QED
    BY <1>1, <2>1, <2>2, NoEpisodeType DEF ContinuesOrEnds, Intents
<1>2. CASE ~(c.care = "out" /\ e.level # 3) /\ ~o.usable
  BY <1>2 DEF Decide, Decision, Intents, ContinuesOrEnds
<1>3. CASE /\ ~(c.care = "out" /\ e.level # 3) /\ o.usable
           /\ o.soc >= EpisodeReserve(c, e)
  <2>1. d = Recovered(e)
    BY <1>3 DEF Decide
  <2> QED
    BY <1>3, <2>1, RecoveredDecides
<1>4. CASE /\ ~(c.care = "out" /\ e.level # 3) /\ o.usable
           /\ ~(o.soc >= EpisodeReserve(c, e))
  <2>1. d = BelowReserve(c, o, e)
    BY <1>4 DEF Decide
  <2> QED
    BY <2>1, BelowDecides
<1> QED
  BY <1>1, <1>2, <1>3, <1>4

-----------------------------------------------------------------------------
(* The episode, its row and what may act on it *)

LEMMA CurrentType ==
  ASSUME EpisodeInv
  PROVE  Current \in WholeEpisodes /\ LatchOf(Current) = latch
<1>1. CASE loaded
  BY <1>1 DEF Current, EpisodeInv
<1>2. CASE ~loaded
  BY <1>2, LoadType DEF Current, EpisodeInv
<1> QED
  BY <1>1, <1>2

\* What this cycle may decide.
LEMMA DecisionsType ==
  ASSUME FlowInv, EpisodeInv, NEW d \in Decisions
  PROVE  /\ d.ep \in WholeEpisodes /\ d.intent \in Intents
         /\ d.intent # "none" => d.ep.level # 0
         /\ \/ cfg.care = "invalid" /\ d.ep.level = 0
            \/ /\ cfg.care # "invalid"
               /\ Current.level # 0 =>
                    \E o \in Observation : ContinuesOrEnds(cfg, o, Current, d.ep)
<1>1. CASE cfg.care = "invalid"
  <2>1. d.ep = NoEpisode /\ d.intent = "none"
    BY <1>1 DEF Decisions, Decision
  <2> QED
    BY <1>1, <2>1, NoEpisodeType DEF Intents
<1>2. CASE cfg.care # "invalid"
  <2>1. PICK o \in Observation : d = Decide(cfg, o, Current)
    BY <1>2 DEF Decisions
  <2>2. o \in Observations /\ cfg \in Config /\ Current \in WholeEpisodes
    BY CurrentType DEF Observation, Observations, FlowInv
  <2>3. /\ d.ep \in WholeEpisodes /\ d.intent \in Intents
        /\ d.intent # "none" => d.ep.level # 0
        /\ Current.level # 0 => ContinuesOrEnds(cfg, o, Current, d.ep)
    BY <2>1, <2>2, DecideType
  <2> QED
    BY <1>2, <2>1, <2>3
<1> QED
  BY <1>1, <1>2

\* Between two cycles only that Battery Care was wanted is remembered.
LEMMA RestingType ==
  ASSUME cfg \in Configs
  PROVE  Resting \in Configs /\ Wanted(Resting) = Wanted(cfg)
<1>1. \E c \in Configs : Wanted(c) = Wanted(cfg)
  OBVIOUS
<1> QED
  BY <1>1 DEF Resting

\* Steps that leave Battery Care alone.
LEMMA CareStands ==
  ASSUME EpisodeInv, StopInv, UNCHANGED care, Wanted(cfg') = Wanted(cfg)
  PROVE  EpisodeInv' /\ StopInv'
<1>1. /\ ep' = ep /\ loaded' = loaded /\ sig' = sig /\ clearFailed' = clearFailed
      /\ disabledChecked' = disabledChecked /\ latch' = latch /\ stopped' = stopped
  BY DEF care
<1> QED
  BY <1>1 DEF EpisodeInv, StopInv

\* The end of a cycle withdraws its intent.
LEMMA EndKeeps ==
  ASSUME FlowInv, EpisodeInv, StopInv, UNCHANGED reading, UNCHANGED care, Leave \/ Settle
  PROVE  FlowInv' /\ EpisodeInv' /\ StopInv' /\ IntentInv'
<1>1. /\ pc' \in {"idle", "settled"} /\ intent' = "none" /\ candidate' = 0 /\ cfg' = Resting
      /\ soc' = soc /\ fresh' = fresh
  BY DEF Leave, Settle, reading
<1>2. cfg' \in Configs /\ Wanted(cfg') = Wanted(cfg)
  BY <1>1, RestingType DEF FlowInv
<1>3. FlowInv'
  BY <1>1, <1>2 DEF FlowInv, Programs
<1>4. EpisodeInv' /\ StopInv'
  BY <1>2, CareStands
<1> QED
  BY <1>1, <1>3, <1>4 DEF IntentInv

\* A step within the cycle that leaves Battery Care alone.
LEMMA GoesOn ==
  ASSUME FlowInv, EpisodeInv, StopInv, IntentInv, UNCHANGED <<reading, care, cfg>>,
         candidate' = candidate, intent' = intent,
         \/ pc = "route" /\ pc' = "care" /\ cfg.manual = "AUTO"
         \/ pc = "dispatch" /\ pc' = "auto"
  PROVE  FlowInv' /\ EpisodeInv' /\ StopInv' /\ IntentInv'
<1>1. EpisodeInv' /\ StopInv'
  BY CareStands
<1>2. FlowInv'
  BY DEF FlowInv, Programs, Running, reading
<1>3. IntentInv'
  BY DEF IntentInv, care
<1> QED
  BY <1>1, <1>2, <1>3

LEMMA CycleStands ==
  ASSUME FlowInv, EpisodeInv, StopInv, IntentInv,
         Route \/ Dispatch \/ \E g \in {"import", "near", "export"} : AutoControl(g)
  PROVE  FlowInv' /\ EpisodeInv' /\ StopInv' /\ IntentInv'
<1>1. UNCHANGED reading /\ UNCHANGED care
  BY DEF Route, Preflight, SafeStop, Raised, Manual, Night, NightPause, Day, Dispatch,
     DispatchNothing, DispatchExit, DispatchNeutralize, DispatchVeto, DispatchCharge, AutoControl
<1>2. CASE Leave \/ Settle
  BY <1>1, <1>2, EndKeeps
<1>3. CASE NightPause \/ (Day /\ fresh)
  BY <1>1, <1>3, GoesOn DEF NightPause, Day
<1>4. CASE DispatchNothing
  BY <1>1, <1>4, GoesOn DEF DispatchNothing
<1> QED
  BY <1>2, <1>3, <1>4 DEF Route, Preflight, SafeStop, Raised, Manual, Night, Day, Dispatch,
     DispatchExit, DispatchNeutralize, DispatchVeto, DispatchCharge, AutoControl

\* An explicit stop removes the episode, or knows that it could not.
LEMMA ClearKeeps ==
  ASSUME EpisodeInv, NEW ok \in BOOLEAN, ClearLatch(ok),
         disabledChecked => latch = NoLatch,
         stopped' \in {"no", "stopped", "revived"}, ~Wanted(cfg')
  PROVE  EpisodeInv' /\ StopInv'
<1>1. NoLatch \in Latch /\ NoEpisode \in WholeEpisodes
  BY NoEpisodeType DEF NoLatch, Latch
<1>2. CASE disabledChecked /\ ~clearFailed
  BY <1>2 DEF ClearLatch, EpisodeInv, StopInv
<1>3. CASE ~(disabledChecked /\ ~clearFailed) /\ ok
  BY <1>1, <1>3 DEF ClearLatch, EpisodeInv, StopInv
<1>4. CASE ~(disabledChecked /\ ~clearFailed) /\ ~ok
  BY <1>4 DEF ClearLatch, EpisodeInv, StopInv
<1> QED
  BY <1>2, <1>3, <1>4

LEMMA BeginCare ==
  ASSUME FlowInv, EpisodeInv, StopInv, IntentInv, NEW c \in Configs,
         BeginWanted(c) \/ \E ok \in BOOLEAN : BeginUnwanted(c, ok)
  PROVE  FlowInv' /\ EpisodeInv' /\ StopInv' /\ IntentInv'
<1>1. /\ UNCHANGED <<reading, candidate, intent>> /\ cfg' = c /\ pc' = "route"
      /\ pc \in {"idle", "settled"}
  BY DEF BeginWanted, BeginUnwanted
<1>2. FlowInv'
  BY <1>1 DEF FlowInv, Programs, Running, reading
<1>3. intent = "none" /\ IntentInv'
  BY <1>1 DEF IntentInv
<1>4. CASE BeginWanted(c)
  BY <1>2, <1>3, <1>4 DEF BeginWanted, EpisodeInv, StopInv
<1>5. ASSUME NEW ok \in BOOLEAN, BeginUnwanted(c, ok) PROVE EpisodeInv' /\ StopInv'
  <2>1. stopped' \in {"no", "stopped", "revived"}
    <3>1. stopped' = IF latch # NoLatch THEN "stopped" ELSE stopped
      BY <1>5 DEF BeginUnwanted
    <3> QED
      BY <3>1 DEF EpisodeInv
  <2> QED
    BY <1>5, <2>1, ClearKeeps DEF BeginUnwanted, StopInv
<1> QED
  BY <1>2, <1>3, <1>4, <1>5

\* A candidate adds to the base it is built on.
LEMMA ShadowType ==
  ASSUME TargetInv, PvShadow
  PROVE  candidate' \in 0..MaxW
<1> DEFINE b == IF pvLive \/ pvPending \/ gridLive THEN base ELSE Higher(0, target)
<1>1. b \in 0..MaxW
  BY DEF TargetInv, Powers, Higher
<1>2. candidate' \in {0} \cup (b + 1)..MaxW
  BY DEF PvShadow
<1> HIDE DEF b
<1> QED
  BY <1>1, <1>2

\* A decision is saved before its intent exists.
LEMMA CareStepKeeps ==
  ASSUME TargetInv, FlowInv, EpisodeInv, StopInv, IntentInv, CareStep
  PROVE  FlowInv' /\ EpisodeInv' /\ StopInv' /\ IntentInv'
<1>1. PICK d \in Decisions : Persist(d.ep) /\ intent' = d.intent
  BY DEF CareStep
<1>2. /\ d.ep \in WholeEpisodes /\ d.intent \in Intents
      /\ d.intent # "none" => d.ep.level # 0
  BY <1>1, DecisionsType
<1>3. /\ pc' = "dispatch" /\ cfg' = cfg /\ soc' = soc /\ fresh' = fresh
      /\ clearFailed' = clearFailed /\ disabledChecked' = disabledChecked /\ ~clearFailed
      /\ Wanted(cfg)
  BY DEF CareStep, reading, FlowInv, Wanted
<1>4. /\ ep' = d.ep /\ latch' = LatchOf(d.ep) /\ sig' = LatchOf(d.ep) /\ loaded' = TRUE
      /\ stopped' = IF d.ep.level # 0 /\ (latch = NoLatch \/ (stopped = "revived" /\ latch' # latch))
                      THEN "no" ELSE stopped
  BY <1>1 DEF Persist
<1>5. candidate' \in 0..MaxW
  BY ShadowType DEF CareStep
<1>6. FlowInv'
  BY <1>1, <1>2, <1>3, <1>5 DEF FlowInv, Programs, Running, Intents
<1>7. EpisodeInv'
  <2>1. stopped' \in {"no", "stopped", "revived"}
    BY <1>4 DEF EpisodeInv
  <2> QED
    BY <1>2, <1>3, <1>4, <2>1, LatchType DEF EpisodeInv
<1>8. stopped = "stopped" => latch = NoLatch
  BY <1>3 DEF StopInv
<1>9. stopped' = "stopped" => d.ep.level = 0
  BY <1>4, <1>8
<1>10. StopInv'
  BY <1>2, <1>3, <1>4, <1>9, LatchType DEF StopInv
<1>11. IntentInv'
  BY <1>1, <1>2, <1>3, <1>4, <1>9 DEF IntentInv
<1> QED
  BY <1>6, <1>7, <1>10, <1>11

LEMMA CareFailsKeeps ==
  ASSUME TargetInv, FlowInv, EpisodeInv, StopInv, IntentInv, CareFails
  PROVE  FlowInv' /\ EpisodeInv' /\ StopInv' /\ IntentInv'
<1>1. /\ pc' = "dispatch" /\ cfg' = cfg /\ soc' = soc /\ fresh' = fresh
      /\ UNCHANGED <<clearFailed, disabledChecked, latch, stopped>> /\ intent' = "none"
  BY DEF CareFails, reading, IntentOnFailure
<1>2. candidate' \in 0..MaxW
  BY ShadowType DEF CareFails
<1>3. FlowInv'
  BY <1>1, <1>2 DEF FlowInv, Programs, Running
<1>4. EpisodeInv'
  <2>1. CASE UNCHANGED <<ep, sig, loaded>>
    BY <1>1, <2>1 DEF EpisodeInv
  <2>2. CASE ep' = Current /\ loaded' = TRUE /\ sig' = IF loaded THEN sig ELSE latch
    <3>1. ep' \in WholeEpisodes /\ LatchOf(ep') = latch
      BY <2>2, CurrentType
    <3>2. sig' = latch
      BY <2>2 DEF EpisodeInv
    <3> QED
      BY <1>1, <2>2, <3>1, <3>2 DEF EpisodeInv
  <2> QED
    BY <2>1, <2>2 DEF CareFails
<1>5. StopInv' /\ IntentInv'
  BY <1>1 DEF StopInv, IntentInv
<1> QED
  BY <1>3, <1>4, <1>5

LEMMA CareOffKeeps ==
  ASSUME TargetInv, FlowInv, EpisodeInv, StopInv, IntentInv, NEW ok \in BOOLEAN, CareOff(ok)
  PROVE  FlowInv' /\ EpisodeInv' /\ StopInv' /\ IntentInv'
<1>1. /\ pc' = "dispatch" /\ cfg' = cfg /\ soc' = soc /\ fresh' = fresh
      /\ stopped' = stopped /\ intent' = "none"
  BY DEF CareOff, reading, Refused
<1>2. candidate' \in 0..MaxW
  BY ShadowType DEF CareOff
<1>3. FlowInv' /\ IntentInv'
  BY <1>1, <1>2 DEF FlowInv, IntentInv, Programs, Running
<1>4. EpisodeInv' /\ StopInv'
  <2>1. CASE cfg.care = "off"
    <3>1. ClearLatch(ok) /\ ~Wanted(cfg') /\ stopped' \in {"no", "stopped", "revived"}
      BY <1>1, <2>1 DEF CareOff, Wanted, EpisodeInv
    <3> QED
      BY <3>1, ClearKeeps DEF StopInv
  <2>2. CASE cfg.care # "off"
    <3>1. UNCHANGED care /\ Wanted(cfg') = Wanted(cfg)
      BY <1>1, <2>2 DEF CareOff, care
    <3> QED
      BY <3>1, CareStands
  <2> QED
    BY <2>1, <2>2
<1> QED
  BY <1>3, <1>4

\* A new sample is a sample that the episode has not seen.
LEMMA SampleKeeps ==
  ASSUME FlowInv, EpisodeInv, StopInv, IntentInv, Sample
  PROVE  FlowInv' /\ EpisodeInv' /\ StopInv' /\ IntentInv'
<1>1. /\ ep' = [ep EXCEPT !.seen = FALSE]
      /\ UNCHANGED <<loaded, sig, clearFailed, disabledChecked, latch, stopped, cfg, intent>>
      /\ pc' = IF pc = "settled" THEN "idle" ELSE pc
  BY DEF Sample
<1>2. /\ ep' \in Episode /\ ep'.level = ep.level /\ ep'.reserve = ep.reserve
  BY <1>1 DEF EpisodeInv, WholeEpisodes, Episode
<1>3. ep' \in WholeEpisodes /\ LatchOf(ep') = LatchOf(ep)
  BY <1>2 DEF EpisodeInv, WholeEpisodes, LatchOf
<1>4. FlowInv'
  BY <1>1 DEF Sample, FlowInv, Programs
<1>5. EpisodeInv' /\ StopInv'
  BY <1>1, <1>3 DEF EpisodeInv, StopInv
<1>6. IntentInv'
  BY <1>1, <1>2, <1>3 DEF IntentInv
<1> QED
  BY <1>4, <1>5, <1>6

LEMMA AgeKeeps ==
  ASSUME FlowInv, EpisodeInv, StopInv, IntentInv, Age
  PROVE  FlowInv' /\ EpisodeInv' /\ StopInv' /\ IntentInv'
<1>1. EpisodeInv' /\ StopInv'
  BY CareStands DEF Age
<1>2. FlowInv' /\ IntentInv'
  BY DEF Age, FlowInv, IntentInv, Programs, care
<1> QED
  BY <1>1, <1>2

\* What survives the process is the row of the episode.
LEMMA RestartKeeps ==
  ASSUME FlowInv, EpisodeInv, StopInv, IntentInv, Restart
  PROVE  FlowInv' /\ EpisodeInv' /\ StopInv' /\ IntentInv'
<1>1. /\ ep' = NoEpisode /\ loaded' = FALSE /\ sig' = NoLatch /\ latch' = latch
      /\ clearFailed' = FALSE /\ disabledChecked' = FALSE /\ intent' = "none"
      /\ stopped' = IF stopped = "stopped" /\ clearFailed THEN "revived" ELSE stopped
      /\ pc' = "idle" /\ cfg' = Resting /\ candidate' = 0 /\ soc' = soc /\ fresh' = fresh
  BY DEF Restart, reading
<1>2. stopped' \in {"no", "stopped", "revived"}
  BY <1>1 DEF EpisodeInv
<1>3. EpisodeInv'
  BY <1>1, <1>2, NoEpisodeType DEF EpisodeInv, Latch, NoLatch
<1>4. StopInv'
  BY <1>1 DEF StopInv
<1>5. FlowInv'
  BY <1>1, RestingType DEF FlowInv, Programs
<1>6. IntentInv'
  BY <1>1 DEF IntentInv
<1> QED
  BY <1>3, <1>4, <1>5, <1>6

LEMMA NextCareInv == CareInv /\ [Next]_vars => CareInv'
<1> SUFFICES ASSUME CareInv, [Next]_vars PROVE CareInv'
  OBVIOUS
<1> USE DEF CareInv
<1>1. ASSUME Next PROVE CareInv'
  <2>1. TargetInv'
    BY <1>1, TargetNext
  <2>2. CASE Begin
    <3>1. PICK c \in Configs : BeginWanted(c) \/ \E ok \in BOOLEAN : BeginUnwanted(c, ok)
      BY <2>2 DEF Begin
    <3> QED
      BY <2>1, <3>1, BeginCare
  <2>3. CASE Route \/ Dispatch \/ \E g \in {"import", "near", "export"} : AutoControl(g)
    BY <2>1, <2>3, CycleStands
  <2>4. CASE Care
    BY <2>1, <2>4, CareStepKeeps, CareFailsKeeps, CareOffKeeps DEF Care
  <2>5. CASE Sample \/ Age \/ Restart
    BY <2>1, <2>5, SampleKeeps, AgeKeeps, RestartKeeps
  <2> QED
    BY <1>1, <2>2, <2>3, <2>4, <2>5 DEF Next, Cycle
<1>2. ASSUME UNCHANGED vars PROVE CareInv'
  BY <1>2 DEF vars, reading, care, pv, TargetInv, FlowInv, EpisodeInv, StopInv, IntentInv,
     CareShareIsOwned
<1> QED
  BY <1>1, <1>2

LEMMA CareInvIsInvariant == Spec => []CareInv
<1>1. Init => CareInv
  <2> SUFFICES ASSUME Init PROVE CareInv
    OBVIOUS
  <2>1. TargetInv
    <3>1. target = 0 /\ share = 0 /\ base = 0 /\ target \in Powers /\ base \in 0..MaxW
      BY DEF Init, Powers
    <3>2. share \in 0..Higher(target, 0) /\ CareShareIsOwned
      BY <3>1 DEF Higher, CareShareIsOwned
    <3> QED
      BY <3>1, <3>2 DEF Init, TargetInv, Modes
  <2>2. FlowInv
    <3>1. candidate \in 0..MaxW /\ soc \in Soc
      BY DEF Init
    <3>2. fresh \in BOOLEAN /\ intent = "none" /\ pc = "idle" /\ cfg \in Configs
      BY DEF Init
    <3> QED
      BY <3>1, <3>2 DEF FlowInv, Programs
  <2>3. EpisodeInv
    BY NoEpisodeType DEF Init, EpisodeInv, Latch, NoLatch
  <2>4. StopInv /\ IntentInv
    BY DEF Init, StopInv, IntentInv
  <2> QED
    BY <2>1, <2>2, <2>3, <2>4 DEF CareInv
<1> QED
  BY <1>1, NextCareInv, PTL DEF Spec

-----------------------------------------------------------------------------
(* The theorems *)

\* The parts of the target, the episode and the flags have their types, no part
\* exceeds the target, and power that Battery Care asked for is known as such,
\* through every mode, safety stop and restart (handle_charge,
\* _battery_care_grid_dispatch, _battery_care_pv_*).
THEOREM CareConsistent == Spec => []CareIsConsistent
<1>1. CareInv => CareIsConsistent
  <2> SUFFICES ASSUME CareInv PROVE CareIsConsistent
    OBVIOUS
  <2>1. ep \in Episode
    BY DEF CareInv, EpisodeInv, WholeEpisodes
  <2> QED
    BY <2>1 DEF CareInv, TargetInv, FlowInv, EpisodeInv, CareIsConsistent, TypeOK,
       Powers, Modes, Programs
<1> QED
  BY <1>1, CareInvIsInvariant, PTL

\* A grid charge is commanded for an intent of this cycle.
LEMMA GridChargeHasIntent ==
  ASSUME CareInv, [Next]_vars, GridCharge
  PROVE  intent # "none"
<1>1. TargetInv /\ FlowInv /\ share \in Nat
  BY DEF CareInv, TargetInv, Higher, Powers
<1>2. pc = "dispatch" /\ pc' = "idle" /\ gridLive' /\ share' > 0
  BY DEF GridCharge
<1>3. Next
  BY <1>2 DEF vars
<1>4. Dispatch \/ Restart
  BY <1>2, <1>3 DEF Next, Cycle, Begin, BeginWanted, BeginUnwanted, Route, Preflight, SafeStop,
     Raised, Manual, Night, NightPause, Day, Care, CareStep, CareFails, CareOff, AutoControl,
     Sample, Age
<1>5. ~Restart
  BY <1>2 DEF Restart
<1>6. ~DispatchNeutralize
  <2>1. ASSUME DispatchNeutralize PROVE share' = 0
    BY <1>1, <2>1, NeutralAlone DEF DispatchNeutralize
  <2> QED
    BY <1>2, <2>1
<1>7. DispatchCharge
  BY <1>2, <1>4, <1>5, <1>6 DEF Dispatch, DispatchNothing, DispatchExit, DispatchVeto
<1> QED
  BY <1>7 DEF DispatchCharge, Charges

\* Every grid charge belongs to the episode that the database holds, with its
\* level and its reserve (_battery_care_persist_episode before
\* _battery_care_grid_dispatch).
THEOREM PersistedFirst == Spec => PersistedBeforeCommand
<1>1. CareInv /\ [Next]_vars => [GridCharge => ep.level # 0 /\ latch = LatchOf(ep)]_vars
  <2>1. ASSUME CareInv, [Next]_vars, GridCharge PROVE ep.level # 0 /\ latch = LatchOf(ep)
    BY <2>1, GridChargeHasIntent DEF CareInv, IntentInv
  <2> QED
    BY <2>1
<1> QED
  BY <1>1, CareInvIsInvariant, PTL DEF Spec, PersistedBeforeCommand

\* An episode that met a cycle with Battery Care off or a manual mode does not
\* charge again, also after a restart; one that could not be cleared does not in
\* the process that failed to, and is excepted in the next one
\* (_battery_care_clear_latch_for_explicit_stop).
THEOREM StopHolds == Spec => StoppedStaysStopped
<1>1. CareInv /\ [Next]_vars => [GridCharge => stopped # "stopped"]_vars
  <2>1. ASSUME CareInv, [Next]_vars, GridCharge PROVE stopped # "stopped"
    BY <2>1, GridChargeHasIntent DEF CareInv, IntentInv
  <2> QED
    BY <2>1
<1> QED
  BY <1>1, CareInvIsInvariant, PTL DEF Spec, StoppedStaysStopped

LEMMA SignOfProduct ==
  ASSUME NEW a \in Int, NEW b \in Int, a > 0 => b >= 0, a < 0 => b <= 0
  PROVE  ~(a * b < 0)
<1>1. CASE a = 0
  BY <1>1
<1>2. CASE a > 0
  BY <1>2
<1>3. CASE a < 0
  BY <1>3
<1> QED
  BY <1>1, <1>2, <1>3

\* Only a fixed power turns a charge into a discharge or back in one step.
THEOREM ReversalPassesZero == Spec => NoDirectReversal
<1> DEFINE Passes == target * target' < 0 => pc = "route" /\ (cfg.night \/ cfg.manual # "AUTO")
<1>1. ASSUME CareInv, Next PROVE Passes
  <2>1. target \in Int /\ target' \in Int
    BY <1>1, TargetNext DEF CareInv, TargetInv, Powers
  <2>2. SameSide \/ (pc = "route" /\ (cfg.night \/ cfg.manual # "AUTO"))
    BY <1>1, TargetNext DEF CareInv
  <2>3. SameSide => ~(target * target' < 0)
    BY <2>1, SignOfProduct DEF SameSide
  <2> QED
    BY <2>2, <2>3
<1>2. CareInv /\ [Next]_vars => [Passes]_vars
  BY <1>1
<1> QED
  BY <1>2, CareInvIsInvariant, PTL DEF Spec, NoDirectReversal

\* No AUTO cycle leaves a discharge at the seasonal reserve, but the one that
\* stands at MIN_SOC in the night.
THEOREM ReserveHolds == Spec => ReserveIsKept
<1> DEFINE Keeps == pc = "auto" /\ pc' = "settled" /\ AtReserve =>
                      target' >= 0 \/ (cfg.night /\ soc <= MinSoc /\ target' = target)
<1>1. ASSUME CareInv, Next PROVE Keeps
  <2> SUFFICES ASSUME pc = "auto", pc' = "settled", AtReserve
               PROVE  target' >= 0 \/ (cfg.night /\ soc <= MinSoc /\ target' = target)
    OBVIOUS
  <2>1. PICK g : AutoControl(g)
    BY <1>1 DEF Next, Cycle, Begin, BeginWanted, BeginUnwanted, Route, Preflight, SafeStop,
       Raised, Manual, Night, NightPause, Day, Care, CareStep, CareFails, CareOff, Dispatch,
       DispatchNothing, DispatchExit, DispatchNeutralize, DispatchVeto, DispatchCharge,
       Sample, Age, Restart, Leave
  <2> QED
    BY <1>1, <2>1, AutoKeeps DEF CareInv
<1>2. CareInv /\ [Next]_vars => [Keeps]_vars
  BY <1>1 DEF vars
<1> QED
  BY <1>2, CareInvIsInvariant, PTL DEF Spec, ReserveIsKept

\* What one Battery Care step may make of a saved episode.
LEMMA EpisodeEnds ==
  ASSUME CareInv, CareStep, latch # NoLatch, latch' # latch
  PROVE  \/ latch' # NoLatch /\ latch'.reserve = latch.reserve /\ latch'.level > latch.level
         \/ latch' = NoLatch /\ pc = "care" /\ cfg.care \in {"in", "out"} /\ soc >= latch.reserve
         \/ latch' = NoLatch /\ pc = "care" /\ cfg.care = "out" /\ latch.level = 2
         \/ latch' = NoLatch /\ cfg.care = "invalid"
<1>1. PICK d \in Decisions : Persist(d.ep)
  BY DEF CareStep
<1>2. latch' = LatchOf(d.ep) /\ pc = "care" /\ cfg.care # "off"
  BY <1>1 DEF Persist, CareStep
<1>3. /\ Current \in WholeEpisodes /\ LatchOf(Current) = latch
      /\ Current.level # 0
  BY CurrentType, LatchType DEF CareInv
<1>4. latch.level = Current.level /\ latch.reserve = Current.reserve
  BY <1>3 DEF LatchOf
<1>5. /\ d.ep \in WholeEpisodes
      /\ \/ cfg.care = "invalid" /\ d.ep.level = 0
         \/ /\ cfg.care # "invalid"
            /\ \E o \in Observation : ContinuesOrEnds(cfg, o, Current, d.ep)
  BY <1>1, <1>3, DecisionsType DEF CareInv
<1>6. d.ep.level = 0 => latch' = NoLatch
  BY <1>2 DEF LatchOf
<1>7. CASE cfg.care = "invalid" /\ d.ep.level = 0
  BY <1>6, <1>7
<1>8. CASE cfg.care # "invalid"
  <2>1. PICK o \in Observation : ContinuesOrEnds(cfg, o, Current, d.ep)
    BY <1>5, <1>8
  <2>2. o.soc = soc
    BY <2>1 DEF Observation
  <2>3. cfg.care \in {"in", "out"}
    BY <1>2, <1>8 DEF CareInv, FlowInv, Config
  <2>4. CASE d.ep.level = 0
    <3>1. o.soc >= Current.reserve \/ (cfg.care = "out" /\ Current.level = 2)
      <4>1. Current.level \in {0, 2, 3}
        BY <1>3 DEF WholeEpisodes, Episode
      <4> QED
        BY <1>2, <1>3, <1>6, <2>1, <2>4, <4>1 DEF ContinuesOrEnds
    <3> QED
      BY <1>2, <1>4, <1>6, <2>2, <2>3, <2>4, <3>1
  <2>5. CASE d.ep.level # 0
    <3>1. d.ep.level > Current.level /\ d.ep.reserve = Current.reserve
      BY <1>2, <1>3, <2>1, <2>5 DEF ContinuesOrEnds
    <3>2. /\ latch'.level = d.ep.level /\ latch'.reserve = d.ep.reserve
          /\ latch' # NoLatch
      <4>1. latch' = [level |-> d.ep.level, reserve |-> d.ep.reserve]
        BY <1>2, <2>5 DEF LatchOf
      <4> QED
        BY <2>5, <4>1 DEF NoLatch
    <3> QED
      BY <1>4, <3>1, <3>2
  <2> QED
    BY <2>4, <2>5
<1> QED
  BY <1>5, <1>7, <1>8

\* While Battery Care stays on with valid settings an episode keeps its reserve
\* and its level never falls: it ends at that reserve, or as a regular one with
\* the season (decide_care, CareEpisodeStore, the clears of run_once).
THEOREM EpisodeKeepsReserve == Spec => EpisodeEndsAtItsReserve
<1> DEFINE Ends ==
             latch # NoLatch /\ latch' # latch =>
               \/ latch' # NoLatch /\ latch'.reserve = latch.reserve /\ latch'.level > latch.level
               \/ latch' = NoLatch /\ pc = "care" /\ cfg.care \in {"in", "out"} /\ soc >= latch.reserve
               \/ latch' = NoLatch /\ pc = "care" /\ cfg.care = "out" /\ latch.level = 2
               \/ latch' = NoLatch /\ (~Wanted(cfg') \/ cfg.care = "invalid")
<1>1. ASSUME CareInv, Next PROVE Ends
  <2> SUFFICES ASSUME latch # NoLatch, latch' # latch PROVE Ends
    OBVIOUS
  <2>1. \/ CareStep \/ (\E ok \in BOOLEAN : CareOff(ok))
        \/ \E c \in Configs : \E ok \in BOOLEAN : BeginUnwanted(c, ok)
    BY <1>1 DEF Next, Cycle, Begin, BeginWanted, Route, Preflight, SafeStop,
       Raised, Manual, Night, NightPause, Day, Care, CareFails, Dispatch,
       DispatchNothing, DispatchExit, DispatchNeutralize, DispatchVeto, DispatchCharge,
       AutoControl, Sample, Age, Restart, care
  <2>2. CASE CareStep
    BY <1>1, <2>2, EpisodeEnds
  <2>3. CASE \E ok \in BOOLEAN : CareOff(ok)
    <3>1. PICK ok \in BOOLEAN : CareOff(ok)
      BY <2>3
    <3>2. cfg.care = "off" /\ ClearLatch(ok) /\ cfg' = cfg
      BY <3>1 DEF CareOff
    <3> QED
      BY <3>2 DEF ClearLatch, Wanted
  <2>4. CASE \E c \in Configs : \E ok \in BOOLEAN : BeginUnwanted(c, ok)
    <3>1. PICK c \in Configs, ok \in BOOLEAN : BeginUnwanted(c, ok)
      BY <2>4
    <3>2. ~Wanted(cfg') /\ ClearLatch(ok)
      BY <3>1 DEF BeginUnwanted
    <3> QED
      BY <3>2 DEF ClearLatch
  <2> QED
    BY <2>1, <2>2, <2>3, <2>4
<1>2. CareInv /\ [Next]_vars => [Ends]_vars
  BY <1>1
<1> QED
  BY <1>2, CareInvIsInvariant, PTL DEF Spec, EpisodeEndsAtItsReserve

-----------------------------------------------------------------------------
(* The local API worker: its inductive invariants *)

USE SettingsAssumption, NoAddressAssumption, MaxGenAssumption

Waiting == {"turn", "wait"}

\* NoLostWakeUp looks at a worker that waits.  What it waits with was read at
\* the head of the turn, after the event was cleared; from there on it knows
\* everything, or the event is set, or the other thread is about to set it.
Informed ==
  (thread \in Waiting /\ ~wake) =>
    /\ mine = config \/ loop = "updated"
    /\ ~stop \/ loop \in {"signalled", "closing"}

\* A generation is given to one configuration only, and nothing carries one
\* that has not been given yet.
GenerationsMatch == mine.gen <= config.gen /\ (mine.gen = config.gen => mine = config)
RequestsAreOn == thread \in {"fetch", "success", "failure"} => mine.set.on
DataHasOrigin ==
  snap.data # NoData =>
    /\ snap.data.gen <= config.gen
    /\ snap.data.gen = config.gen => snap.data.ip = config.set.ip /\ config.set.on
OriginInv == GenerationsMatch /\ RequestsAreOn /\ DataHasOrigin

WorkerInv == WorkerTypeOK /\ Informed /\ OriginInv

Snapshots ==
  [gen : 1..MaxGen, state : WorkerState, data : Data \cup {NoData},
   backoff : Address \cup {NoAddress}]

\* What a published snapshot changes has its type, and the last good data stays.
LEMMA SnapshotType ==
  ASSUME NEW sn \in Snapshots, NEW gen \in 1..MaxGen, NEW state \in WorkerState,
         NEW off \in Address \cup {NoAddress}
  PROVE  /\ [sn EXCEPT !.gen = gen, !.state = state, !.backoff = off] \in Snapshots
         /\ [sn EXCEPT !.gen = gen, !.state = state] \in Snapshots
         /\ [sn EXCEPT !.state = state] \in Snapshots
         /\ [sn EXCEPT !.backoff = off] \in Snapshots
         /\ [sn EXCEPT !.gen = gen, !.state = state, !.backoff = off].data = sn.data
         /\ [sn EXCEPT !.gen = gen, !.state = state].data = sn.data
         /\ [sn EXCEPT !.state = state].data = sn.data
         /\ [sn EXCEPT !.backoff = off].data = sn.data
BY DEF Snapshots

LEMMA InitWorkerInv == WorkerInit => WorkerInv
<1> SUFFICES ASSUME WorkerInit PROVE WorkerInv
  OBVIOUS
<1>1. PICK s \in Settings : config = [gen |-> 1, set |-> s]
  BY DEF WorkerInit
<1>2. config \in Configuration /\ mine = config
  BY <1>1 DEF WorkerInit, Configuration
<1>3. snap \in Snapshots
  BY <1>1 DEF WorkerInit, Snapshots, WorkerState, Rest
<1>4. WorkerTypeOK
  BY <1>2, <1>3 DEF WorkerInit, WorkerTypeOK, Snapshots
<1>5. Informed
  BY DEF WorkerInit, Informed, Waiting
<1>6. OriginInv
  BY <1>1, <1>2 DEF WorkerInit, OriginInv, GenerationsMatch, RequestsAreOn, DataHasOrigin
<1> QED
  BY <1>4, <1>5, <1>6 DEF WorkerInv

-----------------------------------------------------------------------------
(* The loop's own steps *)

\* A step of the loop that starts no generation and leaves the worker alone.
LEMMA LoopKeepsOrigin ==
  ASSUME OriginInv, config' = config, mine' = mine, snap'.data = snap.data,
         thread' \in {"fetch", "success", "failure"} => thread' = thread
  PROVE  OriginInv'
BY DEF OriginInv, GenerationsMatch, RequestsAreOn, DataHasOrigin

LEMMA LoopStepInv == WorkerInv /\ (LoopStep \/ Signal) => WorkerInv'
<1> SUFFICES ASSUME WorkerInv, LoopStep \/ Signal PROVE WorkerInv'
  OBVIOUS
<1> USE DEF WorkerInv
<1>1. CASE SetWake
  <2>1. WorkerTypeOK'
    BY <1>1 DEF SetWake, worker, WorkerTypeOK
  <2>2. Informed'
    BY <1>1 DEF SetWake, Informed
  <2>3. OriginInv'
    BY <1>1, LoopKeepsOrigin DEF SetWake, worker
  <2> QED
    BY <2>1, <2>2, <2>3
<1>2. CASE StartWorker
  <2>1. WorkerTypeOK'
    BY <1>2 DEF StartWorker, WorkerTypeOK
  <2>2. Informed'
    BY <1>2 DEF StartWorker, Informed, Waiting
  <2>3. OriginInv'
    BY <1>2, LoopKeepsOrigin DEF StartWorker
  <2> QED
    BY <2>1, <2>2, <2>3
<1>3. CASE Close
  <2>1. WorkerTypeOK'
    BY <1>3 DEF Close, worker, WorkerTypeOK
  <2>2. Informed'
    BY <1>3 DEF Close, worker, Informed
  <2>3. OriginInv'
    BY <1>3, LoopKeepsOrigin DEF Close, worker
  <2> QED
    BY <2>1, <2>2, <2>3
<1>4. CASE ApplySnapshot
  <2>1. telemetry' \in Data \cup {NoData} /\ newData' \in BOOLEAN
    <3>1. CASE newData /\ SnapshotValid(snap, config) /\ ~aged
      <4>1. snap.data \in Data /\ config.gen \in 1..MaxGen
        BY <3>1 DEF SnapshotValid, WorkerTypeOK, Configuration
      <4>2. [ip |-> snap.data.ip, gen |-> config.gen] \in Data
        BY <4>1 DEF Data
      <4>3. telemetry' = [ip |-> snap.data.ip, gen |-> config.gen] /\ newData' = FALSE
        BY <1>4, <3>1 DEF ApplySnapshot
      <4> QED
        BY <4>2, <4>3
    <3>2. CASE ~(newData /\ SnapshotValid(snap, config) /\ ~aged)
      BY <1>4, <3>2 DEF ApplySnapshot, WorkerTypeOK
    <3> QED
      BY <3>1, <3>2
  <2>2. WorkerTypeOK'
    BY <1>4, <2>1 DEF ApplySnapshot, worker, WorkerTypeOK
  <2>3. Informed'
    BY <1>4 DEF ApplySnapshot, worker, Informed
  <2>4. OriginInv'
    BY <1>4, LoopKeepsOrigin DEF ApplySnapshot, worker
  <2> QED
    BY <2>2, <2>3, <2>4
<1>5. CASE SkipSnapshot
  <2>1. WorkerTypeOK'
    BY <1>5 DEF SkipSnapshot, worker, WorkerTypeOK
  <2>2. Informed'
    BY <1>5 DEF SkipSnapshot, worker, Informed
  <2>3. OriginInv'
    BY <1>5, LoopKeepsOrigin DEF SkipSnapshot, worker
  <2> QED
    BY <2>1, <2>2, <2>3
<1>6. CASE Signal
  <2>1. WorkerTypeOK'
    <3>1. stop' \in BOOLEAN /\ running' \in BOOLEAN
      BY <1>6 DEF Signal
    <3>2. wake' \in BOOLEAN /\ loop' \in {"init", "cycle", "signalled"}
      BY <1>6 DEF Signal, WorkerTypeOK
    <3>3. UNCHANGED <<config, worker, snap, aged, news, newData, telemetry>>
      BY <1>6 DEF Signal
    <3> QED
      BY <3>1, <3>2, <3>3 DEF worker, WorkerTypeOK
  <2>2. Informed'
    BY <1>6 DEF Signal, worker, Informed
  <2>3. OriginInv'
    BY <1>6, LoopKeepsOrigin DEF Signal, worker
  <2> QED
    BY <2>1, <2>2, <2>3
<1> QED
  BY <1>1, <1>2, <1>3, <1>4, <1>5, <1>6 DEF LoopStep

\* A new generation is above every one that was given before.
LEMMA UpdateConfigInv ==
  ASSUME WorkerInv, NEW s \in Settings, UpdateConfig(s)
  PROVE  WorkerInv'
<1> USE DEF WorkerInv
<1>1. /\ config \in Configuration /\ mine \in Configuration
      /\ config.gen \in 1..MaxGen /\ mine.gen \in 1..MaxGen
  BY DEF WorkerTypeOK, Configuration
<1>2. config'.gen = config.gen + 1 /\ config' = [gen |-> config.gen + 1, set |-> s]
  BY DEF UpdateConfig, NextGen
<1>3. config' \in Configuration
  BY <1>1, <1>2 DEF UpdateConfig, Configuration
<1>4. WorkerTypeOK'
  BY <1>3 DEF UpdateConfig, worker, WorkerTypeOK
<1>5. Informed'
  BY DEF UpdateConfig, worker, Informed
<1>6. snap.data # NoData => snap.data.gen \in 1..MaxGen
  BY DEF WorkerTypeOK, Data
<1>7. OriginInv'
  <2>1. mine' = mine /\ snap' = snap /\ thread' = thread
    BY DEF UpdateConfig, worker
  <2>2. GenerationsMatch'
    BY <1>1, <1>2, <2>1 DEF OriginInv, GenerationsMatch
  <2>3. DataHasOrigin'
    BY <1>1, <1>2, <1>6, <2>1 DEF OriginInv, DataHasOrigin
  <2> QED
    BY <2>1, <2>2, <2>3 DEF OriginInv, RequestsAreOn
<1> QED
  BY <1>4, <1>5, <1>7

-----------------------------------------------------------------------------
(* The worker's steps *)

\* Steps that publish a state and keep the data and the configuration.
LEMMA PublishKeeps ==
  ASSUME WorkerInv, NEW gen \in 1..MaxGen, NEW state \in WorkerState,
         NEW off \in Address \cup {NoAddress},
         \/ snap' = [snap EXCEPT !.gen = gen, !.state = state, !.backoff = off]
         \/ snap' = [snap EXCEPT !.gen = gen, !.state = state]
         \/ snap' = [snap EXCEPT !.state = state]
         \/ snap' = [snap EXCEPT !.backoff = off]
         \/ snap' = snap
  PROVE  snap' \in Snapshots /\ snap'.data = snap.data
<1>1. snap \in Snapshots
  BY DEF WorkerInv, WorkerTypeOK, Snapshots
<1>2. CASE snap' = [snap EXCEPT !.gen = gen, !.state = state, !.backoff = off]
  BY <1>1, <1>2, SnapshotType
<1>3. CASE snap' = [snap EXCEPT !.gen = gen, !.state = state]
  <2>1. PICK sn : sn = [snap EXCEPT !.gen = gen]
    OBVIOUS
  <2>2. sn \in Snapshots /\ sn.data = snap.data
    BY <1>1, <2>1 DEF Snapshots
  <2>3. snap' = [sn EXCEPT !.state = state]
    BY <1>3, <2>1
  <2>4. snap' \in Snapshots /\ snap'.data = sn.data
    BY <2>2, <2>3, SnapshotType
  <2> QED
    BY <2>2, <2>4
<1>4. CASE snap' = [snap EXCEPT !.state = state]
  BY <1>1, <1>4, SnapshotType
<1>5. CASE snap' = [snap EXCEPT !.backoff = off]
  BY <1>1, <1>5, SnapshotType
<1>6. CASE snap' = snap
  BY <1>1, <1>6
<1> QED
  BY <1>2, <1>3, <1>4, <1>5, <1>6

LEMMA TurnInv ==
  ASSUME WorkerInv, TurnDisabled \/ TurnBackoff \/ TurnIdle \/ TurnRequest
  PROVE  WorkerInv'
<1> USE DEF WorkerInv
<1>1. mine.gen \in 1..MaxGen /\ NoAddress \in Address \cup {NoAddress}
      /\ {"DISABLED", "IDLE", "BACKOFF", "REQUESTING"} \subseteq WorkerState
  BY DEF WorkerTypeOK, Configuration, WorkerState
<1>2. snap' \in Snapshots /\ snap'.data = snap.data
  <2>1. CASE TurnDisabled
    BY <1>1, <2>1, PublishKeeps DEF TurnDisabled, Publish
  <2>2. CASE TurnBackoff
    BY <1>1, <2>2, PublishKeeps DEF TurnBackoff, Publish
  <2>3. CASE TurnIdle
    BY <1>1, <2>3, PublishKeeps DEF TurnIdle, Publish
  <2>4. CASE TurnRequest
    BY <1>1, <2>4, PublishKeeps DEF TurnRequest, Publish
  <2> QED
    BY <2>1, <2>2, <2>3, <2>4
<1>3. /\ config' = config /\ stop' = stop /\ wake' = wake /\ mine' = mine /\ due' = due
      /\ aged' = aged /\ newData' = newData /\ telemetry' = telemetry
      /\ running' = running /\ loop' = loop /\ news' \in {TRUE, news}
      /\ thread = "turn"
      /\ thread' = "wait" \/ (thread' = "fetch" /\ mine.set.on)
  BY DEF TurnDisabled, TurnBackoff, TurnIdle, TurnRequest, Publish
<1>4. WorkerTypeOK'
  <2>1. news' \in BOOLEAN /\ thread' \in {"wait", "fetch"}
    BY <1>3 DEF WorkerTypeOK
  <2>2. snap' \in [gen : 1..MaxGen, state : WorkerState, data : Data \cup {NoData},
                   backoff : Address \cup {NoAddress}]
    BY <1>2 DEF Snapshots
  <2>3. /\ config' = config /\ stop' = stop /\ wake' = wake /\ mine' = mine /\ due' = due
        /\ aged' = aged /\ newData' = newData /\ telemetry' = telemetry
        /\ running' = running /\ loop' = loop
    BY <1>3
  <2> QED
    BY <2>1, <2>2, <2>3 DEF WorkerTypeOK
<1>5. Informed'
  BY <1>3 DEF Informed, Waiting
<1>6. OriginInv'
  BY <1>2, <1>3 DEF OriginInv, GenerationsMatch, RequestsAreOn, DataHasOrigin
<1> QED
  BY <1>4, <1>5, <1>6

LEMMA WorkerStepInv == WorkerInv /\ WorkerStep => WorkerInv'
<1> SUFFICES ASSUME WorkerInv, WorkerStep PROVE WorkerInv'
  OBVIOUS
<1> USE DEF WorkerInv
<1>0. /\ config \in Configuration /\ mine \in Configuration
      /\ config.gen \in 1..MaxGen /\ mine.gen \in 1..MaxGen
      /\ config.set \in Setting /\ mine.set \in Setting
      /\ Rest(config) \in WorkerState /\ Rest(mine) \in WorkerState
      /\ {"IDLE", "BACKOFF", "STOPPING", "STOPPED"} \subseteq WorkerState
      /\ NoAddress \in Address \cup {NoAddress}
      /\ mine.set.ip \in Address
  BY DEF WorkerTypeOK, Configuration, Setting, Rest, WorkerState
<1>1. CASE BeginThread
  <2>1. snap' \in Snapshots /\ snap'.data = snap.data
    BY <1>0, <1>1, PublishKeeps DEF BeginThread, Publish
  <2>2. WorkerTypeOK'
    BY <1>1, <2>1 DEF BeginThread, Publish, WorkerTypeOK, Snapshots
  <2>3. Informed'
    BY <1>1 DEF BeginThread, Informed, Waiting
  <2>4. OriginInv'
    BY <1>0, <1>1, <2>1 DEF BeginThread, OriginInv, GenerationsMatch, RequestsAreOn, DataHasOrigin
  <2> QED
    BY <2>2, <2>3, <2>4
<1>2. CASE Top
  <2>1. due' \in BOOLEAN /\ mine' \in {mine, config} /\ thread' \in {"ending", "turn"}
    BY <1>2 DEF Top, Reread, WorkerTypeOK
  <2>2. WorkerTypeOK'
    BY <1>2, <2>1 DEF Top, WorkerTypeOK
  <2>3. Informed'
    BY <1>2 DEF Top, Reread, Informed, Waiting
  <2>4. OriginInv'
    BY <1>0, <1>2, <2>1 DEF Top, OriginInv, GenerationsMatch, RequestsAreOn, DataHasOrigin
  <2> QED
    BY <2>2, <2>3, <2>4
<1>3. CASE TurnDisabled \/ TurnBackoff \/ TurnIdle \/ TurnRequest
  BY <1>3, TurnInv
<1>4. CASE Answered \/ Failed
  <2>1. /\ thread = "fetch"
        /\ \/ thread' = "late" /\ mine' = config
           \/ thread' \in {"success", "failure"} /\ mine' = mine
        /\ UNCHANGED <<config, stop, wake, due, snap, aged, news, newData, telemetry, running, loop>>
    BY <1>4 DEF Answered, Failed, Fetched
  <2>2. WorkerTypeOK'
    BY <2>1 DEF WorkerTypeOK
  <2>3. Informed'
    BY <2>1 DEF Informed, Waiting
  <2>4. OriginInv'
    BY <1>0, <2>1 DEF OriginInv, GenerationsMatch, RequestsAreOn, DataHasOrigin
  <2> QED
    BY <2>2, <2>3, <2>4
<1>5. CASE PublishSuperseded
  <2>1. snap' \in Snapshots /\ snap'.data = snap.data
    BY <1>0, <1>5, PublishKeeps DEF PublishSuperseded, Publish
  <2>2. WorkerTypeOK'
    BY <1>5, <2>1 DEF PublishSuperseded, Publish, WorkerTypeOK, Snapshots
  <2>3. Informed'
    BY <1>5 DEF PublishSuperseded, Informed, Waiting
  <2>4. OriginInv'
    BY <1>5, <2>1, LoopKeepsOrigin DEF PublishSuperseded
  <2> QED
    BY <2>2, <2>3, <2>4
<1>6. CASE PublishSuccess
  <2> DEFINE data == [ip |-> mine.set.ip, gen |-> mine.gen]
  <2>1. data \in Data /\ data.ip = mine.set.ip /\ data.gen = mine.gen
    BY <1>0 DEF Data
  <2>2. snap' = [gen |-> mine.gen, state |-> "IDLE", backoff |-> NoAddress, data |-> data]
    BY <1>6 DEF PublishSuccess, Publish
  <2> HIDE DEF data
  <2>3. snap' \in Snapshots /\ snap'.data = data
    BY <1>0, <2>1, <2>2 DEF Snapshots
  <2>4. WorkerTypeOK'
    BY <1>6, <2>3 DEF PublishSuccess, Publish, WorkerTypeOK, Snapshots
  <2>5. Informed'
    BY <1>6 DEF PublishSuccess, Informed, Waiting
  <2>6. mine.set.on
    BY <1>6 DEF PublishSuccess, OriginInv, RequestsAreOn
  <2>7. DataHasOrigin'
    BY <1>6, <2>1, <2>3, <2>6 DEF PublishSuccess, OriginInv, GenerationsMatch, DataHasOrigin
  <2>8. OriginInv'
    BY <1>6, <2>7 DEF PublishSuccess, OriginInv, GenerationsMatch, RequestsAreOn
  <2> QED
    BY <2>4, <2>5, <2>8
<1>7. CASE PublishFailure
  <2> DEFINE state == IF mine.set.backs THEN "BACKOFF" ELSE "IDLE"
             off == IF mine.set.backs THEN mine.set.ip ELSE NoAddress
  <2>1. state \in WorkerState /\ off \in Address \cup {NoAddress}
    BY <1>0
  <2>2. snap' = [snap EXCEPT !.gen = mine.gen, !.state = state, !.backoff = off]
    BY <1>7 DEF PublishFailure, Publish
  <2> HIDE DEF state, off
  <2>3. snap' \in Snapshots /\ snap'.data = snap.data
    BY <1>0, <2>1, <2>2, PublishKeeps
  <2>4. WorkerTypeOK'
    BY <1>7, <2>3 DEF PublishFailure, Publish, WorkerTypeOK, Snapshots
  <2>5. Informed'
    BY <1>7 DEF PublishFailure, Informed, Waiting
  <2>6. OriginInv'
    BY <1>7, <2>3, LoopKeepsOrigin DEF PublishFailure
  <2> QED
    BY <2>4, <2>5, <2>6
<1>8. CASE WaitEnds
  <2>1. WorkerTypeOK'
    BY <1>8 DEF WaitEnds, AfterWake, WorkerTypeOK
  <2>2. Informed'
    BY <1>8 DEF WaitEnds, AfterWake, Informed, Waiting
  <2>3. OriginInv'
    BY <1>8, LoopKeepsOrigin DEF WaitEnds, AfterWake
  <2> QED
    BY <2>1, <2>2, <2>3
<1>9. CASE ClearWake
  <2>1. WorkerTypeOK'
    BY <1>9 DEF ClearWake, AfterClear, WorkerTypeOK
  <2>2. Informed'
    BY <1>9 DEF ClearWake, AfterClear, Informed, Waiting
  <2>3. OriginInv'
    BY <1>9, LoopKeepsOrigin DEF ClearWake, AfterClear
  <2> QED
    BY <2>1, <2>2, <2>3
<1>10. CASE Ending
  <2>1. snap' \in Snapshots /\ snap'.data = snap.data
    BY <1>0, <1>10, PublishKeeps DEF Ending, Publish
  <2>2. WorkerTypeOK'
    BY <1>10, <2>1 DEF Ending, Publish, WorkerTypeOK, Snapshots
  <2>3. Informed'
    BY <1>10 DEF Ending, Informed, Waiting
  <2>4. OriginInv'
    BY <1>10, <2>1, LoopKeepsOrigin DEF Ending
  <2> QED
    BY <2>2, <2>3, <2>4
<1>11. CASE Ended
  <2>1. snap' \in Snapshots /\ snap'.data = snap.data
    BY <1>0, <1>11, PublishKeeps DEF Ended, Publish
  <2>2. WorkerTypeOK'
    BY <1>11, <2>1 DEF Ended, Publish, WorkerTypeOK, Snapshots
  <2>3. Informed'
    BY <1>11 DEF Ended, Informed, Waiting
  <2>4. OriginInv'
    BY <1>11, <2>1, LoopKeepsOrigin DEF Ended
  <2> QED
    BY <2>2, <2>3, <2>4
<1> QED
  BY <1>1, <1>2, <1>3, <1>4, <1>5, <1>6, <1>7, <1>8, <1>9, <1>10, <1>11 DEF WorkerStep

LEMMA TimeInv == WorkerInv /\ (Cool \/ Due \/ GrowOld) => WorkerInv'
<1> SUFFICES ASSUME WorkerInv, Cool \/ Due \/ GrowOld PROVE WorkerInv'
  OBVIOUS
<1> USE DEF WorkerInv
<1>0. snap \in Snapshots
  BY DEF WorkerTypeOK, Snapshots
<1>1. snap' \in Snapshots /\ snap'.data = snap.data
  BY <1>0 DEF Cool, Due, GrowOld, Snapshots
<1>2. /\ config' = config /\ stop' = stop /\ wake' = wake /\ mine' = mine /\ thread' = thread
      /\ newData' = newData /\ telemetry' = telemetry /\ news' = news
      /\ running' = running /\ loop' = loop
      /\ due' \in {TRUE, due} /\ aged' \in {TRUE, aged}
  BY DEF Cool, Due, GrowOld, worker
<1>3. WorkerTypeOK'
  <2>1. due' \in BOOLEAN /\ aged' \in BOOLEAN
    BY <1>2 DEF WorkerTypeOK
  <2> QED
    BY <1>1, <1>2, <2>1 DEF WorkerTypeOK, Snapshots
<1>4. Informed'
  BY <1>2 DEF Informed
<1>5. OriginInv'
  BY <1>1, <1>2, LoopKeepsOrigin
<1> QED
  BY <1>3, <1>4, <1>5

LEMMA NextWorkerInv == WorkerInv /\ [WorkerNext]_workerVars => WorkerInv'
<1>1. WorkerInv /\ UNCHANGED workerVars => WorkerInv'
  BY DEF workerVars, worker, WorkerInv, WorkerTypeOK, Informed, OriginInv, GenerationsMatch,
         RequestsAreOn, DataHasOrigin
<1> QED
  BY <1>1, LoopStepInv, UpdateConfigInv, WorkerStepInv, TimeInv DEF WorkerNext

LEMMA WorkerInvIsInvariant == WorkerSpec => []WorkerInv
BY InitWorkerInv, NextWorkerInv, PTL DEF WorkerSpec

-----------------------------------------------------------------------------
(* The theorems *)

\* No wake-up is lost: whatever the interleaving of update_config, of the
\* signal handler, of close and of the worker's wait and clear, a worker that
\* waits without the event knows the configuration and no stop, or the event is
\* about to be set (ZendureLocalApiWorker._wait, update_config, request_stop).
THEOREM WakeUpsArrive == WorkerSpec => []WorkerIsInformed
<1>1. WorkerInv => WorkerIsInformed
  BY DEF WorkerInv, WorkerIsInformed, Informed, NoLostWakeUp, Waiting
<1> QED
  BY <1>1, WorkerInvIsInvariant, PTL

\* What the loop applies was read from the device it is configured for, while
\* polling was on, although a request may be answered after the configuration
\* changed and its data outlive it (update_zendure_telemetry_from_local_api_snapshot).
THEOREM AppliedFromItsDevice == WorkerSpec => AppliedIsCurrent
<1>1. ASSUME WorkerInv, [WorkerNext]_workerVars, telemetry' # telemetry
      PROVE  telemetry'.ip = config.set.ip /\ config.set.on
  <2>1. ApplySnapshot
    BY <1>1 DEF WorkerNext, workerVars, WorkerStep, LoopStep, BeginThread, Top, TurnDisabled, TurnBackoff,
       TurnIdle, TurnRequest, Answered, Failed, Fetched, PublishSuperseded, PublishSuccess,
       PublishFailure, WaitEnds, ClearWake, Ending, Ended, SetWake, StartWorker, Close,
       SkipSnapshot, Signal, UpdateConfig, Cool, Due, GrowOld
  <2>2. /\ SnapshotValid(snap, config)
        /\ telemetry' = [ip |-> snap.data.ip, gen |-> config.gen]
    BY <1>1, <2>1 DEF ApplySnapshot
  <2> QED
    BY <1>1, <2>2 DEF SnapshotValid, WorkerInv, OriginInv, DataHasOrigin
<1>2. WorkerInv /\ [WorkerNext]_workerVars =>
        [telemetry' # telemetry => telemetry'.ip = config.set.ip /\ config.set.on]_workerVars
  BY <1>1
<1> QED
  BY <1>2, WorkerInvIsInvariant, PTL DEF WorkerSpec, AppliedIsCurrent
=============================================================================
