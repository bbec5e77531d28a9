------------------------ MODULE SettingsRuntimeProofs ------------------------
(***************************************************************************)
(* Proofs about SettingsRuntime for all values of its constants: types and *)
(* the lock, the stable-ready clock, what is promoted, what is adopted.    *)
(***************************************************************************)
EXTENDS SettingsRuntime, TLAPS

(***************************************************************************)
(* The inductive invariant, a part for each thing the steps rely on.       *)
(***************************************************************************)

\* What is shown as valid is a configuration, and a running NORMAL process
\* has applied its live part.
ShownIsValid ==
  /\ m.primaryValid => m.configured \in Configs
  /\ m.mode = "NORMAL" /\ m.primaryValid => m.effective.live = m.configured.live

\* The typed revision is that of the configuration shown.
TypedIsShown == m.typedRev # None => m.typedRev = m.configured

\* The stable-ready clock measures the proof observed last, for at most as
\* long as it has been held.
ClockFollowsProof ==
  m.readyAge # None =>
    /\ observed # None
    /\ m.readyAge <= steady
    /\ m.readyProof # None => m.readyProof = observed

\* The thread promotes a proven configuration.
WorkerIsProven == worker # NoWorker => worker.config \in proven

\* From its token on, a session has a candidate to write.
CandidateIsValid ==
  \A s \in Sessions : web[s].at \notin {"idle", "revision"} => web[s].cand \in Configs

TypeInv == TypeOK /\ ShownIsValid /\ CandidateIsValid
IInv == TypeInv /\ TypedIsShown /\ ClockFollowsProof /\ WorkerIsProven /\ LastGoodWasProven

LEMMA ConfigsRun == Configs \subseteq Effectives /\ Defaults \in Effectives
  BY DEF Configs, Effectives, Defaults

LEMMA ConfigRevisions == Configs \subseteq Revisions
  BY SettingsAssumption DEF Revisions, Contents

LEMMA StartType ==
  ASSUME NEW content \in Contents, lastGood \in Configs \cup {None, Unusable}
  PROVE  Started(content) \in Managers
<1>1. CASE content \in Configs
  <2>1. StartValid(content) \in Managers
    <3>1. content \in Effectives /\ content \in Revisions /\ None \in Revisions
      BY <1>1, ConfigsRun, ConfigRevisions DEF Revisions
    <3> QED BY <1>1, <3>1 DEF StartValid, Managers, Modes
  <2> QED BY <1>1, <2>1 DEF Started
<1>2. CASE content \notin Configs
  <2> DEFINE raw == RawOf(content)  rev == Revision(content)  stat == SeenStat(content)
  <2>1. raw \in Configs \cup Raws \cup {None}
    BY DEF RawOf
  <2>2. rev \in Revisions
    BY DEF Revision, Revisions
  <2>3. stat \in {"none", "current", "old"}
    BY DEF SeenStat
  <2> HIDE DEF raw, rev, stat
  <2>4. StartInvalid(content, lastGood, rev, stat, raw) \in Managers
    BY <2>1, <2>2, <2>3, ConfigsRun DEF StartInvalid, StartMode, Managers, Modes
  <2> QED BY <1>2, <2>4 DEF Started, raw, rev, stat
<1> QED BY <1>1, <1>2

LEMMA AppliedType ==
  ASSUME m \in Managers, NEW content \in Configs
  PROVE  Applied(content) \in Effectives
<1>1. m.effective \in Effectives
  BY DEF Managers
<1> QED BY <1>1 DEF Applied, Effectives, Configs

LEMMA SetValues ==
  ASSUME NEW r \in Managers, NEW content \in Configs, NEW run \in Effectives,
         content \in Revisions
  PROVE  [r EXCEPT !.configured = content, !.persisted = content, !.effective = run,
                   !.configuredRev = content, !.typedRev = content] \in Managers
  BY DEF Managers

LEMMA SetStat ==
  ASSUME NEW r \in Managers, NEW stat \in {"none", "current", "old"}
  PROVE  [r EXCEPT !.lastStat = stat] \in Managers
  BY DEF Managers

LEMMA SetHealth ==
  ASSUME NEW r \in Managers, NEW valid \in BOOLEAN,
         NEW health \in {"valid", "missing", "invalid_startup", "invalid_runtime"}
  PROVE  [r EXCEPT !.health = health, !.primaryValid = valid] \in Managers
<1>1. PICK a : a = [r EXCEPT !.health = health]
  OBVIOUS
<1>2. a \in Managers
  BY <1>1 DEF Managers
<1>3. [r EXCEPT !.health = health, !.primaryValid = valid] = [a EXCEPT !.primaryValid = valid]
  BY <1>1
<1>4. [a EXCEPT !.primaryValid = valid] \in Managers
  BY <1>2 DEF Managers
<1> QED
  BY <1>3, <1>4

LEMMA SetInvalid ==
  ASSUME NEW r \in Managers, NEW rev \in Revisions, NEW raw \in Configs \cup Raws \cup {None}
  PROVE  [r EXCEPT !.invalidRev = rev, !.invalidRaw = raw] \in Managers
  BY DEF Managers

LEMMA SetMode ==
  ASSUME NEW r \in Managers, NEW mode \in Modes,
         NEW source \in {"primary", "last_valid_runtime", "last_good", "defaults"}
  PROVE  [r EXCEPT !.source = source, !.mode = mode] \in Managers
<1>1. PICK a : a = [r EXCEPT !.source = source]
  OBVIOUS
<1>2. a \in Managers
  BY <1>1 DEF Managers
<1>3. [r EXCEPT !.source = source, !.mode = mode] = [a EXCEPT !.mode = mode]
  BY <1>1
<1>4. [a EXCEPT !.mode = mode] \in Managers
  BY <1>2 DEF Managers
<1> QED
  BY <1>3, <1>4

LEMMA SetReady ==
  ASSUME NEW r \in Managers, NEW age \in 0..StableReady \cup {None},
         NEW proof \in Proofs \cup {None}
  PROVE  [r EXCEPT !.readyAge = age, !.readyProof = proof] \in Managers
<1>1. PICK a : a = [r EXCEPT !.readyAge = age]
  OBVIOUS
<1>2. a \in Managers
  BY <1>1 DEF Managers
<1>3. [r EXCEPT !.readyAge = age, !.readyProof = proof] = [a EXCEPT !.readyProof = proof]
  BY <1>1
<1>4. [a EXCEPT !.readyProof = proof] \in Managers
  BY <1>2 DEF Managers
<1> QED
  BY <1>3, <1>4

LEMMA SetPending ==
  ASSUME NEW r \in Managers, NEW pending \in BOOLEAN
  PROVE  [r EXCEPT !.pending = pending] \in Managers
  BY DEF Managers

LEMMA SetSource ==
  ASSUME NEW r \in Managers, NEW rev \in Revisions
  PROVE  [r EXCEPT !.configuredRev = rev, !.source = "last_valid_runtime",
                   !.rollbackFailed = FALSE] \in Managers
  BY DEF Managers

LEMMA SetShown ==
  ASSUME NEW r \in Managers, NEW raw \in Configs \cup Raws
  PROVE  [r EXCEPT !.configured = raw, !.persisted = raw, !.typedRev = None] \in Managers
  BY DEF Managers

LEMMA SetFailed ==
  ASSUME NEW r \in Managers, NEW failed \in BOOLEAN
  PROVE  [r EXCEPT !.rollbackFailed = failed] \in Managers
  BY DEF Managers

LEMMA AdoptType ==
  ASSUME m \in Managers, NEW content \in Configs
  PROVE  SetValidPrimary(content) \in Managers
<1> DEFINE
  run == Applied(content)
  age == IF m.typedRev # content THEN None ELSE m.readyAge
  m1 == [m EXCEPT !.configured = content, !.persisted = content,
                  !.effective = run, !.configuredRev = content, !.typedRev = content]
  m2 == [[m1 EXCEPT !.lastStat = "current"] EXCEPT !.health = "valid", !.primaryValid = TRUE]
  m3 == [m2 EXCEPT !.invalidRev = None, !.invalidRaw = None]
  m4 == [m3 EXCEPT !.source = "primary", !.mode = "NORMAL"]
  m5 == [m4 EXCEPT !.readyAge = age, !.readyProof = None]
  m6 == [m5 EXCEPT !.rollbackFailed = FALSE]
<1>1. content \in Revisions /\ None \in Revisions
  BY ConfigRevisions DEF Revisions
<1>2. age \in 0..StableReady \cup {None}
  BY DEF Managers
<1> HIDE DEF age
<1>3. m1 \in Managers
  BY <1>1, AppliedType, SetValues
<1> HIDE DEF m1
<1>4. m2 \in Managers
  BY <1>3, SetStat, SetHealth
<1> HIDE DEF m2
<1>5. m3 \in Managers
  BY <1>1, <1>4, SetInvalid
<1> HIDE DEF m3
<1>6. m4 \in Managers
  BY <1>5, SetMode DEF Modes
<1> HIDE DEF m4
<1>7. m5 \in Managers
  BY <1>2, <1>6, SetReady
<1> HIDE DEF m5
<1>8. m6 \in Managers
  BY <1>7, SetFailed
<1>9. SetValidPrimary(content) = m6
  BY DEF SetValidPrimary, m1, m2, m3, m4, m5, age, Managers
<1> QED BY <1>8, <1>9

LEMMA UnreadType ==
  ASSUME lastGood \in Configs \cup {None, Unusable}, NEW stat \in {"none", "current", "old"}
  PROVE  StartedUnread(stat) \in Managers
<1>1. None \in Revisions
  BY DEF Revisions
<1> QED BY <1>1, ConfigsRun DEF StartedUnread, StartInvalid, StartMode, Managers, Modes

LEMMA NoteType ==
  ASSUME m \in Managers, NEW rev \in Revisions, NEW stat \in {"none", "current", "old"},
         NEW raw \in Configs \cup Raws \cup {None}
  PROVE  NoteInvalid(rev, stat, raw) \in Managers
<1> DEFINE
  m1 == [m EXCEPT !.pending = FALSE, !.lastStat = stat]
  m2 == [m1 EXCEPT !.health = "invalid_runtime", !.primaryValid = FALSE]
  m3 == [m2 EXCEPT !.invalidRev = rev, !.invalidRaw = raw]
  m4 == [m3 EXCEPT !.configuredRev = rev, !.source = "last_valid_runtime",
                   !.rollbackFailed = FALSE]
  m5 == [m4 EXCEPT !.configured = raw, !.persisted = raw, !.typedRev = None]
<1>1. m1 \in Managers
  <2>1. [m EXCEPT !.pending = FALSE] \in Managers
    BY SetPending
  <2> QED BY <2>1, SetStat
<1> HIDE DEF m1
<1>3. m2 \in Managers
  BY <1>1, SetHealth
<1> HIDE DEF m2
<1>4. m3 \in Managers
  BY <1>3, SetInvalid
<1> HIDE DEF m3
<1>5. m4 \in Managers
  BY <1>4, SetSource
<1> HIDE DEF m4
<1>6. CASE raw = None
  <2>1. NoteInvalid(rev, stat, raw) \in {m1, m4}
    BY <1>6 DEF NoteInvalid, m1, m2, m3, m4, Managers
  <2> QED BY <2>1, <1>1, <1>5
<1>7. CASE raw # None
  <2>1. m5 \in Managers
    BY <1>5, <1>7, SetShown
  <2>2. NoteInvalid(rev, stat, raw) \in {m1, m5}
    BY <1>7 DEF NoteInvalid, m1, m2, m3, m4, m5, Managers
  <2> QED BY <2>1, <2>2, <1>1
<1> QED BY <1>6, <1>7

LEMMA CappedType ==
  ASSUME NEW n \in 0..StableReady
  PROVE  Capped(n) \in 0..StableReady /\ Capped(n) >= n
  BY SettingsAssumption DEF Capped

LEMMA EffectiveType == ASSUME NEW r \in Managers PROVE r.effective \in Effectives
  BY DEF Managers

LEMMA FileTypes ==
  ASSUME NEW content \in Contents
  PROVE  /\ Revision(content) \in Revisions /\ None \in Revisions
         /\ SeenStat(content) \in {"none", "current", "old"}
         /\ RawOf(content) \in Configs \cup Raws \cup {None}
  BY DEF Revision, Revisions, SeenStat, RawOf

LEMMA IdleType == Idle \in WebStates
  BY DEF Idle, WebStates, Revisions

LEMMA RewriteType ==
  ASSUME TypeOK, NEW content \in Contents, Rewrite(content)
  PROVE  file' \in Contents /\ m' \in Managers
<1>1. NewStat(m.lastStat) \in {"none", "current", "old"}
  BY DEF NewStat
<1>2. [m EXCEPT !.lastStat = NewStat(@)] \in Managers
  BY <1>1, SetStat DEF TypeOK
<1> QED BY <1>2 DEF Rewrite

LEMMA InitType == Init => TypeOK
<1> SUFFICES ASSUME Init PROVE TypeOK
  OBVIOUS
<1>1. file \in Contents
  BY SettingsAssumption DEF Init, Contents
<1>2. lastGood \in Configs \cup {None, Unusable}
  BY SettingsAssumption DEF Init
<1>3. m \in Managers
  BY <1>1, <1>2, StartType DEF Init
<1>4. applied \in Effectives
  BY <1>3, EffectiveType DEF Init
<1>5. web \in [Sessions -> WebStates]
  BY IdleType DEF Init
<1>6. \A s \in Sessions : web[s].at \notin Locking
  BY DEF Init, Idle, Locking
<1>7. /\ cycle \in {"reload", "observe"}
      /\ worker \in [config : Configs \cup {None}, result : {"none", "promoted", "failed"}]
      /\ observed \in Proofs \cup {None} /\ steady \in 0..StableReady
      /\ proven \subseteq Configs
  BY SettingsAssumption DEF Init, NoWorker
<1> QED BY <1>1, <1>2, <1>3, <1>4, <1>5, <1>6, <1>7 DEF TypeOK

LEMMA RestartType == TypeOK /\ Restart => TypeOK'
<1> SUFFICES ASSUME TypeOK, Restart PROVE TypeOK'
  OBVIOUS
<1>1. file' \in Contents
  BY SettingsAssumption DEF TypeOK, Restart
<1>2. m' \in Managers
  BY StartType, UnreadType DEF TypeOK, Restart
<1>3. applied' \in Effectives
  BY <1>2, EffectiveType DEF Restart, FreshProcess
<1>4. web' \in [Sessions -> WebStates]
  BY IdleType DEF Restart, FreshProcess
<1>5. \A s \in Sessions : web'[s].at \notin Locking
  BY DEF Restart, FreshProcess, Idle, Locking
<1>6. /\ cycle' \in {"reload", "observe"}
      /\ worker' \in [config : Configs \cup {None}, result : {"none", "promoted", "failed"}]
      /\ observed' \in Proofs \cup {None} /\ steady' \in 0..StableReady
  BY SettingsAssumption DEF Restart, FreshProcess, NoWorker
<1>7. lastGood' = lastGood /\ proven' = proven
  BY DEF Restart
<1> QED BY <1>1, <1>2, <1>3, <1>4, <1>5, <1>6, <1>7 DEF TypeOK

LEMMA ReloadType == TypeOK /\ Reload => TypeOK'
<1> SUFFICES ASSUME TypeOK, Reload PROVE TypeOK'
  OBVIOUS
<1>1. m' \in Managers /\ file' \in Contents
  <2>1. CASE ReloadUnchanged
    BY <2>1, SetPending DEF ReloadUnchanged, TypeOK
  <2>2. CASE ReloadValid
    <3>1. file \in Configs
      BY <2>2 DEF ReloadValid, Reloadable
    <3>2. SetValidPrimary(file) \in Managers
      BY <3>1, AdoptType DEF TypeOK
    <3>3. m' = [SetValidPrimary(file) EXCEPT !.pending = FALSE] /\ file' = file
      BY <2>2 DEF ReloadValid
    <3> QED BY <3>2, <3>3, SetPending DEF TypeOK
  <2>3. CASE ReloadInvalid
    <3>1. file' = file
      BY <2>3 DEF ReloadInvalid
    <3>2. \E rev \in Revisions, stat \in {"none", "current", "old"},
             raw \in Configs \cup Raws \cup {None} : m' = NoteInvalid(rev, stat, raw)
      BY <2>3, FileTypes DEF ReloadInvalid, TypeOK
    <3> QED BY <3>1, <3>2, NoteType DEF TypeOK
  <2>4. CASE ReloadTorn
    <3>1. file' \in Contents
      BY <2>4, SettingsAssumption DEF ReloadTorn
    <3>2. m' = [[m EXCEPT !.pending = FALSE] EXCEPT !.lastStat = NewStat(m.lastStat)]
      BY <2>4 DEF ReloadTorn, TypeOK, Managers
    <3>3. NewStat(m.lastStat) \in {"none", "current", "old"}
      BY DEF NewStat
    <3>4. [m EXCEPT !.pending = FALSE] \in Managers
      BY SetPending DEF TypeOK
    <3> QED BY <3>1, <3>2, <3>3, <3>4, SetStat
  <2> QED BY <2>1, <2>2, <2>3, <2>4 DEF Reload
<1>2. applied' \in Effectives
  BY <1>1, EffectiveType DEF Reload, ReloadUnchanged, ReloadValid, ReloadInvalid, ReloadTorn,
     Refresh, TypeOK
<1>3. observed' \in Proofs \cup {None} /\ steady' \in 0..StableReady
  BY SettingsAssumption DEF Reload, ReloadUnchanged, ReloadValid, ReloadInvalid, ReloadTorn,
     ObserveAdoption, TypeOK
<1>4. cycle' = "observe" /\ UNCHANGED <<lastGood, web, worker, proven>>
  BY DEF Reload
<1> QED BY <1>1, <1>2, <1>3, <1>4 DEF TypeOK

LEMMA SetAge ==
  ASSUME NEW r \in Managers, NEW age \in 0..StableReady \cup {None}
  PROVE  [r EXCEPT !.readyAge = age] \in Managers
  BY DEF Managers

LEMMA SetPromoted ==
  ASSUME NEW r \in Managers, NEW config \in Configs \cup {None}
  PROVE  [r EXCEPT !.lastPromoted = config] \in Managers
  BY DEF Managers

LEMMA SetRestored ==
  ASSUME NEW r \in Managers, NEW rev \in Revisions
  PROVE  [r EXCEPT !.health = "invalid_runtime", !.primaryValid = FALSE,
                    !.invalidRev = rev, !.rollbackFailed = TRUE] \in Managers
<1>1. PICK a : a = [r EXCEPT !.health = "invalid_runtime", !.primaryValid = FALSE]
  OBVIOUS
<1>2. a \in Managers
  BY <1>1, FALSE \in BOOLEAN, SetHealth
<1>3. PICK b : b = [a EXCEPT !.invalidRev = rev]
  OBVIOUS
<1>4. b \in Managers
  BY <1>2, <1>3 DEF Managers
<1>5. [r EXCEPT !.health = "invalid_runtime", !.primaryValid = FALSE,
                !.invalidRev = rev, !.rollbackFailed = TRUE] = [b EXCEPT !.rollbackFailed = TRUE]
  BY <1>1, <1>3
<1>6. [b EXCEPT !.rollbackFailed = TRUE] \in Managers
  <2>1. PICK failed \in BOOLEAN : failed = TRUE
    OBVIOUS
  <2>2. [b EXCEPT !.rollbackFailed = failed] \in Managers
    BY <1>4 DEF Managers
  <2> QED
    BY <2>1, <2>2
<1> QED
  BY <1>5, <1>6

LEMMA AgeType ==
  ASSUME NEW r \in Managers, r.readyAge # None
  PROVE  Capped(r.readyAge) \in 0..StableReady
<1>1. r.readyAge \in 0..StableReady
  BY DEF Managers
<1> QED BY <1>1, CappedType

LEMMA TimedType ==
  ASSUME m \in Managers, NEW ready \in BOOLEAN, NEW proof \in Proofs
  PROVE  Timed(ready, proof) \in Managers
<1> DEFINE age == IF m.readyAge = None THEN 0 ELSE Capped(m.readyAge)
<1>1. 0 \in 0..StableReady
  BY SettingsAssumption
<1>2. age \in 0..StableReady
  BY <1>1, AgeType
<1>3. CASE ~Eligible(ready)
  BY <1>3, SetReady DEF Timed
<1>4. CASE Eligible(ready) /\ proof # m.readyProof
  BY <1>1, <1>4, SetReady DEF Timed
<1>5. CASE Eligible(ready) /\ proof = m.readyProof
  <2>1. Timed(ready, proof) = [m EXCEPT !.readyAge = age]
    BY <1>5 DEF Timed, Managers
  <2> HIDE DEF age
  <2> QED BY <1>2, <2>1, SetAge
<1> QED BY <1>3, <1>4, <1>5

LEMMA ObserveType == TypeInv /\ ObserveReady => TypeOK'
<1> SUFFICES ASSUME TypeInv, ObserveReady PROVE TypeOK'
  OBVIOUS
<1>1. cycle' \in {"reload", "observe"} /\ UNCHANGED <<file, lastGood, applied, web>>
  BY DEF ObserveReady
<1>2. CASE ObserveRecovery
  <2>1. m' \in Managers
    BY <1>2 DEF ObserveRecovery, TypeInv, TypeOK, Managers, Modes
  <2>2. UNCHANGED <<worker, observed, steady, proven>>
    BY <1>2 DEF ObserveRecovery, history
  <2> QED BY <1>1, <2>1, <2>2 DEF TypeInv, TypeOK
<1>3. CASE ObserveNormal
  <2>1. PICK proof \in Proofs, ready \in BOOLEAN :
          /\ m' = Timed(ready, proof)
          /\ ObserveProof(ready, proof)
          /\ IF Eligible(ready) THEN SchedulePromotion ELSE UNCHANGED worker
    BY <1>3 DEF ObserveNormal
  <2>2. m' \in Managers
    BY <2>1, TimedType DEF TypeInv, TypeOK
  <2> DEFINE genuine == ready /\ m.mode = "NORMAL" /\ m.primaryValid /\ m.configured = m.effective
             held == IF genuine /\ proof = observed THEN Capped(steady) ELSE 0
  <2>3. held \in 0..StableReady
    BY CappedType, SettingsAssumption DEF TypeInv, TypeOK
  <2>4. observed' \in Proofs \cup {None} /\ steady' \in 0..StableReady
    BY <2>1, <2>3 DEF ObserveProof
  <2>5. held = StableReady => m.configured \in Configs
    BY SettingsAssumption DEF TypeInv, ShownIsValid
  <2>6. proven' \subseteq Configs
    BY <2>1, <2>5 DEF ObserveProof, TypeInv, TypeOK
  <2>7. worker' \in [config : Configs \cup {None}, result : {"none", "promoted", "failed"}]
    BY <2>1 DEF Eligible, SchedulePromotion, TypeInv, TypeOK, ShownIsValid
  <2> QED BY <1>1, <2>2, <2>4, <2>6, <2>7 DEF TypeInv, TypeOK
<1> QED BY <1>2, <1>3 DEF ObserveReady

LEMMA ObserveFailsType == TypeOK /\ ObserveFails => TypeOK'
<1> SUFFICES ASSUME TypeOK, ObserveFails PROVE TypeOK'
  OBVIOUS
<1>1. m' \in Managers
  BY AgeType, SetAge DEF ObserveFails, TypeOK
<1>2. steady' \in 0..StableReady
  BY CappedType DEF ObserveFails, TypeOK
<1> QED BY <1>1, <1>2 DEF ObserveFails, TypeOK

LEMMA ThreadType == TypeOK /\ Thread => TypeOK'
<1> SUFFICES ASSUME TypeOK, Thread PROVE TypeOK'
  OBVIOUS
<1>1. CASE Promote \/ PromoteFails
  <2>1. UNCHANGED <<file, m, cycle, applied, web, observed, steady, proven>>
    BY <1>1 DEF Promote, PromoteFails, history
  <2>2. lastGood' \in Configs \cup {None, Unusable}
    BY <1>1 DEF Promote, PromoteFails, Snapshot, TypeOK
  <2>3. worker' \in [config : Configs \cup {None}, result : {"none", "promoted", "failed"}]
    BY <1>1 DEF Promote, PromoteFails, TypeOK
  <2> QED BY <2>1, <2>2, <2>3 DEF TypeOK
<1>2. CASE ReportPromotion
  <2> DEFINE config == IF worker.result = "promoted" THEN worker.config ELSE m.lastPromoted
  <2>4. config \in Configs \cup {None}
    BY DEF TypeOK, Managers
  <2>5. m' = [m EXCEPT !.lastPromoted = config]
    BY <1>2 DEF ReportPromotion
  <2> HIDE DEF config
  <2>1. m' \in Managers
    BY <2>4, <2>5, SetPromoted DEF TypeOK
  <2>2. UNCHANGED <<file, lastGood, cycle, applied, web, observed, steady, proven>>
    BY <1>2 DEF ReportPromotion, history
  <2>3. worker' \in [config : Configs \cup {None}, result : {"none", "promoted", "failed"}]
    BY <1>2 DEF ReportPromotion, NoWorker
  <2> QED BY <2>1, <2>2, <2>3 DEF TypeOK
<1> QED BY <1>1, <1>2 DEF Thread

LEMMA WebStep ==
  ASSUME TypeOK, NEW s \in Sessions, NEW w \in WebStates,
         web' = [web EXCEPT ![s] = w],
         w.at \in Locking => Unlocked \/ web[s].at \in Locking
  PROVE  /\ web' \in [Sessions -> WebStates]
         /\ \A a, b \in Sessions :
              web'[a].at \in Locking /\ web'[b].at \in Locking => a = b
<1>1. web' \in [Sessions -> WebStates] /\ web'[s] = w
  BY DEF TypeOK
<1>2. \A a \in Sessions : a # s => web'[a] = web[a]
  BY DEF TypeOK
<1> QED BY <1>1, <1>2 DEF TypeOK, Unlocked

\* What a session step that leaves the manager and the file alone must show.
LEMMA QuietStep ==
  ASSUME TypeOK, NEW s \in Sessions, NEW w \in WebStates,
         web' = [web EXCEPT ![s] = w],
         w.at \in Locking => Unlocked \/ web[s].at \in Locking,
         file' \in Contents, m' \in Managers,
         UNCHANGED <<lastGood, cycle, applied, worker, proven>>,
         observed' \in Proofs \cup {None}, steady' \in 0..StableReady
  PROVE  TypeOK'
  BY WebStep DEF TypeOK

LEMMA CasType == ASSUME m \in Managers PROVE CasRevision \in Revisions
  BY DEF CasRevision, Managers

LEMMA BaseType == ASSUME m \in Managers PROVE BaseConfig \in Configs \cup Raws \cup {None}
  BY DEF BaseConfig, Managers

LEMMA PreviewType ==
  ASSUME TypeOK, NEW s \in Sessions,
         PreviewRevision(s) \/ PreviewBase(s) \/ Abandon(s) \/ CallCommit(s)
  PROVE  TypeOK'
<1>0. UNCHANGED <<file, lastGood, m, cycle, applied, worker, observed, steady, proven>>
  BY DEF PreviewRevision, PreviewBase, Abandon, CallCommit, history
<1>t. /\ file' \in Contents /\ m' \in Managers
      /\ observed' \in Proofs \cup {None} /\ steady' \in 0..StableReady
  BY <1>0 DEF TypeOK
<1>w. web[s] \in WebStates
  BY DEF TypeOK
<1>n. "idle" \notin Locking /\ "revision" \notin Locking /\ "token" \notin Locking
      /\ "called" \notin Locking
  BY DEF Locking
<1>1. CASE PreviewRevision(s)
  <2> DEFINE w == [Idle EXCEPT !.at = "revision", !.rev = CasRevision]
  <2>1. w \in WebStates /\ w.at = "revision"
    BY CasType DEF Idle, WebStates, TypeOK, Revisions
  <2>2. web' = [web EXCEPT ![s] = w]
    BY <1>1 DEF PreviewRevision
  <2> HIDE DEF w
  <2> QED BY <1>0, <1>t, <1>n, <2>1, <2>2, QuietStep
<1>2. CASE PreviewBase(s)
  <2>1. PICK cand \in Configs :
          web' = [web EXCEPT ![s].at = "token", ![s].base = BaseConfig, ![s].cand = cand,
                             ![s].clean = CasRevision = web[s].rev /\ ~m.rollbackFailed]
    BY <1>2 DEF PreviewBase
  <2> DEFINE clean == CasRevision = web[s].rev /\ ~m.rollbackFailed
             w == [web[s] EXCEPT !.at = "token", !.base = BaseConfig, !.cand = cand,
                                 !.clean = clean]
  <2>2. clean \in BOOLEAN
    BY DEF clean
  <2>5. web' = [web EXCEPT ![s] = w]
    BY <2>1 DEF TypeOK
  <2> HIDE DEF clean
  <2>3. w \in WebStates /\ w.at = "token"
    BY <1>w, <2>2, BaseType DEF WebStates, TypeOK
  <2> HIDE DEF w
  <2> QED BY <1>0, <1>t, <1>n, <2>3, <2>5, QuietStep
<1>3. CASE Abandon(s)
  <2>1. web' = [web EXCEPT ![s] = Idle] /\ Idle.at = "idle"
    BY <1>3 DEF Abandon, Idle
  <2> QED BY <1>0, <1>t, <1>n, <2>1, IdleType, QuietStep
<1>4. CASE CallCommit(s)
  <2> DEFINE w == IF CasRevision = web[s].rev THEN [web[s] EXCEPT !.at = "called"] ELSE Idle
  <2>1. w \in WebStates /\ w.at \in {"called", "idle"}
    BY <1>w, IdleType DEF WebStates, Idle
  <2>2. web' = [web EXCEPT ![s] = w]
    BY <1>4 DEF CallCommit, TypeOK
  <2> HIDE DEF w
  <2> QED BY <1>0, <1>t, <1>n, <2>1, <2>2, QuietStep
<1> QED BY <1>1, <1>2, <1>3, <1>4

LEMMA SetAt ==
  ASSUME NEW w \in WebStates, NEW at \in Locking, NEW old \in Revisions
  PROVE  [w EXCEPT !.at = at] \in WebStates /\ [w EXCEPT !.at = at, !.old = old] \in WebStates
  BY DEF WebStates

LEMMA CommitType ==
  ASSUME TypeOK, CandidateIsValid, NEW s \in Sessions,
         CommitRead(s) \/ CommitWrite(s) \/ CommitVerify(s) \/ CommitRestore(s)
           \/ CommitRestored(s)
  PROVE  TypeOK'
<1>0. UNCHANGED <<lastGood, cycle, applied, worker, proven>>
  BY DEF CommitRead, CommitWrite, CommitVerify, CommitRestore, CommitRestored, history
<1>w. web[s] \in WebStates
  BY DEF TypeOK
<1>i. Idle \in WebStates /\ Idle.at = "idle" /\ "idle" \notin Locking
  BY IdleType DEF Idle, Locking
<1>l. {"read", "written", "failed", "restored"} = Locking
  BY DEF Locking
<1>u. /\ m \in Managers /\ file \in Contents
      /\ observed \in Proofs \cup {None} /\ steady \in 0..StableReady
  BY DEF TypeOK
<1>c. web[s].at \in Locking => web[s].cand \in Configs
  BY <1>l DEF CandidateIsValid
<1>e. \A c \in Edits : Rewrite(c) => file' \in Contents /\ m' \in Managers
  BY RewriteType, SettingsAssumption
<1>1. CASE CommitRead(s)
  <2>1. file' \in Contents /\ m' \in Managers
    BY <1>1, <1>u, <1>e DEF CommitRead
  <2>2. \E old \in Revisions : \E w \in {Idle, [web[s] EXCEPT !.at = "read", !.old = old]} :
          web' = [web EXCEPT ![s] = w]
    <3>1. Revision(file) \in Revisions /\ None \in Revisions
      BY <1>u, FileTypes
    <3> QED BY <1>1, <3>1 DEF CommitRead
  <2>3. PICK w : web' = [web EXCEPT ![s] = w] /\ w \in WebStates
    <3>1. \A old \in Revisions : [web[s] EXCEPT !.at = "read", !.old = old] \in WebStates
      BY <1>w, <1>l, SetAt
    <3> QED BY <1>i, <2>2, <3>1
  <2>4. Unlocked /\ UNCHANGED <<observed, steady>>
    BY <1>1 DEF CommitRead, history
  <2> QED BY <1>0, <1>u, <2>1, <2>3, <2>4, QuietStep
<1>2. CASE CommitWrite(s)
  <2>1. file' \in Contents /\ m' \in Managers
    <3>1. web[s].cand \in Contents
      BY <1>2, <1>c, <1>l DEF CommitWrite, Contents
    <3> QED BY <1>2, <1>u, <3>1, RewriteType DEF CommitWrite
  <2>2. \E w \in {Idle, [web[s] EXCEPT !.at = "written"]} : web' = [web EXCEPT ![s] = w]
    BY <1>2 DEF CommitWrite, TypeOK
  <2>3. PICK w : web' = [web EXCEPT ![s] = w] /\ w \in WebStates
    <3>1. [web[s] EXCEPT !.at = "written"] \in WebStates
      BY <1>w, <1>l, SetAt DEF Revisions
    <3> QED BY <1>i, <2>2, <3>1
  <2>4. web[s].at \in Locking /\ UNCHANGED <<observed, steady>>
    BY <1>2, <1>l DEF CommitWrite, history
  <2> QED BY <1>0, <1>u, <2>1, <2>3, <2>4, QuietStep
<1>3. CASE CommitVerify(s)
  <2>1. file' \in Contents /\ m' \in Managers
    <3>1. SetValidPrimary(web[s].cand) \in Managers
      BY <1>3, <1>c, <1>l, <1>u, AdoptType DEF CommitVerify
    <3>2. [SetValidPrimary(web[s].cand) EXCEPT !.pending = TRUE] \in Managers
      BY <3>1, SetPending
    <3> QED BY <1>3, <1>u, <1>e, <3>2 DEF CommitVerify
  <2>2. \E w \in {Idle, [web[s] EXCEPT !.at = "failed"]} : web' = [web EXCEPT ![s] = w]
    BY <1>3 DEF CommitVerify, TypeOK
  <2>3. PICK w : web' = [web EXCEPT ![s] = w] /\ w \in WebStates
    <3>1. [web[s] EXCEPT !.at = "failed"] \in WebStates
      BY <1>w, <1>l, SetAt DEF Revisions
    <3> QED BY <1>i, <2>2, <3>1
  <2>4. web[s].at \in Locking
    BY <1>3, <1>l DEF CommitVerify
  <2>5. observed' \in Proofs \cup {None} /\ steady' \in 0..StableReady
    BY <1>3, <1>u, SettingsAssumption DEF CommitVerify, ObserveAdoption
  <2> QED BY <1>0, <2>1, <2>3, <2>4, <2>5, QuietStep
<1>4. CASE CommitRestore(s)
  <2>1. file' \in Contents /\ m' \in Managers
    <3>1. OldContent(s) \in Contents
      BY <1>w DEF OldContent, WebStates, Revisions, Contents
    <3> QED BY <1>4, <1>u, <3>1, RewriteType DEF CommitRestore
  <2>2. web' = [web EXCEPT ![s] = [web[s] EXCEPT !.at = "restored"]]
    BY <1>4 DEF CommitRestore, TypeOK
  <2>3. [web[s] EXCEPT !.at = "restored"] \in WebStates
    BY <1>w, <1>l, SetAt DEF Revisions
  <2>4. web[s].at \in Locking /\ UNCHANGED <<observed, steady>>
    BY <1>4, <1>l DEF CommitRestore, history
  <2> QED BY <1>0, <1>u, <2>1, <2>2, <2>3, <2>4, QuietStep
<1>5. CASE CommitRestored(s)
  <2>1. m' \in Managers
    <3>1. \A rev \in {Revision(file), None} :
            [m EXCEPT !.health = "invalid_runtime", !.primaryValid = FALSE,
                      !.invalidRev = rev, !.rollbackFailed = TRUE] \in Managers
      BY <1>u, FileTypes, SetRestored
    <3>2. CASE m' = m
      BY <1>u, <3>2
    <3>3. CASE m' # m
      BY <1>5, <3>1, <3>3 DEF CommitRestored
    <3> QED BY <3>2, <3>3
  <2>2. web' = [web EXCEPT ![s] = Idle] /\ file' = file
    BY <1>5 DEF CommitRestored
  <2>3. UNCHANGED <<observed, steady>>
    BY <1>5 DEF CommitRestored, history
  <2> QED BY <1>0, <1>i, <1>u, <2>1, <2>2, <2>3, QuietStep
<1> QED BY <1>1, <1>2, <1>3, <1>4, <1>5

LEMMA EnvironmentType == TypeOK /\ (Edit \/ DamageLastGood) => TypeOK'
<1> SUFFICES ASSUME TypeOK, Edit \/ DamageLastGood PROVE TypeOK'
  OBVIOUS
<1>1. UNCHANGED <<cycle, applied, web, worker, observed, steady, proven>>
  BY DEF Edit, DamageLastGood, history
<1>2. lastGood' \in Configs \cup {None, Unusable}
  BY DEF Edit, DamageLastGood, TypeOK
<1>3. file' \in Contents /\ m' \in Managers
  BY RewriteType, SettingsAssumption DEF Edit, DamageLastGood, TypeOK
<1> QED BY <1>1, <1>2, <1>3 DEF TypeOK

LEMMA TypeNext == TypeInv /\ [Next]_vars => TypeOK'
<1> SUFFICES ASSUME TypeInv, [Next]_vars PROVE TypeOK'
  OBVIOUS
<1>1. CASE Loop
  BY <1>1, ReloadType, ObserveType, ObserveFailsType DEF Loop, TypeInv
<1>2. CASE \E s \in Sessions : Session(s)
  BY <1>2, PreviewType, CommitType DEF Session, Commit, TypeInv
<1>3. CASE Thread
  BY <1>3, ThreadType DEF TypeInv
<1>4. CASE Environment
  BY <1>4, EnvironmentType, RestartType DEF Environment, TypeInv
<1>5. CASE UNCHANGED vars
  BY <1>5 DEF vars, TypeInv, TypeOK
<1> QED BY <1>1, <1>2, <1>3, <1>4, <1>5 DEF Next

(***************************************************************************)
(* What is shown as valid.                                                 *)
(***************************************************************************)

\* What every start of the process establishes.
Fresh(r) ==
  /\ r.primaryValid => r.configured \in Configs
  /\ r.mode = "NORMAL" /\ r.primaryValid => r.effective.live = r.configured.live
  /\ r.typedRev # None => r.typedRev = r.configured
  /\ r.readyAge = None

LEMMA FreshStart ==
  /\ \A content \in Contents : Fresh(Started(content))
  /\ \A stat \in {"none", "current"} : Fresh(StartedUnread(stat))
  BY DEF Fresh, Started, StartedUnread, StartValid, StartInvalid

LEMMA AdoptShown ==
  ASSUME m \in Managers, NEW content \in Configs, NEW pending \in BOOLEAN,
         m' = [SetValidPrimary(content) EXCEPT !.pending = pending]
  PROVE  /\ m'.configured = content /\ m'.effective.live = content.live
         /\ m'.typedRev = content /\ m'.readyProof = None
         /\ m'.readyAge # None => m.typedRev = content /\ m'.readyAge = m.readyAge
<1> DEFINE r == SetValidPrimary(content)
<1>1. r \in Managers
  BY AdoptType
<1>2. /\ r.configured = content /\ r.effective = Applied(content)
      /\ r.typedRev = content /\ r.readyProof = None
      /\ r.readyAge = IF m.typedRev # content THEN None ELSE m.readyAge
  BY DEF SetValidPrimary, Managers
<1> HIDE DEF r
<1>3. /\ m'.configured = r.configured /\ m'.effective = r.effective
      /\ m'.typedRev = r.typedRev /\ m'.readyProof = r.readyProof
      /\ m'.readyAge = r.readyAge
  <2>1. m' = [r EXCEPT !.pending = pending]
    BY DEF r
  <2> QED BY <1>1, <2>1 DEF Managers
<1>4. Applied(content).live = content.live
  BY DEF Applied
<1> QED BY <1>2, <1>3, <1>4

\* A step either adopts a valid configuration, notes an invalid file, starts a
\* process, or leaves what is shown as it is.
Keeps(r) ==
  /\ r.configured = m.configured /\ r.effective = m.effective /\ r.typedRev = m.typedRev
  /\ r.primaryValid => m.primaryValid
  /\ r.mode = "NORMAL" => m.mode = "NORMAL"

LEMMA RewriteKeeps ==
  ASSUME m \in Managers, NEW content, Rewrite(content)
  PROVE  Keeps(m') /\ m'.readyAge = m.readyAge /\ m'.readyProof = m.readyProof
  BY DEF Rewrite, Keeps, Managers

LEMMA NoteShown ==
  ASSUME m \in Managers, NEW rev, NEW stat, NEW raw
  PROVE  LET r == NoteInvalid(rev, stat, raw) IN
           /\ Keeps(r) \/ (~r.primaryValid /\ r.typedRev = None)
           /\ r.readyAge = m.readyAge /\ r.readyProof = m.readyProof
<1> DEFINE seen == [m EXCEPT !.pending = FALSE, !.lastStat = stat]
           noted == [seen EXCEPT !.health = "invalid_runtime", !.primaryValid = FALSE,
                            !.invalidRev = rev, !.invalidRaw = raw,
                            !.configuredRev = rev, !.source = "last_valid_runtime",
                            !.rollbackFailed = FALSE]
           shown == [noted EXCEPT !.configured = raw, !.persisted = raw, !.typedRev = None]
<1>1. Keeps(seen) /\ seen.readyAge = m.readyAge /\ seen.readyProof = m.readyProof
  BY DEF Keeps, Managers
<1>2. Keeps(noted) /\ noted.readyAge = m.readyAge /\ noted.readyProof = m.readyProof
  BY DEF Keeps, Managers
<1>3. /\ ~shown.primaryValid /\ shown.typedRev = None
      /\ shown.readyAge = m.readyAge /\ shown.readyProof = m.readyProof
  BY DEF Managers
<1>4. NoteInvalid(rev, stat, raw) = IF m.mode # "NORMAL" THEN seen
                                    ELSE IF raw = None THEN noted ELSE shown
  BY DEF NoteInvalid
<1> HIDE DEF seen, noted, shown
<1> QED BY <1>1, <1>2, <1>3, <1>4

\* Every step of the manager that may change what is shown, with its clock.
LEMMA ManagerStep ==
  ASSUME TypeInv, [Next]_vars
  PROVE  \/ Fresh(m') /\ Restart
         \/ \E content \in Configs, pending \in BOOLEAN :
              /\ m' = [SetValidPrimary(content) EXCEPT !.pending = pending]
              /\ ObserveAdoption(content) /\ UNCHANGED <<lastGood, worker, proven>>
         \/ /\ ~m'.primaryValid /\ m'.typedRev = None
            /\ m'.readyAge = m.readyAge /\ m'.readyProof = m.readyProof
            /\ UNCHANGED <<lastGood, worker, observed, steady, proven>>
         \/ /\ Keeps(m')
            /\ \/ ObserveReady \/ ObserveFails
               \/ /\ Thread \/ DamageLastGood \/ UNCHANGED <<lastGood, worker>>
                  /\ m'.readyAge = m.readyAge /\ m'.readyProof = m.readyProof
                  /\ UNCHANGED <<observed, steady, proven>>
<1>m. m \in Managers /\ file \in Contents
  BY DEF TypeInv, TypeOK
<1>k. Keeps(m)
  BY DEF Keeps
<1>1. CASE Reload
  <2>0. UNCHANGED <<lastGood, worker, proven>>
    BY <1>1 DEF Reload
  <2>1. CASE ReloadUnchanged
    <3>1. /\ Keeps(m') /\ m'.readyAge = m.readyAge /\ m'.readyProof = m.readyProof
          /\ UNCHANGED <<observed, steady>>
      BY <1>m, <2>1 DEF ReloadUnchanged, Keeps, Managers
    <3> QED BY <2>0, <3>1
  <2>2. CASE ReloadValid
    BY <2>0, <2>2 DEF ReloadValid, Reloadable
  <2>3. CASE ReloadInvalid
    <3>1. UNCHANGED <<observed, steady>>
      BY <2>3 DEF ReloadInvalid
    <3>2. \E rev, stat, raw : m' = NoteInvalid(rev, stat, raw)
      BY <2>3 DEF ReloadInvalid
    <3>3. /\ Keeps(m') \/ (~m'.primaryValid /\ m'.typedRev = None)
          /\ m'.readyAge = m.readyAge /\ m'.readyProof = m.readyProof
      BY <1>m, <3>2, NoteShown
    <3> QED BY <2>0, <3>1, <3>3
  <2>4. CASE ReloadTorn
    <3>1. /\ Keeps(m') /\ m'.readyAge = m.readyAge /\ m'.readyProof = m.readyProof
          /\ UNCHANGED <<observed, steady>>
      BY <1>m, <2>4 DEF ReloadTorn, Keeps, Managers
    <3> QED BY <2>0, <3>1
  <2> QED BY <1>1, <2>1, <2>2, <2>3, <2>4 DEF Reload
<1>2. CASE ObserveReady
  <2>1. Keeps(m')
    BY <1>m, <1>2 DEF ObserveReady, ObserveRecovery, ObserveNormal, Timed, Keeps, Managers
  <2> QED BY <1>2, <2>1
<1>3. CASE ObserveFails
  <2>1. Keeps(m')
    BY <1>m, <1>3 DEF ObserveFails, Keeps, Managers
  <2> QED BY <1>3, <2>1
<1>4. ASSUME NEW s \in Sessions, Session(s)
      PROVE  \/ \E content \in Configs, pending \in BOOLEAN :
                  /\ m' = [SetValidPrimary(content) EXCEPT !.pending = pending]
                  /\ ObserveAdoption(content) /\ UNCHANGED <<lastGood, worker, proven>>
             \/ /\ Keeps(m') /\ UNCHANGED <<lastGood, worker>>
                /\ m'.readyAge = m.readyAge /\ m'.readyProof = m.readyProof
                /\ UNCHANGED <<observed, steady, proven>>
  <2>0. UNCHANGED <<lastGood, worker, proven>>
    BY <1>4 DEF Session, Commit, PreviewRevision, PreviewBase, Abandon, CallCommit, CommitRead,
       CommitWrite, CommitVerify, CommitRestore, CommitRestored, history
  <2>1. CASE PreviewRevision(s) \/ PreviewBase(s) \/ Abandon(s) \/ CallCommit(s)
    BY <1>k, <2>0, <2>1 DEF PreviewRevision, PreviewBase, Abandon, CallCommit, history
  <2>2. CASE CommitRead(s) \/ CommitWrite(s) \/ CommitRestore(s)
    <3>1. m' = m \/ \E c : Rewrite(c)
      BY <2>2 DEF CommitRead, CommitWrite, CommitRestore
    <3>2. UNCHANGED <<observed, steady>>
      BY <2>2 DEF CommitRead, CommitWrite, CommitRestore, history
    <3> QED BY <1>m, <1>k, <2>0, <3>1, <3>2, RewriteKeeps
  <2>3. CASE CommitVerify(s)
    <3>1. web[s].cand \in Configs
      BY <2>3 DEF CommitVerify, TypeInv, CandidateIsValid
    <3>2. \/ /\ m' = [SetValidPrimary(web[s].cand) EXCEPT !.pending = TRUE]
             /\ ObserveAdoption(web[s].cand)
          \/ /\ m' = m \/ \E c : Rewrite(c)
             /\ UNCHANGED <<observed, steady>>
      BY <2>3 DEF CommitVerify
    <3> QED BY <1>m, <1>k, <2>0, <3>1, <3>2, RewriteKeeps
  <2>4. CASE CommitRestored(s)
    <3>1. \A rev : LET r == [m EXCEPT !.health = "invalid_runtime", !.primaryValid = FALSE,
                                      !.invalidRev = rev, !.rollbackFailed = TRUE]
                   IN Keeps(r) /\ r.readyAge = m.readyAge /\ r.readyProof = m.readyProof
      BY <1>m DEF Keeps, Managers
    <3>2. UNCHANGED <<observed, steady>>
      BY <2>4 DEF CommitRestored, history
    <3>3. CASE m' = m
      BY <1>k, <2>0, <3>2, <3>3
    <3>4. CASE m' # m
      BY <2>0, <2>4, <3>1, <3>2, <3>4 DEF CommitRestored
    <3> QED BY <3>3, <3>4
  <2> QED BY <1>4, <2>1, <2>2, <2>3, <2>4 DEF Session, Commit
<1>5. CASE Thread
  <2>1. /\ Keeps(m') /\ m'.readyAge = m.readyAge /\ m'.readyProof = m.readyProof
        /\ UNCHANGED <<observed, steady, proven>>
    BY <1>m, <1>5 DEF Thread, Promote, PromoteFails, ReportPromotion, history, Keeps, Managers
  <2> QED BY <1>5, <2>1
<1>6. CASE Edit \/ DamageLastGood
  <2>1. /\ Keeps(m') /\ m'.readyAge = m.readyAge /\ m'.readyProof = m.readyProof
    BY <1>m, <1>k, <1>6, RewriteKeeps DEF Edit, DamageLastGood
  <2>2. /\ DamageLastGood \/ UNCHANGED <<lastGood, worker>>
        /\ UNCHANGED <<observed, steady, proven>>
    BY <1>6 DEF Edit, DamageLastGood, history
  <2> QED BY <2>1, <2>2
<1>7. CASE Restart
  <2>1. Fresh(m')
    BY <1>m, <1>7, FreshStart DEF Restart
  <2> QED BY <1>7, <2>1
<1>8. CASE UNCHANGED vars
  BY <1>k, <1>8 DEF vars
<1> QED BY <1>1, <1>2, <1>3, <1>4, <1>5, <1>6, <1>7, <1>8 DEF Next, Loop, Environment

LEMMA ShownInit == Init => Fresh(m)
  BY SettingsAssumption, FreshStart DEF Init, Contents

LEMMA ShownNext == TypeInv /\ [Next]_vars => ShownIsValid'
<1> SUFFICES ASSUME TypeInv, [Next]_vars PROVE ShownIsValid'
  OBVIOUS
<1>m. m \in Managers /\ ShownIsValid
  BY DEF TypeInv, TypeOK
<1>1. CASE Fresh(m')
  BY <1>1 DEF Fresh, ShownIsValid
<1>2. CASE \E content \in Configs, pending \in BOOLEAN :
             m' = [SetValidPrimary(content) EXCEPT !.pending = pending]
  BY <1>m, <1>2, AdoptShown DEF ShownIsValid
<1>3. CASE ~m'.primaryValid
  BY <1>3 DEF ShownIsValid
<1>4. CASE Keeps(m')
  BY <1>m, <1>4 DEF Keeps, ShownIsValid
<1> QED BY <1>1, <1>2, <1>3, <1>4, ManagerStep

LEMMA CandidateNext == TypeInv /\ [Next]_vars => CandidateIsValid'
<1> SUFFICES ASSUME TypeInv, [Next]_vars PROVE CandidateIsValid'
  OBVIOUS
<1>m. web \in [Sessions -> WebStates] /\ CandidateIsValid
  BY DEF TypeInv, TypeOK
<1>1. CASE UNCHANGED web
  BY <1>m, <1>1 DEF CandidateIsValid
<1>2. CASE Restart
  BY <1>2 DEF Restart, FreshProcess, Idle, CandidateIsValid
<1>3. ASSUME NEW s \in Sessions, Session(s) PROVE CandidateIsValid'
  <2>1. \A t \in Sessions : t # s => web'[t] = web[t]
    BY <1>m, <1>3 DEF Session, Commit, PreviewRevision, PreviewBase, Abandon, CallCommit,
       CommitRead, CommitWrite, CommitVerify, CommitRestore, CommitRestored
  <2>i. Idle.at = "idle" /\ [Idle EXCEPT !.at = "revision", !.rev = CasRevision].at = "revision"
    BY DEF Idle
  <2>w. web[s] \in WebStates /\ s \in DOMAIN web
    BY <1>m
  <2>2. CASE PreviewRevision(s) \/ PreviewBase(s) \/ Abandon(s)
    <3>1. CASE PreviewRevision(s) \/ Abandon(s)
      <4>1. web'[s] = Idle \/ web'[s] = [Idle EXCEPT !.at = "revision", !.rev = CasRevision]
        BY <2>w, <3>1 DEF PreviewRevision, Abandon
      <4>2. web'[s].at \in {"idle", "revision"}
        BY <2>i, <4>1, Zenon
      <4> QED BY <1>m, <2>1, <4>2 DEF CandidateIsValid
    <3>2. CASE PreviewBase(s)
      <4>1. PICK cand \in Configs : \E clean :
              web' = [web EXCEPT ![s].at = "token", ![s].base = BaseConfig,
                                 ![s].cand = cand, ![s].clean = clean]
        BY <3>2 DEF PreviewBase
      <4>2. web'[s].cand = cand
        BY <2>w, <4>1 DEF WebStates
      <4> QED BY <1>m, <2>1, <4>2 DEF CandidateIsValid
    <3> QED BY <2>2, <3>1, <3>2
  <2>3. CASE Commit(s)
    <3>1. web[s].at \notin {"idle", "revision"}
      BY <2>3 DEF Commit, CallCommit, CommitRead, CommitWrite, CommitVerify, CommitRestore,
         CommitRestored
    <3>2. web'[s].cand = web[s].cand \/ web'[s].at = "idle"
      <4>a. \A at : LET w == [web[s] EXCEPT !.at = at] IN w.cand = web[s].cand
        BY <2>w DEF WebStates
      <4>1. CASE CallCommit(s)
        <5>1. web'[s] = [web[s] EXCEPT !.at = "called"] \/ web'[s] = Idle
          BY <2>w, <4>1 DEF CallCommit
        <5> QED BY <5>1, <4>a, <2>i, Zenon
      <4>2. CASE CommitRead(s)
        <5>1. web'[s] = Idle \/ \E old : web'[s] = [web[s] EXCEPT !.at = "read", !.old = old]
          BY <2>w, <4>2 DEF CommitRead
        <5>2. ASSUME NEW old, web'[s] = [web[s] EXCEPT !.at = "read", !.old = old]
              PROVE  web'[s].cand = web[s].cand
          BY <2>w, <5>2 DEF WebStates
        <5> QED BY <2>i, <5>1, <5>2, Zenon
      <4>3. CASE CommitWrite(s) \/ CommitVerify(s)
        <5>1. web'[s] = Idle \/ \E at : web'[s] = [web[s] EXCEPT !.at = at]
          BY <2>w, <4>3 DEF CommitWrite, CommitVerify
        <5> QED BY <5>1, <4>a, <2>i, Zenon
      <4>4. CASE CommitRestore(s) \/ CommitRestored(s)
        <5>1. web'[s] = Idle \/ \E at : web'[s] = [web[s] EXCEPT !.at = at]
          BY <2>w, <4>4 DEF CommitRestore, CommitRestored
        <5> QED BY <5>1, <4>a, <2>i, Zenon
      <4> QED BY <2>3, <4>1, <4>2, <4>3, <4>4 DEF Commit
    <3> QED BY <1>m, <2>1, <3>1, <3>2 DEF CandidateIsValid
  <2> QED BY <1>3, <2>2, <2>3 DEF Session
<1> QED BY <1>1, <1>2, <1>3 DEF Next, Loop, Reload, ObserveReady, ObserveFails, Thread, Promote,
     PromoteFails, ReportPromotion, Environment, Edit, DamageLastGood, vars

LEMMA TypeInvariant == Spec => []TypeInv
<1>1. Init => TypeInv
  BY InitType, ShownInit DEF TypeInv, Fresh, ShownIsValid, CandidateIsValid, Init, Idle
<1>2. TypeInv /\ [Next]_vars => TypeInv'
  BY TypeNext, ShownNext, CandidateNext DEF TypeInv
<1> QED BY <1>1, <1>2, PTL DEF Spec

\* Every reachable state has its type, and no two commits ever hold the lock of
\* the settings manager, for any number of sessions and any configurations.
THEOREM TypeCorrect == Spec => []TypeOK
<1>1. TypeInv => TypeOK
  BY DEF TypeInv
<1> QED BY <1>1, TypeInvariant, PTL

(***************************************************************************)
(* The stable-ready clock and what is promoted.                            *)
(***************************************************************************)

LEMMA TypedNext == TypeInv /\ TypedIsShown /\ [Next]_vars => TypedIsShown'
<1> SUFFICES ASSUME TypeInv, TypedIsShown, [Next]_vars PROVE TypedIsShown'
  OBVIOUS
<1>m. m \in Managers
  BY DEF TypeInv, TypeOK
<1>1. CASE Fresh(m')
  BY <1>1 DEF Fresh, TypedIsShown
<1>2. CASE \E content \in Configs, pending \in BOOLEAN :
             m' = [SetValidPrimary(content) EXCEPT !.pending = pending]
  BY <1>m, <1>2, AdoptShown DEF TypedIsShown
<1>3. CASE m'.typedRev = None
  BY <1>3 DEF TypedIsShown
<1>4. CASE Keeps(m')
  BY <1>4 DEF Keeps, TypedIsShown
<1> QED BY <1>1, <1>2, <1>3, <1>4, ManagerStep

\* Readiness is eligible only while the whole of a valid configuration runs.
LEMMA EligibleIsGenuine ==
  ASSUME TypeInv, NEW ready, Eligible(ready)
  PROVE  /\ ready /\ m.mode = "NORMAL" /\ m.primaryValid
         /\ m.configured \in Configs /\ m.configured = m.effective
<1>1. /\ ready /\ m.mode = "NORMAL" /\ m.primaryValid
      /\ m.configured.rest = m.effective.rest
  BY DEF Eligible, PendingRestart
<1>2. m.configured \in Configs /\ m.effective.live = m.configured.live
  BY <1>1 DEF TypeInv, ShownIsValid
<1>3. m.effective \in Effectives
  BY DEF TypeInv, TypeOK, Managers
<1> QED BY <1>1, <1>2, <1>3 DEF Configs, Effectives

\* A report of readiness: the clock follows the observed proof, and only a
\* proven configuration is handed to a thread.
LEMMA NormalReport ==
  ASSUME TypeInv, ClockFollowsProof, WorkerIsProven, ObserveNormal
  PROVE  ClockFollowsProof' /\ WorkerIsProven' /\ proven \subseteq proven'
<1>1. PICK proof \in Proofs, ready \in BOOLEAN :
        /\ m' = Timed(ready, proof)
        /\ ObserveProof(ready, proof)
        /\ IF Eligible(ready) THEN SchedulePromotion ELSE UNCHANGED worker
  BY DEF ObserveNormal
<1> DEFINE genuine == ready /\ m.mode = "NORMAL" /\ m.primaryValid /\ m.configured = m.effective
           held == IF genuine /\ proof = observed THEN Capped(steady) ELSE 0
<1>t. /\ m \in Managers /\ steady \in 0..StableReady /\ StableReady \in Nat \ {0}
      /\ proof # None
  BY SettingsAssumption DEF TypeInv, TypeOK
<1>a. m.readyAge # None => m.readyAge \in 0..StableReady
  BY <1>t DEF Managers
<1>2. /\ observed' = (IF genuine THEN proof ELSE None) /\ steady' = held
      /\ proven' = IF held = StableReady THEN proven \cup {m.configured} ELSE proven
  BY <1>1 DEF ObserveProof
<1>3. CASE ~Eligible(ready)
  <2>1. m'.readyAge = None
    BY <1>1, <1>3, <1>t DEF Timed, Managers
  <2>2. worker' = worker
    BY <1>1, <1>3
  <2> QED BY <1>2, <2>1, <2>2 DEF ClockFollowsProof, WorkerIsProven
<1>4. CASE Eligible(ready)
  <2>1. genuine
    BY <1>4, EligibleIsGenuine
  <2>2. observed' = proof
    BY <1>2, <2>1
  <2> HIDE DEF genuine
  <2>3. CASE proof # m.readyProof \/ m.readyAge = None
    <3>1. m'.readyAge = 0 /\ m'.readyProof = proof
      BY <1>1, <1>4, <1>t, <2>3 DEF Timed, Managers
    <3>2. held \in Nat
      BY <1>t, CappedType
    <3>3. worker' = worker
      BY <1>1, <1>4, <1>t, <3>1 DEF SchedulePromotion
    <3> QED BY <1>2, <1>t, <2>2, <3>1, <3>2, <3>3 DEF ClockFollowsProof, WorkerIsProven
  <2>4. CASE proof = m.readyProof /\ m.readyAge # None
    <3>1. m'.readyAge = Capped(m.readyAge) /\ m'.readyProof = proof
      BY <1>1, <1>4, <1>t, <2>4 DEF Timed, Managers
    <3>2. proof = observed /\ m.readyAge <= steady
      BY <1>t, <2>4 DEF ClockFollowsProof
    <3>3. held = Capped(steady)
      BY <2>1, <3>2
    <3>4. Capped(m.readyAge) <= Capped(steady)
          /\ (Capped(m.readyAge) = StableReady => Capped(steady) = StableReady)
      BY <1>a, <1>t, <2>4, <3>2 DEF Capped
    <3>5. ClockFollowsProof'
      BY <1>2, <1>t, <2>2, <3>1, <3>3, <3>4 DEF ClockFollowsProof
    <3>6. WorkerIsProven'
      <4>1. CASE m'.readyAge = StableReady
        <5>1. m.configured \in proven'
          BY <1>2, <3>1, <3>3, <3>4, <4>1
        <5>2. worker' = worker \/ worker'.config = m.configured
          BY <1>1, <1>4 DEF SchedulePromotion
        <5> QED BY <1>2, <5>1, <5>2 DEF WorkerIsProven
      <4>2. CASE m'.readyAge # StableReady
        <5>1. worker' = worker
          BY <1>1, <1>4, <4>2 DEF SchedulePromotion
        <5> QED BY <1>2, <5>1 DEF WorkerIsProven
      <4> QED BY <4>1, <4>2
    <3> QED BY <1>2, <3>5, <3>6
  <2> QED BY <2>3, <2>4
<1> QED BY <1>3, <1>4

LEMMA AgeRuns ==
  ASSUME TypeInv, ClockFollowsProof, ObserveFails
  PROVE  ClockFollowsProof'
<1>t. /\ m \in Managers /\ steady \in 0..StableReady /\ StableReady \in Nat \ {0}
  BY SettingsAssumption DEF TypeInv, TypeOK
<1>1. /\ m'.readyAge = (IF m.readyAge = None THEN m.readyAge ELSE Capped(m.readyAge))
      /\ m'.readyProof = m.readyProof /\ observed' = observed
      /\ steady' = IF observed = None THEN steady ELSE Capped(steady)
  BY <1>t DEF ObserveFails, Managers
<1>2. CASE m.readyAge = None
  BY <1>1, <1>2 DEF ClockFollowsProof
<1>3. CASE m.readyAge # None
  <2>1. m.readyAge \in 0..StableReady
    BY <1>t, <1>3 DEF Managers
  <2>2. observed # None /\ m.readyAge <= steady
    BY <1>3 DEF ClockFollowsProof
  <2>3. Capped(m.readyAge) <= Capped(steady)
    BY <1>t, <2>1, <2>2 DEF Capped
  <2> QED BY <1>1, <1>3, <2>2, <2>3 DEF ClockFollowsProof
<1> QED BY <1>2, <1>3

LEMMA ClockNext ==
  ASSUME TypeInv, TypedIsShown, ClockFollowsProof, WorkerIsProven, [Next]_vars
  PROVE  ClockFollowsProof' /\ WorkerIsProven' /\ proven \subseteq proven'
<1>m. m \in Managers
  BY DEF TypeInv, TypeOK
<1>1. CASE Fresh(m') /\ Restart
  BY <1>1 DEF Fresh, Restart, FreshProcess, ClockFollowsProof, WorkerIsProven
<1>2. ASSUME NEW content \in Configs, NEW pending \in BOOLEAN,
             m' = [SetValidPrimary(content) EXCEPT !.pending = pending],
             ObserveAdoption(content), UNCHANGED <<lastGood, worker, proven>>
      PROVE  ClockFollowsProof' /\ WorkerIsProven' /\ proven \subseteq proven'
  <2>1. /\ m'.readyProof = None
        /\ m'.readyAge # None => m.typedRev = content /\ m'.readyAge = m.readyAge
    BY <1>m, <1>2, AdoptShown
  <2>2. content # None
    BY SettingsAssumption DEF Contents
  <2>3. m'.readyAge # None => content = m.configured
    BY <2>1, <2>2 DEF TypedIsShown
  <2>4. m'.readyAge # None => UNCHANGED <<observed, steady>>
    BY <1>2, <2>3 DEF ObserveAdoption
  <2>5. ClockFollowsProof'
    BY <2>1, <2>4 DEF ClockFollowsProof
  <2>6. WorkerIsProven'
    BY <1>2 DEF WorkerIsProven
  <2> QED BY <1>2, <2>5, <2>6
<1>3. CASE /\ m'.readyAge = m.readyAge /\ m'.readyProof = m.readyProof
           /\ UNCHANGED <<observed, steady, proven>>
           /\ Thread \/ DamageLastGood \/ UNCHANGED <<lastGood, worker>>
  <2>1. ClockFollowsProof'
    BY <1>3 DEF ClockFollowsProof
  <2>2. WorkerIsProven'
    <3>1. worker \in [config : Configs \cup {None}, result : {"none", "promoted", "failed"}]
      BY DEF TypeInv, TypeOK
    <3>2. worker' = worker \/ worker' = NoWorker
          \/ (worker # NoWorker /\ worker'.config = worker.config)
      BY <1>3, <3>1 DEF Thread, Promote, PromoteFails, ReportPromotion, DamageLastGood
    <3> QED BY <1>3, <3>2 DEF WorkerIsProven
  <2> QED BY <1>3, <2>1, <2>2
<1>4. CASE ObserveReady
  <2>1. CASE ObserveNormal
    BY <2>1, NormalReport
  <2>2. CASE ObserveRecovery
    <3>1. /\ m'.readyAge = m.readyAge /\ m'.readyProof = m.readyProof
          /\ UNCHANGED <<worker, observed, steady, proven>>
      BY <1>m, <2>2 DEF ObserveRecovery, history, Managers
    <3> QED BY <3>1 DEF ClockFollowsProof, WorkerIsProven
  <2> QED BY <1>4, <2>1, <2>2 DEF ObserveReady
<1>5. CASE ObserveFails
  <2>1. UNCHANGED <<worker, proven>>
    BY <1>5 DEF ObserveFails
  <2> QED BY <1>5, <2>1, AgeRuns DEF WorkerIsProven
<1>6. \/ Fresh(m') /\ Restart
      \/ \E content \in Configs, pending \in BOOLEAN :
           /\ m' = [SetValidPrimary(content) EXCEPT !.pending = pending]
           /\ ObserveAdoption(content) /\ UNCHANGED <<lastGood, worker, proven>>
      \/ /\ m'.readyAge = m.readyAge /\ m'.readyProof = m.readyProof
         /\ UNCHANGED <<observed, steady, proven>>
         /\ Thread \/ DamageLastGood \/ UNCHANGED <<lastGood, worker>>
      \/ ObserveReady \/ ObserveFails
  BY ManagerStep
<1> QED BY <1>1, <1>2, <1>3, <1>4, <1>5, <1>6

LEMMA LastGoodNext ==
  ASSUME TypeInv, WorkerIsProven, LastGoodWasProven, proven \subseteq proven', [Next]_vars
  PROVE  LastGoodWasProven'
<1>1. lastGood' \in {lastGood, Unusable} \/ (worker # NoWorker /\ lastGood' = worker.config)
  BY DEF Next, Loop, Reload, ObserveReady, ObserveFails, Session, Commit, PreviewRevision,
     PreviewBase, Abandon, CallCommit, CommitRead, CommitWrite, CommitVerify, CommitRestore,
     CommitRestored, Thread, Promote, PromoteFails, ReportPromotion, Snapshot, Environment,
     Edit, DamageLastGood, Restart, vars
<1>2. Unusable \notin Configs
  BY SettingsAssumption
<1> QED BY <1>1, <1>2 DEF LastGoodWasProven, WorkerIsProven

LEMMA InductiveInvariant == Spec => []IInv
<1>1. Init => IInv
  <2> SUFFICES ASSUME Init PROVE IInv
    OBVIOUS
  <2>1. Fresh(m)
    BY ShownInit
  <2>2. ShownIsValid /\ TypedIsShown /\ ClockFollowsProof
    BY <2>1 DEF Fresh, ShownIsValid, TypedIsShown, ClockFollowsProof
  <2>3. CandidateIsValid /\ WorkerIsProven
    BY DEF Init, Idle, CandidateIsValid, WorkerIsProven
  <2>4. LastGoodWasProven
    BY DEF Init, LastGoodWasProven
  <2> QED BY <2>2, <2>3, <2>4, InitType DEF IInv, TypeInv
<1>2. IInv /\ [Next]_vars => IInv'
  <2> SUFFICES ASSUME IInv, [Next]_vars PROVE IInv'
    OBVIOUS
  <2>1. TypeInv'
    BY TypeNext, ShownNext, CandidateNext DEF IInv, TypeInv
  <2>2. TypedIsShown'
    BY TypedNext DEF IInv
  <2>3. ClockFollowsProof' /\ WorkerIsProven' /\ proven \subseteq proven'
    BY ClockNext DEF IInv
  <2>4. LastGoodWasProven'
    BY <2>3, LastGoodNext DEF IInv
  <2> QED BY <2>1, <2>2, <2>3, <2>4 DEF IInv
<1> QED BY <1>1, <1>2, PTL DEF Spec

\* The stable-ready clock of observe_ready never shows more than the time for
\* which one proof was reported for one running configuration, whatever is
\* edited, committed or restarted meanwhile.
THEOREM ClockIsHonest == Spec => []ReadyTimerIsHonest
<1>1. IInv => ReadyTimerIsHonest
  BY DEF IInv, ClockFollowsProof, ReadyTimerIsHonest
<1> QED BY <1>1, InductiveInvariant, PTL

\* What a recovery would start with was running as a whole for the full
\* stable-ready time, also when the promotion thread finishes late, fails, or
\* outlives the configuration it was started for.
THEOREM RecoveryIsProven == Spec => []LastGoodWasProven
<1>1. IInv => LastGoodWasProven
  BY DEF IInv
<1> QED BY <1>1, InductiveInvariant, PTL

(***************************************************************************)
(* What a running process adopts.                                          *)
(***************************************************************************)

OnDisk ==
  \/ m'.effective = m.effective
  \/ m'.effective = m'.startupEffective /\ web' = [s \in Sessions |-> Idle]
  \/ /\ file \in Configs /\ m'.configured = file
     /\ m'.effective = [live |-> file.live, rest |-> m.effective.rest]

LEMMA AdoptedFile ==
  ASSUME m \in Managers, file \in Configs, NEW pending \in BOOLEAN,
         m' = [SetValidPrimary(file) EXCEPT !.pending = pending]
  PROVE  OnDisk
<1> DEFINE r == SetValidPrimary(file)
<1>1. r \in Managers
  BY AdoptType
<1>2. r.configured = file /\ r.effective = Applied(file)
  BY DEF SetValidPrimary, Managers
<1> HIDE DEF r
<1>3. m'.configured = r.configured /\ m'.effective = r.effective
  <2>1. m' = [r EXCEPT !.pending = pending]
    BY DEF r
  <2> QED BY <1>1, <2>1 DEF Managers
<1> QED BY <1>2, <1>3 DEF Applied, OnDisk

LEMMA AdoptionStep == TypeInv /\ [Next]_vars => OnDisk
<1> SUFFICES ASSUME TypeInv, [Next]_vars PROVE OnDisk
  OBVIOUS
<1>m. m \in Managers
  BY DEF TypeInv, TypeOK
<1>2. CASE Restart
  <2>1. \A content : Started(content).effective = Started(content).startupEffective
    BY DEF Started, StartValid, StartInvalid
  <2>2. \A stat : StartedUnread(stat).effective = StartedUnread(stat).startupEffective
    BY DEF StartedUnread, StartInvalid
  <2>3. m'.effective = m'.startupEffective
    BY <1>2, <2>1, <2>2 DEF Restart
  <2> QED BY <1>2, <2>3 DEF Restart, FreshProcess, OnDisk
<1>3. CASE Reload
  <2>1. CASE ReloadValid
    BY <1>m, <2>1, AdoptedFile DEF ReloadValid, Reloadable
  <2>2. CASE ReloadInvalid
    <3>1. \A rev, stat, raw : NoteInvalid(rev, stat, raw).effective = m.effective
      BY <1>m DEF NoteInvalid, Managers
    <3> QED BY <2>2, <3>1 DEF ReloadInvalid, OnDisk
  <2>3. CASE ReloadUnchanged \/ ReloadTorn
    <3>1. m'.effective = m.effective
      BY <1>m, <2>3 DEF ReloadUnchanged, ReloadTorn, Managers
    <3> QED BY <3>1 DEF OnDisk
  <2> QED BY <1>3, <2>1, <2>2, <2>3 DEF Reload
<1>4. ASSUME NEW s \in Sessions, Session(s) PROVE OnDisk
  <2>1. CASE CommitVerify(s)
    <3>1. CASE /\ Verified(s)
               /\ m' = [SetValidPrimary(web[s].cand) EXCEPT !.pending = TRUE]
      <4>1. file = web[s].cand /\ file \in Configs
        BY <2>1, <3>1 DEF Verified, CommitVerify, TypeInv, CandidateIsValid
      <4> QED BY <1>m, <3>1, <4>1, AdoptedFile
    <3>2. CASE m' = m \/ \E c : Rewrite(c)
      BY <1>m, <3>2, RewriteKeeps DEF Keeps, OnDisk
    <3> QED BY <2>1, <3>1, <3>2 DEF CommitVerify
  <2>2. CASE CommitRestored(s)
    <3>1. m'.effective = m.effective
      BY <1>m, <2>2 DEF CommitRestored, Managers
    <3> QED BY <3>1 DEF OnDisk
  <2>3. CASE ~CommitVerify(s) /\ ~CommitRestored(s)
    <3>1. m' = m \/ \E c : Rewrite(c)
      BY <1>4, <2>3 DEF Session, Commit, PreviewRevision, PreviewBase, Abandon, CallCommit,
         CommitRead, CommitWrite, CommitRestore
    <3> QED BY <1>m, <3>1, RewriteKeeps DEF Keeps, OnDisk
  <2> QED BY <2>1, <2>2, <2>3
<1>5. CASE ObserveReady \/ ObserveFails \/ Thread \/ Edit \/ DamageLastGood
  <2>1. CASE Edit
    BY <1>m, <2>1, RewriteKeeps DEF Edit, Keeps, OnDisk
  <2>2. CASE ObserveReady \/ ObserveFails \/ Thread \/ DamageLastGood
    <3>1. m'.effective = m.effective
      BY <1>m, <2>2 DEF ObserveReady, ObserveRecovery, ObserveNormal, Timed, ObserveFails, Thread,
         Promote, PromoteFails, ReportPromotion, DamageLastGood, Managers
    <3> QED BY <3>1 DEF OnDisk
  <2> QED BY <1>5, <2>1, <2>2
<1>6. CASE UNCHANGED vars
  BY <1>6 DEF vars, OnDisk
<1> QED BY <1>2, <1>3, <1>4, <1>5, <1>6 DEF Next, Loop, Environment

\* While a process runs, its effective values change only to the live part of a
\* valid configuration that is in the file at that moment; a candidate whose
\* write was replaced or could not be read back is never adopted from memory.
THEOREM AdoptsFromDisk == Spec => AdoptsOnlyWhatIsOnDisk
<1>1. TypeInv /\ [Next]_vars => [OnDisk]_vars
  BY AdoptionStep
<1>2. Spec => [][OnDisk]_vars
  BY <1>1, TypeInvariant, PTL DEF Spec
<1> QED BY <1>2 DEF AdoptsOnlyWhatIsOnDisk, OnDisk

(***************************************************************************)
(* What the manager offers to a preview and a commit.                      *)
(***************************************************************************)

\* CasRevision and BaseConfig of a manager record.
Cas(r) == IF r.invalidRev # None THEN r.invalidRev ELSE r.configuredRev
Base(r) ==
  IF r.invalidRaw # None THEN r.invalidRaw
  ELSE IF r.mode = "FIRST_INSTALL" /\ ~r.primaryValid THEN None
  ELSE r.persisted

\* The restart part is that of the defaults only in a process that may not
\* control, or that started in CONFIG_ERROR.
StartedRight(r) ==
  r.effective.rest = DefaultRest /\ DefaultRest \notin Rest => r.firstInstall \/ r.diagnostic

\* The revision shown is that of the file as long as its fingerprint is, and
\* there is none while the file is known to be missing.
Offers(r, f) ==
  r.mode = "NORMAL" /\ ~r.rollbackFailed =>
    /\ r.lastStat = "current" => Cas(r) \in {None, Revision(f)}
    /\ r.lastStat = "none" => Cas(r) = None

\* The base of a candidate is the content its revision names.
Founded(r) == ~r.rollbackFailed /\ Cas(r) \in Configs \cup Raws => Base(r) = Cas(r)

OfferInv(r, f) == StartedRight(r) /\ Offers(r, f) /\ Founded(r)

\* Nothing that the offer depends on has changed; a record can only be used
\* less, by a fingerprint that has become older.
SameOffer(r) ==
  /\ r.mode = m.mode \/ (m.mode = "RECOVERY_WAITING" /\ r.mode = "RECOVERY_ACTIVE")
  /\ r.effective = m.effective /\ r.firstInstall = m.firstInstall /\ r.diagnostic = m.diagnostic
  /\ r.rollbackFailed = m.rollbackFailed
  /\ r.configuredRev = m.configuredRev /\ r.persisted = m.persisted
  /\ r.invalidRev = m.invalidRev /\ r.invalidRaw = m.invalidRaw
  /\ r.primaryValid = m.primaryValid

LEMMA SameOfferKeeps ==
  ASSUME OfferInv(m, file), SameOffer(m'),
         \/ m'.lastStat = m.lastStat /\ file' = file
         \/ m'.lastStat = NewStat(m.lastStat)
  PROVE  OfferInv(m, file)'
<1>1. Cas(m') = Cas(m) /\ Base(m') = Base(m)
  BY DEF SameOffer, Cas, Base
<1>2. m'.lastStat = "none" => m.lastStat = "none"
  BY DEF NewStat
<1>3. m'.lastStat = "current" => m.lastStat = "current" /\ file' = file
  BY DEF NewStat
<1>4. m'.mode = "NORMAL" => m.mode = "NORMAL"
  BY DEF SameOffer
<1>5. Offers(m, file)'
  BY <1>1, <1>2, <1>3, <1>4 DEF OfferInv, Offers, SameOffer, Revision
<1>6. StartedRight(m') /\ Founded(m')
  BY <1>1 DEF OfferInv, StartedRight, Founded, SameOffer
<1> QED BY <1>5, <1>6 DEF OfferInv

LEMMA RewriteOffer ==
  ASSUME m \in Managers, OfferInv(m, file), NEW content, Rewrite(content)
  PROVE  OfferInv(m, file)'
<1>1. SameOffer(m') /\ m'.lastStat = NewStat(m.lastStat)
  BY DEF Rewrite, SameOffer, Managers
<1> QED BY <1>1, SameOfferKeeps

LEMMA AdoptOffer ==
  ASSUME m \in Managers, OfferInv(m, file), file \in Configs, file' = file, NEW pending \in BOOLEAN,
         m' = [SetValidPrimary(file) EXCEPT !.pending = pending]
  PROVE  OfferInv(m, file)'
<1> DEFINE r == SetValidPrimary(file)
<1>1. r \in Managers
  BY AdoptType
<1>2. /\ r.effective.rest = m.effective.rest /\ r.firstInstall = m.firstInstall
      /\ r.diagnostic = m.diagnostic /\ r.invalidRev = None /\ r.invalidRaw = None
      /\ r.configuredRev = file /\ r.persisted = file /\ r.mode = "NORMAL"
      /\ r.lastStat = "current"
  BY DEF SetValidPrimary, Applied, Managers
<1> HIDE DEF r
<1>3. /\ m'.effective = r.effective /\ m'.firstInstall = r.firstInstall
      /\ m'.diagnostic = r.diagnostic /\ m'.invalidRev = r.invalidRev
      /\ m'.invalidRaw = r.invalidRaw /\ m'.configuredRev = r.configuredRev
      /\ m'.persisted = r.persisted /\ m'.mode = r.mode /\ m'.lastStat = r.lastStat
  <2>1. m' = [r EXCEPT !.pending = pending]
    BY DEF r
  <2> QED BY <1>1, <2>1 DEF Managers
<1>4. Cas(m') = file /\ Base(m') = file
  BY <1>2, <1>3 DEF Cas, Base
<1>5. Revision(file') = file
  BY SettingsAssumption DEF Revision
<1>6. StartedRight(m') /\ Founded(m')
  BY <1>2, <1>3, <1>4 DEF OfferInv, StartedRight, Founded
<1>7. Offers(m', file')
  BY <1>2, <1>3, <1>4, <1>5 DEF Offers
<1> QED BY <1>6, <1>7 DEF OfferInv

\* A reload that finds no valid configuration, from a read that succeeded or
\* one that returned nothing.
LEMMA NoteOffer ==
  ASSUME m \in Managers, file \in Contents, OfferInv(m, file), file' = file, NEW stat,
         NEW rev, NEW raw, m' = NoteInvalid(rev, stat, raw),
         \/ rev = Revision(file) /\ stat = SeenStat(file) /\ raw = RawOf(file)
         \/ rev = None /\ raw = None
  PROVE  OfferInv(m, file)'
<1> DEFINE seen == [m EXCEPT !.pending = FALSE, !.lastStat = stat]
           noted == [seen EXCEPT !.health = "invalid_runtime", !.primaryValid = FALSE,
                            !.invalidRev = rev, !.invalidRaw = raw,
                            !.configuredRev = rev, !.source = "last_valid_runtime",
                            !.rollbackFailed = FALSE]
           shown == [noted EXCEPT !.configured = raw, !.persisted = raw, !.typedRev = None]
<1>0. NoteInvalid(rev, stat, raw) = IF m.mode # "NORMAL" THEN seen
                                    ELSE IF raw = None THEN noted ELSE shown
  BY DEF NoteInvalid
<1>1. /\ seen.mode = m.mode /\ Cas(seen) = Cas(m) /\ Base(seen) = Base(m)
      /\ seen.effective = m.effective /\ seen.firstInstall = m.firstInstall
      /\ seen.diagnostic = m.diagnostic /\ seen.rollbackFailed = m.rollbackFailed
  BY DEF Cas, Base, Managers
<1>2. \A r \in {noted, shown} :
        /\ r.effective = m.effective /\ r.firstInstall = m.firstInstall
        /\ r.diagnostic = m.diagnostic /\ r.lastStat = stat
        /\ r.invalidRev = rev /\ r.configuredRev = rev /\ r.invalidRaw = raw
  <2>1. /\ noted.effective = m.effective /\ noted.firstInstall = m.firstInstall
        /\ noted.diagnostic = m.diagnostic /\ noted.lastStat = stat
        /\ noted.invalidRev = rev /\ noted.configuredRev = rev /\ noted.invalidRaw = raw
    BY DEF Managers
  <2> HIDE DEF noted
  <2>2. /\ shown.effective = noted.effective /\ shown.firstInstall = noted.firstInstall
        /\ shown.diagnostic = noted.diagnostic /\ shown.lastStat = noted.lastStat
        /\ shown.invalidRev = noted.invalidRev /\ shown.configuredRev = noted.configuredRev
        /\ shown.invalidRaw = noted.invalidRaw
    OBVIOUS
  <2> HIDE DEF shown
  <2> QED
    BY <2>1, <2>2
<1> HIDE DEF seen, noted, shown
<1>3. CASE m.mode # "NORMAL"
  BY <1>0, <1>1, <1>3 DEF OfferInv, StartedRight, Offers, Founded
<1>4. CASE m.mode = "NORMAL"
  <2>1. PICK r \in {noted, shown} : m' = r
    BY <1>0, <1>4
  <2>2. Cas(m') = rev /\ m'.invalidRaw = raw /\ m'.lastStat = stat
    BY <1>2, <2>1 DEF Cas
  <2>3. StartedRight(m')
    BY <1>2, <2>1 DEF OfferInv, StartedRight
  <2>4. Offers(m', file')
    BY <2>2 DEF Offers, SeenStat, Revision
  <2>5. rev \in Configs \cup Raws => raw = rev
    BY SettingsAssumption DEF Revision, RawOf, Contents
  <2>6. rev \in Configs \cup Raws => rev # None
    BY SettingsAssumption DEF Contents
  <2>7. Founded(m')
    BY <2>2, <2>5, <2>6 DEF Founded, Base
  <2> QED BY <2>3, <2>4, <2>7 DEF OfferInv
<1> QED BY <1>3, <1>4

LEMMA StartInvalidOffer ==
  ASSUME NEW content, NEW f, NEW rev, NEW stat, NEW raw, lastGood \in Configs \cup {None, Unusable},
         rev \in Configs \cup Raws => raw = rev /\ rev # None
  PROVE  OfferInv(StartInvalid(content, lastGood, rev, stat, raw), f)
<1> DEFINE r == StartInvalid(content, lastGood, rev, stat, raw)
<1>1. /\ r.invalidRev = rev /\ r.configuredRev = rev /\ r.invalidRaw = raw
      /\ r.mode = StartMode(content, lastGood)
      /\ r.effective = IF lastGood \in Configs THEN lastGood ELSE Defaults
      /\ r.firstInstall = (r.mode = "FIRST_INSTALL") /\ r.diagnostic = (r.mode = "CONFIG_ERROR")
  BY DEF StartInvalid
<1> HIDE DEF r
<1>2. r.mode # "NORMAL"
  BY <1>1 DEF StartMode
<1>3. StartedRight(r)
  <2>1. CASE lastGood \in Configs
    BY <1>1, <2>1 DEF StartedRight, Configs
  <2>2. CASE lastGood \notin Configs
    BY <1>1, <2>2 DEF StartedRight, StartMode
  <2> QED BY <2>1, <2>2
<1>4. Founded(r)
  BY <1>1 DEF Founded, Cas, Base
<1> QED BY <1>2, <1>3, <1>4 DEF OfferInv, Offers, r

LEMMA StartOffer ==
  ASSUME NEW content \in Contents, lastGood \in Configs \cup {None, Unusable}
  PROVE  OfferInv(Started(content), content)
<1>1. CASE content \in Configs
  <2> DEFINE r == StartValid(content)
  <2>1. /\ r.invalidRev = None /\ r.configuredRev = content /\ r.invalidRaw = None
        /\ r.mode = "NORMAL" /\ r.effective = content /\ r.persisted = content
        /\ r.lastStat = "current"
    BY DEF StartValid
  <2> HIDE DEF r
  <2>2. content.rest \in Rest /\ Revision(content) = content
    BY <1>1, SettingsAssumption DEF Configs, Revision
  <2>3. OfferInv(r, content)
    BY <2>1, <2>2 DEF OfferInv, StartedRight, Offers, Founded, Cas, Base
  <2> QED BY <1>1, <2>3 DEF Started, r
<1>2. CASE content \notin Configs
  <2> DEFINE rev == Revision(content)  raw == RawOf(content)
  <2>1. rev \in Configs \cup Raws => raw = rev /\ rev # None
    BY <1>2, SettingsAssumption DEF Revision, RawOf, Contents
  <2> HIDE DEF rev, raw
  <2>2. OfferInv(StartInvalid(content, lastGood, rev, SeenStat(content), raw), content)
    BY <2>1, StartInvalidOffer
  <2> QED BY <1>2, <2>2 DEF Started, rev, raw
<1> QED BY <1>1, <1>2

LEMMA RestartOffer == TypeInv /\ Restart => OfferInv(m, file)'
<1> SUFFICES ASSUME TypeInv, Restart PROVE OfferInv(m, file)'
  OBVIOUS
<1>1. file \in Contents /\ lastGood \in Configs \cup {None, Unusable}
  BY DEF TypeInv, TypeOK
<1>2. CASE m' = Started(file) /\ file' = file
  BY <1>1, <1>2, StartOffer
<1>3. CASE \E stat : m' = StartedUnread(stat)
  <2>1. PICK stat : m' = StartedUnread(stat)
    BY <1>3
  <2>2. None \in Configs \cup Raws => FALSE
    BY SettingsAssumption DEF Contents
  <2>3. OfferInv(StartInvalid(Broken, lastGood, None, stat, None), file')
    BY <1>1, <2>2, StartInvalidOffer
  <2> QED BY <2>1, <2>3 DEF StartedUnread
<1> QED BY <1>2, <1>3 DEF Restart

\* A rollback that failed withdraws the offer until the next reload.
LEMMA RestoredOffer ==
  ASSUME m \in Managers, OfferInv(m, file), file' = file, NEW rev,
         m' = [m EXCEPT !.health = "invalid_runtime", !.primaryValid = FALSE,
                        !.invalidRev = rev, !.rollbackFailed = TRUE]
  PROVE  OfferInv(m, file)'
<1>1. /\ m'.effective = m.effective /\ m'.firstInstall = m.firstInstall
      /\ m'.diagnostic = m.diagnostic /\ m'.rollbackFailed
  BY DEF Managers
<1> QED BY <1>1 DEF OfferInv, StartedRight, Offers, Founded

LEMMA SessionOffer ==
  ASSUME TypeInv, OfferInv(m, file), NEW s \in Sessions, Session(s)
  PROVE  OfferInv(m, file)'
<1>m. m \in Managers
  BY DEF TypeInv, TypeOK
<1>k. ASSUME UNCHANGED <<file, m>> PROVE OfferInv(m, file)'
  BY <1>k
<1>1. CASE PreviewRevision(s) \/ PreviewBase(s) \/ Abandon(s) \/ CallCommit(s)
  <2>1. UNCHANGED <<file, m>>
    BY <1>1 DEF PreviewRevision, PreviewBase, Abandon, CallCommit
  <2> QED BY <1>k, <2>1
<1>2. CASE CommitRead(s) \/ CommitWrite(s) \/ CommitRestore(s)
  <2>1. UNCHANGED <<file, m>> \/ \E c : Rewrite(c)
    BY <1>2 DEF CommitRead, CommitWrite, CommitRestore
  <2> QED BY <1>m, <1>k, <2>1, RewriteOffer
<1>3. CASE CommitVerify(s)
  <2>1. CASE /\ Verified(s) /\ file' = file
             /\ m' = [SetValidPrimary(web[s].cand) EXCEPT !.pending = TRUE]
    <3>1. file = web[s].cand /\ file \in Configs
      BY <1>3, <2>1 DEF Verified, CommitVerify, TypeInv, CandidateIsValid
    <3> QED BY <1>m, <2>1, <3>1, AdoptOffer
  <2>2. CASE UNCHANGED <<file, m>> \/ \E c : Rewrite(c)
    BY <1>m, <1>k, <2>2, RewriteOffer
  <2> QED BY <1>3, <2>1, <2>2 DEF CommitVerify
<1>4. CASE CommitRestored(s)
  <2>1. file' = file
    BY <1>4 DEF CommitRestored
  <2>2. CASE m' = m
    BY <1>k, <2>1, <2>2
  <2>3. CASE m' # m
    BY <1>m, <1>4, <2>1, <2>3, RestoredOffer DEF CommitRestored
  <2> QED BY <2>2, <2>3
<1> QED BY <1>1, <1>2, <1>3, <1>4 DEF Session, Commit

LEMMA OfferNext == TypeInv /\ OfferInv(m, file) /\ [Next]_vars => OfferInv(m, file)'
<1> SUFFICES ASSUME TypeInv, OfferInv(m, file), [Next]_vars PROVE OfferInv(m, file)'
  OBVIOUS
<1>m. m \in Managers /\ file \in Contents
  BY DEF TypeInv, TypeOK
<1>1. CASE Reload
  <2>1. CASE ReloadUnchanged
    <3>1. SameOffer(m') /\ m'.lastStat = m.lastStat /\ file' = file
      BY <1>m, <2>1 DEF ReloadUnchanged, SameOffer, Managers
    <3> QED BY <3>1, SameOfferKeeps
  <2>2. CASE ReloadValid
    BY <1>m, <2>2, AdoptOffer DEF ReloadValid, Reloadable
  <2>3. CASE ReloadInvalid
    <3>1. CASE m' = NoteInvalid(Revision(file), SeenStat(file), RawOf(file))
      BY <1>m, <2>3, <3>1, NoteOffer DEF ReloadInvalid
    <3>2. CASE \E stat : m' = NoteInvalid(None, stat, None)
      BY <1>m, <2>3, <3>2, NoteOffer DEF ReloadInvalid
    <3> QED BY <2>3, <3>1, <3>2 DEF ReloadInvalid
  <2>4. CASE ReloadTorn
    <3>1. SameOffer(m') /\ m'.lastStat = NewStat(m.lastStat)
      BY <1>m, <2>4 DEF ReloadTorn, SameOffer, Managers
    <3> QED BY <3>1, SameOfferKeeps
  <2> QED BY <1>1, <2>1, <2>2, <2>3, <2>4 DEF Reload
<1>2. CASE ObserveReady \/ ObserveFails \/ Thread \/ DamageLastGood
  <2>1. SameOffer(m') /\ m'.lastStat = m.lastStat /\ file' = file
    BY <1>m, <1>2 DEF ObserveReady, ObserveRecovery, ObserveNormal, Timed, ObserveFails, Thread,
       Promote, PromoteFails, ReportPromotion, DamageLastGood, SameOffer, Managers
  <2> QED BY <2>1, SameOfferKeeps
<1>3. CASE Edit
  BY <1>m, <1>3, RewriteOffer DEF Edit
<1>4. CASE Restart
  BY <1>4, RestartOffer
<1>5. CASE \E s \in Sessions : Session(s)
  BY <1>5, SessionOffer
<1>6. CASE UNCHANGED vars
  BY <1>6 DEF vars
<1> QED BY <1>1, <1>2, <1>3, <1>4, <1>5, <1>6 DEF Next, Loop, Environment

LEMMA OfferInvariant == Spec => [](TypeInv /\ OfferInv(m, file))
<1>1. Init => OfferInv(m, file)
  BY StartOffer, SettingsAssumption DEF Init, Contents
<1> QED BY <1>1, TypeInvariant, OfferNext, PTL DEF Spec

\* The revision that the manager offers is the file's once the loop has looked
\* at it, and no process controls with the restart defaults, however the file
\* is edited, torn, unreadable or rolled back (cas_revision, control_allowed).
\* The hypothesis makes the default a mark of where the values come from.
THEOREM ManagerCurrent ==
  ASSUME DefaultRest \notin Rest
  PROVE  Spec => []ManagerIsCurrent
<1>1. TypeInv /\ OfferInv(m, file) => ManagerIsCurrent
  <2> SUFFICES ASSUME TypeInv, OfferInv(m, file) PROVE ManagerIsCurrent
    OBVIOUS
  <2>1. CasIsFresh
    <3> SUFFICES ASSUME m.mode = "NORMAL", ~m.rollbackFailed, ~Unseen, CasRevision # None
                 PROVE  CasRevision = Revision(file)
      BY DEF CasIsFresh
    <3>1. CasRevision = Cas(m)
      BY DEF CasRevision, Cas
    <3>2. m.lastStat \in {"none", "current"}
      BY DEF Unseen, SeenStat
    <3> QED BY <3>1, <3>2 DEF OfferInv, Offers
  <2>2. ControlOnStartedSettings
    BY DEF OfferInv, StartedRight, ControlOnStartedSettings, ControlAllowed
  <2> QED BY <2>1, <2>2 DEF ManagerIsCurrent, TypeInv
<1> QED BY <1>1, OfferInvariant, PTL

(***************************************************************************)
(* What a commit replaces.                                                 *)
(***************************************************************************)

\* A candidate whose preview was not disturbed was built on the content its
\* revision names, and a commit that got past its read has read that content.
Based(w) ==
  /\ w.at \in {"token", "called", "read"} /\ w.clean /\ w.rev \in Configs \cup Raws
       => w.base = w.rev
  /\ w.at = "read" /\ w.old \in Configs \cup Raws => w.old = w.rev

AllBased == \A s \in Sessions : Based(web[s])

LEMMA IdleBased == Based(Idle)
  BY DEF Based, Idle

LEMMA SessionBased ==
  ASSUME TypeInv, OfferInv(m, file), NEW s \in Sessions, Based(web[s]), Session(s)
  PROVE  Based(web[s])'
<1>w. web[s] \in WebStates /\ s \in DOMAIN web
  BY DEF TypeInv, TypeOK
<1>n. None \notin Configs \cup Raws
  BY SettingsAssumption DEF Contents
<1>1. CASE PreviewRevision(s)
  <2>1. web'[s] = [Idle EXCEPT !.at = "revision", !.rev = CasRevision]
    BY <1>w, <1>1 DEF PreviewRevision
  <2>2. web'[s].at = "revision"
    BY <2>1 DEF Idle
  <2> QED BY <2>2 DEF Based
<1>2. CASE PreviewBase(s)
  <2>1. PICK cand \in Configs :
          web' = [web EXCEPT ![s].at = "token", ![s].base = BaseConfig, ![s].cand = cand,
                             ![s].clean = CasRevision = web[s].rev /\ ~m.rollbackFailed]
    BY <1>2 DEF PreviewBase
  <2>2. /\ web'[s].at = "token" /\ web'[s].base = BaseConfig /\ web'[s].rev = web[s].rev
        /\ web'[s].clean <=> CasRevision = web[s].rev /\ ~m.rollbackFailed
    BY <1>w, <2>1 DEF WebStates
  <2>3. CasRevision = Cas(m) /\ BaseConfig = Base(m)
    BY DEF CasRevision, Cas, BaseConfig, Base
  <2>4. web'[s].clean /\ web'[s].rev \in Configs \cup Raws => web'[s].base = web'[s].rev
    BY <2>2, <2>3 DEF OfferInv, Founded
  <2> QED BY <2>2, <2>4 DEF Based
<1>3. CASE Abandon(s)
  <2>1. web'[s] = Idle
    BY <1>w, <1>3 DEF Abandon
  <2> QED BY <2>1, IdleBased
<1>4. CASE CallCommit(s)
  <2>1. web[s].at = "token" /\ (web'[s] = Idle \/ web'[s] = [web[s] EXCEPT !.at = "called"])
    BY <1>w, <1>4 DEF CallCommit
  <2>2. CASE web'[s] = [web[s] EXCEPT !.at = "called"]
    <3>1. /\ web'[s].at = "called" /\ web'[s].clean = web[s].clean
          /\ web'[s].rev = web[s].rev /\ web'[s].base = web[s].base
      BY <1>w, <2>2 DEF WebStates
    <3> QED BY <2>1, <3>1 DEF Based
  <2>3. CASE web'[s] = Idle
    BY <2>3, IdleBased
  <2> QED BY <2>1, <2>2, <2>3
<1>5. CASE CommitRead(s)
  <2>1. /\ web[s].at = "called"
        /\ \/ web'[s] = Idle
           \/ \E old \in {Revision(file), None} :
                old = web[s].rev /\ web'[s] = [web[s] EXCEPT !.at = "read", !.old = old]
    BY <1>w, <1>5 DEF CommitRead, SameRevision
  <2>2. ASSUME NEW old, old = web[s].rev, web'[s] = [web[s] EXCEPT !.at = "read", !.old = old]
        PROVE  Based(web[s])'
    <3>1. /\ web'[s].at = "read" /\ web'[s].clean = web[s].clean /\ web'[s].old = old
          /\ web'[s].rev = web[s].rev /\ web'[s].base = web[s].base
      BY <1>w, <2>2 DEF WebStates
    <3> QED BY <2>1, <2>2, <3>1 DEF Based
  <2>3. CASE web'[s] = Idle
    BY <2>3, IdleBased
  <2> QED BY <2>1, <2>2, <2>3
<1>6. CASE CommitWrite(s) \/ CommitVerify(s) \/ CommitRestore(s) \/ CommitRestored(s)
  <2>1. web'[s] = Idle \/ \E at \in {"written", "failed", "restored"} :
                            web'[s] = [web[s] EXCEPT !.at = at]
    BY <1>w, <1>6 DEF CommitWrite, CommitVerify, CommitRestore, CommitRestored
  <2>2. web'[s].at \in {"idle", "written", "failed", "restored"}
    BY <1>w, <2>1 DEF WebStates, Idle
  <2> QED BY <2>2 DEF Based
<1> QED BY <1>1, <1>2, <1>3, <1>4, <1>5, <1>6 DEF Session, Commit

LEMMA BasedNext == TypeInv /\ OfferInv(m, file) /\ AllBased /\ [Next]_vars => AllBased'
<1> SUFFICES ASSUME TypeInv, OfferInv(m, file), AllBased, [Next]_vars PROVE AllBased'
  OBVIOUS
<1>m. web \in [Sessions -> WebStates]
  BY DEF TypeInv, TypeOK
<1>1. CASE UNCHANGED web
  BY <1>1 DEF AllBased
<1>2. CASE Restart
  BY <1>2, IdleBased DEF Restart, FreshProcess, AllBased
<1>3. ASSUME NEW s \in Sessions, Session(s) PROVE AllBased'
  <2>1. \A t \in Sessions : t # s => web'[t] = web[t]
    BY <1>m, <1>3 DEF Session, Commit, PreviewRevision, PreviewBase, Abandon, CallCommit,
       CommitRead, CommitWrite, CommitVerify, CommitRestore, CommitRestored
  <2>2. Based(web'[s])
    BY <1>3, SessionBased DEF AllBased
  <2> QED BY <2>1, <2>2 DEF AllBased
<1> QED BY <1>1, <1>2, <1>3 DEF Next, Loop, Reload, ObserveReady, ObserveFails, Thread, Promote,
     PromoteFails, ReportPromotion, Environment, Edit, DamageLastGood, vars

\* A commit replaces exactly the content its candidate was built on, whatever
\* was edited, reloaded or committed since the preview, for any number of
\* sessions (preview, commit_candidate).
THEOREM CommitKeepsItsBase == Spec => []CommitReplacesItsBase
<1>1. AllBased => CommitReplacesItsBase
  BY DEF AllBased, Based, CommitReplacesItsBase
<1>2. Init => AllBased
  BY IdleBased DEF Init, AllBased
<1> QED BY <1>1, <1>2, OfferInvariant, BasedNext, PTL DEF Spec
=============================================================================
