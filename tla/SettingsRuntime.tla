-------------------------- MODULE SettingsRuntime --------------------------
(***************************************************************************)
(* The settings runtime (settings_runtime.py, SettingsRuntimeManager) with *)
(* the three parties that share it: the controller loop, which reloads the *)
(* configuration file and reports readiness once per cycle; the web        *)
(* sessions, which preview and commit changes (settings_service.py); and   *)
(* the promotion thread, which hands a proven configuration to the         *)
(* Last-Good store.  Around them an administrator edits config.json at any *)
(* moment, reads and writes fail, and the process restarts.                *)
(*                                                                         *)
(* A configuration has a live part, applied at once, and a restart part,   *)
(* applied by the next process start.  The content of the file stands for  *)
(* its bytes and for their sha256 revision alike.  Of a file fingerprint   *)
(* only its equality with the last one read is kept (lastStat); every      *)
(* write gives the file a fingerprint it never had before.                 *)
(*                                                                         *)
(* Whether a configuration is valid depends on its content, and while the  *)
(* process runs also on the effective values: a reload refuses a file that *)
(* changes the grid meter source or the database path (validate_candidate, *)
(* VAL-015 and VAL-021), which a start or a commit accepts.                *)
(***************************************************************************)
EXTENDS Naturals

CONSTANTS Live, Rest,               \* values of the live and of the restart part
          DefaultLive, DefaultRest, \* the defaults of a new installation
          Guard,    \* Guard[v]: the part of v that validation lets no reload change
          Raws,     \* decodable contents that are not a valid configuration
          Broken,   \* content that is not a JSON object
          NoFile,   \* the file does not exist
          None,     \* no configuration, no revision ("" or None in the code)
          Unusable, \* Last-Good files exist but no recovery can be chosen
          Proofs,   \* readiness proof revisions; {} switches readiness off
          StableReady, \* STABLE_READY_SECONDS in controller cycles
          Sessions, \* web sessions; {} switches previews and commits off
          Edits,    \* what an administrator may put into the file
          Inherited, \* Last-Good states left behind by earlier processes
          Faults    \* faults that may occur, of FaultKinds

Configs == [live : Live, rest : Rest]
Defaults == [live |-> DefaultLive, rest |-> DefaultRest]
Effectives == [live : Live \cup {DefaultLive}, rest : Rest \cup {DefaultRest}]
Contents == Configs \cup Raws \cup {Broken, NoFile}
Revisions == (Contents \ {NoFile}) \cup {None}
\* torn: the file changes while it is read; read: it cannot be read; start:
\* either of the two at process start; write: a write raises; restore: the
\* old file cannot be restored; promote: a promotion fails; switched: it fails
\* after the pointer was switched; damage: the Last-Good files are damaged.
FaultKinds ==
  {"torn", "read", "start", "write", "restore", "promote", "switched", "damage"}

ASSUME SettingsAssumption ==
  /\ Guard \in [Live \cup {DefaultLive} -> STRING]
  /\ StableReady \in Nat \ {0}
  /\ Edits \subseteq Contents
  /\ Inherited \subseteq Configs \cup {None, Unusable}
  /\ Faults \subseteq FaultKinds
  /\ None \notin Contents /\ Unusable \notin Configs \cup {None}
  /\ NoFile \notin Configs \cup Raws \cup {Broken}
  /\ Configs \cap (Raws \cup {Broken}) = {} /\ Broken \notin Raws
  /\ None \notin Proofs

VARIABLES
  file,     \* config.json
  lastGood, \* what LastGoodStore.select_recovery would choose
  m,        \* the fields of the SettingsRuntimeManager (rollbackFailed, diagnostic: history)
  cycle,    \* the loop's next call: "reload" or "observe"
  applied,  \* the configuration the subsystems were last refreshed with
  web,      \* web[s]: the preview or commit of session s
  worker,   \* the promotion thread: its configuration and its result
  observed, \* history: the proof seen last and not disturbed since, or None
  steady,   \* history: cycles for which that proof has held
  proven    \* history: configurations that held it for StableReady cycles

vars == <<file, lastGood, m, cycle, applied, web, worker, observed, steady, proven>>
history == <<observed, steady, proven>>

Modes == {"FIRST_INSTALL", "NORMAL", "RECOVERY_WAITING", "RECOVERY_ACTIVE", "CONFIG_ERROR"}

\* A web session: a preview reads the revision, then the base; a commit is
\* called, then holds the manager's lock from its first read to its end.
\* clean is history: when the base was read, the revision had not moved and
\* was not the one a failed rollback had left behind.
Idle == [at |-> "idle", rev |-> None, base |-> None, cand |-> None, old |-> None,
         clean |-> TRUE]
NoWorker == [config |-> None, result |-> "none"]
Locking == {"read", "written", "failed", "restored"}
\* A lock that excludes nobody.
Unlocked == \A s \in Sessions : web[s].at \notin Locking

-----------------------------------------------------------------------------
(* Reading the file *)

Revision(content) == IF content = NoFile THEN None ELSE content

\* _last_stat_fingerprint after a read of the present file.
SeenStat(content) == IF content = NoFile THEN "none" ELSE "current"

\* The file's fingerprint differs from the last one read.
Unseen == m.lastStat # SeenStat(file)

\* The file is written, moved or touched: its fingerprint is a new one.
NewStat(stat) == IF stat = "none" THEN "none" ELSE "old"
Rewrite(content) ==
  /\ file' = content
  /\ m' = [m EXCEPT !.lastStat = NewStat(@)]

-----------------------------------------------------------------------------
(* Process start *)

\* _set_valid_primary at startup: the whole configuration takes effect.
StartValid(content) ==
  [mode |-> "NORMAL", firstInstall |-> FALSE, health |-> "valid",
   primaryValid |-> TRUE, configured |-> content, persisted |-> content,
   effective |-> content, startupEffective |-> content, source |-> "primary",
   configuredRev |-> content, invalidRev |-> None, invalidRaw |-> None,
   typedRev |-> content, pending |-> FALSE, lastStat |-> "current",
   readyAge |-> None, readyProof |-> None, lastPromoted |-> None,
   rollbackFailed |-> FALSE, diagnostic |-> FALSE]

\* The mode and the effective values of a start without a valid file.
StartMode(content, good) ==
  IF good \in Configs THEN "RECOVERY_WAITING"
  ELSE IF content = NoFile /\ good = None THEN "FIRST_INSTALL"
  ELSE "CONFIG_ERROR"

\* load() when config.json has no valid configuration to offer.  rev and
\* stat are what the failed read reported, raw the decoded object or None.
StartInvalid(content, good, rev, stat, raw) ==
  LET running == IF good \in Configs THEN good ELSE Defaults
      mode == StartMode(content, good)
  IN [mode |-> mode, firstInstall |-> mode = "FIRST_INSTALL",
      health |-> IF content = NoFile THEN "missing" ELSE "invalid_startup",
      primaryValid |-> FALSE,
      configured |-> IF raw = None THEN Defaults ELSE raw, persisted |-> raw,
      effective |-> running, startupEffective |-> running,
      source |-> IF good \in Configs THEN "last_good" ELSE "defaults",
      configuredRev |-> rev, invalidRev |-> rev, invalidRaw |-> raw,
      typedRev |-> None, pending |-> FALSE, lastStat |-> stat,
      readyAge |-> None, readyProof |-> None, lastPromoted |-> None,
      rollbackFailed |-> FALSE, diagnostic |-> mode = "CONFIG_ERROR"]

\* The decoded object of a file that is not adopted.
RawOf(content) == IF content \in Configs \cup Raws THEN content ELSE None

\* load() of a file that can be read.
Started(content) ==
  IF content \in Configs
  THEN StartValid(content)
  ELSE StartInvalid(content, lastGood, Revision(content), SeenStat(content), RawOf(content))

\* load() of a file that exists and cannot be read, or changes under the read.
StartedUnread(stat) == StartInvalid(Broken, lastGood, None, stat, None)

\* The subsystems start with the effective configuration; nothing else of the
\* previous process survives.
FreshProcess ==
  /\ cycle' = "reload"
  /\ applied' = m'.effective
  /\ web' = [s \in Sessions |-> Idle]
  /\ worker' = NoWorker
  /\ observed' = None /\ steady' = 0

Restart ==
  /\ \/ m' = Started(file) /\ UNCHANGED file
     \/ /\ "start" \in Faults /\ file # NoFile
        /\ \/ UNCHANGED file /\ \E stat \in {"none", "current"} : m' = StartedUnread(stat)
           \/ file' \in Edits \ {NoFile} /\ m' = StartedUnread("current")
  /\ FreshProcess
  /\ UNCHANGED <<lastGood, proven>>

-----------------------------------------------------------------------------
(* Adopting a valid configuration while running *)

\* Live settings follow the file, restart settings keep their running value.
Applied(content) == [live |-> content.live, rest |-> m.effective.rest]

\* _set_valid_primary: content was just read from the file and is valid.
SetValidPrimary(content) ==
  [m EXCEPT !.configured = content, !.persisted = content,
            !.effective = Applied(content), !.configuredRev = content,
            !.typedRev = content, !.lastStat = "current", !.health = "valid",
            !.primaryValid = TRUE, !.invalidRev = None, !.invalidRaw = None,
            !.source = "primary", !.mode = "NORMAL",
            !.readyAge = IF m.typedRev # content THEN None ELSE @,
            !.readyProof = None, !.rollbackFailed = FALSE]

\* The proof held so far is void when another configuration is adopted.
ObserveAdoption(content) ==
  IF content = m.configured
  THEN UNCHANGED <<observed, steady>>
  ELSE observed' = None /\ steady' = 0

-----------------------------------------------------------------------------
(* The loop: reload_if_needed *)

\* The reload found no valid configuration: only a NORMAL process takes note.
NoteInvalid(rev, stat, raw) ==
  LET seen == [m EXCEPT !.pending = FALSE, !.lastStat = stat]
      noted == [seen EXCEPT !.health = "invalid_runtime", !.primaryValid = FALSE,
                            !.invalidRev = rev, !.invalidRaw = raw,
                            !.configuredRev = rev, !.source = "last_valid_runtime",
                            !.rollbackFailed = FALSE]
  IN IF m.mode # "NORMAL" THEN seen
     ELSE IF raw = None THEN noted
     ELSE [noted EXCEPT !.configured = raw, !.persisted = raw, !.typedRev = None]

\* The change edge of this cycle makes run_forever refresh the subsystems.
Refresh(changed) == applied' = IF changed THEN m'.effective ELSE applied

ReloadUnchanged ==
  /\ ~Unseen
  /\ m' = [m EXCEPT !.pending = FALSE]
  /\ Refresh(m.pending)
  /\ UNCHANGED <<file, observed, steady>>

Reloadable(content) ==
  content \in Configs /\ Guard[content.live] = Guard[m.effective.live]

ReloadValid ==
  /\ Unseen /\ Reloadable(file)
  /\ m' = [SetValidPrimary(file) EXCEPT !.pending = FALSE]
  /\ Refresh(m.effective # m'.effective)
  /\ ObserveAdoption(file)
  /\ UNCHANGED file

ReloadInvalid ==
  /\ Unseen
  /\ \/ /\ ~Reloadable(file)
        /\ m' = NoteInvalid(Revision(file), SeenStat(file), RawOf(file))
     \/ /\ "read" \in Faults /\ file # NoFile
        /\ \E stat \in {"none", "current"} : m' = NoteInvalid(None, stat, None)
  /\ UNCHANGED <<file, applied, observed, steady>>

\* A torn read that counts as having seen the file.
TornIsSeen ==
  /\ Unseen /\ "torn" \in Faults /\ file # NoFile
  /\ file' \in Edits \ {NoFile}
  /\ m' = [m EXCEPT !.pending = FALSE, !.lastStat = "current"]
  /\ UNCHANGED <<applied, observed, steady>>
\* stable_read sees two fingerprints: this cycle keeps everything, the next retries.
ReloadTorn ==
  /\ Unseen /\ "torn" \in Faults /\ file # NoFile
  /\ file' \in Edits \ {NoFile}
  /\ m' = [m EXCEPT !.pending = FALSE, !.lastStat = NewStat(@)]
  /\ UNCHANGED <<applied, observed, steady>>

Reload ==
  /\ cycle = "reload" /\ Unlocked
  /\ ReloadUnchanged \/ ReloadValid \/ ReloadInvalid \/ ReloadTorn
  /\ cycle' = "observe"
  /\ UNCHANGED <<lastGood, web, worker, proven>>

-----------------------------------------------------------------------------
(* The loop: control_allowed, observe_ready *)

\* Without the flag of the first-install process.
ModeAllows == m.mode \in {"NORMAL", "RECOVERY_ACTIVE"}
ControlAllowed == ~m.firstInstall /\ m.mode \in {"NORMAL", "RECOVERY_ACTIVE"}

\* A restart setting differs from the one the process runs with.
PendingRestart == m.primaryValid /\ m.configured.rest # m.effective.rest

Eligible(ready) ==
  /\ m.mode = "NORMAL" /\ m.primaryValid
  /\ m.health = "valid" /\ m.source = "primary"
  /\ ~PendingRestart
  /\ ready

Capped(n) == IF n < StableReady THEN n + 1 ELSE StableReady

\* An elapsed time that also runs while the controller is not ready.
TimerKeeps(ready, proof) ==
  IF m.readyAge = None THEN [m EXCEPT !.readyAge = 0, !.readyProof = proof]
  ELSE [m EXCEPT !.readyAge = Capped(@)]
\* observe_ready up to the comparison with STABLE_READY_SECONDS.
Timed(ready, proof) ==
  IF ~Eligible(ready) THEN [m EXCEPT !.readyAge = None, !.readyProof = proof]
  ELSE IF proof # m.readyProof THEN [m EXCEPT !.readyAge = 0, !.readyProof = proof]
  ELSE [m EXCEPT !.readyAge = IF @ = None THEN 0 ELSE Capped(@)]

\* A schedule that promotes once per process.
OncePerProcess == worker = NoWorker /\ m.lastPromoted = None
\* _schedule_promotion_locked starts a thread.
Schedulable == worker = NoWorker /\ m.lastPromoted # m.typedRev

SchedulePromotion ==
  worker' = IF m'.readyAge = StableReady /\ Schedulable
            THEN [config |-> m.configured, result |-> "none"] ELSE worker

\* History: ready reports with one proof and no other in between, while the
\* whole of one valid configuration was running.
ObserveProof(ready, proof) ==
  LET genuine == ready /\ m.mode = "NORMAL" /\ m.primaryValid /\ m.configured = m.effective
      held == IF genuine /\ proof = observed THEN Capped(steady) ELSE 0
  IN /\ observed' = IF genuine THEN proof ELSE None
     /\ steady' = held
     /\ proven' = IF held = StableReady THEN proven \cup {m.configured} ELSE proven

ObserveRecovery ==
  /\ m.mode = "RECOVERY_WAITING"
  /\ \E ready \in BOOLEAN : m' = [m EXCEPT !.mode = IF ready THEN "RECOVERY_ACTIVE" ELSE @]
  /\ UNCHANGED <<worker, history>>

ObserveNormal ==
  /\ m.mode # "RECOVERY_WAITING"
  /\ \E proof \in Proofs, ready \in BOOLEAN :
       /\ m' = Timed(ready, proof)
       /\ ObserveProof(ready, proof)
       /\ IF Eligible(ready) THEN SchedulePromotion ELSE UNCHANGED worker

ObserveReady ==
  /\ cycle = "observe" /\ Unlocked
  /\ ObserveRecovery \/ ObserveNormal
  /\ cycle' = "reload"
  /\ UNCHANGED <<file, lastGood, applied, web>>

\* A cycle in which readiness is not reported (the observer raised): the
\* monotonic clock runs on.
ObserveFails ==
  /\ cycle = "observe" /\ Unlocked
  /\ m' = [m EXCEPT !.readyAge = IF @ = None THEN @ ELSE Capped(@)]
  /\ steady' = IF observed = None THEN steady ELSE Capped(steady)
  /\ cycle' = "reload"
  /\ UNCHANGED <<file, lastGood, applied, web, worker, observed, proven>>

-----------------------------------------------------------------------------
(* The promotion thread *)

\* A worker that promotes whatever is configured when it runs.
LateSnapshot == m.configured
Snapshot == worker.config

\* promote() outside the manager's lock; the store is the register it
\* implements (LastGoodStore): the value is replaced, or the promotion fails
\* before or after replacing it.
Promote ==
  /\ worker # NoWorker /\ worker.result = "none"
  /\ lastGood' = Snapshot /\ worker' = [worker EXCEPT !.result = "promoted"]
  /\ UNCHANGED <<file, m, cycle, applied, web, history>>

PromoteFails ==
  /\ worker # NoWorker /\ worker.result = "none"
  /\ \/ "promote" \in Faults /\ UNCHANGED lastGood
     \/ "switched" \in Faults /\ lastGood' = Snapshot
  /\ worker' = [worker EXCEPT !.result = "failed"]
  /\ UNCHANGED <<file, m, cycle, applied, web, history>>

\* The thread reports under the lock and ends.
ReportPromotion ==
  /\ worker.result # "none" /\ Unlocked
  /\ m' = [m EXCEPT !.lastPromoted = IF worker.result = "promoted" THEN worker.config ELSE @]
  /\ worker' = NoWorker
  /\ UNCHANGED <<file, lastGood, cycle, applied, web, history>>

-----------------------------------------------------------------------------
(* The web sessions: preview and commit *)

\* cas_revision
CasRevision == IF m.invalidRev # None THEN m.invalidRev ELSE m.configuredRev

\* candidate_base_config, without the bootstrap draft of a first installation
BaseConfig ==
  IF m.invalidRaw # None THEN m.invalidRaw
  ELSE IF m.mode = "FIRST_INSTALL" /\ ~m.primaryValid THEN None
  ELSE m.persisted

\* preview: the revision is taken first, ...
PreviewRevision(s) ==
  /\ Unlocked /\ web[s].at = "idle"
  /\ web' = [web EXCEPT ![s] = [Idle EXCEPT !.at = "revision", !.rev = CasRevision]]
  /\ UNCHANGED <<file, lastGood, m, cycle, applied, worker, history>>

\* ... then the base; a valid candidate that changes something gets a token.
PreviewBase(s) ==
  /\ Unlocked /\ web[s].at = "revision"
  /\ \E cand \in Configs \ {m.configured} :
       web' = [web EXCEPT ![s].at = "token", ![s].base = BaseConfig, ![s].cand = cand,
                          ![s].clean = CasRevision = web[s].rev /\ ~m.rollbackFailed]
  /\ UNCHANGED <<file, lastGood, m, cycle, applied, worker, history>>

\* The preview is blocked, changes nothing, or its token expires.
Abandon(s) ==
  /\ web[s].at \in {"revision", "token"}
  /\ web' = [web EXCEPT ![s] = Idle]
  /\ UNCHANGED <<file, lastGood, m, cycle, applied, worker, history>>

\* SettingsService.commit: the token is consumed, the revision compared with
\* the manager's; a conflict ends the commit.
CallCommit(s) ==
  /\ Unlocked /\ web[s].at = "token"
  /\ web' = [web EXCEPT ![s] = IF CasRevision = web[s].rev THEN [@ EXCEPT !.at = "called"] ELSE Idle]
  /\ UNCHANGED <<file, lastGood, m, cycle, applied, worker, history>>

\* A compare-and-set that trusts the service's comparison.
TrustsService(s, rev) == TRUE
SameRevision(s, rev) == rev = web[s].rev

\* commit_candidate takes the lock and reads the file again: a revision other
\* than the preview's is a conflict.  A read that failed has no revision.
CommitRead(s) ==
  /\ Unlocked /\ web[s].at = "called"
  /\ \/ /\ web' = [web EXCEPT ![s] = IF SameRevision(s, Revision(file))
                                     THEN [@ EXCEPT !.at = "read", !.old = Revision(file)] ELSE Idle]
        /\ UNCHANGED <<file, m>>
     \/ /\ web' = [web EXCEPT ![s] = IF SameRevision(s, None)
                                     THEN [@ EXCEPT !.at = "read", !.old = None] ELSE Idle]
        /\ file # NoFile
        /\ \/ "read" \in Faults /\ UNCHANGED <<file, m>>
           \/ "torn" \in Faults /\ \E c \in Edits \ {NoFile} : Rewrite(c)
  /\ UNCHANGED <<lastGood, cycle, applied, worker, history>>

\* atomic_write of the candidate; it may raise before or after the rename.
CommitWrite(s) ==
  /\ web[s].at = "read"
  /\ \/ /\ Rewrite(web[s].cand)
        /\ web' = [web EXCEPT ![s].at = "written"]
     \/ /\ "write" \in Faults
        /\ Rewrite(web[s].cand) \/ UNCHANGED <<file, m>>
        /\ web' = [web EXCEPT ![s] = Idle]
  /\ UNCHANGED <<lastGood, cycle, applied, worker, history>>

\* A verification that trusts the write.
TrustsWrite(s) == TRUE
Verified(s) == file = web[s].cand

\* The read-back: the candidate is adopted, or restoring begins.
CommitVerify(s) ==
  /\ web[s].at = "written"
  /\ \/ /\ Verified(s)
        /\ m' = [SetValidPrimary(web[s].cand) EXCEPT !.pending = TRUE]
        /\ ObserveAdoption(web[s].cand)
        /\ web' = [web EXCEPT ![s] = Idle]
        /\ UNCHANGED file
     \/ /\ \/ ~Verified(s) /\ UNCHANGED <<file, m>>
           \/ "read" \in Faults /\ UNCHANGED <<file, m>>
           \/ "torn" \in Faults /\ \E c \in Edits \ {NoFile} : Rewrite(c)
        /\ web' = [web EXCEPT ![s].at = "failed"]
        /\ UNCHANGED <<observed, steady>>
  /\ UNCHANGED <<lastGood, cycle, applied, worker, proven>>

OldContent(s) == IF web[s].old = None THEN NoFile ELSE web[s].old

\* The old bytes are written back, or the new file is removed.
CommitRestore(s) ==
  /\ web[s].at = "failed"
  /\ \/ Rewrite(OldContent(s))
     \/ "restore" \in Faults /\ UNCHANGED <<file, m>>
  /\ web' = [web EXCEPT ![s].at = "restored"]
  /\ UNCHANGED <<lastGood, cycle, applied, worker, history>>

\* The restored file is read back; if it is not the old one, the runtime is
\* marked invalid under whatever revision the file has.
CommitRestored(s) ==
  /\ web[s].at = "restored"
  /\ \/ file = OldContent(s) /\ UNCHANGED m
     \/ /\ file # OldContent(s) \/ "restore" \in Faults
        /\ \E rev \in {Revision(file), None} :
             /\ rev = Revision(file) \/ "read" \in Faults
             /\ m' = [m EXCEPT !.health = "invalid_runtime", !.primaryValid = FALSE,
                               !.invalidRev = rev, !.rollbackFailed = TRUE]
  /\ web' = [web EXCEPT ![s] = Idle]
  /\ UNCHANGED <<file, lastGood, cycle, applied, worker, history>>

-----------------------------------------------------------------------------
(* The environment *)

\* The administrator or another program writes, touches or removes config.json.
Edit ==
  /\ \E c \in Edits : Rewrite(c)
  /\ UNCHANGED <<lastGood, cycle, applied, web, worker, history>>

\* The Last-Good files are damaged beyond a recovery.
DamageLastGood ==
  /\ "damage" \in Faults /\ lastGood # None
  /\ lastGood' = Unusable
  /\ UNCHANGED <<file, m, cycle, applied, web, worker, history>>

Init ==
  /\ file \in Edits \cup Configs \cup {NoFile}
  /\ lastGood \in Inherited
  /\ m = Started(file)
  /\ cycle = "reload"
  /\ applied = m.effective
  /\ web = [s \in Sessions |-> Idle]
  /\ worker = NoWorker
  /\ observed = None /\ steady = 0 /\ proven = {lastGood} \cap Configs

Loop == Reload \/ ObserveReady \/ ObserveFails
Commit(s) ==
  \/ CallCommit(s) \/ CommitRead(s) \/ CommitWrite(s) \/ CommitVerify(s)
  \/ CommitRestore(s) \/ CommitRestored(s)
Session(s) == PreviewRevision(s) \/ PreviewBase(s) \/ Abandon(s) \/ Commit(s)
Thread == Promote \/ PromoteFails \/ ReportPromotion
Environment == Edit \/ DamageLastGood \/ Restart

Next == Loop \/ (\E s \in Sessions : Session(s)) \/ Thread \/ Environment

Spec == Init /\ [][Next]_vars

\* The loop gets the lock again and again, a request that holds it ends, a promotion
\* thread finishes, and neither the observer nor every promotion fails for ever.
Fairness ==
  /\ SF_vars(Loop) /\ SF_vars(ObserveReady)
  /\ \A s \in Sessions : WF_vars(Commit(s))
  /\ SF_vars(Thread) /\ SF_vars(Promote)

FairSpec == Spec /\ Fairness

-----------------------------------------------------------------------------
(* Properties *)

Managers ==
  [mode : Modes, firstInstall : BOOLEAN,
   health : {"valid", "missing", "invalid_startup", "invalid_runtime"},
   primaryValid : BOOLEAN, configured : Configs \cup Raws \cup {Defaults},
   persisted : Configs \cup Raws \cup {None}, effective : Effectives,
   startupEffective : Effectives,
   source : {"primary", "last_valid_runtime", "last_good", "defaults"},
   configuredRev : Revisions, invalidRev : Revisions, invalidRaw : Configs \cup Raws \cup {None},
   typedRev : Configs \cup {None}, pending : BOOLEAN,
   lastStat : {"none", "current", "old"}, readyAge : 0..StableReady \cup {None},
   readyProof : Proofs \cup {None}, lastPromoted : Configs \cup {None},
   rollbackFailed : BOOLEAN, diagnostic : BOOLEAN]
WebStates ==
  [at : {"idle", "revision", "token", "called"} \cup Locking, rev : Revisions,
   base : Configs \cup Raws \cup {None}, cand : Configs \cup {None}, old : Revisions,
   clean : BOOLEAN]

\* Every variable has its type, and at most one commit holds the lock.
TypeOK ==
  /\ file \in Contents /\ lastGood \in Configs \cup {None, Unusable}
  /\ m \in Managers /\ cycle \in {"reload", "observe"} /\ applied \in Effectives
  /\ web \in [Sessions -> WebStates]
  /\ worker \in [config : Configs \cup {None}, result : {"none", "promoted", "failed"}]
  /\ observed \in Proofs \cup {None} /\ steady \in 0..StableReady
  /\ proven \subseteq Configs
  /\ \A s, t \in Sessions : web[s].at \in Locking /\ web[t].at \in Locking => s = t

\* When a commit's final read returns a decodable file, the candidate was
\* built on exactly that file, whatever was edited, reloaded or committed
\* since the preview (preview, commit, commit_candidate).  Exempt is a preview
\* between whose two reads the loop changed the revision, or one taken
\* between a failed rollback and the next reload.
CommitReplacesItsBase ==
  \A s \in Sessions :
    web[s].at = "read" /\ web[s].clean /\ web[s].old \in Configs \cup Raws
      => web[s].base = web[s].old

\* While a process runs, its effective values change only to the live part of
\* a valid configuration that is in the file at that moment; the restart part
\* stays.  (An edit under a commit is never replaced by the candidate in memory.)
AdoptsOnlyWhatIsOnDisk ==
  [][\/ m'.effective = m.effective
     \/ m'.effective = m'.startupEffective /\ web' = [s \in Sessions |-> Idle]
     \/ /\ file \in Configs /\ m'.configured = file
        /\ m'.effective = [live |-> file.live, rest |-> m.effective.rest]]_vars

\* In a running process, once the loop has looked at the file, the revision
\* offered to a preview, if any, is the file's: a commit based on it can pass.
\* A read that failed offers none, and a failed rollback may leave the
\* revision of a file that is removed again.
CasIsFresh ==
  m.mode = "NORMAL" /\ ~m.rollbackFailed /\ ~Unseen /\ Unlocked /\ CasRevision # None
    => CasRevision = Revision(file)

\* Commands are only sent with a restart part (device id, broker) that the
\* process started with from a valid file or a Last-Good slot, never with the
\* defaults of a new installation.  Exempt is a process that started in
\* CONFIG_ERROR: a valid file makes it NORMAL without a restart.
ControlOnStartedSettings ==
  ControlAllowed /\ ~m.diagnostic => m.effective.rest # DefaultRest

\* What the manager offers and allows belongs to the file and to the settings
\* this process runs with.
ManagerIsCurrent == TypeOK /\ CasIsFresh /\ ControlOnStartedSettings

\* The stable-ready clock never shows more than the time for which one proof
\* was reported for one configuration without a contrary report.
ReadyTimerIsHonest == m.readyAge # None => m.readyAge <= steady

\* What a recovery would start with was running as a whole, restart settings
\* included, for the full stable-ready time.
LastGoodWasProven == lastGood \in Configs => lastGood \in proven

\* A valid file that stays, that a reload may adopt, and that is not rewritten
\* during every single read, is adopted, and the subsystems run with it,
\* whatever edits and torn reads came before.
ValidFileIsAdopted ==
  \A c \in Configs :
    <>[](file = c /\ Reloadable(c)) /\ <>[][~ReloadTorn]_vars
      => <>[](m.configured = c /\ m.mode = "NORMAL" /\ m.primaryValid /\ applied = m.effective)

\* A configuration that stays ready in an untouched file becomes the recovery
\* configuration, even if promotions fail for a while.  Exempt is one the
\* process has promoted before and a promotion that failed after its pointer
\* switch has replaced: the process takes it for promoted.
Superseded(c) == m.lastPromoted = c /\ lastGood # c
StableConfigIsPromoted ==
  \A c \in Configs :
    <>[](steady = StableReady /\ m.configured = c /\ ~Unseen /\ ~Superseded(c))
      => <>[](lastGood = c)
=============================================================================
