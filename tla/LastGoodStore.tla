--------------------------- MODULE LastGoodStore ---------------------------
(***************************************************************************)
(* The A/B Last-Good store (settings_runtime.py, class LastGoodStore).     *)
(*                                                                         *)
(* Five files on disk: a configuration and a manifest for each of the      *)
(* slots A and B, and the current pointer.  promote() writes three of them *)
(* one after the other; each write is atomic (temporary file, fsync,       *)
(* rename), the sequence is not: the process may crash, or a write may     *)
(* fail, between any two of them.  select_recovery() reads whatever the    *)
(* files hold when the process starts again, possibly under another        *)
(* controller version.  repair_pointer() is the two-step (preview, commit) *)
(* administrative repair of the pointer.                                   *)
(*                                                                         *)
(* The store's lock is held for a whole promote() and a whole              *)
(* repair_pointer(), so the two never interleave inside one process.       *)
(* sha256 is taken to be injective: a manifest stores the configuration    *)
(* bytes themselves where the code stores their hash.                      *)
(***************************************************************************)
EXTENDS Naturals

CONSTANTS Configs,         \* byte strings that are valid configurations
          Revisions,       \* typed revisions
          TypedRevision,   \* the typed revision of each configuration
          Versions,        \* controller versions that may be installed
          Missing,         \* the file does not exist
          Damaged,         \* unreadable or not valid; a slot file also by its mode or owner
          None,            \* no slot, no configuration
          MaxGeneration,   \* bound: promotions that may start
          MaxDisturbances  \* bound: damaged files plus version changes

Slots == {"A", "B"}
Generations == Nat \ {0}
Manifests == [version : Versions, generation : Generations,
              hash : Configs, revision : Revisions]
\* private: the pointer file has mode 0600 and the expected owner.
Pointers == [slot : Slots, generation : Generations, revision : Revisions,
             private : BOOLEAN]

ASSUME StoreAssumption ==
  /\ TypedRevision \in [Configs -> Revisions]
  /\ Versions # {}
  /\ MaxGeneration \in Nat /\ MaxDisturbances \in Nat
  /\ Missing \notin Configs /\ Damaged \notin Configs /\ None \notin Configs
  /\ Missing \notin Manifests /\ Damaged \notin Manifests
  /\ Missing \notin Pointers /\ Damaged \notin Pointers
  /\ None \notin Slots

VARIABLES
  cfg,          \* cfg[s]: the slot's configuration file
  man,          \* man[s]: the slot's manifest file
  ptr,          \* the current-pointer file
  version,      \* APP_VERSION of the running process
  step,         \* where promote() is: "idle", "config", "manifest", "pointer", "check"
  job,          \* the arguments and the plan of the promote() in flight
  token,        \* files and target a repair preview is bound to
  sealed,       \* history: <<config, generation>> whose manifest was written
  disturbances  \* Damage steps and version changes so far

disk == <<cfg, man, ptr>>
vars == <<cfg, man, ptr, version, step, job, token, sealed, disturbances>>

NoJob == [config |-> None, generation |-> 0, target |-> None]
Jobs == [config : Configs, generation : Generations, target : Slots]
Steps == {"idle", "config", "manifest", "pointer", "check"}

Other(s) == IF s = "A" THEN "B" ELSE "A"

-----------------------------------------------------------------------------
(* validate_slot and select_recovery *)

\* Both files of the slot can be read and decoded.
Readable(s) == cfg[s] \in Configs /\ man[s] \in Manifests

\* The slot's generation as validate_slot reports it, 0 when unreadable; a
\* slot that fails the later checks still reports the manifest's number.
GenerationOf(s) == IF Readable(s) THEN man[s].generation ELSE 0

\* A slot check that trusts the manifest without hashing the configuration.
ValidNoHash(s) ==
  /\ Readable(s)
  /\ man[s].version = version
  /\ man[s].revision = TypedRevision[man[s].hash]

Valid(s) ==
  /\ Readable(s)
  /\ man[s].version = version
  /\ man[s].hash = cfg[s]
  /\ man[s].revision = TypedRevision[cfg[s]]

\* A pointer with another mode or owner is not read, whatever its bytes say.
PointerReadable == ptr \in Pointers /\ ptr.private

\* The pointer names a valid slot of the same generation and revision.
PointerCurrent ==
  /\ PointerReadable
  /\ Valid(ptr.slot)
  /\ man[ptr.slot].generation = ptr.generation
  /\ TypedRevision[cfg[ptr.slot]] = ptr.revision

\* A selection that knows the pointer's slot only.
SelectPointerOnly ==
  IF PointerReadable
  THEN IF PointerCurrent THEN ptr.slot ELSE None
  ELSE IF Valid("A") THEN "A" ELSE IF Valid("B") THEN "B" ELSE None

\* The slot a recovery start uses, None when it must fail closed.
SelectRecovery ==
  IF PointerReadable
  THEN IF PointerCurrent THEN ptr.slot
       ELSE IF Valid(Other(ptr.slot)) /\ GenerationOf(Other(ptr.slot)) < ptr.generation
            THEN Other(ptr.slot)
            ELSE None
  ELSE IF Valid("A") /\ Valid("B")
       THEN IF GenerationOf("A") > GenerationOf("B") THEN "A"
            ELSE IF GenerationOf("B") > GenerationOf("A") THEN "B" ELSE None
       ELSE IF Valid("A") THEN "A" ELSE IF Valid("B") THEN "B" ELSE None

\* The repair_required flag of select_recovery's status.
RepairRequired ==
  IF PointerReadable THEN ~PointerCurrent ELSE \E s \in Slots : Valid(s)

RecoveredConfig == IF SelectRecovery = None THEN None ELSE cfg[SelectRecovery]

-----------------------------------------------------------------------------
(* promote(config, revision) *)

\* A promotion that rewrites the current slot in place.
TargetInPlace == IF PointerReadable THEN ptr.slot ELSE "A"

PromotionTarget == IF PointerReadable /\ ptr.slot = "A" THEN "B" ELSE "A"

NextGeneration ==
  1 + (IF GenerationOf("A") >= GenerationOf("B") THEN GenerationOf("A") ELSE GenerationOf("B"))

\* Nothing is written when the slot the pointer names is valid and already
\* holds this typed revision.
PromotionNeeded(c) ==
  ~ /\ PointerReadable
    /\ Valid(ptr.slot)
    /\ TypedRevision[cfg[ptr.slot]] = TypedRevision[c]

BeginPromote(c) ==
  /\ step = "idle"
  /\ PromotionNeeded(c)
  /\ NextGeneration <= MaxGeneration
  /\ job' = [config |-> c, generation |-> NextGeneration, target |-> PromotionTarget]
  /\ step' = "config"
  /\ UNCHANGED <<cfg, man, ptr, version, token, sealed, disturbances>>

WriteConfig ==
  /\ step = "config"
  /\ cfg' = [cfg EXCEPT ![job.target] = job.config]
  /\ step' = "manifest"
  /\ UNCHANGED <<man, ptr, version, job, token, sealed, disturbances>>

JobManifest == [version |-> version, generation |-> job.generation,
                hash |-> job.config, revision |-> TypedRevision[job.config]]

WriteManifest ==
  /\ step = "manifest"
  /\ man' = [man EXCEPT ![job.target] = JobManifest]
  /\ sealed' = sealed \cup {<<job.config, job.generation>>}
  /\ step' = "pointer"
  /\ UNCHANGED <<cfg, ptr, version, job, token, disturbances>>

JobPointer == [slot |-> job.target, generation |-> job.generation,
               revision |-> TypedRevision[job.config], private |-> TRUE]

\* No reread before the switch.
NotVerified == TRUE

\* The reread of the target slot before the pointer is switched.
TargetVerified ==
  /\ Valid(job.target)
  /\ GenerationOf(job.target) = job.generation
  /\ TypedRevision[cfg[job.target]] = TypedRevision[job.config]

WritePointer ==
  /\ step = "pointer"
  /\ TargetVerified
  /\ ptr' = JobPointer
  /\ step' = "check"
  /\ UNCHANGED <<cfg, man, version, job, token, sealed, disturbances>>

\* promote() returns or raises and releases the lock: after the pointer's
\* reread, because the target slot failed its verification, or because
\* a write raised before it replaced its file.
EndPromote ==
  /\ step' = "idle"
  /\ job' = NoJob
  /\ UNCHANGED <<cfg, man, ptr, version, token, sealed, disturbances>>

FinishPromote == step = "check" /\ EndPromote
VerificationFails == step = "pointer" /\ ~TargetVerified /\ EndPromote
WriteFails == step \in {"config", "manifest", "pointer"} /\ EndPromote

\* atomic_write replaces the file and then fails (chmod or directory fsync).
ConfigReplacedThenFails ==
  /\ step = "config"
  /\ cfg' = [cfg EXCEPT ![job.target] = job.config]
  /\ step' = "idle" /\ job' = NoJob
  /\ UNCHANGED <<man, ptr, version, token, sealed, disturbances>>

ManifestReplacedThenFails ==
  /\ step = "manifest"
  /\ man' = [man EXCEPT ![job.target] = JobManifest]
  /\ sealed' = sealed \cup {<<job.config, job.generation>>}
  /\ step' = "idle" /\ job' = NoJob
  /\ UNCHANGED <<cfg, ptr, version, token, disturbances>>

Promote ==
  \/ \E c \in Configs : BeginPromote(c)
  \/ WriteConfig
  \/ WriteManifest
  \/ WritePointer
  \/ FinishPromote
  \/ VerificationFails
  \/ WriteFails
  \/ ConfigReplacedThenFails
  \/ ManifestReplacedThenFails

-----------------------------------------------------------------------------
(* repair_pointer: preview binds the store revision, commit checks it *)

NoToken == [cfg |-> None, man |-> None, ptr |-> None, target |-> None]

\* The bytes of the pointer file p, written with the right mode and owner.
Restored(p) == IF p \in Pointers THEN [p EXCEPT !.private = TRUE] ELSE p

RepairPreview ==
  /\ step = "idle"
  /\ RepairRequired /\ SelectRecovery # None
  /\ token' = [cfg |-> cfg, man |-> man, ptr |-> Restored(ptr), target |-> SelectRecovery]
  /\ UNCHANGED <<cfg, man, ptr, version, step, job, sealed, disturbances>>

\* store_revision() is that of the preview.  It covers bytes only, so a file
\* that has lost its mode or owner since may still count as the same.
SameStoreRevision ==
  /\ \A s \in Slots : cfg[s] \in {token.cfg[s], Damaged} /\ man[s] \in {token.man[s], Damaged}
  /\ Restored(ptr) = token.ptr

\* A repair that does not compare the store revision of its preview.
EligibleWithoutCas == SelectRecovery = token.target /\ RepairRequired

RepairEligible ==
  /\ SameStoreRevision
  /\ SelectRecovery = token.target
  /\ RepairRequired

RepairedPointer ==
  [slot |-> token.target, generation |-> man[token.target].generation,
   revision |-> TypedRevision[cfg[token.target]], private |-> TRUE]

\* The commit of a preview; whatever it leads to, its token is consumed.
EndRepair ==
  /\ step = "idle"
  /\ token.target # None
  /\ token' = NoToken
  /\ UNCHANGED <<cfg, man, version, step, job, sealed, disturbances>>

RepairCommit == EndRepair /\ RepairEligible /\ ptr' = RepairedPointer

\* Expired, cooling down, another session, or no longer what was previewed.
RepairRefused == EndRepair /\ UNCHANGED ptr

\* What a repair that raises leaves of the pointer: the old file as it was,
\* the old bytes written again (now with mode 0600), no file when the old
\* bytes could not be read, the new pointer when the restore fails as well.
FailedRepairPointers ==
  {ptr, Restored(ptr), RepairedPointer} \cup (IF PointerReadable THEN {} ELSE {Missing})

\* The write or the verification after it fails.
RepairFails == EndRepair /\ RepairEligible /\ ptr' \in FailedRepairPointers

-----------------------------------------------------------------------------
(* The environment *)

\* The process dies and starts again with the same program.
Crash ==
  /\ step' = "idle" /\ job' = NoJob /\ token' = NoToken
  /\ UNCHANGED <<cfg, man, ptr, version, sealed, disturbances>>

\* An update or a rollback: the process starts again as another version.
ChangeVersion ==
  /\ disturbances < MaxDisturbances
  /\ version' \in Versions \ {version}
  /\ step' = "idle" /\ job' = NoJob /\ token' = NoToken
  /\ disturbances' = disturbances + 1
  /\ UNCHANGED <<cfg, man, ptr, sealed>>

\* A file is deleted, damaged or (a configuration) edited, or the pointer gets
\* another mode or owner.  A deleted slot file is read like a damaged one.
Damage ==
  /\ disturbances < MaxDisturbances
  /\ disturbances' = disturbances + 1
  /\ \/ \E s \in Slots, x \in Configs \cup {Damaged} :
          cfg' = [cfg EXCEPT ![s] = x] /\ UNCHANGED <<man, ptr>>
     \/ \E s \in Slots : man' = [man EXCEPT ![s] = Damaged] /\ UNCHANGED <<cfg, ptr>>
     \/ \E x \in {Missing, Damaged} : ptr' = x /\ UNCHANGED <<cfg, man>>
     \/ PointerReadable /\ ptr' = [ptr EXCEPT !.private = FALSE] /\ UNCHANGED <<cfg, man>>
  /\ UNCHANGED <<version, step, job, token, sealed>>

-----------------------------------------------------------------------------
Init ==
  /\ cfg = [s \in Slots |-> Missing]
  /\ man = [s \in Slots |-> Missing]
  /\ ptr = Missing
  /\ version \in Versions
  /\ step = "idle" /\ job = NoJob /\ token = NoToken
  /\ sealed = {}
  /\ disturbances = 0

Next ==
  \/ Promote
  \/ RepairPreview \/ RepairCommit \/ RepairRefused \/ RepairFails
  \/ Crash \/ ChangeVersion \/ Damage

Spec == Init /\ [][Next]_vars

-----------------------------------------------------------------------------
(* Properties *)

\* Every variable keeps its type.
TypeOK ==
  /\ cfg \in [Slots -> Configs \cup {Missing, Damaged}]
  /\ man \in [Slots -> Manifests \cup {Missing, Damaged}]
  /\ ptr \in Pointers \cup {Missing, Damaged}
  /\ version \in Versions
  /\ step \in Steps
  /\ IF step = "idle" THEN job = NoJob ELSE job \in Jobs
  /\ token.target \in Slots \cup {None}
  /\ sealed \subseteq Configs \X Generations
  /\ disturbances \in 0 .. MaxDisturbances

\* What a recovery start uses was written by one promotion that got as far as
\* its manifest: never the configuration of one promotion under the manifest
\* of another, whatever crashed, failed, was edited or was rolled back before
\* (validate_slot's hash check against promote's write order).
RecoveryIsWholePromotion ==
  SelectRecovery # None =>
    <<cfg[SelectRecovery], GenerationOf(SelectRecovery)>> \in sealed

\* Losing the pointer never leaves the recovery undecided between two valid
\* slots (select_recovery, "ambiguous").  Two disturbances can: a slot whose
\* configuration is gone no longer counts for the next generation, and its
\* manifest comes back to life when the same configuration is rewritten.
NeverAmbiguous ==
  disturbances <= 1 /\ ~PointerReadable /\ Valid("A") /\ Valid("B") =>
    GenerationOf("A") # GenerationOf("B")

\* Whatever was interrupted, a recovery start has at most one choice, and it
\* is a configuration that was promoted as a whole.
RecoveryIsDecided == TypeOK /\ RecoveryIsWholePromotion /\ NeverAmbiguous

\* With a current pointer and an older valid slot beside it, no single
\* damaged file leaves ZEC without a recovery configuration, and the
\* recovery falls back to one of these two (select_recovery's fallbacks).
OneDamagedFileSurvives ==
  [][ /\ PointerCurrent
      /\ Valid(Other(ptr.slot))
      /\ GenerationOf(Other(ptr.slot)) < ptr.generation
      /\ disturbances' # disturbances /\ version' = version
      => RecoveredConfig' \in {cfg["A"], cfg["B"]} ]_vars

\* While the pointer's slot is valid, a promotion in flight, its failures, a
\* crash at any point and every pointer repair leave the recovery choice
\* alone; only the pointer switch changes it, and then to the configuration
\* being promoted (promote, repair_pointer).
AnchorHolds ==
  [][ PointerCurrent /\ disturbances' = disturbances =>
        /\ PointerCurrent'
        /\ RecoveredConfig' \in {RecoveredConfig, job.config} ]_vars

\* A pointer that was out of force by its mode or owner only is in force again.
BackInForce == ptr \in Pointers /\ ~PointerReadable /\ ptr' = Restored(ptr)

\* However a repair ends (done, refused, or failed with its old pointer put
\* back, removed or lost), it writes no slot and the next recovery start
\* chooses as before; only putting back a pointer whose mode or owner was
\* wrong can change the choice.  A pointer it writes anew names the files the
\* administrator saw in the preview and is current (repair_pointer).
RepairKeepsChoice ==
  [][ step = "idle" /\ token.target # None /\ token' = NoToken /\ disturbances' = disturbances =>
        /\ UNCHANGED <<cfg, man>>
        /\ BackInForce \/ (SelectRecovery' = SelectRecovery /\ RecoveredConfig' = RecoveredConfig)
        /\ ptr' \in Pointers /\ ptr' # ptr /\ ~BackInForce =>
             /\ PointerCurrent'
             /\ RecoveredConfig' = token.cfg[token.target]
             /\ man'[ptr'.slot] = token.man[token.target] ]_vars

\* The store implements the register LastGoodRegister describes: what a
\* recovery start would use moves from one promoted configuration to the
\* next in one step, although promote() writes three files.
Register == INSTANCE LastGoodRegister WITH
  value <- RecoveredConfig,
  anchored <- PointerCurrent,
  offered <- job.config

ImplementsRegister == Register!RegisterSpec
=============================================================================
