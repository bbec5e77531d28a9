------------------------- MODULE LastGoodStoreProofs -------------------------
(***************************************************************************)
(* Proofs about LastGoodStore, for every set of configurations, revisions  *)
(* and versions and all bounds: type correctness, the anchor property, and *)
(* the refinement of LastGoodRegister.                                     *)
(***************************************************************************)
EXTENDS LastGoodStore, TLAPS

-----------------------------------------------------------------------------
(* Lemmas about the reading side *)

\* The recovery selection names a slot or fails closed.
LEMMA SelectType ==
  ASSUME ptr \in Pointers \cup {Missing, Damaged}
  PROVE  SelectRecovery \in Slots \cup {None}
<1>1. PointerReadable => ptr.slot \in Slots
  BY DEF PointerReadable, Pointers
<1>2. \A s \in Slots : Other(s) \in Slots
  BY DEF Slots, Other
<1> HIDE DEF Slots
<1>3. "A" \in Slots /\ "B" \in Slots
  BY DEF Slots
<1> QED
  BY <1>1, <1>2, <1>3 DEF SelectRecovery

\* A slot's generation is a number, and positive when both files are readable.
LEMMA GenerationType ==
  ASSUME NEW s \in Slots
  PROVE  GenerationOf(s) \in Nat
BY DEF GenerationOf, Readable, Manifests, Generations

LEMMA NextGenerationType == NextGeneration \in Generations
<1>1. GenerationOf("A") \in Nat /\ GenerationOf("B") \in Nat
  BY GenerationType DEF Slots
<1> QED
  BY <1>1 DEF NextGeneration, Generations

LEMMA TargetType ==
  ASSUME ptr \in Pointers \cup {Missing, Damaged}
  PROVE  PromotionTarget \in Slots
BY DEF PromotionTarget, Slots

\* The slot that recovery selects has a readable configuration.
LEMMA RecoveredType ==
  ASSUME ptr \in Pointers \cup {Missing, Damaged}
  PROVE  RecoveredConfig \in Configs \cup {None}
<1>1. SelectRecovery # None => Valid(SelectRecovery)
  BY DEF SelectRecovery, PointerCurrent
<1> QED
  BY <1>1 DEF RecoveredConfig, Valid, Readable

-----------------------------------------------------------------------------
(* Type correctness *)

LEMMA InitType == Init => TypeOK
BY StoreAssumption DEF Init, TypeOK, NoJob, NoToken, Slots, Steps

LEMMA JobType ==
  ASSUME TypeOK, step # "idle"
  PROVE  /\ job \in Jobs
         /\ job.target \in Slots
         /\ JobManifest \in Manifests
         /\ JobPointer \in Pointers
<1>1. job \in Jobs
  BY DEF TypeOK
<1>2. job.config \in Configs /\ job.generation \in Generations /\ job.target \in Slots
  BY <1>1 DEF Jobs
<1>3. TypedRevision[job.config] \in Revisions /\ version \in Versions
  BY <1>2, StoreAssumption DEF TypeOK
<1> QED
  BY <1>1, <1>2, <1>3 DEF JobManifest, JobPointer, Manifests, Pointers

\* The pointers a repair can leave behind.
LEMMA RepairType ==
  ASSUME TypeOK, RepairCommit \/ RepairFails
  PROVE  /\ token.target \in Slots /\ Valid(token.target)
         /\ SelectRecovery = token.target
         /\ RepairedPointer \in Pointers /\ RepairedPointer.private
         /\ ptr' \in Pointers \cup {Missing, Damaged}
         /\ ptr' \in {ptr, Restored(ptr), RepairedPointer} \/ (~PointerReadable /\ ptr' = Missing)
         /\ UNCHANGED <<cfg, man, version, step, job, sealed, disturbances>>
<1>1. SelectRecovery # None => Valid(SelectRecovery)
  BY DEF SelectRecovery, PointerCurrent
<1>2. /\ token.target \in Slots /\ Valid(token.target) /\ SelectRecovery = token.target
  BY <1>1 DEF RepairCommit, RepairFails, EndRepair, RepairEligible, TypeOK
<1>3. RepairedPointer \in Pointers /\ RepairedPointer.private
  BY <1>2, StoreAssumption DEF RepairedPointer, Valid, Readable, Pointers, Manifests
<1>4. Restored(ptr) \in Pointers \cup {Missing, Damaged}
  BY DEF Restored, Pointers, TypeOK
<1>5. ptr' \in {ptr, Restored(ptr), RepairedPointer} \/ (~PointerReadable /\ ptr' = Missing)
  BY DEF RepairCommit, RepairFails, FailedRepairPointers
<1>6. UNCHANGED <<cfg, man, version, step, job, sealed, disturbances>>
  BY DEF RepairCommit, RepairFails, EndRepair
<1> QED
  BY <1>2, <1>3, <1>4, <1>5, <1>6 DEF TypeOK

LEMMA NextType == TypeOK /\ [Next]_vars => TypeOK'
<1> SUFFICES ASSUME TypeOK, [Next]_vars PROVE TypeOK'
  OBVIOUS
<1>1. ASSUME NEW c \in Configs, BeginPromote(c) PROVE TypeOK'
  <2>1. job' \in Jobs
    BY <1>1, NextGenerationType, TargetType DEF BeginPromote, Jobs, TypeOK
  <2> QED
    BY <1>1, <2>1 DEF BeginPromote, TypeOK, Steps
<1>2. CASE WriteConfig
  <2>1. job.target \in Slots /\ job.config \in Configs
    BY <1>2, JobType DEF WriteConfig, Jobs
  <2> QED
    BY <1>2, <2>1 DEF WriteConfig, TypeOK, Steps
<1>3. CASE WriteManifest
  <2>1. job.target \in Slots /\ job \in Jobs /\ JobManifest \in Manifests
    BY <1>3, JobType DEF WriteManifest
  <2>2. sealed' \subseteq Configs \X Generations
    BY <1>3, <2>1 DEF WriteManifest, TypeOK, Jobs
  <2> QED
    BY <1>3, <2>1, <2>2 DEF WriteManifest, TypeOK, Steps
<1>4. CASE WritePointer
  <2>1. JobPointer \in Pointers
    BY <1>4, JobType DEF WritePointer
  <2> QED
    BY <1>4, <2>1 DEF WritePointer, TypeOK, Steps
<1>5. CASE FinishPromote \/ VerificationFails \/ WriteFails
  BY <1>5 DEF FinishPromote, VerificationFails, WriteFails, EndPromote, TypeOK, Steps
<1>6. CASE ConfigReplacedThenFails
  <2>1. job.target \in Slots /\ job.config \in Configs
    BY <1>6, JobType DEF ConfigReplacedThenFails, Jobs
  <2> QED
    BY <1>6, <2>1 DEF ConfigReplacedThenFails, TypeOK, Steps
<1>7. CASE ManifestReplacedThenFails
  <2>1. job.target \in Slots /\ job \in Jobs /\ JobManifest \in Manifests
    BY <1>7, JobType DEF ManifestReplacedThenFails
  <2>2. sealed' \subseteq Configs \X Generations
    BY <1>7, <2>1 DEF ManifestReplacedThenFails, TypeOK, Jobs
  <2> QED
    BY <1>7, <2>1, <2>2 DEF ManifestReplacedThenFails, TypeOK, Steps
<1>8. CASE RepairPreview
  <2>1. token'.target \in Slots \cup {None}
    BY <1>8, SelectType DEF RepairPreview, TypeOK
  <2> QED
    BY <1>8, <2>1 DEF RepairPreview, TypeOK
<1>9. CASE RepairCommit \/ RepairFails
  <2>1. ptr' \in Pointers \cup {Missing, Damaged}
    BY <1>9, RepairType
  <2> QED
    BY <1>9, <2>1 DEF RepairCommit, RepairFails, EndRepair, TypeOK, NoToken
<1>10. CASE RepairRefused
  BY <1>10 DEF RepairRefused, EndRepair, TypeOK, NoToken
<1>11. CASE Crash
  BY <1>11 DEF Crash, TypeOK, NoToken, Steps
<1>12. CASE ChangeVersion
  BY <1>12, StoreAssumption DEF ChangeVersion, TypeOK, NoToken, Steps
<1>13. CASE Damage
  <2>1. ptr' \in Pointers \cup {Missing, Damaged}
    BY <1>13 DEF Damage, TypeOK, PointerReadable, Pointers
  <2>2. /\ cfg' \in [Slots -> Configs \cup {Missing, Damaged}]
        /\ man' \in [Slots -> Manifests \cup {Missing, Damaged}]
    BY <1>13 DEF Damage, TypeOK
  <2> QED
    BY <1>13, <2>1, <2>2, StoreAssumption DEF Damage, TypeOK
<1>14. CASE UNCHANGED vars
  BY <1>14 DEF vars, TypeOK
<1> QED
  BY <1>1, <1>2, <1>3, <1>4, <1>5, <1>6, <1>7, <1>8, <1>9, <1>10, <1>11, <1>12, <1>13, <1>14
  DEF Next, Promote

\* Every reachable state is well typed (TypeOK is a property of the run
\* last_good_store; here for all constants).
THEOREM TypeCorrect == Spec => []TypeOK
BY InitType, NextType, PTL DEF Spec

-----------------------------------------------------------------------------
(* The anchor *)

\* A promotion in flight never writes into the slot a readable pointer names.
TargetAvoidsPointer ==
  step \in {"config", "manifest", "pointer"} /\ PointerReadable => ptr.slot # job.target

\* From the manifest write to the pointer switch the target's manifest is the
\* one this promotion wrote, unless it was damaged since.
TargetSealed ==
  step = "pointer" => man[job.target] \in {JobManifest, Missing, Damaged}

\* The inductive invariant behind the anchor.
AnchorInv == TypeOK /\ TargetAvoidsPointer /\ TargetSealed

\* A current pointer decides the recovery.
LEMMA CurrentDecides ==
  ASSUME PointerCurrent, ptr \in Pointers \cup {Missing, Damaged}
  PROVE  /\ ptr.slot \in Slots
         /\ SelectRecovery = ptr.slot
         /\ RecoveredConfig = cfg[ptr.slot]
<1>1. PointerReadable /\ ptr.slot \in Slots
  BY DEF PointerCurrent, PointerReadable, Pointers
<1>2. SelectRecovery = ptr.slot
  BY <1>1 DEF SelectRecovery
<1> QED
  BY <1>1, <1>2, StoreAssumption DEF RecoveredConfig

\* Nothing that leaves the pointer, its slot and the version alone can move
\* the anchor.
LEMMA AnchorStays ==
  ASSUME TypeOK, TypeOK', PointerCurrent, ptr' = ptr, version' = version,
         cfg'[ptr.slot] = cfg[ptr.slot], man'[ptr.slot] = man[ptr.slot]
  PROVE  PointerCurrent' /\ RecoveredConfig' = RecoveredConfig
<1>1. PointerCurrent'
  BY DEF PointerCurrent, PointerReadable, Valid, Readable
<1>2. RecoveredConfig = cfg[ptr.slot]
  BY CurrentDecides DEF TypeOK
<1>3. ptr' \in Pointers \cup {Missing, Damaged}
  BY DEF TypeOK
<1>4. RecoveredConfig' = cfg'[ptr'.slot]
  <2>1. (PointerReadable /\ ptr.slot \in Slots)'
    BY <1>1, <1>3 DEF PointerCurrent, PointerReadable, Pointers
  <2>2. SelectRecovery' = ptr'.slot
    BY <1>1, <2>1 DEF SelectRecovery
  <2> QED
    BY <2>1, <2>2, StoreAssumption DEF RecoveredConfig
<1> QED
  BY <1>1, <1>2, <1>4

\* Nothing that leaves the files and the version alone can move the choice.
LEMMA ChoiceStays ==
  ASSUME UNCHANGED <<cfg, man, ptr, version>>
  PROVE  /\ PointerCurrent' = PointerCurrent
         /\ RecoveredConfig' = RecoveredConfig
<1>1. \A s : Valid(s)' = Valid(s) /\ GenerationOf(s)' = GenerationOf(s)
  BY DEF Valid, Readable, GenerationOf
<1>2. PointerReadable' = PointerReadable /\ PointerCurrent' = PointerCurrent
  BY DEF PointerReadable, PointerCurrent, Valid, Readable
<1>3. SelectRecovery' = SelectRecovery
  BY <1>1, <1>2 DEF SelectRecovery
<1> QED
  BY <1>2, <1>3 DEF RecoveredConfig

\* The same for the slot that is chosen.
LEMMA FilesDecide ==
  ASSUME UNCHANGED <<cfg, man, ptr, version>>
  PROVE  SelectRecovery' = SelectRecovery /\ RecoveredConfig' = RecoveredConfig
<1>1. \A s : Valid(s)' = Valid(s) /\ GenerationOf(s)' = GenerationOf(s)
  BY DEF Valid, Readable, GenerationOf
<1>2. PointerReadable' = PointerReadable /\ PointerCurrent' = PointerCurrent
  BY DEF PointerReadable, PointerCurrent, Valid, Readable
<1>3. SelectRecovery' = SelectRecovery
  BY <1>1, <1>2 DEF SelectRecovery
<1> QED
  BY <1>3 DEF RecoveredConfig

LEMMA InitAnchor == Init => AnchorInv
BY InitType DEF Init, AnchorInv, TargetAvoidsPointer, TargetSealed

LEMMA TargetIsOther ==
  ASSUME PointerReadable
  PROVE  ptr.slot # PromotionTarget
BY DEF PromotionTarget, PointerReadable, Pointers, Slots

LEMMA NextAnchor == AnchorInv /\ [Next]_vars => AnchorInv'
<1> SUFFICES ASSUME AnchorInv, [Next]_vars PROVE AnchorInv'
  OBVIOUS
<1>0. TypeOK /\ TypeOK'
  BY NextType DEF AnchorInv
<1> SUFFICES TargetAvoidsPointer' /\ TargetSealed'
  BY <1>0 DEF AnchorInv
<1>1. ASSUME NEW c \in Configs, BeginPromote(c) PROVE TargetAvoidsPointer' /\ TargetSealed'
  <2>1. PointerReadable => ptr.slot # PromotionTarget
    BY TargetIsOther
  <2> QED
    BY <1>1, <2>1 DEF BeginPromote, TargetAvoidsPointer, TargetSealed, PointerReadable
<1>2. CASE WriteConfig
  BY <1>2 DEF WriteConfig, AnchorInv, TargetAvoidsPointer, TargetSealed, PointerReadable
<1>3. CASE WriteManifest
  <2>1. job.target \in Slots
    BY <1>0, <1>3, JobType DEF WriteManifest
  <2>2. man'[job.target] = JobManifest /\ JobManifest' = JobManifest
    BY <1>0, <1>3, <2>1 DEF WriteManifest, TypeOK, JobManifest
  <2> QED
    BY <1>3, <2>2 DEF WriteManifest, AnchorInv, TargetAvoidsPointer, TargetSealed, PointerReadable
<1>4. CASE WritePointer
  BY <1>4 DEF WritePointer, TargetAvoidsPointer, TargetSealed
<1>5. CASE \/ FinishPromote \/ VerificationFails \/ WriteFails
           \/ ConfigReplacedThenFails \/ ManifestReplacedThenFails
           \/ Crash \/ ChangeVersion
  BY <1>5 DEF FinishPromote, VerificationFails, WriteFails, EndPromote,
    ConfigReplacedThenFails, ManifestReplacedThenFails, Crash, ChangeVersion,
    TargetAvoidsPointer, TargetSealed
<1>6. CASE RepairPreview \/ RepairCommit \/ RepairRefused \/ RepairFails
  BY <1>6 DEF RepairPreview, RepairCommit, RepairRefused, RepairFails, EndRepair,
    TargetAvoidsPointer, TargetSealed
<1>7. CASE Damage
  <2>1. /\ ptr' = ptr \/ ~PointerReadable'
        /\ UNCHANGED <<version, step, job>>
    BY <1>7, StoreAssumption DEF Damage, PointerReadable, Pointers
  <2>2. TargetAvoidsPointer'
    BY <2>1 DEF AnchorInv, TargetAvoidsPointer, PointerReadable
  <2>3. \A s \in Slots : man'[s] \in {man[s], Missing, Damaged}
    BY <1>0, <1>7 DEF Damage, TypeOK
  <2>4. step # "idle" => job.target \in Slots
    BY <1>0, JobType
  <2>5. JobManifest' = JobManifest
    BY <2>1 DEF JobManifest
  <2>6. TargetSealed'
    BY <2>1, <2>3, <2>4, <2>5 DEF AnchorInv, TargetSealed
  <2> QED
    BY <2>2, <2>6
<1>8. CASE UNCHANGED vars
  BY <1>8 DEF vars, AnchorInv, TargetAvoidsPointer, TargetSealed, PointerReadable, JobManifest
<1> QED
  BY <1>1, <1>2, <1>3, <1>4, <1>5, <1>6, <1>7, <1>8 DEF Next, Promote

THEOREM AnchorInvariant == Spec => []AnchorInv
BY InitAnchor, NextAnchor, PTL DEF Spec

\* The pointer switch installs the promoted configuration as the new anchor.
LEMMA SwitchInstalls ==
  ASSUME AnchorInv, TypeOK', WritePointer
  PROVE  PointerCurrent' /\ RecoveredConfig' = job.config
<1>1. step = "pointer" /\ TargetVerified /\ ptr' = JobPointer
      /\ UNCHANGED <<cfg, man, version, job>>
  BY DEF WritePointer
<1>2. job.target \in Slots /\ JobPointer \in Pointers
  BY <1>1, JobType DEF AnchorInv
<1>3. Readable(job.target) /\ man[job.target].hash = cfg[job.target]
  BY <1>1 DEF TargetVerified, Valid
<1>4. man[job.target] = JobManifest
  BY <1>1, <1>3, StoreAssumption DEF AnchorInv, TargetSealed, Readable
<1>5. cfg[job.target] = job.config /\ man[job.target].generation = job.generation
  BY <1>3, <1>4 DEF JobManifest
<1>6. ptr'.slot = job.target /\ ptr'.generation = job.generation
      /\ ptr'.revision = TypedRevision[job.config] /\ ptr'.private
  BY <1>1 DEF JobPointer
<1>7. Valid(job.target)'
  BY <1>1 DEF TargetVerified, Valid, Readable
<1>8. PointerCurrent'
  BY <1>1, <1>2, <1>5, <1>6, <1>7 DEF PointerCurrent, PointerReadable
<1>9. SelectRecovery' = ptr'.slot
  BY <1>8 DEF SelectRecovery, PointerCurrent
<1>10. SelectRecovery' # None
  BY <1>9, <1>6, <1>2, StoreAssumption
<1> QED
  BY <1>1, <1>5, <1>6, <1>8, <1>9, <1>10 DEF RecoveredConfig

\* Every step but the pointer switch keeps a current pointer and the choice.
LEMMA OtherStepsKeepAnchor ==
  ASSUME AnchorInv, TypeOK', [Next]_vars, ~WritePointer,
         PointerCurrent, disturbances' = disturbances
  PROVE  PointerCurrent' /\ RecoveredConfig' = RecoveredConfig
<1>0. TypeOK /\ PointerReadable /\ ~RepairRequired
  BY DEF AnchorInv, PointerCurrent, RepairRequired
<1>1. ASSUME UNCHANGED <<cfg, man, ptr, version>>
      PROVE  PointerCurrent' /\ RecoveredConfig' = RecoveredConfig
  BY <1>1, ChoiceStays
<1>2. CASE WriteConfig \/ ConfigReplacedThenFails
  <2>1. /\ ptr.slot # job.target /\ UNCHANGED <<man, ptr, version>>
        /\ cfg' = [cfg EXCEPT ![job.target] = job.config]
    BY <1>0, <1>2 DEF WriteConfig, ConfigReplacedThenFails, AnchorInv, TargetAvoidsPointer
  <2>2. cfg'[ptr.slot] = cfg[ptr.slot]
    BY <1>0, <2>1 DEF TypeOK
  <2> QED
    BY <1>0, <2>1, <2>2, AnchorStays
<1>3. CASE WriteManifest \/ ManifestReplacedThenFails
  <2>1. /\ ptr.slot # job.target /\ UNCHANGED <<cfg, ptr, version>>
        /\ man' = [man EXCEPT ![job.target] = JobManifest]
    BY <1>0, <1>3 DEF WriteManifest, ManifestReplacedThenFails, AnchorInv, TargetAvoidsPointer
  <2>2. man'[ptr.slot] = man[ptr.slot]
    BY <1>0, <2>1 DEF TypeOK
  <2> QED
    BY <1>0, <2>1, <2>2, AnchorStays
<1>4. ASSUME NEW c \in Configs, BeginPromote(c)
      PROVE  PointerCurrent' /\ RecoveredConfig' = RecoveredConfig
  BY <1>1, <1>4 DEF BeginPromote
<1>5. CASE FinishPromote \/ VerificationFails \/ WriteFails
  BY <1>1, <1>5 DEF FinishPromote, VerificationFails, WriteFails, EndPromote
<1>6. CASE RepairPreview \/ RepairRefused \/ Crash
  BY <1>1, <1>6 DEF RepairPreview, RepairRefused, EndRepair, Crash
<1>7. ~RepairCommit /\ ~RepairFails
  BY <1>0 DEF RepairCommit, RepairFails, RepairEligible
<1>8. ~ChangeVersion /\ ~Damage
  BY <1>0 DEF ChangeVersion, Damage, TypeOK
<1>9. CASE UNCHANGED vars
  BY <1>1, <1>9 DEF vars
<1> QED
  BY <1>2, <1>3, <1>4, <1>5, <1>6, <1>7, <1>8, <1>9 DEF Next, Promote

\* While the pointer's slot is valid, no step of the store, no crash and no
\* failed write changes what a recovery start would use, except the pointer
\* switch, which installs the promoted configuration.
THEOREM AnchorTheorem == Spec => AnchorHolds
<1>1. AnchorInv /\ AnchorInv' /\ [Next]_vars =>
        [ PointerCurrent /\ disturbances' = disturbances =>
            /\ PointerCurrent'
            /\ RecoveredConfig' \in {RecoveredConfig, job.config} ]_vars
  <2> SUFFICES ASSUME AnchorInv, AnchorInv', [Next]_vars,
                      PointerCurrent, disturbances' = disturbances
               PROVE  /\ PointerCurrent'
                      /\ RecoveredConfig' \in {RecoveredConfig, job.config}
    OBVIOUS
  <2>1. TypeOK'
    BY DEF AnchorInv
  <2>2. CASE WritePointer
    BY <2>1, <2>2, SwitchInstalls
  <2>3. CASE ~WritePointer
    BY <2>1, <2>3, OtherStepsKeepAnchor
  <2> QED
    BY <2>2, <2>3
<1> QED
  BY <1>1, AnchorInvariant, PTL DEF Spec, AnchorHolds

-----------------------------------------------------------------------------
(* The store implements the register *)

LEMMA CurrentHasValue ==
  ASSUME PointerCurrent, ptr \in Pointers \cup {Missing, Damaged}
  PROVE  RecoveredConfig # None
<1>1. RecoveredConfig = cfg[ptr.slot]
  BY CurrentDecides
<1>2. cfg[ptr.slot] \in Configs
  BY DEF PointerCurrent, Valid, Readable
<1> QED
  BY <1>1, <1>2, StoreAssumption

LEMMA UnanchoredDrifts ==
  ASSUME TypeOK', ~PointerCurrent, disturbances' = disturbances,
         job'.config \in {job.config, None}
  PROVE  Register!Drift
<1>1. RecoveredConfig' \in Configs \cup {None}
  <2>1. (ptr \in Pointers \cup {Missing, Damaged})'
    BY DEF TypeOK
  <2>2. SelectRecovery' # None => Valid(SelectRecovery)'
    BY DEF SelectRecovery, PointerCurrent, Valid, Readable, GenerationOf, PointerReadable
  <2> QED
    BY <2>2 DEF RecoveredConfig, Valid, Readable
<1>2. PointerCurrent' => RecoveredConfig' # None
  <2> SUFFICES ASSUME PointerCurrent' PROVE RecoveredConfig' # None
    OBVIOUS
  <2>1. ptr' \in Pointers \cup {Missing, Damaged}
    BY DEF TypeOK
  <2>2. (PointerReadable /\ ptr.slot \in Slots)'
    BY <2>1 DEF PointerCurrent, PointerReadable, Pointers
  <2>3. SelectRecovery' = ptr'.slot /\ cfg'[ptr'.slot] \in Configs
    BY <2>2 DEF SelectRecovery, PointerCurrent, Valid, Readable
  <2> QED
    BY <2>2, <2>3, StoreAssumption DEF RecoveredConfig
<1>3. PointerCurrent' \in BOOLEAN
  BY DEF PointerCurrent, PointerReadable, Valid, Readable
<1> QED
  BY <1>1, <1>2, <1>3 DEF Register!Drift

\* One store step is one register step or none.
LEMMA StepImplements ==
  AnchorInv /\ TypeOK' /\ [Next]_vars => [Register!RegisterNext]_(Register!registerVars)
<1> SUFFICES ASSUME AnchorInv, TypeOK', [Next]_vars
             PROVE  Register!RegisterNext \/ UNCHANGED Register!registerVars
  OBVIOUS
<1>0. TypeOK
  BY DEF AnchorInv
<1>1. ASSUME NEW c \in Configs, BeginPromote(c) PROVE Register!Offer(c)
  <2>1. job.config = None /\ job'.config = c
    BY <1>0, <1>1 DEF BeginPromote, TypeOK, NoJob
  <2>2. PointerCurrent' = PointerCurrent /\ RecoveredConfig' = RecoveredConfig
    BY <1>1, ChoiceStays DEF BeginPromote
  <2> QED
    BY <1>1, <2>1, <2>2 DEF BeginPromote, Register!Offer
<1>2. CASE WritePointer
  <2>1. PointerCurrent' /\ RecoveredConfig' = job.config
    BY <1>2, SwitchInstalls
  <2>2. job.config \in Configs
    BY <1>0, <1>2, JobType DEF WritePointer, Jobs
  <2>3. job' = job /\ disturbances' = disturbances
    BY <1>2 DEF WritePointer
  <2>4. PointerCurrent' = TRUE
    BY <2>1 DEF PointerCurrent, PointerReadable, Valid, Readable
  <2>5. Register!Install
    BY <2>1, <2>2, <2>3, <2>4 DEF Register!Install
  <2> QED
    BY <2>5 DEF Register!RegisterNext
<1>3. CASE \/ WriteConfig \/ WriteManifest \/ FinishPromote \/ VerificationFails
           \/ WriteFails \/ ConfigReplacedThenFails \/ ManifestReplacedThenFails
           \/ RepairPreview \/ RepairCommit \/ RepairRefused \/ RepairFails \/ Crash
  <2>1. disturbances' = disturbances /\ job' \in {job, NoJob} /\ ~WritePointer
    BY <1>3 DEF WriteConfig, WriteManifest, FinishPromote, VerificationFails, WriteFails,
      EndPromote, ConfigReplacedThenFails, ManifestReplacedThenFails, RepairPreview,
      RepairCommit, RepairRefused, RepairFails, EndRepair, Crash, WritePointer
  <2>2. job'.config \in {job.config, None}
    BY <2>1 DEF NoJob
  <2>3. CASE ~PointerCurrent
    BY <2>1, <2>2, <2>3, UnanchoredDrifts DEF Register!RegisterNext
  <2>4. CASE PointerCurrent
    <3>1. PointerCurrent' /\ RecoveredConfig' = RecoveredConfig
      BY <2>1, <2>4, OtherStepsKeepAnchor
    <3>2. PointerCurrent' = PointerCurrent
      BY <2>4, <3>1 DEF PointerCurrent, PointerReadable, Valid, Readable
    <3> QED
      BY <2>1, <2>2, <3>1, <3>2 DEF Register!Close, Register!RegisterNext, Register!registerVars
  <2> QED
    BY <2>3, <2>4
<1>4. CASE ChangeVersion \/ Damage
  <2>1. disturbances' = disturbances + 1 /\ job'.config \in {job.config, None}
    BY <1>4 DEF ChangeVersion, Damage, NoJob
  <2>2. RecoveredConfig' \in Configs \cup {None}
    <3>1. SelectRecovery' # None => Valid(SelectRecovery)'
      BY DEF SelectRecovery, PointerCurrent, Valid, Readable, GenerationOf, PointerReadable
    <3> QED
      BY <3>1 DEF RecoveredConfig, Valid, Readable
  <2>3. PointerCurrent' \in BOOLEAN
    BY DEF PointerCurrent, PointerReadable, Valid, Readable
  <2>4. Register!Disturb
    BY <2>1, <2>2, <2>3 DEF Register!Disturb
  <2> QED
    BY <2>4 DEF Register!RegisterNext
<1>5. CASE UNCHANGED vars
  <2>1. PointerCurrent' = PointerCurrent /\ RecoveredConfig' = RecoveredConfig
    BY <1>5, ChoiceStays DEF vars
  <2> QED
    BY <1>5, <2>1 DEF vars, Register!registerVars
<1> QED
  BY <1>1, <1>2, <1>3, <1>4, <1>5 DEF Next, Promote, Register!RegisterNext

LEMMA InitImplements == Init => Register!RegisterInit
<1> SUFFICES ASSUME Init PROVE Register!RegisterInit
  OBVIOUS
<1>1. ~PointerReadable /\ ~Valid("A") /\ ~Valid("B")
  BY StoreAssumption DEF Init, PointerReadable, Valid, Readable, Slots
<1>2. SelectRecovery = None /\ PointerCurrent = FALSE
  BY <1>1 DEF SelectRecovery, PointerCurrent
<1>3. RecoveredConfig = None
  BY <1>2 DEF RecoveredConfig
<1> QED
  BY <1>2, <1>3 DEF Init, NoJob, Register!RegisterInit

\* The three-file store behaves as the one-step register LastGoodRegister.
THEOREM StoreImplementsRegister == Spec => ImplementsRegister
<1>1. AnchorInv /\ AnchorInv' /\ [Next]_vars => [Register!RegisterNext]_(Register!registerVars)
  BY StepImplements DEF AnchorInv
<1> QED
  BY <1>1, InitImplements, AnchorInvariant, PTL
  DEF Spec, ImplementsRegister, Register!RegisterSpec

-----------------------------------------------------------------------------
(* What a recovery start uses, and that it is decided *)

\* Every manifest on the disk is one that a promotion wrote.
ManifestsSealed ==
  \A s \in Slots : man[s] \in Manifests => <<man[s].hash, man[s].generation>> \in sealed

\* A slot with a manifest has a configuration.
FullSlots == \A s \in Slots : man[s] \in Manifests => cfg[s] \in Configs

GenerationsDiffer ==
  man["A"] \in Manifests /\ man["B"] \in Manifests =>
    man["A"].generation # man["B"].generation

\* A promotion that has not yet written its manifest is newer than both slots.
JobAhead ==
  /\ step \in {"config", "manifest"} =>
       (\A s \in Slots : man[s] \in Manifests => man[s].generation < job.generation)
  /\ step = "manifest" => cfg[job.target] \in Configs

Apart == FullSlots /\ GenerationsDiffer /\ JobAhead

\* No pointer was ever written: every promotion so far went to slot A.
OnlyA == man["B"] \notin Manifests /\ (step # "idle" => job.target = "A")

\* Undisturbed, the slots' generations stay apart.  One disturbance may break
\* that (a slot whose configuration is gone no longer counts for the next
\* generation), but not together with the loss of a pointer that existed.
UndecidedNever ==
  /\ disturbances = 0 => Apart /\ (PointerReadable \/ OnlyA)
  /\ disturbances = 1 => PointerReadable \/ OnlyA \/ Apart

DecisionInv == AnchorInv /\ ManifestsSealed /\ UndecidedNever

LEMMA InitDecision == Init => DecisionInv
<1> SUFFICES ASSUME Init PROVE DecisionInv
  OBVIOUS
<1>1. \A s \in Slots : man[s] \notin Manifests
  BY StoreAssumption DEF Init
<1>2. step = "idle" /\ disturbances = 0
  BY DEF Init
<1> QED
  BY <1>1, <1>2, InitAnchor DEF DecisionInv, ManifestsSealed, UndecidedNever, Apart, FullSlots,
    GenerationsDiffer, JobAhead, OnlyA, Slots

LEMMA NextSealed == DecisionInv /\ [Next]_vars => ManifestsSealed'
<1> SUFFICES ASSUME DecisionInv, [Next]_vars PROVE ManifestsSealed'
  OBVIOUS
<1>0. TypeOK /\ ManifestsSealed
  BY DEF DecisionInv, AnchorInv
<1>1. CASE WriteManifest \/ ManifestReplacedThenFails
  <2>1. /\ man' = [man EXCEPT ![job.target] = JobManifest]
        /\ sealed' = sealed \cup {<<job.config, job.generation>>}
        /\ step = "manifest"
    BY <1>1 DEF WriteManifest, ManifestReplacedThenFails
  <2>2. JobManifest.hash = job.config /\ JobManifest.generation = job.generation
    BY DEF JobManifest
  <2> QED
    BY <1>0, <2>1, <2>2 DEF ManifestsSealed, TypeOK
<1>2. CASE Damage
  <2>1. \A s \in Slots : man'[s] \in {man[s], Missing, Damaged}
    BY <1>0, <1>2 DEF Damage, TypeOK
  <2>2. sealed' = sealed
    BY <1>2 DEF Damage
  <2> QED
    BY <1>0, <2>1, <2>2, StoreAssumption DEF ManifestsSealed
<1>3. CASE ~(WriteManifest \/ ManifestReplacedThenFails \/ Damage)
  <2>1. UNCHANGED <<man, sealed>>
    BY <1>3 DEF Next, Promote, BeginPromote, WriteConfig, WritePointer, FinishPromote,
      VerificationFails, WriteFails, EndPromote, ConfigReplacedThenFails, RepairPreview,
      RepairCommit, RepairRefused, RepairFails, EndRepair, Crash, ChangeVersion, vars
  <2> QED
    BY <1>0, <2>1 DEF ManifestsSealed
<1> QED
  BY <1>1, <1>2, <1>3

\* Steps that are no disturbance and leave the slots alone.
LEMMA ApartStays ==
  ASSUME TypeOK, UNCHANGED <<cfg, man>>, UNCHANGED <<step, job>> \/ step' \in {"idle", "pointer", "check"}
  PROVE  Apart => Apart'
BY DEF Apart, FullSlots, GenerationsDiffer, JobAhead

LEMMA OnlyAStays ==
  ASSUME TypeOK, OnlyA, \A s \in Slots : man'[s] \in {man[s], Missing, Damaged},
         (step' # "idle" => step # "idle" /\ job' = job)
  PROVE  OnlyA'
BY StoreAssumption DEF OnlyA, Slots

\* A promotion starts behind both slots, and in slot A without a pointer.
LEMMA BeginDecision ==
  ASSUME DecisionInv, NEW c \in Configs, BeginPromote(c)
  PROVE  /\ Apart => Apart'
         /\ OnlyA /\ ~PointerReadable => OnlyA'
<1>1. /\ job' = [config |-> c, generation |-> NextGeneration, target |-> PromotionTarget]
      /\ step' = "config" /\ UNCHANGED <<cfg, man>>
  BY DEF BeginPromote
<1>2. ASSUME Apart PROVE Apart'
  <2>1. \A s \in Slots : man[s] \in Manifests => man[s].generation < NextGeneration
    <3> SUFFICES ASSUME NEW s \in Slots, man[s] \in Manifests PROVE man[s].generation < NextGeneration
      OBVIOUS
    <3>1. GenerationOf(s) = man[s].generation
      BY <1>2 DEF Apart, FullSlots, GenerationOf, Readable
    <3>2. GenerationOf("A") \in Nat /\ GenerationOf("B") \in Nat
      BY GenerationType DEF Slots
    <3>3. GenerationOf(s) < NextGeneration
      BY <3>2 DEF NextGeneration, Slots
    <3> QED
      BY <3>1, <3>3
  <2> QED
    BY <1>1, <1>2, <2>1 DEF Apart, FullSlots, GenerationsDiffer, JobAhead
<1>3. ASSUME OnlyA, ~PointerReadable PROVE OnlyA'
  BY <1>1, <1>3 DEF OnlyA, PromotionTarget
<1> QED
  BY <1>2, <1>3

\* The two writes of a promotion into its slot.
LEMMA WriteDecision ==
  ASSUME DecisionInv,
         \/ WriteConfig \/ ConfigReplacedThenFails
         \/ WriteManifest \/ ManifestReplacedThenFails
  PROVE  /\ Apart => Apart'
         /\ OnlyA => OnlyA'
<1>0. TypeOK /\ step \in {"config", "manifest"}
  BY DEF DecisionInv, AnchorInv, WriteConfig, ConfigReplacedThenFails, WriteManifest,
    ManifestReplacedThenFails
<1>1. /\ job.target \in Slots /\ job.config \in Configs /\ job.generation \in Nat
      /\ JobManifest.generation = job.generation
  BY <1>0, JobType DEF Jobs, JobManifest, Generations
<1>2. CASE WriteConfig \/ ConfigReplacedThenFails
  <2>1. /\ cfg' = [cfg EXCEPT ![job.target] = job.config] /\ man' = man
        /\ \/ step' = "idle"
           \/ step = "config" /\ step' = "manifest" /\ job' = job
    BY <1>2 DEF WriteConfig, ConfigReplacedThenFails
  <2>2. (\A s \in Slots : cfg'[s] \in {cfg[s], job.config}) /\ cfg'[job.target] = job.config
    BY <1>0, <1>1, <2>1 DEF TypeOK
  <2>3. Apart => Apart'
    BY <1>1, <2>1, <2>2 DEF Apart, FullSlots, GenerationsDiffer, JobAhead
  <2> QED
    BY <1>0, <2>1, <2>3 DEF OnlyA
<1>3. CASE WriteManifest \/ ManifestReplacedThenFails
  <2>1. /\ man' = [man EXCEPT ![job.target] = JobManifest] /\ cfg' = cfg /\ step = "manifest"
        /\ \/ step' = "idle"
           \/ step' = "pointer" /\ job' = job
    BY <1>3 DEF WriteManifest, ManifestReplacedThenFails
  <2>2. man'[job.target] = JobManifest /\ \A s \in Slots : s # job.target => man'[s] = man[s]
    BY <1>0, <1>1, <2>1 DEF TypeOK
  <2>3. ASSUME Apart PROVE Apart'
    <3>1. \A s \in Slots : man[s] \in Manifests =>
            /\ man[s].generation \in Nat /\ man[s].generation < job.generation
      BY <2>1, <2>3 DEF Apart, JobAhead, Manifests, Generations
    <3>2. \A s \in Slots : man[s] \in Manifests =>
            man[s].generation # job.generation
      BY <1>1, <3>1
    <3>3. GenerationsDiffer'
      BY <1>1, <2>2, <3>2 DEF GenerationsDiffer, Slots
    <3>4. FullSlots'
      BY <2>1, <2>2, <2>3 DEF Apart, JobAhead, FullSlots
    <3> QED
      BY <2>1, <3>3, <3>4 DEF Apart, JobAhead
  <2>4. ASSUME OnlyA PROVE OnlyA'
    BY <1>0, <2>1, <2>2, <2>4 DEF OnlyA, Slots
  <2> QED
    BY <2>3, <2>4
<1> QED
  BY <1>2, <1>3

\* A readable pointer stays readable unless it is damaged.
LEMMA PointerStays ==
  ASSUME TypeOK, TypeOK', [Next]_vars, PointerReadable
  PROVE  PointerReadable' \/ (Damage /\ UNCHANGED <<cfg, man, step, job>>)
<1>1. CASE WritePointer
  BY <1>1, JobType DEF WritePointer, PointerReadable, JobPointer
<1>2. CASE RepairCommit \/ RepairFails
  BY <1>2, RepairType DEF PointerReadable, Restored, Pointers
<1>3. CASE Damage
  BY <1>3 DEF Damage, PointerReadable
<1>4. CASE ~(WritePointer \/ RepairCommit \/ RepairFails \/ Damage)
  <2>1. ptr' = ptr
    BY <1>4 DEF Next, Promote, BeginPromote, WriteConfig, WriteManifest, FinishPromote,
      VerificationFails, WriteFails, EndPromote, ConfigReplacedThenFails,
      ManifestReplacedThenFails, RepairPreview, RepairRefused, EndRepair, Crash, ChangeVersion, vars
  <2> QED
    BY <2>1 DEF PointerReadable
<1> QED
  BY <1>1, <1>2, <1>3, <1>4

LEMMA NextUndecided == DecisionInv /\ [Next]_vars => UndecidedNever'
<1> SUFFICES ASSUME DecisionInv, [Next]_vars PROVE UndecidedNever'
  OBVIOUS
<1>0. TypeOK /\ TypeOK' /\ UndecidedNever
  BY NextType DEF DecisionInv, AnchorInv
<1>1. CASE Damage \/ ChangeVersion
  <2>1. disturbances' = disturbances + 1 /\ disturbances \in Nat
    BY <1>0, <1>1, StoreAssumption DEF Damage, ChangeVersion, TypeOK
  <2>2. disturbances' = 0 => FALSE
    BY <2>1
  <2>3. disturbances' = 1 => disturbances = 0
    BY <2>1
  <2>4. ASSUME disturbances = 0 PROVE PointerReadable' \/ OnlyA' \/ Apart'
    <3>1. Apart /\ (PointerReadable \/ OnlyA)
      BY <1>0, <2>4 DEF UndecidedNever
    <3>2. CASE OnlyA
      <4>1. \A s \in Slots : man'[s] \in {man[s], Missing, Damaged}
        BY <1>0, <1>1 DEF Damage, ChangeVersion, TypeOK
      <4>2. step' # "idle" => step # "idle" /\ job' = job
        BY <1>1 DEF Damage, ChangeVersion
      <4> QED
        BY <1>0, <3>2, <4>1, <4>2, OnlyAStays
    <3>3. CASE PointerReadable
      <4>1. CASE PointerReadable'
        BY <4>1
      <4>2. CASE Damage /\ UNCHANGED <<cfg, man, step, job>>
        BY <1>0, <3>1, <4>2, ApartStays
      <4> QED
        BY <1>0, <3>3, <4>1, <4>2, PointerStays
    <3> QED
      BY <3>1, <3>2, <3>3
  <2> QED
    BY <2>2, <2>3, <2>4 DEF UndecidedNever
<1>2. CASE ~(Damage \/ ChangeVersion)
  <2>1. disturbances' = disturbances
    BY <1>2 DEF Next, Promote, BeginPromote, WriteConfig, WriteManifest, WritePointer,
      FinishPromote, VerificationFails, WriteFails, EndPromote, ConfigReplacedThenFails,
      ManifestReplacedThenFails, RepairPreview, RepairCommit, RepairRefused, RepairFails,
      EndRepair, Crash, vars
  <2>2. PointerReadable => PointerReadable'
    BY <1>0, <1>2, PointerStays
  <2>3. (Apart => Apart') /\ (OnlyA => PointerReadable \/ PointerReadable' \/ OnlyA')
    <3>1. ASSUME NEW c \in Configs, BeginPromote(c)
          PROVE (Apart => Apart') /\ (OnlyA => PointerReadable \/ OnlyA')
      BY <3>1, BeginDecision
    <3>2. CASE \/ WriteConfig \/ ConfigReplacedThenFails
               \/ WriteManifest \/ ManifestReplacedThenFails
      BY <3>2, WriteDecision
    <3>3. CASE \/ WritePointer \/ FinishPromote \/ VerificationFails \/ WriteFails
               \/ RepairPreview \/ RepairCommit \/ RepairRefused \/ RepairFails
               \/ Crash \/ UNCHANGED vars
      <4>1. /\ UNCHANGED <<cfg, man>>
            /\ UNCHANGED <<step, job>> \/ step' \in {"idle", "pointer", "check"}
            /\ step' # "idle" => step # "idle" /\ job' = job
        BY <3>3 DEF WritePointer, FinishPromote, VerificationFails, WriteFails, EndPromote,
          RepairPreview, RepairCommit, RepairRefused, RepairFails, EndRepair, Crash, vars
      <4>2. Apart => Apart'
        BY <1>0, <4>1, ApartStays
      <4>3. OnlyA => OnlyA'
        BY <4>1 DEF OnlyA
      <4> QED
        BY <4>2, <4>3
    <3> QED
      BY <1>2, <3>1, <3>2, <3>3 DEF Next, Promote
  <2> QED
    BY <1>0, <2>1, <2>2, <2>3 DEF UndecidedNever
<1> QED
  BY <1>1, <1>2

LEMMA DecisionInvariant == Spec => []DecisionInv
<1>1. DecisionInv /\ [Next]_vars => DecisionInv'
  BY NextAnchor, NextSealed, NextUndecided DEF DecisionInv
<1> QED
  BY <1>1, InitDecision, PTL DEF Spec

\* Whatever was interrupted, damaged or rolled back, a recovery start uses a
\* configuration whose promotion got as far as its manifest, and the loss of
\* the pointer does not leave it undecided (validate_slot, select_recovery).
THEOREM RecoveryDecided == Spec => []RecoveryIsDecided
<1>1. DecisionInv => RecoveryIsDecided
  <2> SUFFICES ASSUME DecisionInv PROVE RecoveryIsDecided
    OBVIOUS
  <2>1. TypeOK /\ ManifestsSealed /\ UndecidedNever
    BY DEF DecisionInv, AnchorInv
  <2>2. RecoveryIsWholePromotion
    <3> SUFFICES ASSUME SelectRecovery # None
                 PROVE  <<cfg[SelectRecovery], GenerationOf(SelectRecovery)>> \in sealed
      BY DEF RecoveryIsWholePromotion
    <3>1. Valid(SelectRecovery)
      BY DEF SelectRecovery, PointerCurrent
    <3>2. SelectRecovery \in Slots
      BY <2>1, SelectType DEF TypeOK
    <3> QED
      BY <2>1, <3>1, <3>2 DEF Valid, Readable, GenerationOf, ManifestsSealed
  <2>3. NeverAmbiguous
    <3> SUFFICES ASSUME disturbances <= 1, ~PointerReadable, Valid("A"), Valid("B")
                 PROVE  GenerationOf("A") # GenerationOf("B")
      BY DEF NeverAmbiguous
    <3>1. man["A"] \in Manifests /\ man["B"] \in Manifests
      BY DEF Valid, Readable
    <3>2. GenerationOf("A") = man["A"].generation /\ GenerationOf("B") = man["B"].generation
      BY DEF Valid, GenerationOf
    <3>3. disturbances \in {0, 1}
      BY <2>1, StoreAssumption DEF TypeOK
    <3>4. Apart
      BY <2>1, <3>1, <3>3 DEF UndecidedNever, OnlyA
    <3> QED
      BY <3>1, <3>2, <3>4 DEF Apart, GenerationsDiffer
  <2> QED
    BY <2>1, <2>2, <2>3 DEF RecoveryIsDecided
<1> QED
  BY <1>1, DecisionInvariant, PTL

-----------------------------------------------------------------------------
(* One damaged file, and the repair of the pointer *)

\* With a current pointer and an older valid slot beside it, whichever of the
\* five files is damaged, a recovery start still uses one of the two
\* configurations (select_recovery's fallbacks).
THEOREM OneDamagedFile == Spec => OneDamagedFileSurvives
<1>1. TypeOK /\ TypeOK' /\ [Next]_vars =>
        [ /\ PointerCurrent
          /\ Valid(Other(ptr.slot))
          /\ GenerationOf(Other(ptr.slot)) < ptr.generation
          /\ disturbances' # disturbances /\ version' = version
          => RecoveredConfig' \in {cfg["A"], cfg["B"]} ]_vars
  <2> SUFFICES ASSUME TypeOK, TypeOK', [Next]_vars, PointerCurrent, Valid(Other(ptr.slot)),
                      GenerationOf(Other(ptr.slot)) < ptr.generation,
                      disturbances' # disturbances, version' = version
               PROVE  RecoveredConfig' \in {cfg["A"], cfg["B"]}
    OBVIOUS
  <2>1. PICK s \in Slots : s = ptr.slot
    BY DEF PointerCurrent, PointerReadable, Pointers
  <2>2. PICK o \in Slots : o = Other(s) /\ o # s /\ Slots = {s, o}
    BY <2>1 DEF Other, Slots
  <2>3. /\ Valid(s) /\ Valid(o) /\ PointerReadable
        /\ man[s].generation = ptr.generation /\ TypedRevision[cfg[s]] = ptr.revision
        /\ man[o].generation < man[s].generation
        /\ man[s].generation \in Nat /\ man[o].generation \in Nat
    BY <2>1, <2>2 DEF PointerCurrent, Valid, Readable, GenerationOf, Manifests, Generations
  <2>4. Damage
    <3>1. ~ChangeVersion
      BY DEF ChangeVersion, TypeOK
    <3> QED
      BY <3>1 DEF Next, Promote, BeginPromote, WriteConfig, WriteManifest, WritePointer,
        FinishPromote, VerificationFails, WriteFails, EndPromote, ConfigReplacedThenFails,
        ManifestReplacedThenFails, RepairPreview, RepairCommit, RepairRefused, RepairFails,
      EndRepair, Crash, vars
  <2>5. ASSUME NEW t \in Slots, cfg'[t] = cfg[t], man'[t] = man[t], Valid(t)
        PROVE  Valid(t)' /\ GenerationOf(t)' = man[t].generation
    BY <2>5 DEF Valid, Readable, GenerationOf
  <2>6. ASSUME NEW t \in Slots, SelectRecovery' = t, cfg'[t] = cfg[t]
        PROVE  RecoveredConfig' \in {cfg["A"], cfg["B"]}
    BY <2>6, StoreAssumption DEF RecoveredConfig, Slots
  <2>7. CASE ptr' # ptr
    <3>1. ~PointerReadable' /\ UNCHANGED <<cfg, man>>
      BY <2>4, <2>7, StoreAssumption DEF Damage, PointerReadable, Pointers
    <3>2. /\ Valid("A")' /\ GenerationOf("A")' = man["A"].generation
          /\ Valid("B")' /\ GenerationOf("B")' = man["B"].generation
      BY <2>2, <2>3, <2>5, <3>1 DEF Slots
    <3>3. SelectRecovery' = s
      <4>1. CASE s = "A"
        BY <2>2, <2>3, <3>1, <3>2, <4>1 DEF SelectRecovery, Slots
      <4>2. CASE s = "B"
        BY <2>2, <2>3, <3>1, <3>2, <4>2 DEF SelectRecovery, Slots
      <4> QED
        BY <4>1, <4>2 DEF Slots
    <3> QED
      BY <2>6, <3>1, <3>3
  <2>8. CASE ptr' = ptr /\ cfg'[s] = cfg[s] /\ man'[s] = man[s]
    <3>1. Valid(s)' /\ GenerationOf(s)' = man[s].generation
      BY <2>3, <2>5, <2>8
    <3>2. PointerCurrent'
      BY <2>1, <2>3, <2>8, <3>1 DEF PointerCurrent, PointerReadable
    <3>3. SelectRecovery' = s
      BY <2>1, <2>8, <3>2 DEF SelectRecovery, PointerCurrent
    <3> QED
      BY <2>6, <2>8, <3>3
  <2>9. CASE ptr' = ptr /\ ~(cfg'[s] = cfg[s] /\ man'[s] = man[s])
    <3>1. cfg'[o] = cfg[o] /\ man'[o] = man[o]
          /\ (man'[s] \in {Missing, Damaged} \/ (man'[s] = man[s] /\ cfg'[s] # cfg[s]))
      BY <2>2, <2>4, <2>9 DEF Damage, TypeOK
    <3>2. ~Valid(s)'
      BY <2>3, <3>1, StoreAssumption DEF Valid, Readable
    <3>3. PointerReadable' /\ ~PointerCurrent'
      BY <2>1, <2>3, <2>9, <3>2 DEF PointerReadable, PointerCurrent
    <3>4. Valid(o)' /\ GenerationOf(o)' = man[o].generation
      BY <2>3, <2>5, <3>1
    <3>5. Other(ptr.slot)' = o /\ GenerationOf(o)' < ptr'.generation
      BY <2>1, <2>2, <2>3, <2>9, <3>4 DEF Other
    <3>6. SelectRecovery' = o
      BY <3>3, <3>4, <3>5 DEF SelectRecovery
    <3> QED
      BY <2>6, <3>1, <3>6
  <2> QED
    BY <2>7, <2>8, <2>9
<1> QED
  BY <1>1, TypeCorrect, PTL DEF Spec, OneDamagedFileSurvives

\* However a repair ends, it leaves the slots and the choice of a recovery
\* start alone, or puts a pointer back in force whose mode or owner was wrong;
\* a pointer it writes anew is current and names the previewed files
\* (repair_pointer).
THEOREM RepairIsNeutral == Spec => RepairKeepsChoice
<1>1. TypeOK /\ TypeOK' /\ [Next]_vars =>
        [ step = "idle" /\ token.target # None /\ token' = NoToken /\ disturbances' = disturbances =>
            /\ UNCHANGED <<cfg, man>>
            /\ BackInForce \/ (SelectRecovery' = SelectRecovery /\ RecoveredConfig' = RecoveredConfig)
            /\ ptr' \in Pointers /\ ptr' # ptr /\ ~BackInForce =>
                 /\ PointerCurrent'
                 /\ RecoveredConfig' = token.cfg[token.target]
                 /\ man'[ptr'.slot] = token.man[token.target] ]_vars
  <2> SUFFICES ASSUME TypeOK, TypeOK', [Next]_vars, step = "idle", token.target # None,
                      token' = NoToken, disturbances' = disturbances
               PROVE  /\ UNCHANGED <<cfg, man>>
                      /\ BackInForce \/ (SelectRecovery' = SelectRecovery /\ RecoveredConfig' = RecoveredConfig)
                      /\ ptr' \in Pointers /\ ptr' # ptr /\ ~BackInForce =>
                           /\ PointerCurrent'
                           /\ RecoveredConfig' = token.cfg[token.target]
                           /\ man'[ptr'.slot] = token.man[token.target]
    OBVIOUS
  <2>1. \/ UNCHANGED <<cfg, man, ptr, version>>
        \/ RepairCommit \/ RepairFails
    <3>1. ~Damage /\ ~ChangeVersion
      BY DEF Damage, ChangeVersion, TypeOK
    <3>2. token' # token
      BY DEF NoToken
    <3> QED
      BY <3>1, <3>2 DEF Next, Promote, BeginPromote, WriteConfig, WriteManifest, WritePointer,
        FinishPromote, VerificationFails, WriteFails, EndPromote, ConfigReplacedThenFails,
        ManifestReplacedThenFails, RepairPreview, RepairRefused, EndRepair, Crash, vars, NoToken
  <2>2. CASE UNCHANGED <<cfg, man, ptr, version>>
    BY <2>2, FilesDecide
  <2>3. CASE (RepairCommit \/ RepairFails) /\ ~(UNCHANGED ptr)
    <3>1. PICK t \in Slots :
            /\ t = token.target /\ Valid(t) /\ SelectRecovery = t
            /\ RepairedPointer \in Pointers /\ RepairedPointer.private
            /\ UNCHANGED <<cfg, man, version>>
      BY <2>3, RepairType
    <3>2. SameStoreRevision
      BY <2>3 DEF RepairCommit, RepairFails, RepairEligible
    <3>3. cfg[t] = token.cfg[t] /\ man[t] = token.man[t]
      BY <3>1, <3>2, StoreAssumption DEF SameStoreRevision, Valid, Readable
    <3>4. RecoveredConfig = cfg[t]
      BY <3>1, StoreAssumption DEF RecoveredConfig
    <3>5. CASE ptr' = RepairedPointer
      <4>1. PointerReadable' /\ Valid(t)'
        BY <3>1, <3>5 DEF PointerReadable, Valid, Readable
      <4>2. ptr'.slot = t /\ ptr'.generation = man[t].generation
            /\ ptr'.revision = TypedRevision[cfg[t]]
        BY <3>1, <3>5 DEF RepairedPointer
      <4>3. PointerCurrent'
        BY <3>1, <4>1, <4>2 DEF PointerCurrent
      <4>4. SelectRecovery' = t
        BY <4>1, <4>2, <4>3 DEF SelectRecovery
      <4>5. RecoveredConfig' = cfg[t]
        BY <3>1, <4>4, StoreAssumption DEF RecoveredConfig
      <4> QED
        BY <3>1, <3>3, <3>4, <4>2, <4>3, <4>4, <4>5
    <3>6. CASE ptr' = Restored(ptr)
      <4>1. BackInForce
        BY <2>3, <3>6 DEF BackInForce, Restored, PointerReadable, Pointers
      <4> QED
        BY <3>1, <4>1
    <3>7. CASE ~PointerReadable /\ ptr' = Missing
      <4>1. ~PointerReadable'
        BY <3>7, StoreAssumption DEF PointerReadable
      <4>2. Valid("A")' = Valid("A") /\ Valid("B")' = Valid("B")
            /\ GenerationOf("A")' = GenerationOf("A") /\ GenerationOf("B")' = GenerationOf("B")
        BY <3>1 DEF Valid, Readable, GenerationOf
      <4>3. SelectRecovery' = SelectRecovery
        BY <3>7, <4>1, <4>2 DEF SelectRecovery
      <4>4. RecoveredConfig' = RecoveredConfig
        BY <3>1, <4>3 DEF RecoveredConfig
      <4> QED
        BY <3>1, <3>7, <4>3, <4>4, StoreAssumption
    <3> QED
      BY <2>3, <3>5, <3>6, <3>7, RepairType
  <2>4. CASE (RepairCommit \/ RepairFails) /\ UNCHANGED ptr
    <3>1. UNCHANGED <<cfg, man, ptr, version>>
      BY <2>4, RepairType
    <3> QED
      BY <2>2, <3>1
  <2> QED
    BY <2>1, <2>2, <2>3, <2>4
<1> QED
  BY <1>1, TypeCorrect, PTL DEF Spec, RepairKeepsChoice
=============================================================================
