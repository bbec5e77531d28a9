# Formal model of the Zendure Energy Controller (ZEC)

ZEC is a Python service that runs next to a Zendure battery.  Every few
seconds it reads the grid power, decides what the battery should do, and sends
the decision to the device as MQTT set messages (QoS 0, not retained).  Around
that loop sit worker threads (local HTTP telemetry, Modbus, measurement
database, event journal), a web interface that previews and commits settings,
and a recovery mechanism for a broken configuration file.

This directory holds TLA+ modules that model the parts of ZEC whose correctness
depends on the order of events: crashes between two file writes, settings that
change under a running loop, MQTT messages that are lost or late, batches that
are rolled back and written again, episodes that outlive the process that
started them.

Contents: 1 the system, 2 the plan, 3 the modules and how they correspond to
the code, 4 the runs, 5 the proofs, 6 where the code differs from its
documents, 7 observations, 8 what is not modelled, 9 how to run it.

## 1. The system

### 1.1 Components, their state and operations

| Component | Source | State it keeps | Operations | Module |
|---|---|---|---|---|
| Last-Good store | `settings_runtime.py` `LastGoodStore` | slot files A/B (config + manifest), current pointer | `promote`, `select_recovery`, `repair_pointer` | `LastGoodStore` |
| Settings runtime | `settings_runtime.py` `SettingsRuntimeManager` | configured / effective / startup snapshot, start mode, file fingerprints, pending change edge, stable-ready timer, promotion thread | `load`, `reload_if_needed`, `commit_candidate`, `observe_ready`, `control_allowed` | `SettingsRuntime` |
| Settings transaction service | `settings_service.py`, `settings_apply_policy.py` | one-time previews | `preview`, `preview_candidate`, `commit` | `ConfigTransactions`, `SettingsRuntime` |
| Config states, bundles, import | `config_states.py`, `config_bundle.py`, `config_artifacts.py`, `config_migration.py` | named state files, import tokens | create, list, rename, delete, inspect, export | `ConfigTransactions` |
| Control cycle | `controller_logic.py` `run_forever`, `run_once` | target, mode, care flags | one decision per cycle | `ControlCycle` |
| Battery care | `battery_care_policy.py`, `battery_care_episode_store.py`, `controller_logic.py` | episode in memory, latch in the event database | `decide_care`, persist, dispatch, clear | `BatteryCarePolicy`, `ControlCycle` |
| Command pipeline | `controller_logic.py`, `command_lifecycle.py`, `mqtt_bridge.py` | desired batch, active command, publish cache, device readback | `_publish_command_batch`, `_publish_signed_target`, `_publish_neutralization`, `_force_resend_signed_target` | `CommandLifecycle` |
| Command-effect monitor, late-effect guard | `controller_logic.py` | mismatch episode, resync timers, guard episode | `update_command_effect_monitor`, `_activate_late_effect_guard`, `_evaluate_late_effect_guard` | `CommandLifecycle` |
| MQTT bridge | `mqtt_bridge.py`, `state.py` | connection, subscriptions, readback cache | `on_connect`, `on_disconnect`, `on_message`, `publish` | `CommandLifecycle` (in part) |
| Local API worker | `zendure_local_api.py` | config generation, worker state, backoff, last snapshot | `update_config`, `_run`, `request_stop`, `close` | `LocalApiWorker` |
| Primary storage Modbus worker | `primary_storage_modbus.py` | same shape for Modbus | `start`, `update_config`, `_run` | - |
| Live samplers | `live_shelly_sampler.py`, `sma_energy_meter.py` | last sample, socket thread | `ensure_started`, `stop` | - |
| Measurement writer | `measurement_db.py`, `measurement_db_maintenance.py` | bounded queue, batch, deferred row, connection | `enqueue`, `_worker`, `_flush`, `close` | `MeasurementDbWriter`, `MeasurementFifo` |
| Graph history | `graph_core_v3_live.py`, `graph_core_v3.py`, `graph_config_timeline.py`, `graph_evidence.py` | seven derived tables, four builders in memory | `write_batch`, `reset_for_path` | `GraphHistory` |
| Event journal | `operational_events.py`, `battery_care_stage_events.py` | incident rows, what was seen last | `_observe`, `_transition`, `_stable_incident`, `persist_confirmed_emergency_failure` | `OperationalEvents` |
| Views, graphs, status pages | `graph_*.py`, `status_page_v2.py`, `live_status.py`, `web_ui.py` | caches | read-only views | - |
| Instance owner, startup | `instance_owner.py`, `ZendureController.py` | `flock` lock file | start, shutdown | - |
| Settings registry, validation, help | `settings_registry.py`, `config_validator.py`, `settings_validation.py`, `settings_help.py`, `settings_model.py` | none | pure functions and tables | - |
| Tools, tests | `tools/`, `tests/` | none | installer, replay | - |

`PROJECT.json` lists the same components with their status.

### 1.2 How they interact

* One loop thread runs `reload_if_needed`, then (on a change edge)
  `refresh_subscriptions` and the workers' `update_config`, then `run_once`,
  then the command-effect monitor, then `observe_ready`, and hands one
  measurement row to the writer.
* The paho callback thread updates the readback cache in `state.py`; the loop
  reads it later in the same or the next cycle.
* The web threads call `preview` / `commit` and the administrative actions;
  they share the settings runtime's lock with the loop.
* A promotion runs in its own thread; it shares the store's lock with the
  status page and with a pointer repair.
* The workers publish snapshots; the loop reads them and decides whether
  they are still fresh and belong to the current configuration.
* The writer's thread turns rows into transactions; the live graph session is
  called inside each of them.
* The journal's observer is a thread of the web interface; the loop writes
  into the same file through a second journal when an emergency charge fails.
  The Battery Care latch is a table of that file, too.

### 1.3 What is hard, and what makes each component correct

* **Last-Good store.**  `promote` is three atomic writes that are not atomic
  together; a crash, a failed write, a damaged file or a change of the
  controller version may come between any two of them.  Correct is a store in
  which a recovery start finds one whole promotion, a promotion never touches
  the slot recovery relies on, a lost pointer is decidable, and a repair keeps
  the choice the administrator saw.
* **Settings runtime.**  One file with four writers (loop, sessions, rollback,
  administrator), read by stat fingerprint and exact-byte revision, under I/O
  errors.  Correct is a runtime in which no change is lost, nothing is adopted
  that is not on disk, a valid file is adopted in the end, only a configuration
  that ran whole and ready becomes Last-Good, and no command is sent on
  restart settings the process did not start with.
* **Saved configurations.**  A change is prepared by one request and committed
  by another, minutes later, from a state or an export that may be of another
  version.  Correct is a commit that does what was shown, from a source and to a
  file that are still the same, and that asks before it changes what the source
  did not say.
* **Command path and monitor.**  The device answers late or not at all, the
  controller publishes into a channel that loses messages, and what it knows
  (readback, power) may be from before the last command.  Correct is a path in
  which an opposite command waits for physical proof, the guard holds and lets
  go again, flash protection is respected, and a target that stays is reached.
* **Control cycle and Battery Care.**  An episode that authorises grid charging
  is persisted before the command and forgotten after an explicit stop, also
  when the database fails; the power it added is given back whatever path the
  next cycles take; no cycle reverses the battery in one step.
* **Local API worker.**  A result belongs to the configuration it was asked
  under; no wake-up, stop or change is overlooked.
* **Measurement writer.**  A bounded queue, a retry and a path change: no row
  twice, none lost without being counted, order kept, and an orderly end.
* **Graph history.**  Seven views of the same rows, four of them built from
  memory that must survive a rollback and must not survive a restart.
* **Event journal.**  Incidents survive a restart, are opened once and closed by
  proof; what lasts is what the journal says in the end.

The hazards, each at its line and with the properties that would catch it, are
listed in `PROJECT.json`.

## 2. Plan

| # | Modules | Models | State |
|---|---|---|---|
| 1 | `LastGoodRegister`, `LastGoodStore`, `LastGoodStoreProofs` | the A/B store and the register it implements | modelled, checked, proved |
| 2 | `SettingsRuntime`, `SettingsRuntimeProofs` | settings runtime, service, promotion thread; uses the register as its store | modelled, checked, proved |
| 3 | `CommandLifecycle`, `CommandLifecycleProofs` | command path, monitor, guard, device, MQTT | modelled, checked, proved |
| 4 | `MeasurementFifo`, `MeasurementDbWriter`, `MeasurementDbWriterProofs` | the writer and the buffer it implements | modelled, checked, proved |
| 5 | `GraphHistory`, `GraphHistoryProofs` | what one transaction makes of a batch, under rollback, restart and path change | modelled, checked, proved |
| 6 | `LocalApiWorker`, proofs in `ControlCycleProofs` | generations, superseded results, wake-up, stop | modelled, checked, proved |
| 7 | `BatteryCarePolicy`, `ControlCycle`, `ControlCycleProofs` | the care policy, its latch, and the cycle it is part of | modelled, checked, proved |
| 8 | `OperationalEvents`, `OperationalEventsProofs` | the journal and its two writers | modelled, checked, proved |
| 9 | `ConfigTransactions`, `ConfigTransactionsProofs` | named states, bundles, imports, and the previews and commits they go through | modelled, checked, proved |

Every module has an `MC...` module with its instance for TLC, except the two
abstract specifications and `BatteryCarePolicy`, which is an operator library.

Composition: `LastGoodStore` refines `LastGoodRegister` and
`MeasurementDbWriter` refines `MeasurementFifo`, each through a refinement
mapping; `SettingsRuntime` uses the register (its variable `lastGood`
and the actions `Promote`, `PromoteFails`) in place of the store; `ControlCycle`
extends `BatteryCarePolicy` and leaves to `CommandLifecycle` what becomes of a
target, as `CommandLifecycle` leaves open which target a cycle asks for.

"Proved" means the safety properties of the module, for every value of its
constants that its assumption admits; section 5 says how, and what is left to
TLC.

### 3.1 LastGoodStore

| Code (`settings_runtime.py`) | Model |
|---|---|
| the five files of the store | `cfg`, `man`, `ptr` |
| `validate_slot` | `Valid`, `GenerationOf` |
| `select_recovery` | `SelectRecovery`, `RepairRequired` |
| `promote`: early return, slot and generation choice | `BeginPromote`, `PromotionTarget`, `NextGeneration` |
| its three `atomic_write`s and two verifications | `WriteConfig`, `WriteManifest`, `TargetVerified`, `WritePointer`, `FinishPromote` |
| a write that raises before or after its rename | `WriteFails`, `ConfigReplacedThenFails`, `ManifestReplacedThenFails` |
| repair preview and commit (`web_ui.py`, `repair_pointer`) | `RepairPreview`, `RepairCommit`, `RepairRefused`, `RepairFails` |
| power loss, update and rollback, damaged files | `Crash`, `ChangeVersion`, `Damage` |

The store's lock is held for a whole promotion and a whole repair, so they do
not interleave inside one process; a crash may still cut a promotion anywhere.
The history variable `sealed` remembers which promotions got as far as their
manifest.  The pointer also has a mode and an owner (`private`): one that others
may read does not count.  A repair whose write or verification fails writes the
old bytes again, with mode 0600, or removes the file, or fails in that too and
leaves the new pointer (`RepairFails` has one disjunct for each); the revision a
repair compares covers bytes only.  `LastGoodRegister` is what the store promises: one value that one
step replaces, *anchored* while the pointer names a valid slot, and free to
drift when it does not.

### 3.2 SettingsRuntime

| Code | Model |
|---|---|
| `stable_read`, stat fingerprints | `Revision`, `SeenStat`, `Unseen`, `Rewrite` |
| `load` | `Started`, `StartInvalid`, `StartMode`, `Restart`, `Init` |
| `_set_valid_primary` | `StartValid`, `SetValidPrimary`, `Applied` |
| `reload_if_needed` | `ReloadUnchanged`, `ReloadValid`, `ReloadInvalid`, `ReloadTorn` |
| the change edge of `run_forever` | `Refresh`, variable `applied` |
| `control_allowed` | `ControlAllowed` |
| `observe_ready`, `_schedule_promotion_locked` | `Timed`, `Eligible`, `SchedulePromotion`, `ObserveRecovery`, `ObserveNormal` |
| an observer that raises | `ObserveFails` |
| `_promotion_worker` | `Promote`, `PromoteFails`, `ReportPromotion` |
| `SettingsService.preview` (two lock acquisitions) | `PreviewRevision`, `PreviewBase`, `Abandon` |
| `SettingsService.commit`, `commit_candidate` | `CallCommit`, `CommitRead`, `CommitWrite`, `CommitVerify`, `CommitRestore`, `CommitRestored` |
| administrator, disk | `Edit`, `DamageLastGood` |

`m` is a record with one field per field of the manager that the behaviour
depends on.  A configuration is a pair of a live and a restart part; bytes and
their sha256 are the same value; of a stat fingerprint only "equal to the last
one" is kept.  A commit holds the manager's lock from its first read on
(`Unlocked` guards everything else that takes it), but an editor respects no
lock, so `Edit` is possible between any two of its steps.  Only the store's
outcome is kept here: `Promote` is the register's `Install`.

### 3.3 CommandLifecycle

| Code (`controller_logic.py` unless named) | Model |
|---|---|
| `DesiredCommandBatch` (`command_lifecycle.py`) | `Batch`, `Neutral`, `NoBatch` |
| `MqttBridge.publish` with its cache | `Skipped`, `Send`, `SendChanged` |
| `_publish_command_batch`, its gate and phases | `DispatchNeutral`, `DispatchActive`, `Allowed`, `Enter`, `Leave` |
| `_record_desired_command_batch` | `Record`, `MismatchAfter` |
| `_publish_signed_target` | `Target`, `Zero` |
| `_publish_neutralization` and its callers | `Neutralize`, `NightEnds` |
| `_late_effect_guard_blocks`, `_activate_late_effect_guard` | `Blocks`, `Activates`, `Blocked` |
| `_evaluate_late_effect_guard` | `EvaluateGuard`, `GuardNeutral`, `Counted`, `GuardRelease` |
| `update_command_effect_monitor` | `Monitor`, `Evaluate`, `EvaluateNeutral`, `EvaluateActive`, `SmallTarget` |
| `_force_resend_signed_target` | `ForceResend` |
| readback cache (`state.py`) | `rb` (the fresh reports), `Complete`, `FlashActive`, `Report`, `Expire`, `Redeliver` |
| the other way the device is read, `update_zendure_telemetry_from_local_api_snapshot` | `snap`, `Poll`, `Apply` |
| `MQTT_DISCONNECTED_SAFE_STATE` | `DisconnectedSafeState` |
| connection (`state.py`, `mqtt_bridge.py`) | `Connect`, `GoLive`, `Degrade`, `Disconnect` |
| network and device | `Deliver`, `Lose`, `Act`, `Sample`, `LoseSight`, `Reboot` |

With the local API a cycle begins by applying the newest snapshot (`phase =
"apply"`), whatever the connection is and however new the reports are that it
replaces.  The control step (`"control"`) and the monitor step (`"monitor"`)
follow; all run in one thread, and everything else happens between them.  Operators
that model a method map a record `s = [c, sent]` of the controller's fields and
the messages under way to its successor, so that a handler with all the calls
it makes is one action.  Two abstractions deserve a word:

* *Timers.*  Each time limit is a flag or an age that runs out at any moment,
  so that every configurable order of the limits is covered.
* *Messages.*  Of each property only the last message on its way is kept; the
  earlier ones arrived before it or were overtaken.  A message that stays away
  for ever is in safety properties the same as a lost one; `loss` matters to
  liveness and is switched on there.

Which request a cycle makes (the modes, ramps, deadband, battery care) is left
open: any sequence of non-zero targets, zero targets with and without
`force_zero`, safety neutralizations and cycles without a request.  The variable
`world` says which of them, which faults, how many, and whether the local API is
read in one behaviour.

Two histories judge a step by what happened before it: `unproven` is the intent
of a mismatch nothing physical has resolved, and `suspect` says that the device
lost smartMode while something (a report, a snapshot, a limit on its way) still
says otherwise.

### 3.4 MeasurementDbWriter

| Code (`measurement_db.py`) | Model |
|---|---|
| `enqueue`, `_ensure_thread` | `Enqueue`, `EnsureThread`, `HasRoom`, `StatusOnQueue` |
| `_worker`: what is taken next, path change, full batch, last row | `RetryFlush`, `TakeDeferred`, `TakeRow`, `TakeSentinel`, `Idle`, `HandOver`, `AfterSentinel` |
| `_flush`, `_connect` | `FlushOk`, `FlushFail`, `Connection`, `AfterFailure` |
| `close` | `CloseBegin`, `CloseJoined`, `CloseTimeout`, `WorkerExit` |
| process end and start | `Die`, `Restart` |

A flush lasts (a transaction, or five seconds of the maintenance lock), so it
is a state `pc = "flush"` during which rows arrive and `close` is called.
`MeasurementFifo` is the promise: accepted rows leave the front of the buffer
into their own file, or are lost from the front once the service stops.

### 3.5 GraphHistory

| Code | Model |
|---|---|
| `GraphCoreV3LiveSession.write_batch`, `_bind`, `reset_for_path` | `WriteBatch`, `WriteFails`, `Bound`, `Written`, `NewSession`, `AfterRollback` |
| `_ensure_run` | `EnsureRun` |
| `insert_system_sample`, `_upsert_minute` (`graph_core_v3.py`) | `InsertSample`, `AddTo` |
| `EntityPersistenceBuilder`, `_topology` | `ObserveUnits`, `Topology`, `Known`, `Remembered` |
| `SparseStateBuilder` | `ObserveKind`, `ObserveStates`, `Finish`, `OutOfOrder` |
| `CommandEventBuilder` | `ObserveCommands`, `NothingNew` |
| `upsert_timeline_entry` (`graph_config_timeline.py`) | `Upsert`, `ObserveConfig` |
| `record_live_batch_evidence` (`graph_evidence.py`) | `RecordEvidence`, `MergeRanges`, `Extend`, `ExtendAll` |
| the rows of a batch, one after the other | `WriteRow`, `AfterRows` |

A row carries one value of each kind the views distinguish.  The history
`log` is what was committed; every property compares a table with it.

### 3.6 LocalApiWorker

| Code (`zendure_local_api.py` unless named) | Model |
|---|---|
| `update_config`, `request_stop` and their event | `UpdateConfig`, `SetWake`, `Signal` |
| `start`, `close`, the joins of `controller_logic.py` | `StartWorker`, `Close` |
| `_run` | `BeginThread`, `Top`, `TurnDisabled`, `TurnBackoff`, `TurnIdle`, `TurnRequest`, `Ending`, `Ended` |
| the request and the comparison after it | `Answered`, `Failed`, `Superseded`, `PublishSuperseded`, `PublishSuccess`, `PublishFailure` |
| `_wait` | `WaitEnds`, `ClearWake` |
| `update_zendure_telemetry_from_local_api_snapshot` (`controller_logic.py`) | `ApplySnapshot`, `SkipSnapshot`, `SnapshotValid` |

Every point at which the other thread may run is a step: between reading the
configuration and acting on it, between the comparison and the publication,
between the end of a wait and the clearing of its event.

### 3.7 BatteryCarePolicy and ControlCycle

| Code (`controller_logic.py` unless named) | Model |
|---|---|
| `decide_care` (`battery_care_policy.py`) | `Decide`, `Recovered`, `BelowReserve`, `Regular`, `LowSample`, `Confirmed` |
| `CareEpisodeStore` | `LatchOf`, `EpisodeOf`, variable `latch` |
| `run_once`: configuration, care switch, preflight, safety stops | `BeginWanted`, `BeginUnwanted`, `ClearLatch`, `PvReturn`, `Preflight`, `SafeStop`, `Raised` |
| `handle_manual_mode`, `handle_night_mode` | `Manual`, `Night`, `NightPause`, `Day` |
| `_battery_care_evaluate`, `_battery_care_persist_episode` | `CareStep`, `CareFails`, `CareOff`, `Persist` |
| `_battery_care_grid_dispatch` | `DispatchNothing`, `DispatchExit`, `DispatchNeutralize`, `DispatchVeto`, `DispatchCharge` |
| `handle_charge`, `handle_discharge`, `handle_deadband` and the choice among them | `HandleCharge`, `Promote`, `HandleDischarge`, `HandleDeadband`, `AutoControl` |

Powers are a few levels and one level is one ramp step; measured grid power is
its relation to the deadband.  `share` remembers how much of the target
Battery Care asked for.  `stopped` is `"stopped"` once the last episode met a cycle
without it, and `"revived"` when its latch could not be cleared and the process
started again: the refusal of such an episode is kept in memory only.
Smoothing, gains and the arithmetic of harvest and of the PV allocation are an
arbitrary new base within one step.

### 3.8 OperationalEvents

| Code (`operational_events.py` unless named) | Model |
|---|---|
| `_run`, its connection and start entry | `StartObserver`, `Observe`, `Observed` |
| `_transition` | `Effect` |
| `_stable_incident` | `Grid` |
| `_add`, `_resolve` with their transactions | `Add`, `Resolve`, `Open`, `Close` |
| `persist_confirmed_emergency_failure`, `_observe_battery_care_incident_inner` | `Incident`, `Recover`, `Candidate`, `Due` |
| stage entries (`battery_care_stage_events.py`), mode rows | `Stage`, `Mode` |
| the control loop's writer (`controller_logic.py`) | `ConfirmFailure`, `RetryFailure`, `WriteThrough` |

A handler maps a record of the journal's memory and the database to the next
one, so that an exception in one handler skips the handlers after it and a
transaction left open stays open across handlers, as in the code.  Each insertion
and each row of a recovery is a transaction of its own, and the access of any of
them may be refused after the ones before it were committed.  A refused write that
itself leaves a deferred transaction behind is not modelled.

### 3.9 ConfigTransactions

| Code | Model |
|---|---|
| `parse_full_candidate`, `configured_view_from_raw`, VAL-006 | `Resolved`, `Valid`, `Configured` |
| `migrate_rc19_to_rc20` (`config_migration.py`) | `Migrated`, `Conflict` |
| `build_bundle_payload`, `parse_bundle`, `_compatibility` (`config_bundle.py`) | `BundleOf`, `ExportBundle` |
| `inspect_bundle`, `inspect_legacy_raw`, `ImportTokenStore` (`config_artifacts.py`) | `Inspect`, `LegacyBundle`, `imports` |
| `_materialize_candidate` | `Candidate`, `Refused`, `Drift`, `Warnings` |
| `preview_state`, `preview_import`, `preview_candidate` | `LoadState`, `LoadImport`, `CheckLoad` |
| `SettingsService.preview`, `_finalize_preview` | `EditSettings`, `BuildEdit`, `FinishPreview` |
| `SettingsPreviewStore` | `previews`, `Trimmed`, `Taken`, `UnknownToken`, `Expire` |
| `SettingsService.commit` | `Commits`, `CommitFails`, `SourceUnchanged`, `SameRevision`, `Confirmed` |
| `ConfigStateStore` (`config_states.py`) | `CreateState`, `ReadPersisted`, `WriteState`, `RenameState`, `DeleteState`, `DamageState` |

The handlers are asynchronous functions that do not wait once the body is read,
so one request runs at a time (`req`); what comes between its steps is the loop
(`Reload`) and an editor (`Edit`).  A configuration has one key of each kind the
code treats differently: an ordinary one, one whose default is derived from it,
one with an older name, the older name, an obsolete one, a secret and a foreign
one.  A state's file and its sha256 are the same value, as are a configuration
and its revision.  The write of a commit succeeds at once; its failures are the
subject of `SettingsRuntime`, which in turn knows nothing of sources.

## 4. The runs

| Run | Bounds | Shows |
|---|---|---|
| `last_good_store` | 3 configurations (two of one revision), 2 versions, 3 promotions, 2 disturbances (damaged, edited or exposed files, version changes), repairs that fail at any point | every property of the store, and that it implements the register.  Three promotions fill both slots and overwrite the first; two disturbances are enough for an update followed by a rollback and for two damaged files |
| `settings_commit` | 1 session, 2 live values of different validation groups, an invalid and an undecodable file, all I/O faults | commits under every fault and start mode |
| `settings_promotion` | 2 proofs, 2 cycles of stable readiness, failing promotions, torn reads | the timer and promotion, safety and liveness.  A commit adopts through the same `_set_valid_primary` as a reload, so no session is needed |
| `command_guard` | `GuardWorlds`: charge and discharge of one power, cycles without a request, and one of: outage, stale messages or observations, conflicting observation, expiry of the readback, reboot of the device, restart of the controller; with the local API: discharge and two of outage, expiry, reboot and restart, or of reboot and redelivery of retained reports; the safe state before the first connection | the guard, the opposite command and flash protection.  Flash protection needs two faults: the device loses smartMode, and the connection fails |
| `command_liveness` | discharge, forced and unforced zeros, neutralization; any number of lost messages, one redelivery or contradictory observation | targets take effect, the guard does not latch |
| `measurement_writer` | 7 rows of 2 files that change twice each way, queue of 3, batch of 2, any number of failures, closes and restarts | the buffer, an orderly end and progress |
| `graph_history` | 3 kinds of rows that between them change, keep and drop every field, 2 files, 2 processes, 7 ticks (two buckets), batches of 2, one clock set back | every derived table against the committed rows |
| `local_api` | 2 addresses, polling on and off, with and without backoff, 3 generations | both threads at every interleaving, safety and liveness |
| `control_cycle` | 4 SOC levels at the thresholds, 8 configurations (every mode and every state of Battery Care), 2 power levels | the episode, its share of the target, and the bounds of a discharge |
| `operational_events` | 2 failures, a SOC below and one above their reserves, 2 bad states, 2 stages, one refused access anywhere, any number of restarts; one part of the world moves per behaviour | the incidents and what the journal says in the end, safety and liveness |
| `journal_history` | one followed part of the world, no fault | section 6 |
| `config_transactions` | 3 files (new; with a derived default, a secret and a foreign key; invalid), 2 edits, 1 changed setting, 1 state of all keys or of one under 2 names, 1 export, 1 old file, 3 tokens, stores of 1 | previews and commits of every source, and what they ask |

`config_transactions` has one state, one session and stores of one entry: a
commit looks at its own preview, its own source and the file only, and the next
entry already pushes one out.  Three tokens let two previews and an import, or
three previews, be under way; the theorems hold for any number.

One fault per behaviour of the command path is enough for the interleavings the
guard is about (a guard episode with an outage, reboot or restart at any point of
it), and the guard does not care how smartMode was read; flash protection does,
and has the local API and two faults.  The number of lost or delayed messages is
not bounded.
Every other bound is on data: powers, contents, sessions and rows beyond the
ones listed take the same branches of the code.  Deadlock is checked in every
run whose system goes on for ever; the writer, the graph history and the worker
may stop (the rows are used up, the process has ended).

### Fairness

* `SettingsRuntime`: strong fairness of the loop and of a ready report (the
  loop gets the lock again and again), weak fairness of a commit that holds the
  lock, strong fairness of the promotion thread and of a successful promotion
  (not all promotions fail for ever).  The properties assume in their text what
  the environment has to leave alone: a file that stays, reads that are not all
  torn, readiness that holds.
* `CommandLifecycle`: weak fairness of the loop's two steps, of each time limit,
  of the device following its properties, of power samples and of the
  connection; strong fairness of delivery and reports, that is, any message may
  be lost, but not all of them for ever.  Nothing is assumed of the requests.
* `MeasurementDbWriter`: the thread gets the processor; while the service runs,
  a database that is tried again and again works some time.  In `close` nothing
  is assumed of it.
* `LocalApiWorker`: both threads go on, a request ends by its timeout, deadlines
  pass; for `DataArrives` a device that is asked again and again answers some
  time and its answer is applied before it is old.
* `ControlCycle`: the loop goes on, and a database that is asked to clear the
  latch again and again does so some time.
* `OperationalEvents`: the observer looks every two seconds, also between two
  cycles; cycles complete and time passes.  Nothing says that the world changes
  or that a failure is retried; refusals are bounded.

## 5. The proofs

Every safety property that a run checks is also a theorem.  A theorem holds for every value of the constants that the
module's assumption admits: any number of powers, rows, failures, sessions or
generations, and any number of faults.  The eight `...Proofs` modules each
extend the module they are about; `ControlCycleProofs` extends the Local API
worker as well, whose names therefore carry a prefix where both have one
(`WorkerInit`, `WorkerNext`).  One theorem (`ManagerCurrent`) has a hypothesis beyond the
assumption of its module; it is named with it.

All proofs have the same shape.  A property is seldom inductive, so there is an
invariant that says why it holds; one lemma per operator says what a helper
does to a record of the state, one per action that the step keeps the
invariant, and the theorem combines them.  The largest ones (`DecisionInv`,
`CareInv`, `JournalInv`) were checked by TLC on the instance of their run first;
they are not properties of a run, their consequences are.

### LastGoodStoreProofs

* `TypeCorrect`: the type invariant, one step per action.
* `AnchorTheorem` (`AnchorHolds`), from `AnchorInv`: the type invariant with two
  more facts.  While the pointer is readable, a promotion's target is the other
  slot (`TargetAvoidsPointer`), and between the manifest write and the pointer
  switch the target's manifest is the one this promotion wrote, unless it was
  damaged since (`TargetSealed`).  Without the first a promotion could rewrite
  the slot recovery relies on.  `CurrentDecides` says that with a current
  pointer the choice is the pointer's slot whatever the other slot holds;
  `AnchorStays` and `ChoiceStays` carry this over the steps that leave that
  slot alone, `SwitchInstalls` is the pointer switch.
* `RecoveryDecided` (`RecoveryIsDecided`), from `DecisionInv`: every manifest on
  the disk is one a promotion wrote (`ManifestsSealed`), and `UndecidedNever`
  counts what one disturbance can do.  Undisturbed, two slots have different
  generations, and a promotion under way is newer than both (`Apart`); one
  disturbance may break that, or lose a pointer that existed, but not both, and
  before there was a pointer only slot A was written (`OnlyA`).
* `OneDamagedFile` (`OneDamagedFileSurvives`) and `RepairIsNeutral`
  (`RepairKeepsChoice`) need no more than types: they are facts about
  `SelectRecovery` before and after one step.  The latter covers every way a repair
  fails.  Its exception, `BackInForce`, is the pointer that only its mode or owner
  had put out of force: the failed repair writes its bytes again, private this time
  (section 7).
* `StoreImplementsRegister`: every step of the store is a step of the register
  or a stutter (`StepImplements`).

### SettingsRuntimeProofs

* `TypeCorrect`: the type invariant, with the exclusion of two commits.  It is
  not inductive as it stands: a report of readiness puts what is shown into
  `proven` and hands it to the thread, so `ShownIsValid` (what is shown as
  valid is a configuration) is needed, and a commit writes its candidate, so
  `CandidateIsValid` is (from its token on, a session has one).
* `ClockIsHonest` (`ReadyTimerIsHonest`) and `RecoveryIsProven`
  (`LastGoodWasProven`), from `IInv`.  The clock of `observe_ready` survives an
  adoption exactly when the typed revision stays, so `TypedIsShown` is needed to
  conclude that the configuration stays too; `ClockFollowsProof` says that the
  clock measures the proof observed last; `ShownIsValid` gives that a NORMAL
  process without a pending restart runs the whole configuration
  (`EligibleIsGenuine`), so what reaches the stable-ready time is proven; and
  `WorkerIsProven` carries this through the thread, which may finish after
  another configuration has been adopted.  As in the model, a Last-Good slot
  left by an earlier process counts as proven.
* `AdoptsFromDisk` (`AdoptsOnlyWhatIsOnDisk`): only a valid reload, a verified
  commit and a process start change effective values (`AdoptionStep`).
* `ManagerCurrent` (`ManagerIsCurrent`), from `OfferInv`: the revision offered
  is the file's as long as the fingerprint seen last is (`Offers`), the base of
  a candidate is the content its revision names (`Founded`), and the restart
  part is that of the defaults only in a process that may not control
  (`StartedRight`).  Its hypothesis, `DefaultRest \notin Rest`, makes the default
  a mark of where the values come from: a file may of course name the default
  values, and then nothing can be told by looking at them.
* `CommitKeepsItsBase` (`CommitReplacesItsBase`), from `AllBased`: a candidate
  whose preview was not disturbed was built on the content its revision names,
  and a commit that got past its read has read that content.

`ManagerStep` sorts the steps once, for the first four: a start, an adoption, a
noted invalid file, or a step that keeps what is shown.

### ConfigTransactionsProofs

* `TransactionsTypeCorrect`: the type invariant and that every preview was
  prepared (`PreviewsAreBuilt`).  `IInv` types the stores by what is in them:
  imports hold bundles that know the values of their keys (`KnowsItsValues`,
  which named states keep, too), and previews are `Prepared`, that is, built
  from their source and the revision they carry (`BuiltFromItsSource`).  It also
  says what a request carries from one step to the next, since the base may be
  reloaded between them.
* `SourceIsLoaded` (`CommitLoadsItsSource`): `CommitReplaces` says that a commit
  replaces the very file its preview was built on by its candidate;
  `BuiltFromItsSource` and `SourceUnchanged` make this candidate the one of the
  source as it is now, and `CandidateLoads` reads it key by key.
* `NothingIsUnconfirmed` (`NothingUnconfirmed`): the codes a preview carries are
  the warnings of its candidate, and each of the changes in question is among
  them.
* `TransactionsConsistent` (`TransactionsAreConsistent`).  The bound on the
  saved states is not inductive: the place is counted when the request begins
  and taken some steps later.  `BoundInv` adds that it is still free then
  (`SavingHasRoom`), for no other request runs in between.

### CommandLifecycleProofs

`CommandInv` is the type invariant with three facts.  `Coherent`: the desired
batch is one the controller can build, it is the one of the target, and a
neutralization and the guard go with a zero target.  `CountInv`: what the guard
has counted was observed under it.  `DeviceInv`: the device has a value for
each property.  Every handler is shown to take a record `s = [c, sent]` from
one such state to another: what it publishes (`SendEffect`, `GateEffect`), what
it records (`RecordEffect`), and what it does not touch.

* `CommandConsistency` (`CommandsAreConsistent`) and `GuardProtects`
  (`GuardHolds`) follow from `CommandInv`.
* `OppositeIsProven` (`OppositeNeedsProof`) needs `EffectInv`: an active command
  without effect stays the desired one, and marked as mismatched, with its
  reaction timer run out, until the guard takes over (`Pending`); a tracking
  timer never runs ahead of the reaction timer (`Aged`), so nothing but an
  observation, or a smaller target the monitor cannot judge, ends that.
* `FlashIsProtected` (`FlashProtected`) needs `FlashInv`: whenever something says
  that smartMode is on (`Believed`: the readback, a snapshot not yet applied, a
  report the broker keeps, an active limit on its way), the device has it on, or
  `suspect` holds.  It has no hypothesis: the local API, retained reports and any
  number of faults are covered.

### MeasurementDbWriterProofs

* `WriterConsistency` (`WriterIsConsistent`), from `WriterInv`.  `StopInv`: only
  a closing writer is asked to stop, and the sentinel is the last thing in the
  queue (`Ordered`).  `HoldsInv`: what the thread holds at each of its places;
  the three reasons for a flush differ in whether a row of another path waits
  beside the batch, and that nothing is left at the end needs all of them.
* `WriterImplementsFifo` (`ImplementsFifo`): every step is a step of
  `MeasurementFifo` or a stutter under `Backlog == batch \o deferred \o
  Rows(queue)`.  That a flush stores a prefix of the backlog is the fact that
  deferred rows come after the batch and before the queue.

### ControlCycleProofs

Six theorems, from `CareInv`: the target and the flags that account for Battery
Care's part of it (`TargetInv`), the place in the cycle (`FlowInv`), memory
against the database (`EpisodeInv`: once loaded, the latch is what the database
would be read as), the end of an episode (`StopInv`: after a cycle without
Battery Care it is gone, or it is known that it could not be removed), and what
an intent means (`IntentInv`: there is one only after the episode was persisted
and before the end of the cycle).

* `CareConsistent` (`CareIsConsistent`), `PersistedFirst`
  (`PersistedBeforeCommand`) and `StopHolds` (`StoppedStaysStopped`) follow from
  it; the last two are `IntentInv` at a grid charge.  `StopHolds` covers restarts
  of a process that cleared the episode; for one that failed to, it ends with the
  process, as the code's refusal does (section 7).
* `ReversalPassesZero` (`NoDirectReversal`) and `ReserveHolds`
  (`ReserveIsKept`): what each handler does to the target is a lemma about
  `HandleCharge`, `HandleDischarge`, `HandleDeadband` and the night mode, and
  `SameSide` carries the sign through the cycle.
* `EpisodeKeepsReserve` (`EpisodeEndsAtItsReserve`): `EpisodeEnds` is what one
  decision may make of a saved episode.

Two more are about the Local API worker:

* `WakeUpsArrive` (`WorkerIsInformed`): `NoLostWakeUp` looks at a worker that
  waits; `Informed` says the same from the head of the turn on, for what the
  worker waits with was read there, after the event had been cleared.
* `AppliedFromItsDevice` (`AppliedIsCurrent`), from `OriginInv`: a generation is
  given to one configuration only, so data of the current generation were read
  from the current address, whatever was published in between.

### OperationalEventsProofs

* `JournalConsistent` (`JournalIsConsistent`) and `FailureClosed`
  (`FailureIsClosedByProof`), from `JournalInv`.  The rows of the two followed
  incidents agree with what the journal of a running observer remembers unless
  a write of this process was refused (`Agrees`); for the end of an incident to
  close everything, only a row that is open may have older ones that are
  (`RowsAreWhole`).  A candidate counts no sample twice and none from before its
  row was written (`Within`): its count, and one more for a current sample it
  has not counted, never exceed the samples at the reserve, which is why the
  second journal and a refused write cannot close a row early.
* An observation is a chain of five handlers of which an exception skips the
  rest (`Pipeline`).  `Observing` is what each handler keeps; `RecoverRows` is
  shared by the two journals.

### GraphHistoryProofs

A batch is a fold of `WriteRow` over its rows, and a table is compared with all
rows ever committed.  The library's induction theorems take an operator as
parameter, so the induction is over the set of the indices up to which a fact
holds (`UpTo`), from the well-foundedness of the naturals (`WFMin`); that the
recursive functions of the model exist is proved in the same way
(`AfterRowsSteps`, `SumSteps`, `ExtendAllSteps`).  The stages of `WriteRow` each
touch one view and leave the others alone (`WriteRowStages` and the frame lemmas
before it), so each view has an invariant of its own:

* `MinutesMatchSamplesHolds` (`MinutesMatchSamples`), from `MinuteInv`: an
  aggregate counts a sample exactly when `INSERT OR IGNORE` takes it.  Nothing is
  assumed of the order of the rows, the runs or the files.
* `HistoryMatchesRowsHolds` (`HistoryMatchesRows`), from `HistoryInv`, whose parts
  are
  * `Base` and `Order`: types, and that the batch goes on from the log: a publish
    id never goes back within a process, a time not before the clock is set back;
  * `RunsInv`: the rows of a file name only runs it has registered, a session that
    is registered has its run there, and one that is not has no rows there unless
    the file was left and come back to.  It is what makes a new session's empty
    memory the truth;
  * `EventsInv`: the events are the publishes of the committed rows, each once, and
    `last_publish` is the last of this run;
  * `TimelineInv`: at the time of every row the timeline says its configuration,
    and a remembered hash is the one in force at the end of the timeline;
  * `TopologyInv`: the last entry of a unit says whether the last list had it, the
    session's cache agrees with those entries, and its known units are that list;
  * `IntervalsTyped` and `IntervalsInv`: what the session holds open is open in the
    table; the intervals of the running process show its rows (`Holds`); those of
    earlier runs show theirs and lie before the end the run has committed, but for
    the tick that includes it (`Past`); and they are closed once a later run has
    written (`Superseded`).  `EnsureRun` closes a run's open intervals one tick after
    its last row: the lemma `TidiedPast` is that no row of that run notices;
  * `EvidenceInv`: every time with a power is covered, in every history; while the
    clock is not set back a segment begins and ends at such times and bridges no
    silence as long as the gap (`Backed`).  `MergedPoints` is the same fact about
    `_merge_ranges`, and `ExtendBacked` needs the batch to be later than the log.
* `TypesHold` (`TypeOK`), from the first parts.

A failed batch needs one more fact, and it is the same for all of them: rolling back
leaves the tables and the memory as the bind left them, and a change of the file or a
restart leaves a memory that knows nothing (`MemoryKept`, `WriteFailsIs`, `RestartIs`).
The mutant that keeps the builders of a rolled-back batch breaks exactly this.

### What stays with TLC

* Liveness under fairness, which the proof system used does not cover:
  `ValidFileIsAdopted`, `StableConfigIsPromoted`, `GuardNoLatch`,
  `TargetTakesEffect`, `WriterProgresses`, `WorkerServes`, `StopIsForgotten`,
  `FailureIsRecorded`, `JournalFollowsState`, and the violated
  `DiagnosisIsJournalled`.
* That the bounds of an instance reach the interesting cases, which a theorem
  cannot say of itself: every disjunct of a next-state relation fires in some run,
  and every property has a mutant of the code that violates it.

## 6. Where the code differs from its documents

`journal_history` (`PROJECT.json`, `findings`): the first look of a process
assumes the opposite state before it and starts the stability window; when the
state then changes before the window has ended, `_stable_incident` compares the
changed state with the assumed one, finds them equal and drops the candidate.  A
fault that begins right after a good first look is not journalled while it
lasts, and an incident the previous process left open stays open although the
state is good, where the comment at `operational_events.py:343` promises that
the journal stays consistent with the current diagnosis.

## 7. Observations

Met while modelling.  No run claims them; the properties exempt them by name
where they concern one.

Last-Good store:
* Without a pointer, `promote` writes slot A even if A is the only valid slot;
  the anchor guarantees nothing then.  The same holds after an update and its
  rollback.
* A slot whose configuration is damaged no longer counts for the next
  generation although its manifest still does, so a generation can be used
  twice and a later recovery without a pointer fails closed as ambiguous.
* After a crash between manifest and pointer, damage to the pointed slot makes
  recovery refuse the newer valid slot.
* A failed repair writes the old pointer again with mode 0600.  Had it been out of
  force only because of its mode or owner, it is in force again and may choose
  another slot than the preview showed, or none: a pointer to generation 1 of slot
  A is exposed, a promotion writes generation 2 there and crashes before its
  pointer, a repair fails, and the old pointer names a generation A no longer has.
  `RepairKeepsChoice` exempts exactly this.

Settings runtime:
* `preview` reads revision and base in two lock acquisitions; a change to
  another content and back in between leaves a candidate built on the middle
  one (`clean` exempts it).
* A commit owes the subsystems a change edge; an external change before the
  next cycle cancels it, also when that change alters no effective value
  (`settings_runtime.py:997`).
* A failed or torn read has no revision and compares equal to the empty
  revision of a missing file (`settings_runtime.py:1072`).
* After a failed rollback the compare-and-set revision names bytes that were
  never decoded (`rollbackFailed` exempts it).
* A rollback overwrites an edit made between write and verification, and an
  edit between the compare-and-set read and the rename is lost.
* An unreadable file is noted once and not read again until it is touched.
* A process that started without a usable configuration (CONFIG_ERROR) becomes
  NORMAL by an edit or a commit and may then send commands with the restart
  defaults (`diagnostic` exempts it).
* Outside NORMAL an invalid edit is seen once and never shown; "configured" and
  the compare-and-set revision stay behind and every commit conflicts.
* A reload refuses files that change the grid meter source or the database
  path, which a start or a commit accepts.
* A promotion that fails after its pointer switch leaves the store with the new
  configuration and the process believing in the old one, which is then not
  promoted again (`Superseded` exempts it).
* The stable-ready clock runs on over cycles whose observer raised.

Command path:
* The guard takes a 0/0 readback from before its own zero limits for proof and
  may let go while an active limit is in the device (`controller_logic.py:562`).
* A zero target without `force_zero` stores 0 and publishes nothing; the device
  goes on until a later cycle forces it (`controller_logic.py:2671`).
* A target below the diagnostic threshold clears a confirmed mismatch, and the
  opposite command passes without proof (`controller_logic.py:3155`).
* A cycle that makes no request does not continue a batch that waits for
  smartMode.
* A retained smartMode report counts as fresh after a reconnect: it carries its
  time of arrival.  `suspect` exempts it from `FlashProtected` once the device has
  lost smartMode.
* A snapshot of the local API that was read before the connection was lost sets
  smartMode again after `on_connect` has invalidated it
  (`controller_logic.py:1785`), and an active limit is sent before anything was
  read over the new connection; the docstring at `state.py:1211` says "Require
  fresh read-back before incremental dynamic control resumes."
* The monitor keeps its watch over a neutral phase, so a new command of the
  same direction after one may be a confirmed mismatch at its first evaluation.
* A neutralization may be deduplicated by a readback older than the
  controller's last publish; the monitor recovers it.
* A limit update that is lost below the tolerance is not repeated (by design).
* A guard that is activated while disconnected does not send its zeros, and may
  release on a 0/0 readback after a short outage.
* A restart forgets an unresolved mismatch.

Control cycle and Battery Care:
* In AUTO the discharge stops at the seasonal reserve; MIN_SOC itself bounds it
  in `handle_discharge` and, at night, in `run_once`, but `handle_deadband`
  checks only the reserve (`controller_logic.py:4694`), so a standing discharge
  within the deadband passes MIN_SOC when no reserve is in force, where
  `03_ZEC_CONTROL_AND_SAFETY_INVARIANTS.md:40` calls that limit hard.
* At night `run_once` takes the output for neutralized at MIN_SOC; when the SOC
  fell there after that check a standing discharge lasts one more cycle.
* A latch whose clearing failed is not cleared again in AUTO once Battery Care is
  switched on again; it is only refused, and the refusal
  (`_care_grid_clear_failed`) is kept in memory.  After a restart the episode is
  loaded and charges again, where the docstring at `controller_logic.py:1180` says
  "On an actual clearing I/O failure, keep refusing a new grid request until the
  original DB becomes writable again."  `StoppedStaysStopped` exempts it by name.
* The care baseline of before a safety stop stays in memory, and the first charge
  after it starts from there, not from zero.
* A grid-care charge checks MAX_SOC only through the reserve, so a confirmation
  of the recovery may last above it.
* Night and fixed manual modes may reverse the battery in one cycle.

Local API worker:
* A backoff that began under one address is kept for a new one until it ends
  (`zendure_local_api.py:357`), where
  `SPEZIFIKATION_ZEC_V12_11_2_RC18_RCC_ASYNC_LOCAL_API_FINAL.md:394` says "Backoff
  wird für die neue Zieladresse zurückgesetzt".  `WorkerServes` only says that the
  new address is polled in the end.
* A snapshot is applied one cycle after it was read and overwrites the command
  properties of a later MQTT report (`state.py:1129`).

Measurement writer and graph history:
* A batch the store always refuses is retried for ever and fills the queue.
* The history is guaranteed for a clock that runs forward: after a step back the
  intervals left open are not closed by the run's end, and the evidence may
  span the step.  The same holds for a process that leaves a file and comes
  back to it: its own intervals of before stay open.
* `_avg_update` of the V2 database weighs by `sample_count`, counts rows without
  a value and counts a repeated timestamp twice.

Event journal:
* `_resolve` begins a transaction that nothing ends when no row matches; until
  the next commit every other writer of the file (the emergency failure with
  its 0.2 s, the Battery Care latch, administrative entries) is refused, and
  the observer's own next transaction fails and drops that observation.
* A second bad state more than thirty minutes after the first opens a second
  row, in spite of the comment at `operational_events.py:290`.
* The observer remembers a new state before its row is written
  (`operational_events.py:276`): a refused write is not repeated while the state
  lasts.  `JournalIsConsistent` exempts a process with such a write (`lost`).  A
  refused start ends the observer for the process.

Named states and imports:
* A named state or an export reads the raw and the resolved configuration one
  after the other (`config_bundle.py:201`); a reload in between leaves explicit
  values of one file beside resolved values of another, and loading it asks
  about inherited values that never changed.
* A preview of a state or import builds its candidate before it compares the
  revision the client asked for; a reload that brings this very revision in
  between leaves a candidate built on the file of before (`clean` exempts it).
* A commit whose confirmations are incomplete uses its preview up
  (`settings_service.py:396`); the client has to preview again.
* Renaming a named state between preview and commit is a conflict, although the
  values are the same: its revision is the hash of the whole file.
* The limits of previews and imports are enforced before an insertion, so each
  store may hold one more than its limit.

## 8. What is not modelled, and why

* Encoding and checks of a bundle's structure (canonical JSON, integrity hash,
  unsafe files): a bundle that fails them has no effect.  Texts, risk classes and
  the apply plan of a preview.
* The Modbus worker and the live samplers: one thread that publishes whole
  samples under a lock.
* Fast Capture and the rest-surplus harvest: arithmetic over confirmation
  times; in `ControlCycle` an arbitrary base within one step.
* The settings registry, validators, codecs, help and translations are tables
  and pure functions; `SettingsRuntime` takes from them which contents are
  valid and which part of a configuration needs a restart.
* Web views, status pages and graph queries read snapshots and databases and
  change nothing; the exclusion of two instances is the kernel's `flock`;
  register decoding and protocol parsing of the meters are data.
* The V2 tables and the encoding of the V4 database (single-writer
  transactions whose content is data); maintenance tools, installer, offline
  replay, tests and documents.
* In the command path: clamping and wording, the counters of the high-SOC
  acceptance classification (it is a free alternative of the evaluation), and
  the compatibility path for test doubles without smartMode.  In the control
  cycle: a missing SOC, and the arithmetic named in 3.7.

## 9. Running it

    tlc -workers 2 -config CommandGuard.cfg MCCommandLifecycle
    for m in *Proofs.tla; do tlapm $m; done

The module of a run and its configuration are in `PROJECT.json`.
