--------------------------- MODULE LocalApiWorker ---------------------------
(* The background thread that polls the device's local HTTP API                *)
(* (zendure_local_api.py: ZendureLocalApiWorker) and the control loop that     *)
(* configures it, applies its last snapshot and ends it (controller_logic.py:  *)
(* run_forever, update_zendure_telemetry_from_local_api_snapshot, close).      *)
(*                                                                             *)
(* A configuration is a generation, whether polling is on, the address and     *)
(* whether an error backs off.  A snapshot keeps what the loop and the worker  *)
(* read of it again: state, generation, last good data with its generation,    *)
(* and the backoff.  A deadline is a flag that time clears (Cool, Due, GrowOld);   *)
(* sequence numbers that are only compared for "changed since I looked" are    *)
(* flags too (news, newData).  Error texts, durations and counters, and which  *)
(* of the applied values become the active SOC and power, are left out.        *)
EXTENDS Naturals

CONSTANTS
  Address,        \* addresses of the local API
  NoAddress,
  Settings,       \* contents of the settings file, see Setting
  MaxGen          \* bound: configuration generations of one process

Setting == [on : BOOLEAN, ip : Address, backs : BOOLEAN]

ASSUME SettingsAssumption == Settings \subseteq Setting /\ Settings # {}
ASSUME NoAddressAssumption == NoAddress \notin Address
ASSUME MaxGenAssumption == MaxGen \in Nat \ {0}

VARIABLES
  config,         \* _config: the generation and the settings of it
  stop, wake,     \* the two events of the worker
  thread,         \* where the worker thread is
  mine,           \* the worker's cfg (active_, request_), after a superseded
                  \* request its current_cfg
  due,            \* next_poll_monotonic has passed
  snap,           \* _snapshot
  aged,           \* the last success is older than the stale limit
  news,           \* the loop has not seen this snapshot_sequence
  newData,        \* data_success_sequence is above the last applied one
  telemetry,      \* what the loop applied last
  running,        \* _running of the controller
  loop            \* where the control loop is

worker == <<thread, mine, due>>
workerVars == <<config, stop, wake, worker, snap, aged, news, newData,
                telemetry, running, loop>>

Configuration == [gen : 1..MaxGen, set : Settings]
Data == [ip : Address, gen : 1..MaxGen]
NoData == [ip |-> NoAddress, gen |-> 0]
WorkerState == {"DISABLED", "IDLE", "REQUESTING", "BACKOFF", "STOPPING", "STOPPED"}

Rest(c) == IF c.set.on THEN "IDLE" ELSE "DISABLED"

(***************************************************************************)
(* The configuration and the events.                                       *)
(***************************************************************************)
(* update_config: other settings are a new generation; the event follows   *)
(* after the lock.                                                         *)
NextGen(c) == c.gen + 1

UpdateConfig(s) ==
  /\ loop = "cycle" /\ running
  /\ s # config.set /\ config.gen < MaxGen
  /\ config' = [gen |-> NextGen(config), set |-> s]
  /\ loop' = "updated"
  /\ UNCHANGED <<stop, wake, worker, snap, aged, news, newData, telemetry, running>>

(* The end of update_config, and of both request_stop calls.               *)
SetWake ==
  /\ \/ loop = "updated" /\ loop' = "apply"
     \/ loop = "signalled" /\ loop' = "cycle"
     \/ loop = "closing" /\ loop' = "closed"
  /\ wake' = TRUE
  /\ UNCHANGED <<config, stop, worker, snap, aged, news, newData, telemetry, running>>

(* run_forever begins with start, which clears both events.                *)
StartWorker ==
  /\ loop = "init"
  /\ stop' = FALSE /\ wake' = FALSE /\ thread' = "begin" /\ loop' = "cycle"
  /\ UNCHANGED <<config, mine, due, snap, aged, news, newData, telemetry, running>>

(* The signal handler interrupts the loop: request_stop of the controller. *)
(* A signal before run_forever ends the loop at its first test.            *)
Signal ==
  /\ running /\ loop \in {"init", "cycle"}
  /\ running' = FALSE
  /\ stop' = TRUE
  /\ IF loop = "init" THEN wake' = TRUE /\ UNCHANGED loop
                      ELSE loop' = "signalled" /\ UNCHANGED wake
  /\ UNCHANGED <<config, worker, snap, aged, news, newData, telemetry>>

(* close, after the loop; its join may end without the thread.             *)
Close ==
  /\ loop = "cycle" /\ ~running
  /\ stop' = TRUE
  /\ loop' = "closing"
  /\ UNCHANGED <<config, wake, worker, snap, aged, news, newData, telemetry, running>>

(***************************************************************************)
(* The control loop applies the snapshot.                                  *)
(***************************************************************************)
\* ValidAnyGeneration: relies on the worker's own comparison.
ValidAnyGeneration(sn, c) == sn.data # NoData
SnapshotValid(sn, c) == sn.data # NoData /\ sn.data.gen = c.gen

ApplySnapshot ==
  /\ loop \in {"cycle", "apply"} /\ running
  /\ loop' = "cycle"
  /\ news
  /\ news' = FALSE
  /\ IF newData /\ SnapshotValid(snap, config) /\ ~aged
     THEN telemetry' = [ip |-> snap.data.ip, gen |-> config.gen] /\ newData' = FALSE
     ELSE UNCHANGED <<telemetry, newData>>
  /\ UNCHANGED <<config, stop, wake, worker, snap, aged, running>>

(* Nothing new since the last cycle.                                       *)
SkipSnapshot ==
  /\ loop = "apply" /\ running /\ ~news
  /\ loop' = "cycle"
  /\ UNCHANGED <<config, stop, wake, worker, snap, aged, news, newData, telemetry, running>>

(***************************************************************************)
(* The worker thread.                                                      *)
(***************************************************************************)
Publish(changes) == snap' = changes /\ news' = TRUE

(* _run before its loop: the generation of its first reading is active.    *)
BeginThread ==
  /\ thread = "begin"
  /\ mine' = config /\ due' = TRUE
  /\ Publish([snap EXCEPT !.gen = config.gen, !.state = Rest(config)])
  /\ thread' = "top"
  /\ UNCHANGED <<config, stop, wake, aged, newData, telemetry, running, loop>>

(* The head of the loop: the stop event, then the configuration; a new     *)
(* generation polls at once.                                               *)
\* RereadOnNewAddress: only another address is taken for a change.
RereadOnNewAddress(c, old) == IF c.set.ip = old.set.ip THEN old ELSE c
Reread(c, old) == c

Top ==
  /\ thread = "top"
  /\ IF stop
     THEN thread' = "ending" /\ UNCHANGED <<mine, due>>
     ELSE /\ thread' = "turn"
          /\ mine' = Reread(config, mine)
          /\ due' = (due \/ config.gen # mine.gen)
  /\ UNCHANGED <<config, stop, wake, snap, aged, news, newData, telemetry, running, loop>>

(* The rest of a turn acts on the configuration read at its head.          *)
TurnDisabled ==
  /\ thread = "turn" /\ ~mine.set.on
  /\ IF snap.state # "DISABLED" \/ snap.gen # mine.gen
     THEN Publish([snap EXCEPT !.gen = mine.gen, !.state = "DISABLED", !.backoff = NoAddress])
     ELSE UNCHANGED <<snap, news>>
  /\ thread' = "wait"
  /\ UNCHANGED <<config, stop, wake, mine, due, aged, newData, telemetry, running, loop>>

TurnBackoff ==
  /\ thread = "turn" /\ mine.set.on /\ snap.backoff # NoAddress
  /\ IF snap.state # "BACKOFF"
     THEN Publish([snap EXCEPT !.gen = mine.gen, !.state = "BACKOFF"])
     ELSE UNCHANGED <<snap, news>>
  /\ thread' = "wait"
  /\ UNCHANGED <<config, stop, wake, mine, due, aged, newData, telemetry, running, loop>>

TurnIdle ==
  /\ thread = "turn" /\ mine.set.on /\ snap.backoff = NoAddress /\ ~due
  /\ IF snap.state \notin {"IDLE", "BACKOFF"}
     THEN Publish([snap EXCEPT !.gen = mine.gen, !.state = "IDLE"])
     ELSE UNCHANGED <<snap, news>>
  /\ thread' = "wait"
  /\ UNCHANGED <<config, stop, wake, mine, due, aged, newData, telemetry, running, loop>>

TurnRequest ==
  /\ thread = "turn" /\ mine.set.on /\ snap.backoff = NoAddress /\ due
  /\ Publish([snap EXCEPT !.gen = mine.gen, !.state = "REQUESTING"])
  /\ thread' = "fetch"
  /\ UNCHANGED <<config, stop, wake, mine, due, aged, newData, telemetry, running, loop>>

(* The request is answered or fails; either way the configuration is read  *)
(* again and its generation compared before the result is published.       *)
Superseded(c, request) == c.gen # request.gen

Fetched(outcome) ==
  /\ thread = "fetch"
  /\ IF Superseded(config, mine)
     THEN thread' = "late" /\ mine' = config
     ELSE thread' = outcome /\ UNCHANGED mine
  /\ UNCHANGED <<config, stop, wake, due, snap, aged, news, newData, telemetry, running, loop>>

Answered == Fetched("success")
Failed == Fetched("failure")

PublishSuperseded ==
  /\ thread = "late"
  /\ Publish([snap EXCEPT !.gen = mine.gen, !.state = Rest(mine), !.backoff = NoAddress])
  /\ due' = TRUE /\ thread' = "top"
  /\ UNCHANGED <<config, stop, wake, mine, aged, newData, telemetry, running, loop>>

PublishSuccess ==
  /\ thread = "success"
  /\ Publish([gen |-> mine.gen, state |-> "IDLE", backoff |-> NoAddress,
              data |-> [ip |-> mine.set.ip, gen |-> mine.gen]])
  /\ newData' = TRUE /\ aged' = FALSE
  /\ due' = FALSE /\ thread' = "top"
  /\ UNCHANGED <<config, stop, wake, mine, telemetry, running, loop>>

PublishFailure ==
  /\ thread = "failure"
  /\ Publish([snap EXCEPT !.gen = mine.gen,
                          !.state = IF mine.set.backs THEN "BACKOFF" ELSE "IDLE",
                          !.backoff = IF mine.set.backs THEN mine.set.ip ELSE NoAddress])
  /\ due' = FALSE /\ thread' = "top"
  /\ UNCHANGED <<config, stop, wake, mine, aged, newData, telemetry, running, loop>>

(* _wait: the event or the time ends it; the event is cleared after.       *)
AfterWake == "clear"

WaitEnds ==
  /\ thread = "wait"
  /\ thread' = AfterWake
  /\ UNCHANGED <<config, stop, wake, mine, due, snap, aged, news, newData, telemetry, running, loop>>

\* TurnWithoutReading: goes on with the configuration it waited with.
TurnWithoutReading == "turn"
AfterClear == "top"

ClearWake ==
  /\ thread = "clear"
  /\ wake' = FALSE
  /\ thread' = AfterClear
  /\ UNCHANGED <<config, stop, mine, due, snap, aged, news, newData, telemetry, running, loop>>

Ending ==
  /\ thread = "ending"
  /\ Publish([snap EXCEPT !.state = "STOPPING"])
  /\ thread' = "closing"
  /\ UNCHANGED <<config, stop, wake, mine, due, aged, newData, telemetry, running, loop>>

Ended ==
  /\ thread = "closing"
  /\ Publish([snap EXCEPT !.state = "STOPPED"])
  /\ thread' = "ended"
  /\ UNCHANGED <<config, stop, wake, mine, due, aged, newData, telemetry, running, loop>>

(***************************************************************************)
(* Time.                                                                   *)
(***************************************************************************)
Cool ==
  /\ snap.backoff # NoAddress
  /\ snap' = [snap EXCEPT !.backoff = NoAddress]
  /\ UNCHANGED <<config, stop, wake, worker, aged, news, newData, telemetry, running, loop>>

Due ==
  /\ ~due
  /\ due' = TRUE
  /\ UNCHANGED <<config, stop, wake, thread, mine, snap, aged, news, newData, telemetry,
                 running, loop>>

GrowOld ==
  /\ snap.data # NoData /\ ~aged
  /\ aged' = TRUE
  /\ UNCHANGED <<config, stop, wake, worker, snap, news, newData, telemetry, running, loop>>

(***************************************************************************)
(* The specification.                                                      *)
(***************************************************************************)
WorkerInit ==
  /\ \E s \in Settings : config = [gen |-> 1, set |-> s]
  /\ stop = FALSE /\ wake = FALSE
  /\ thread = "off" /\ mine = config /\ due = TRUE
  /\ snap = [gen |-> 1, state |-> Rest(config), data |-> NoData, backoff |-> NoAddress]
  /\ aged = FALSE /\ news = TRUE /\ newData = FALSE
  /\ telemetry = NoData
  /\ running = TRUE /\ loop = "init"

WorkerStep == \/ BeginThread \/ Top
              \/ TurnDisabled \/ TurnBackoff \/ TurnIdle \/ TurnRequest
              \/ Answered \/ Failed
              \/ PublishSuperseded \/ PublishSuccess \/ PublishFailure
              \/ WaitEnds \/ ClearWake \/ Ending \/ Ended

LoopStep == SetWake \/ StartWorker \/ Close \/ ApplySnapshot \/ SkipSnapshot

WorkerNext == \/ WorkerStep \/ LoopStep \/ Signal
              \/ \E s \in Settings : UpdateConfig(s)
              \/ Cool \/ Due \/ GrowOld

WorkerSpec == WorkerInit /\ [][WorkerNext]_workerVars

(* Both threads go on, a request ends by its timeout, and deadlines pass.  *)
FairWorkerSpec == /\ WorkerSpec
                  /\ WF_workerVars(WorkerStep) /\ WF_workerVars(LoopStep)
                  /\ WF_workerVars(Cool) /\ WF_workerVars(Due)

(* In addition, a device that is asked again and again answers some time   *)
(* and its answer is applied before it is old.                             *)
AnsweringSpec == /\ FairWorkerSpec
                 /\ SF_workerVars(Answered)
                 /\ SF_workerVars(ApplySnapshot /\ telemetry' # telemetry)

(***************************************************************************)
(* Properties.                                                             *)
(***************************************************************************)
WorkerTypeOK ==
  /\ config \in Configuration /\ mine \in Configuration
  /\ stop \in BOOLEAN /\ wake \in BOOLEAN /\ due \in BOOLEAN /\ running \in BOOLEAN
  /\ aged \in BOOLEAN /\ news \in BOOLEAN /\ newData \in BOOLEAN
  /\ thread \in {"off", "begin", "top", "turn", "fetch", "late", "success", "failure",
                 "wait", "clear", "ending", "closing", "ended"}
  /\ loop \in {"init", "cycle", "updated", "apply", "signalled", "closing", "closed"}
  /\ snap \in [gen : 1..MaxGen, state : WorkerState, data : Data \cup {NoData},
               backoff : Address \cup {NoAddress}]
  /\ telemetry \in Data \cup {NoData}

(* What the loop applies was read from the device of the configuration it  *)
(* controls with, although the worker compares the generation before and   *)
(* not while it publishes, and although the snapshot stays after a change. *)
AppliedIsCurrent ==
  [][telemetry' # telemetry => /\ telemetry'.ip = config.set.ip
                               /\ config.set.on]_workerVars

(* No wake-up is lost: a worker that waits without the event set knows     *)
(* the current configuration and no stop, unless the other thread is just  *)
(* about to set the event.                                                 *)
NoLostWakeUp ==
  (thread = "wait" /\ ~wake) =>
    /\ mine = config \/ loop = "updated"
    /\ ~stop \/ loop \in {"signalled", "closing"}

(* The two threads agree on the configuration, the stop and the event.     *)
WorkerIsInformed == WorkerTypeOK /\ NoLostWakeUp

(* A signal ends the worker, also out of a backoff, a wait or a request,   *)
(* and also when it came before the thread was started.                    *)
StopEnds == ~running ~> (thread = "ended" /\ snap.state = "STOPPED")

(* Every generation that stays is polled, whatever the worker did when it  *)
(* came: no change is overlooked.                                          *)
GenerationIsPolled ==
  \A g \in 1..MaxGen :
    (config.gen = g /\ config.set.on /\ running)
      ~> (thread = "fetch" /\ mine.gen = g) \/ config.gen # g \/ ~running

(* With a device that answers, the loop gets the data of the configuration *)
(* it stays with.                                                          *)
DataArrives ==
  \A g \in 1..MaxGen :
    (config.gen = g /\ config.set.on /\ running)
      ~> telemetry.gen = g \/ config.gen # g \/ ~running

(* Every change, every answer and the stop are attended to.                *)
WorkerServes == StopEnds /\ GenerationIsPolled /\ DataArrives
=============================================================================
