------------------------- MODULE OperationalEvents -------------------------
(***************************************************************************)
(* The operational event journal (operational_events.py).  The observer,   *)
(* a thread of the web interface, compares a snapshot of the controller    *)
(* state with what it saw before and keeps one SQLite file of incidents;   *)
(* the control loop writes a confirmed emergency-charge failure into the   *)
(* same file through a journal and a connection of its own                 *)
(* (controller_logic.py, the command-effect monitor).                      *)
(*                                                                         *)
(* Of the incidents followed by _transition (mqtt, command_effect,         *)
(* measurement_logging) one key, "effect", is kept, and of those followed  *)
(* by _stable_incident (grid and Zendure telemetry) one, "grid".  A stage  *)
(* stands for the stage and its policy floor.  Titles, details and the     *)
(* bound of 10000 resolved rows are left out.                              *)
(*                                                                         *)
(* Time is kept as three facts: a stability window or the three seconds of *)
(* a recovery have elapsed (Elapse), and a row is older than the window in *)
(* which a new incident is merged into it (LongElapse).  Of sample and     *)
(* cycle numbers only their equality with the last one used is kept.       *)
(***************************************************************************)
EXTENDS Naturals, FiniteSets

CONSTANTS Good,      \* the effect state that is no incident
          Bad,       \* the effect states that are one
          Failures,  \* emergency failures, numbered in the order they occur
          Reserve,   \* Reserve[f]: the reserve SOC of failure f
          Soc,       \* fresh SOC values; 0 stands for a stale or missing one
          Stages,    \* Battery-Care stages of completed controller cycles
          Quiet,     \* those not worth a first entry (NONE, STOP_HOLD)
          None,      \* no failure, no stage, nothing seen yet
          Moves,     \* which parts of the world may move in one behaviour
          MaxFaults  \* refused database accesses, at most

Parts == {"effect", "grid", "care", "stage"}

ASSUME EventsAssumption ==
  /\ Good \notin Bad
  /\ None \notin Bad \cup {Good} \cup Failures \cup Stages
  /\ None \notin BOOLEAN
  /\ Failures \subseteq Nat
  /\ Soc \subseteq Nat \ {0}
  /\ Reserve \in [Failures -> Nat \ {0}]
  /\ Quiet \subseteq Stages
  /\ Moves \subseteq SUBSET Parts
  /\ MaxFaults \in Nat

VARIABLES
  world,    \* what the snapshots say: effect, grid, soc, stage
  moving,   \* the parts of the world that move
  control,  \* the control loop's failure record and its own journal
  observer, \* the observer thread and what it remembers
  db,       \* the committed rows, and a transaction the observer left open
  high,     \* high[f]: distinct samples at the reserve since f was recorded
  faults    \* refused accesses so far

vars == <<world, moving, control, observer, db, high, faults>>

-----------------------------------------------------------------------------
(***************************************************************************)
(* Rows of the two followed incidents.  latest: the newest row of the key; *)
(* older: rows before it are open as well.                                 *)
(***************************************************************************)
NoRows == [latest |-> "none", recent |-> FALSE, older |-> FALSE]

\* Merge with a recent row of the key, whether it is open or resolved (a
\* resolved one starts anew), otherwise insert another row.
Add(row) ==
  IF row.recent /\ row.latest # "none"
  THEN [row EXCEPT !.latest = "open"]
  ELSE [latest |-> "open", recent |-> TRUE,
        older |-> row.older \/ row.latest = "open"]

\* Only the newest row is closed.
ResolveNewest(row) ==
  IF row.latest = "open" THEN [row EXCEPT !.latest = "resolved"] ELSE row

\* Every open row of the key is closed, also those of earlier processes.
Resolve(row) ==
  IF row.latest = "open"
  THEN [row EXCEPT !.latest = "resolved", !.older = FALSE] ELSE row

\* The recovery of one incident row that a journal follows.
Candidates == [count : 1..2, seen : BOOLEAN, old : BOOLEAN] \cup {None}

\* What the journal of a new process remembers: nothing.  guess: the state
\* before its first observation of "grid" is still only assumed.
FreshObserver ==
  [thread |-> "starting", effect |-> None, grid |-> None, window |-> "none",
   cand |-> [f \in Failures |-> None], stage |-> None, schema |-> FALSE,
   guess |-> TRUE, lost |-> FALSE]

FreshControl ==
  [failed |-> None, persisted |-> FALSE, cand |-> [f \in Failures |-> None]]

Init ==
  /\ moving \in Moves
  /\ world \in [effect : {Good}, grid : {FALSE}, soc : {0}, stage : Quiet]
  /\ control = FreshControl
  /\ observer = FreshObserver
  /\ db = [effect |-> NoRows, grid |-> NoRows, cursor |-> None, open |-> FALSE,
           incident |-> [f \in Failures |-> "none"]]
  /\ high = [f \in Failures |-> 0]
  /\ faults = 0

-----------------------------------------------------------------------------
(***************************************************************************)
(* One observation is a sequence of handlers.  Each maps a record s to the *)
(* next: me, the journal's memory; db; raised, an exception that skips the *)
(* handlers after it.  At most one database access is refused: the first   *)
(* one of the handler named by at, or the recovery's update of row.        *)
(***************************************************************************)
Committed(s, data) == [s EXCEPT !.db = [data EXCEPT !.open = FALSE]]
Raised(s) == [s EXCEPT !.raised = TRUE]

\* The transaction of "with conn" rolls back before the exception leaves it.
RolledBack(s) == [s EXCEPT !.raised = TRUE, !.db.open = FALSE]

\* Only open rows are looked at.
KnownOpen(data, f) == data.incident[f] = "open"
OpenRows(data) == {f \in Failures : KnownOpen(data, f)}

\* A failure is looked for under its own identity, open or resolved.
Known(data, f) == data.incident[f] # "none"

Inserted(data, f) ==
  IF f = None \/ Known(data, f) THEN data
  ELSE [data EXCEPT !.incident[f] = "open"]

AtReserve(f) == world.soc # 0 /\ world.soc >= Reserve[f]

\* A sample counts once.
Counted(c) ==
  LET d == IF c = None THEN [count |-> 0, seen |-> FALSE, old |-> FALSE] ELSE c
  IN IF d.seen THEN d
     ELSE [d EXCEPT !.seen = TRUE, !.count = IF @ = 2 THEN 2 ELSE @ + 1]

\* Only a fresh sample at the row's own reserve continues its recovery.
Candidate(c, f) == IF AtReserve(f) THEN Counted(c) ELSE None

\* Rows whose recovery is proven: two distinct samples, three seconds apart.
Due(cand, data) ==
  {f \in Failures : LET c == Candidate(cand[f], f)
                    IN /\ data.incident[f] = "open"
                       /\ c # None /\ c.count = 2 /\ c.old}

\* The open rows in their order: each is written and committed by itself, if it
\* is due, or for its lowest SOC or first physical charge (noted).  Candidates
\* of rows that are no longer open go before that.  A row that cannot be written
\* keeps its candidate, and the rows after it are not reached.
Recover(s, row, noted) ==
  LET open == OpenRows(s.db)
      passed == {f \in open : row \in open => f < row}
      done == Due(s.me.cand, s.db) \cap passed
      next(c, f) == IF f \notin open \/ f \in done THEN None
                    ELSE IF f \in passed \/ f = row THEN Candidate(c, f) ELSE c
      seen == [s EXCEPT !.me.cand = [f \in Failures |-> next(@[f], f)],
                        !.raised = row \in open]
  IN IF done = {} /\ ~(noted /\ passed # {}) THEN seen
     ELSE Committed(seen, [s.db EXCEPT !.incident =
            [f \in Failures |-> IF f \in done THEN "resolved" ELSE @[f]]])

\* The observer leaves the insertion to the control loop.
RecoveryOnly(s, refused, row, noted) == Recover(s, row, noted)

\* A confirmed failure is inserted and the rows are recovered inside a
\* transaction, which cannot begin within one left open.  Inserting a row ends
\* it: what the recovery is refused afterwards does not undo the row.
Incident(s, refused, row, noted) ==
  IF control.failed = None THEN Recover(s, row, noted)
  ELSE IF refused \/ s.db.open THEN RolledBack(s)
  ELSE LET r == Recover(Committed(s, Inserted(s.db, control.failed)), row, noted)
       IN IF r.raised THEN RolledBack(r) ELSE Committed(r, r.db)

\* A stage is recorded when two distinct completed cycles agree on it; row and
\* cursor are one transaction.  The first time the cursor's table is created.
Unrecorded(data, new) ==
  data.cursor # new /\ ~(data.cursor = None /\ new \in Quiet)

Stage(s, refused, midCycle) ==
  LET new == world.stage
      c == s.me.stage
      again == [c EXCEPT !.seen = TRUE, !.count = 2]
      agreed == [s EXCEPT !.me.stage = again]
      ready == [agreed EXCEPT !.me.schema = TRUE]
  IN IF midCycle THEN s
     ELSE IF c = None \/ (c # None /\ c.stage # new)
     THEN [s EXCEPT !.me.stage = [stage |-> new, count |-> 1, seen |-> TRUE]]
     ELSE IF c.seen THEN s
     ELSE IF refused THEN IF s.me.schema THEN RolledBack(agreed) ELSE Raised(agreed)
     ELSE IF s.me.schema /\ s.db.open THEN RolledBack(agreed)
     ELSE Committed(ready, IF Unrecorded(s.db, new)
                           THEN [s.db EXCEPT !.cursor = new] ELSE s.db)

\* Mode changes are rows of their own; writing one commits.
Mode(s, refused, changed) ==
  IF ~changed THEN s ELSE IF refused THEN Raised(s) ELSE Committed(s, s.db)

(***************************************************************************)
(* Writing for an incident key.  What was seen is remembered first, so a   *)
(* refused write is not repeated while this process observes the same      *)
(* state (lost).  A resolution that finds no open row still begins a       *)
(* transaction, and only one that finds some commits.                      *)
(***************************************************************************)
Refused(s) == [Raised(s) EXCEPT !.me.lost = TRUE]

Open(s, key, refused) ==
  IF refused THEN Refused(s)
  ELSE Committed(s, [s.db EXCEPT ![key] = Add(@)])

Close(s, key, refused) ==
  IF refused THEN Refused(s)
  ELSE IF s.db[key].latest = "open"
  THEN Committed(s, [s.db EXCEPT ![key] = Resolve(@)])
  ELSE [s EXCEPT !.db.open = TRUE]

\* Every observation starts the window again.
RestartedWindow(s, refused) ==
  [s EXCEPT !.me.grid = IF @ = None THEN ~world.grid ELSE @, !.me.window = "young"]

\* A state that has to last before it is an incident, or the end of one.  The
\* first observation assumes the opposite state before it.
Grid(s, refused) ==
  LET bad == world.grid
      settled == [s EXCEPT !.me.grid = bad, !.me.window = "none",
                           !.me.guess = FALSE]
  IN IF s.me.grid = None
     THEN [s EXCEPT !.me.grid = ~bad, !.me.window = "young"]
     ELSE IF s.me.grid = bad THEN [s EXCEPT !.me.window = "none"]
     ELSE IF s.me.window = "none" THEN [s EXCEPT !.me.window = "young"]
     ELSE IF s.me.window = "young" THEN s
     ELSE IF bad THEN Open(settled, "grid", refused)
     ELSE Close(settled, "grid", refused)

\* Every other bad state writes again; a good one ends the incident.  The
\* first observation settles what earlier processes left.
Effect(s, refused) ==
  LET old == s.me.effect
      new == world.effect
      seen == [s EXCEPT !.me.effect = new]
  IN IF old = new THEN s
     ELSE IF new \in Bad THEN Open(seen, "effect", refused)
     ELSE IF old = None \/ old \in Bad THEN Close(seen, "effect", refused)
     ELSE seen

-----------------------------------------------------------------------------
Fails(refused) ==
  /\ refused => faults < MaxFaults
  /\ faults' = IF refused THEN faults + 1 ELSE faults

\* The thread connects and records the start; if either fails it ends, and is
\* not started again by this process.
StartObserver(refused) ==
  /\ observer.thread = "starting"
  /\ Fails(refused)
  /\ observer' = [observer EXCEPT !.thread = IF refused THEN "ended" ELSE "running"]
  /\ UNCHANGED <<world, moving, control, db, high>>

\* The handlers of _observe, in their order, up to the first exception.
After(S, Handler(_)) == {IF s.raised THEN s ELSE Handler(s) : s \in S}

Observed(at, row, midCycle, noted, changed) ==
  LET incident == {Incident(s, at = "incident", row, noted) :
                     s \in {[me |-> observer, db |-> db, raised |-> FALSE]}}
      stage == After(incident, LAMBDA s : Stage(s, at = "stage", midCycle))
      mode == After(stage, LAMBDA s : Mode(s, at = "mode", changed))
      grid == After(mode, LAMBDA s : Grid(s, at = "grid"))
  IN After(grid, LAMBDA s : Effect(s, at = "effect"))

Observe(at, row, midCycle, noted, changed) ==
  /\ observer.thread = "running"
  /\ at # "none" => row = None
  /\ row \in {None, control.failed} \cup OpenRows(db)
  /\ noted => OpenRows(db) # {}
  /\ Fails(at # "none" \/ row # None)
  /\ \E s \in Observed(at, row, midCycle, noted, changed) :
       observer' = s.me /\ db' = s.db
  /\ UNCHANGED <<world, moving, control, high>>

(***************************************************************************)
(* The control loop.  Its own journal looks after the rows in the same     *)
(* transaction; it is shut out while the observer left one open.           *)
(***************************************************************************)
WriteThrough(c, refused, row) ==
  LET s == [me |-> c, db |-> Inserted(db, c.failed), raised |-> FALSE]
      r == Recover(s, row, FALSE)
  IN IF refused \/ db.open
     THEN control' = [c EXCEPT !.persisted = FALSE] /\ UNCHANGED db
     ELSE /\ control' = [r.me EXCEPT !.persisted = ~r.raised /\ Known(r.db, c.failed)]
          /\ db' = r.db

\* The effect monitor confirms the failure of the next emergency episode.
ConfirmFailure(refused, row) ==
  /\ "care" \in moving
  /\ Fails(refused \/ row # None)
  /\ \E f \in Failures :
       /\ \A g \in Failures : Known(db, g) \/ g = control.failed => g < f
       /\ WriteThrough([control EXCEPT !.failed = f], refused, row)
  /\ UNCHANGED <<world, moving, observer, high>>

\* A later mismatch tick of the same episode tries again.
RetryFailure(refused, row) ==
  /\ control.failed # None /\ ~control.persisted
  /\ Fails(refused \/ row # None)
  /\ WriteThrough(control, refused, row)
  /\ UNCHANGED <<world, moving, observer, high>>

-----------------------------------------------------------------------------
\* The parts of the world that move.
EffectChanges ==
  /\ "effect" \in moving
  /\ \E e \in ({Good} \cup Bad) \ {world.effect} : world' = [world EXCEPT !.effect = e]
  /\ UNCHANGED <<moving, control, observer, db, high, faults>>

GridChanges ==
  /\ "grid" \in moving
  /\ world' = [world EXCEPT !.grid = ~@]
  /\ UNCHANGED <<moving, control, observer, db, high, faults>>

\* A new SOC sample, with a sample number of its own.
Unseen(cand) ==
  [f \in Failures |-> IF cand[f] = None THEN None ELSE [cand[f] EXCEPT !.seen = FALSE]]

Sample(soc) ==
  /\ "care" \in moving
  /\ world' = [world EXCEPT !.soc = soc]
  /\ observer' = [observer EXCEPT !.cand = Unseen(@)]
  /\ control' = [control EXCEPT !.cand = Unseen(@)]
  /\ high' = [f \in Failures |->
       LET reached == IF soc >= Reserve[f] THEN 1 ELSE 0
       IN IF ~Known(db, f) THEN reached
          ELSE IF high[f] = 2 THEN 2 ELSE high[f] + reached]
  /\ UNCHANGED <<moving, db, faults>>

\* The last sample is too old.
SocStale ==
  /\ world.soc # 0
  /\ world' = [world EXCEPT !.soc = 0]
  /\ UNCHANGED <<moving, control, observer, db, high, faults>>

\* The control loop completes another cycle.
Cycle ==
  /\ \E stage \in IF "stage" \in moving THEN Stages ELSE {world.stage} :
       world' = [world EXCEPT !.stage = stage]
  /\ observer' = [observer EXCEPT !.stage =
       IF @ = None THEN None ELSE [@ EXCEPT !.seen = FALSE]]
  /\ UNCHANGED <<moving, control, db, high, faults>>

Aged(cand) ==
  [f \in Failures |-> IF cand[f] = None THEN None ELSE [cand[f] EXCEPT !.old = TRUE]]

\* The stability windows and the three seconds of a recovery pass.
Elapse ==
  /\ observer' = [observer EXCEPT !.cand = Aged(@),
                    !.window = IF @ = "young" THEN "old" ELSE @]
  /\ control' = [control EXCEPT !.cand = Aged(@)]
  /\ UNCHANGED <<world, moving, db, high, faults>>

\* The merge window of the rows passes.
LongElapse ==
  /\ db' = [db EXCEPT !.effect.recent = FALSE, !.grid.recent = FALSE]
  /\ UNCHANGED <<world, moving, control, observer, high, faults>>

\* The process ends and starts again; an open transaction is rolled back.
Restart ==
  /\ observer' = FreshObserver
  /\ control' = FreshControl
  /\ db' = [db EXCEPT !.open = FALSE]
  /\ world' = [world EXCEPT !.soc = 0]
  /\ UNCHANGED <<moving, high, faults>>

Handlers == {"incident", "stage", "mode", "grid", "effect"}

Turn == \E at \in Handlers \cup {"none"}, row \in Failures \cup {None},
           midCycle, noted, changed \in BOOLEAN :
          Observe(at, row, midCycle, noted, changed)

World == EffectChanges \/ GridChanges \/ (\E soc \in Soc : Sample(soc)) \/ SocStale

Next ==
  \/ \E refused \in BOOLEAN : StartObserver(refused)
  \/ \E refused \in BOOLEAN, row \in Failures \cup {None} :
       ConfirmFailure(refused, row) \/ RetryFailure(refused, row)
  \/ Turn \/ World \/ Cycle \/ Elapse \/ LongElapse \/ Restart

Spec == Init /\ [][Next]_vars

(***************************************************************************)
(* The observer looks every two seconds, at times between two cycles; the  *)
(* control loop completes cycles and time passes.  Nothing says that the   *)
(* world changes, that a failure is retried or that an access succeeds     *)
(* (refusals are bounded by MaxFaults).                                    *)
(***************************************************************************)
Fairness ==
  /\ WF_vars(\E refused \in BOOLEAN : StartObserver(refused))
  /\ WF_vars(Observe("none", None, FALSE, FALSE, FALSE))
  /\ WF_vars(Cycle)
  /\ WF_vars(Elapse)

FairSpec == Spec /\ Fairness

-----------------------------------------------------------------------------
Rows == [latest : {"none", "open", "resolved"}, recent : BOOLEAN, older : BOOLEAN]

TypeOK ==
  /\ moving \in Moves
  /\ world \in [effect : {Good} \cup Bad, grid : BOOLEAN, soc : Soc \cup {0},
                stage : Stages]
  /\ control \in [failed : Failures \cup {None}, persisted : BOOLEAN,
                  cand : [Failures -> Candidates]]
  /\ observer \in [thread : {"starting", "running", "ended"},
                   effect : {Good, None} \cup Bad, grid : BOOLEAN \cup {None},
                   window : {"none", "young", "old"},
                   cand : [Failures -> Candidates],
                   stage : [stage : Stages, count : 1..2, seen : BOOLEAN] \cup {None},
                   schema : BOOLEAN, guess : BOOLEAN, lost : BOOLEAN]
  /\ db \in [effect : Rows, grid : Rows, cursor : Stages \cup {None},
             open : BOOLEAN, incident : [Failures -> {"none", "open", "resolved"}]]
  /\ high \in [Failures -> 0..2]
  /\ faults \in 0..MaxFaults

\* The control loop reports a failure as recorded only when its row is there
\* (persist_confirmed_emergency_failure).
PersistedIsStored ==
  control.persisted => control.failed # None /\ Known(db, control.failed)

\* As long as no write of this process was refused, the row of an incident says
\* what the observer last made of it: open while it is bad, and no open row,
\* not even an older one, once it was found good.
RowsFollowTheObserver ==
  observer.thread = "running" /\ ~observer.lost =>
    /\ observer.effect \in Bad => db.effect.latest = "open"
    /\ observer.effect = Good => db.effect.latest # "open" /\ ~db.effect.older
    /\ ~observer.guess => (observer.grid <=> db.grid.latest = "open")

\* The journal is typed and agrees with those who write it.
JournalIsConsistent == TypeOK /\ PersistedIsStored /\ RowsFollowTheObserver

\* An emergency failure is recorded once: its row is never reopened although
\* the failure stays confirmed for the rest of the process, and it is closed
\* only after two distinct samples at its reserve since it was recorded,
\* whichever journals saw them and however often they looked.
FailureIsClosedByProof ==
  [][\A f \in Failures :
       /\ db.incident[f] = "resolved" => db'.incident[f] = "resolved"
       /\ db.incident[f] = "open" =>
            \/ db'.incident[f] = "open"
            \/ db'.incident[f] = "resolved" /\ high[f] = 2]_vars

Watching == observer.thread = "running"

\* Whatever refuses the control loop's own write, a confirmed failure is in the
\* journal in the end, unless a later one takes its place or the process ends:
\* the observer writes it as well.
FailureIsRecorded ==
  \A f \in Failures :
    control.failed = f /\ Watching ~> Known(db, f) \/ control.failed # f \/ ~Watching

\* A state that lasts is what the journal ends up saying, for the observer of a
\* running process none of whose writes was refused.
EffectIsJournalled ==
  \A e \in {Good} \cup Bad :
    <>[](Watching /\ ~observer.lost /\ world.effect = e)
      => <>[](db.effect.latest = "open" <=> e \in Bad)

GridIsJournalled ==
  \A bad \in BOOLEAN :
    <>[](Watching /\ ~observer.lost /\ world.grid = bad)
      => <>[](\/ db.grid.latest = "open" <=> bad
              \/ observer.guess /\ observer.window = "none")
\* (The exception is what DiagnosisIsJournalled is about: the state changed
\* before the first observation of the process had lasted.)

\* The last stage recorded is the one that lasts, and the transaction an
\* observation left open does not stay open: other writers get their turn.
StageIsRecorded ==
  \A s \in Stages :
    <>[](Watching /\ world.stage = s)
      => /\ <>[](db.cursor = s \/ (db.cursor = None /\ s \in Quiet))
         /\ []<>(~db.open)

\* What lasts is journalled.
JournalFollowsState == EffectIsJournalled /\ GridIsJournalled /\ StageIsRecorded

\* "... while a persistent incident becomes visible and keeps the journal/footer
\* consistent with the current diagnosis" (operational_events.py:343): a state
\* that lasts is what the journal says of it.
DiagnosisIsJournalled ==
  \A bad \in BOOLEAN :
    <>[](Watching /\ ~observer.lost /\ world.grid = bad)
      => <>[](db.grid.latest = "open" <=> bad)
=============================================================================
