----------------------- MODULE OperationalEventsProofs -----------------------
(***************************************************************************)
(* Theorems about OperationalEvents: what the rows of the journal say of   *)
(* those who write them, and when an emergency failure is closed, for      *)
(* every set of failures, reserves, SOC values and stages and any number   *)
(* of refused accesses.                                                    *)
(***************************************************************************)
EXTENDS OperationalEvents, TLAPS

USE EventsAssumption

-----------------------------------------------------------------------------
(* The inductive invariant *)

Observers ==
  [thread : {"starting", "running", "ended"}, effect : {Good, None} \cup Bad,
   grid : BOOLEAN \cup {None}, window : {"none", "young", "old"},
   cand : [Failures -> Candidates],
   stage : [stage : Stages, count : 1..2, seen : BOOLEAN] \cup {None},
   schema : BOOLEAN, guess : BOOLEAN, lost : BOOLEAN]
Controls ==
  [failed : Failures \cup {None}, persisted : BOOLEAN, cand : [Failures -> Candidates]]
Worlds == [effect : {Good} \cup Bad, grid : BOOLEAN, soc : Soc \cup {0}, stage : Stages]
Incidents == [Failures -> {"none", "open", "resolved"}]
Databases ==
  [effect : Rows, grid : Rows, cursor : Stages \cup {None}, open : BOOLEAN,
   incident : Incidents]

\* What a journal me remembers agrees with the rows of the database d.
EffectAgrees(me, d) ==
  /\ me.effect \in Bad => d.effect.latest = "open"
  /\ me.effect = Good => d.effect.latest # "open" /\ ~d.effect.older
GridAgrees(me, d) ==
  ~me.guess => me.grid \in BOOLEAN /\ (me.grid <=> d.grid.latest = "open")
Agrees(me, d) == ~me.lost => EffectAgrees(me, d) /\ GridAgrees(me, d)

\* Only a row that is open has older ones that are.
Whole(row) == row.older => row.latest = "open"
RowsAreWhole(d) == Whole(d.effect) /\ Whole(d.grid)

\* A candidate counts no sample twice, and none from before its row: what it
\* has counted, and the current sample if it has not, were all at the reserve.
Within(c, f) ==
  high[f] = 2 \/ c.count + (IF ~c.seen /\ AtReserve(f) THEN 1 ELSE 0) <= high[f]
Sound(cand, d) ==
  \A f \in Failures : cand[f] # None => Known(d, f) /\ Within(cand[f], f)

\* The journal of a process that has not started remembers nothing.
StartsFresh == observer.thread = "starting" => observer.effect = None /\ observer.guess

JournalInv ==
  /\ world \in Worlds /\ moving \in Moves /\ faults \in 0..MaxFaults
  /\ control \in Controls /\ observer \in Observers /\ db \in Databases
  /\ high \in [Failures -> 0..2]
  /\ PersistedIsStored
  /\ StartsFresh
  /\ observer.thread = "running" => Agrees(observer, db)
  /\ RowsAreWhole(db)
  /\ Sound(observer.cand, db) /\ Sound(control.cand, db)
  /\ \A f \in Failures : AtReserve(f) => high[f] >= 1

-----------------------------------------------------------------------------
(* Recovery: candidates and the rows they close *)

States(Me) == [me : Me, db : Databases, raised : BOOLEAN]

\* What the incident rows may become in a step.
Keeps(d, e) ==
  \A f \in Failures :
    /\ d.incident[f] = "resolved" => e.incident[f] = "resolved"
    /\ d.incident[f] = "open" =>
         \/ e.incident[f] = "open"
         \/ e.incident[f] = "resolved" /\ high[f] = 2

\* A journal's memory is typed whatever its candidates are.
Memory(Me) ==
  \A m \in Me : /\ m.cand \in [Failures -> Candidates]
                /\ \A c \in [Failures -> Candidates] : [m EXCEPT !.cand = c] \in Me
                /\ \A c \in [Failures -> Candidates] : [m EXCEPT !.cand = c].cand = c

\* Two memories differ at most in their candidates.
SameButCandidates(m, n) ==
  \E cand \in [Failures -> Candidates] : m = [n EXCEPT !.cand = cand]

LEMMA ObserverMemory == Memory(Observers)
BY DEF Memory, Observers

LEMMA ControlMemory == Memory(Controls)
BY DEF Memory, Controls

LEMMA KeepsTransitive ==
  ASSUME NEW d \in Databases, NEW e \in Databases, NEW g \in Databases,
         Keeps(d, e), Keeps(e, g)
  PROVE  Keeps(d, g)
BY DEF Keeps

LEMMA KnownStays ==
  ASSUME NEW d \in Databases, NEW e \in Databases, Keeps(d, e),
         NEW f \in Failures, Known(d, f)
  PROVE  Known(e, f)
BY DEF Keeps, Known, Databases, Incidents

LEMMA SoundStays ==
  ASSUME NEW d \in Databases, NEW e \in Databases, Keeps(d, e),
         NEW cand, Sound(cand, d)
  PROVE  Sound(cand, e)
BY KnownStays DEF Sound

\* A candidate keeps within the samples seen at the reserve, and one that has
\* counted two has seen two.
LEMMA CandidateCounts ==
  ASSUME JournalInv, NEW f \in Failures, NEW c \in Candidates,
         c # None => Within(c, f)
  PROVE  /\ Candidate(c, f) \in Candidates
         /\ Candidate(c, f) # None =>
              Within(Candidate(c, f), f) /\ (Candidate(c, f).count = 2 => high[f] = 2)
<1> DEFINE d == IF c = None THEN [count |-> 0, seen |-> FALSE, old |-> FALSE] ELSE c
           e == IF d.seen THEN d
                ELSE [d EXCEPT !.seen = TRUE, !.count = IF @ = 2 THEN 2 ELSE @ + 1]
<1>1. high[f] \in 0..2 /\ (AtReserve(f) => high[f] >= 1)
  BY DEF JournalInv
<1>2. CASE ~AtReserve(f)
  BY <1>2 DEF Candidate, Candidates
<1>3. CASE AtReserve(f)
  <2>1. Candidate(c, f) = e
    BY <1>3 DEF Candidate, Counted
  <2>2. d \in [count : 0..2, seen : BOOLEAN, old : BOOLEAN] /\ (d.count = 0 => ~d.seen)
    BY DEF Candidates
  <2>3. high[f] = 2 \/ d.count + (IF ~d.seen THEN 1 ELSE 0) <= high[f]
    <3>1. CASE c = None
      BY <1>1, <1>3, <3>1
    <3>2. CASE c # None
      BY <1>1, <1>3, <3>2 DEF Within
    <3> QED BY <3>1, <3>2
  <2> HIDE DEF d
  <2>4. CASE d.seen
    <3>1. e = d /\ d.count \in 1..2 BY <2>2, <2>4
    <3>2. e \in Candidates BY <2>2, <3>1 DEF Candidates
    <3> QED BY <1>1, <2>1, <2>2, <2>3, <2>4, <3>1, <3>2 DEF Within
  <2>5. CASE ~d.seen
    <3>1. PICK n \in 1..2 : n = IF d.count = 2 THEN 2 ELSE d.count + 1
      BY <2>2
    <3>2. e = [count |-> n, seen |-> TRUE, old |-> d.old]
      BY <2>2, <2>5, <3>1
    <3> HIDE DEF e
    <3>3. high[f] = 2 \/ n <= high[f]
      BY <1>1, <2>2, <2>3, <2>5, <3>1
    <3>4. e \in Candidates
      <4>1. d.old \in BOOLEAN BY <2>2
      <4> QED BY <3>1, <3>2, <4>1 DEF Candidates
    <3>5. e.count = n /\ e.seen = TRUE
      BY <3>2
    <3> QED BY <1>1, <2>1, <3>1, <3>3, <3>4, <3>5 DEF Within
  <2> QED BY <2>4, <2>5
<1> QED BY <1>2, <1>3

LEMMA StateRecord ==
  ASSUME NEW Me, NEW m \in Me, NEW d \in Databases, NEW raised \in BOOLEAN,
         NEW r, r = [me |-> m, db |-> d, raised |-> raised]
  PROVE  r \in States(Me) /\ r.me = m /\ r.db = d
BY DEF States

\* Looking after the rows closes only those that are due, keeps the candidates
\* sound and touches nothing else of the memory or the rows.
LEMMA RecoverRows ==
  ASSUME JournalInv, NEW Me, Memory(Me), NEW s \in States(Me),
         Sound(s.me.cand, s.db), NEW row \in Failures \cup {None}, NEW noted \in BOOLEAN
  PROVE  LET r == Recover(s, row, noted)
         IN /\ r \in States(Me)
            /\ SameButCandidates(r.me, s.me)
            /\ r.db.effect = s.db.effect /\ r.db.grid = s.db.grid
            /\ Keeps(s.db, r.db)
            /\ Sound(r.me.cand, r.db)
<1>0. PICK r : r = Recover(s, row, noted) OBVIOUS
<1> SUFFICES
         /\ r \in States(Me)
         /\ SameButCandidates(r.me, s.me)
         /\ r.db.effect = s.db.effect /\ r.db.grid = s.db.grid
         /\ Keeps(s.db, r.db)
         /\ Sound(r.me.cand, r.db)
  BY <1>0
<1> DEFINE
  open == OpenRows(s.db)
  passed == {f \in open : row \in open => f < row}
  done == Due(s.me.cand, s.db) \cap passed
  next(c, f) == IF f \notin open \/ f \in done THEN None
                ELSE IF f \in passed \/ f = row THEN Candidate(c, f) ELSE c
  cand == [f \in Failures |-> next(s.me.cand[f], f)]
  raised == row \in open
  seen == [s EXCEPT !.me.cand = cand, !.raised = raised]
  rows == [f \in Failures |-> IF f \in done THEN "resolved" ELSE s.db.incident[f]]
<1>1. /\ s.me \in Me /\ s.me.cand \in [Failures -> Candidates] /\ s.db \in Databases
      /\ s.db.incident \in Incidents /\ raised \in BOOLEAN
  BY DEF States, Memory, Databases
<1>2. \A f \in Failures :
        LET c == Candidate(s.me.cand[f], f)
        IN /\ c \in Candidates
           /\ c # None => Within(c, f) /\ (c.count = 2 => high[f] = 2)
  BY <1>1, CandidateCounts DEF Sound
<1>3. cand \in [Failures -> Candidates]
  <2>1. ASSUME NEW f \in Failures PROVE next(s.me.cand[f], f) \in Candidates
    <3>1. None \in Candidates BY DEF Candidates
    <3>2. s.me.cand[f] \in Candidates BY <1>1
    <3> QED BY <1>2, <3>1, <3>2
  <2> HIDE DEF next
  <2> QED BY <2>1
<1>4. \A f \in done : f \in Failures /\ s.db.incident[f] = "open" /\ high[f] = 2
  BY <1>2 DEF Due
<1>5. \A f \in Failures : cand[f] # None =>
        /\ Known(s.db, f)
        /\ Within(cand[f], f)
  <2> SUFFICES ASSUME NEW f \in Failures, cand[f] # None
               PROVE  Known(s.db, f) /\ Within(cand[f], f)
    OBVIOUS
  <2>1. CASE cand[f] = s.me.cand[f]
    BY <2>1 DEF Sound
  <2>2. CASE cand[f] = Candidate(s.me.cand[f], f) /\ f \in open
    BY <1>2, <2>2 DEF Known, OpenRows, KnownOpen
  <2>3. cand[f] = next(s.me.cand[f], f)
    OBVIOUS
  <2>4. \/ next(s.me.cand[f], f) = None
        \/ next(s.me.cand[f], f) = s.me.cand[f]
        \/ next(s.me.cand[f], f) = Candidate(s.me.cand[f], f) /\ f \in open
    OBVIOUS
  <2> HIDE DEF cand, next
  <2> QED BY <2>1, <2>2, <2>3, <2>4
<1>6. rows \in Incidents
  BY <1>1 DEF Incidents
<1>7. r = IF done = {} /\ ~(noted /\ passed # {}) THEN seen
          ELSE Committed(seen, [s.db EXCEPT !.incident = rows])
  <2>1. seen = [s EXCEPT !.me.cand = [f \in Failures |-> next(@[f], f)],
                         !.raised = row \in open]
    OBVIOUS
  <2>2. [s.db EXCEPT !.incident = rows] = [s.db EXCEPT !.incident =
            [f \in Failures |-> IF f \in done THEN "resolved" ELSE @[f]]]
    OBVIOUS
  <2> QED BY <1>0, <2>1, <2>2 DEF Recover
<1> HIDE DEF cand, rows, raised
<1> DEFINE m == [s.me EXCEPT !.cand = cand]
<1>8. seen = [me |-> m, db |-> s.db, raised |-> raised]
  <2>1. PICK n : n = m OBVIOUS
  <2>2. seen = [s EXCEPT !.me = n, !.raised = raised]
    BY <2>1
  <2> HIDE DEF seen, m
  <2>3. s \in [me : Me, db : Databases, raised : BOOLEAN]
    BY DEF States
  <2> QED BY <2>1, <2>2, <2>3
<1>9. m \in Me /\ m.cand = cand
  BY <1>1, <1>3 DEF Memory
<1>a. SameButCandidates(m, s.me)
  BY <1>3 DEF SameButCandidates
<1>b. Keeps(s.db, s.db) /\ Sound(m.cand, s.db)
  BY <1>5, <1>9 DEF Keeps, Sound
<1> HIDE DEF seen, m
<1>10. CASE r = seen
  <2>1. r \in States(Me) /\ r.me = m /\ r.db = s.db
    BY <1>1, <1>8, <1>9, <1>10, StateRecord
  <2> QED BY <1>a, <1>b, <2>1
<1>11. CASE r = Committed(seen, [s.db EXCEPT !.incident = rows])
  <2> DEFINE d == [s.db EXCEPT !.incident = rows, !.open = FALSE]
  <2>1. d \in Databases /\ d.effect = s.db.effect /\ d.grid = s.db.grid /\ d.incident = rows
    BY <1>1, <1>6 DEF Databases
  <2>2. r = [me |-> m, db |-> d, raised |-> raised]
    BY <1>8, <1>11 DEF Committed
  <2> HIDE DEF d
  <2>3. Keeps(s.db, d)
    BY <1>1, <1>4, <2>1 DEF Keeps, rows
  <2>4. Sound(m.cand, d)
    BY <1>1, <1>b, <2>1, <2>3, SoundStays
  <2>5. r \in States(Me) /\ r.me = m /\ r.db = d
    BY <1>1, <1>9, <2>1, <2>2, StateRecord
  <2> QED BY <1>a, <2>1, <2>3, <2>4, <2>5
<1> QED BY <1>7, <1>10, <1>11

LEMMA InsertedRow ==
  ASSUME NEW d \in Databases, NEW f \in Failures \cup {None}
  PROVE  LET e == Inserted(d, f)
         IN /\ e \in Databases /\ e.effect = d.effect /\ e.grid = d.grid
            /\ e.open = d.open
            /\ Keeps(d, e)
            /\ f # None => Known(e, f)
<1>0. PICK e : e = Inserted(d, f) OBVIOUS
<1>1. CASE f = None \/ Known(d, f)
  BY <1>0, <1>1 DEF Inserted, Keeps
<1>2. CASE f \in Failures /\ f # None /\ ~Known(d, f)
  <2> DEFINE i == [d.incident EXCEPT ![f] = "open"]
  <2>1. e = [d EXCEPT !.incident = i]
    BY <1>0, <1>2 DEF Inserted
  <2>2. d.incident \in Incidents
    BY DEF Databases
  <2>3. i \in Incidents /\ i[f] = "open" /\ \A g \in Failures \ {f} : i[g] = d.incident[g]
    BY <1>2, <2>2 DEF Incidents
  <2> HIDE DEF i
  <2>4. e \in Databases /\ e.effect = d.effect /\ e.grid = d.grid /\ e.open = d.open
        /\ e.incident = i
    BY <2>1, <2>3 DEF Databases
  <2>5. Keeps(d, e)
    BY <1>2, <2>3, <2>4 DEF Keeps, Known
  <2> QED BY <1>0, <1>2, <2>3, <2>4, <2>5 DEF Known
<1> QED BY <1>1, <1>2

-----------------------------------------------------------------------------
(* The handlers of an observation *)

Observing(s) ==
  /\ s \in States(Observers) /\ s.me.thread = "running"
  /\ Agrees(s.me, s.db) /\ RowsAreWhole(s.db)
  /\ Sound(s.me.cand, s.db) /\ Keeps(db, s.db)

\* A handler that leaves the memory of the incidents and their rows alone.
LEMMA Unmoved ==
  ASSUME NEW s, Observing(s), NEW t \in States(Observers),
         t.me.thread = s.me.thread, t.me.effect = s.me.effect, t.me.grid = s.me.grid,
         t.me.guess = s.me.guess, t.me.lost = s.me.lost, t.me.cand = s.me.cand,
         t.db.effect = s.db.effect, t.db.grid = s.db.grid,
         t.db.incident = s.db.incident
  PROVE  Observing(t)
<1>1. Agrees(t.me, t.db)
  BY DEF Observing, Agrees, EffectAgrees, GridAgrees
<1>2. RowsAreWhole(t.db)
  BY DEF Observing, RowsAreWhole
<1>3. Sound(t.me.cand, t.db)
  BY DEF Observing, Sound, Known
<1>4. Keeps(db, t.db)
  BY DEF Observing, Keeps
<1> QED BY <1>1, <1>2, <1>3, <1>4 DEF Observing

LEMMA RolledBackStep ==
  ASSUME NEW s, Observing(s)
  PROVE  Observing(RolledBack(s))
<1>1. s \in [me : Observers, db : Databases, raised : BOOLEAN]
  BY DEF Observing, States
<1> DEFINE d == [s.db EXCEPT !.open = FALSE]
<1>2. d \in Databases /\ d.effect = s.db.effect /\ d.grid = s.db.grid
        /\ d.incident = s.db.incident
  BY <1>1 DEF Databases
<1>3. RolledBack(s) = [s EXCEPT !.raised = TRUE, !.db = d]
  BY <1>1 DEF RolledBack
<1> HIDE DEF d
<1>4. RolledBack(s) = [me |-> s.me, db |-> d, raised |-> TRUE]
  BY <1>1, <1>3
<1>5. RolledBack(s) \in States(Observers) /\ RolledBack(s).me = s.me /\ RolledBack(s).db = d
  BY <1>1, <1>2, <1>4 DEF States
<1> QED BY <1>2, <1>5, Unmoved

\* A transaction left open.
LEMMA LeftOpenStep ==
  ASSUME NEW s, Observing(s)
  PROVE  Observing([s EXCEPT !.db.open = TRUE])
<1>1. s \in [me : Observers, db : Databases, raised : BOOLEAN]
  BY DEF Observing, States
<1>2. PICK d : d = [s.db EXCEPT !.open = TRUE]
  OBVIOUS
<1>3. d \in Databases /\ d.effect = s.db.effect /\ d.grid = s.db.grid
        /\ d.incident = s.db.incident
  BY <1>1, <1>2 DEF Databases
<1>4. PICK t : t = [s EXCEPT !.db.open = TRUE]
  OBVIOUS
<1>5. t = [me |-> s.me, db |-> d, raised |-> s.raised]
  BY <1>1, <1>2, <1>4
<1>6. t \in States(Observers) /\ t.me = s.me /\ t.db = d
  BY <1>1, <1>3, <1>5, StateRecord
<1>7. Observing(t)
  BY <1>3, <1>6, Unmoved
<1> QED BY <1>4, <1>7

\* A commit of rows that keep what the invariant says.
LEMMA CommittedStep ==
  ASSUME NEW s \in States(Observers), s.me.thread = "running", NEW d \in Databases,
         Agrees(s.me, d), RowsAreWhole(d), Sound(s.me.cand, d), Keeps(db, d)
  PROVE  Observing(Committed(s, d))
<1> DEFINE e == [d EXCEPT !.open = FALSE]
<1>1. e \in Databases /\ e.effect = d.effect /\ e.grid = d.grid /\ e.incident = d.incident
  BY DEF Databases
<1> HIDE DEF e
<1>2. Committed(s, d) = [me |-> s.me, db |-> e, raised |-> s.raised]
  <2>1. Committed(s, d) = [s EXCEPT !.db = e]
    BY DEF Committed, e
  <2>2. s \in [me : Observers, db : Databases, raised : BOOLEAN]
    BY DEF States
  <2> QED BY <2>1, <2>2
<1>3. s.me \in Observers /\ s.raised \in BOOLEAN
  BY DEF States
<1>4. Committed(s, d) \in States(Observers) /\ Committed(s, d).me = s.me /\ Committed(s, d).db = e
  BY <1>1, <1>2, <1>3, StateRecord
<1>5. Agrees(s.me, e)
  BY <1>1 DEF Agrees, EffectAgrees, GridAgrees
<1>6. RowsAreWhole(e) /\ Sound(s.me.cand, e) /\ Keeps(db, e)
  BY <1>1 DEF RowsAreWhole, Sound, Known, Keeps
<1> QED BY <1>4, <1>5, <1>6 DEF Observing

LEMMA RaisedStep ==
  ASSUME NEW s, Observing(s)
  PROVE  Observing(Raised(s))
<1>1. s \in [me : Observers, db : Databases, raised : BOOLEAN]
  BY DEF Observing, States
<1>2. Raised(s) = [me |-> s.me, db |-> s.db, raised |-> TRUE]
  <2>1. Raised(s) = [s EXCEPT !.raised = TRUE] BY DEF Raised
  <2> QED BY <1>1, <2>1
<1>3. Raised(s) \in States(Observers) /\ Raised(s).me = s.me /\ Raised(s).db = s.db
  BY <1>1, <1>2 DEF States
<1> QED BY <1>3, Unmoved

LEMMA RecoverStep ==
  ASSUME JournalInv, NEW s, Observing(s),
         NEW row \in Failures \cup {None}, NEW noted \in BOOLEAN
  PROVE  Observing(Recover(s, row, noted))
<1>0. PICK r : r = Recover(s, row, noted) OBVIOUS
<1>1. s \in States(Observers) /\ Sound(s.me.cand, s.db)
  BY DEF Observing
<1>2. /\ r \in States(Observers)
      /\ SameButCandidates(r.me, s.me)
      /\ r.db.effect = s.db.effect /\ r.db.grid = s.db.grid
      /\ Keeps(s.db, r.db) /\ Sound(r.me.cand, r.db)
  BY <1>0, <1>1, ObserverMemory, RecoverRows
<1>3. s.me \in Observers /\ s.db \in Databases /\ r.db \in Databases /\ db \in Databases
  BY <1>1, <1>2 DEF States, JournalInv
<1>4. /\ r.me.thread = s.me.thread /\ r.me.effect = s.me.effect /\ r.me.grid = s.me.grid
      /\ r.me.guess = s.me.guess /\ r.me.lost = s.me.lost
  BY <1>2, <1>3 DEF Observers, SameButCandidates
<1>5. Agrees(r.me, r.db)
  BY <1>2, <1>4 DEF Observing, Agrees, EffectAgrees, GridAgrees
<1>6. RowsAreWhole(r.db)
  BY <1>2 DEF Observing, RowsAreWhole
<1>7. Keeps(db, r.db)
  BY <1>2, <1>3, KeepsTransitive DEF Observing
<1>8. Observing(r)
  BY <1>2, <1>4, <1>5, <1>6, <1>7 DEF Observing
<1> QED BY <1>0, <1>8

LEMMA IncidentStep ==
  ASSUME JournalInv, NEW s, Observing(s), NEW refused \in BOOLEAN,
         NEW row \in Failures \cup {None}, NEW noted \in BOOLEAN
  PROVE  Observing(Incident(s, refused, row, noted))
<1>1. CASE control.failed = None
  BY <1>1, RecoverStep DEF Incident
<1>2. CASE control.failed # None /\ (refused \/ s.db.open)
  BY <1>2, RolledBackStep DEF Incident
<1>3. CASE control.failed # None /\ ~(refused \/ s.db.open)
  <2>0. PICK d : d = Inserted(s.db, control.failed) OBVIOUS
  <2>1. s \in States(Observers) /\ s.db \in Databases /\ db \in Databases
    BY DEF Observing, States, JournalInv
  <2>2. control.failed \in Failures \cup {None}
    BY DEF JournalInv, Controls
  <2>3. d \in Databases /\ d.effect = s.db.effect /\ d.grid = s.db.grid /\ Keeps(s.db, d)
    BY <2>0, <2>1, <2>2, InsertedRow
  <2>4. Observing(Committed(s, d))
    <3>1. Agrees(s.me, d)
      BY <2>3 DEF Observing, Agrees, EffectAgrees, GridAgrees
    <3>2. RowsAreWhole(d)
      BY <2>3 DEF Observing, RowsAreWhole
    <3>3. Sound(s.me.cand, d)
      BY <2>1, <2>3, SoundStays DEF Observing
    <3>4. Keeps(db, d)
      BY <2>1, <2>3, KeepsTransitive DEF Observing
    <3>5. s.me.thread = "running"
      BY DEF Observing
    <3> QED BY <2>1, <2>3, <3>1, <3>2, <3>3, <3>4, <3>5, CommittedStep
  <2>5. PICK r : r = Recover(Committed(s, d), row, noted) OBVIOUS
  <2>6. Observing(r)
    BY <2>4, <2>5, RecoverStep
  <2>7. Incident(s, refused, row, noted) = IF r.raised THEN RolledBack(r) ELSE Committed(r, r.db)
    BY <1>3, <2>0, <2>5 DEF Incident
  <2>8. Observing(RolledBack(r))
    BY <2>6, RolledBackStep
  <2>9. Observing(Committed(r, r.db))
    <3>1. r \in States(Observers) /\ r.db \in Databases /\ r.me.thread = "running"
      BY <2>6 DEF Observing, States
    <3>2. Agrees(r.me, r.db) /\ RowsAreWhole(r.db) /\ Sound(r.me.cand, r.db) /\ Keeps(db, r.db)
      BY <2>6 DEF Observing
    <3> QED BY <3>1, <3>2, CommittedStep
  <2> QED BY <2>7, <2>8, <2>9
<1> QED BY <1>1, <1>2, <1>3

\* What a stage observation does to the memory.
LEMMA StageMemory ==
  ASSUME NEW s, Observing(s), NEW c \in [stage : Stages, count : 1..2, seen : BOOLEAN],
         NEW schema \in BOOLEAN, NEW t,
         t = [s EXCEPT !.me = [s.me EXCEPT !.stage = c, !.schema = schema]]
  PROVE  Observing(t) /\ t.db = s.db
<1> DEFINE m == [s.me EXCEPT !.stage = c, !.schema = schema]
<1>1. s \in [me : Observers, db : Databases, raised : BOOLEAN]
  BY DEF Observing, States
<1>2. /\ m \in Observers
      /\ m.thread = s.me.thread /\ m.effect = s.me.effect /\ m.grid = s.me.grid
      /\ m.guess = s.me.guess /\ m.lost = s.me.lost /\ m.cand = s.me.cand
  BY <1>1 DEF Observers
<1> HIDE DEF m
<1>3. t = [me |-> m, db |-> s.db, raised |-> s.raised]
  BY <1>1 DEF m
<1>4. t \in States(Observers) /\ t.me = m /\ t.db = s.db
  BY <1>1, <1>2, <1>3, StateRecord
<1> QED BY <1>2, <1>4, Unmoved

LEMMA StageStep ==
  ASSUME JournalInv, NEW s, Observing(s), NEW refused \in BOOLEAN, NEW midCycle \in BOOLEAN
  PROVE  Observing(Stage(s, refused, midCycle))
<1> DEFINE
  new == world.stage
  c == s.me.stage
  again == [c EXCEPT !.seen = TRUE, !.count = 2]
  first == [stage |-> new, count |-> 1, seen |-> TRUE]
  agreed == [s EXCEPT !.me.stage = again]
  ready == [agreed EXCEPT !.me.schema = TRUE]
<1>1. s \in [me : Observers, db : Databases, raised : BOOLEAN] /\ new \in Stages
  BY DEF Observing, States, JournalInv, Worlds
<1>2. /\ s.me.schema \in BOOLEAN
      /\ c \in [stage : Stages, count : 1..2, seen : BOOLEAN] \cup {None}
      /\ first \in [stage : Stages, count : 1..2, seen : BOOLEAN]
  BY <1>1 DEF Observers
<1>3. Observing([s EXCEPT !.me.stage = first])
  <2> DEFINE t == [s EXCEPT !.me.stage = first]
  <2>1. t = [s EXCEPT !.me = [s.me EXCEPT !.stage = first, !.schema = s.me.schema]]
    BY <1>1 DEF Observers
  <2> HIDE DEF t, first
  <2>2. Observing(t)
    BY <1>2, <2>1, StageMemory
  <2> QED BY <2>2 DEF t
<1>4. ASSUME c # None
      PROVE  /\ Observing(agreed) /\ agreed.db = s.db
             /\ Observing(ready) /\ ready.db = s.db
  <2>1. again \in [stage : Stages, count : 1..2, seen : BOOLEAN]
    <3>1. c \in [stage : Stages, count : 1..2, seen : BOOLEAN]
      BY <1>2, <1>4
    <3> HIDE DEF c
    <3>2. PICK d : d = [c EXCEPT !.seen = TRUE]
      OBVIOUS
    <3>3. d \in [stage : Stages, count : 1..2, seen : BOOLEAN]
      BY <3>1, <3>2
    <3>4. again = [d EXCEPT !.count = 2]
      BY <3>2
    <3> HIDE DEF again
    <3> QED BY <3>3, <3>4
  <2> HIDE DEF again
  <2>2. agreed = [s EXCEPT !.me = [s.me EXCEPT !.stage = again, !.schema = s.me.schema]]
    BY <1>1 DEF Observers
  <2>3. ready = [s EXCEPT !.me = [s.me EXCEPT !.stage = again, !.schema = TRUE]]
    BY <1>1 DEF Observers
  <2> HIDE DEF agreed, ready
  <2>4. Observing(agreed) /\ agreed.db = s.db
    <3>1. s.me.schema \in BOOLEAN
      BY <1>2
    <3> QED BY <2>1, <2>2, <3>1, StageMemory
  <2>5. TRUE \in BOOLEAN
    OBVIOUS
  <2>6. Observing(ready) /\ ready.db = s.db
    BY <2>1, <2>3, <2>5, StageMemory
  <2> QED BY <2>4, <2>6
<1>5. ASSUME c # None, Observing(ready), ready.db = s.db,
             NEW d \in {s.db, [s.db EXCEPT !.cursor = new]}
      PROVE  Observing(Committed(ready, d))
  <2>1. /\ d \in Databases /\ d.effect = s.db.effect /\ d.grid = s.db.grid
        /\ d.incident = s.db.incident
    BY <1>1, <1>5 DEF Databases
  <2> HIDE DEF ready
  <2>2. Agrees(ready.me, d)
    BY <1>5, <2>1 DEF Observing, Agrees, EffectAgrees, GridAgrees
  <2>3. RowsAreWhole(d) /\ Sound(ready.me.cand, d) /\ Keeps(db, d)
    BY <1>5, <2>1 DEF Observing, RowsAreWhole, Sound, Known, Keeps
  <2> QED BY <1>5, <2>1, <2>2, <2>3, CommittedStep DEF Observing
<1>6. \/ Stage(s, refused, midCycle) = s
      \/ Stage(s, refused, midCycle) = [s EXCEPT !.me.stage = first]
      \/ c # None /\ Stage(s, refused, midCycle) \in {RolledBack(agreed), Raised(agreed)}
      \/ c # None /\ \E d \in {s.db, [s.db EXCEPT !.cursor = new]} :
                       Stage(s, refused, midCycle) = Committed(ready, d)
  BY DEF Stage
<1> HIDE DEF agreed, ready, first
<1> QED BY <1>3, <1>4, <1>5, <1>6, RolledBackStep, RaisedStep DEF first

LEMMA ModeStep ==
  ASSUME NEW s, Observing(s), NEW refused \in BOOLEAN, NEW changed \in BOOLEAN
  PROVE  Observing(Mode(s, refused, changed))
<1>1. Observing(Raised(s))
  BY RaisedStep
<1>2. s \in States(Observers) /\ s.db \in Databases
  BY DEF Observing, States
<1>3. Observing(Committed(s, s.db))
  BY <1>2, CommittedStep DEF Observing
<1> QED BY <1>1, <1>3 DEF Mode

\* What remembering an observation of an incident does to the memory.
Remembers(s, t, effect, grid, guess) ==
  /\ t \in States(Observers) /\ t.db = s.db /\ t.me.thread = "running"
  /\ t.me.effect = effect /\ t.me.grid = grid /\ t.me.guess = guess
  /\ t.me.lost = s.me.lost /\ t.me.cand = s.me.cand

GridSeen(s, grid, window, guess) ==
  [s EXCEPT !.me = [s.me EXCEPT !.grid = grid, !.window = window, !.guess = guess]]

LEMMA GridMemory ==
  ASSUME NEW s, Observing(s), NEW grid \in BOOLEAN \cup {None},
         NEW window \in {"none", "young", "old"}, NEW guess \in BOOLEAN
  PROVE  Remembers(s, GridSeen(s, grid, window, guess), s.me.effect, grid, guess)
<1>0. PICK t : t = GridSeen(s, grid, window, guess)
  OBVIOUS
<1> DEFINE m == [s.me EXCEPT !.grid = grid, !.window = window, !.guess = guess]
<1>1. s \in [me : Observers, db : Databases, raised : BOOLEAN] /\ s.me.thread = "running"
  BY DEF Observing, States
<1>2. /\ m \in Observers
      /\ m.thread = s.me.thread /\ m.effect = s.me.effect /\ m.grid = grid
      /\ m.guess = guess /\ m.lost = s.me.lost /\ m.cand = s.me.cand
  <2>1. PICK a : a = [s.me EXCEPT !.grid = grid]
    OBVIOUS
  <2>2. a \in Observers /\ a.thread = s.me.thread /\ a.effect = s.me.effect /\ a.grid = grid
        /\ a.lost = s.me.lost /\ a.cand = s.me.cand
    BY <1>1, <2>1 DEF Observers
  <2>3. PICK b : b = [a EXCEPT !.window = window]
    OBVIOUS
  <2>4. b \in Observers /\ b.thread = s.me.thread /\ b.effect = s.me.effect /\ b.grid = grid
        /\ b.lost = s.me.lost /\ b.cand = s.me.cand
    BY <2>2, <2>3 DEF Observers
  <2>5. m = [b EXCEPT !.guess = guess]
    BY <2>1, <2>3
  <2> HIDE DEF m
  <2> QED BY <2>4, <2>5 DEF Observers
<1> HIDE DEF m
<1>3. t = [me |-> m, db |-> s.db, raised |-> s.raised]
  BY <1>0, <1>1 DEF m, GridSeen
<1>4. t \in States(Observers) /\ t.me = m /\ t.db = s.db
  BY <1>1, <1>2, <1>3, StateRecord
<1> QED BY <1>0, <1>1, <1>2, <1>4 DEF Remembers

\* A refused write is remembered as lost.
LEMMA RefusedStep ==
  ASSUME NEW s, Observing(s), NEW t, NEW effect, NEW grid, NEW guess,
         Remembers(s, t, effect, grid, guess)
  PROVE  Observing(Refused(t))
<1>1. t \in [me : Observers, db : Databases, raised : BOOLEAN]
  BY DEF Remembers, States
<1> DEFINE m == [t.me EXCEPT !.lost = TRUE]
<1>2. m \in Observers /\ m.thread = t.me.thread /\ m.lost = TRUE /\ m.cand = t.me.cand
  BY <1>1 DEF Observers
<1>3. Refused(t) = [me |-> m, db |-> t.db, raised |-> TRUE]
  <2>1. PICK u : u = [t EXCEPT !.raised = TRUE]
    OBVIOUS
  <2>2. u = [me |-> t.me, db |-> t.db, raised |-> TRUE]
    BY <1>1, <2>1
  <2>3. Refused(t) = [u EXCEPT !.me = [u.me EXCEPT !.lost = TRUE]]
    BY <2>1 DEF Refused, Raised
  <2> QED BY <2>2, <2>3
<1> HIDE DEF m
<1>4. Refused(t) \in States(Observers) /\ Refused(t).me = m /\ Refused(t).db = t.db
  BY <1>1, <1>2, <1>3 DEF States
<1>5. RowsAreWhole(t.db) /\ Sound(m.cand, t.db) /\ Keeps(db, t.db)
  BY <1>2 DEF Observing, Remembers
<1>6. Agrees(m, t.db) /\ m.thread = "running"
  BY <1>2 DEF Agrees, Remembers
<1> QED BY <1>4, <1>5, <1>6 DEF Observing

\* New rows of the two incidents leave those of the failures alone.
LEMMA RowsWritten ==
  ASSUME NEW s, Observing(s), NEW t, NEW effect, NEW grid, NEW guess,
         Remembers(s, t, effect, grid, guess),
         NEW d \in Databases, d.incident = s.db.incident,
         Agrees(t.me, d), RowsAreWhole(d)
  PROVE  Observing(Committed(t, d))
<1>1. Sound(t.me.cand, d) /\ Keeps(db, d)
  BY DEF Observing, Remembers, Sound, Known, Keeps
<1> QED BY <1>1, CommittedStep DEF Remembers

LEMMA AddedRow ==
  ASSUME NEW row \in Rows, Whole(row)
  PROVE  Add(row) \in Rows /\ Whole(Add(row)) /\ Add(row).latest = "open"
<1>1. CASE row.recent /\ row.latest # "none"
  BY <1>1 DEF Add, Rows, Whole
<1>2. CASE ~(row.recent /\ row.latest # "none")
  <2>1. (row.older \/ row.latest = "open") \in BOOLEAN
    OBVIOUS
  <2>2. PICK b \in BOOLEAN : b = (row.older \/ row.latest = "open")
    BY <2>1
  <2>3. Add(row) = [latest |-> "open", recent |-> TRUE, older |-> b]
    BY <1>2, <2>2 DEF Add
  <2> QED BY <2>3 DEF Rows, Whole
<1> QED BY <1>1, <1>2

LEMMA ResolvedRow ==
  ASSUME NEW row \in Rows, Whole(row), row.latest = "open"
  PROVE  /\ Resolve(row) \in Rows /\ Whole(Resolve(row))
         /\ Resolve(row).latest = "resolved" /\ ~Resolve(row).older
<1>1. PICK a : a = [row EXCEPT !.latest = "resolved"]
  OBVIOUS
<1>2. a \in Rows /\ a.latest = "resolved"
  BY <1>1 DEF Rows
<1>3. Resolve(row) = [a EXCEPT !.older = FALSE]
  BY <1>1 DEF Resolve
<1> QED BY <1>2, <1>3 DEF Rows, Whole

LEMMA GridStep ==
  ASSUME JournalInv, NEW s, Observing(s), NEW refused \in BOOLEAN
  PROVE  Observing(Grid(s, refused))
<1> DEFINE
  bad == world.grid
  settled == [s EXCEPT !.me.grid = bad, !.me.window = "none", !.me.guess = FALSE]
  young == [s EXCEPT !.me.window = "young"]
  first == [s EXCEPT !.me.grid = ~bad, !.me.window = "young"]
  none == [s EXCEPT !.me.window = "none"]
<1>1. /\ s \in [me : Observers, db : Databases, raised : BOOLEAN]
      /\ s.me.guess \in BOOLEAN /\ s.me.grid \in BOOLEAN \cup {None}
      /\ bad \in BOOLEAN /\ (~bad) \in BOOLEAN
      /\ RowsAreWhole(s.db) /\ s.db \in Databases /\ s.db.grid \in Rows
  BY DEF Observing, States, Observers, JournalInv, Worlds, Databases
<1>2. Remembers(s, settled, s.me.effect, bad, FALSE)
  <2>1. settled = GridSeen(s, bad, "none", FALSE)
    BY DEF GridSeen
  <2>2. FALSE \in BOOLEAN OBVIOUS
  <2> HIDE DEF settled, bad
  <2> QED BY <1>1, <2>1, <2>2, GridMemory
<1>3. ASSUME NEW window \in {"young", "none"}
      PROVE  Observing([s EXCEPT !.me.window = window])
  <2>1. PICK t : t = [s EXCEPT !.me.window = window]
    OBVIOUS
  <2>2. t = GridSeen(s, s.me.grid, window, s.me.guess)
    BY <1>1, <2>1 DEF Observers, GridSeen
  <2>3. Remembers(s, t, s.me.effect, s.me.grid, s.me.guess)
    <3>1. window \in {"none", "young", "old"}
      BY <1>3
    <3> QED BY <1>1, <2>2, <3>1, GridMemory
  <2>4. t.me.thread = s.me.thread
    BY <2>3 DEF Remembers, Observing
  <2>5. Observing(t)
    BY <2>3, <2>4, Unmoved DEF Remembers
  <2> QED BY <2>1, <2>5
<1>4. ASSUME s.me.grid = None
      PROVE  Observing(first)
  <2>0. PICK g \in BOOLEAN \cup {None} : g = ~bad
    BY <1>1
  <2>1. first = GridSeen(s, g, "young", s.me.guess)
    BY <1>1, <2>0 DEF Observers, GridSeen
  <2>2. Remembers(s, first, s.me.effect, g, s.me.guess)
    <3>1. g \in BOOLEAN \cup {None} /\ s.me.guess \in BOOLEAN
      BY <1>1, <2>0
    <3>2. "young" \in {"none", "young", "old"}
      OBVIOUS
    <3> HIDE DEF first
    <3> QED BY <2>1, <3>1, <3>2, GridMemory
  <2> HIDE DEF first
  <2>3. ~s.me.lost => s.me.guess
    BY <1>4 DEF Observing, Agrees, GridAgrees
  <2>4. Agrees(first.me, first.db)
    BY <2>2, <2>3 DEF Observing, Agrees, EffectAgrees, GridAgrees, Remembers
  <2> QED BY <2>2, <2>4 DEF Observing, Remembers
<1>5. ASSUME bad
      PROVE  Observing(Open(settled, "grid", refused))
  <2> HIDE DEF settled
  <2>1. PICK row : row = Add(s.db.grid)
    OBVIOUS
  <2>2. row \in Rows /\ Whole(row) /\ row.latest = "open"
    BY <1>1, <2>1, AddedRow DEF RowsAreWhole
  <2>3. PICK d : d = [s.db EXCEPT !.grid = row]
    OBVIOUS
  <2>4. /\ d \in Databases /\ d.incident = s.db.incident
        /\ d.effect = s.db.effect /\ d.grid = row
    BY <1>1, <2>2, <2>3 DEF Databases
  <2>5. Agrees(settled.me, d)
    BY <1>2, <1>5, <2>2, <2>4 DEF Observing, Agrees, EffectAgrees, GridAgrees, Remembers
  <2>6. RowsAreWhole(d)
    BY <1>1, <2>2, <2>4 DEF RowsAreWhole
  <2>7. Observing(Committed(settled, d))
    BY <1>2, <2>4, <2>5, <2>6, RowsWritten
  <2>8. [settled.db EXCEPT !["grid"] = Add(@)] = d
    BY <1>2, <2>1, <2>3 DEF Remembers
  <2> QED BY <1>2, <2>7, <2>8, RefusedStep DEF Open
<1>6. ASSUME ~bad
      PROVE  Observing(Close(settled, "grid", refused))
  <2> HIDE DEF settled
  <2>0. settled.db["grid"] = s.db.grid
    BY <1>2 DEF Remembers
  <2>1. CASE refused
    BY <1>2, <2>1, RefusedStep DEF Close
  <2>2. CASE ~refused /\ s.db.grid.latest = "open"
    <3>1. PICK row : row = Resolve(s.db.grid)
      OBVIOUS
    <3>2. row \in Rows /\ Whole(row) /\ row.latest = "resolved"
      BY <1>1, <2>2, <3>1, ResolvedRow DEF RowsAreWhole
    <3>3. PICK d : d = [s.db EXCEPT !.grid = row]
      OBVIOUS
    <3>4. /\ d \in Databases /\ d.incident = s.db.incident
          /\ d.effect = s.db.effect /\ d.grid = row
      BY <1>1, <3>2, <3>3 DEF Databases
    <3>5. Agrees(settled.me, d)
      BY <1>1, <1>2, <1>6, <3>2, <3>4 DEF Observing, Agrees, EffectAgrees, GridAgrees, Remembers
    <3>6. RowsAreWhole(d)
      BY <1>1, <3>2, <3>4 DEF RowsAreWhole
    <3>7. Observing(Committed(settled, d))
      BY <1>2, <3>4, <3>5, <3>6, RowsWritten
    <3>8. [settled.db EXCEPT !["grid"] = Resolve(@)] = d
      BY <1>2, <3>1, <3>3 DEF Remembers
    <3> QED BY <2>0, <2>2, <3>7, <3>8 DEF Close
  <2>3. CASE ~refused /\ s.db.grid.latest # "open"
    <3>1. Agrees(settled.me, settled.db)
      BY <1>1, <1>2, <1>6, <2>3 DEF Observing, Agrees, EffectAgrees, GridAgrees, Remembers
    <3>2. Observing(settled)
      BY <1>2, <3>1 DEF Observing, Remembers
    <3>3. Observing([settled EXCEPT !.db.open = TRUE])
      BY <3>2, LeftOpenStep
    <3> QED BY <2>0, <2>3, <3>3 DEF Close
  <2> QED BY <2>1, <2>2, <2>3
<1>7. \/ Grid(s, refused) \in {none, young, s}
        \/ (s.me.grid = None /\ Grid(s, refused) = first)
        \/ (bad /\ Grid(s, refused) = Open(settled, "grid", refused))
        \/ (~bad /\ Grid(s, refused) = Close(settled, "grid", refused))
  BY DEF Grid
<1>8. Observing(none) /\ Observing(young)
  BY <1>3
<1> HIDE DEF settled, young, first, none, bad
<1> QED BY <1>4, <1>5, <1>6, <1>7, <1>8

EffectSeen(s, effect) == [s EXCEPT !.me = [s.me EXCEPT !.effect = effect]]

LEMMA EffectMemory ==
  ASSUME NEW s, Observing(s), NEW effect \in {Good} \cup Bad
  PROVE  Remembers(s, EffectSeen(s, effect), effect, s.me.grid, s.me.guess)
<1> DEFINE m == [s.me EXCEPT !.effect = effect]
<1>0. PICK t : t = EffectSeen(s, effect)
  OBVIOUS
<1>1. s \in [me : Observers, db : Databases, raised : BOOLEAN] /\ s.me.thread = "running"
  BY DEF Observing, States
<1>2. /\ m \in Observers
      /\ m.thread = s.me.thread /\ m.effect = effect /\ m.grid = s.me.grid
      /\ m.guess = s.me.guess /\ m.lost = s.me.lost /\ m.cand = s.me.cand
  BY <1>1 DEF Observers
<1> HIDE DEF m
<1>3. t = [me |-> m, db |-> s.db, raised |-> s.raised]
  BY <1>0, <1>1 DEF m, EffectSeen
<1>4. t \in States(Observers) /\ t.me = m /\ t.db = s.db
  BY <1>1, <1>2, <1>3, StateRecord
<1> QED BY <1>0, <1>1, <1>2, <1>4 DEF Remembers

LEMMA EffectStep ==
  ASSUME JournalInv, NEW s, Observing(s), NEW refused \in BOOLEAN
  PROVE  Observing(Effect(s, refused))
<1> DEFINE
  new == world.effect
  seen == [s EXCEPT !.me.effect = new]
<1>1. /\ new \in {Good} \cup Bad /\ s.me.effect \in {Good, None} \cup Bad
      /\ RowsAreWhole(s.db) /\ s.db \in Databases /\ s.db.effect \in Rows
  BY DEF Observing, States, Observers, JournalInv, Worlds, Databases
<1>2. Remembers(s, seen, new, s.me.grid, s.me.guess)
  <2>1. seen = EffectSeen(s, new)
    BY DEF EffectSeen
  <2> HIDE DEF seen, new
  <2> QED BY <1>1, <2>1, EffectMemory
<1> HIDE DEF seen
<1>3. ASSUME new \in Bad
      PROVE  Observing(Open(seen, "effect", refused))
  <2>1. PICK row : row = Add(s.db.effect)
    OBVIOUS
  <2>2. row \in Rows /\ Whole(row) /\ row.latest = "open"
    BY <1>1, <2>1, AddedRow DEF RowsAreWhole
  <2>3. PICK d : d = [s.db EXCEPT !.effect = row]
    OBVIOUS
  <2>4. /\ d \in Databases /\ d.incident = s.db.incident
        /\ d.grid = s.db.grid /\ d.effect = row
    BY <1>1, <2>2, <2>3 DEF Databases
  <2>5. Agrees(seen.me, d)
    BY <1>2, <1>3, <2>2, <2>4 DEF Observing, Agrees, EffectAgrees, GridAgrees, Remembers
  <2>6. RowsAreWhole(d)
    BY <1>1, <2>2, <2>4 DEF RowsAreWhole
  <2>7. Observing(Committed(seen, d))
    BY <1>2, <2>4, <2>5, <2>6, RowsWritten
  <2>8. [seen.db EXCEPT !["effect"] = Add(@)] = d
    BY <1>2, <2>1, <2>3 DEF Remembers
  <2> QED BY <1>2, <2>7, <2>8, RefusedStep DEF Open
<1>4. ASSUME new = Good
      PROVE  Observing(Close(seen, "effect", refused))
  <2>0. seen.db["effect"] = s.db.effect
    BY <1>2 DEF Remembers
  <2>1. CASE refused
    BY <1>2, <2>1, RefusedStep DEF Close
  <2>2. CASE ~refused /\ s.db.effect.latest = "open"
    <3>1. PICK row : row = Resolve(s.db.effect)
      OBVIOUS
    <3>2. row \in Rows /\ Whole(row) /\ row.latest = "resolved" /\ ~row.older
      BY <1>1, <2>2, <3>1, ResolvedRow DEF RowsAreWhole
    <3>3. PICK d : d = [s.db EXCEPT !.effect = row]
      OBVIOUS
    <3>4. /\ d \in Databases /\ d.incident = s.db.incident
          /\ d.grid = s.db.grid /\ d.effect = row
      BY <1>1, <3>2, <3>3 DEF Databases
    <3>5. Agrees(seen.me, d)
      BY <1>2, <1>4, <3>2, <3>4 DEF Observing, Agrees, EffectAgrees, GridAgrees, Remembers
    <3>6. RowsAreWhole(d)
      BY <1>1, <3>2, <3>4 DEF RowsAreWhole
    <3>7. Observing(Committed(seen, d))
      BY <1>2, <3>4, <3>5, <3>6, RowsWritten
    <3>8. [seen.db EXCEPT !["effect"] = Resolve(@)] = d
      BY <1>2, <3>1, <3>3 DEF Remembers
    <3> QED BY <2>0, <2>2, <3>7, <3>8 DEF Close
  <2>3. CASE ~refused /\ s.db.effect.latest # "open"
    <3>1. Agrees(seen.me, seen.db)
      BY <1>1, <1>2, <1>4, <2>3
      DEF Observing, Agrees, EffectAgrees, GridAgrees, Remembers, RowsAreWhole, Whole
    <3>2. Observing(seen)
      BY <1>2, <3>1 DEF Observing, Remembers
    <3>3. Observing([seen EXCEPT !.db.open = TRUE])
      BY <3>2, LeftOpenStep
    <3> QED BY <2>0, <2>3, <3>3 DEF Close
  <2> QED BY <2>1, <2>2, <2>3
<1>5. \/ Effect(s, refused) = s
      \/ new \in Bad /\ Effect(s, refused) = Open(seen, "effect", refused)
      \/ new = Good /\ Effect(s, refused) = Close(seen, "effect", refused)
  BY <1>1 DEF Effect, seen
<1> QED BY <1>3, <1>4, <1>5

-----------------------------------------------------------------------------
(* Actions *)

\* The handlers of an observation that ends in s, in their order.
Chain(s, at, row, midCycle, noted, changed) ==
  \E s1, s2, s3, s4 :
    /\ s1 = Incident([me |-> observer, db |-> db, raised |-> FALSE],
                     at = "incident", row, noted)
    /\ s2 = IF s1.raised THEN s1 ELSE Stage(s1, at = "stage", midCycle)
    /\ s3 = IF s2.raised THEN s2 ELSE Mode(s2, at = "mode", changed)
    /\ s4 = IF s3.raised THEN s3 ELSE Grid(s3, at = "grid")
    /\ s = IF s4.raised THEN s4 ELSE Effect(s4, at = "effect")

LEMMA Pipeline ==
  ASSUME NEW at, NEW row, NEW midCycle, NEW noted, NEW changed,
         NEW s \in Observed(at, row, midCycle, noted, changed)
  PROVE  Chain(s, at, row, midCycle, noted, changed)
<1> DEFINE
  S1 == {Incident(t, at = "incident", row, noted) :
           t \in {[me |-> observer, db |-> db, raised |-> FALSE]}}
  S2 == {IF t.raised THEN t ELSE Stage(t, at = "stage", midCycle) : t \in S1}
  S3 == {IF t.raised THEN t ELSE Mode(t, at = "mode", changed) : t \in S2}
  S4 == {IF t.raised THEN t ELSE Grid(t, at = "grid") : t \in S3}
<1>1. s \in {IF t.raised THEN t ELSE Effect(t, at = "effect") : t \in S4}
  BY DEF Observed, After
<1>2. PICK s4 \in S4 : s = IF s4.raised THEN s4 ELSE Effect(s4, at = "effect")
  BY <1>1
<1>3. PICK s3 \in S3 : s4 = IF s3.raised THEN s3 ELSE Grid(s3, at = "grid")
  OBVIOUS
<1>4. PICK s2 \in S2 : s3 = IF s2.raised THEN s2 ELSE Mode(s2, at = "mode", changed)
  OBVIOUS
<1>5. PICK s1 \in S1 : s2 = IF s1.raised THEN s1 ELSE Stage(s1, at = "stage", midCycle)
  OBVIOUS
<1>6. s1 = Incident([me |-> observer, db |-> db, raised |-> FALSE], at = "incident", row, noted)
  OBVIOUS
<1> QED
  BY <1>2, <1>3, <1>4, <1>5, <1>6 DEF Chain

\* An observation hands its memory and rows from handler to handler.
LEMMA ObservationSteps ==
  ASSUME JournalInv, observer.thread = "running",
         NEW at, NEW row \in Failures \cup {None}, NEW midCycle \in BOOLEAN,
         NEW noted \in BOOLEAN, NEW changed \in BOOLEAN,
         NEW s \in Observed(at, row, midCycle, noted, changed)
  PROVE  Observing(s)
<1>1. PICK s0 : s0 = [me |-> observer, db |-> db, raised |-> FALSE]
  OBVIOUS
<1>2. Observing(s0)
  <2>1. s0 \in States(Observers) /\ s0.me = observer /\ s0.db = db
    <3>1. observer \in Observers /\ db \in Databases
      BY DEF JournalInv
    <3> QED BY <1>1, <3>1 DEF States
  <2>2. Keeps(db, db)
    BY DEF Keeps
  <2> QED BY <2>1, <2>2 DEF Observing, JournalInv
<1>3. PICK s1, s2, s3, s4 :
        /\ s1 = Incident([me |-> observer, db |-> db, raised |-> FALSE],
                         at = "incident", row, noted)
        /\ s2 = IF s1.raised THEN s1 ELSE Stage(s1, at = "stage", midCycle)
        /\ s3 = IF s2.raised THEN s2 ELSE Mode(s2, at = "mode", changed)
        /\ s4 = IF s3.raised THEN s3 ELSE Grid(s3, at = "grid")
        /\ s = IF s4.raised THEN s4 ELSE Effect(s4, at = "effect")
  <2>1. Chain(s, at, row, midCycle, noted, changed)
    BY Pipeline
  <2> QED BY <2>1 DEF Chain
<1>4. /\ (at = "incident") \in BOOLEAN /\ (at = "stage") \in BOOLEAN
      /\ (at = "mode") \in BOOLEAN /\ (at = "grid") \in BOOLEAN
      /\ (at = "effect") \in BOOLEAN
  OBVIOUS
<1>5. Observing(s1)
  BY <1>1, <1>2, <1>3, <1>4, IncidentStep
<1>6. Observing(s2)
  BY <1>3, <1>4, <1>5, StageStep
<1>7. Observing(s3)
  BY <1>3, <1>4, <1>6, ModeStep
<1>8. Observing(s4)
  BY <1>3, <1>4, <1>7, GridStep
<1> QED BY <1>3, <1>4, <1>8, EffectStep

\* Steps at which no sample arrives and none becomes stale.
LEMMA SampleKept ==
  ASSUME JournalInv, UNCHANGED <<world, moving, high>>, faults' \in 0..MaxFaults,
         control' \in Controls, observer' \in Observers, db' \in Databases,
         PersistedIsStored', StartsFresh',
         observer'.thread = "running" => Agrees(observer', db'),
         RowsAreWhole(db'), Sound(observer'.cand, db'), Sound(control'.cand, db')
  PROVE  JournalInv'
<1>1. Sound(observer'.cand, db') => Sound(observer.cand, db)'
  BY DEF Sound, Within, AtReserve, Known
<1>2. Sound(control'.cand, db') => Sound(control.cand, db)'
  BY DEF Sound, Within, AtReserve, Known
<1>3. (\A f \in Failures : AtReserve(f) => high[f] >= 1)'
  BY DEF JournalInv, AtReserve
<1>4. RowsAreWhole(db)'
  BY DEF RowsAreWhole
<1>5. (observer.thread = "running" => Agrees(observer, db))'
  BY DEF Agrees, EffectAgrees, GridAgrees
<1>6. /\ world' \in Worlds' /\ moving' \in Moves /\ high' \in [Failures -> 0..2]
  BY DEF JournalInv, Worlds
<1>7. control' \in Controls' /\ observer' \in Observers' /\ db' \in Databases'
  BY DEF Controls, Observers, Databases, Incidents
<1> QED BY <1>1, <1>2, <1>3, <1>4, <1>5, <1>6, <1>7 DEF JournalInv

LEMMA TurnKeeps ==
  ASSUME JournalInv, NEW at, NEW row \in Failures \cup {None}, NEW midCycle \in BOOLEAN,
         NEW noted \in BOOLEAN, NEW changed \in BOOLEAN,
         Observe(at, row, midCycle, noted, changed)
  PROVE  JournalInv' /\ Keeps(db, db')
<1>1. PICK s \in Observed(at, row, midCycle, noted, changed) : observer' = s.me /\ db' = s.db
  BY DEF Observe
<1>2. Observing(s)
  BY <1>1, ObservationSteps DEF Observe
<1>3. /\ observer' \in Observers /\ db' \in Databases /\ observer'.thread = "running"
      /\ Agrees(observer', db') /\ RowsAreWhole(db') /\ Sound(observer'.cand, db')
      /\ Keeps(db, db')
  BY <1>1, <1>2 DEF Observing, States
<1>4. UNCHANGED <<world, moving, high, control>>
  BY DEF Observe
<1>5. faults' \in 0..MaxFaults
  BY DEF Observe, Fails, JournalInv
<1>6. StartsFresh'
  BY <1>3 DEF StartsFresh
<1>7. PersistedIsStored'
  <2>1. control.persisted => control.failed \in Failures /\ Known(db, control.failed)
    BY DEF JournalInv, PersistedIsStored, Controls
  <2>2. control.persisted => control.failed # None /\ Known(db', control.failed)
    BY <1>3, <2>1, KnownStays DEF JournalInv
  <2> QED BY <1>4, <2>2 DEF PersistedIsStored, Known
<1>8. Sound(control'.cand, db') /\ control' \in Controls
  <2>1. db \in Databases /\ Sound(control.cand, db) /\ control \in Controls
    BY DEF JournalInv
  <2>2. Sound(control.cand, db')
    BY <1>3, <2>1, SoundStays
  <2> QED BY <1>4, <2>1, <2>2
<1>9. JournalInv'
  BY <1>3, <1>4, <1>5, <1>6, <1>7, <1>8, SampleKept
<1> QED BY <1>3, <1>9

\* The control loop's own write of a failure f it has confirmed.
LEMMA WriteThroughKeeps ==
  ASSUME JournalInv, NEW f \in Failures, NEW c,
         c = [control EXCEPT !.failed = f], NEW refused \in BOOLEAN,
         NEW row \in Failures \cup {None}, WriteThrough(c, refused, row),
         UNCHANGED <<world, moving, observer, high>>, faults' \in 0..MaxFaults
  PROVE  JournalInv' /\ Keeps(db, db')
<1>1. /\ c \in Controls /\ c.failed = f /\ c.cand = control.cand
      /\ db \in Databases
  BY DEF JournalInv, Controls
<1>2. /\ control' \in Controls /\ db' \in Databases
      /\ db'.effect = db.effect /\ db'.grid = db.grid /\ Keeps(db, db')
      /\ Sound(control'.cand, db')
      /\ control'.persisted => control'.failed = f /\ Known(db', f)
  <2>1. CASE refused \/ db.open
    <3>1. control' = [c EXCEPT !.persisted = FALSE] /\ db' = db
      BY <2>1 DEF WriteThrough
    <3>2. control' \in Controls /\ ~control'.persisted /\ control'.cand = control.cand
      BY <1>1, <3>1 DEF Controls
    <3>3. Keeps(db, db)
      BY DEF Keeps
    <3> QED BY <1>1, <3>1, <3>2, <3>3 DEF JournalInv
  <2>2. CASE ~(refused \/ db.open)
    <3>1. PICK d : d = Inserted(db, f)
      OBVIOUS
    <3>2. /\ d \in Databases /\ d.effect = db.effect /\ d.grid = db.grid
          /\ Keeps(db, d) /\ Known(d, f)
      BY <1>1, <3>1, InsertedRow
    <3>3. PICK s : s = [me |-> c, db |-> d, raised |-> FALSE]
      OBVIOUS
    <3>4. s \in States(Controls) /\ s.me = c /\ s.db = d
      BY <1>1, <3>2, <3>3 DEF States
    <3>5. Sound(s.me.cand, s.db)
      BY <1>1, <3>2, <3>4, SoundStays DEF JournalInv
    <3>6. PICK r : r = Recover(s, row, FALSE)
      OBVIOUS
    <3>7. FALSE \in BOOLEAN
      OBVIOUS
    <3>8. /\ r \in States(Controls) /\ SameButCandidates(r.me, s.me)
          /\ r.db.effect = d.effect /\ r.db.grid = d.grid
          /\ Keeps(d, r.db) /\ Sound(r.me.cand, r.db)
      BY <3>4, <3>5, <3>6, <3>7, ControlMemory, RecoverRows
    <3>9. r.me \in Controls /\ r.db \in Databases /\ r.me.failed = f
      BY <1>1, <3>4, <3>8 DEF States, SameButCandidates, Controls
    <3>10. control' = [r.me EXCEPT !.persisted = ~r.raised /\ Known(r.db, c.failed)] /\ db' = r.db
      BY <1>1, <2>2, <3>1, <3>3, <3>6 DEF WriteThrough
    <3>11. Known(r.db, f)
      BY <3>2, <3>8, <3>9, KnownStays
    <3>12. PICK b \in BOOLEAN : b = (~r.raised /\ Known(r.db, c.failed))
      OBVIOUS
    <3>13. control' \in Controls /\ control'.failed = f /\ control'.cand = r.me.cand
      BY <3>9, <3>10, <3>12 DEF Controls
    <3>14. Keeps(db, r.db)
      BY <1>1, <3>2, <3>8, <3>9, KeepsTransitive
    <3> QED BY <3>2, <3>8, <3>9, <3>10, <3>11, <3>13, <3>14
  <2> QED BY <2>1, <2>2
<1>3. PersistedIsStored'
  BY <1>2 DEF PersistedIsStored, Known
<1>4. observer.thread = "running" => Agrees(observer, db')
  BY <1>2 DEF JournalInv, Agrees, EffectAgrees, GridAgrees
<1>5. RowsAreWhole(db') /\ Sound(observer.cand, db')
  <2>1. RowsAreWhole(db')
    BY <1>2 DEF JournalInv, RowsAreWhole
  <2> QED BY <1>1, <1>2, <2>1, SoundStays DEF JournalInv
<1>6. StartsFresh' /\ observer' = observer /\ observer \in Observers
  BY DEF JournalInv, StartsFresh
<1>7. JournalInv'
  BY <1>2, <1>3, <1>4, <1>5, <1>6, SampleKept
<1> QED BY <1>2, <1>7

LEMMA StartObserverKeeps ==
  ASSUME JournalInv, NEW refused \in BOOLEAN, StartObserver(refused)
  PROVE  JournalInv' /\ Keeps(db, db')
<1>1. UNCHANGED <<world, moving, high, control, db>> /\ observer.thread = "starting"
  BY DEF StartObserver
<1>2. /\ observer \in Observers /\ control \in Controls /\ db \in Databases
      /\ observer.effect = None /\ observer.guess
  BY <1>1 DEF JournalInv, StartsFresh
<1>3. PICK x \in {"running", "ended"} : observer' = [observer EXCEPT !.thread = x]
  BY DEF StartObserver
<1>4. /\ observer' \in Observers /\ observer'.thread = x /\ observer'.effect = None
      /\ observer'.guess /\ observer'.cand = observer.cand
  BY <1>2, <1>3 DEF Observers
<1>5. faults' \in 0..MaxFaults
  BY DEF StartObserver, Fails, JournalInv
<1>6. Agrees(observer', db')
  BY <1>4 DEF Agrees, EffectAgrees, GridAgrees
<1>7. StartsFresh' /\ PersistedIsStored'
  BY <1>1, <1>4 DEF StartsFresh, PersistedIsStored, JournalInv, Known
<1>8. RowsAreWhole(db') /\ Sound(observer'.cand, db') /\ Sound(control'.cand, db')
  BY <1>1, <1>4 DEF JournalInv
<1>9. JournalInv'
  BY <1>1, <1>2, <1>4, <1>5, <1>6, <1>7, <1>8, SampleKept
<1> QED BY <1>1, <1>9 DEF Keeps

LEMMA ConfirmFailureKeeps ==
  ASSUME JournalInv, NEW refused \in BOOLEAN, NEW row \in Failures \cup {None},
         ConfirmFailure(refused, row)
  PROVE  JournalInv' /\ Keeps(db, db')
<1>1. PICK f \in Failures : WriteThrough([control EXCEPT !.failed = f], refused, row)
  BY DEF ConfirmFailure
<1>2. UNCHANGED <<world, moving, observer, high>>
  BY DEF ConfirmFailure
<1>3. faults' \in 0..MaxFaults
  BY DEF ConfirmFailure, Fails, JournalInv
<1> QED BY <1>1, <1>2, <1>3, WriteThroughKeeps

LEMMA RetryFailureKeeps ==
  ASSUME JournalInv, NEW refused \in BOOLEAN, NEW row \in Failures \cup {None},
         RetryFailure(refused, row)
  PROVE  JournalInv' /\ Keeps(db, db')
<1>1. WriteThrough(control, refused, row) /\ UNCHANGED <<world, moving, observer, high>>
  BY DEF RetryFailure
<1>2. control.failed \in Failures /\ control = [control EXCEPT !.failed = control.failed]
  BY DEF RetryFailure, JournalInv, Controls
<1>3. faults' \in 0..MaxFaults
  BY DEF RetryFailure, Fails, JournalInv
<1> QED BY <1>1, <1>2, <1>3, WriteThroughKeeps

\* The world moves without a new sample.
LEMMA WorldKeeps ==
  ASSUME JournalInv, EffectChanges \/ GridChanges
  PROVE  JournalInv' /\ Keeps(db, db')
<1>1. UNCHANGED <<moving, control, observer, db, high, faults>>
  BY DEF EffectChanges, GridChanges
<1>2. world' \in Worlds /\ world'.soc = world.soc
  <2>1. world \in Worlds
    BY DEF JournalInv
  <2>2. CASE EffectChanges
    <3>1. PICK e \in {Good} \cup Bad : world' = [world EXCEPT !.effect = e]
      BY <2>2 DEF EffectChanges
    <3> QED BY <2>1, <3>1 DEF Worlds
  <2>3. CASE GridChanges
    <3>1. PICK b \in BOOLEAN : b = ~world.grid
      OBVIOUS
    <3>2. world' = [world EXCEPT !.grid = b]
      BY <2>3, <3>1 DEF GridChanges
    <3> QED BY <2>1, <3>2 DEF Worlds
  <2> QED BY <2>2, <2>3
<1>3. \A f \in Failures : AtReserve(f)' <=> AtReserve(f)
  BY <1>2 DEF AtReserve
<1>4. Sound(observer.cand, db)' /\ Sound(control.cand, db)'
  BY <1>1, <1>3 DEF JournalInv, Sound, Within, Known
<1>5. (\A f \in Failures : AtReserve(f) => high[f] >= 1)'
  BY <1>1, <1>3 DEF JournalInv
<1>6. PersistedIsStored' /\ StartsFresh' /\ RowsAreWhole(db)'
  BY <1>1 DEF JournalInv, PersistedIsStored, StartsFresh, RowsAreWhole, Known
<1>7. (observer.thread = "running" => Agrees(observer, db))'
  BY <1>1 DEF JournalInv, Agrees, EffectAgrees, GridAgrees
<1>8. JournalInv'
  BY <1>1, <1>2, <1>4, <1>5, <1>6, <1>7
  DEF JournalInv, Worlds, Controls, Observers, Databases, Incidents
<1> QED BY <1>1, <1>8 DEF Keeps

LEMMA SocStaleKeeps ==
  ASSUME JournalInv, SocStale
  PROVE  JournalInv' /\ Keeps(db, db')
<1>1. UNCHANGED <<moving, control, observer, db, high, faults>>
  BY DEF SocStale
<1>2. world' \in Worlds /\ world'.soc = 0
  BY DEF SocStale, JournalInv, Worlds
<1>3. \A f \in Failures : ~AtReserve(f)'
  BY <1>2 DEF AtReserve
<1>4. \A c \in Candidates, f \in Failures : c # None /\ Within(c, f) => Within(c, f)'
  BY <1>1, <1>3 DEF Within, Candidates, JournalInv
<1>5. Sound(observer.cand, db)' /\ Sound(control.cand, db)'
  BY <1>1, <1>4 DEF JournalInv, Sound, Known, Observers, Controls
<1>6. PersistedIsStored' /\ StartsFresh' /\ RowsAreWhole(db)'
  BY <1>1 DEF JournalInv, PersistedIsStored, StartsFresh, RowsAreWhole, Known
<1>7. (observer.thread = "running" => Agrees(observer, db))'
  BY <1>1 DEF JournalInv, Agrees, EffectAgrees, GridAgrees
<1>8. JournalInv'
  BY <1>1, <1>2, <1>3, <1>5, <1>6, <1>7
  DEF JournalInv, Worlds, Controls, Observers, Databases, Incidents
<1> QED BY <1>1, <1>8 DEF Keeps

LEMMA CycleKeeps ==
  ASSUME JournalInv, Cycle
  PROVE  JournalInv' /\ Keeps(db, db')
<1>1. UNCHANGED <<moving, control, db, high, faults>>
  BY DEF Cycle
<1>2. world' \in Worlds /\ world'.soc = world.soc
  <2>1. world \in Worlds
    BY DEF JournalInv
  <2>2. PICK x \in Stages : world' = [world EXCEPT !.stage = x]
    BY <2>1 DEF Cycle, Worlds
  <2> QED BY <2>1, <2>2 DEF Worlds
<1>3. \A f \in Failures : AtReserve(f)' <=> AtReserve(f)
  BY <1>2 DEF AtReserve
<1>4. /\ observer' \in Observers /\ observer'.thread = observer.thread
      /\ observer'.effect = observer.effect /\ observer'.grid = observer.grid
      /\ observer'.guess = observer.guess /\ observer'.lost = observer.lost
      /\ observer'.cand = observer.cand
  <2>1. observer \in Observers
    BY DEF JournalInv
  <2>2. PICK x : x = IF observer.stage = None THEN None
                     ELSE [observer.stage EXCEPT !.seen = FALSE]
    OBVIOUS
  <2>3. x \in [stage : Stages, count : 1..2, seen : BOOLEAN] \cup {None}
    BY <2>1, <2>2 DEF Observers
  <2>4. observer' = [observer EXCEPT !.stage = x]
    BY <2>2 DEF Cycle
  <2> QED BY <2>1, <2>3, <2>4 DEF Observers
<1>5. Sound(observer.cand, db)' /\ Sound(control.cand, db)'
  BY <1>1, <1>3, <1>4 DEF JournalInv, Sound, Within, Known
<1>6. (\A f \in Failures : AtReserve(f) => high[f] >= 1)'
  BY <1>1, <1>3 DEF JournalInv
<1>7. PersistedIsStored' /\ StartsFresh' /\ RowsAreWhole(db)'
  BY <1>1, <1>4 DEF JournalInv, PersistedIsStored, StartsFresh, RowsAreWhole, Known
<1>8. (observer.thread = "running" => Agrees(observer, db))'
  BY <1>1, <1>4 DEF JournalInv, Agrees, EffectAgrees, GridAgrees
<1>9. JournalInv'
  BY <1>1, <1>2, <1>4, <1>5, <1>6, <1>7, <1>8
  DEF JournalInv, Worlds, Controls, Observers, Databases, Incidents
<1> QED BY <1>1, <1>9 DEF Keeps

\* A new sample: every candidate has yet to count it, and it counts for the
\* rows whose reserve it reaches.
LEMMA SampleKeeps ==
  ASSUME JournalInv, NEW soc \in Soc, Sample(soc)
  PROVE  JournalInv' /\ Keeps(db, db')
<1>1. UNCHANGED <<moving, db, faults>>
  BY DEF Sample
<1>2. world' \in Worlds /\ world'.soc = soc /\ soc # 0 /\ soc \in Nat
  BY DEF Sample, JournalInv, Worlds
<1>3. \A f \in Failures : AtReserve(f)' <=> soc >= Reserve[f]
  BY <1>2 DEF AtReserve
<1>4. ASSUME NEW f \in Failures
      PROVE  /\ high'[f] \in 0..2
             /\ AtReserve(f)' => high'[f] >= 1
             /\ Known(db, f) /\ high[f] = 2 => high'[f] = 2
             /\ Known(db, f) /\ high[f] # 2 =>
                  high'[f] = high[f] + (IF AtReserve(f)' THEN 1 ELSE 0)
  <2>1. PICK n \in {0, 1} : n = IF soc >= Reserve[f] THEN 1 ELSE 0
    OBVIOUS
  <2>2. high'[f] = IF ~Known(db, f) THEN n ELSE IF high[f] = 2 THEN 2 ELSE high[f] + n
    BY <2>1 DEF Sample
  <2>3. high[f] \in 0..2
    BY DEF JournalInv
  <2>4. n = IF AtReserve(f)' THEN 1 ELSE 0
    BY <1>3, <2>1
  <2> QED BY <2>1, <2>2, <2>3, <2>4
<1>5. high' \in [Failures -> 0..2]
  BY <1>4 DEF Sample
<1>6. /\ observer.cand \in [Failures -> Candidates] /\ control.cand \in [Failures -> Candidates]
      /\ observer \in Observers /\ control \in Controls
      /\ Sound(observer.cand, db) /\ Sound(control.cand, db)
  BY DEF JournalInv, Observers, Controls
<1>7. ASSUME NEW cand \in [Failures -> Candidates], Sound(cand, db)
      PROVE  /\ Unseen(cand) \in [Failures -> Candidates]
             /\ \A f \in Failures : Unseen(cand)[f] # None =>
                  Known(db, f) /\ Within(Unseen(cand)[f], f)'
  <2>1. ASSUME NEW f \in Failures
        PROVE  /\ Unseen(cand)[f] \in Candidates
               /\ Unseen(cand)[f] # None => Known(db, f) /\ Within(Unseen(cand)[f], f)'
    <3>1. CASE cand[f] = None
      BY <3>1 DEF Unseen, Candidates
    <3>2. CASE cand[f] # None
      <4>1. PICK c : c = cand[f]
        OBVIOUS
      <4>2. c \in [count : 1..2, seen : BOOLEAN, old : BOOLEAN] /\ c # None
        BY <3>2, <4>1 DEF Candidates
      <4>3. PICK e : e = [c EXCEPT !.seen = FALSE]
        OBVIOUS
      <4>4. e \in [count : 1..2, seen : BOOLEAN, old : BOOLEAN]
            /\ e.count = c.count /\ e.seen = FALSE
        BY <4>2, <4>3
      <4>5. Unseen(cand)[f] = e
        BY <3>2, <4>1, <4>3 DEF Unseen
      <4>6. Known(db, f) /\ Within(c, f)
        BY <3>2, <4>1, <1>7 DEF Sound
      <4>7. high[f] = 2 \/ c.count <= high[f]
        <5>1. high[f] \in 0..2
          BY DEF JournalInv
        <5> QED BY <4>2, <4>6, <5>1 DEF Within
      <4>8. high'[f] = 2 \/ e.count + (IF AtReserve(f)' THEN 1 ELSE 0) <= high'[f]
        <5>1. high[f] \in 0..2
          BY DEF JournalInv
        <5>2. PICK n \in {0, 1} : n = IF AtReserve(f)' THEN 1 ELSE 0
          OBVIOUS
        <5>3. high[f] = 2 => high'[f] = 2
          BY <1>4, <4>6
        <5>4. high[f] # 2 => high'[f] = high[f] + n
          BY <1>4, <4>6, <5>2
        <5>5. high'[f] = 2 \/ e.count + n <= high'[f]
          BY <4>4, <4>7, <5>1, <5>2, <5>3, <5>4
        <5> QED BY <5>2, <5>5
      <4>9. Within(e, f)'
        <5>1. PICK n \in {0, 1} : n = IF AtReserve(f)' THEN 1 ELSE 0
          OBVIOUS
        <5>2. (IF ~e.seen /\ AtReserve(f)' THEN 1 ELSE 0) = n
          BY <4>4, <5>1
        <5> QED BY <4>8, <5>1, <5>2 DEF Within
      <4> QED BY <4>4, <4>5, <4>6, <4>9 DEF Candidates
    <3> QED BY <3>1, <3>2
  <2>2. Unseen(cand) \in [Failures -> Candidates]
    BY <2>1 DEF Unseen
  <2> QED BY <2>1, <2>2
<1>8. /\ observer' \in Observers /\ observer'.thread = observer.thread
      /\ observer'.effect = observer.effect /\ observer'.grid = observer.grid
      /\ observer'.guess = observer.guess /\ observer'.lost = observer.lost
      /\ observer'.cand = Unseen(observer.cand)
  BY <1>6, <1>7 DEF Sample, Observers
<1>9. /\ control' \in Controls /\ control'.failed = control.failed
      /\ control'.persisted = control.persisted /\ control'.cand = Unseen(control.cand)
  BY <1>6, <1>7 DEF Sample, Controls
<1>10. Sound(observer.cand, db)' /\ Sound(control.cand, db)'
  BY <1>1, <1>6, <1>7, <1>8, <1>9 DEF Sound, Known
<1>11. (\A f \in Failures : AtReserve(f) => high[f] >= 1)'
  BY <1>4
<1>12. PersistedIsStored' /\ StartsFresh' /\ RowsAreWhole(db)'
  BY <1>1, <1>8, <1>9 DEF JournalInv, PersistedIsStored, StartsFresh, RowsAreWhole, Known
<1>13. (observer.thread = "running" => Agrees(observer, db))'
  BY <1>1, <1>8 DEF JournalInv, Agrees, EffectAgrees, GridAgrees
<1>14. JournalInv'
  BY <1>1, <1>2, <1>5, <1>8, <1>9, <1>10, <1>11, <1>12, <1>13
  DEF JournalInv, Worlds, Controls, Observers, Databases, Incidents
<1> QED BY <1>1, <1>14 DEF Keeps

\* Time passes: candidates grow old, and so do the windows.
LEMMA ElapseKeeps ==
  ASSUME JournalInv, Elapse
  PROVE  JournalInv' /\ Keeps(db, db')
<1>1. UNCHANGED <<world, moving, high, db, faults>>
  BY DEF Elapse
<1>2. /\ observer.cand \in [Failures -> Candidates] /\ control.cand \in [Failures -> Candidates]
      /\ observer \in Observers /\ control \in Controls
      /\ Sound(observer.cand, db) /\ Sound(control.cand, db)
  BY DEF JournalInv, Observers, Controls
<1>3. ASSUME NEW cand \in [Failures -> Candidates], Sound(cand, db)
      PROVE  Aged(cand) \in [Failures -> Candidates] /\ Sound(Aged(cand), db)
  <2>1. ASSUME NEW f \in Failures
        PROVE  /\ Aged(cand)[f] \in Candidates
               /\ Aged(cand)[f] # None => Known(db, f) /\ Within(Aged(cand)[f], f)
    <3>1. CASE cand[f] = None
      BY <3>1 DEF Aged, Candidates
    <3>2. CASE cand[f] # None
      <4>1. PICK c : c = cand[f]
        OBVIOUS
      <4>2. c \in [count : 1..2, seen : BOOLEAN, old : BOOLEAN]
        BY <3>2, <4>1 DEF Candidates
      <4>3. PICK e : e = [c EXCEPT !.old = TRUE]
        OBVIOUS
      <4>4. e \in [count : 1..2, seen : BOOLEAN, old : BOOLEAN]
            /\ e.count = c.count /\ e.seen = c.seen
        BY <4>2, <4>3
      <4>5. Aged(cand)[f] = e
        BY <3>2, <4>1, <4>3 DEF Aged
      <4>6. Known(db, f) /\ Within(c, f)
        BY <3>2, <4>1, <1>3 DEF Sound
      <4>7. Within(e, f)
        BY <4>4, <4>6 DEF Within
      <4> QED BY <4>4, <4>5, <4>6, <4>7 DEF Candidates
    <3> QED BY <3>1, <3>2
  <2>2. Aged(cand) \in [Failures -> Candidates]
    BY <2>1 DEF Aged
  <2> QED BY <2>1, <2>2 DEF Sound
<1>4. /\ observer' \in Observers /\ observer'.thread = observer.thread
      /\ observer'.effect = observer.effect /\ observer'.grid = observer.grid
      /\ observer'.guess = observer.guess /\ observer'.lost = observer.lost
      /\ observer'.cand = Aged(observer.cand)
  <2>1. PICK x : x = Aged(observer.cand)
    OBVIOUS
  <2>2. x \in [Failures -> Candidates]
    BY <1>2, <1>3, <2>1
  <2>3. PICK w \in {"none", "young", "old"} :
          w = IF observer.window = "young" THEN "old" ELSE observer.window
    BY <1>2 DEF Observers
  <2>4. PICK a : a = [observer EXCEPT !.cand = x]
    OBVIOUS
  <2>5. /\ a \in Observers /\ a.thread = observer.thread
        /\ a.effect = observer.effect /\ a.grid = observer.grid
        /\ a.guess = observer.guess /\ a.lost = observer.lost /\ a.cand = x
    BY <1>2, <2>2, <2>4 DEF Observers
  <2>6. observer' = [a EXCEPT !.window = w]
    BY <2>1, <2>3, <2>4 DEF Elapse
  <2> QED BY <2>1, <2>5, <2>6 DEF Observers
<1>5. /\ control' \in Controls /\ control'.failed = control.failed
      /\ control'.persisted = control.persisted /\ control'.cand = Aged(control.cand)
  BY <1>2, <1>3 DEF Elapse, Controls
<1>6. Sound(observer'.cand, db') /\ Sound(control'.cand, db')
  BY <1>1, <1>2, <1>3, <1>4, <1>5
<1>7. PersistedIsStored' /\ StartsFresh' /\ RowsAreWhole(db')
  BY <1>1, <1>4, <1>5 DEF JournalInv, PersistedIsStored, StartsFresh, RowsAreWhole, Known
<1>8. observer'.thread = "running" => Agrees(observer', db')
  BY <1>1, <1>4 DEF JournalInv, Agrees, EffectAgrees, GridAgrees
<1>9. faults' \in 0..MaxFaults /\ db' \in Databases
  BY <1>1 DEF JournalInv
<1>10. JournalInv'
  BY <1>1, <1>4, <1>5, <1>6, <1>7, <1>8, <1>9, SampleKept
<1> QED BY <1>1, <1>10 DEF Keeps

LEMMA LongElapseKeeps ==
  ASSUME JournalInv, LongElapse
  PROVE  JournalInv' /\ Keeps(db, db')
<1>1. UNCHANGED <<world, moving, control, observer, high, faults>>
  BY DEF LongElapse
<1>2. db \in Databases /\ db.effect \in Rows /\ db.grid \in Rows
  BY DEF JournalInv, Databases
<1>3. PICK p, q : p = [db.effect EXCEPT !.recent = FALSE]
                  /\ q = [db.grid EXCEPT !.recent = FALSE]
  OBVIOUS
<1>4. /\ p \in Rows /\ p.latest = db.effect.latest /\ p.older = db.effect.older
      /\ q \in Rows /\ q.latest = db.grid.latest /\ q.older = db.grid.older
  BY <1>2, <1>3 DEF Rows
<1>5. PICK d : d = [db EXCEPT !.effect = p]
  OBVIOUS
<1>6. d \in Databases /\ d.effect = p /\ d.grid = db.grid /\ d.incident = db.incident
  BY <1>2, <1>4, <1>5 DEF Databases
<1>7. db' = [d EXCEPT !.grid = q]
  BY <1>2, <1>3, <1>5 DEF LongElapse, Databases
<1>8. db' \in Databases /\ db'.effect = p /\ db'.grid = q /\ db'.incident = db.incident
  BY <1>4, <1>6, <1>7 DEF Databases
<1>9. RowsAreWhole(db')
  BY <1>4, <1>8 DEF JournalInv, RowsAreWhole, Whole
<1>10. observer'.thread = "running" => Agrees(observer', db')
  BY <1>1, <1>4, <1>8 DEF JournalInv, Agrees, EffectAgrees, GridAgrees
<1>11. Sound(observer'.cand, db') /\ Sound(control'.cand, db')
  BY <1>1, <1>8 DEF JournalInv, Sound, Known
<1>12. PersistedIsStored' /\ StartsFresh'
  BY <1>1, <1>8 DEF JournalInv, PersistedIsStored, StartsFresh, Known
<1>13. control' \in Controls /\ observer' \in Observers /\ faults' \in 0..MaxFaults
  BY <1>1 DEF JournalInv
<1>14. JournalInv'
  BY <1>1, <1>8, <1>9, <1>10, <1>11, <1>12, <1>13, SampleKept
<1> QED BY <1>8, <1>14 DEF Keeps

\* The process starts again: nothing is remembered but the rows.
LEMMA RestartKeeps ==
  ASSUME JournalInv, Restart
  PROVE  JournalInv' /\ Keeps(db, db')
<1>1. UNCHANGED <<moving, high, faults>> /\ observer' = FreshObserver /\ control' = FreshControl
  BY DEF Restart
<1>2. world' \in Worlds /\ world'.soc = 0
  BY DEF Restart, JournalInv, Worlds
<1>3. /\ db' \in Databases /\ db'.effect = db.effect /\ db'.grid = db.grid
      /\ db'.incident = db.incident
  BY DEF Restart, JournalInv, Databases
<1>4. /\ observer' \in Observers /\ observer'.thread = "starting" /\ observer'.effect = None
      /\ observer'.guess /\ \A f \in Failures : observer'.cand[f] = None
  BY <1>1 DEF FreshObserver, Observers, Candidates
<1>5. /\ control' \in Controls /\ ~control'.persisted
      /\ \A f \in Failures : control'.cand[f] = None
  BY <1>1 DEF FreshControl, Controls, Candidates
<1>6. Sound(observer.cand, db)' /\ Sound(control.cand, db)'
  BY <1>4, <1>5 DEF Sound
<1>7. (\A f \in Failures : AtReserve(f) => high[f] >= 1)'
  BY <1>2 DEF AtReserve
<1>8. PersistedIsStored' /\ StartsFresh'
  BY <1>4, <1>5 DEF PersistedIsStored, StartsFresh
<1>9. RowsAreWhole(db)' /\ (observer.thread = "running" => Agrees(observer, db))'
  BY <1>3, <1>4 DEF JournalInv, RowsAreWhole
<1>10. JournalInv'
  BY <1>1, <1>2, <1>3, <1>4, <1>5, <1>6, <1>7, <1>8, <1>9
  DEF JournalInv, Worlds, Controls, Observers, Databases, Incidents
<1> QED BY <1>3, <1>10 DEF Keeps

-----------------------------------------------------------------------------
(* Theorems *)

LEMMA InitInv == Init => JournalInv
<1> SUFFICES ASSUME Init PROVE JournalInv
  OBVIOUS
<1>1. world \in Worlds /\ world.soc = 0 /\ moving \in Moves /\ faults \in 0..MaxFaults
  <2>1. world \in [effect : {Good}, grid : {FALSE}, soc : {0}, stage : Quiet]
    BY DEF Init
  <2>2. world \in Worlds /\ world.soc = 0
    <3>1. /\ world.effect \in {Good} \cup Bad /\ world.grid \in BOOLEAN
          /\ world.soc = 0 /\ world.stage \in Stages
      BY <2>1
    <3>2. world = [effect |-> world.effect, grid |-> world.grid, soc |-> world.soc,
                   stage |-> world.stage]
      BY <2>1
    <3> QED BY <3>1, <3>2 DEF Worlds
  <2>3. moving \in Moves /\ faults \in 0..MaxFaults
    BY DEF Init
  <2> QED BY <2>2, <2>3
<1>2. /\ observer \in Observers /\ observer.thread = "starting" /\ observer.effect = None
      /\ observer.guess /\ \A f \in Failures : observer.cand[f] = None
  BY DEF Init, FreshObserver, Observers, Candidates
<1>3. /\ control \in Controls /\ ~control.persisted
      /\ \A f \in Failures : control.cand[f] = None
  BY DEF Init, FreshControl, Controls, Candidates
<1>4. db \in Databases /\ RowsAreWhole(db)
  <2>1. NoRows \in Rows /\ Whole(NoRows)
    BY DEF NoRows, Rows, Whole
  <2>2. [f \in Failures |-> "none"] \in Incidents
    BY DEF Incidents
  <2> QED BY <2>1, <2>2 DEF Init, Databases, RowsAreWhole
<1>5. high \in [Failures -> 0..2]
  BY DEF Init
<1>6. Sound(observer.cand, db) /\ Sound(control.cand, db)
  BY <1>2, <1>3 DEF Sound
<1>7. \A f \in Failures : AtReserve(f) => high[f] >= 1
  BY <1>1 DEF AtReserve
<1>8. PersistedIsStored /\ StartsFresh
  BY <1>2, <1>3 DEF PersistedIsStored, StartsFresh
<1> QED BY <1>1, <1>2, <1>3, <1>4, <1>5, <1>6, <1>7, <1>8 DEF JournalInv

LEMMA StepKeeps ==
  ASSUME JournalInv, [Next]_vars
  PROVE  JournalInv' /\ Keeps(db, db')
<1>1. CASE \E refused \in BOOLEAN : StartObserver(refused)
  BY <1>1, StartObserverKeeps
<1>2. CASE \E refused \in BOOLEAN, row \in Failures \cup {None} : ConfirmFailure(refused, row)
  BY <1>2, ConfirmFailureKeeps
<1>3. CASE \E refused \in BOOLEAN, row \in Failures \cup {None} : RetryFailure(refused, row)
  BY <1>3, RetryFailureKeeps
<1>4. CASE Turn
  <2>1. PICK at \in Handlers \cup {"none"}, row \in Failures \cup {None},
             midCycle \in BOOLEAN, noted \in BOOLEAN,
             changed \in BOOLEAN : Observe(at, row, midCycle, noted, changed)
    BY <1>4 DEF Turn
  <2> QED BY <2>1, TurnKeeps
<1>5. CASE World
  BY <1>5, WorldKeeps, SampleKeeps, SocStaleKeeps DEF World
<1>6. CASE Cycle
  BY <1>6, CycleKeeps
<1>7. CASE Elapse
  BY <1>7, ElapseKeeps
<1>8. CASE LongElapse
  BY <1>8, LongElapseKeeps
<1>9. CASE Restart
  BY <1>9, RestartKeeps
<1>10. CASE UNCHANGED vars
  <2>1. UNCHANGED <<world, moving, control, observer, db, high, faults>>
    BY <1>10 DEF vars
  <2>2. JournalInv'
    <3>1. observer'.thread = "running" => Agrees(observer', db')
      BY <2>1 DEF JournalInv
    <3>2. PersistedIsStored' /\ StartsFresh'
      BY <2>1 DEF JournalInv, PersistedIsStored, StartsFresh, Known
    <3>3. RowsAreWhole(db') /\ Sound(observer'.cand, db') /\ Sound(control'.cand, db')
      BY <2>1 DEF JournalInv
    <3>4. control' \in Controls /\ observer' \in Observers /\ db' \in Databases
          /\ faults' \in 0..MaxFaults
      BY <2>1 DEF JournalInv
    <3> QED BY <2>1, <3>1, <3>2, <3>3, <3>4, SampleKept
  <2> QED BY <2>1, <2>2 DEF Keeps
<1> QED
  BY <1>1, <1>2, <1>3, <1>4, <1>5, <1>6, <1>7, <1>8, <1>9, <1>10 DEF Next

LEMMA JournalInvariance == Spec => []JournalInv
<1>1. JournalInv /\ [Next]_vars => JournalInv'
  BY StepKeeps
<1> QED BY <1>1, InitInv, PTL DEF Spec

\* The journal is typed, the control loop reports a failure as recorded only
\* when its row is there, and the rows of an incident say what the observer
\* last made of it unless one of its writes was refused.
THEOREM JournalConsistent == Spec => []JournalIsConsistent
<1>1. JournalInv => JournalIsConsistent
  <2> SUFFICES ASSUME JournalInv PROVE JournalIsConsistent
    OBVIOUS
  <2>1. TypeOK
    BY DEF JournalInv, TypeOK, Worlds, Controls, Observers, Databases, Incidents
  <2>2. PersistedIsStored
    BY DEF JournalInv
  <2>3. RowsFollowTheObserver
    BY DEF JournalInv, RowsFollowTheObserver, Agrees, EffectAgrees, GridAgrees
  <2> QED BY <2>1, <2>2, <2>3 DEF JournalIsConsistent
<1> QED BY <1>1, JournalInvariance, PTL

\* The row of an emergency failure is never reopened, and closed only after
\* two distinct samples at the failure's reserve since it was recorded.
THEOREM FailureClosed == Spec => FailureIsClosedByProof
<1> DEFINE A == \A f \in Failures :
       /\ db.incident[f] = "resolved" => db'.incident[f] = "resolved"
       /\ db.incident[f] = "open" =>
            \/ db'.incident[f] = "open"
            \/ db'.incident[f] = "resolved" /\ high[f] = 2
<1>1. JournalInv /\ [Next]_vars => [A]_vars
  BY StepKeeps DEF Keeps
<1> HIDE DEF A
<1>2. Spec => [][A]_vars
  BY <1>1, JournalInvariance, PTL DEF Spec
<1> QED BY <1>2 DEF FailureIsClosedByProof, A
=============================================================================
