-------------------------- MODULE GraphHistoryProofs --------------------------
(***************************************************************************)
(* The tables of a graph database are what the committed rows say: the proofs *)
(* of GraphHistory's properties.  A batch is a fold over its rows, so every    *)
(* view has the same three parts: what one row does to the view, from the      *)
(* stages of WriteRow that leave it alone and the one that does not; the batch *)
(* by induction over its rows; and the steps of the process, where a rollback  *)
(* or a change of the file puts back, or forgets, what the builders remember.  *)
(***************************************************************************)
EXTENDS GraphHistory, WellFoundedInduction, FiniteSetTheorems, TLAPS

(***************************************************************************)
(* Numbers, sets and induction                                              *)
(***************************************************************************)

\* A nonempty set of naturals has a least member.
LEMMA Least ==
    ASSUME NEW T \in SUBSET Nat, T # {}
    PROVE  \E n \in T : \A m \in T : n <= m
<1>1. IsWellFoundedOn(OpToRel(<, Nat), Nat)
  BY NatLessThanWellFounded
<1>2. PICK x \in T : \A y \in T : <<y, x>> \notin OpToRel(<, Nat)
  BY <1>1, WFMin
<1>3. \A y \in T : ~(y < x)
  BY <1>2 DEF OpToRel
<1> QED BY <1>3

\* Induction up to N, for a set of numbers.
LEMMA UpTo ==
    ASSUME NEW N \in Nat, NEW T,
           0 \in T, \A k \in Nat : k < N /\ k \in T => k + 1 \in T
    PROVE  \A k \in 0 .. N : k \in T
<1> DEFINE Bad == {k \in 0 .. N : k \notin T}
<1>1. SUFFICES ASSUME Bad # {} PROVE FALSE
  OBVIOUS
<1>2. PICK n \in Bad : \A m \in Bad : n <= m
  <2>1. Bad \in SUBSET Nat
    OBVIOUS
  <2> HIDE DEF Bad
  <2> QED BY <1>1, <2>1, Least
<1>3. n \in Nat /\ n # 0 /\ n <= N
  BY <1>2
<1>4. n - 1 \in Nat /\ n - 1 < N /\ n - 1 \notin Bad
  BY <1>2, <1>3
<1>5. n - 1 \in T
  BY <1>3, <1>4
<1>6. n - 1 + 1 \in T
  BY <1>4, <1>5
<1> QED BY <1>2, <1>3, <1>6

\* The bounds of a set of integers are what attains them.
LEMMA MaxIs ==
    ASSUME NEW S \in SUBSET Int, NEW m \in S, \A x \in S : x <= m
    PROVE  Max(S) = m
<1>1. \A y \in S : m >= y
  OBVIOUS
<1>2. Max(S) \in S /\ \A y \in S : Max(S) >= y
  BY <1>1, Zenon DEF Max
<1>3. Max(S) >= m /\ m >= Max(S) /\ m \in Int /\ Max(S) \in Int
  BY <1>2
<1> QED BY <1>3

LEMMA MinIs ==
    ASSUME NEW S \in SUBSET Int, NEW m \in S, \A x \in S : m <= x
    PROVE  Min(S) = m
<1>1. Min(S) \in S /\ \A y \in S : Min(S) <= y
  BY Zenon DEF Min
<1>2. Min(S) <= m /\ m <= Min(S) /\ m \in Int /\ Min(S) \in Int
  BY <1>1
<1> QED BY <1>2

\* A nonempty set of naturals that is bounded has a greatest member.
LEMMA Greatest ==
    ASSUME NEW S \in SUBSET Nat, S # {}, NEW N \in Nat, \A x \in S : x <= N
    PROVE  Max(S) \in S /\ \A x \in S : x <= Max(S)
<1> DEFINE T == {k \in 0 .. N : N - k \in S}
<1>1. PICK x \in S : TRUE
  OBVIOUS
<1>2. N - x \in T
  BY <1>1
<1>3. PICK n \in T : \A m \in T : n <= m
  <2>1. T \in SUBSET Nat /\ T # {}
    BY <1>2
  <2> HIDE DEF T
  <2> QED BY <2>1, Least
<1>4. \A y \in S : N - y \in T
  OBVIOUS
<1>5. N - n \in S /\ \A y \in S : y <= N - n
  BY <1>3, <1>4
<1> QED BY <1>5, MaxIs

LEMMA Smallest ==
    ASSUME NEW S \in SUBSET Nat, S # {}
    PROVE  Min(S) \in S /\ \A x \in S : Min(S) <= x
BY Least, MinIs

\* A bucket holds the ticks from its begin on.
LEMMA BucketHolds ==
    ASSUME NEW t \in Nat
    PROVE  /\ Bucket(t) \in Nat /\ Bucket(t) <= t /\ t <= Bucket(t) + Minute - 1
           /\ t - Bucket(t) \in 0 .. Minute - 1
<1>1. Minute \in Nat /\ Minute > 0
  BY GraphAssumption
<1> QED BY <1>1 DEF Bucket

(***************************************************************************)
(* The stages of a row and what each of them leaves alone                   *)
(***************************************************************************)

Tables == {"raw", "minute", "runs", "intervals", "events", "topology", "timeline",
           "highres", "permin"}
Memory == {"path", "registered", "last_ts", "config", "open", "sparse_ts",
           "last_publish", "cache", "known"}
Shape(s) ==
    /\ DOMAIN s = {"db", "ses"} /\ DOMAIN s.db = Tables /\ DOMAIN s.ses = Memory

\* The fields that no stage but the named one writes.
SameSamples(s, t) == t.db.raw = s.db.raw /\ t.db.minute = s.db.minute
SameRuns(s, t) == t.db.runs = s.db.runs /\ t.ses.registered = s.ses.registered
SameIntervals(s, t) ==
    /\ t.db.intervals = s.db.intervals
    /\ t.ses.open = s.ses.open /\ t.ses.sparse_ts = s.ses.sparse_ts
SameEvents(s, t) ==
    t.db.events = s.db.events /\ t.ses.last_publish = s.ses.last_publish
SameTopology(s, t) ==
    /\ t.db.topology = s.db.topology
    /\ t.ses.cache = s.ses.cache /\ t.ses.known = s.ses.known
SameTimeline(s, t) == t.db.timeline = s.db.timeline /\ t.ses.config = s.ses.config
SameRest(s, t) ==
    /\ t.db.highres = s.db.highres /\ t.db.permin = s.db.permin
    /\ t.ses.path = s.ses.path /\ t.ses.last_ts = s.ses.last_ts

LEMMA EnsureRunFrame ==
    ASSUME NEW s, NEW row, Shape(s), NEW t, t = EnsureRun(s, row)
    PROVE  /\ Shape(t) /\ SameSamples(s, t) /\ SameEvents(s, t)
           /\ SameTopology(s, t) /\ SameTimeline(s, t) /\ SameRest(s, t)
           /\ t.ses.open = s.ses.open /\ t.ses.sparse_ts = s.ses.sparse_ts
BY DEF EnsureRun, Shape, Tables, Memory, SameSamples, SameEvents, SameTopology,
       SameTimeline, SameRest

LEMMA InsertSampleFrame ==
    ASSUME NEW s, NEW row, Shape(s), NEW t, t = InsertSample(s, row)
    PROVE  /\ Shape(t) /\ SameRuns(s, t) /\ SameIntervals(s, t) /\ SameEvents(s, t)
           /\ SameTopology(s, t) /\ SameTimeline(s, t) /\ SameRest(s, t)
BY DEF InsertSample, Shape, Tables, Memory, SameRuns, SameIntervals, SameEvents,
       SameTopology, SameTimeline, SameRest

LEMMA TopologyFrame ==
    ASSUME NEW s, NEW ts, NEW units, NEW state, Shape(s),
           NEW t, t = Topology(s, ts, units, state)
    PROVE  /\ Shape(t) /\ SameSamples(s, t) /\ SameRuns(s, t) /\ SameIntervals(s, t)
           /\ SameEvents(s, t) /\ SameTimeline(s, t) /\ SameRest(s, t)
           /\ t.ses.known = s.ses.known
BY DEF Topology, Shape, Tables, Memory, SameSamples, SameRuns, SameIntervals,
       SameEvents, SameTimeline, SameRest

LEMMA ObserveUnitsFrame ==
    ASSUME NEW s, NEW row, Shape(s), NEW t, t = ObserveUnits(s, row)
    PROVE  /\ Shape(t) /\ SameSamples(s, t) /\ SameRuns(s, t) /\ SameIntervals(s, t)
           /\ SameEvents(s, t) /\ SameTimeline(s, t) /\ SameRest(s, t)
<1>1. CASE row.units = {}
  BY <1>1 DEF ObserveUnits, SameSamples, SameRuns, SameIntervals, SameEvents,
              SameTimeline, SameRest
<1>2. CASE row.units # {}
  <2> DEFINE here == UNION row.units
             before == IF s.ses.known = {} THEN Remembered(s) ELSE UNION s.ses.known
  <2>1. PICK p : p = Topology(s, row.ts, here, "PRESENT")
    OBVIOUS
  <2>2. PICK a : a = Topology(p, row.ts, before \ here, "ABSENT")
    OBVIOUS
  <2>3. t = [a EXCEPT !.ses.known = {here}]
    BY <1>2, <2>1, <2>2 DEF ObserveUnits
  <2> HIDE DEF here, before
  <2>4. /\ Shape(p) /\ SameSamples(s, p) /\ SameRuns(s, p) /\ SameIntervals(s, p)
        /\ SameEvents(s, p) /\ SameTimeline(s, p) /\ SameRest(s, p)
    BY <2>1, TopologyFrame
  <2>5. /\ Shape(a) /\ SameSamples(p, a) /\ SameRuns(p, a) /\ SameIntervals(p, a)
        /\ SameEvents(p, a) /\ SameTimeline(p, a) /\ SameRest(p, a)
    BY <2>2, <2>4, TopologyFrame
  <2>6. /\ Shape(t) /\ SameSamples(a, t) /\ SameRuns(a, t) /\ SameIntervals(a, t)
        /\ SameEvents(a, t) /\ SameTimeline(a, t) /\ SameRest(a, t)
    BY <2>3, <2>5 DEF Shape, Tables, Memory, SameSamples, SameRuns, SameIntervals,
                      SameEvents, SameTimeline, SameRest
  <2> QED BY <2>4, <2>5, <2>6 DEF SameSamples, SameRuns, SameIntervals,
                      SameEvents, SameTimeline, SameRest
<1> QED BY <1>1, <1>2

LEMMA ObserveKindFrame ==
    ASSUME NEW s, NEW kind, NEW value, NEW ts, Shape(s),
           NEW t, t = ObserveKind(s, kind, value, ts)
    PROVE  /\ Shape(t) /\ SameSamples(s, t) /\ SameRuns(s, t) /\ SameEvents(s, t)
           /\ SameTopology(s, t) /\ SameTimeline(s, t) /\ SameRest(s, t)
           /\ t.ses.sparse_ts = s.ses.sparse_ts
BY DEF ObserveKind, Shape, Tables, Memory, SameSamples, SameRuns, SameEvents,
       SameTopology, SameTimeline, SameRest

LEMMA ObserveStatesFrame ==
    ASSUME NEW s, NEW row, Shape(s), NEW t, t = ObserveStates(s, row)
    PROVE  /\ Shape(t) /\ SameSamples(s, t) /\ SameRuns(s, t) /\ SameEvents(s, t)
           /\ SameTopology(s, t) /\ SameTimeline(s, t) /\ SameRest(s, t)
<1>1. CASE OutOfOrder(s, row)
  BY <1>1 DEF ObserveStates, SameSamples, SameRuns, SameEvents, SameTopology,
              SameTimeline, SameRest
<1>2. CASE ~OutOfOrder(s, row)
  <2>1. PICK p : p = [s EXCEPT !.ses.sparse_ts = row.ts]
    OBVIOUS
  <2>2. PICK m : m = ObserveKind(p, "state", row.state, row.ts)
    OBVIOUS
  <2>3. PICK q : q = ObserveKind(m, "quality", CHOOSE v \in row.quality : TRUE, row.ts)
    OBVIOUS
  <2>4. t = m \/ t = q
    BY <1>2, <2>1, <2>2, <2>3 DEF ObserveStates
  <2>5. /\ Shape(p) /\ SameSamples(s, p) /\ SameRuns(s, p) /\ SameEvents(s, p)
        /\ SameTopology(s, p) /\ SameTimeline(s, p) /\ SameRest(s, p)
    BY <2>1 DEF Shape, Tables, Memory, SameSamples, SameRuns, SameEvents,
                SameTopology, SameTimeline, SameRest
  <2>6. /\ Shape(m) /\ SameSamples(p, m) /\ SameRuns(p, m) /\ SameEvents(p, m)
        /\ SameTopology(p, m) /\ SameTimeline(p, m) /\ SameRest(p, m)
    BY <2>2, <2>5, ObserveKindFrame
  <2>7. /\ Shape(q) /\ SameSamples(m, q) /\ SameRuns(m, q) /\ SameEvents(m, q)
        /\ SameTopology(m, q) /\ SameTimeline(m, q) /\ SameRest(m, q)
    BY <2>3, <2>6, ObserveKindFrame
  <2> QED BY <2>4, <2>5, <2>6, <2>7 DEF SameSamples, SameRuns, SameEvents,
                SameTopology, SameTimeline, SameRest
<1> QED BY <1>1, <1>2

LEMMA ObserveCommandsFrame ==
    ASSUME NEW s, NEW row, Shape(s), NEW t, t = ObserveCommands(s, row)
    PROVE  /\ Shape(t) /\ SameSamples(s, t) /\ SameRuns(s, t) /\ SameIntervals(s, t)
           /\ SameTopology(s, t) /\ SameTimeline(s, t) /\ SameRest(s, t)
BY DEF ObserveCommands, Shape, Tables, Memory, SameSamples, SameRuns, SameIntervals,
       SameTopology, SameTimeline, SameRest

LEMMA ObserveConfigFrame ==
    ASSUME NEW s, NEW row, Shape(s), NEW t, t = ObserveConfig(s, row)
    PROVE  /\ Shape(t) /\ SameSamples(s, t) /\ SameRuns(s, t) /\ SameIntervals(s, t)
           /\ SameEvents(s, t) /\ SameTopology(s, t) /\ SameRest(s, t)
BY DEF ObserveConfig, Shape, Tables, Memory, SameSamples, SameRuns, SameIntervals,
       SameEvents, SameTopology, SameRest

\* The row's way through the stages, and what reaches each of them of its view.
LEMMA WriteRowStages ==
    ASSUME NEW s, NEW row, Shape(s), NEW w, w = WriteRow(s, row)
    PROVE  /\ Shape(w)
           /\ \E x : /\ Shape(x) /\ SameSamples(s, x)
                     /\ SameSamples(InsertSample(x, row), w)
           /\ SameRuns(EnsureRun(s, row), w)
           /\ \E x : /\ Shape(x) /\ SameTopology(s, x)
                     /\ SameTopology(ObserveUnits(x, row), w)
           /\ \E x : /\ Shape(x) /\ SameIntervals(EnsureRun(s, row), x)
                     /\ SameIntervals(ObserveStates(x, row), w)
           /\ \E x : /\ Shape(x) /\ SameEvents(s, x)
                     /\ SameEvents(ObserveCommands(x, row), w)
           /\ \E x : /\ Shape(x) /\ SameTimeline(s, x)
                     /\ SameTimeline(ObserveConfig(x, row), w)
           /\ w.db.highres = s.db.highres /\ w.db.permin = s.db.permin
           /\ w.ses.path = s.ses.path /\ w.ses.last_ts = row.ts
<1>1. PICK e : e = EnsureRun(s, row)
  OBVIOUS
<1>2. PICK a : a = InsertSample(e, row)
  OBVIOUS
<1>3. PICK l : l = [a EXCEPT !.ses.last_ts = row.ts]
  OBVIOUS
<1>4. PICK b : b = ObserveUnits(l, row)
  OBVIOUS
<1>5. PICK o : o = ObserveStates(b, row)
  OBVIOUS
<1>6. PICK c : c = ObserveCommands(o, row)
  OBVIOUS
<1>7. w = ObserveConfig(c, row)
  BY <1>1, <1>2, <1>3, <1>4, <1>5, <1>6 DEF WriteRow
<1>8. /\ Shape(e) /\ SameSamples(s, e) /\ SameEvents(s, e)
      /\ SameTopology(s, e) /\ SameTimeline(s, e) /\ SameRest(s, e)
  BY <1>1, EnsureRunFrame
<1>9. /\ Shape(a) /\ SameRuns(e, a) /\ SameIntervals(e, a) /\ SameEvents(e, a)
      /\ SameTopology(e, a) /\ SameTimeline(e, a) /\ SameRest(e, a)
  BY <1>2, <1>8, InsertSampleFrame
<1>10. /\ Shape(l) /\ SameSamples(a, l) /\ SameRuns(a, l) /\ SameIntervals(a, l)
       /\ SameEvents(a, l) /\ SameTopology(a, l) /\ SameTimeline(a, l)
       /\ l.db.highres = a.db.highres /\ l.db.permin = a.db.permin
       /\ l.ses.path = a.ses.path /\ l.ses.last_ts = row.ts
  BY <1>3, <1>9 DEF Shape, Tables, Memory, SameSamples, SameRuns, SameIntervals,
                    SameEvents, SameTopology, SameTimeline
<1>11. /\ Shape(b) /\ SameSamples(l, b) /\ SameRuns(l, b) /\ SameIntervals(l, b)
       /\ SameEvents(l, b) /\ SameTimeline(l, b) /\ SameRest(l, b)
  BY <1>4, <1>10, ObserveUnitsFrame
<1>12. /\ Shape(o) /\ SameSamples(b, o) /\ SameRuns(b, o) /\ SameEvents(b, o)
       /\ SameTopology(b, o) /\ SameTimeline(b, o) /\ SameRest(b, o)
  BY <1>5, <1>11, ObserveStatesFrame
<1>13. /\ Shape(c) /\ SameSamples(o, c) /\ SameRuns(o, c) /\ SameIntervals(o, c)
       /\ SameTopology(o, c) /\ SameTimeline(o, c) /\ SameRest(o, c)
  BY <1>6, <1>12, ObserveCommandsFrame
<1>14. /\ Shape(w) /\ SameSamples(c, w) /\ SameRuns(c, w) /\ SameIntervals(c, w)
       /\ SameEvents(c, w) /\ SameTopology(c, w) /\ SameRest(c, w)
  BY <1>7, <1>13, ObserveConfigFrame
<1>15. SameSamples(a, w)
  BY <1>10, <1>11, <1>12, <1>13, <1>14 DEF SameSamples
<1>16. SameRuns(e, w)
  BY <1>9, <1>10, <1>11, <1>12, <1>13, <1>14 DEF SameRuns
<1>17. SameTopology(s, l) /\ SameTopology(b, w)
  BY <1>8, <1>9, <1>10, <1>12, <1>13, <1>14 DEF SameTopology
<1>18. SameIntervals(e, b) /\ SameIntervals(o, w)
  BY <1>9, <1>10, <1>11, <1>13, <1>14 DEF SameIntervals
<1>19. SameEvents(s, o) /\ SameEvents(c, w)
  BY <1>8, <1>9, <1>10, <1>11, <1>12, <1>14 DEF SameEvents
<1>20. SameTimeline(s, c)
  BY <1>8, <1>9, <1>10, <1>11, <1>12, <1>13 DEF SameTimeline
<1>21. SameTimeline(w, w)
  BY DEF SameTimeline
<1>22. /\ w.db.highres = s.db.highres /\ w.db.permin = s.db.permin
       /\ w.ses.path = s.ses.path /\ w.ses.last_ts = row.ts
  BY <1>8, <1>9, <1>10, <1>11, <1>12, <1>13, <1>14 DEF SameRest
<1>23. \E x : /\ Shape(x) /\ SameSamples(s, x) /\ SameSamples(InsertSample(x, row), w)
  BY <1>2, <1>8, <1>15
<1>24. \E x : /\ Shape(x) /\ SameTopology(s, x) /\ SameTopology(ObserveUnits(x, row), w)
  BY <1>4, <1>10, <1>17
<1>25. \E x : /\ Shape(x) /\ SameIntervals(EnsureRun(s, row), x)
              /\ SameIntervals(ObserveStates(x, row), w)
  BY <1>1, <1>5, <1>11, <1>18
<1>26. \E x : /\ Shape(x) /\ SameEvents(s, x) /\ SameEvents(ObserveCommands(x, row), w)
  BY <1>6, <1>12, <1>19
<1>27. \E x : /\ Shape(x) /\ SameTimeline(s, x)
              /\ SameTimeline(ObserveConfig(x, row), w)
  BY <1>7, <1>13, <1>20, <1>21
<1> QED BY <1>1, <1>14, <1>16, <1>22, <1>23, <1>24, <1>25, <1>26, <1>27

(***************************************************************************)
(* The rows of a batch, one after the other                                 *)
(***************************************************************************)

\* The recursion over the rows is a function: what it is up to k + 1 extends what
\* it is up to k.
LEMMA AfterRowsSteps ==
    ASSUME NEW f, NEW rows, Len(rows) \in Nat
    PROVE  \E g : /\ g[0] = [db |-> db[f], ses |-> Bound(f)]
                  /\ \A n \in 1 .. Len(rows) : g[n] = WriteRow(g[n - 1], rows[n])
                  /\ AfterRows(f, rows) = g[Len(rows)]
<1> DEFINE N == Len(rows)
           s0 == [db |-> db[f], ses |-> Bound(f)]
           Is(g, k) == g = [n \in 0 .. k |-> IF n = 0 THEN s0
                                             ELSE WriteRow(g[n - 1], rows[n])]
           Has(k) == \E g : Is(g, k)
<1> HIDE DEF s0
<1>1. Has(0)
  <2>1. Is([n \in 0 .. 0 |-> s0], 0)
    OBVIOUS
  <2> QED BY <2>1
<1>2. ASSUME NEW k \in Nat, Has(k) PROVE Has(k + 1)
  <2>1. PICK g : Is(g, k)
    BY <1>2
  <2> DEFINE h == [n \in 0 .. k + 1 |-> IF n = k + 1 THEN WriteRow(g[k], rows[n])
                                        ELSE g[n]]
  <2>2. ASSUME NEW n \in 0 .. k + 1
        PROVE  h[n] = IF n = 0 THEN s0 ELSE WriteRow(h[n - 1], rows[n])
    <3>1. CASE n = k + 1
      BY <3>1
    <3>2. CASE n # k + 1
      BY <2>1, <3>2
    <3> QED BY <3>1, <3>2
  <2>3. Is(h, k + 1)
    BY <2>2
  <2> HIDE DEF h
  <2> QED BY <2>3
<1>3. Has(N)
  <2> HIDE DEF Has
  <2> DEFINE T == {k \in Nat : Has(k)}
  <2>1. 0 \in T /\ \A k \in Nat : k < N /\ k \in T => k + 1 \in T
    BY <1>1, <1>2
  <2> HIDE DEF T
  <2>2. \A k \in 0 .. N : k \in T
    BY <2>1, UpTo
  <2>3. N \in T
    BY <2>2
  <2> QED BY <2>3 DEF T
<1> DEFINE after == CHOOSE g : Is(g, N)
<1>4. Is(after, N)
  <2> HIDE DEF Is
  <2> QED BY <1>3
<1>5. AfterRows(f, rows) = after[N]
  BY DEF AfterRows, s0
<1> HIDE DEF after
<1>6. after[0] = s0
  BY <1>4
<1>7. \A n \in 1 .. N : after[n] = WriteRow(after[n - 1], rows[n])
  BY <1>4
<1> QED BY <1>5, <1>6, <1>7 DEF s0

\* What a row's extraction yields, in the writer's hands and in the log.
Row == {[ts |-> t, state |-> k.state, quality |-> k.quality, power |-> k.power,
         config |-> k.config, units |-> k.units, publish |-> p] :
            k \in Kind, t \in 0 .. MaxTime, p \in Nat}

LEMMA RowFields ==
    ASSUME NEW row \in Row
    PROVE  /\ row.ts \in Nat /\ row.ts <= MaxTime /\ row.publish \in Nat
           /\ row.config # ""
           /\ Maybe(row.quality) /\ "" \notin row.quality
           /\ Maybe(row.power) /\ row.power \subseteq Int
           /\ Maybe(row.units)
           /\ \A u \in row.units : IsFiniteSet(u) /\ u \subseteq AllUnits
<1>1. PICK k \in Kind, t \in 0 .. MaxTime, p \in Nat :
          row = [ts |-> t, state |-> k.state, quality |-> k.quality,
                 power |-> k.power, config |-> k.config, units |-> k.units,
                 publish |-> p]
  BY DEF Row
<1>2. MaxTime \in Nat
  BY GraphAssumption
<1>3. row.ts = t /\ row.quality = k.quality /\ row.power = k.power
      /\ row.config = k.config /\ row.units = k.units /\ row.publish = p
  BY <1>1
<1>4. /\ k.config # ""
      /\ Maybe(k.quality) /\ "" \notin k.quality
      /\ Maybe(k.power) /\ k.power \subseteq Int
      /\ Maybe(k.units) /\ \A u \in k.units : IsFiniteSet(u)
  BY KindAssumption
<1>7. \A u \in row.units : u \subseteq AllUnits
  BY <1>3 DEF AllUnits
<1>5. row.ts \in Nat /\ row.ts <= MaxTime /\ row.publish \in Nat
  BY <1>2, <1>3
<1>6. /\ row.config # ""
      /\ Maybe(row.quality) /\ "" \notin row.quality
      /\ Maybe(row.power) /\ row.power \subseteq Int
      /\ Maybe(row.units) /\ \A u \in row.units : IsFiniteSet(u)
  BY <1>3, <1>4, Zenon
<1> QED BY <1>5, <1>6, <1>7

Logged == [run : 1 .. MaxRun, row : Row]

\* The types, the shape of the tables and of the session's memory.
Base ==
    /\ clock \in 0 .. MaxTime /\ run \in 1 .. MaxRun /\ publish \in Nat
    /\ pending \in Seq(Row) /\ Len(pending) <= BatchMax
    /\ batchPath \in Path /\ retrying \in BOOLEAN
    /\ DOMAIN session = Memory /\ (session.path = "" \/ session.path \in Path)
    /\ DOMAIN db = Path /\ \A f \in Path : DOMAIN db[f] = Tables
    /\ log \in [Path -> Seq(Logged)]

LEMMA BaseNumbers ==
    ASSUME Base
    PROVE  /\ clock \in Nat /\ clock <= MaxTime /\ MaxTime \in Nat
           /\ run \in Nat /\ run >= 1 /\ run <= MaxRun /\ MaxRun \in Nat
           /\ publish \in Nat
<1>1. MaxTime \in Nat /\ MaxRun \in Nat
  BY GraphAssumption
<1>2. clock \in 0 .. MaxTime /\ run \in 1 .. MaxRun /\ publish \in Nat
  BY DEF Base
<1> QED BY <1>1, <1>2

LEMMA BoundShape ==
    ASSUME Base, NEW f \in Path, NEW s, s = [db |-> db[f], ses |-> Bound(f)]
    PROVE  Shape(s) /\ s.ses.path = f
<1>1. s.db = db[f] /\ s.ses = Bound(f) /\ DOMAIN s = {"db", "ses"}
  OBVIOUS
<1>2. DOMAIN Bound(f) = Memory /\ Bound(f).path = f
  BY DEF Base, Bound, NewSession, Memory
<1>3. DOMAIN db[f] = Tables
  BY DEF Base
<1> QED BY <1>1, <1>2, <1>3 DEF Shape

\* What is written for the rows: the tables and the memory after the last row, the
\* run's end and the evidence.
Unrolled(f, rows, g, N) ==
    /\ N = Len(rows) /\ g[0] = [db |-> db[f], ses |-> Bound(f)]
    /\ \A n \in 1 .. N : g[n] = WriteRow(g[n - 1], rows[n])
    /\ \A n \in 0 .. N : /\ Shape(g[n]) /\ g[n].ses.path = f
                         /\ g[n].db.highres = db[f].highres
                         /\ g[n].db.permin = db[f].permin
    /\ N > 0 => g[N].ses.last_ts = rows[N].ts
    /\ Written(f, rows) =
          [db |-> RecordEvidence([g[N].db EXCEPT
                                     !.runs[run] = g[N].ses.last_ts], rows),
           ses |-> g[N].ses]

LEMMA WrittenIs ==
    ASSUME Base, NEW f \in Path, NEW rows \in Seq(Row)
    PROVE  \E g, N : Unrolled(f, rows, g, N)
<1> DEFINE N == Len(rows)
<1>1. N \in Nat
  OBVIOUS
<1>2. PICK g : /\ g[0] = [db |-> db[f], ses |-> Bound(f)]
               /\ \A n \in 1 .. N : g[n] = WriteRow(g[n - 1], rows[n])
               /\ AfterRows(f, rows) = g[N]
  BY <1>1, AfterRowsSteps
<1> DEFINE Good(x) == /\ Shape(x) /\ x.ses.path = f
                      /\ x.db.highres = db[f].highres /\ x.db.permin = db[f].permin
           T == {n \in Nat : Good(g[n])}
<1>3. 0 \in T
  <2>1. Shape(g[0]) /\ g[0].ses.path = f
    BY <1>2, BoundShape
  <2> QED BY <1>2, <2>1
<1>4. ASSUME NEW k \in Nat, k < N, k \in T PROVE k + 1 \in T
  <2>1. g[k + 1] = WriteRow(g[k], rows[k + 1])
    BY <1>1, <1>2, <1>4
  <2>2. Good(g[k])
    BY <1>4
  <2> HIDE DEF Good
  <2>3. Good(g[k + 1])
    BY <2>1, <2>2, WriteRowStages DEF Good
  <2> QED BY <2>3
<1>5. \A n \in 0 .. N : Good(g[n])
  <2> HIDE DEF Good
  <2>1. \A k \in Nat : k < N /\ k \in T => k + 1 \in T
    BY <1>4
  <2> HIDE DEF T
  <2>2. \A n \in 0 .. N : n \in T
    BY <1>1, <1>3, <2>1, UpTo
  <2> QED BY <2>2 DEF T
<1>6. N > 0 => g[N].ses.last_ts = rows[N].ts
  <2>1. SUFFICES ASSUME N > 0 PROVE g[N].ses.last_ts = rows[N].ts
    OBVIOUS
  <2>2. N \in 1 .. N /\ N - 1 \in 0 .. N
    BY <1>1, <2>1
  <2>3. g[N] = WriteRow(g[N - 1], rows[N])
    BY <1>2, <2>2
  <2>4. Shape(g[N - 1])
    BY <1>5, <2>2
  <2> QED BY <2>3, <2>4, WriteRowStages
<1>7. Written(f, rows) =
          [db |-> RecordEvidence([g[N].db EXCEPT !.runs[run] = g[N].ses.last_ts], rows),
           ses |-> g[N].ses]
  BY <1>2 DEF Written
<1>8. Unrolled(f, rows, g, N)
  BY <1>2, <1>5, <1>6, <1>7 DEF Unrolled
<1> QED BY <1>8

Times(rows) == {rows[n].ts : n \in {m \in DOMAIN rows : rows[m].power # {}}}

\* What the commit leaves of the last row's tables and memory.
Committed(t, m, old, s, rows) ==
    /\ DOMAIN t = Tables
    /\ t.raw = s.db.raw /\ t.minute = s.db.minute /\ t.intervals = s.db.intervals
    /\ t.events = s.db.events /\ t.topology = s.db.topology
    /\ t.timeline = s.db.timeline
    /\ t.runs = [s.db.runs EXCEPT ![run] = s.ses.last_ts]
    /\ t.highres = ExtendAll(old.highres,
                       MergeRanges({<<x, x>> : x \in Times(rows)}, JoinGap), JoinGap)
    /\ t.permin = ExtendAll(old.permin,
                      MergeRanges({<<Bucket(x), Bucket(x) + Minute - 1>> :
                                       x \in Times(rows)}, 1), 1)
    /\ m = s.ses

LEMMA RecordEvidenceIs ==
    ASSUME NEW s, Shape(s), NEW old, old.highres = s.db.highres,
           old.permin = s.db.permin, NEW rows, NEW t,
           t = RecordEvidence([s.db EXCEPT !.runs[run] = s.ses.last_ts], rows)
    PROVE  Committed(t, s.ses, old, s, rows)
<1>1. PICK d : d = [s.db EXCEPT !.runs[run] = s.ses.last_ts]
  OBVIOUS
<1>2. PICK h : h = ExtendAll(d.highres,
                       MergeRanges({<<x, x>> : x \in Times(rows)}, JoinGap), JoinGap)
  OBVIOUS
<1>3. PICK p : p = ExtendAll(d.permin,
                      MergeRanges({<<Bucket(x), Bucket(x) + Minute - 1>> :
                                       x \in Times(rows)}, 1), 1)
  OBVIOUS
<1>4. t = [d EXCEPT !.highres = h, !.permin = p]
  BY <1>1, <1>2, <1>3 DEF RecordEvidence, Times
<1>5. /\ DOMAIN d = Tables /\ d.runs = [s.db.runs EXCEPT ![run] = s.ses.last_ts]
      /\ d.raw = s.db.raw /\ d.minute = s.db.minute /\ d.intervals = s.db.intervals
      /\ d.events = s.db.events /\ d.topology = s.db.topology
      /\ d.timeline = s.db.timeline
      /\ d.highres = s.db.highres /\ d.permin = s.db.permin
  BY <1>1 DEF Shape, Tables
<1>6. /\ DOMAIN t = Tables /\ t.runs = d.runs
      /\ t.raw = d.raw /\ t.minute = d.minute /\ t.intervals = d.intervals
      /\ t.events = d.events /\ t.topology = d.topology /\ t.timeline = d.timeline
      /\ t.highres = h /\ t.permin = p
  BY <1>4, <1>5 DEF Tables
<1> QED BY <1>2, <1>3, <1>5, <1>6 DEF Committed

\* A committed batch: row by row from what the file was bound with.
Advanced(g, N) ==
    /\ N = Len(pending) /\ N \in Nat /\ N > 0
    /\ g[0] = [db |-> db[batchPath], ses |-> Bound(batchPath)]
    /\ \A n \in 1 .. N : g[n] = WriteRow(g[n - 1], pending[n])
    /\ \A n \in 0 .. N : Shape(g[n]) /\ g[n].ses.path = batchPath
    /\ g[N].ses.last_ts = pending[N].ts
    /\ Committed(db'[batchPath], Bound(batchPath)', db[batchPath], g[N], pending)

\* The files a step does not write to keep their tables; their session is forgotten
\* with the change of the file.
LEMMA WriteBatchIs ==
    ASSUME Base, WriteBatch
    PROVE  /\ \A f \in Path \ {batchPath} :
                  /\ db'[f] = db[f] /\ log'[f] = log[f] /\ Bound(f)' = NewSession(f)
           /\ DOMAIN session' = Memory /\ session'.path = batchPath
           /\ DOMAIN db' = Path /\ \A f \in Path : DOMAIN db'[f] = Tables
           /\ log' \in [Path -> Seq(Logged)]
           /\ log'[batchPath] = log[batchPath] \o
                  [n \in DOMAIN pending |-> [run |-> run, row |-> pending[n]]]
           /\ \E g, N : Advanced(g, N)
<1>1. batchPath \in Path /\ pending \in Seq(Row) /\ pending # <<>>
  BY DEF Base, WriteBatch
<1>2. PICK w : w = Written(batchPath, pending)
  OBVIOUS
<1>3. db' = [db EXCEPT ![batchPath] = w.db] /\ session' = w.ses
  BY <1>2 DEF WriteBatch
<1>4. PICK g, N : Unrolled(batchPath, pending, g, N)
  <2>1. PICK f \in Path : f = batchPath
    BY <1>1
  <2>2. PICK rows \in Seq(Row) : rows = pending
    BY <1>1
  <2>3. PICK g, N : Unrolled(f, rows, g, N)
    BY WrittenIs
  <2> QED BY <2>1, <2>2, <2>3
<1>5. N = Len(pending) /\ N \in Nat /\ N > 0 /\ N \in 0 .. N
  BY <1>1, <1>4 DEF Unrolled
<1>6. /\ w.db = RecordEvidence([g[N].db EXCEPT !.runs[run] = g[N].ses.last_ts], pending)
      /\ w.ses = g[N].ses
  BY <1>2, <1>4 DEF Unrolled
<1>7. /\ Shape(g[N]) /\ g[N].ses.path = batchPath
      /\ g[N].db.highres = db[batchPath].highres
      /\ g[N].db.permin = db[batchPath].permin
  BY <1>4, <1>5 DEF Unrolled
<1>8. Committed(w.db, g[N].ses, db[batchPath], g[N], pending)
  BY <1>6, <1>7, RecordEvidenceIs
<1>9. DOMAIN db = Path /\ \A f \in Path : DOMAIN db[f] = Tables
  BY DEF Base
<1>10. db'[batchPath] = w.db /\ DOMAIN db' = Path
  BY <1>1, <1>3, <1>9
<1>11. session'.path = batchPath /\ DOMAIN session' = Memory
  BY <1>3, <1>6, <1>7 DEF Shape
<1>12. Bound(batchPath)' = g[N].ses
  BY <1>3, <1>6, <1>11 DEF Bound, WriteBatch
<1>13. Committed(db'[batchPath], Bound(batchPath)', db[batchPath], g[N], pending)
  BY <1>8, <1>10, <1>12
<1>14. log \in [Path -> Seq(Logged)] /\ run \in 1 .. MaxRun
  BY DEF Base
<1> DEFINE more == [n \in DOMAIN pending |-> [run |-> run, row |-> pending[n]]]
<1>15. more \in Seq(Logged)
  <2>1. DOMAIN pending = 1 .. N
    BY <1>1, <1>5
  <2>2. \A n \in 1 .. N : pending[n] \in Row
    BY <1>1, <1>5
  <2>3. \A n \in 1 .. N : [run |-> run, row |-> pending[n]] \in Logged
    BY <1>14, <2>2 DEF Logged
  <2> QED BY <1>5, <2>1, <2>3
<1>16. log' = [log EXCEPT ![batchPath] = @ \o more]
  BY DEF WriteBatch
<1>17. log'[batchPath] = log[batchPath] \o more /\ log' \in [Path -> Seq(Logged)]
  <2>1. log[batchPath] \in Seq(Logged)
    BY <1>1, <1>14
  <2>2. log[batchPath] \o more \in Seq(Logged)
    BY <1>15, <2>1
  <2> HIDE DEF more
  <2> QED BY <1>1, <1>14, <1>16, <2>2
<1>18. ASSUME NEW f \in Path \ {batchPath}
       PROVE  db'[f] = db[f] /\ log'[f] = log[f] /\ Bound(f)' = NewSession(f)
  <2>1. db'[f] = db[f]
    BY <1>3, <1>9
  <2>2. log'[f] = log[f]
    BY <1>14, <1>16
  <2>3. Bound(f)' = NewSession(f)
    BY <1>11 DEF Bound, NewSession
  <2> QED BY <2>1, <2>2, <2>3
<1>19. ASSUME NEW f \in Path PROVE DOMAIN db'[f] = Tables
  BY <1>9, <1>10, <1>13, <1>18 DEF Committed
<1>20. Advanced(g, N)
  BY <1>4, <1>5, <1>13 DEF Advanced, Unrolled
<1> QED BY <1>10, <1>11, <1>17, <1>18, <1>19, <1>20

\* The log of the file goes on with the rows of the batch.
Grown(old, new, rows, r) ==
    /\ Len(old) \in Nat /\ Len(rows) \in Nat
    /\ DOMAIN old = 1 .. Len(old) /\ DOMAIN rows = 1 .. Len(rows)
    /\ DOMAIN new = 1 .. Len(old) + Len(rows)
    /\ \A n \in 1 .. Len(old) : new[n] = old[n]
    /\ \A n \in 1 .. Len(rows) : /\ new[Len(old) + n].row = rows[n]
                                /\ new[Len(old) + n].run = r
    /\ \A n \in DOMAIN new : \/ n \in 1 .. Len(old)
                             \/ \E m \in 1 .. Len(rows) : n = Len(old) + m

LEMMA GrownBy ==
    ASSUME NEW old \in Seq(Logged), NEW rows \in Seq(Row), NEW r, NEW new,
           new = old \o [n \in DOMAIN rows |-> [run |-> r, row |-> rows[n]]]
    PROVE  Grown(old, new, rows, r)
<1> DEFINE more == [n \in DOMAIN rows |-> [run |-> r, row |-> rows[n]]]
<1>1. /\ Len(old) \in Nat /\ DOMAIN old = 1 .. Len(old)
      /\ Len(rows) \in Nat /\ DOMAIN rows = 1 .. Len(rows)
  OBVIOUS
<1>2. more \in Seq({more[n] : n \in 1 .. Len(rows)}) /\ Len(more) = Len(rows)
  BY <1>1
<1>3. \A n \in 1 .. Len(rows) : more[n].row = rows[n] /\ more[n].run = r
  BY <1>1
<1> HIDE DEF more
<1>4. PICK S : old \in Seq(S) /\ more \in Seq(S)
  <2>1. old \in Seq(Logged \cup {more[n] : n \in 1 .. Len(rows)})
    OBVIOUS
  <2>2. more \in Seq(Logged \cup {more[n] : n \in 1 .. Len(rows)})
    BY <1>2
  <2> QED BY <2>1, <2>2
<1>5. new = old \o more
  BY DEF more
<1>6. /\ DOMAIN new = 1 .. Len(old) + Len(rows)
      /\ \A n \in 1 .. Len(old) : new[n] = old[n]
      /\ \A n \in 1 .. Len(rows) : new[Len(old) + n] = more[n]
  BY <1>1, <1>2, <1>4, <1>5
<1>7. ASSUME NEW n \in DOMAIN new, n \notin 1 .. Len(old)
      PROVE  \E m \in 1 .. Len(rows) : n = Len(old) + m
  <2>1. n - Len(old) \in 1 .. Len(rows) /\ n = Len(old) + (n - Len(old))
    BY <1>1, <1>6, <1>7
  <2> QED BY <2>1
<1> QED BY <1>1, <1>3, <1>6, <1>7 DEF Grown

LEMMA LogGrows ==
    ASSUME Base, WriteBatch
    PROVE  Grown(log[batchPath], log'[batchPath], pending, run)
<1>1. PICK old \in Seq(Logged) : old = log[batchPath]
  BY DEF Base
<1>2. PICK rows \in Seq(Row) : rows = pending
  BY DEF Base
<1>3. log'[batchPath] = old \o [n \in DOMAIN rows |-> [run |-> run, row |-> rows[n]]]
  BY <1>1, <1>2, WriteBatchIs
<1>4. Grown(old, log'[batchPath], rows, run)
  BY <1>3, GrownBy
<1> QED BY <1>1, <1>2, <1>4

\* A batch that fails leaves the memory the file was bound with.
LEMMA WriteFailsIs ==
    ASSUME Base, WriteFails
    PROVE  /\ \A f \in Path \ {batchPath} : Bound(f)' = NewSession(f)
           /\ Bound(batchPath)' = Bound(batchPath)
           /\ DOMAIN session' = Memory /\ session'.path = batchPath
<1>1. batchPath \in Path /\ session' = Bound(batchPath)
  BY DEF Base, WriteFails, AfterRollback
<1>2. DOMAIN Bound(batchPath) = Memory /\ Bound(batchPath).path = batchPath
  BY DEF Base, Bound, NewSession, Memory
<1>3. batchPath' = batchPath
  BY DEF WriteFails
<1> QED BY <1>1, <1>2, <1>3 DEF Bound, NewSession

\* A new process has no session for any file.
LEMMA RestartIs ==
    ASSUME Base, Restart
    PROVE  /\ \A f \in Path : Bound(f)' = NewSession(f)
           /\ DOMAIN session' = Memory /\ session'.path = ""
<1>1. session' = NewSession("")
  BY DEF Restart
<1>2. DOMAIN session' = Memory /\ session'.path = ""
  BY <1>1 DEF NewSession, Memory
<1>3. \A f \in Path : f # ""
  BY PathAssumption
<1> QED BY <1>2, <1>3 DEF Bound, NewSession

LEMMA EmptyBatch == <<>> \in Seq(Row) /\ Len(<<>>) <= BatchMax
<1>1. 0 <= BatchMax
  BY GraphAssumption
<1>2. Len(<<>>) = 0
  OBVIOUS
<1>3. <<>> \in Seq(Row)
  OBVIOUS
<1> QED BY <1>1, <1>2, <1>3

LEMMA BaseInit == Init => Base
<1> SUFFICES ASSUME Init PROVE Base
  OBVIOUS
<1>1. 0 \in 0 .. MaxTime /\ 1 \in 1 .. MaxRun /\ 0 <= BatchMax
  BY GraphAssumption
<1>2. pending \in Seq(Row) /\ Len(pending) <= BatchMax
  <2>1. pending = <<>>
    BY DEF Init
  <2> QED BY <2>1, EmptyBatch
<1>3. DOMAIN session = Memory /\ session.path = ""
  BY DEF Init, NewSession, Memory
<1>4. DOMAIN db = Path /\ \A f \in Path : DOMAIN db[f] = Tables
  BY DEF Init, EmptyTables, Tables
<1>5. log \in [Path -> Seq(Logged)]
  <2>1. log = [f \in Path |-> <<>>]
    BY DEF Init
  <2>2. <<>> \in Seq(Logged)
    OBVIOUS
  <2> QED BY <2>1, <2>2
<1>6. /\ clock \in 0 .. MaxTime /\ run \in 1 .. MaxRun /\ publish \in Nat
      /\ batchPath \in Path /\ retrying \in BOOLEAN
  BY <1>1 DEF Init
<1> QED BY <1>2, <1>3, <1>4, <1>5, <1>6 DEF Base

LEMMA BaseStep == Base /\ [Next]_vars => Base'
<1> SUFFICES ASSUME Base, [Next]_vars PROVE Base'
  OBVIOUS
<1> USE DEF Base
<1>1. CASE Sample
  <2>1. PICK k \in Kind, d \in Steps, f \in Path :
           /\ clock + d <= MaxTime
           /\ ~retrying /\ Len(pending) < BatchMax
           /\ pending = <<>> \/ f = batchPath
           /\ clock' = clock + d
           /\ publish' = publish + k.publishes
           /\ pending' = Append(pending,
                  [ts |-> clock', state |-> k.state, quality |-> k.quality,
                   power |-> k.power, config |-> k.config, units |-> k.units,
                   publish |-> publish'])
           /\ batchPath' = f
           /\ UNCHANGED <<run, retrying, session, db, log, stepped, rebound>>
    BY <1>1 DEF Sample
  <2>2. d \in Nat /\ k.publishes \in Nat /\ BatchMax \in Nat /\ MaxTime \in Nat
    BY GraphAssumption, KindAssumption
  <2>3. clock' \in 0 .. MaxTime /\ publish' \in Nat
    <3>1. clock' = clock + d /\ clock + d <= MaxTime /\ publish' = publish + k.publishes
      BY <2>1
    <3>2. clock \in Nat /\ publish \in Nat
      BY BaseNumbers
    <3> QED BY ONLY <3>1, <3>2, <2>2
  <2>4. PICK row : row = [ts |-> clock', state |-> k.state, quality |-> k.quality,
                          power |-> k.power, config |-> k.config, units |-> k.units,
                          publish |-> publish']
    OBVIOUS
  <2>5. row \in Row
    BY ONLY <2>3, <2>4, k \in Kind DEF Row
  <2>6. pending' \in Seq(Row) /\ Len(pending') <= BatchMax
    <3>1. pending' = Append(pending, row) /\ Len(pending) < BatchMax
      BY <2>1, <2>4
    <3>2. pending \in Seq(Row)
      OBVIOUS
    <3> QED BY ONLY <3>1, <3>2, <2>2, <2>5
  <2> QED BY <2>1, <2>3, <2>6
<1>2. CASE WriteBatch
  <2>1. /\ DOMAIN session' = Memory /\ session'.path = batchPath
        /\ DOMAIN db' = Path /\ \A f \in Path : DOMAIN db'[f] = Tables
        /\ log' \in [Path -> Seq(Logged)]
    BY <1>2, WriteBatchIs
  <2>2. pending' = <<>> /\ retrying' = FALSE
        /\ UNCHANGED <<clock, run, batchPath, publish>>
    BY <1>2 DEF WriteBatch
  <2>3. pending' \in Seq(Row) /\ Len(pending') <= BatchMax
    BY <2>2, EmptyBatch
  <2> QED BY <2>1, <2>2, <2>3
<1>3. CASE WriteFails
  <2>1. DOMAIN session' = Memory /\ session'.path = batchPath
    BY <1>3, WriteFailsIs
  <2>2. retrying' = TRUE /\ UNCHANGED <<clock, run, pending, batchPath, publish, db, log>>
    BY <1>3 DEF WriteFails
  <2> QED BY <2>1, <2>2
<1>4. CASE Restart
  <2>1. DOMAIN session' = Memory /\ session'.path = ""
    BY <1>4, RestartIs
  <2>2. /\ run < MaxRun /\ run' = run + 1 /\ pending' = <<>> /\ retrying' = FALSE
        /\ publish' = 0 /\ UNCHANGED <<clock, batchPath, db, log>>
    BY <1>4 DEF Restart
  <2>3. pending' \in Seq(Row) /\ Len(pending') <= BatchMax
    BY <2>2, EmptyBatch
  <2>4. run' \in 1 .. MaxRun
    <3>1. run \in 1 .. MaxRun /\ run < MaxRun /\ run' = run + 1
      BY <2>2
    <3>2. MaxRun \in Nat
      BY GraphAssumption
    <3> QED BY ONLY <3>1, <3>2
  <2> QED BY <2>1, <2>2, <2>3, <2>4
<1>5. CASE SetBack
  <2>1. PICK b \in SetBacks :
            /\ clock >= b /\ clock' = clock - b
            /\ UNCHANGED <<run, pending, batchPath, retrying, publish, session, db, log>>
    BY <1>5 DEF SetBack
  <2>2. b \in Nat /\ MaxTime \in Nat
    BY GraphAssumption
  <2>3. clock' \in 0 .. MaxTime
    <3>1. clock \in 0 .. MaxTime /\ clock >= b /\ clock' = clock - b
      BY <2>1
    <3> QED BY ONLY <3>1, <2>2
  <2> QED BY <2>1, <2>3
<1>6. CASE UNCHANGED vars
  BY <1>6 DEF vars
<1> QED BY <1>1, <1>2, <1>3, <1>4, <1>5, <1>6 DEF Next

LEMMA BaseHolds == Spec => []Base
BY BaseInit, BaseStep, PTL DEF Spec

(***************************************************************************)
(* The minute aggregates                                                    *)
(***************************************************************************)

\* Samples of which no two have one time.
Samples(S) ==
    /\ IsFiniteSet(S)
    /\ \A x \in S : x.ts \in Nat /\ Maybe(x.power) /\ x.power \subseteq Int
    /\ \A x, y \in S : x.ts = y.ts => x = y

Power(p) == IF p = {} THEN 0 ELSE Max(p)

LEMMA PowerIs ==
    ASSUME NEW p \in SUBSET Int, Maybe(p)
    PROVE  Power(p) \in Int /\ (\A v \in p : p = {v} /\ Power(p) = v)
<1>1. CASE p = {}
  BY <1>1 DEF Power
<1>2. ASSUME NEW v \in p PROVE p = {v} /\ Power(p) = v
  <2>1. p = {v}
    BY DEF Maybe
  <2>2. Max(p) = v
    BY <2>1, MaxIs
  <2> QED BY <2>1, <2>2 DEF Power
<1>3. p # {} => Power(p) \in Int
  BY <1>2
<1> QED BY <1>1, <1>2, <1>3

LEMMA PowerAtSample ==
    ASSUME NEW S, Samples(S), NEW y \in S
    PROVE  PowerAt(S, y.ts) = Power(y.power)
<1>1. {x \in S : x.ts = y.ts} = {y}
  BY DEF Samples
<1>2. UNION {x.power : x \in {y}} = y.power
  OBVIOUS
<1> QED BY <1>1, <1>2 DEF PowerAt, Power

LEMMA PowerAtNone ==
    ASSUME NEW S, NEW t, \A y \in S : y.ts # t
    PROVE  PowerAt(S, t) = 0
<1>1. {x \in S : x.ts = t} = {}
  OBVIOUS
<1>2. UNION {x.power : x \in {}} = {}
  OBVIOUS
<1> QED BY <1>1, <1>2 DEF PowerAt

LEMMA PowerAtType ==
    ASSUME NEW S, Samples(S), NEW t
    PROVE  PowerAt(S, t) \in Int
<1>1. CASE \A y \in S : y.ts # t
  BY <1>1, PowerAtNone
<1>2. ASSUME NEW y \in S, y.ts = t PROVE PowerAt(S, t) \in Int
  <2>1. y.power \in SUBSET Int /\ Maybe(y.power)
    BY DEF Samples
  <2> QED BY <1>2, <2>1, PowerAtSample, PowerIs
<1> QED BY <1>1, <1>2

\* A sample of a new time adds its power at its time and nowhere else.
LEMMA PowerAtAdds ==
    ASSUME NEW S, NEW x, \A y \in S : y.ts # x.ts, NEW t
    PROVE  /\ t # x.ts => PowerAt(S \cup {x}, t) = PowerAt(S, t)
           /\ t = x.ts => PowerAt(S \cup {x}, t) = Power(x.power)
<1>1. ASSUME t # x.ts PROVE {y \in S \cup {x} : y.ts = t} = {y \in S : y.ts = t}
  BY <1>1
<1>2. ASSUME t = x.ts PROVE {y \in S \cup {x} : y.ts = t} = {x}
  BY <1>2
<1>3. UNION {y.power : y \in {x}} = x.power
  OBVIOUS
<1>4. t # x.ts => PowerAt(S \cup {x}, t) = PowerAt(S, t)
  BY <1>1 DEF PowerAt
<1>5. t = x.ts => PowerAt(S \cup {x}, t) = Power(x.power)
  BY <1>2, <1>3 DEF PowerAt, Power
<1> QED BY <1>4, <1>5

\* The sum is that of its recursion.
LEMMA SumSteps ==
    ASSUME NEW S, NEW b
    PROVE  \E g : /\ g[0] = 0
                  /\ \A n \in 1 .. Minute : g[n] = g[n - 1] + PowerAt(S, b + n - 1)
                  /\ SumOf(S, b) = g[Minute]
<1> DEFINE Is(g, k) == g = [n \in 0 .. k |-> IF n = 0 THEN 0
                                   ELSE g[n - 1] + PowerAt(S, b + n - 1)]
           Has(k) == \E g : Is(g, k)
<1>1. Has(0)
  <2>1. Is([n \in 0 .. 0 |-> 0], 0)
    OBVIOUS
  <2> QED BY <2>1
<1>2. ASSUME NEW k \in Nat, Has(k) PROVE Has(k + 1)
  <2>1. PICK g : Is(g, k)
    BY <1>2
  <2> DEFINE h == [n \in 0 .. k + 1 |-> IF n = k + 1 THEN g[k] + PowerAt(S, b + n - 1)
                                        ELSE g[n]]
  <2>2. ASSUME NEW n \in 0 .. k + 1
        PROVE  h[n] = IF n = 0 THEN 0 ELSE h[n - 1] + PowerAt(S, b + n - 1)
    <3>1. CASE n = k + 1
      BY <3>1
    <3>2. CASE n # k + 1
      BY <2>1, <3>2
    <3> QED BY <3>1, <3>2
  <2>3. Is(h, k + 1)
    BY <2>2
  <2> HIDE DEF h
  <2> QED BY <2>3
<1>3. Minute \in Nat
  BY GraphAssumption
<1>4. Has(Minute)
  <2> HIDE DEF Has
  <2> DEFINE T == {k \in Nat : Has(k)}
  <2>1. 0 \in T /\ \A k \in Nat : k < Minute /\ k \in T => k + 1 \in T
    BY <1>1, <1>2
  <2> HIDE DEF T
  <2>2. \A k \in 0 .. Minute : k \in T
    BY <1>3, <2>1, UpTo
  <2>3. Minute \in T
    BY <1>3, <2>2
  <2> QED BY <2>3 DEF T
<1> DEFINE sum == CHOOSE g : Is(g, Minute)
<1>5. Is(sum, Minute)
  <2> HIDE DEF Is
  <2> QED BY <1>4
<1>6. SumOf(S, b) = sum[Minute]
  BY DEF SumOf
<1> HIDE DEF sum
<1>7. sum[0] = 0
  BY <1>3, <1>5
<1>8. \A n \in 1 .. Minute : sum[n] = sum[n - 1] + PowerAt(S, b + n - 1)
  BY <1>3, <1>5
<1> QED BY <1>6, <1>7, <1>8

LEMMA SumOfNone ==
    ASSUME NEW b \in Nat
    PROVE  SumOf({}, b) = 0
<1>1. PICK g : /\ g[0] = 0
               /\ \A n \in 1 .. Minute : g[n] = g[n - 1] + PowerAt({}, b + n - 1)
               /\ SumOf({}, b) = g[Minute]
  BY SumSteps
<1>2. Minute \in Nat
  BY GraphAssumption
<1> DEFINE T == {k \in Nat : g[k] = 0}
<1>3. 0 \in T /\ \A k \in Nat : k < Minute /\ k \in T => k + 1 \in T
  <2>1. ASSUME NEW k \in Nat, k < Minute, g[k] = 0 PROVE g[k + 1] = 0
    <3>1. g[k + 1] = g[k] + PowerAt({}, b + (k + 1) - 1)
      BY <1>1, <1>2, <2>1
    <3>2. PowerAt({}, b + (k + 1) - 1) = 0
      BY PowerAtNone
    <3> QED BY <2>1, <3>1, <3>2
  <2> QED BY <1>1, <2>1
<1> HIDE DEF T
<1>4. \A k \in 0 .. Minute : k \in T
  BY <1>2, <1>3, UpTo
<1>5. Minute \in T
  BY <1>2, <1>4
<1> QED BY <1>1, <1>5 DEF T

LEMMA SumAdds ==
    ASSUME NEW S, Samples(S), NEW x, Samples(S \cup {x}), \A y \in S : y.ts # x.ts,
           NEW b \in Nat, x.ts - b \in 0 .. Minute - 1
    PROVE  SumOf(S \cup {x}, b) = SumOf(S, b) + Power(x.power) /\ SumOf(S, b) \in Int
<1>1. PICK g : /\ g[0] = 0
               /\ \A n \in 1 .. Minute : g[n] = g[n - 1] + PowerAt(S, b + n - 1)
               /\ SumOf(S, b) = g[Minute]
  BY SumSteps
<1>2. PICK h : /\ h[0] = 0
               /\ \A n \in 1 .. Minute :
                      h[n] = h[n - 1] + PowerAt(S \cup {x}, b + n - 1)
               /\ SumOf(S \cup {x}, b) = h[Minute]
  BY SumSteps
<1>3. Minute \in Nat
  BY GraphAssumption
<1>4. x.ts \in Nat /\ x.power \in SUBSET Int /\ Maybe(x.power)
  BY DEF Samples
<1>5. Power(x.power) \in Int
  BY <1>4, PowerIs
<1> DEFINE d == x.ts - b
           T == {k \in Nat : /\ g[k] \in Int
                             /\ h[k] = g[k] + (IF k > d THEN Power(x.power) ELSE 0)}
<1>6. 0 \in T
  BY <1>1, <1>2, <1>4
<1>7. ASSUME NEW k \in Nat, k < Minute, k \in T PROVE k + 1 \in T
  <2>1. PICK t : t = b + (k + 1) - 1
    OBVIOUS
  <2>2. g[k + 1] = g[k] + PowerAt(S, t)
    BY <1>1, <1>3, <1>7, <2>1
  <2>3. h[k + 1] = h[k] + PowerAt(S \cup {x}, t)
    BY <1>2, <1>3, <1>7, <2>1
  <2>4. PowerAt(S, t) \in Int
    BY PowerAtType
  <2>5. t # x.ts => PowerAt(S \cup {x}, t) = PowerAt(S, t)
    BY PowerAtAdds
  <2>6. t = x.ts => /\ PowerAt(S \cup {x}, t) = Power(x.power)
                    /\ PowerAt(S, t) = 0
    <3>1. PowerAt(S \cup {x}, x.ts) = Power(x.power)
      BY PowerAtAdds
    <3>2. t = x.ts => PowerAt(S, t) = 0
      BY PowerAtNone
    <3> QED BY <3>1, <3>2
  <2>7. t = x.ts <=> k = d
    BY <1>4, <2>1
  <2>8. g[k] \in Int /\ h[k] = g[k] + (IF k > d THEN Power(x.power) ELSE 0)
    BY <1>7
  <2>9. d \in Nat
    BY <1>3
  <2> HIDE DEF d
  <2>10. g[k + 1] \in Int
    BY <2>2, <2>4, <2>8
  <2>11. CASE k = d
    BY <1>5, <2>2, <2>3, <2>6, <2>7, <2>8, <2>9, <2>10, <2>11
  <2>12. CASE k # d
    BY <1>5, <2>2, <2>3, <2>4, <2>5, <2>7, <2>8, <2>9, <2>10, <2>12
  <2> QED BY <2>11, <2>12
<1>8. Minute \in T
  <2>1. 0 \in T /\ \A k \in Nat : k < Minute /\ k \in T => k + 1 \in T
    BY <1>6, <1>7
  <2> HIDE DEF T
  <2>2. \A k \in 0 .. Minute : k \in T
    BY <1>3, <2>1, UpTo
  <2> QED BY <1>3, <2>2
<1>9. Minute > d
  BY <1>3, <1>4
<1> QED BY <1>1, <1>2, <1>8, <1>9

\* The aggregate of a set of samples.
Matches(a, S, b) ==
    /\ a.n = Cardinality(S) /\ a.count = Cardinality({x \in S : x.power # {}})
    /\ a.sum = SumOf(S, b)
    /\ \A x \in S : \A v \in x.power : a.lo # {} /\ a.hi # {}
    /\ \A m \in a.lo : /\ a.lo = {m} /\ \E x \in S : m \in x.power
                       /\ \A x \in S : \A v \in x.power : m <= v
    /\ \A m \in a.hi : /\ a.hi = {m} /\ \E x \in S : m \in x.power
                       /\ \A x \in S : \A v \in x.power : v <= m

LEMMA MatchesNone ==
    ASSUME NEW b \in Nat
    PROVE  Matches(NoPower, {}, b)
<1>1. Cardinality({}) = 0 /\ {x \in {} : x.power # {}} = {}
  BY FS_EmptySet
<1> QED BY <1>1, SumOfNone DEF Matches, NoPower

Added(a, p, c) ==
    /\ c.n = a.n + 1 /\ c.count = a.count + Cardinality(p) /\ c.sum = a.sum + Power(p)
    /\ p = {} => c.lo = a.lo /\ c.hi = a.hi
    /\ p # {} => c.lo = {Min(a.lo \cup p)} /\ c.hi = {Max(a.hi \cup p)}

LEMMA AddToFields ==
    ASSUME NEW a, NEW p, NEW c, c = AddTo(a, p)
    PROVE  Added(a, p, c)
BY DEF AddTo, Power, Added

LEMMA AddToMatches ==
    ASSUME NEW S, Samples(S), NEW x, Samples(S \cup {x}), \A y \in S : y.ts # x.ts,
           NEW b \in Nat, x.ts - b \in 0 .. Minute - 1, NEW a, Matches(a, S, b),
           NEW c, c = AddTo(a, x.power)
    PROVE  Matches(c, S \cup {x}, b)
<1>1. /\ IsFiniteSet(S) /\ x \notin S
      /\ \A y \in S \cup {x} : y.power \in SUBSET Int /\ Maybe(y.power)
  BY DEF Samples
<1>2. /\ c.n = a.n + 1 /\ c.count = a.count + Cardinality(x.power)
      /\ c.sum = a.sum + Power(x.power)
      /\ x.power = {} => c.lo = a.lo /\ c.hi = a.hi
      /\ x.power # {} => c.lo = {Min(a.lo \cup x.power)} /\ c.hi = {Max(a.hi \cup x.power)}
  <2>1. Added(a, x.power, c)
    BY AddToFields
  <2> QED BY <2>1 DEF Added
<1>3. c.n = Cardinality(S \cup {x})
  BY <1>1, <1>2, FS_AddElement DEF Matches
<1>4. c.count = Cardinality({y \in S \cup {x} : y.power # {}})
  <2> DEFINE P == {y \in S : y.power # {}}
  <2>1. IsFiniteSet(P) /\ Cardinality(P) \in Nat /\ x \notin P
    BY <1>1, FS_Subset, FS_CardinalityType
  <2>2. CASE x.power = {}
    <3>1. {y \in S \cup {x} : y.power # {}} = P
      BY <2>2
    <3>2. Cardinality(x.power) = 0
      BY <2>2, FS_EmptySet
    <3>3. a.count = Cardinality(P)
      BY DEF Matches
    <3>4. c.count = a.count + 0
      BY <1>2, <3>2
    <3> HIDE DEF P
    <3>5. c.count = Cardinality(P)
      BY <2>1, <3>3, <3>4
    <3> QED BY <3>1, <3>5
  <2>3. CASE x.power # {}
    <3>1. {y \in S \cup {x} : y.power # {}} = P \cup {x}
      BY <2>3
    <3>2. PICK v : x.power = {v}
      BY <1>1, <2>3 DEF Maybe
    <3>3. Cardinality(x.power) = 1
      BY <3>2, FS_Singleton
    <3>4. Cardinality(P \cup {x}) = Cardinality(P) + 1
      BY <2>1, FS_AddElement
    <3> QED BY <1>2, <2>1, <3>1, <3>3, <3>4 DEF Matches
  <2> QED BY <2>2, <2>3
<1>5. c.sum = SumOf(S \cup {x}, b)
  BY <1>2, SumAdds DEF Matches
<1> DEFINE Bounds(d, Q) ==
        /\ \A y \in Q : \A v \in y.power : d.lo # {} /\ d.hi # {}
        /\ \A m \in d.lo : /\ d.lo = {m} /\ \E y \in Q : m \in y.power
                           /\ \A y \in Q : \A v \in y.power : m <= v
        /\ \A m \in d.hi : /\ d.hi = {m} /\ \E y \in Q : m \in y.power
                           /\ \A y \in Q : \A v \in y.power : v <= m
<1>6. Bounds(a, S)
  BY DEF Matches
<1>7. CASE x.power = {}
  <2>1. Bounds(c, S \cup {x})
    BY <1>2, <1>6, <1>7
  <2> QED BY <1>3, <1>4, <1>5, <2>1 DEF Matches
<1>8. CASE x.power # {}
  <2>1. PICK p \in Int : x.power = {p}
    BY <1>1, <1>8 DEF Maybe
  <2>2. ASSUME NEW m, c.lo = {m}, m \in a.lo \cup {p}, \A v \in a.lo \cup {p} : m <= v,
               NEW n, c.hi = {n}, n \in a.hi \cup {p}, \A v \in a.hi \cup {p} : v <= n
        PROVE  Bounds(c, S \cup {x})
    <3>1. \E y \in S \cup {x} : m \in y.power
      BY <1>6, <2>1, <2>2
    <3>2. \E y \in S \cup {x} : n \in y.power
      BY <1>6, <2>1, <2>2
    <3>3. \A y \in S : \A v \in y.power : m <= v /\ v <= n
      <4>1. SUFFICES ASSUME NEW y \in S, NEW v \in y.power PROVE m <= v /\ v <= n
        OBVIOUS
      <4>2. a.lo # {} /\ a.hi # {}
        BY <1>6, <4>1
      <4>3. PICK u \in a.lo : u <= v
        BY <1>6, <4>1, <4>2
      <4>4. PICK w \in a.hi : v <= w
        BY <1>6, <4>1, <4>2
      <4>5. u \in Int /\ w \in Int /\ v \in Int /\ m \in Int /\ n \in Int
        BY <1>1, <1>6, <2>1, <2>2, <4>1
      <4> QED BY <2>2, <4>3, <4>4, <4>5
    <3>4. \A v \in x.power : m <= v /\ v <= n
      BY <2>1, <2>2
    <3> QED BY <2>2, <3>1, <3>2, <3>3, <3>4
  <2>3. a.lo \subseteq Int /\ a.hi \subseteq Int
    BY <1>1, <1>6
  <2>4. \E m : /\ c.lo = {m} /\ m \in a.lo \cup {p} /\ \A v \in a.lo \cup {p} : m <= v
    <3>1. ASSUME NEW m \in a.lo \cup {p}, \A v \in a.lo \cup {p} : m <= v
          PROVE  Min(a.lo \cup {p}) = m
      BY <2>3, <3>1, MinIs
    <3>2. c.lo = {Min(a.lo \cup {p})}
      BY <1>2, <1>8, <2>1
    <3>3. \E m \in a.lo \cup {p} : \A v \in a.lo \cup {p} : m <= v
      <4>1. CASE a.lo = {}
        BY <4>1
      <4>2. ASSUME NEW l \in a.lo, a.lo = {l} PROVE  \E m \in a.lo \cup {p} : \A v \in a.lo \cup {p} : m <= v
        BY <2>3, <4>2
      <4> QED BY <1>6, <4>1, <4>2
    <3> QED BY <3>1, <3>2, <3>3
  <2>5. \E n : /\ c.hi = {n} /\ n \in a.hi \cup {p} /\ \A v \in a.hi \cup {p} : v <= n
    <3>1. ASSUME NEW n \in a.hi \cup {p}, \A v \in a.hi \cup {p} : v <= n
          PROVE  Max(a.hi \cup {p}) = n
      BY <2>3, <3>1, MaxIs
    <3>2. c.hi = {Max(a.hi \cup {p})}
      BY <1>2, <1>8, <2>1
    <3>3. \E n \in a.hi \cup {p} : \A v \in a.hi \cup {p} : v <= n
      <4>1. CASE a.hi = {}
        BY <4>1
      <4>2. ASSUME NEW l \in a.hi, a.hi = {l}
            PROVE  \E n \in a.hi \cup {p} : \A v \in a.hi \cup {p} : v <= n
        BY <2>3, <4>2
      <4> QED BY <1>6, <4>1, <4>2
    <3> QED BY <3>1, <3>2, <3>3
  <2>6. Bounds(c, S \cup {x})
    <3> HIDE DEF Bounds
    <3> QED BY <2>2, <2>4, <2>5
  <2> QED BY <1>3, <1>4, <1>5, <2>6 DEF Matches
<1> QED BY <1>7, <1>8

Own(raw, b) == {x \in raw : Bucket(x.ts) = b}
MinuteView(raw, minute) ==
    /\ Samples(raw)
    /\ \A x \in raw : Bucket(x.ts) \in DOMAIN minute
    /\ \A b \in DOMAIN minute : b \in Nat /\ Matches(minute[b], Own(raw, b), b)

LEMMA InsertSampleView ==
    ASSUME NEW s, Shape(s), MinuteView(s.db.raw, s.db.minute), NEW row \in Row,
           NEW t, t = InsertSample(s, row)
    PROVE  /\ MinuteView(t.db.raw, t.db.minute) /\ s.db.raw \subseteq t.db.raw
           /\ \E x \in t.db.raw : x.ts = row.ts
<1>1. CASE \E r \in s.db.raw : r.ts = row.ts
  BY <1>1 DEF InsertSample
<1>2. CASE ~ \E r \in s.db.raw : r.ts = row.ts
  <2>1. PICK raw : raw = s.db.raw
    OBVIOUS
  <2>2. PICK minute : minute = s.db.minute
    OBVIOUS
  <2>3. PICK x : x = [ts |-> row.ts, power |-> row.power]
    OBVIOUS
  <2>4. PICK b : b = Bucket(row.ts)
    OBVIOUS
  <2>5. PICK a : a = IF b \in DOMAIN minute THEN minute[b] ELSE NoPower
    OBVIOUS
  <2>6. PICK c : c = AddTo(a, x.power)
    OBVIOUS
  <2>7. t = [s EXCEPT !.db.raw = raw \cup {x}, !.db.minute = With(minute, b, c)]
    BY <1>2, <2>1, <2>2, <2>3, <2>4, <2>5, <2>6 DEF InsertSample
  <2>8. t.db.raw = raw \cup {x} /\ t.db.minute = With(minute, b, c)
    BY <2>7 DEF Shape, Tables
  <2>9. Samples(raw) /\ MinuteView(raw, minute)
    BY <2>1, <2>2 DEF MinuteView
  <2>10. /\ row.ts \in Nat /\ Maybe(row.power) /\ row.power \subseteq Int
         /\ x.ts = row.ts /\ x.power = row.power
    BY <2>3, RowFields
  <2>11. \A y \in raw : y.ts # x.ts
    BY <1>2, <2>1, <2>10
  <2>12. Samples(raw \cup {x})
    <3>1. IsFiniteSet(raw \cup {x})
      BY <2>9, FS_AddElement DEF Samples
    <3>2. x.ts \in Nat /\ Maybe(x.power) /\ x.power \subseteq Int
      BY <2>10
    <3> QED BY <2>9, <2>11, <3>1, <3>2 DEF Samples
  <2>13. b = Bucket(x.ts) /\ b \in Nat /\ x.ts - b \in 0 .. Minute - 1
    BY <2>4, <2>10, BucketHolds
  <2>14. PICK S : S = Own(raw, b)
    OBVIOUS
  <2>15. Samples(S)
    <3>1. S \subseteq raw
      BY <2>14 DEF Own
    <3> QED BY <2>9, <3>1, FS_Subset DEF Samples
  <2>16. Own(raw \cup {x}, b) = S \cup {x}
    BY <2>13, <2>14 DEF Own
  <2>17. Samples(S \cup {x})
    <3>1. S \cup {x} \subseteq raw \cup {x}
      BY <2>14 DEF Own
    <3> QED BY <2>12, <3>1, FS_Subset DEF Samples
  <2>18. Matches(a, S, b)
    <3>1. CASE b \in DOMAIN minute
      BY <2>5, <2>9, <2>14, <3>1 DEF MinuteView
    <3>2. CASE b \notin DOMAIN minute
      <4>1. S = {}
        BY <2>9, <2>14, <3>2 DEF MinuteView, Own
      <4> QED BY <2>5, <2>13, <3>2, <4>1, MatchesNone
    <3> QED BY <3>1, <3>2
  <2>19. \A y \in S : y.ts # x.ts
    BY <2>11, <2>14 DEF Own
  <2>20. Matches(c, S \cup {x}, b)
    BY <2>6, <2>13, <2>15, <2>17, <2>18, <2>19, AddToMatches
  <2>21. PICK w : w = With(minute, b, c)
    OBVIOUS
  <2>22. /\ DOMAIN w = DOMAIN minute \cup {b} /\ w[b] = c
         /\ \A d \in DOMAIN minute : d # b => w[d] = minute[d]
    BY <2>21 DEF With
  <2>23. ASSUME NEW d \in DOMAIN w
         PROVE  d \in Nat /\ Matches(w[d], Own(raw \cup {x}, d), d)
    <3>1. CASE d = b
      BY <2>13, <2>16, <2>20, <2>22, <3>1
    <3>2. CASE d # b
      <4>1. Own(raw \cup {x}, d) = Own(raw, d)
        BY <2>13, <3>2 DEF Own
      <4>2. d \in DOMAIN minute /\ w[d] = minute[d]
        BY <2>22, <3>2
      <4> QED BY <2>9, <4>1, <4>2 DEF MinuteView
    <3> QED BY <3>1, <3>2
  <2>24. \A y \in raw \cup {x} : Bucket(y.ts) \in DOMAIN w
    BY <2>9, <2>13, <2>22 DEF MinuteView
  <2>25. MinuteView(raw \cup {x}, w)
    BY <2>12, <2>23, <2>24 DEF MinuteView
  <2> QED BY <2>1, <2>8, <2>10, <2>21, <2>25
<1> QED BY <1>1, <1>2

\* One row more: the samples go on and the row's time is among them.
LEMMA WriteRowMinutes ==
    ASSUME NEW s, Shape(s), MinuteView(s.db.raw, s.db.minute), NEW row \in Row,
           NEW w, w = WriteRow(s, row)
    PROVE  /\ MinuteView(w.db.raw, w.db.minute) /\ s.db.raw \subseteq w.db.raw
           /\ \E x \in w.db.raw : x.ts = row.ts
<1>1. PICK x : /\ Shape(x) /\ SameSamples(s, x)
               /\ SameSamples(InsertSample(x, row), w)
  BY WriteRowStages
<1>2. PICK t : t = InsertSample(x, row)
  OBVIOUS
<1>3. MinuteView(x.db.raw, x.db.minute)
  BY <1>1 DEF SameSamples
<1>4. /\ MinuteView(t.db.raw, t.db.minute) /\ x.db.raw \subseteq t.db.raw
      /\ \E y \in t.db.raw : y.ts = row.ts
  BY <1>1, <1>2, <1>3, InsertSampleView
<1> QED BY <1>1, <1>2, <1>4 DEF SameSamples

\* Every logged row's time has a sample, and the aggregates are the samples'.
MinuteInv ==
    \A f \in Path :
        /\ MinuteView(db[f].raw, db[f].minute)
        /\ \A n \in DOMAIN log[f] : \E x \in db[f].raw : x.ts = log[f][n].row.ts

LEMMA MinuteBatch ==
    ASSUME Base, MinuteInv, WriteBatch
    PROVE  MinuteInv'
<1>1. /\ \A f \in Path \ {batchPath} : db'[f] = db[f] /\ log'[f] = log[f]
      /\ log'[batchPath] = log[batchPath] \o
            [n \in DOMAIN pending |-> [run |-> run, row |-> pending[n]]]
      /\ \E g, N : Advanced(g, N)
  BY WriteBatchIs
<1>2. PICK g, N : Advanced(g, N)
  BY <1>1
<1>3. /\ N = Len(pending) /\ N \in Nat /\ N > 0
      /\ g[0] = [db |-> db[batchPath], ses |-> Bound(batchPath)]
      /\ \A n \in 1 .. N : g[n] = WriteRow(g[n - 1], pending[n])
      /\ \A n \in 0 .. N : Shape(g[n])
      /\ db'[batchPath].raw = g[N].db.raw /\ db'[batchPath].minute = g[N].db.minute
  BY <1>2 DEF Advanced, Committed
<1>4. /\ pending \in Seq(Row) /\ batchPath \in Path
      /\ log[batchPath] \in Seq(Logged)
  BY DEF Base
<1>5. \A n \in 1 .. N : pending[n] \in Row
  BY <1>3, <1>4
<1> DEFINE Good(k) == /\ MinuteView(g[k].db.raw, g[k].db.minute)
                      /\ db[batchPath].raw \subseteq g[k].db.raw
                      /\ \A n \in 1 .. k : \E x \in g[k].db.raw : x.ts = pending[n].ts
           T == {k \in Nat : Good(k)}
<1>6. 0 \in T
  <2>1. g[0].db = db[batchPath]
    BY <1>3
  <2> QED BY <1>4, <2>1 DEF MinuteInv
<1>7. ASSUME NEW k \in Nat, k < N, k \in T PROVE k + 1 \in T
  <2>1. Good(k)
    BY <1>7
  <2>2. k \in 0 .. N /\ k + 1 \in 1 .. N /\ k + 1 - 1 = k
    BY <1>3, <1>7
  <2>3. g[k + 1] = WriteRow(g[k], pending[k + 1])
    BY <1>3, <2>2
  <2>4. Shape(g[k]) /\ pending[k + 1] \in Row
    BY <1>3, <1>5, <2>2
  <2>5. /\ MinuteView(g[k + 1].db.raw, g[k + 1].db.minute)
        /\ g[k].db.raw \subseteq g[k + 1].db.raw
        /\ \E x \in g[k + 1].db.raw : x.ts = pending[k + 1].ts
    BY <2>1, <2>3, <2>4, WriteRowMinutes
  <2>6. \A n \in 1 .. k + 1 : n \in 1 .. k \/ n = k + 1
    OBVIOUS
  <2> QED BY <2>1, <2>5, <2>6
<1>8. Good(N)
  <2> HIDE DEF Good
  <2>1. \A k \in Nat : k < N /\ k \in T => k + 1 \in T
    BY <1>7
  <2> HIDE DEF T
  <2>2. \A k \in 0 .. N : k \in T
    BY <1>3, <1>6, <2>1, UpTo
  <2>3. N \in T
    BY <1>3, <2>2
  <2> QED BY <2>3 DEF T
<1>9. ASSUME NEW n \in DOMAIN log'[batchPath]
      PROVE  \E x \in db'[batchPath].raw : x.ts = log'[batchPath][n].row.ts
  <2>1. Grown(log[batchPath], log'[batchPath], pending, run)
    BY LogGrows
  <2>2. CASE n \in 1 .. Len(log[batchPath])
    <3>1. log'[batchPath][n] = log[batchPath][n] /\ n \in DOMAIN log[batchPath]
      BY <2>1, <2>2 DEF Grown
    <3>2. \E x \in db[batchPath].raw : x.ts = log[batchPath][n].row.ts
      BY <1>4, <3>1 DEF MinuteInv
    <3> QED BY <1>3, <1>8, <3>1, <3>2
  <2>3. ASSUME NEW m \in 1 .. N, n = Len(log[batchPath]) + m
        PROVE  \E x \in db'[batchPath].raw : x.ts = log'[batchPath][n].row.ts
    <3>1. log'[batchPath][n].row = pending[m]
      BY <1>3, <2>1, <2>3 DEF Grown
    <3> QED BY <1>3, <1>8, <3>1
  <2> QED BY <1>3, <2>1, <2>2, <2>3 DEF Grown
<1>10. ASSUME NEW f \in Path
       PROVE  /\ MinuteView(db'[f].raw, db'[f].minute)
              /\ \A n \in DOMAIN log'[f] : \E x \in db'[f].raw : x.ts = log'[f][n].row.ts
  <2>1. CASE f = batchPath
    BY <1>3, <1>8, <1>9, <2>1
  <2>2. CASE f # batchPath
    BY <1>1, <2>2 DEF MinuteInv
  <2> QED BY <2>1, <2>2
<1> QED BY <1>10 DEF MinuteInv

LEMMA Unwritten ==
    ASSUME [Next]_vars, ~WriteBatch
    PROVE  UNCHANGED <<db, log>>
BY DEF Next, vars, Sample, WriteFails, Restart, SetBack

LEMMA MinuteInit == Init => MinuteInv
<1> SUFFICES ASSUME Init, NEW f \in Path
             PROVE  /\ MinuteView(db[f].raw, db[f].minute)
                    /\ \A n \in DOMAIN log[f] :
                           \E x \in db[f].raw : x.ts = log[f][n].row.ts
  BY DEF MinuteInv
<1>1. db[f] = EmptyTables /\ log[f] = <<>>
  BY DEF Init
<1>2. db[f].raw = {} /\ db[f].minute = <<>>
  BY <1>1 DEF EmptyTables
<1>3. Samples({})
  BY FS_EmptySet DEF Samples
<1>4. MinuteView({}, <<>>)
  BY <1>3 DEF MinuteView
<1> QED BY <1>1, <1>2, <1>4

LEMMA MinuteStep == Base /\ MinuteInv /\ [Next]_vars => MinuteInv'
<1> SUFFICES ASSUME Base, MinuteInv, [Next]_vars PROVE MinuteInv'
  OBVIOUS
<1>1. CASE WriteBatch
  BY <1>1, MinuteBatch
<1>2. CASE ~WriteBatch
  BY <1>2, Unwritten DEF MinuteInv
<1> QED BY <1>1, <1>2

Aggregate(a, S, b) ==
    /\ a.n = Cardinality(S)
    /\ a.count = Cardinality({y \in S : y.power # {}})
    /\ UNION {y.power : y \in S} # {} => /\ a.lo = {Min(UNION {y.power : y \in S})}
                                        /\ a.hi = {Max(UNION {y.power : y \in S})}
    /\ a.sum = SumOf(S, b)

LEMMA MinutesOfView ==
    ASSUME NEW raw, NEW minute, MinuteView(raw, minute), NEW x \in raw, NEW b,
           b = Bucket(x.ts), NEW S, S = Own(raw, b), NEW a, a = minute[b]
    PROVE  Aggregate(a, S, b)
<1>1. Matches(a, S, b)
  BY DEF MinuteView
<1> DEFINE P == UNION {y.power : y \in S}
<1>2. P \in SUBSET Int
  BY DEF MinuteView, Samples, Own
<1>3. ASSUME P # {} PROVE a.lo = {Min(P)} /\ a.hi = {Max(P)}
  <2>1. a.lo # {} /\ a.hi # {}
    BY <1>1, <1>3 DEF Matches
  <2>2. PICK lo : lo \in a.lo
    BY <2>1
  <2>3. PICK hi : hi \in a.hi
    BY <2>1
  <2>4. a.lo = {lo} /\ lo \in P /\ \A v \in P : lo <= v
    BY <1>1, <2>2 DEF Matches
  <2>5. a.hi = {hi} /\ hi \in P /\ \A v \in P : v <= hi
    BY <1>1, <2>3 DEF Matches
  <2> HIDE DEF P
  <2>6. Min(P) = lo /\ Max(P) = hi
    BY <1>2, <2>4, <2>5, MaxIs, MinIs
  <2> QED BY <2>4, <2>5, <2>6
<1> QED BY <1>1, <1>3 DEF Matches, Aggregate

LEMMA MinutesFromInv == Base /\ MinuteInv => MinutesMatchSamples
<1> SUFFICES ASSUME Base, MinuteInv, NEW f \in Path, NEW r \in Rows(f),
                    NEW b, b = Bucket(r.row.ts)
             PROVE  LET own == {x \in db[f].raw : Bucket(x.ts) = b}
                        powers == UNION {x.power : x \in own}
                        a == db[f].minute[b]
                    IN  /\ a.n = Cardinality(own)
                        /\ a.count = Cardinality({x \in own : x.power # {}})
                        /\ powers # {} => a.lo = {Min(powers)} /\ a.hi = {Max(powers)}
                        /\ a.sum = SumOf(own, b)
  BY DEF MinutesMatchSamples
<1>1. PICK raw : raw = db[f].raw
  OBVIOUS
<1>2. PICK minute : minute = db[f].minute
  OBVIOUS
<1>3. PICK x \in raw : x.ts = r.row.ts
  BY <1>1 DEF Rows, MinuteInv
<1>4. MinuteView(raw, minute) /\ b = Bucket(x.ts)
  BY <1>1, <1>2, <1>3 DEF MinuteInv
<1>5. PICK S : S = Own(raw, b)
  OBVIOUS
<1>6. PICK a : a = minute[b]
  OBVIOUS
<1>7. Aggregate(a, S, b)
  BY <1>3, <1>4, <1>5, <1>6, MinutesOfView
<1> QED BY <1>1, <1>2, <1>5, <1>6, <1>7 DEF Own, Aggregate

\* The minute aggregates are what the raw samples of their minute give, whatever was
\* rolled back and retried, repeated after the clock was set back, or written by two
\* processes into one bucket (_upsert_minute and insert_system_sample).
THEOREM MinutesMatchSamplesHolds == Spec => []MinutesMatchSamples
<1>1. Init => Base /\ MinuteInv
  BY BaseInit, MinuteInit
<1>2. Base /\ MinuteInv /\ [Next]_vars => Base' /\ MinuteInv'
  BY BaseStep, MinuteStep
<1> QED BY <1>1, <1>2, MinutesFromInv, PTL DEF Spec

(***************************************************************************)
(* The order of the rows                                                    *)
(***************************************************************************)

\* The batch goes on from the rows of the log: publishes never go back within a
\* process, times never before the clock was set back.
PendingOrder ==
    /\ \A n \in DOMAIN pending : pending[n].publish <= publish
    /\ stepped = {} => \A n \in DOMAIN pending : pending[n].ts <= clock
    /\ \A m, n \in DOMAIN pending : m < n =>
           /\ pending[m].publish <= pending[n].publish
           /\ stepped = {} => pending[m].ts < pending[n].ts

LoggedBefore(x) ==
    /\ x.run <= run
    /\ x.run = run => /\ x.row.publish <= publish
                      /\ \A n \in DOMAIN pending : x.row.publish <= pending[n].publish
    /\ stepped = {} => /\ x.row.ts <= clock
                       /\ \A n \in DOMAIN pending : x.row.ts < pending[n].ts

Order ==
    /\ PendingOrder
    /\ \A f \in Path : \A n \in DOMAIN log[f] : LoggedBefore(log[f][n])
    /\ stepped = {} => \A f \in Path : \A m, n \in DOMAIN log[f] :
           m < n => log[f][m].row.ts < log[f][n].row.ts

\* Which runs a file knows, and the session that is bound to it.
RunsInv ==
    \A f \in Path :
        /\ DOMAIN db[f].runs \subseteq 1 .. run
        /\ \A n \in DOMAIN log[f] : log[f][n].run \in DOMAIN db[f].runs
        /\ session.path = f /\ session.registered => run \in DOMAIN db[f].runs
        /\ session.path = f /\ ~session.registered /\ Steady(f) =>
               run \notin DOMAIN db[f].runs

LEMMA RowsTyped ==
    ASSUME Base
    PROVE  /\ \A n \in DOMAIN pending : pending[n] \in Row
           /\ \A f \in Path : \A n \in DOMAIN log[f] :
                  /\ log[f][n] \in Logged /\ log[f][n].row \in Row
                  /\ log[f][n].run \in 1 .. MaxRun
<1>1. pending \in Seq(Row) /\ log \in [Path -> Seq(Logged)]
  BY DEF Base
<1>2. \A n \in DOMAIN pending : pending[n] \in Row
  BY <1>1
<1>3. ASSUME NEW f \in Path, NEW n \in DOMAIN log[f]
      PROVE  /\ log[f][n] \in Logged /\ log[f][n].row \in Row
             /\ log[f][n].run \in 1 .. MaxRun
  <2>1. log[f] \in Seq(Logged)
    BY <1>1
  <2>2. log[f][n] \in Logged
    BY <2>1
  <2> QED BY <2>2 DEF Logged
<1> QED BY <1>2, <1>3

\* The next row is the last of the batch, later than the clock was.
Extended(row) ==
    /\ row \in Row /\ row.ts = clock' /\ row.publish = publish'
    /\ clock' \in Nat /\ clock' > clock /\ publish' \in Nat /\ publish' >= publish
    /\ Len(pending) \in Nat /\ DOMAIN pending = 1 .. Len(pending)
    /\ DOMAIN pending' = 1 .. Len(pending) + 1
    /\ pending'[Len(pending) + 1] = row
    /\ \A n \in 1 .. Len(pending) : pending'[n] = pending[n]
    /\ UNCHANGED <<run, session, db, log, stepped, rebound>>

LEMMA SampleIs ==
    ASSUME Base, Sample
    PROVE  \E row : Extended(row)
<1>1. PICK k \in Kind, d \in Steps :
         /\ clock + d <= MaxTime
         /\ clock' = clock + d
         /\ publish' = publish + k.publishes
         /\ pending' = Append(pending,
                [ts |-> clock', state |-> k.state, quality |-> k.quality,
                 power |-> k.power, config |-> k.config, units |-> k.units,
                 publish |-> publish'])
         /\ UNCHANGED <<run, session, db, log, stepped, rebound>>
  BY DEF Sample
<1>2. d \in Nat /\ d > 0 /\ k.publishes \in Nat
  <2>1. d \in Nat /\ d > 0
    BY GraphAssumption
  <2> QED BY <2>1, KindAssumption
<1>3. clock \in Nat /\ publish \in Nat /\ MaxTime \in Nat
  BY BaseNumbers
<1>4. /\ clock' \in 0 .. MaxTime /\ clock' > clock
      /\ publish' \in Nat /\ publish' >= publish
  BY <1>1, <1>2, <1>3
<1>5. PICK row : row = [ts |-> clock', state |-> k.state, quality |-> k.quality,
                        power |-> k.power, config |-> k.config, units |-> k.units,
                        publish |-> publish']
  OBVIOUS
<1>6. row \in Row /\ row.ts = clock' /\ row.publish = publish'
  BY ONLY <1>4, <1>5, k \in Kind DEF Row
<1>7. pending \in Seq(Row) /\ pending' = Append(pending, row)
  BY <1>1, <1>5 DEF Base
<1>8. /\ Len(pending) \in Nat /\ DOMAIN pending = 1 .. Len(pending)
      /\ DOMAIN pending' = 1 .. Len(pending) + 1
      /\ pending'[Len(pending) + 1] = row
      /\ \A n \in 1 .. Len(pending) : pending'[n] = pending[n]
  BY ONLY <1>6, <1>7
<1>9. Extended(row)
  BY <1>1, <1>3, <1>4, <1>6, <1>8 DEF Extended
<1> QED BY <1>9

LEMMA SetBackIs ==
    ASSUME Base, SetBack
    PROVE  /\ stepped' # {} /\ clock' \in Nat
           /\ UNCHANGED <<run, pending, publish, session, db, log, rebound>>
<1>1. PICK b \in SetBacks :
          /\ clock >= b /\ clock' = clock - b /\ stepped' = run .. MaxRun
          /\ UNCHANGED <<run, pending, batchPath, retrying, publish, session, db, log,
                         rebound>>
  BY DEF SetBack
<1>2. b \in Nat
  BY GraphAssumption
<1>3. run \in run .. MaxRun /\ clock' \in Nat
  BY <1>1, <1>2, BaseNumbers
<1> QED BY <1>1, <1>3

LEMMA OrderInit == Init => Order
<1> SUFFICES ASSUME Init PROVE Order
  OBVIOUS
<1>1. DOMAIN pending = {} /\ \A f \in Path : DOMAIN log[f] = {}
  <2>1. DOMAIN <<>> = {}
    OBVIOUS
  <2>2. pending = <<>> /\ \A f \in Path : log[f] = <<>>
    BY DEF Init
  <2> QED BY <2>1, <2>2
<1> QED BY <1>1 DEF Order, PendingOrder

LEMMA OrderSample ==
    ASSUME Base, Order, Sample
    PROVE  Order'
<1>1. PICK row : Extended(row)
  BY SampleIs
<1>2. PICK N \in Nat : /\ DOMAIN pending = 1 .. N /\ DOMAIN pending' = 1 .. N + 1
                       /\ pending'[N + 1] = row
                       /\ \A n \in 1 .. N : pending'[n] = pending[n]
  BY <1>1 DEF Extended
<1>3. /\ row.ts = clock' /\ row.publish = publish' /\ clock' \in Nat /\ clock' > clock
      /\ publish' \in Nat /\ publish' >= publish
      /\ run' = run /\ log' = log /\ stepped' = stepped
  BY <1>1 DEF Extended
<1>4. clock \in Nat /\ publish \in Nat
  BY BaseNumbers
<1>5. \A n \in 1 .. N : pending[n].ts \in Nat /\ pending[n].publish \in Nat
  BY <1>2, RowsTyped, RowFields
<1>6. \A n \in 1 .. N : /\ pending[n].publish <= publish
                        /\ stepped = {} => pending[n].ts <= clock
  BY <1>2 DEF Order, PendingOrder
<1>7. \A n \in 1 .. N + 1 : n \in 1 .. N \/ n = N + 1
  OBVIOUS
<1>8. PendingOrder'
  <2>1. ASSUME NEW n \in 1 .. N + 1
        PROVE  /\ pending'[n].publish <= publish'
               /\ stepped = {} => pending'[n].ts <= clock'
    <3>1. CASE n \in 1 .. N
      BY <1>2, <1>3, <1>4, <1>5, <1>6, <3>1
    <3>2. CASE n = N + 1
      BY <1>2, <1>3, <3>2
    <3> QED BY <1>7, <3>1, <3>2
  <2>2. ASSUME NEW m \in 1 .. N + 1, NEW n \in 1 .. N + 1, m < n
        PROVE  /\ pending'[m].publish <= pending'[n].publish
               /\ stepped = {} => pending'[m].ts < pending'[n].ts
    <3>1. CASE n \in 1 .. N
      BY <1>2, <2>2, <3>1 DEF Order, PendingOrder
    <3>2. CASE n = N + 1
      <4>1. m \in 1 .. N
        BY <2>2, <3>2
      <4>2. /\ pending'[m] = pending[m] /\ pending'[n] = row
            /\ pending[m].ts \in Nat /\ pending[m].publish \in Nat
            /\ pending[m].publish <= publish
            /\ stepped = {} => pending[m].ts <= clock
        BY <1>2, <1>5, <1>6, <3>2, <4>1
      <4> QED BY <1>3, <1>4, <4>2
    <3> QED BY <1>7, <3>1, <3>2
  <2> QED BY <1>2, <1>3, <2>1, <2>2 DEF PendingOrder
<1>9. ASSUME NEW f \in Path, NEW j \in DOMAIN log[f] PROVE LoggedBefore(log[f][j])'
  <2>1. PICK x \in Logged : x = log[f][j]
    BY RowsTyped
  <2>2. LoggedBefore(x)
    BY <2>1 DEF Order
  <2>3. x.row.ts \in Nat /\ x.row.publish \in Nat
    BY RowFields DEF Logged
  <2>4. x.run = run => /\ x.row.publish <= publish'
                       /\ \A n \in 1 .. N + 1 : x.row.publish <= pending'[n].publish
    BY <1>2, <1>3, <1>4, <1>7, <2>2, <2>3 DEF LoggedBefore
  <2>5. stepped = {} => /\ x.row.ts <= clock'
                        /\ \A n \in 1 .. N + 1 : x.row.ts < pending'[n].ts
    BY <1>2, <1>3, <1>4, <1>7, <2>2, <2>3 DEF LoggedBefore
  <2>6. x.run <= run
    BY <2>2 DEF LoggedBefore
  <2> QED BY <1>2, <1>3, <2>1, <2>4, <2>5, <2>6 DEF LoggedBefore
<1> QED BY <1>3, <1>8, <1>9 DEF Order

LEMMA OrderBatch ==
    ASSUME Base, Order, WriteBatch
    PROVE  Order'
<1>1. /\ UNCHANGED <<clock, run, publish, stepped>> /\ pending' = <<>>
      /\ batchPath \in Path
  BY DEF WriteBatch, Base
<1>2. DOMAIN pending' = {}
  BY <1>1
<1>3. Grown(log[batchPath], log'[batchPath], pending, run)
  BY LogGrows
<1>4. \A f \in Path \ {batchPath} : log'[f] = log[f]
  BY WriteBatchIs
<1>5. run \in Nat /\ clock \in Nat
  BY BaseNumbers
<1>6. ASSUME NEW f \in Path, NEW n \in DOMAIN log'[f], NEW x, x = log'[f][n]
      PROVE  LoggedBefore(x)'
  <2>1. CASE f # batchPath \/ n \in 1 .. Len(log[f])
    <3>1. n \in DOMAIN log[f] /\ log'[f][n] = log[f][n]
      BY <1>3, <1>4, <1>6, <2>1 DEF Grown
    <3>2. LoggedBefore(log[f][n])
      BY <3>1 DEF Order
    <3>3. LoggedBefore(x)
      BY <1>6, <3>1, <3>2
    <3> QED BY <1>1, <1>2, <3>3 DEF LoggedBefore
  <2>2. ASSUME NEW m \in 1 .. Len(pending), f = batchPath, n = Len(log[f]) + m
        PROVE  LoggedBefore(x)'
    <3>2. x.row = pending[m] /\ x.run = run /\ m \in DOMAIN pending
      BY <1>3, <1>6, <2>2 DEF Grown
    <3>3. pending[m].publish <= publish /\ (stepped = {} => pending[m].ts <= clock)
      BY <3>2 DEF Order, PendingOrder
    <3> QED BY <1>1, <1>2, <1>5, <3>2, <3>3 DEF LoggedBefore
  <2> QED BY <1>3, <1>6, <2>1, <2>2 DEF Grown
<1>7. ASSUME stepped = {}, NEW f \in Path, NEW m \in DOMAIN log'[f],
             NEW n \in DOMAIN log'[f], m < n
      PROVE  log'[f][m].row.ts < log'[f][n].row.ts
  <2>1. CASE f # batchPath
    BY <1>4, <1>7, <2>1 DEF Order
  <2>2. CASE f = batchPath
    <3>1. CASE n \in 1 .. Len(log[f])
      <4>1. m \in 1 .. Len(log[f])
        BY <1>3, <1>7, <2>2, <3>1 DEF Grown
      <4>2. /\ m \in DOMAIN log[f] /\ n \in DOMAIN log[f]
            /\ log'[f][m] = log[f][m] /\ log'[f][n] = log[f][n]
        BY <1>3, <2>2, <3>1, <4>1 DEF Grown
      <4> QED BY <1>7, <4>2 DEF Order
    <3>2. ASSUME NEW k \in 1 .. Len(pending), n = Len(log[f]) + k
          PROVE  log'[f][m].row.ts < log'[f][n].row.ts
      <4>1. log'[f][n].row = pending[k] /\ k \in DOMAIN pending
        BY <1>3, <2>2, <3>2 DEF Grown
      <4>2. CASE m \in 1 .. Len(log[f])
        <5>1. m \in DOMAIN log[f] /\ log'[f][m] = log[f][m]
          BY <1>3, <2>2, <4>2 DEF Grown
        <5> QED BY <1>7, <4>1, <5>1 DEF Order, LoggedBefore
      <4>3. ASSUME NEW j \in 1 .. Len(pending), m = Len(log[f]) + j
            PROVE  log'[f][m].row.ts < log'[f][n].row.ts
        <5>1. log'[f][m].row = pending[j] /\ j \in DOMAIN pending
          BY <1>3, <2>2, <4>3 DEF Grown
        <5>2. j < k
          BY <1>3, <1>7, <2>2, <3>2, <4>3 DEF Grown
        <5> QED BY <1>7, <4>1, <5>1, <5>2 DEF Order, PendingOrder
      <4> QED BY <1>3, <1>7, <2>2, <4>2, <4>3 DEF Grown
    <3> QED BY <1>3, <1>7, <2>2, <3>1, <3>2 DEF Grown
  <2> QED BY <2>1, <2>2
<1> QED BY <1>1, <1>2, <1>6, <1>7 DEF Order, PendingOrder

LEMMA OrderStep == Base /\ Order /\ [Next]_vars => Order'
<1> SUFFICES ASSUME Base, Order, [Next]_vars PROVE Order'
  OBVIOUS
<1>1. CASE Sample
  BY <1>1, OrderSample
<1>2. CASE WriteBatch
  BY <1>2, OrderBatch
<1>3. CASE WriteFails
  BY <1>3 DEF WriteFails, Order, PendingOrder, LoggedBefore
<1>4. CASE Restart
  <2>1. /\ run' = run + 1 /\ pending' = <<>> /\ UNCHANGED <<clock, log, stepped>>
    BY <1>4 DEF Restart
  <2>2. DOMAIN pending' = {}
    BY <2>1
  <2>3. ASSUME NEW f \in Path, NEW n \in DOMAIN log[f] PROVE LoggedBefore(log[f][n])'
    <3>1. PICK x : x = log[f][n]
      OBVIOUS
    <3>2. LoggedBefore(x) /\ x.run \in Nat
      BY <3>1, RowsTyped DEF Order
    <3>3. run \in Nat
      BY BaseNumbers
    <3> QED BY <2>1, <2>2, <3>1, <3>2, <3>3 DEF LoggedBefore
  <2> QED BY <2>1, <2>2, <2>3 DEF Order, PendingOrder
<1>5. CASE SetBack
  BY <1>5, SetBackIs DEF Order, PendingOrder, LoggedBefore
<1>6. CASE UNCHANGED vars
  BY <1>6 DEF vars, Order, PendingOrder, LoggedBefore
<1> QED BY <1>1, <1>2, <1>3, <1>4, <1>5, <1>6 DEF Next

LEMMA EnsureRunRuns ==
    ASSUME NEW s, Shape(s), NEW row, NEW t, t = EnsureRun(s, row)
    PROVE  /\ t.ses.registered
           /\ s.ses.registered => t.db.runs = s.db.runs
           /\ ~s.ses.registered =>
                  t.db.runs = IF run \in DOMAIN s.db.runs THEN s.db.runs
                              ELSE With(s.db.runs, run, Open)
BY DEF EnsureRun, Shape, Tables, Memory

\* The run is registered with the first row, and no other run is touched.
RunsKept(old, new) ==
    /\ DOMAIN new = DOMAIN old \cup {run}
    /\ \A r \in DOMAIN old : new[r] = old[r]

LEMMA WriteRowRuns ==
    ASSUME NEW s, Shape(s), NEW row, NEW w, w = WriteRow(s, row),
           s.ses.registered => run \in DOMAIN s.db.runs
    PROVE  w.ses.registered /\ RunsKept(s.db.runs, w.db.runs)
<1>1. SameRuns(EnsureRun(s, row), w)
  BY WriteRowStages
<1>2. PICK t : t = EnsureRun(s, row)
  OBVIOUS
<1>3. /\ t.ses.registered
      /\ s.ses.registered => t.db.runs = s.db.runs
      /\ ~s.ses.registered => t.db.runs = IF run \in DOMAIN s.db.runs THEN s.db.runs
                                          ELSE With(s.db.runs, run, Open)
  BY <1>2, EnsureRunRuns
<1>4. w.db.runs = t.db.runs /\ w.ses.registered
  BY <1>1, <1>2, <1>3 DEF SameRuns
<1>5. RunsKept(s.db.runs, t.db.runs)
  <2>1. PICK old : old = s.db.runs
    OBVIOUS
  <2>2. CASE t.db.runs = old /\ run \in DOMAIN old
    BY <2>1, <2>2 DEF RunsKept
  <2>3. CASE t.db.runs = With(old, run, Open) /\ run \notin DOMAIN old
    BY <2>1, <2>3 DEF RunsKept, With
  <2> QED BY <1>3, <2>1, <2>2, <2>3
<1> QED BY <1>4, <1>5

LEMMA RunsFold ==
    ASSUME Base, RunsInv, NEW g, NEW N, Advanced(g, N)
    PROVE  \A k \in 1 .. N : /\ g[k].ses.registered
                             /\ RunsKept(db[batchPath].runs, g[k].db.runs)
<1>1. /\ N \in Nat /\ N > 0
      /\ g[0] = [db |-> db[batchPath], ses |-> Bound(batchPath)]
      /\ \A n \in 1 .. N : g[n] = WriteRow(g[n - 1], pending[n])
      /\ \A n \in 0 .. N : Shape(g[n])
  BY DEF Advanced
<1> DEFINE old == db[batchPath].runs
           Good(k) == /\ g[k].ses.registered => run \in DOMAIN g[k].db.runs
                      /\ k > 0 => g[k].ses.registered /\ RunsKept(old, g[k].db.runs)
           T == {k \in Nat : Good(k)}
<1>2. 0 \in T
  <2>1. g[0].db = db[batchPath] /\ g[0].ses = Bound(batchPath)
    BY <1>1
  <2>2. CASE session.path = batchPath
    <3>1. Bound(batchPath) = session /\ batchPath \in Path
      BY <2>2 DEF Bound, Base
    <3> QED BY <2>1, <2>2, <3>1 DEF RunsInv
  <2>3. CASE session.path # batchPath
    <3>1. ~Bound(batchPath).registered
      BY <2>3 DEF Bound, NewSession
    <3> QED BY <2>1, <3>1
  <2> QED BY <2>2, <2>3
<1>3. ASSUME NEW k \in Nat, k < N, k \in T PROVE k + 1 \in T
  <2>1. g[k + 1] = WriteRow(g[k], pending[k + 1]) /\ Shape(g[k])
    BY <1>1, <1>3
  <2>2. Good(k)
    BY <1>3
  <2>3. g[k + 1].ses.registered /\ RunsKept(g[k].db.runs, g[k + 1].db.runs)
    BY <2>1, <2>2, WriteRowRuns
  <2>4. k = 0 => g[k].db.runs = old
    BY <1>1
  <2>5. RunsKept(old, g[k + 1].db.runs)
    BY <2>2, <2>3, <2>4 DEF RunsKept
  <2> QED BY <2>3, <2>5 DEF RunsKept
<1>4. \A k \in 0 .. N : k \in T
  <2> HIDE DEF T
  <2> QED BY <1>1, <1>2, <1>3, UpTo
<1> QED BY <1>4

LEMMA BatchRuns ==
    ASSUME Base, RunsInv, WriteBatch
    PROVE  /\ session'.path = batchPath /\ session'.registered
           /\ DOMAIN db'[batchPath].runs = DOMAIN db[batchPath].runs \cup {run}
           /\ db'[batchPath].runs[run] = pending[Len(pending)].ts
           /\ \A r \in DOMAIN db[batchPath].runs \ {run} :
                  db'[batchPath].runs[r] = db[batchPath].runs[r]
<1>1. PICK g, N : Advanced(g, N)
  BY WriteBatchIs
<1>2. /\ N = Len(pending) /\ N \in Nat /\ N > 0 /\ g[N].ses.last_ts = pending[N].ts
      /\ db'[batchPath].runs = [g[N].db.runs EXCEPT ![run] = g[N].ses.last_ts]
      /\ Bound(batchPath)' = g[N].ses
  BY <1>1 DEF Advanced, Committed
<1>3. g[N].ses.registered /\ RunsKept(db[batchPath].runs, g[N].db.runs)
  BY <1>1, <1>2, RunsFold
<1>4. session'.path = batchPath /\ batchPath' = batchPath
  BY WriteBatchIs DEF WriteBatch
<1>5. session' = g[N].ses
  BY <1>2, <1>4 DEF Bound
<1> QED BY <1>2, <1>3, <1>4, <1>5 DEF RunsKept

\* A file that is bound anew and was not left before has none of the run's rows.
LEMMA SteadyBatch ==
    ASSUME Base, RunsInv, WriteBatch \/ WriteFails, NEW f \in Path, Steady(f)'
    PROVE  /\ Steady(f)
           /\ f = batchPath /\ session.path # f => run \notin DOMAIN db[f].runs
<1>1. stepped' = stepped /\ rebound \subseteq rebound'
  BY DEF WriteBatch, WriteFails
<1>2. Steady(f)
  BY <1>1 DEF Steady
<1>3. run \in 1 .. MaxRun
  BY DEF Base
<1>4. ASSUME f = batchPath, session.path # f, run \in DOMAIN db[f].runs PROVE FALSE
  <2>1. <<f, run>> \in rebound'
    BY <1>4 DEF WriteBatch, WriteFails
  <2> QED BY <1>3, <2>1 DEF Steady
<1> QED BY <1>2, <1>4

LEMMA SteadyStep ==
    ASSUME Base, [Next]_vars, NEW f \in Path, Steady(f)'
    PROVE  Steady(f)
<1>1. rebound \subseteq rebound' /\ (stepped' = stepped \/ stepped' # {})
  BY SetBackIs DEF Next, vars, Sample, WriteBatch, WriteFails, Restart
<1> QED BY <1>1 DEF Steady

\* A database that has just been created.
LEMMA NothingIn ==
    /\ EmptyTables.raw = {} /\ EmptyTables.minute = <<>> /\ EmptyTables.runs = <<>>
    /\ EmptyTables.intervals = <<>> /\ EmptyTables.events = <<>>
    /\ EmptyTables.topology = <<>> /\ EmptyTables.timeline = <<>>
    /\ EmptyTables.highres = {} /\ EmptyTables.permin = {}
BY DEF EmptyTables

LEMMA RunsInit == Init => RunsInv
<1> SUFFICES ASSUME Init, NEW f \in Path
             PROVE  /\ DOMAIN db[f].runs = {} /\ DOMAIN log[f] = {} /\ session.path # f
  BY DEF RunsInv
<1>1. db[f] = EmptyTables /\ log[f] = <<>> /\ session = NewSession("")
  BY DEF Init
<1>2. db[f].runs = <<>> /\ session.path = ""
  <2>1. db[f].runs = <<>>
    <3>1. db[f] = EmptyTables
      BY <1>1
    <3> QED BY <3>1, NothingIn
  <2>2. session.path = ""
    BY <1>1 DEF NewSession
  <2> QED BY <2>1, <2>2
<1>3. DOMAIN <<>> = {}
  OBVIOUS
<1> QED BY <1>1, <1>2, <1>3, PathAssumption

LEMMA RunsBatch ==
    ASSUME Base, RunsInv, WriteBatch
    PROVE  RunsInv'
<1>1. /\ \A f \in Path \ {batchPath} : db'[f] = db[f] /\ log'[f] = log[f]
      /\ session'.path = batchPath /\ session'.registered
      /\ DOMAIN db'[batchPath].runs = DOMAIN db[batchPath].runs \cup {run}
      /\ run' = run
  BY WriteBatchIs, BatchRuns DEF WriteBatch
<1>2. Grown(log[batchPath], log'[batchPath], pending, run)
  BY LogGrows
<1>3. run \in 1 .. run
  BY BaseNumbers
<1>4. ASSUME NEW n \in DOMAIN log'[batchPath], batchPath \in Path
      PROVE  log'[batchPath][n].run \in DOMAIN db'[batchPath].runs
  <2>1. CASE n \in 1 .. Len(log[batchPath])
    <3>1. n \in DOMAIN log[batchPath] /\ log'[batchPath][n] = log[batchPath][n]
      BY <1>2, <2>1 DEF Grown
    <3>2. log[batchPath][n].run \in DOMAIN db[batchPath].runs
      BY <1>4, <3>1 DEF RunsInv
    <3> QED BY <1>1, <3>1, <3>2
  <2>2. ASSUME NEW m \in 1 .. Len(pending), n = Len(log[batchPath]) + m
        PROVE  log'[batchPath][n].run = run
    BY <1>2, <2>2 DEF Grown
  <2> QED BY <1>1, <1>2, <1>4, <2>1, <2>2 DEF Grown
<1>5. batchPath \in Path
  BY DEF Base
<1>6. ASSUME NEW f \in Path
      PROVE  /\ DOMAIN db'[f].runs \subseteq 1 .. run'
             /\ \A n \in DOMAIN log'[f] : log'[f][n].run \in DOMAIN db'[f].runs
             /\ session'.path = f /\ session'.registered => run' \in DOMAIN db'[f].runs
             /\ session'.path = f /\ ~session'.registered => FALSE
  <2>1. CASE f = batchPath
    BY <1>1, <1>3, <1>4, <1>5, <2>1 DEF RunsInv
  <2>2. CASE f # batchPath
    BY <1>1, <2>2 DEF RunsInv
  <2> QED BY <2>1, <2>2
<1> QED BY <1>6 DEF RunsInv

LEMMA RunsStep == Base /\ RunsInv /\ [Next]_vars => RunsInv'
<1> SUFFICES ASSUME Base, RunsInv, [Next]_vars PROVE RunsInv'
  OBVIOUS
<1>1. CASE Sample
  BY <1>1 DEF Sample, RunsInv, Steady
<1>2. CASE WriteBatch
  BY <1>2, RunsBatch
<1>3. CASE WriteFails
  <2>1. /\ UNCHANGED <<run, db, log>> /\ session' = Bound(batchPath)
        /\ session'.path = batchPath /\ batchPath \in Path
    BY <1>3, WriteFailsIs DEF WriteFails, AfterRollback, Base
  <2>2. CASE session.path = batchPath
    <3>1. session' = session
      BY <2>1, <2>2 DEF Bound
    <3> QED BY <1>3, <2>1, <3>1, SteadyBatch DEF RunsInv
  <2>3. CASE session.path # batchPath
    <3>1. ~session'.registered
      BY <2>1, <2>3 DEF Bound, NewSession
    <3> QED BY <1>3, <2>1, <2>3, <3>1, SteadyBatch DEF RunsInv
  <2> QED BY <2>2, <2>3
<1>4. CASE Restart
  <2>1. run' = run + 1 /\ UNCHANGED <<db, log>> /\ session'.path = ""
    BY <1>4, RestartIs DEF Restart
  <2>2. 1 .. run \subseteq 1 .. run'
    <3>1. run \in Nat /\ run' = run + 1
      BY <2>1, BaseNumbers
    <3> QED BY ONLY <3>1
  <2>3. "" \notin Path
    BY PathAssumption
  <2> QED BY <2>1, <2>2, <2>3 DEF RunsInv
<1>5. CASE SetBack
  BY <1>5, SetBackIs DEF RunsInv, Steady
<1>6. CASE UNCHANGED vars
  BY <1>6 DEF vars, RunsInv, Steady
<1> QED BY <1>1, <1>2, <1>3, <1>4, <1>5, <1>6 DEF Next

(***************************************************************************)
(* The publish events                                                       *)
(***************************************************************************)

Event == [run : 1 .. MaxRun, id : Nat]

\* The events are the publishes in P, each once.
EventsAre(events, P) ==
    /\ events \in Seq(Event) /\ P \in SUBSET Event
    /\ \A m, n \in 1 .. Len(events) : events[m] = events[n] => m = n
    /\ \A n \in 1 .. Len(events) : events[n] \in P
    /\ \A p \in P : p.id > 0 => \E n \in 1 .. Len(events) : events[n] = p

\* The memory is the last publish of the process, and no later one is in P.
LastOf(last, P, r) ==
    /\ last \in Nat /\ (last > 0 => [run |-> r, id |-> last] \in P)
    /\ \A p \in P : p.run = r => p.id <= last

LEMMA AppendEvent ==
    ASSUME NEW events, NEW P, EventsAre(events, P), NEW e \in Event, e \notin P,
           NEW new, new = Append(events, e)
    PROVE  EventsAre(new, P \cup {e})
<1>1. /\ events \in Seq(Event) /\ P \in SUBSET Event
      /\ \A m, n \in 1 .. Len(events) : events[m] = events[n] => m = n
      /\ \A n \in 1 .. Len(events) : events[n] \in P
      /\ \A p \in P : p.id > 0 => \E n \in 1 .. Len(events) : events[n] = p
  BY DEF EventsAre
<1>2. PICK N \in Nat : N = Len(events)
  BY <1>1
<1>3. /\ new \in Seq(Event) /\ Len(new) = N + 1 /\ new[N + 1] = e
      /\ \A n \in 1 .. N : new[n] = events[n]
  BY <1>1, <1>2
<1>4. \A n \in 1 .. N + 1 : n \in 1 .. N \/ n = N + 1
  OBVIOUS
<1>5. \A n \in 1 .. N : new[n] \in P
  BY <1>1, <1>2, <1>3
<1>6. \A m, n \in 1 .. N + 1 : new[m] = new[n] => m = n
  BY <1>1, <1>2, <1>3, <1>4, <1>5
<1>7. \A n \in 1 .. N + 1 : new[n] \in P \cup {e}
  BY <1>3, <1>4, <1>5
<1>8. N + 1 \in 1 .. N + 1 /\ \A n \in 1 .. N : n \in 1 .. N + 1
  OBVIOUS
<1>9. ASSUME NEW p \in P \cup {e}, p.id > 0 PROVE \E n \in 1 .. N + 1 : new[n] = p
  <2>1. CASE p \in P
    <3>1. PICK n \in 1 .. N : events[n] = p
      BY <1>1, <1>2, <1>9, <2>1
    <3> QED BY <1>3, <1>8, <3>1
  <2>2. CASE p = e
    BY <1>3, <1>8, <2>2
  <2> QED BY <2>1, <2>2
<1> QED BY <1>1, <1>3, <1>6, <1>7, <1>9 DEF EventsAre

LEMMA RepeatedEvent ==
    ASSUME NEW events, NEW P, EventsAre(events, P), NEW e \in Event,
           e \in P \/ e.id = 0
    PROVE  EventsAre(events, P \cup {e})
<1>1. /\ events \in Seq(Event) /\ P \in SUBSET Event
      /\ \A m, n \in 1 .. Len(events) : events[m] = events[n] => m = n
      /\ \A n \in 1 .. Len(events) : events[n] \in P
      /\ \A p \in P : p.id > 0 => \E n \in 1 .. Len(events) : events[n] = p
  BY DEF EventsAre
<1>2. \A p \in P \cup {e} : p.id > 0 => \E n \in 1 .. Len(events) : events[n] = p
  BY <1>1
<1>3. P \cup {e} \in SUBSET Event
  BY <1>1
<1>4. \A n \in 1 .. Len(events) : events[n] \in P \cup {e}
  BY <1>1
<1> QED BY <1>1, <1>2, <1>3, <1>4 DEF EventsAre

\* A row that reports no earlier publish than the last one.
LEMMA ObserveCommandsView ==
    ASSUME NEW s, Shape(s), NEW P, EventsAre(s.db.events, P),
           LastOf(s.ses.last_publish, P, run), NEW row, row.publish \in Nat,
           run \in 1 .. MaxRun, \A p \in P : p.run = run => p.id <= row.publish,
           NEW t, t = ObserveCommands(s, row),
           NEW Q, Q = P \cup {[run |-> run, id |-> row.publish]}
    PROVE  EventsAre(t.db.events, Q) /\ LastOf(t.ses.last_publish, Q, run)
<1>1. PICK e : e = [run |-> run, id |-> row.publish]
  OBVIOUS
<1>2. PICK last : last = s.ses.last_publish
  OBVIOUS
<1>3. e \in Event /\ e.run = run /\ e.id = row.publish
  BY <1>1 DEF Event
<1>4. /\ last \in Nat /\ (last > 0 => [run |-> run, id |-> last] \in P)
      /\ \A p \in P : p.run = run => p.id <= last
  BY <1>2 DEF LastOf
<1>5. last <= row.publish
  BY <1>4
<1>6. \A p \in P : p.id \in Nat
  BY DEF EventsAre, Event
<1>7. CASE NothingNew(s, row)
  <2>1. t = s /\ (row.publish = 0 \/ row.publish = last)
    BY <1>2, <1>7 DEF ObserveCommands, NothingNew
  <2>2. row.publish = last
    BY <1>4, <1>5, <2>1
  <2>3. e \in P \/ e.id = 0
    BY <1>1, <1>3, <1>4, <2>2
  <2>4. EventsAre(s.db.events, P \cup {e})
    BY <1>3, <2>3, RepeatedEvent
  <2>5. LastOf(last, P \cup {e}, run)
    BY <1>3, <1>4, <2>2 DEF LastOf
  <2> QED BY <1>1, <1>2, <2>1, <2>4, <2>5
<1>8. CASE ~NothingNew(s, row)
  <2>1. row.publish # 0 /\ row.publish # last
    BY <1>2, <1>8 DEF NothingNew
  <2>2. /\ t.db.events = Append(s.db.events, e)
        /\ t.ses.last_publish = row.publish
    BY <1>1, <1>8 DEF ObserveCommands, Shape, Tables, Memory
  <2>3. row.publish > last
    BY <1>4, <1>5, <2>1
  <2>4. e \notin P
    BY <1>3, <1>4, <2>3
  <2>5. EventsAre(t.db.events, P \cup {e})
    BY <1>3, <2>2, <2>4, AppendEvent
  <2>6. LastOf(row.publish, P \cup {e}, run)
    BY <1>1, <1>3 DEF LastOf
  <2> QED BY <1>1, <2>2, <2>5, <2>6
<1> QED BY <1>7, <1>8

LEMMA WriteRowEvents ==
    ASSUME NEW s, Shape(s), NEW P, EventsAre(s.db.events, P),
           LastOf(s.ses.last_publish, P, run), NEW row, row.publish \in Nat,
           run \in 1 .. MaxRun, \A p \in P : p.run = run => p.id <= row.publish,
           NEW w, w = WriteRow(s, row),
           NEW Q, Q = P \cup {[run |-> run, id |-> row.publish]}
    PROVE  EventsAre(w.db.events, Q) /\ LastOf(w.ses.last_publish, Q, run)
<1>1. PICK x : /\ Shape(x) /\ SameEvents(s, x)
               /\ SameEvents(ObserveCommands(x, row), w)
  BY WriteRowStages
<1>2. PICK t : t = ObserveCommands(x, row)
  OBVIOUS
<1>3. EventsAre(x.db.events, P) /\ LastOf(x.ses.last_publish, P, run)
  BY <1>1 DEF SameEvents
<1>4. EventsAre(t.db.events, Q) /\ LastOf(t.ses.last_publish, Q, run)
  BY <1>1, <1>2, <1>3, ObserveCommandsView
<1> QED BY <1>1, <1>2, <1>4 DEF SameEvents

\* The publishes of the file's committed rows.
Published(f) == {[run |-> x.run, id |-> x.row.publish] : x \in Rows(f)}

EventsInv ==
    \A f \in Path : Steady(f) =>
        /\ EventsAre(db[f].events, Published(f))
        /\ session.path = f => LastOf(session.last_publish, Published(f), run)

LEMMA BatchIs ==
    ASSUME Base
    PROVE  /\ batchPath \in Path /\ run \in 1 .. MaxRun
           /\ Len(pending) \in Nat /\ DOMAIN pending = 1 .. Len(pending)
           /\ \A n \in DOMAIN pending : pending[n] \in Row
<1>1. pending \in Seq(Row)
  BY DEF Base
<1>2. Len(pending) \in Nat /\ DOMAIN pending = 1 .. Len(pending)
  BY ONLY <1>1
<1> QED BY <1>2, RowsTyped DEF Base

LEMMA PublishedGrows ==
    ASSUME Base, WriteBatch
    PROVE  Published(batchPath)' = Published(batchPath) \cup
               {[run |-> run, id |-> pending[n].publish] : n \in 1 .. Len(pending)}
<1>1. Grown(log[batchPath], log'[batchPath], pending, run)
  BY LogGrows
<1>2. batchPath' = batchPath
  BY DEF WriteBatch
<1>3. PICK old : old = log[batchPath]
  OBVIOUS
<1>4. PICK new : new = log'[batchPath]
  OBVIOUS
<1>5. Published(batchPath) = {[run |-> old[n].run, id |-> old[n].row.publish] :
                                  n \in DOMAIN old}
  BY <1>3 DEF Published, Rows
<1>6. Published(batchPath)' = {[run |-> new[n].run, id |-> new[n].row.publish] :
                                   n \in DOMAIN new}
  BY <1>2, <1>4 DEF Published, Rows
<1>7. Grown(old, new, pending, run)
  BY <1>1, <1>3, <1>4
<1>8. ASSUME NEW n \in DOMAIN old
      PROVE  n \in DOMAIN new /\ new[n] = old[n]
  BY <1>7, <1>8 DEF Grown
<1>9. ASSUME NEW m \in 1 .. Len(pending)
      PROVE  \E n \in DOMAIN new : new[n].run = run /\ new[n].row = pending[m]
  <2>1. Len(old) + m \in DOMAIN new
    BY <1>7, <1>9 DEF Grown
  <2> QED BY <1>7, <1>9, <2>1 DEF Grown
<1>10. ASSUME NEW n \in DOMAIN new
       PROVE  \/ n \in DOMAIN old /\ new[n] = old[n]
              \/ \E m \in 1 .. Len(pending) : new[n].run = run /\ new[n].row = pending[m]
  BY <1>7, <1>10 DEF Grown
<1> HIDE <1>1, <1>2, <1>3, <1>4, <1>7
<1> QED BY <1>5, <1>6, <1>8, <1>9, <1>10

LEMMA EventsBatch ==
    ASSUME Base, Order, RunsInv, EventsInv, WriteBatch, Steady(batchPath)'
    PROVE  /\ EventsAre(db'[batchPath].events, Published(batchPath)')
           /\ LastOf(session'.last_publish, Published(batchPath)', run)
<1>1. PICK g, N : Advanced(g, N)
  BY WriteBatchIs
<1>2. /\ N = Len(pending) /\ N \in Nat /\ N > 0
      /\ g[0] = [db |-> db[batchPath], ses |-> Bound(batchPath)]
      /\ \A n \in 1 .. N : g[n] = WriteRow(g[n - 1], pending[n])
      /\ \A n \in 0 .. N : Shape(g[n])
      /\ db'[batchPath].events = g[N].db.events /\ Bound(batchPath)' = g[N].ses
  BY <1>1 DEF Advanced, Committed
<1>3. /\ batchPath \in Path /\ run \in 1 .. MaxRun /\ DOMAIN pending = 1 .. N
  BY <1>2, BatchIs
<1>4. Steady(batchPath) /\ (session.path # batchPath => run \notin DOMAIN db[batchPath].runs)
  <2>1. PICK f \in Path : f = batchPath
    BY <1>3
  <2>2. batchPath' = batchPath
    BY DEF WriteBatch
  <2> QED BY <2>1, <2>2, SteadyBatch DEF Steady
<1>5. PICK P0 : P0 = Published(batchPath)
  OBVIOUS
<1>6. EventsAre(db[batchPath].events, P0)
  BY <1>3, <1>4, <1>5 DEF EventsInv
<1>7. LastOf(Bound(batchPath).last_publish, P0, run)
  <2>1. CASE session.path = batchPath
    BY <1>3, <1>4, <1>5, <2>1 DEF EventsInv, Bound
  <2>2. CASE session.path # batchPath
    <3>1. Bound(batchPath).last_publish = 0
      BY <2>2 DEF Bound, NewSession
    <3>2. \A n \in DOMAIN log[batchPath] : log[batchPath][n].run # run
      BY <1>3, <1>4, <2>2 DEF RunsInv
    <3>3. \A p \in P0 : p.run # run
      BY <1>5, <3>2 DEF Published, Rows
    <3> QED BY <3>1, <3>3 DEF LastOf
  <2> QED BY <2>1, <2>2
<1> DEFINE P(k) == P0 \cup {[run |-> run, id |-> pending[n].publish] : n \in 1 .. k}
           Good(k) == /\ EventsAre(g[k].db.events, P(k))
                      /\ LastOf(g[k].ses.last_publish, P(k), run)
           T == {k \in Nat : Good(k)}
<1>8. 0 \in T
  <2>1. g[0].db = db[batchPath] /\ g[0].ses = Bound(batchPath)
    BY <1>2
  <2>2. P(0) = P0
    OBVIOUS
  <2> HIDE DEF P
  <2> QED BY <1>6, <1>7, <2>1, <2>2
<1>9. \A n \in 1 .. N : pending[n].publish \in Nat
  BY <1>3, RowsTyped, RowFields
<1>10. ASSUME NEW k \in Nat, k < N, k \in T PROVE k + 1 \in T
  <2>1. g[k + 1] = WriteRow(g[k], pending[k + 1]) /\ Shape(g[k]) /\ k + 1 \in 1 .. N
    BY <1>2, <1>10
  <2>2. Good(k)
    BY <1>10
  <2>3. P(k + 1) = P(k) \cup {[run |-> run, id |-> pending[k + 1].publish]}
    <3>1. \A n : n \in 1 .. k + 1 <=> n \in 1 .. k \/ n = k + 1
      BY <1>10
    <3> QED BY <3>1
  <2>4. ASSUME NEW p \in P(k), p.run = run PROVE p.id <= pending[k + 1].publish
    <3>1. CASE p \in P0
      <4>1. PICK n \in DOMAIN log[batchPath] :
                p = [run |-> log[batchPath][n].run, id |-> log[batchPath][n].row.publish]
        BY <1>5, <3>1 DEF Published, Rows
      <4>2. PICK x : x = log[batchPath][n]
        OBVIOUS
      <4>3. LoggedBefore(x) /\ x.run = run /\ x.row.publish = p.id
        BY <1>3, <2>4, <4>1, <4>2 DEF Order
      <4> QED BY <1>3, <2>1, <4>3 DEF LoggedBefore
    <3>2. ASSUME NEW n \in 1 .. k, p = [run |-> run, id |-> pending[n].publish]
          PROVE  p.id <= pending[k + 1].publish
      <4>1. n \in 1 .. N /\ n < k + 1
        BY <1>2, <1>10
      <4> QED BY <1>3, <2>1, <3>2, <4>1 DEF Order, PendingOrder
    <3> QED BY <2>4, <3>1, <3>2
  <2> HIDE DEF P
  <2>5. Good(k + 1)
    BY <1>3, <1>9, <2>1, <2>2, <2>3, <2>4, WriteRowEvents
  <2> QED BY <2>5
<1>11. Good(N)
  <2> HIDE DEF Good
  <2>1. \A k \in Nat : k < N /\ k \in T => k + 1 \in T
    BY <1>10
  <2> HIDE DEF T
  <2>2. \A k \in 0 .. N : k \in T
    BY <1>2, <1>8, <2>1, UpTo
  <2>3. N \in T
    BY <1>2, <2>2
  <2> QED BY <2>3 DEF T
<1>12. P(N) = Published(batchPath)'
  BY <1>2, <1>5, PublishedGrows
<1>13. session' = g[N].ses
  <2>1. session'.path = batchPath /\ batchPath' = batchPath
    BY WriteBatchIs DEF WriteBatch
  <2> QED BY <1>2, <2>1 DEF Bound
<1> HIDE DEF P
<1> QED BY <1>2, <1>11, <1>12, <1>13

LEMMA InitIs ==
    ASSUME Init, NEW f \in Path
    PROVE  /\ db[f] = EmptyTables /\ DOMAIN log[f] = {} /\ Rows(f) = {}
           /\ session.path # f
<1>1. db[f] = EmptyTables /\ log[f] = <<>> /\ session = NewSession("")
  BY DEF Init
<1>2. session.path = ""
  BY <1>1 DEF NewSession
<1>3. DOMAIN <<>> = {}
  OBVIOUS
<1>4. DOMAIN log[f] = {}
  BY <1>1, <1>3
<1>5. Rows(f) = {}
  BY <1>4 DEF Rows
<1> QED BY <1>1, <1>2, <1>4, <1>5, PathAssumption

LEMMA EventsInit == Init => EventsInv
<1> SUFFICES ASSUME Init, NEW f \in Path
             PROVE  EventsAre(db[f].events, Published(f)) /\ session.path # f
  BY DEF EventsInv
<1>1. db[f].events = <<>>
  BY InitIs, NothingIn
<1>2. Published(f) = {}
  BY InitIs DEF Published
<1>3. <<>> \in Seq(Event) /\ Len(<<>>) = 0
  OBVIOUS
<1>4. {} \in SUBSET Event /\ 1 .. 0 = {}
  OBVIOUS
<1>5. EventsAre(<<>>, {})
  BY <1>3, <1>4 DEF EventsAre
<1> QED BY <1>1, <1>2, <1>5, InitIs

LEMMA EventsStep ==
    Base /\ Order /\ RunsInv /\ EventsInv /\ [Next]_vars => EventsInv'
<1> SUFFICES ASSUME Base, Order, RunsInv, EventsInv, [Next]_vars,
                    NEW f \in Path, Steady(f)'
             PROVE  /\ EventsAre(db[f].events, Published(f))'
                    /\ session'.path = f => LastOf(session.last_publish, Published(f), run)'
  BY DEF EventsInv
<1>1. Steady(f)
  BY SteadyStep
<1>2. EventsAre(db[f].events, Published(f))
      /\ (session.path = f => LastOf(session.last_publish, Published(f), run))
  BY <1>1 DEF EventsInv
<1>3. CASE WriteBatch
  <2>1. run' = run /\ session'.path = batchPath
    BY <1>3, WriteBatchIs DEF WriteBatch
  <2>2. CASE f = batchPath
    <3>1. Steady(batchPath)' /\ batchPath' = batchPath
      BY <1>3, <2>2 DEF Steady, WriteBatch
    <3>2. /\ EventsAre(db'[batchPath].events, Published(batchPath)')
          /\ LastOf(session'.last_publish, Published(batchPath)', run)
      BY <1>3, <3>1, EventsBatch
    <3>3. Published(f)' = Published(batchPath)'
      BY <2>2, <3>1 DEF Published, Rows
    <3> QED BY <2>1, <2>2, <3>2, <3>3
  <2>3. CASE f # batchPath
    <3>1. db'[f] = db[f] /\ log'[f] = log[f]
      BY <1>3, <2>3, WriteBatchIs
    <3>2. Published(f)' = Published(f)
      BY <3>1 DEF Published, Rows
    <3> QED BY <1>2, <2>1, <2>3, <3>1, <3>2
  <2> QED BY <2>2, <2>3
<1>4. CASE ~WriteBatch
  <2>1. UNCHANGED <<db, log>>
    BY <1>4, Unwritten
  <2>2. Published(f)' = Published(f)
    BY <2>1 DEF Published, Rows
  <2>3. EventsAre(db[f].events, Published(f))'
    BY <1>2, <2>1, <2>2
  <2>4. ASSUME session'.path = f PROVE LastOf(session'.last_publish, Published(f)', run')
    <3>1. CASE UNCHANGED <<session, run>>
      BY <1>2, <2>2, <2>4, <3>1
    <3>2. CASE WriteFails
      <4>1. session' = Bound(batchPath) /\ f = batchPath /\ run' = run
        BY <2>4, <3>2, WriteFailsIs DEF WriteFails, AfterRollback
      <4>2. CASE session.path = f
        <5>1. session' = session
          BY <4>1, <4>2 DEF Bound
        <5> QED BY <1>2, <2>2, <4>1, <4>2, <5>1
      <4>3. CASE session.path # f
        <5>1. session'.last_publish = 0
          BY <4>1, <4>3 DEF Bound, NewSession
        <5>2. run \notin DOMAIN db[f].runs
          BY <3>2, <4>1, <4>3, SteadyBatch
        <5>3. \A n \in DOMAIN log[f] : log[f][n].run # run
          BY <5>2 DEF RunsInv
        <5>4. \A p \in Published(f) : p.run # run
          BY <5>3 DEF Published, Rows
        <5> QED BY <2>2, <4>1, <5>1, <5>4 DEF LastOf
      <4> QED BY <4>2, <4>3
    <3>3. CASE Restart
      BY <2>4, <3>3, RestartIs, PathAssumption
    <3> QED BY <1>4, <3>1, <3>2, <3>3 DEF Next, vars, Sample, SetBack
  <2> QED BY <2>3, <2>4
<1> QED BY <1>3, <1>4

LEMMA PublishedOnceFromInv == Base /\ EventsInv => PublishedOnce
<1> SUFFICES ASSUME Base, EventsInv, NEW f \in Path, Steady(f), NEW x \in Rows(f),
                    x.row.publish > 0
             PROVE  Cardinality({n \in DOMAIN db[f].events :
                        db[f].events[n] = [run |-> x.run, id |-> x.row.publish]}) = 1
  BY DEF PublishedOnce
<1>1. PICK events : events = db[f].events
  OBVIOUS
<1>2. PICK e : e = [run |-> x.run, id |-> x.row.publish]
  OBVIOUS
<1>3. EventsAre(events, Published(f)) /\ e \in Published(f) /\ e.id > 0
  BY <1>1, <1>2 DEF EventsInv, Published
<1>4. DOMAIN events = 1 .. Len(events)
  BY <1>3 DEF EventsAre
<1>5. PICK n \in DOMAIN events : events[n] = e
  BY <1>3, <1>4 DEF EventsAre
<1>6. {m \in DOMAIN events : events[m] = e} = {n}
  BY <1>3, <1>4, <1>5 DEF EventsAre
<1>7. Cardinality({n}) = 1
  BY FS_Singleton
<1> QED BY <1>1, <1>2, <1>6, <1>7

(***************************************************************************)
(* The timeline of the configuration                                        *)
(***************************************************************************)

\* The entry at t is the last one up to time.
LastEntry(timeline, time, t) ==
    /\ t \in DOMAIN timeline /\ t <= time
    /\ \A u \in DOMAIN timeline : u <= time => u <= t

\* The timeline gives each of the rows its configuration; what the process
\* remembers is the configuration in force.
TimelineIs(timeline, R) ==
    /\ DOMAIN timeline \subseteq Nat
    /\ \A u \in DOMAIN timeline : \E x \in R : u <= x.ts
    /\ \A x \in R : \E t \in DOMAIN timeline :
           LastEntry(timeline, x.ts, t) /\ timeline[t] = x.config
Remembers(timeline, config) ==
    config # "" => \E t \in DOMAIN timeline :
        timeline[t] = config /\ \A u \in DOMAIN timeline : u <= t

\* A later entry does not change what is looked up for an earlier time.
LEMMA TimelineExtended ==
    ASSUME NEW tl, NEW R, TimelineIs(tl, R), NEW row, row.ts \in Nat,
           \A x \in R : x.ts \in Nat /\ x.ts < row.ts,
           NEW new, new = With(tl, row.ts, row.config)
    PROVE  TimelineIs(new, R \cup {row}) /\ Remembers(new, row.config)
<1>1. /\ DOMAIN tl \subseteq Nat
      /\ \A u \in DOMAIN tl : \E x \in R : u <= x.ts
      /\ \A x \in R : \E t \in DOMAIN tl : LastEntry(tl, x.ts, t) /\ tl[t] = x.config
  BY DEF TimelineIs
<1>2. \A u \in DOMAIN tl : u \in Nat /\ u < row.ts
  BY <1>1
<1>3. /\ DOMAIN new = DOMAIN tl \cup {row.ts} /\ new[row.ts] = row.config
      /\ \A u \in DOMAIN tl : new[u] = tl[u]
  BY <1>2 DEF With
<1>4. \A u \in DOMAIN new : u \in Nat /\ u <= row.ts
  BY <1>2, <1>3
<1>5. LastEntry(new, row.ts, row.ts)
  BY <1>3, <1>4 DEF LastEntry
<1>6. ASSUME NEW x \in R
      PROVE  \E t \in DOMAIN new : LastEntry(new, x.ts, t) /\ new[t] = x.config
  <2>1. PICK t \in DOMAIN tl : LastEntry(tl, x.ts, t) /\ tl[t] = x.config
    BY <1>1
  <2>2. x.ts \in Nat /\ x.ts < row.ts
    OBVIOUS
  <2>3. LastEntry(new, x.ts, t)
    BY <1>2, <1>3, <2>1, <2>2 DEF LastEntry
  <2> QED BY <1>3, <2>1, <2>3
<1>7. \A u \in DOMAIN new : \E x \in R \cup {row} : u <= x.ts
  BY <1>4
<1>8. \A x \in R \cup {row} : \E t \in DOMAIN new :
          LastEntry(new, x.ts, t) /\ new[t] = x.config
  BY <1>3, <1>5, <1>6
<1>9. TimelineIs(new, R \cup {row})
  BY <1>4, <1>7, <1>8 DEF TimelineIs
<1> QED BY <1>3, <1>4, <1>9 DEF Remembers

\* The entry in force is also the later row's, if it has its configuration.
LEMMA TimelineKept ==
    ASSUME NEW tl, NEW R, TimelineIs(tl, R), NEW row, row.ts \in Nat,
           \A x \in R : x.ts \in Nat /\ x.ts < row.ts,
           NEW t \in DOMAIN tl, tl[t] = row.config, \A u \in DOMAIN tl : u <= t
    PROVE  TimelineIs(tl, R \cup {row}) /\ Remembers(tl, row.config)
<1>1. /\ DOMAIN tl \subseteq Nat
      /\ \A u \in DOMAIN tl : \E x \in R : u <= x.ts
      /\ \A x \in R : \E v \in DOMAIN tl : LastEntry(tl, x.ts, v) /\ tl[v] = x.config
  BY DEF TimelineIs
<1>2. t <= row.ts
  <2>1. PICK x \in R : t <= x.ts
    BY <1>1
  <2> QED BY <1>1, <2>1
<1>3. LastEntry(tl, row.ts, t)
  BY <1>2 DEF LastEntry
<1>4. TimelineIs(tl, R \cup {row})
  BY <1>1, <1>3 DEF TimelineIs
<1> QED BY <1>4 DEF Remembers

LEMMA UpsertView ==
    ASSUME NEW tl, NEW R, TimelineIs(tl, R), NEW row, row.ts \in Nat,
           \A x \in R : x.ts \in Nat /\ x.ts < row.ts,
           NEW new, new = Upsert(tl, row.ts, row.config)
    PROVE  TimelineIs(new, R \cup {row}) /\ Remembers(new, row.config)
<1>1. \A u \in DOMAIN tl : u \in Nat /\ u < row.ts
  BY DEF TimelineIs
<1> DEFINE before == {t \in DOMAIN tl : t < row.ts}
           after == {t \in DOMAIN tl : t > row.ts}
<1>2. before = DOMAIN tl /\ after = {} /\ row.ts \notin DOMAIN tl
  BY <1>1
<1>3. new = IF before # {} /\ tl[Max(before)] = row.config THEN tl
            ELSE With(tl, row.ts, row.config)
  <2> HIDE DEF before
  <2>1. \/ new = With(tl, row.ts, row.config)
           /\ ~(before # {} /\ tl[Max(before)] = row.config)
        \/ new = tl /\ before # {} /\ tl[Max(before)] = row.config
    BY <1>2 DEF Upsert, before
  <2> QED BY <2>1
<1>4. CASE before # {} /\ tl[Max(before)] = row.config
  <2>1. PICK S : S = DOMAIN tl
    OBVIOUS
  <2>2. S \in SUBSET Nat /\ S # {} /\ \A u \in S : u <= row.ts
    BY <1>1, <1>2, <1>4, <2>1
  <2>3. Max(S) \in S /\ \A u \in S : u <= Max(S)
    BY <2>2, Greatest
  <2>4. tl[Max(S)] = row.config /\ new = tl
    BY <1>2, <1>3, <1>4, <2>1
  <2> HIDE DEF before
  <2> QED BY <2>1, <2>3, <2>4, TimelineKept
<1>5. CASE ~(before # {} /\ tl[Max(before)] = row.config)
  <2>1. new = With(tl, row.ts, row.config)
    BY <1>3, <1>5
  <2> QED BY <2>1, TimelineExtended
<1> QED BY <1>4, <1>5

LEMMA ObserveConfigView ==
    ASSUME NEW s, Shape(s), NEW R, TimelineIs(s.db.timeline, R),
           Remembers(s.db.timeline, s.ses.config), NEW row, row.ts \in Nat,
           row.config # "", \A x \in R : x.ts \in Nat /\ x.ts < row.ts,
           NEW t, t = ObserveConfig(s, row)
    PROVE  TimelineIs(t.db.timeline, R \cup {row}) /\ Remembers(t.db.timeline, t.ses.config)
<1>1. CASE row.config = s.ses.config
  <2>1. t = s
    BY <1>1 DEF ObserveConfig
  <2>2. PICK tl : tl = s.db.timeline
    OBVIOUS
  <2>3. PICK u \in DOMAIN tl : tl[u] = row.config /\ \A v \in DOMAIN tl : v <= u
    BY <1>1, <2>2 DEF Remembers
  <2>4. TimelineIs(tl, R \cup {row}) /\ Remembers(tl, row.config)
    BY <2>2, <2>3, TimelineKept
  <2> QED BY <1>1, <2>1, <2>2, <2>4
<1>2. CASE row.config # s.ses.config
  <2>1. PICK tl : tl = s.db.timeline
    OBVIOUS
  <2>2. PICK new : new = Upsert(tl, row.ts, row.config)
    OBVIOUS
  <2>3. t.db.timeline = new /\ t.ses.config = row.config
    BY <1>2, <2>1, <2>2 DEF ObserveConfig, Shape, Tables, Memory
  <2>4. TimelineIs(new, R \cup {row}) /\ Remembers(new, row.config)
    BY <2>1, <2>2, UpsertView
  <2> QED BY <2>3, <2>4
<1> QED BY <1>1, <1>2

LEMMA WriteRowTimeline ==
    ASSUME NEW s, Shape(s), NEW R, TimelineIs(s.db.timeline, R),
           Remembers(s.db.timeline, s.ses.config), NEW row, row.ts \in Nat,
           row.config # "", \A x \in R : x.ts \in Nat /\ x.ts < row.ts,
           NEW w, w = WriteRow(s, row)
    PROVE  TimelineIs(w.db.timeline, R \cup {row}) /\ Remembers(w.db.timeline, w.ses.config)
<1>1. PICK x : /\ Shape(x) /\ SameTimeline(s, x)
               /\ SameTimeline(ObserveConfig(x, row), w)
  BY WriteRowStages
<1>2. PICK t : t = ObserveConfig(x, row)
  OBVIOUS
<1>3. TimelineIs(x.db.timeline, R) /\ Remembers(x.db.timeline, x.ses.config)
  BY <1>1 DEF SameTimeline
<1>4. TimelineIs(t.db.timeline, R \cup {row}) /\ Remembers(t.db.timeline, t.ses.config)
  BY <1>1, <1>2, <1>3, ObserveConfigView
<1> QED BY <1>1, <1>2, <1>4 DEF SameTimeline

\* The rows alone, without their runs.
Measured(f) == {log[f][n].row : n \in DOMAIN log[f]}

TimelineInv ==
    stepped = {} => \A f \in Path :
        /\ TimelineIs(db[f].timeline, Measured(f))
        /\ Remembers(db[f].timeline, Bound(f).config)

\* The rows of the file after the k-th of the batch.
Upto(k) == Measured(batchPath) \cup {pending[n] : n \in 1 .. k}

LEMMA UptoNext ==
    ASSUME Base, Order, stepped = {}, NEW k \in Nat, k < Len(pending)
    PROVE  /\ Upto(k + 1) = Upto(k) \cup {pending[k + 1]}
           /\ \A x \in Upto(k) : x.ts \in Nat /\ x.ts < pending[k + 1].ts
<1>1. /\ batchPath \in Path /\ Len(pending) \in Nat /\ DOMAIN pending = 1 .. Len(pending)
      /\ \A n \in DOMAIN pending : pending[n] \in Row
  BY BatchIs
<1>2. k + 1 \in DOMAIN pending
  BY <1>1
<1>3. \A n : n \in 1 .. k + 1 <=> n \in 1 .. k \/ n = k + 1
  OBVIOUS
<1>4. Upto(k + 1) = Upto(k) \cup {pending[k + 1]}
  BY <1>3 DEF Upto
<1>5. ASSUME NEW x \in Measured(batchPath) PROVE x.ts \in Nat /\ x.ts < pending[k + 1].ts
  <2>1. PICK n \in DOMAIN log[batchPath] : x = log[batchPath][n].row
    BY DEF Measured
  <2>2. x \in Row
    BY <1>1, <2>1, RowsTyped
  <2>3. LoggedBefore(log[batchPath][n])
    BY <1>1, <2>1 DEF Order
  <2>4. PICK y : y = log[batchPath][n]
    OBVIOUS
  <2>5. LoggedBefore(y) /\ y.row = x
    BY <2>1, <2>3, <2>4
  <2>6. x.ts < pending[k + 1].ts
    BY <1>2, <2>5 DEF LoggedBefore
  <2> QED BY <2>2, <2>6, RowFields
<1>6. ASSUME NEW n \in 1 .. k
      PROVE  pending[n].ts \in Nat /\ pending[n].ts < pending[k + 1].ts
  <2>1. n \in DOMAIN pending /\ n < k + 1
    BY <1>1
  <2>2. pending[n].ts \in Nat
    BY <1>1, <2>1, RowFields
  <2> QED BY <1>2, <2>1, <2>2 DEF Order, PendingOrder
<1>7. ASSUME NEW x \in Upto(k) PROVE x.ts \in Nat /\ x.ts < pending[k + 1].ts
  BY <1>5, <1>6 DEF Upto
<1> QED BY <1>4, <1>7

LEMMA UptoAll ==
    ASSUME Base, WriteBatch
    PROVE  /\ Upto(0) = Measured(batchPath)
           /\ Upto(Len(pending)) = Measured(batchPath)'
<1>1. Upto(0) = Measured(batchPath)
  BY DEF Upto
<1>2. batchPath' = batchPath
  BY DEF WriteBatch
<1>3. PICK old : old = log[batchPath]
  OBVIOUS
<1>4. PICK new : new = log'[batchPath]
  OBVIOUS
<1>5. Grown(old, new, pending, run)
  BY <1>3, <1>4, LogGrows
<1>6. Measured(batchPath) = {old[n].row : n \in DOMAIN old}
  BY <1>3 DEF Measured
<1>7. Measured(batchPath)' = {new[n].row : n \in DOMAIN new}
  BY <1>2, <1>4 DEF Measured
<1>8. ASSUME NEW n \in DOMAIN old PROVE n \in DOMAIN new /\ new[n] = old[n]
  BY <1>5, <1>8 DEF Grown
<1>9. ASSUME NEW m \in 1 .. Len(pending) PROVE \E n \in DOMAIN new : new[n].row = pending[m]
  <2>1. Len(old) + m \in DOMAIN new
    BY <1>5, <1>9 DEF Grown
  <2> QED BY <1>5, <1>9, <2>1 DEF Grown
<1>10. ASSUME NEW n \in DOMAIN new
       PROVE  \/ n \in DOMAIN old /\ new[n] = old[n]
              \/ \E m \in 1 .. Len(pending) : new[n].row = pending[m]
  BY <1>5, <1>10 DEF Grown
<1>11. Upto(Len(pending)) = {old[n].row : n \in DOMAIN old}
                                \cup {pending[n] : n \in 1 .. Len(pending)}
  BY <1>6 DEF Upto
<1> HIDE <1>2, <1>3, <1>4, <1>5
<1>12. Upto(Len(pending)) = Measured(batchPath)'
  BY <1>7, <1>8, <1>9, <1>10, <1>11
<1> QED BY <1>1, <1>12

LEMMA TimelineBatch ==
    ASSUME Base, Order, TimelineInv, WriteBatch, stepped = {}
    PROVE  /\ TimelineIs(db'[batchPath].timeline, Measured(batchPath)')
           /\ Remembers(db'[batchPath].timeline, Bound(batchPath)'.config)
<1>1. PICK g, N : Advanced(g, N)
  BY WriteBatchIs
<1>2. /\ N = Len(pending) /\ N \in Nat /\ N > 0
      /\ g[0] = [db |-> db[batchPath], ses |-> Bound(batchPath)]
      /\ \A n \in 1 .. N : g[n] = WriteRow(g[n - 1], pending[n])
      /\ \A n \in 0 .. N : Shape(g[n])
      /\ db'[batchPath].timeline = g[N].db.timeline /\ Bound(batchPath)' = g[N].ses
  BY <1>1 DEF Advanced, Committed
<1>3. /\ batchPath \in Path /\ DOMAIN pending = 1 .. N
      /\ \A n \in 1 .. N : pending[n] \in Row
  BY <1>2, BatchIs
<1> DEFINE Good(k) == /\ TimelineIs(g[k].db.timeline, Upto(k))
                      /\ Remembers(g[k].db.timeline, g[k].ses.config)
           T == {k \in Nat : Good(k)}
<1>4. 0 \in T
  <2>1. g[0].db = db[batchPath] /\ g[0].ses = Bound(batchPath)
    BY <1>2
  <2> QED BY <1>3, <2>1, UptoAll DEF TimelineInv
<1>5. ASSUME NEW k \in Nat, k < N, k \in T PROVE k + 1 \in T
  <2>1. g[k + 1] = WriteRow(g[k], pending[k + 1]) /\ Shape(g[k]) /\ k + 1 \in 1 .. N
    BY <1>2, <1>5
  <2>2. Good(k)
    BY <1>5
  <2>3. /\ Upto(k + 1) = Upto(k) \cup {pending[k + 1]}
        /\ \A x \in Upto(k) : x.ts \in Nat /\ x.ts < pending[k + 1].ts
    BY <1>2, <1>5, UptoNext
  <2>4. pending[k + 1].ts \in Nat /\ pending[k + 1].config # ""
    BY <1>3, <2>1, RowFields
  <2>5. PICK row : row = pending[k + 1]
    OBVIOUS
  <2>6. PICK R : R = Upto(k)
    OBVIOUS
  <2>7. /\ row.ts \in Nat /\ row.config # "" /\ g[k + 1] = WriteRow(g[k], row)
        /\ \A x \in R : x.ts \in Nat /\ x.ts < row.ts
        /\ TimelineIs(g[k].db.timeline, R) /\ Remembers(g[k].db.timeline, g[k].ses.config)
    BY <2>1, <2>2, <2>3, <2>4, <2>5, <2>6
  <2>8. /\ TimelineIs(g[k + 1].db.timeline, R \cup {row})
        /\ Remembers(g[k + 1].db.timeline, g[k + 1].ses.config)
    BY <2>1, <2>7, WriteRowTimeline
  <2>9. R \cup {row} = Upto(k + 1)
    BY <2>3, <2>5, <2>6
  <2>10. Good(k + 1)
    BY <2>8, <2>9
  <2> QED BY <2>10
<1>6. Good(N)
  <2> HIDE DEF Good
  <2>1. \A k \in Nat : k < N /\ k \in T => k + 1 \in T
    BY <1>5
  <2> HIDE DEF T
  <2>2. \A k \in 0 .. N : k \in T
    BY <1>2, <1>4, <2>1, UpTo
  <2>3. N \in T
    BY <1>2, <2>2
  <2> QED BY <2>3 DEF T
<1> QED BY <1>2, <1>6, UptoAll

LEMMA TimelineInit == Init => TimelineInv
<1> SUFFICES ASSUME Init, NEW f \in Path
             PROVE  /\ TimelineIs(db[f].timeline, Measured(f))
                    /\ Remembers(db[f].timeline, Bound(f).config)
  BY DEF TimelineInv
<1>1. db[f].timeline = <<>> /\ Measured(f) = {}
  BY InitIs, NothingIn DEF Measured
<1>2. Bound(f).config = ""
  BY InitIs DEF Bound, NewSession
<1>3. DOMAIN <<>> = {}
  OBVIOUS
<1>4. TimelineIs(<<>>, {})
  BY <1>3 DEF TimelineIs
<1> QED BY <1>1, <1>2, <1>4 DEF Remembers

\* What a step other than a commit may do to the memory of a file: nothing, or forget.
LEMMA MemoryKept ==
    ASSUME Base, [Next]_vars, ~WriteBatch, NEW f \in Path
    PROVE  Bound(f)' = Bound(f) \/ Bound(f)' = NewSession(f)
<1>1. CASE UNCHANGED session
  BY <1>1 DEF Bound, NewSession
<1>2. CASE WriteFails
  <2>1. CASE f = batchPath
    <3>1. batchPath' = batchPath
      BY <1>2 DEF WriteFails
    <3>2. Bound(batchPath)' = Bound(f)'
      BY <2>1, <3>1 DEF Bound, NewSession
    <3>3. Bound(batchPath) = Bound(f)
      BY <2>1
    <3> QED BY <1>2, <3>2, <3>3, WriteFailsIs
  <2>2. CASE f # batchPath
    BY <1>2, <2>2, WriteFailsIs
  <2> QED BY <2>1, <2>2
<1>3. CASE Restart
  BY <1>3, RestartIs
<1> QED BY <1>1, <1>2, <1>3 DEF Next, vars, Sample, SetBack

LEMMA TimelineStep ==
    Base /\ Order /\ TimelineInv /\ [Next]_vars => TimelineInv'
<1> SUFFICES ASSUME Base, Order, TimelineInv, [Next]_vars, stepped' = {},
                    NEW f \in Path
             PROVE  /\ TimelineIs(db[f].timeline, Measured(f))'
                    /\ Remembers(db[f].timeline, Bound(f).config)'
  BY DEF TimelineInv
<1>1. stepped = {}
  BY SetBackIs DEF Next, vars, Sample, WriteBatch, WriteFails, Restart
<1>2. TimelineIs(db[f].timeline, Measured(f)) /\ Remembers(db[f].timeline, Bound(f).config)
  BY <1>1 DEF TimelineInv
<1>3. Remembers(db[f].timeline, NewSession(f).config)
  BY DEF Remembers, NewSession
<1>4. CASE WriteBatch
  <2>1. CASE f = batchPath
    <3>1. batchPath' = batchPath
      BY <1>4 DEF WriteBatch
    <3>2. /\ TimelineIs(db'[batchPath].timeline, Measured(batchPath)')
          /\ Remembers(db'[batchPath].timeline, Bound(batchPath)'.config)
      BY <1>1, <1>4, TimelineBatch
    <3>3. Measured(f)' = Measured(batchPath)' /\ Bound(f)' = Bound(batchPath)'
      BY <2>1, <3>1 DEF Measured, Bound, NewSession
    <3> QED BY <2>1, <3>2, <3>3
  <2>2. CASE f # batchPath
    <3>1. db'[f] = db[f] /\ log'[f] = log[f] /\ Bound(f)' = NewSession(f)
      BY <1>4, <2>2, WriteBatchIs
    <3>2. Measured(f)' = Measured(f)
      BY <3>1 DEF Measured
    <3> QED BY <1>2, <1>3, <3>1, <3>2
  <2> QED BY <2>1, <2>2
<1>5. CASE ~WriteBatch
  <2>1. UNCHANGED <<db, log>> /\ (Bound(f)' = Bound(f) \/ Bound(f)' = NewSession(f))
    BY <1>5, Unwritten, MemoryKept
  <2>2. Measured(f)' = Measured(f)
    BY <2>1 DEF Measured
  <2> QED BY <1>2, <1>3, <2>1, <2>2
<1> QED BY <1>4, <1>5

LEMMA TimelineFromInv == Base /\ TimelineInv => TimelineMatchesRows
<1> SUFFICES ASSUME Base, TimelineInv, stepped = {}, NEW f \in Path, NEW x \in Rows(f)
             PROVE  LET at == {t \in DOMAIN db[f].timeline : t <= x.row.ts}
                    IN  at # {} /\ db[f].timeline[Max(at)] = x.row.config
  BY DEF TimelineMatchesRows
<1>1. PICK tl : tl = db[f].timeline
  OBVIOUS
<1>2. x.row \in Measured(f)
  BY DEF Measured, Rows
<1>3. TimelineIs(tl, Measured(f))
  BY <1>1 DEF TimelineInv
<1>4. PICK t \in DOMAIN tl : LastEntry(tl, x.row.ts, t) /\ tl[t] = x.row.config
  BY <1>2, <1>3 DEF TimelineIs
<1>5. PICK at : at = {u \in DOMAIN tl : u <= x.row.ts}
  OBVIOUS
<1>6. at \in SUBSET Int /\ t \in at /\ \A u \in at : u <= t
  BY <1>3, <1>4, <1>5 DEF TimelineIs, LastEntry
<1>7. Max(at) = t
  BY <1>6, MaxIs
<1> QED BY <1>1, <1>4, <1>5, <1>6, <1>7

(***************************************************************************)
(* The topology                                                             *)
(***************************************************************************)

\* A finite set as a sequence: each of its members, and nothing else.
Lists(q, S, n) ==
    /\ n \in Nat /\ q \in [1 .. n -> S]
    /\ \A x \in S : \E i \in 1 .. n : q[i] = x

LEMMA SetToSeqLists ==
    ASSUME NEW S, IsFiniteSet(S), NEW q, q = SetToSeq(S)
    PROVE  \E n : Lists(q, S, n)
<1> DEFINE c == Cardinality(S)
<1>1. c \in Nat /\ ExistsBijection(1 .. c, S)
  BY FS_CardinalityType
<1>2. \E f \in [1 .. c -> S] : IsInjective(f)
  BY <1>1 DEF ExistsBijection, Bijection, Injection
<1>3. q \in [1 .. c -> S] /\ IsInjective(q)
  BY <1>2, Zenon DEF SetToSeq
<1>4. IsFiniteSet(1 .. c) /\ Cardinality(1 .. c) = c
  BY <1>1, FS_Interval
<1>5. q \in Injection(1 .. c, S)
  BY <1>3 DEF Injection
<1>6. q \in Surjection(1 .. c, S)
  BY <1>4, <1>5, FS_Injection
<1>7. Lists(q, S, c)
  BY <1>1, <1>3, <1>6 DEF Surjection, Lists
<1> QED BY <1>7

States == {"PRESENT", "ABSENT"}
Entry == [ts : Nat, unit : AllUnits, state : States]

\* The n-th entry is the last of the unit.
LastEntryOf(topo, N, u, n) ==
    /\ n \in 1 .. N /\ topo[n].unit = u
    /\ \A m \in 1 .. N : topo[m].unit = u => m <= n

StateIn(E, P, u) ==
    IF u \in P THEN "PRESENT" ELSE IF u \in E THEN "ABSENT" ELSE "never"

PresentAfter(P, units, state) ==
    IF state = "PRESENT" THEN P \cup units ELSE P \ units

\* Of the units in E the timeline has an entry, and those in P are there; the entries
\* are in the order of time, and none is later than end.
TopologyIs(topo, E, P, end) ==
    /\ Len(topo) \in Nat /\ DOMAIN topo = 1 .. Len(topo)
    /\ topo \in Seq(Entry)
    /\ \A n \in 1 .. Len(topo) : topo[n].unit \in E /\ topo[n].ts \in Nat
                                 /\ topo[n].ts <= end
    /\ \A m, n \in 1 .. Len(topo) : m < n => topo[m].ts <= topo[n].ts
    /\ P \subseteq E
    /\ \A u \in E : \E n \in 1 .. Len(topo) :
           LastEntryOf(topo, Len(topo), u, n) /\ topo[n].state = StateIn(E, P, u)
CacheIs(cache, E, P) == \A u \in DOMAIN cache : cache[u] = StateIn(E, P, u)

LEMMA KnownIs ==
    ASSUME NEW s, NEW E, NEW P, NEW end, TopologyIs(s.db.topology, E, P, end),
           CacheIs(s.ses.cache, E, P), NEW u
    PROVE  Known(s, u) = StateIn(E, P, u)
<1>1. CASE u \in DOMAIN s.ses.cache
  BY <1>1 DEF Known, CacheIs
<1>2. CASE u \notin DOMAIN s.ses.cache
  <2>1. PICK topo : topo = s.db.topology
    OBVIOUS
  <2>2. TopologyIs(topo, E, P, end)
    BY <2>1
  <2> DEFINE own == {n \in DOMAIN topo : topo[n].unit = u}
             late == {n \in own : \A m \in own : \/ topo[m].ts < topo[n].ts
                                                 \/ topo[m].ts = topo[n].ts /\ m <= n}
  <2>3. Known(s, u) = IF own = {} THEN "never" ELSE topo[CHOOSE n \in late : TRUE].state
    BY <1>2, <2>1 DEF Known
  <2>4. CASE u \in E
    <3>1. PICK n \in 1 .. Len(topo) : /\ LastEntryOf(topo, Len(topo), u, n)
                                      /\ topo[n].state = StateIn(E, P, u)
      BY <2>2, <2>4 DEF TopologyIs
    <3>2. n \in own /\ \A m \in own : m <= n /\ m \in 1 .. Len(topo)
      BY <2>2, <3>1 DEF TopologyIs, LastEntryOf
    <3>3. \A m \in own : topo[m].ts \in Nat /\ (m < n => topo[m].ts <= topo[n].ts)
      BY <2>2, <3>2 DEF TopologyIs
    <3>4. n \in late
      BY <2>2, <3>2, <3>3 DEF TopologyIs
    <3>5. \A m \in late : m = n
      <4>1. SUFFICES ASSUME NEW m \in late PROVE m = n
        OBVIOUS
      <4>2. m \in own /\ (topo[n].ts < topo[m].ts \/ n <= m)
        BY <3>2
      <4>3. m \in Int /\ n \in Int /\ m <= n
        BY <2>2, <3>2, <4>2 DEF TopologyIs
      <4> QED BY <3>3, <3>2, <4>2, <4>3
    <3>6. late = {n}
      <4> HIDE DEF late
      <4> QED BY <3>4, <3>5
    <3>7. (CHOOSE m \in late : TRUE) = n
      <4> HIDE DEF late
      <4> QED BY <3>6
    <3> QED BY <2>3, <3>1, <3>2, <3>7
  <2>5. CASE u \notin E
    <3>1. own = {}
      BY <2>2, <2>5 DEF TopologyIs
    <3> QED BY <2>2, <2>3, <2>5, <3>1 DEF StateIn, TopologyIs
  <2> QED BY <2>4, <2>5
<1> QED BY <1>1, <1>2

\* One sequence after the other.
Joined(a, b, q) ==
    /\ Len(a) \in Nat /\ Len(b) \in Nat
    /\ Len(q) = Len(a) + Len(b) /\ DOMAIN q = 1 .. Len(a) + Len(b)
    /\ \A n \in 1 .. Len(a) : q[n] = a[n]
    /\ \A n \in 1 .. Len(b) : q[Len(a) + n] = b[n]
    /\ \A n \in 1 .. Len(q) : \/ n \in 1 .. Len(a)
                              \/ \E m \in 1 .. Len(b) : n = Len(a) + m

LEMMA Concatenated ==
    ASSUME NEW A, NEW a \in Seq(A), NEW b \in Seq(A), NEW q, q = a \o b
    PROVE  Joined(a, b, q) /\ q \in Seq(A)
<1>1. /\ Len(a) \in Nat /\ Len(b) \in Nat
      /\ Len(q) = Len(a) + Len(b) /\ DOMAIN q = 1 .. Len(a) + Len(b)
      /\ \A n \in 1 .. Len(a) : q[n] = a[n]
      /\ \A n \in 1 .. Len(b) : q[Len(a) + n] = b[n]
      /\ q \in Seq(A)
  OBVIOUS
<1>2. ASSUME NEW n \in 1 .. Len(q), n \notin 1 .. Len(a)
      PROVE  \E m \in 1 .. Len(b) : n = Len(a) + m
  <2>1. n - Len(a) \in 1 .. Len(b) /\ n = Len(a) + (n - Len(a))
    BY <1>1, <1>2
  <2> QED BY <2>1
<1> QED BY <1>1, <1>2 DEF Joined

Entries(new, c, ts, state) ==
    [n \in 1 .. c |-> [ts |-> ts, unit |-> new[n], state |-> state]]

\* The units that had not this state last get an entry; the others keep theirs.
LEMMA TopologyEntries ==
    ASSUME NEW topo, NEW E, NEW P, NEW end \in Nat, TopologyIs(topo, E, P, end),
           NEW units \in SUBSET AllUnits, NEW ts \in Nat, end <= ts, NEW state \in States,
           NEW Q, Q = PresentAfter(P, units, state),
           NEW F, F = E \cup units, NEW c, NEW new,
           Lists(new, {u \in units : StateIn(E, P, u) # state}, c),
           NEW all, all = topo \o Entries(new, c, ts, state)
    PROVE  TopologyIs(all, F, Q, ts)
<1>1. PICK more : more = [n \in 1 .. c |-> [ts |-> ts, unit |-> new[n], state |-> state]]
  OBVIOUS
<1>2. /\ c \in Nat /\ new \in [1 .. c -> {u \in units : StateIn(E, P, u) # state}]
      /\ \A u \in units : StateIn(E, P, u) # state => \E i \in 1 .. c : new[i] = u
  BY DEF Lists
<1>3. \A i \in 1 .. c : /\ more[i].ts = ts /\ more[i].unit = new[i]
                        /\ more[i].state = state /\ new[i] \in units
                        /\ StateIn(E, P, new[i]) # state
  BY <1>1, <1>2
<1>4. more \in Seq(Entry) /\ Len(more) = c
  <2>1. \A i \in 1 .. c : [ts |-> ts, unit |-> new[i], state |-> state] \in Entry
    BY <1>3 DEF Entry
  <2> QED BY <1>1, <1>2, <2>1
<1>5. PICK N : N = Len(topo)
  OBVIOUS
<1>6. /\ N \in Nat /\ DOMAIN topo = 1 .. N /\ topo \in Seq(Entry)
      /\ \A n \in 1 .. N : topo[n].unit \in E /\ topo[n].ts \in Nat /\ topo[n].ts <= end
      /\ \A m, n \in 1 .. N : m < n => topo[m].ts <= topo[n].ts
      /\ P \subseteq E
      /\ \A u \in E : \E n \in 1 .. N :
             LastEntryOf(topo, N, u, n) /\ topo[n].state = StateIn(E, P, u)
  BY <1>5 DEF TopologyIs
<1>7. /\ Len(all) = N + c /\ DOMAIN all = 1 .. N + c /\ all \in Seq(Entry)
      /\ \A n \in 1 .. N : all[n] = topo[n]
      /\ \A n \in 1 .. c : all[N + n] = more[n]
      /\ \A n \in 1 .. N + c : n \in 1 .. N \/ \E m \in 1 .. c : n = N + m
  <2>1. all = topo \o more
    BY <1>1 DEF Entries
  <2>2. Joined(topo, more, all) /\ all \in Seq(Entry)
    BY <1>4, <1>6, <2>1, Concatenated
  <2> QED BY <1>4, <1>5, <2>2 DEF Joined
<1>8. \A n \in 1 .. N : /\ all[n].unit \in F /\ all[n].ts \in Nat
                        /\ all[n].ts <= end /\ all[n].ts <= ts
  <2>1. SUFFICES ASSUME NEW n \in 1 .. N
                 PROVE  /\ all[n].unit \in F /\ all[n].ts \in Nat
                        /\ all[n].ts <= end /\ all[n].ts <= ts
    OBVIOUS
  <2>2. PICK e : e = topo[n]
    OBVIOUS
  <2>3. e.unit \in E /\ e.ts \in Nat /\ e.ts <= end /\ all[n] = e
    BY <1>6, <1>7, <2>2
  <2>4. e.ts <= ts
    BY ONLY <2>3, end \in Nat, ts \in Nat, end <= ts
  <2> QED BY <2>3, <2>4
<1>9. \A m \in 1 .. c : /\ all[N + m].unit = new[m] /\ all[N + m].ts = ts
                        /\ all[N + m].state = state /\ all[N + m].unit \in F
  BY <1>3, <1>7
<1>10. \A n \in 1 .. N + c : all[n].unit \in F /\ all[n].ts \in Nat /\ all[n].ts <= ts
  <2>1. SUFFICES ASSUME NEW n \in 1 .. N + c
                 PROVE  all[n].unit \in F /\ all[n].ts \in Nat /\ all[n].ts <= ts
    OBVIOUS
  <2>2. CASE n \in 1 .. N
    BY <1>8, <2>2
  <2>3. ASSUME NEW m \in 1 .. c, n = N + m
        PROVE  all[n].unit \in F /\ all[n].ts \in Nat /\ all[n].ts <= ts
    <3>1. all[n].unit \in F /\ all[n].ts = ts
      BY <1>9, <2>3
    <3> QED BY ONLY <3>1, ts \in Nat
  <2> QED BY <1>7, <2>2, <2>3
<1>11. \A m, n \in 1 .. N + c : m < n => all[m].ts <= all[n].ts
  <2>1. SUFFICES ASSUME NEW m \in 1 .. N + c, NEW n \in 1 .. N + c, m < n
                 PROVE  all[m].ts <= all[n].ts
    OBVIOUS
  <2>2. CASE n \in 1 .. N
    <3>1. m \in 1 .. N
      BY ONLY <1>2, <1>6, <2>1, <2>2
    <3> QED BY <1>6, <1>7, <2>1, <2>2, <3>1
  <2>3. ASSUME NEW i \in 1 .. c, n = N + i PROVE all[m].ts <= all[n].ts
    BY <1>9, <1>10, <2>3
  <2> QED BY <1>7, <2>2, <2>3
<1>12. Q \subseteq F
  BY <1>6 DEF PresentAfter
<1>13. ASSUME NEW u \in F
       PROVE  \E n \in 1 .. N + c :
                  LastEntryOf(all, N + c, u, n) /\ all[n].state = StateIn(F, Q, u)
  <2>1. CASE \E i \in 1 .. c : new[i] = u
    <3> DEFINE I == {i \in 1 .. c : new[i] = u}
    <3>0. c \in Nat
      BY <1>2
    <3>1. I \in SUBSET Nat /\ I # {} /\ \A i \in I : i <= c
      BY ONLY <3>0, <2>1
    <3>2. PICK i \in I : \A j \in I : j <= i
      <4> HIDE DEF I
      <4> QED BY <1>2, <3>1, Greatest
    <3>3. i \in 1 .. c /\ new[i] = u /\ N + i \in 1 .. N + c
      BY <1>2, <1>6, <3>2
    <3>4. all[N + i].unit = u /\ all[N + i].state = state
      BY <1>9, <3>3
    <3>5. ASSUME NEW m \in 1 .. N + c, all[m].unit = u PROVE m <= N + i
      <4>1. CASE m \in 1 .. N
        BY <1>2, <1>6, <3>3, <4>1
      <4>2. ASSUME NEW j \in 1 .. c, m = N + j PROVE m <= N + i
        <5>1. new[j] = u
          BY <1>9, <3>5, <4>2
        <5> QED BY <1>2, <1>6, <3>2, <3>3, <4>2, <5>1
      <4> QED BY <1>7, <4>1, <4>2
    <3>6. StateIn(F, Q, u) = state
      BY <1>3, <3>3 DEF StateIn, States, PresentAfter
    <3>7. LastEntryOf(all, N + c, u, N + i)
      BY <3>3, <3>4, <3>5 DEF LastEntryOf
    <3> QED BY <3>3, <3>4, <3>6, <3>7
  <2>2. CASE ~ \E i \in 1 .. c : new[i] = u
    <3>1. u \in units => StateIn(E, P, u) = state
      BY <1>2, <2>2
    <3>2. u \in E
      <4>1. u \notin units => u \in E
        BY <1>13
      <4>2. u \in units => StateIn(E, P, u) \in {"PRESENT", "ABSENT"}
        BY <3>1 DEF States
      <4> QED BY <1>6, <4>1, <4>2 DEF StateIn
    <3>3. PICK n \in 1 .. N : LastEntryOf(topo, N, u, n)
                              /\ topo[n].state = StateIn(E, P, u)
      BY <1>6, <3>2
    <3>4. ASSUME NEW m \in 1 .. N + c, all[m].unit = u PROVE m <= n
      <4>1. CASE m \in 1 .. N
        BY <1>7, <3>3, <3>4, <4>1 DEF LastEntryOf
      <4>2. ASSUME NEW j \in 1 .. c, m = N + j PROVE m <= n
        <5>1. new[j] = u
          BY <1>9, <3>4, <4>2
        <5> QED BY <2>2, <5>1
      <4> QED BY <1>7, <4>1, <4>2
    <3>5. n \in 1 .. N + c /\ all[n].unit = u /\ all[n] = topo[n]
      BY <1>2, <1>6, <1>7, <3>3 DEF LastEntryOf
    <3>6. StateIn(F, Q, u) = StateIn(E, P, u)
      BY <1>6, <3>1, <3>2 DEF StateIn, States, PresentAfter
    <3>7. LastEntryOf(all, N + c, u, n)
      BY <3>4, <3>5 DEF LastEntryOf
    <3> QED BY <3>3, <3>5, <3>6, <3>7
  <2> QED BY <2>1, <2>2
<1>14. Len(all) \in Nat /\ DOMAIN all = 1 .. Len(all)
  BY <1>2, <1>6, <1>7
<1> QED BY <1>7, <1>10, <1>11, <1>12, <1>13, <1>14 DEF TopologyIs

LEMMA TopologyView ==
    ASSUME NEW s, Shape(s), NEW E, NEW P, NEW end \in Nat,
           TopologyIs(s.db.topology, E, P, end), CacheIs(s.ses.cache, E, P),
           NEW units \in SUBSET AllUnits, IsFiniteSet(units), NEW ts \in Nat, end <= ts,
           NEW state \in States, NEW t, t = Topology(s, ts, units, state),
           NEW Q, Q = PresentAfter(P, units, state),
           NEW F, F = E \cup units
    PROVE  TopologyIs(t.db.topology, F, Q, ts) /\ CacheIs(t.ses.cache, F, Q)
<1>1. PICK S : S = {u \in units : Known(s, u) # state}
  OBVIOUS
<1>2. S = {u \in units : StateIn(E, P, u) # state}
  <2>1. \A u \in units : Known(s, u) = StateIn(E, P, u)
    BY KnownIs
  <2> QED BY <1>1, <2>1
<1>3. IsFiniteSet(S)
  BY <1>1, FS_Subset
<1>4. PICK new : new = SetToSeq(S)
  OBVIOUS
<1>5. PICK c : Lists(new, S, c)
  BY <1>3, <1>4, SetToSeqLists
<1>6. PICK topo : topo = s.db.topology
  OBVIOUS
<1>7. PICK cache : cache = s.ses.cache
  OBVIOUS
<1>8. PICK all : all = topo \o Entries(new, c, ts, state)
  OBVIOUS
<1>9. PICK known : known = [u \in DOMAIN cache \cup units |->
                               IF u \in units THEN state ELSE cache[u]]
  OBVIOUS
<1>10. DOMAIN new = 1 .. c
  BY <1>5 DEF Lists
<1>11. t = [s EXCEPT !.db.topology = all, !.ses.cache = known]
  BY <1>1, <1>4, <1>6, <1>7, <1>8, <1>9, <1>10 DEF Topology, Entries
<1>12. t.db.topology = all /\ t.ses.cache = known
  BY <1>11 DEF Shape, Tables, Memory
<1>13. TopologyIs(all, F, Q, ts)
  <2>1. Lists(new, {u \in units : StateIn(E, P, u) # state}, c)
    BY <1>2, <1>5
  <2>2. TopologyIs(topo, E, P, end)
    BY <1>6
  <2> QED BY <1>8, <2>1, <2>2, TopologyEntries
<1>14. ASSUME NEW u \in DOMAIN known PROVE known[u] = StateIn(F, Q, u)
  <2>1. CASE u \in units
    BY <1>9, <2>1 DEF StateIn, States, PresentAfter
  <2>2. CASE u \notin units
    <3>1. known[u] = cache[u] /\ u \in DOMAIN cache
      BY <1>9, <2>2
    <3>2. cache[u] = StateIn(E, P, u)
      BY <1>7, <3>1 DEF CacheIs
    <3> QED BY <2>2, <3>1, <3>2 DEF StateIn, PresentAfter
  <2> QED BY <2>1, <2>2
<1> QED BY <1>12, <1>13, <1>14 DEF CacheIs

\* The timeline of the topology, the cache of it and the list of the last row, when the
\* units in E are known to the file and those in P are there.
UnitsView(topo, cache, known, E, P, end) ==
    /\ TopologyIs(topo, E, P, end) /\ CacheIs(cache, E, P)
    /\ known = {} \/ known = {P}
    /\ P \in SUBSET AllUnits /\ IsFiniteSet(P) /\ end \in Nat

LEMMA RememberedIs ==
    ASSUME NEW s, NEW E, NEW P \in SUBSET AllUnits, NEW end,
           TopologyIs(s.db.topology, E, P, end), CacheIs(s.ses.cache, E, P)
    PROVE  Remembered(s) = P
<1>1. \A u \in AllUnits : Known(s, u) = StateIn(E, P, u)
  BY KnownIs
<1>2. \A u \in AllUnits : StateIn(E, P, u) = "PRESENT" <=> u \in P
  BY DEF StateIn
<1> QED BY <1>1, <1>2 DEF Remembered

LEMMA ObserveUnitsView ==
    ASSUME NEW s, Shape(s), NEW E, NEW P, NEW end,
           UnitsView(s.db.topology, s.ses.cache, s.ses.known, E, P, end),
           NEW row, NEW u \in SUBSET AllUnits, row.units = {u}, IsFiniteSet(u),
           row.ts \in Nat, end <= row.ts, NEW t, t = ObserveUnits(s, row)
    PROVE  UnitsView(t.db.topology, t.ses.cache, t.ses.known, E \cup u, u, row.ts)
<1>1. /\ TopologyIs(s.db.topology, E, P, end) /\ CacheIs(s.ses.cache, E, P)
      /\ s.ses.known = {} \/ s.ses.known = {P}
      /\ P \in SUBSET AllUnits /\ IsFiniteSet(P) /\ end \in Nat
  BY DEF UnitsView
<1>2. PICK before : before = IF s.ses.known = {} THEN Remembered(s)
                             ELSE UNION s.ses.known
  OBVIOUS
<1>3. before = P
  BY <1>1, <1>2, RememberedIs
<1>4. PICK p : p = Topology(s, row.ts, u, "PRESENT")
  OBVIOUS
<1>5. PICK a : a = Topology(p, row.ts, P \ u, "ABSENT")
  OBVIOUS
<1>6. t = [a EXCEPT !.ses.known = {u}]
  <2>1. UNION row.units = u /\ row.units # {}
    OBVIOUS
  <2>2. ObserveUnits(s, row) =
            [Topology(Topology(s, row.ts, u, "PRESENT"), row.ts, before \ u, "ABSENT")
                EXCEPT !.ses.known = {u}]
    BY <1>2, <2>1 DEF ObserveUnits
  <2> QED BY <1>3, <1>4, <1>5, <2>2
<1>7. "PRESENT" \in States /\ "ABSENT" \in States
  BY DEF States
<1>8. PICK ts \in Nat : ts = row.ts /\ end <= ts
  OBVIOUS
<1>9. PICK F : F = E \cup u
  OBVIOUS
<1>10. PICK Q : Q = PresentAfter(P, u, "PRESENT")
  OBVIOUS
<1>11. TopologyIs(p.db.topology, F, Q, ts) /\ CacheIs(p.ses.cache, F, Q) /\ Shape(p)
  <2>1. p = Topology(s, ts, u, "PRESENT")
    BY <1>4, <1>8
  <2>2. Shape(p)
    BY <2>1, TopologyFrame
  <2>3. TopologyIs(p.db.topology, F, Q, ts) /\ CacheIs(p.ses.cache, F, Q)
    BY <1>1, <1>7, <1>8, <1>9, <1>10, <2>1, TopologyView
  <2> QED BY <2>2, <2>3
<1>12. PICK d : d = P \ u
  OBVIOUS
<1>13. d \in SUBSET AllUnits /\ IsFiniteSet(d)
  BY <1>1, <1>12, FS_Subset
<1>14. PICK G : G = F \cup d
  OBVIOUS
<1>15. PICK L : L = PresentAfter(Q, d, "ABSENT")
  OBVIOUS
<1>16. TopologyIs(a.db.topology, G, L, ts) /\ CacheIs(a.ses.cache, G, L) /\ Shape(a)
  <2>1. a = Topology(p, ts, d, "ABSENT") /\ ts <= ts
    BY <1>5, <1>8, <1>12
  <2>2. Shape(a)
    BY <1>11, <2>1, TopologyFrame
  <2>3. TopologyIs(a.db.topology, G, L, ts) /\ CacheIs(a.ses.cache, G, L)
    BY <1>7, <1>11, <1>13, <1>14, <1>15, <2>1, TopologyView
  <2> QED BY <2>2, <2>3
<1>17. G = E \cup u
  BY <1>1, <1>9, <1>12, <1>14 DEF TopologyIs
<1>18. L = u
  BY <1>10, <1>12, <1>15 DEF PresentAfter
<1>19. /\ t.db.topology = a.db.topology /\ t.ses.cache = a.ses.cache
       /\ t.ses.known = {u}
  BY <1>6, <1>16 DEF Shape, Tables, Memory
<1> QED BY <1>8, <1>16, <1>17, <1>18, <1>19 DEF UnitsView

\* The units the rows' lists name, and those of the latest list.
Ever(R) == UNION {UNION x.units : x \in R}
NowIs(R, P) ==
    \/ P = {} /\ \A x \in R : x.units = {}
    \/ \E x \in R : x.units = {P} /\ \A y \in R : y.units # {} => y.ts <= x.ts
ListsView(topo, cache, known, R) ==
    \E P, end : /\ UnitsView(topo, cache, known, Ever(R), P, end) /\ NowIs(R, P)
                /\ end = 0 \/ \E x \in R : end <= x.ts

LEMMA ObserveUnitsRows ==
    ASSUME NEW s, Shape(s), NEW R,
           ListsView(s.db.topology, s.ses.cache, s.ses.known, R),
           NEW row \in Row, \A x \in R : x.ts \in Nat /\ x.ts < row.ts,
           NEW t, t = ObserveUnits(s, row)
    PROVE  ListsView(t.db.topology, t.ses.cache, t.ses.known, R \cup {row})
<1>1. PICK P, end :
          /\ UnitsView(s.db.topology, s.ses.cache, s.ses.known, Ever(R), P, end)
          /\ NowIs(R, P) /\ (end = 0 \/ \E x \in R : end <= x.ts)
  BY DEF ListsView
<1>2. /\ row.ts \in Nat /\ Maybe(row.units)
      /\ \A u \in row.units : IsFiniteSet(u) /\ u \subseteq AllUnits
  BY RowFields
<1>3. end \in Nat
  BY <1>1 DEF UnitsView
<1>4. end <= row.ts
  BY <1>1, <1>2, <1>3
<1>5. CASE row.units = {}
  <2>1. t = s
    BY <1>5 DEF ObserveUnits
  <2>2. Ever(R \cup {row}) = Ever(R)
    BY <1>5 DEF Ever
  <2>3. NowIs(R \cup {row}, P)
    BY <1>1, <1>5 DEF NowIs
  <2>4. end = 0 \/ \E x \in R \cup {row} : end <= x.ts
    BY <1>1
  <2> QED BY <1>1, <2>1, <2>2, <2>3, <2>4 DEF ListsView
<1>6. CASE row.units # {}
  <2>1. PICK u : row.units = {u}
    BY <1>2, <1>6 DEF Maybe
  <2>2. u \in SUBSET AllUnits /\ IsFiniteSet(u)
    BY <1>2, <2>1
  <2>3. PICK E : E = Ever(R)
    OBVIOUS
  <2>4. UnitsView(t.db.topology, t.ses.cache, t.ses.known, E \cup u, u, row.ts)
    BY <1>1, <1>2, <1>4, <2>1, <2>2, <2>3, ObserveUnitsView
  <2>5. Ever(R \cup {row}) = E \cup u
    BY <2>1, <2>3 DEF Ever
  <2>6. NowIs(R \cup {row}, u)
    <3>1. \A y \in R \cup {row} : y.ts <= row.ts
      BY <1>2
    <3> QED BY <2>1, <3>1 DEF NowIs
  <2>7. \E x \in R \cup {row} : row.ts <= x.ts
    BY <1>2
  <2> QED BY <2>4, <2>5, <2>6, <2>7 DEF ListsView
<1> QED BY <1>5, <1>6

LEMMA WriteRowTopology ==
    ASSUME NEW s, Shape(s), NEW R,
           ListsView(s.db.topology, s.ses.cache, s.ses.known, R),
           NEW row \in Row, \A x \in R : x.ts \in Nat /\ x.ts < row.ts,
           NEW w, w = WriteRow(s, row)
    PROVE  ListsView(w.db.topology, w.ses.cache, w.ses.known, R \cup {row})
<1>1. PICK x : /\ Shape(x) /\ SameTopology(s, x)
               /\ SameTopology(ObserveUnits(x, row), w)
  BY WriteRowStages
<1>2. PICK t : t = ObserveUnits(x, row)
  OBVIOUS
<1>3. ListsView(x.db.topology, x.ses.cache, x.ses.known, R)
  BY <1>1 DEF SameTopology
<1>4. ListsView(t.db.topology, t.ses.cache, t.ses.known, R \cup {row})
  BY <1>1, <1>2, <1>3, ObserveUnitsRows
<1> QED BY <1>1, <1>2, <1>4 DEF SameTopology

TopologyInv ==
    stepped = {} => \A f \in Path :
        ListsView(db[f].topology, Bound(f).cache, Bound(f).known, Measured(f))

LEMMA TopologyBatch ==
    ASSUME Base, Order, TopologyInv, WriteBatch, stepped = {}
    PROVE  ListsView(db'[batchPath].topology, Bound(batchPath)'.cache,
                     Bound(batchPath)'.known, Measured(batchPath)')
<1>1. PICK g, N : Advanced(g, N)
  BY WriteBatchIs
<1>2. /\ N = Len(pending) /\ N \in Nat /\ N > 0
      /\ g[0] = [db |-> db[batchPath], ses |-> Bound(batchPath)]
      /\ \A n \in 1 .. N : g[n] = WriteRow(g[n - 1], pending[n])
      /\ \A n \in 0 .. N : Shape(g[n])
      /\ db'[batchPath].topology = g[N].db.topology /\ Bound(batchPath)' = g[N].ses
  BY <1>1 DEF Advanced, Committed
<1>3. /\ batchPath \in Path /\ DOMAIN pending = 1 .. N
      /\ \A n \in 1 .. N : pending[n] \in Row
  BY <1>2, BatchIs
<1> DEFINE Good(k) == ListsView(g[k].db.topology, g[k].ses.cache, g[k].ses.known, Upto(k))
           T == {k \in Nat : Good(k)}
<1>4. 0 \in T
  <2>1. g[0].db = db[batchPath] /\ g[0].ses = Bound(batchPath)
    BY <1>2
  <2> QED BY <1>3, <2>1, UptoAll DEF TopologyInv
<1>5. ASSUME NEW k \in Nat, k < N, k \in T PROVE k + 1 \in T
  <2>1. g[k + 1] = WriteRow(g[k], pending[k + 1]) /\ Shape(g[k]) /\ k + 1 \in 1 .. N
    BY <1>2, <1>5
  <2>2. Good(k)
    BY <1>5
  <2>3. /\ Upto(k + 1) = Upto(k) \cup {pending[k + 1]}
        /\ \A x \in Upto(k) : x.ts \in Nat /\ x.ts < pending[k + 1].ts
    BY <1>2, <1>5, UptoNext
  <2>4. PICK row : row = pending[k + 1]
    OBVIOUS
  <2>5. PICK R : R = Upto(k)
    OBVIOUS
  <2>6. /\ row \in Row /\ g[k + 1] = WriteRow(g[k], row)
        /\ \A x \in R : x.ts \in Nat /\ x.ts < row.ts
        /\ ListsView(g[k].db.topology, g[k].ses.cache, g[k].ses.known, R)
    BY <1>3, <2>1, <2>2, <2>3, <2>4, <2>5
  <2>7. ListsView(g[k + 1].db.topology, g[k + 1].ses.cache, g[k + 1].ses.known,
                  R \cup {row})
    BY <2>1, <2>6, WriteRowTopology
  <2>8. R \cup {row} = Upto(k + 1)
    BY <2>3, <2>4, <2>5
  <2> QED BY <2>7, <2>8
<1>6. Good(N)
  <2> HIDE DEF Good
  <2>1. \A k \in Nat : k < N /\ k \in T => k + 1 \in T
    BY <1>5
  <2> HIDE DEF T
  <2>2. \A k \in 0 .. N : k \in T
    BY <1>2, <1>4, <2>1, UpTo
  <2>3. N \in T
    BY <1>2, <2>2
  <2> QED BY <2>3 DEF T
<1> QED BY <1>2, <1>6, UptoAll

\* A session that knows nothing knows nothing wrong.
LEMMA ListsForgotten ==
    ASSUME NEW topo, NEW cache, NEW known, NEW R, ListsView(topo, cache, known, R),
           NEW f
    PROVE  ListsView(topo, NewSession(f).cache, NewSession(f).known, R)
<1>1. PICK P, end : /\ UnitsView(topo, cache, known, Ever(R), P, end) /\ NowIs(R, P)
                    /\ end = 0 \/ \E x \in R : end <= x.ts
  BY DEF ListsView
<1>2. NewSession(f).cache = <<>> /\ NewSession(f).known = {}
  BY DEF NewSession
<1>3. DOMAIN <<>> = {}
  OBVIOUS
<1>4. CacheIs(NewSession(f).cache, Ever(R), P)
  BY <1>2, <1>3 DEF CacheIs
<1>5. UnitsView(topo, NewSession(f).cache, NewSession(f).known, Ever(R), P, end)
  BY <1>1, <1>2, <1>4 DEF UnitsView
<1> QED BY <1>1, <1>5 DEF ListsView

LEMMA TopologyInit == Init => TopologyInv
<1> SUFFICES ASSUME Init, NEW f \in Path
             PROVE  ListsView(db[f].topology, Bound(f).cache, Bound(f).known, Measured(f))
  BY DEF TopologyInv
<1>1. db[f].topology = <<>> /\ Measured(f) = {}
  BY InitIs, NothingIn DEF Measured
<1>2. Bound(f) = NewSession(f)
  BY InitIs DEF Bound, NewSession
<1>3. Bound(f).cache = <<>> /\ Bound(f).known = {}
  <2>1. NewSession(f).cache = <<>> /\ NewSession(f).known = {}
    BY DEF NewSession
  <2> QED BY <1>2, <2>1
<1>4. DOMAIN <<>> = {} /\ Len(<<>>) = 0 /\ <<>> \in Seq(Entry) /\ 1 .. 0 = {}
  OBVIOUS
<1>5. TopologyIs(<<>>, {}, {}, 0)
  BY <1>4 DEF TopologyIs
<1>6. Ever({}) = {} /\ NowIs({}, {}) /\ IsFiniteSet({})
  BY FS_EmptySet DEF Ever, NowIs
<1>7. UnitsView(<<>>, <<>>, {}, {}, {}, 0)
  BY <1>4, <1>5, <1>6 DEF UnitsView, CacheIs
<1> QED BY <1>1, <1>3, <1>6, <1>7 DEF ListsView

LEMMA TopologyStep ==
    Base /\ Order /\ TopologyInv /\ [Next]_vars => TopologyInv'
<1> SUFFICES ASSUME Base, Order, TopologyInv, [Next]_vars, stepped' = {},
                    NEW f \in Path
             PROVE  ListsView(db'[f].topology, Bound(f)'.cache, Bound(f)'.known,
                              Measured(f)')
  BY DEF TopologyInv
<1>1. stepped = {}
  BY SetBackIs DEF Next, vars, Sample, WriteBatch, WriteFails, Restart
<1>2. ListsView(db[f].topology, Bound(f).cache, Bound(f).known, Measured(f))
  BY <1>1 DEF TopologyInv
<1>3. ListsView(db[f].topology, NewSession(f).cache, NewSession(f).known, Measured(f))
  BY <1>2, ListsForgotten
<1>4. CASE WriteBatch
  <2>1. CASE f = batchPath
    <3>1. batchPath' = batchPath
      BY <1>4 DEF WriteBatch
    <3>2. ListsView(db'[batchPath].topology, Bound(batchPath)'.cache,
                    Bound(batchPath)'.known, Measured(batchPath)')
      BY <1>1, <1>4, TopologyBatch
    <3>3. Measured(f)' = Measured(batchPath)' /\ Bound(f)' = Bound(batchPath)'
      BY <2>1, <3>1 DEF Measured, Bound, NewSession
    <3> QED BY <2>1, <3>2, <3>3
  <2>2. CASE f # batchPath
    <3>1. db'[f] = db[f] /\ log'[f] = log[f] /\ Bound(f)' = NewSession(f)
      BY <1>4, <2>2, WriteBatchIs
    <3>2. Measured(f)' = Measured(f)
      BY <3>1 DEF Measured
    <3> QED BY <1>3, <3>1, <3>2
  <2> QED BY <2>1, <2>2
<1>5. CASE ~WriteBatch
  <2>1. UNCHANGED <<db, log>> /\ (Bound(f)' = Bound(f) \/ Bound(f)' = NewSession(f))
    BY <1>5, Unwritten, MemoryKept
  <2>2. Measured(f)' = Measured(f)
    BY <2>1 DEF Measured
  <2> QED BY <1>2, <1>3, <2>1, <2>2
<1> QED BY <1>4, <1>5

LEMMA TopologyFromInv == Base /\ Order /\ TopologyInv => TopologyMatchesLists
<1> SUFFICES ASSUME Base, Order, TopologyInv, stepped = {}, NEW f \in Path
             PROVE  LET lists == {n \in DOMAIN log[f] : log[f][n].row.units # {}}
                        now == IF lists = {} THEN {}
                               ELSE UNION log[f][Max(lists)].row.units
                        ever == UNION {UNION log[f][n].row.units : n \in lists}
                        last(u) == Max({n \in DOMAIN db[f].topology :
                                             db[f].topology[n].unit = u})
                    IN  \A u \in ever :
                           (db[f].topology[last(u)].state = "PRESENT") = (u \in now)
  BY DEF TopologyMatchesLists
<1> DEFINE lists == {n \in DOMAIN log[f] : log[f][n].row.units # {}}
           now == IF lists = {} THEN {} ELSE UNION log[f][Max(lists)].row.units
           ever == UNION {UNION log[f][n].row.units : n \in lists}
           own(u) == {n \in DOMAIN db[f].topology : db[f].topology[n].unit = u}
<1>1. PICK P, end :
          /\ UnitsView(db[f].topology, Bound(f).cache, Bound(f).known,
                       Ever(Measured(f)), P, end)
          /\ NowIs(Measured(f), P)
  BY DEF TopologyInv, ListsView
<1>2. PICK topo : topo = db[f].topology
  OBVIOUS
<1>3. TopologyIs(topo, Ever(Measured(f)), P, end)
  BY <1>1, <1>2 DEF UnitsView
<1>4. ever \subseteq Ever(Measured(f))
  BY DEF Ever, Measured
<1>5. ASSUME NEW v \in ever PROVE now = P
  <2>1. lists # {} /\ lists \in SUBSET DOMAIN log[f]
    BY <1>5
  <2>2. Len(log[f]) \in Nat /\ DOMAIN log[f] = 1 .. Len(log[f])
    <3>1. log[f] \in Seq(Logged)
      BY DEF Base
    <3> QED BY <3>1
  <2>3. PICK m \in lists : \A n \in lists : n <= m
    <3>1. lists \in SUBSET Nat /\ \A n \in lists : n <= Len(log[f])
      BY <2>1, <2>2
    <3> HIDE DEF lists
    <3> QED BY <2>1, <2>2, <3>1, Greatest
  <2>4. Max(lists) = m
    <3>1. lists \in SUBSET Int
      BY <2>1, <2>2
    <3> HIDE DEF lists
    <3> QED BY <2>3, <3>1, MaxIs
  <2>5. log[f][m].row \in Measured(f) /\ log[f][m].row.units # {}
    BY <2>3 DEF Measured
  <2>6. PICK x \in Measured(f) :
            x.units = {P} /\ \A y \in Measured(f) : y.units # {} => y.ts <= x.ts
    BY <1>1, <2>5 DEF NowIs
  <2>7. PICK n \in DOMAIN log[f] : x = log[f][n].row
    BY DEF Measured
  <2>8. n \in lists /\ m \in DOMAIN log[f]
    BY <2>3, <2>6, <2>7
  <2>9. n = m
    <3>1. log[f][m].row.ts <= log[f][n].row.ts
      BY <2>5, <2>6, <2>7
    <3>2. n < m => log[f][n].row.ts < log[f][m].row.ts
      BY <2>7, <2>8 DEF Order
    <3>3. log[f][m].row.ts \in Nat /\ log[f][n].row.ts \in Nat
      BY <2>7, <2>8, RowsTyped, RowFields
    <3>4. n <= m /\ n \in Nat /\ m \in Nat
      BY <2>2, <2>3, <2>8
    <3> QED BY ONLY <3>1, <3>2, <3>3, <3>4
  <2>10. now = UNION {P}
    BY <2>1, <2>4, <2>6, <2>7, <2>9
  <2> QED BY <2>10
<1>6. ASSUME NEW u \in ever
      PROVE  (topo[Max(own(u))].state = "PRESENT") = (u \in now)
  <2>1. PICK n \in 1 .. Len(topo) :
            /\ LastEntryOf(topo, Len(topo), u, n)
            /\ topo[n].state = StateIn(Ever(Measured(f)), P, u)
    BY <1>3, <1>4, <1>6 DEF TopologyIs
  <2>2. DOMAIN topo = 1 .. Len(topo) /\ Len(topo) \in Nat
    BY <1>3 DEF TopologyIs
  <2>3. n \in own(u) /\ own(u) \in SUBSET Int /\ \A m \in own(u) : m <= n
    BY <1>2, <2>1, <2>2 DEF LastEntryOf
  <2>4. Max(own(u)) = n
    <3>1. PICK o : o = own(u)
      OBVIOUS
    <3>2. n \in o /\ o \in SUBSET Int /\ \A m \in o : m <= n
      BY <2>3, <3>1
    <3>3. Max(o) = n
      BY <3>2, MaxIs
    <3> QED BY <3>1, <3>3
  <2>5. now = P /\ u \in Ever(Measured(f))
    BY <1>4, <1>5, <1>6
  <2>6. topo[Max(own(u))].state = StateIn(Ever(Measured(f)), P, u)
    BY <2>1, <2>4
  <2> HIDE DEF now, own
  <2> QED BY <2>5, <2>6 DEF StateIn
<1> QED BY <1>2, <1>6

(***************************************************************************)
(* The state intervals                                                      *)
(***************************************************************************)

Kinds == {"state", "quality"}
Values == {k.state : k \in Kind} \cup UNION {k.quality : k \in Kind}
Interval == [kind : Kinds, run : Nat, start : Int, end : Int, value : Values]

\* The memory's open intervals of the run r are open in the table, none began after
\* top, and no interval ends before it begins.
Tracked(iv, open, top, r) ==
    /\ iv \in Seq(Interval) /\ top \in Int
    /\ \A k \in DOMAIN open :
           /\ k \in Kinds /\ open[k].value # ""
           /\ open[k].id \in DOMAIN iv
           /\ iv[open[k].id].kind = k /\ iv[open[k].id].run = r
           /\ iv[open[k].id].value = open[k].value
           /\ iv[open[k].id].end = Open /\ iv[open[k].id].start <= top
    /\ \A n \in DOMAIN iv : iv[n].end = Open \/ iv[n].end >= iv[n].start

\* The intervals in force, and that they are what was observed.
InForce(iv, kind, r, t) ==
    {n \in DOMAIN iv : /\ iv[n].kind = kind /\ iv[n].run = r /\ iv[n].start <= t
                       /\ iv[n].end = Open \/ t < iv[n].end}
Shows(iv, kind, r, t, value) ==
    IF value = "" THEN InForce(iv, kind, r, t) = {}
    ELSE \E n : InForce(iv, kind, r, t) = {n} /\ iv[n].value = value

\* The intervals of one kind are known to the memory and show the observations in O.
Settled(iv, open, top, r, kind, O) ==
    /\ \A n \in DOMAIN iv : iv[n].kind = kind /\ iv[n].run = r =>
           /\ iv[n].start <= top
           /\ iv[n].end = Open => kind \in DOMAIN open /\ open[kind].id = n
           /\ iv[n].end # Open => iv[n].end <= top
    /\ \A o \in O : o.ts \in Int /\ o.ts <= top /\ Shows(iv, kind, r, o.ts, o.value)

Earlier(O, ts) == \A o \in O : o.ts < ts
\* They show, beside O, the value of the kind that is observed at ts.
SettledWith(iv, open, ts, r, k, O, kind, value) ==
    Settled(iv, open, ts, r, k, O) /\ (k = kind => Shows(iv, k, r, ts, value))

\* Only the intervals of the run r differ, and the new ones are its own.
OnlyOf(r, iv, new) ==
    /\ DOMAIN iv \subseteq DOMAIN new
    /\ \A n \in DOMAIN iv : new[n].run = iv[n].run /\ (iv[n].run # r => new[n] = iv[n])
    /\ \A n \in DOMAIN new \ DOMAIN iv : new[n].run = r

LEMMA IntervalFields ==
    ASSUME NEW iv \in Seq(Interval), NEW n \in DOMAIN iv
    PROVE  /\ iv[n] \in Interval /\ iv[n].start \in Int /\ iv[n].end \in Int
           /\ iv[n].run \in Nat
<1>1. iv[n] \in Interval
  OBVIOUS
<1> QED BY <1>1 DEF Interval

\* The end of an interval that is open.
Ended(iv, new, id, ts) ==
    /\ new \in Seq(Interval) /\ DOMAIN new = DOMAIN iv /\ Len(new) = Len(iv)
    /\ \A n \in DOMAIN iv : n # id => new[n] = iv[n]
    /\ new[id].kind = iv[id].kind /\ new[id].run = iv[id].run
    /\ new[id].start = iv[id].start /\ new[id].value = iv[id].value
    /\ new[id].end = ts

LEMMA FinishIs ==
    ASSUME NEW iv \in Seq(Interval), NEW id \in DOMAIN iv, iv[id].end = Open,
           NEW ts \in Nat, NEW new, new = Finish(iv, id, ts)
    PROVE  Ended(iv, new, id, ts)
<1>1. PICK i : i = iv[id]
  OBVIOUS
<1>2. i \in Interval /\ i.end = Open
  BY <1>1
<1>3. PICK j : j = [i EXCEPT !.end = ts]
  OBVIOUS
<1>4. j \in Interval
  <2>1. j = [kind |-> i.kind, run |-> i.run, start |-> i.start, end |-> ts,
             value |-> i.value]
    BY <1>2, <1>3 DEF Interval
  <2>2. /\ i.kind \in Kinds /\ i.run \in Nat /\ i.start \in Int
        /\ i.value \in Values /\ ts \in Int
    BY <1>2 DEF Interval
  <2> QED BY ONLY <2>1, <2>2 DEF Interval
<1>5. j.end = ts /\ j.kind = i.kind /\ j.run = i.run /\ j.start = i.start
      /\ j.value = i.value
  BY <1>2, <1>3 DEF Interval
<1>6. new = [iv EXCEPT ![id] = j]
  BY <1>1, <1>2, <1>3 DEF Finish
<1>7. /\ new \in Seq(Interval) /\ DOMAIN new = DOMAIN iv /\ Len(new) = Len(iv)
      /\ \A n \in DOMAIN iv : new[n] = IF n = id THEN j ELSE iv[n]
  BY <1>4, <1>6
<1> QED BY <1>1, <1>5, <1>7 DEF Ended

Longer(iv, new, e) ==
    /\ new \in Seq(Interval) /\ Len(new) \in Nat
    /\ DOMAIN new = DOMAIN iv \cup {Len(new)} /\ Len(new) \notin DOMAIN iv
    /\ \A n \in DOMAIN iv : new[n] = iv[n]
    /\ new[Len(new)] = e

LEMMA AppendIs ==
    ASSUME NEW iv \in Seq(Interval), NEW e \in Interval, NEW new, new = Append(iv, e)
    PROVE  Longer(iv, new, e)
<1>1. /\ Len(iv) \in Nat /\ DOMAIN iv = 1 .. Len(iv)
      /\ new \in Seq(Interval) /\ Len(new) = Len(iv) + 1 /\ DOMAIN new = 1 .. Len(iv) + 1
      /\ \A n \in 1 .. Len(iv) : new[n] = iv[n]
      /\ new[Len(iv) + 1] = e
  OBVIOUS
<1>2. 1 .. Len(iv) + 1 = 1 .. Len(iv) \cup {Len(iv) + 1}
  BY <1>1
<1>3. Len(iv) + 1 \notin 1 .. Len(iv)
  BY <1>1
<1> QED BY <1>1, <1>2, <1>3 DEF Longer

\* What is in force at t depends on the intervals of the kind and the run alone.
LEMMA ShowsSame ==
    ASSUME NEW iv, NEW new, NEW kind, NEW r, NEW t, NEW v,
           DOMAIN iv \subseteq DOMAIN new,
           \A n \in DOMAIN iv : /\ new[n].kind = iv[n].kind /\ new[n].run = iv[n].run
                                /\ iv[n].kind = kind /\ iv[n].run = r => new[n] = iv[n],
           \A n \in DOMAIN new \ DOMAIN iv : ~(new[n].kind = kind /\ new[n].run = r),
           Shows(iv, kind, r, t, v)
    PROVE  Shows(new, kind, r, t, v)
<1>1. InForce(new, kind, r, t) = InForce(iv, kind, r, t)
  BY DEF InForce
<1>2. \A n \in InForce(iv, kind, r, t) : new[n] = iv[n]
  BY DEF InForce
<1> QED BY <1>1, <1>2 DEF Shows

LEMMA ShowsOther ==
    ASSUME NEW iv, NEW new, NEW r, OnlyOf(r, iv, new), NEW kind, NEW other, other # r,
           NEW t, NEW v, Shows(iv, kind, other, t, v)
    PROVE  Shows(new, kind, other, t, v)
<1>1. InForce(new, kind, other, t) = InForce(iv, kind, other, t)
  BY DEF InForce, OnlyOf
<1>2. \A n \in InForce(iv, kind, other, t) : new[n] = iv[n]
  BY DEF InForce, OnlyOf
<1> QED BY <1>1, <1>2 DEF Shows

LEMMA OnlyOfTrans ==
    ASSUME NEW r, NEW a, NEW b, NEW c, OnlyOf(r, a, b), OnlyOf(r, b, c)
    PROVE  OnlyOf(r, a, c)
BY DEF OnlyOf

\* What a kind's observation does: nothing, or it ends the open interval and, when the
\* value is not empty, opens the next.
Closing(iv, open, mid, left, kind, ts) ==
    /\ left = Without(open, kind)
    /\ mid = IF kind \in DOMAIN open THEN Finish(iv, open[kind].id, ts) ELSE iv
Opening(mid, left, new, more, kind, value, ts, r) ==
    /\ new = Append(mid, [kind |-> kind, run |-> r, start |-> ts, end |-> Open,
                          value |-> value])
    /\ more = With(left, kind, [value |-> value, id |-> Len(new)])

LEMMA ClosingTracked ==
    ASSUME NEW iv, NEW open, NEW r, NEW ts \in Nat, Tracked(iv, open, ts, r),
           NEW kind, NEW mid, NEW left, Closing(iv, open, mid, left, kind, ts)
    PROVE  Tracked(mid, left, ts, r) /\ OnlyOf(r, iv, mid)
<1>1. /\ DOMAIN left = DOMAIN open \ {kind}
      /\ \A k \in DOMAIN left : left[k] = open[k] /\ k # kind
  BY DEF Closing, Without
<1>2. CASE kind \in DOMAIN open
  <2>1. PICK id : id = open[kind].id
    OBVIOUS
  <2>2. /\ id \in DOMAIN iv /\ iv[id].end = Open /\ iv[id].run = r
        /\ iv[id].start <= ts /\ iv[id].kind = kind
    BY <1>2, <2>1 DEF Tracked
  <2>3. Ended(iv, mid, id, ts)
    BY <1>2, <2>1, <2>2, FinishIs DEF Closing, Tracked
  <2>4. ASSUME NEW k \in DOMAIN left PROVE open[k].id # id
    BY <1>1, <2>2 DEF Tracked
  <2>5. ASSUME NEW k \in DOMAIN left
        PROVE  /\ k \in Kinds /\ left[k].value # "" /\ left[k].id \in DOMAIN mid
               /\ mid[left[k].id] = iv[left[k].id]
               /\ iv[left[k].id].kind = k /\ iv[left[k].id].run = r
               /\ iv[left[k].id].value = left[k].value
               /\ iv[left[k].id].end = Open /\ iv[left[k].id].start <= ts
    <3>1. k \in DOMAIN open /\ left[k] = open[k]
      BY <1>1
    <3>2. /\ k \in Kinds /\ open[k].value # "" /\ open[k].id \in DOMAIN iv
          /\ iv[open[k].id].kind = k /\ iv[open[k].id].run = r
          /\ iv[open[k].id].value = open[k].value
          /\ iv[open[k].id].end = Open /\ iv[open[k].id].start <= ts
      BY <3>1 DEF Tracked
    <3>3. open[k].id \in DOMAIN mid /\ mid[open[k].id] = iv[open[k].id]
      BY <2>3, <2>4, <3>2 DEF Ended
    <3> QED BY ONLY <3>1, <3>2, <3>3
  <2>6. ASSUME NEW n \in DOMAIN mid PROVE mid[n].end = Open \/ mid[n].end >= mid[n].start
    <3>1. CASE n = id
      <4>1. mid[n].end = ts /\ mid[n].start = iv[id].start
        BY <2>3, <3>1 DEF Ended
      <4>2. iv[id].start \in Int
        BY <2>2, IntervalFields DEF Tracked
      <4> QED BY ONLY <2>2, <4>1, <4>2, ts \in Nat
    <3>2. CASE n # id
      BY <2>3, <3>2 DEF Tracked, Ended
    <3> QED BY <3>1, <3>2
  <2>7. OnlyOf(r, iv, mid)
    BY <2>2, <2>3 DEF OnlyOf, Ended
  <2>8. mid \in Seq(Interval) /\ ts \in Int
    BY <2>3 DEF Ended
  <2> QED BY <2>5, <2>6, <2>7, <2>8 DEF Tracked
<1>3. CASE kind \notin DOMAIN open
  <2>1. mid = iv
    BY <1>3 DEF Closing
  <2> QED BY <1>1, <2>1 DEF Tracked, OnlyOf
<1> QED BY <1>2, <1>3

LEMMA ClosingSettled ==
    ASSUME NEW iv, NEW open, NEW r, NEW ts \in Nat, Tracked(iv, open, ts, r),
           NEW kind, NEW mid, NEW left, Closing(iv, open, mid, left, kind, ts),
           NEW k, NEW O, Settled(iv, open, ts, r, k, O),
           k = kind => Earlier(O, ts)
    PROVE  Settled(mid, left, ts, r, k, O)
<1>1. /\ DOMAIN left = DOMAIN open \ {kind}
      /\ \A j \in DOMAIN left : left[j] = open[j]
  BY DEF Closing, Without
<1>2. CASE kind \in DOMAIN open
  <2>1. PICK id : id = open[kind].id
    OBVIOUS
  <2>2. /\ id \in DOMAIN iv /\ iv[id].end = Open /\ iv[id].run = r
        /\ iv[id].start <= ts /\ iv[id].kind = kind
    BY <1>2, <2>1 DEF Tracked
  <2>3. Ended(iv, mid, id, ts)
    BY <1>2, <2>1, <2>2, FinishIs DEF Closing, Tracked
  <2>4. ts # Open
    BY DEF Open
  <2>5. CASE k = kind
    <3>1. ASSUME NEW n \in DOMAIN mid, mid[n].kind = k, mid[n].run = r
          PROVE  mid[n].start <= ts /\ mid[n].end # Open /\ mid[n].end <= ts
      <4>1. CASE n = id
        BY <2>2, <2>3, <2>4, <4>1 DEF Ended
      <4>2. CASE n # id
        <5>1. mid[n] = iv[n] /\ n \in DOMAIN iv
          BY <2>3, <4>2 DEF Ended
        <5>2. iv[n].end # Open
          BY <2>1, <2>5, <3>1, <4>2, <5>1 DEF Settled
        <5> QED BY <3>1, <5>1, <5>2 DEF Settled
      <4> QED BY <4>1, <4>2
    <3>2. ASSUME NEW o \in O PROVE Shows(mid, k, r, o.ts, o.value)
      <4>1. Shows(iv, k, r, o.ts, o.value) /\ o.ts < ts
        BY <2>5 DEF Settled, Earlier
      <4>2. InForce(mid, k, r, o.ts) = InForce(iv, k, r, o.ts)
        <5>1. ASSUME NEW n \in DOMAIN iv, n # id
              PROVE  n \in InForce(mid, k, r, o.ts) <=> n \in InForce(iv, k, r, o.ts)
          BY <2>3, <5>1 DEF InForce, Ended
        <5>2. id \in InForce(mid, k, r, o.ts) <=> id \in InForce(iv, k, r, o.ts)
          BY <2>2, <2>3, <4>1 DEF InForce, Ended
        <5>3. InForce(mid, k, r, o.ts) \subseteq DOMAIN iv
          BY <2>3 DEF InForce, Ended
        <5>4. InForce(iv, k, r, o.ts) \subseteq DOMAIN iv
          BY DEF InForce
        <5> QED BY <5>1, <5>2, <5>3, <5>4
      <4>3. \A n \in InForce(iv, k, r, o.ts) : mid[n].value = iv[n].value
        BY <2>3 DEF Ended, InForce
      <4> QED BY <4>1, <4>2, <4>3 DEF Shows
    <3> QED BY <3>1, <3>2 DEF Settled
  <2>6. CASE k # kind
    <3>1. \A n \in DOMAIN iv : /\ mid[n].kind = iv[n].kind /\ mid[n].run = iv[n].run
                               /\ iv[n].kind = k /\ iv[n].run = r => mid[n] = iv[n]
      BY <2>2, <2>3, <2>6 DEF Ended
    <3>2. DOMAIN mid = DOMAIN iv
      BY <2>3 DEF Ended
    <3>3. ASSUME NEW o \in O PROVE Shows(mid, k, r, o.ts, o.value)
      <4>1. Shows(iv, k, r, o.ts, o.value)
        BY DEF Settled
      <4> QED BY <3>1, <3>2, <4>1, ShowsSame
    <3> QED BY <1>1, <2>6, <3>1, <3>2, <3>3 DEF Settled
  <2> QED BY <2>5, <2>6
<1>3. CASE kind \notin DOMAIN open
  <2>1. mid = iv
    BY <1>3 DEF Closing
  <2> QED BY <1>1, <1>3, <2>1 DEF Settled
<1> QED BY <1>2, <1>3

LEMMA OpeningTracked ==
    ASSUME NEW mid, NEW left, NEW r \in Nat, NEW ts \in Nat, Tracked(mid, left, ts, r),
           NEW kind \in Kinds, kind \notin DOMAIN left,
           NEW value \in Values, value # "",
           NEW new, NEW more, Opening(mid, left, new, more, kind, value, ts, r)
    PROVE  Tracked(new, more, ts, r) /\ OnlyOf(r, mid, new)
<1>1. PICK e : e = [kind |-> kind, run |-> r, start |-> ts, end |-> Open, value |-> value]
  OBVIOUS
<1>2. e \in Interval
  <2>1. ts \in Int /\ Open \in Int
    BY ONLY ts \in Nat DEF Open
  <2> QED BY ONLY <1>1, <2>1, kind \in Kinds, r \in Nat, value \in Values DEF Interval
<1>3. Longer(mid, new, e)
  BY <1>1, <1>2, AppendIs DEF Tracked, Opening
<1>4. PICK id : id = Len(new)
  OBVIOUS
<1>5. /\ DOMAIN more = DOMAIN left \cup {kind} /\ more[kind].value = value
      /\ more[kind].id = id /\ \A k \in DOMAIN left : more[k] = left[k]
  BY <1>4 DEF Opening, With
<1>6. /\ e.kind = kind /\ e.run = r /\ e.start = ts /\ e.end = Open /\ e.value = value
  BY <1>1
<1>7. /\ new \in Seq(Interval) /\ DOMAIN new = DOMAIN mid \cup {id} /\ id \notin DOMAIN mid
      /\ \A n \in DOMAIN mid : new[n] = mid[n]
      /\ new[id] = e
  BY <1>3, <1>4 DEF Longer
<1>8. ASSUME NEW k \in DOMAIN left
      PROVE  /\ k \in Kinds /\ more[k].value # "" /\ more[k].id \in DOMAIN new
             /\ new[more[k].id].kind = k /\ new[more[k].id].run = r
             /\ new[more[k].id].value = more[k].value
             /\ new[more[k].id].end = Open /\ new[more[k].id].start <= ts
  <2>1. more[k] = left[k]
    BY <1>5
  <2>2. /\ k \in Kinds /\ left[k].value # "" /\ left[k].id \in DOMAIN mid
        /\ mid[left[k].id].kind = k /\ mid[left[k].id].run = r
        /\ mid[left[k].id].value = left[k].value
        /\ mid[left[k].id].end = Open /\ mid[left[k].id].start <= ts
    BY DEF Tracked
  <2>3. new[left[k].id] = mid[left[k].id] /\ left[k].id \in DOMAIN new
    BY <1>7, <2>2
  <2> QED BY <2>1, <2>2, <2>3
<1>9. ts \in Int /\ ts <= ts
  BY ONLY ts \in Nat
<1>10. ASSUME NEW n \in DOMAIN new PROVE new[n].end = Open \/ new[n].end >= new[n].start
  BY <1>6, <1>7 DEF Tracked
<1>11. ASSUME NEW k \in DOMAIN more
       PROVE  /\ k \in Kinds /\ more[k].value # "" /\ more[k].id \in DOMAIN new
              /\ new[more[k].id].kind = k /\ new[more[k].id].run = r
              /\ new[more[k].id].value = more[k].value
              /\ new[more[k].id].end = Open /\ new[more[k].id].start <= ts
  BY <1>5, <1>6, <1>7, <1>8, <1>9
<1>12. OnlyOf(r, mid, new)
  BY <1>6, <1>7 DEF OnlyOf
<1> QED BY <1>7, <1>9, <1>10, <1>11, <1>12 DEF Tracked

LEMMA OpeningSettled ==
    ASSUME NEW mid, NEW left, NEW r \in Nat, NEW ts \in Nat, Tracked(mid, left, ts, r),
           NEW kind \in Kinds, kind \notin DOMAIN left,
           NEW value \in Values, value # "",
           NEW new, NEW more, Opening(mid, left, new, more, kind, value, ts, r),
           NEW k, NEW O, Settled(mid, left, ts, r, k, O),
           k = kind => Earlier(O, ts)
    PROVE  SettledWith(new, more, ts, r, k, O, kind, value)
<1>1. PICK e : e = [kind |-> kind, run |-> r, start |-> ts, end |-> Open, value |-> value]
  OBVIOUS
<1>2. e \in Interval
  <2>1. ts \in Int /\ Open \in Int
    BY ONLY ts \in Nat DEF Open
  <2> QED BY ONLY <1>1, <2>1, kind \in Kinds, r \in Nat, value \in Values DEF Interval
<1>3. Longer(mid, new, e)
  BY <1>1, <1>2, AppendIs DEF Tracked, Opening
<1>4. PICK id : id = Len(new)
  OBVIOUS
<1>5. /\ DOMAIN more = DOMAIN left \cup {kind}
      /\ more[kind].id = id /\ \A j \in DOMAIN left : more[j] = left[j]
  BY <1>4 DEF Opening, With
<1>6. /\ e.kind = kind /\ e.run = r /\ e.start = ts /\ e.end = Open /\ e.value = value
  BY <1>1
<1>7. /\ new \in Seq(Interval) /\ DOMAIN new = DOMAIN mid \cup {id} /\ id \notin DOMAIN mid
      /\ \A n \in DOMAIN mid : new[n] = mid[n]
      /\ new[id] = e
  BY <1>3, <1>4 DEF Longer
<1>8. ts <= ts
  BY ONLY ts \in Nat
<1>9. CASE k = kind
  <2>1. ASSUME NEW n \in DOMAIN mid, mid[n].kind = k, mid[n].run = r
        PROVE  mid[n].start <= ts /\ mid[n].end # Open /\ mid[n].end <= ts
    BY <1>9, <2>1 DEF Settled
  <2>2. ASSUME NEW o \in O PROVE Shows(new, k, r, o.ts, o.value)
    <3>1. o.ts < ts /\ o.ts \in Int /\ Shows(mid, k, r, o.ts, o.value)
      BY <1>9 DEF Settled, Earlier
    <3>2. ~(ts <= o.ts)
      BY ONLY <3>1, ts \in Nat
    <3>3. InForce(new, k, r, o.ts) = InForce(mid, k, r, o.ts)
      BY <1>6, <1>7, <3>2 DEF InForce
    <3>4. \A n \in InForce(mid, k, r, o.ts) : new[n] = mid[n]
      BY <1>7 DEF InForce
    <3> QED BY <3>1, <3>3, <3>4 DEF Shows
  <2>3. InForce(new, k, r, ts) = {id}
    <3>1. ASSUME NEW n \in DOMAIN mid, mid[n].kind = k, mid[n].run = r
          PROVE  ~(ts < mid[n].end)
      <4>1. mid[n].end \in Int /\ mid[n].end <= ts
        BY <2>1, <3>1, IntervalFields DEF Tracked
      <4> QED BY ONLY <4>1, ts \in Nat
    <3> QED BY <1>6, <1>7, <1>8, <1>9, <2>1, <3>1 DEF InForce
  <2>4. Shows(new, k, r, ts, value)
    BY <1>6, <1>7, <2>3 DEF Shows
  <2>5. ASSUME NEW n \in DOMAIN new, new[n].kind = k, new[n].run = r
        PROVE  /\ new[n].start <= ts
               /\ new[n].end = Open => k \in DOMAIN more /\ more[k].id = n
               /\ new[n].end # Open => new[n].end <= ts
    BY <1>5, <1>6, <1>7, <1>8, <1>9, <2>1, <2>5
  <2>6. Settled(new, more, ts, r, k, O)
    BY <2>2, <2>5 DEF Settled
  <2> QED BY <2>4, <2>6 DEF SettledWith
<1>10. CASE k # kind
  <2>1. ASSUME NEW o \in O PROVE Shows(new, k, r, o.ts, o.value)
    <3>1. Shows(mid, k, r, o.ts, o.value)
      BY DEF Settled
    <3>2. /\ DOMAIN mid \subseteq DOMAIN new
          /\ \A n \in DOMAIN mid : /\ new[n].kind = mid[n].kind /\ new[n].run = mid[n].run
                                   /\ mid[n].kind = k /\ mid[n].run = r => new[n] = mid[n]
          /\ \A n \in DOMAIN new \ DOMAIN mid : ~(new[n].kind = k /\ new[n].run = r)
      BY <1>6, <1>7, <1>10
    <3> QED BY <3>1, <3>2, ShowsSame
  <2>2. \A n \in DOMAIN new : new[n].kind = k => n \in DOMAIN mid /\ new[n] = mid[n]
    BY <1>6, <1>7, <1>10
  <2>3. \A n \in DOMAIN mid : mid[n].kind = k /\ mid[n].run = r =>
           /\ mid[n].start <= ts
           /\ mid[n].end = Open => k \in DOMAIN more /\ more[k].id = n
           /\ mid[n].end # Open => mid[n].end <= ts
    BY <1>5 DEF Settled
  <2>4. \A n \in DOMAIN new : new[n].kind = k /\ new[n].run = r =>
           /\ new[n].start <= ts
           /\ new[n].end = Open => k \in DOMAIN more /\ more[k].id = n
           /\ new[n].end # Open => new[n].end <= ts
    BY <2>2, <2>3
  <2>5. \A o \in O : o.ts \in Int /\ o.ts <= ts
    BY DEF Settled
  <2>6. \A o \in O : o.ts \in Int /\ o.ts <= ts /\ Shows(new, k, r, o.ts, o.value)
    BY <2>1, <2>5
  <2>7. Settled(new, more, ts, r, k, O)
    BY ONLY <2>4, <2>6 DEF Settled
  <2> QED BY <1>10, <2>7 DEF SettledWith
<1> QED BY <1>9, <1>10

\* The cases of an observation.
KindStep(iv, open, new, more, kind, value, ts, r) ==
    \/ /\ kind \in DOMAIN open /\ open[kind].value = value
       /\ new = iv /\ more = open
    \/ \E mid, left :
           /\ Closing(iv, open, mid, left, kind, ts) /\ kind \notin DOMAIN left
           /\ \/ value = "" /\ new = mid /\ more = left
              \/ value # "" /\ Opening(mid, left, new, more, kind, value, ts, r)

LEMMA WithWithout ==
    ASSUME NEW f, NEW x, NEW v
    PROVE  With(Without(f, x), x, v) = With(f, x, v) /\ x \notin DOMAIN Without(f, x)
<1>1. DOMAIN Without(f, x) \cup {x} = DOMAIN f \cup {x}
  BY DEF Without
<1>2. \A y \in DOMAIN f \cup {x} : y # x => Without(f, x)[y] = f[y]
  BY DEF Without
<1>3. x \notin DOMAIN Without(f, x)
  BY DEF Without
<1> QED BY <1>1, <1>2, <1>3 DEF With

LEMMA ObserveKindIs ==
    ASSUME NEW s, Shape(s), NEW kind, NEW value, NEW ts, NEW t,
           t = ObserveKind(s, kind, value, ts)
    PROVE  KindStep(s.db.intervals, s.ses.open, t.db.intervals, t.ses.open, kind, value,
                    ts, run)
<1>1. PICK iv : iv = s.db.intervals
  OBVIOUS
<1>2. PICK open : open = s.ses.open
  OBVIOUS
<1>3. PICK left : left = Without(open, kind)
  OBVIOUS
<1>4. PICK mid : mid = IF kind \in DOMAIN open THEN Finish(iv, open[kind].id, ts) ELSE iv
  OBVIOUS
<1>5. PICK new : new = Append(mid, [kind |-> kind, run |-> run, start |-> ts,
                                    end |-> Open, value |-> value])
  OBVIOUS
<1>6. PICK more : more = With(left, kind, [value |-> value, id |-> Len(new)])
  OBVIOUS
<1>7. more = With(open, kind, [value |-> value, id |-> Len(new)])
      /\ kind \notin DOMAIN left
  BY <1>3, <1>6, WithWithout
<1>8. Closing(iv, open, mid, left, kind, ts)
  BY <1>3, <1>4 DEF Closing
<1>9. Opening(mid, left, new, more, kind, value, ts, run)
  BY <1>5, <1>6 DEF Opening
<1>10. t = IF kind \in DOMAIN open /\ open[kind].value = value THEN s
           ELSE IF value = "" THEN [s EXCEPT !.db.intervals = mid, !.ses.open = left]
           ELSE [s EXCEPT !.db.intervals = new, !.ses.open = more]
  BY <1>1, <1>2, <1>3, <1>4, <1>5, <1>7 DEF ObserveKind
<1>11. \/ kind \in DOMAIN open /\ open[kind].value = value
             /\ t.db.intervals = iv /\ t.ses.open = open
       \/ value = "" /\ t.db.intervals = mid /\ t.ses.open = left
       \/ value # "" /\ t.db.intervals = new /\ t.ses.open = more
  BY <1>1, <1>2, <1>10 DEF Shape, Tables, Memory
<1>12. KindStep(iv, open, t.db.intervals, t.ses.open, kind, value, ts, run)
  BY <1>7, <1>8, <1>9, <1>11 DEF KindStep
<1> QED BY <1>1, <1>2, <1>12

LEMMA KindTracked ==
    ASSUME NEW iv, NEW open, NEW r \in Nat, NEW ts \in Nat, Tracked(iv, open, ts, r),
           NEW kind \in Kinds, NEW value \in Values, NEW new, NEW more,
           KindStep(iv, open, new, more, kind, value, ts, r)
    PROVE  Tracked(new, more, ts, r) /\ OnlyOf(r, iv, new)
<1>1. CASE new = iv /\ more = open
  BY <1>1 DEF OnlyOf
<1>2. ASSUME NEW mid, NEW left, Closing(iv, open, mid, left, kind, ts),
             kind \notin DOMAIN left,
             \/ value = "" /\ new = mid /\ more = left
             \/ value # "" /\ Opening(mid, left, new, more, kind, value, ts, r)
      PROVE  Tracked(new, more, ts, r) /\ OnlyOf(r, iv, new)
  <2>1. Tracked(mid, left, ts, r) /\ OnlyOf(r, iv, mid)
    BY <1>2, ClosingTracked
  <2>2. CASE value # "" /\ Opening(mid, left, new, more, kind, value, ts, r)
    <3>1. Tracked(new, more, ts, r) /\ OnlyOf(r, mid, new)
      BY <1>2, <2>1, <2>2, OpeningTracked
    <3> QED BY <2>1, <3>1, OnlyOfTrans
  <2> QED BY <1>2, <2>1, <2>2
<1> QED BY <1>1, <1>2 DEF KindStep

Observation(ts, value) == [ts |-> ts, value |-> value]

\* The observation itself is shown too.
LEMMA KindSettled ==
    ASSUME NEW iv, NEW open, NEW r \in Nat, NEW ts \in Nat, Tracked(iv, open, ts, r),
           NEW kind \in Kinds, NEW value \in Values, NEW new, NEW more,
           KindStep(iv, open, new, more, kind, value, ts, r),
           NEW k, NEW O, Settled(iv, open, ts, r, k, O),
           k = kind => Earlier(O, ts)
    PROVE  SettledWith(new, more, ts, r, k, O, kind, value)
<1>1. CASE kind \in DOMAIN open /\ open[kind].value = value /\ new = iv /\ more = open
  <2>1. SUFFICES ASSUME k = kind PROVE Shows(iv, k, r, ts, value)
    BY <1>1 DEF SettledWith
  <2>2. PICK id : id = open[kind].id
    OBVIOUS
  <2>3. /\ id \in DOMAIN iv /\ iv[id].kind = kind /\ iv[id].run = r
        /\ iv[id].value = value /\ value # "" /\ iv[id].end = Open /\ iv[id].start <= ts
    BY <1>1, <2>2 DEF Tracked
  <2>4. ASSUME NEW n \in DOMAIN iv, iv[n].kind = kind, iv[n].run = r, n # id
        PROVE  iv[n].end # Open /\ ~(ts < iv[n].end)
    <3>1. iv[n].end # Open /\ iv[n].end <= ts /\ iv[n].end \in Int
      BY <2>1, <2>2, <2>4, IntervalFields DEF Settled, Tracked
    <3> QED BY ONLY <3>1, ts \in Nat
  <2>5. InForce(iv, k, r, ts) = {id}
    BY <2>1, <2>3, <2>4 DEF InForce
  <2> QED BY <2>3, <2>5 DEF Shows
<1>2. ASSUME NEW mid, NEW left, Closing(iv, open, mid, left, kind, ts),
             kind \notin DOMAIN left,
             \/ value = "" /\ new = mid /\ more = left
             \/ value # "" /\ Opening(mid, left, new, more, kind, value, ts, r)
      PROVE  SettledWith(new, more, ts, r, k, O, kind, value)
  <2>1. Tracked(mid, left, ts, r)
    BY <1>2, ClosingTracked
  <2>2. Settled(mid, left, ts, r, k, O)
    BY <1>2, ClosingSettled
  <2>3. CASE value # "" /\ Opening(mid, left, new, more, kind, value, ts, r)
    <3>1. value # "" /\ Opening(mid, left, new, more, kind, value, ts, r)
      BY <2>3
    <3>2. kind \notin DOMAIN left /\ (k = kind => Earlier(O, ts))
      BY <1>2
    <3> QED BY ONLY <2>1, <2>2, <3>1, <3>2, r \in Nat, ts \in Nat, kind \in Kinds,
                    value \in Values, OpeningSettled
  <2>4. CASE value = "" /\ new = mid /\ more = left
    <3>1. SUFFICES ASSUME k = kind PROVE InForce(mid, k, r, ts) = {}
      BY <2>2, <2>4 DEF Shows, SettledWith
    <3>2. ASSUME NEW n \in DOMAIN mid, mid[n].kind = kind, mid[n].run = r
          PROVE  mid[n].end # Open /\ ~(ts < mid[n].end)
      <4>1. mid[n].end # Open /\ mid[n].end <= ts /\ mid[n].end \in Int
        BY <1>2, <2>1, <2>2, <3>1, <3>2, IntervalFields DEF Settled, Tracked
      <4> QED BY ONLY <4>1, ts \in Nat
    <3> QED BY <3>1, <3>2 DEF InForce
  <2> QED BY <1>2, <2>3, <2>4
<1> QED BY <1>1, <1>2 DEF KindStep

LEMMA RowValues ==
    ASSUME NEW row \in Row
    PROVE  row.state \in Values /\ row.quality \subseteq Values
<1>1. PICK k \in Kind, t \in 0 .. MaxTime, p \in Nat :
          row = [ts |-> t, state |-> k.state, quality |-> k.quality,
                 power |-> k.power, config |-> k.config, units |-> k.units,
                 publish |-> p]
  BY DEF Row
<1>2. row.state = k.state /\ row.quality = k.quality
  BY <1>1
<1> QED BY <1>2 DEF Values

LEMMA TrackedLater ==
    ASSUME NEW iv, NEW open, NEW top, NEW r, Tracked(iv, open, top, r),
           NEW ts \in Nat, top <= ts
    PROVE  Tracked(iv, open, ts, r)
<1>1. ASSUME NEW k \in DOMAIN open PROVE iv[open[k].id].start <= ts
  <2>1. iv[open[k].id].start \in Int /\ iv[open[k].id].start <= top /\ top \in Int
    BY IntervalFields DEF Tracked
  <2> QED BY ONLY <2>1, ts \in Nat, top <= ts
<1>2. ts \in Int
  OBVIOUS
<1> QED BY ONLY <1>1, <1>2, Tracked(iv, open, top, r) DEF Tracked

LEMMA SettledLater ==
    ASSUME NEW iv \in Seq(Interval), NEW open, NEW top \in Int, NEW r, NEW k, NEW O,
           Settled(iv, open, top, r, k, O), NEW ts \in Nat, top <= ts
    PROVE  Settled(iv, open, ts, r, k, O)
<1>1. ASSUME NEW n \in DOMAIN iv, iv[n].kind = k, iv[n].run = r
      PROVE  iv[n].start <= ts /\ (iv[n].end # Open => iv[n].end <= ts)
  <2>1. /\ iv[n].start \in Int /\ iv[n].start <= top
        /\ iv[n].end \in Int /\ (iv[n].end # Open => iv[n].end <= top)
    BY <1>1, IntervalFields DEF Settled
  <2> QED BY ONLY <2>1, ts \in Nat, top \in Int, top <= ts
<1>2. ASSUME NEW o \in O PROVE o.ts \in Int /\ o.ts <= ts
  <2>1. o.ts \in Int /\ o.ts <= top
    BY DEF Settled
  <2> QED BY ONLY <2>1, ts \in Nat, top \in Int, top <= ts
<1> QED BY <1>1, <1>2 DEF Settled

LEMMA SettledMore ==
    ASSUME NEW iv, NEW open, NEW r, NEW k, NEW O, NEW ts \in Nat,
           Settled(iv, open, ts, r, k, O), NEW v, Shows(iv, k, r, ts, v)
    PROVE  Settled(iv, open, ts, r, k, O \cup {Observation(ts, v)})
<1>1. Observation(ts, v).ts = ts /\ Observation(ts, v).value = v
  BY DEF Observation
<1>2. ts \in Int /\ ts <= ts
  OBVIOUS
<1> HIDE DEF Observation
<1> QED BY <1>1, <1>2 DEF Settled

\* The observations of a kind that the rows carry.
Observed(R, k) ==
    IF k = "state" THEN {Observation(x.ts, x.state) : x \in R}
    ELSE UNION {{Observation(x.ts, q) : q \in x.quality} : x \in R}
AllSettled(iv, open, top, r, R) ==
    \A k \in Kinds : Settled(iv, open, top, r, k, Observed(R, k))

\* The stages of a row's states: the time, the state, the quality.
StatesStep(iv, open, new, more, row, r) ==
    \E mid, left :
        /\ KindStep(iv, open, mid, left, "state", row.state, row.ts, r)
        /\ \/ row.quality = {} /\ new = mid /\ more = left
           \/ \E q : /\ row.quality = {q}
                     /\ KindStep(mid, left, new, more, "quality", q, row.ts, r)

LEMMA ObserveStatesIs ==
    ASSUME NEW s, Shape(s), NEW row, Maybe(row.quality), NEW t, t = ObserveStates(s, row)
    PROVE  \/ OutOfOrder(s, row) /\ t = s
           \/ /\ ~OutOfOrder(s, row) /\ t.ses.sparse_ts = row.ts
              /\ StatesStep(s.db.intervals, s.ses.open, t.db.intervals, t.ses.open, row, run)
<1>1. CASE OutOfOrder(s, row)
  BY <1>1 DEF ObserveStates
<1>2. CASE ~OutOfOrder(s, row)
  <2>1. PICK p : p = [s EXCEPT !.ses.sparse_ts = row.ts]
    OBVIOUS
  <2>2. PICK m : m = ObserveKind(p, "state", row.state, row.ts)
    OBVIOUS
  <2>3. PICK v : v = CHOOSE q \in row.quality : TRUE
    OBVIOUS
  <2>4. PICK q : q = ObserveKind(m, "quality", v, row.ts)
    OBVIOUS
  <2>5. t = IF row.quality = {} THEN m ELSE q
    BY <1>2, <2>1, <2>2, <2>3, <2>4 DEF ObserveStates
  <2>6. /\ Shape(p) /\ p.db.intervals = s.db.intervals /\ p.ses.open = s.ses.open
        /\ p.ses.sparse_ts = row.ts
    BY <2>1 DEF Shape, Tables, Memory
  <2>7. Shape(m) /\ m.ses.sparse_ts = row.ts
    BY <2>2, <2>6, ObserveKindFrame
  <2>8. q.ses.sparse_ts = row.ts
    BY <2>4, <2>7, ObserveKindFrame
  <2>9. KindStep(s.db.intervals, s.ses.open, m.db.intervals, m.ses.open, "state",
                 row.state, row.ts, run)
    <3>1. KindStep(p.db.intervals, p.ses.open, m.db.intervals, m.ses.open, "state",
                   row.state, row.ts, run)
      BY <2>2, <2>6, ObserveKindIs
    <3> QED BY <2>6, <3>1
  <2>10. KindStep(m.db.intervals, m.ses.open, q.db.intervals, q.ses.open, "quality",
                  v, row.ts, run)
    BY <2>4, <2>7, ObserveKindIs
  <2>11. row.quality = {} \/ row.quality = {v}
    BY <2>3, Zenon DEF Maybe
  <2>12. CASE row.quality = {}
    <3>1. t = m
      BY <2>5, <2>12
    <3> QED BY <1>2, <2>7, <2>9, <2>12, <3>1 DEF StatesStep
  <2>13. CASE row.quality # {}
    <3>1. t = q
      BY <2>5, <2>13
    <3>2. StatesStep(s.db.intervals, s.ses.open, q.db.intervals, q.ses.open, row, run)
      BY <2>9, <2>10, <2>11, <2>13 DEF StatesStep
    <3> QED BY <1>2, <2>8, <3>1, <3>2
  <2> QED BY <2>12, <2>13
<1> QED BY <1>1, <1>2

LEMMA StatesTracked ==
    ASSUME NEW iv, NEW open, NEW r \in Nat, NEW row \in Row,
           Tracked(iv, open, row.ts, r), NEW new, NEW more,
           StatesStep(iv, open, new, more, row, r)
    PROVE  Tracked(new, more, row.ts, r) /\ OnlyOf(r, iv, new)
<1>1. row.ts \in Nat /\ row.state \in Values /\ row.quality \subseteq Values
  BY RowFields, RowValues
<1>2. "state" \in Kinds /\ "quality" \in Kinds
  BY DEF Kinds
<1>3. PICK mid, left :
        /\ KindStep(iv, open, mid, left, "state", row.state, row.ts, r)
        /\ \/ row.quality = {} /\ new = mid /\ more = left
           \/ \E q : /\ row.quality = {q}
                     /\ KindStep(mid, left, new, more, "quality", q, row.ts, r)
  BY DEF StatesStep
<1>4. Tracked(mid, left, row.ts, r) /\ OnlyOf(r, iv, mid)
  BY <1>1, <1>2, <1>3, KindTracked
<1>5. ASSUME NEW q, row.quality = {q},
             KindStep(mid, left, new, more, "quality", q, row.ts, r)
      PROVE  Tracked(new, more, row.ts, r) /\ OnlyOf(r, mid, new)
  <2>1. q \in Values
    BY <1>1, <1>5
  <2> QED BY <1>1, <1>2, <1>4, <1>5, <2>1, KindTracked
<1>6. CASE new = mid /\ more = left
  BY <1>4, <1>6
<1> QED BY <1>3, <1>4, <1>5, <1>6, OnlyOfTrans

LEMMA StatesSettled ==
    ASSUME NEW iv, NEW open, NEW r \in Nat, NEW row \in Row,
           Tracked(iv, open, row.ts, r), NEW new, NEW more,
           StatesStep(iv, open, new, more, row, r),
           NEW R, \A x \in R : x.ts < row.ts, AllSettled(iv, open, row.ts, r, R)
    PROVE  AllSettled(new, more, row.ts, r, R \cup {row})
<1>1. PICK ts \in Nat : ts = row.ts
  BY RowFields
<1>2. row.state \in Values /\ row.quality \subseteq Values
  BY RowValues
<1>3. "state" \in Kinds /\ "quality" \in Kinds /\ Kinds = {"state", "quality"}
      /\ "state" # "quality"
  BY DEF Kinds
<1>4. PICK mid, left :
        /\ KindStep(iv, open, mid, left, "state", row.state, ts, r)
        /\ \/ row.quality = {} /\ new = mid /\ more = left
           \/ \E q : /\ row.quality = {q}
                     /\ KindStep(mid, left, new, more, "quality", q, ts, r)
  BY <1>1 DEF StatesStep
<1>5. Tracked(iv, open, ts, r)
  BY <1>1
<1>6. Tracked(mid, left, ts, r)
  BY <1>2, <1>3, <1>4, <1>5, KindTracked
<1>7. PICK S : S = Observed(R, "state")
  OBVIOUS
<1>8. PICK Q : Q = Observed(R, "quality")
  OBVIOUS
<1>9. Earlier(S, ts) /\ Earlier(Q, ts)
  <2>1. \A x \in R : x.ts < ts
    BY <1>1
  <2>2. \A x \in R : \A v : Observation(x.ts, v).ts < ts
    BY <2>1 DEF Observation
  <2> QED BY <1>7, <1>8, <2>2 DEF Earlier, Observed
<1>10. Settled(iv, open, ts, r, "state", S) /\ Settled(iv, open, ts, r, "quality", Q)
  BY <1>1, <1>3, <1>7, <1>8 DEF AllSettled
<1>11. PICK Z : Z = S \cup {Observation(ts, row.state)}
  OBVIOUS
<1>12. Settled(mid, left, ts, r, "state", Z)
  <2>1. SettledWith(mid, left, ts, r, "state", S, "state", row.state)
    BY <1>2, <1>3, <1>4, <1>5, <1>9, <1>10, KindSettled
  <2> QED BY <1>11, <2>1, SettledMore DEF SettledWith
<1>13. Settled(mid, left, ts, r, "quality", Q)
  <2>1. SettledWith(mid, left, ts, r, "quality", Q, "state", row.state)
    BY <1>2, <1>3, <1>4, <1>5, <1>9, <1>10, KindSettled
  <2> QED BY <2>1 DEF SettledWith
<1>14. Observed(R \cup {row}, "state") = Z
  BY <1>1, <1>7, <1>11 DEF Observed
<1>15. CASE row.quality = {} /\ new = mid /\ more = left
  <2>1. Observed(R \cup {row}, "quality") = Q
    BY <1>8, <1>15 DEF Observed
  <2> QED BY <1>1, <1>3, <1>12, <1>13, <1>14, <1>15, <2>1 DEF AllSettled
<1>16. ASSUME NEW q, row.quality = {q},
              KindStep(mid, left, new, more, "quality", q, ts, r)
       PROVE  AllSettled(new, more, ts, r, R \cup {row})
  <2>1. q \in Values
    BY <1>2, <1>16
  <2>2. Settled(new, more, ts, r, "state", Z)
    <3>1. SettledWith(new, more, ts, r, "state", Z, "quality", q)
      BY <1>3, <1>6, <1>12, <1>16, <2>1, KindSettled
    <3> QED BY <3>1 DEF SettledWith
  <2>3. Settled(new, more, ts, r, "quality", Q \cup {Observation(ts, q)})
    <3>1. SettledWith(new, more, ts, r, "quality", Q, "quality", q)
      BY <1>3, <1>6, <1>9, <1>13, <1>16, <2>1, KindSettled
    <3> QED BY <3>1, SettledMore DEF SettledWith
  <2>4. Observed(R \cup {row}, "quality") = Q \cup {Observation(ts, q)}
    BY <1>1, <1>8, <1>16 DEF Observed
  <2> QED BY <1>3, <1>14, <2>2, <2>3, <2>4 DEF AllSettled
<1> QED BY <1>1, <1>4, <1>15, <1>16

\* The first row of a process ends what other runs left open, one tick after their end.
Tidied(iv, new, ends, r) ==
    /\ new \in Seq(Interval) /\ DOMAIN new = DOMAIN iv
    /\ \A n \in DOMAIN iv :
           \/ /\ new[n] = iv[n]
              /\ \/ iv[n].run = r \/ iv[n].end # Open \/ ~(ends[iv[n].run] >= iv[n].start)
           \/ /\ iv[n].run # r /\ iv[n].end = Open
              /\ new[n].kind = iv[n].kind /\ new[n].run = iv[n].run
              /\ new[n].start = iv[n].start /\ new[n].value = iv[n].value
              /\ ends[iv[n].run] >= iv[n].start /\ new[n].end = ends[iv[n].run] + 1

\* The ends that the table has for the runs of the intervals.
EndsOf(runs, ends) == \A r \in DOMAIN ends : ends[r] \in Nat /\ runs[r] = ends[r]
RunsOf(iv, ends, r) == \A n \in DOMAIN iv : iv[n].run \in DOMAIN ends \cup {r}

LEMMA EnsureRunTidies ==
    ASSUME NEW s, Shape(s), s.db.intervals \in Seq(Interval), NEW ends,
           EndsOf(s.db.runs, ends), RunsOf(s.db.intervals, ends, run),
           NEW row, NEW t, t = EnsureRun(s, row)
    PROVE  /\ t.ses.open = s.ses.open /\ t.ses.sparse_ts = s.ses.sparse_ts
           /\ s.ses.registered => t.db.intervals = s.db.intervals
           /\ ~s.ses.registered => Tidied(s.db.intervals, t.db.intervals, ends, run)
<1>1. t.ses.open = s.ses.open /\ t.ses.sparse_ts = s.ses.sparse_ts
  BY EnsureRunFrame
<1>2. s.ses.registered => t.db.intervals = s.db.intervals
  BY DEF EnsureRun
<1>3. ASSUME ~s.ses.registered PROVE Tidied(s.db.intervals, t.db.intervals, ends, run)
  <2>1. PICK iv : iv = s.db.intervals
    OBVIOUS
  <2>2. PICK runs : runs = s.db.runs
    OBVIOUS
  <2> DEFINE old(i) == /\ i.end = Open /\ i.run # run
                       /\ runs[i.run] # Open /\ runs[i.run] >= i.start
             close(i) == IF old(i) THEN [i EXCEPT !.end = runs[i.run] + 1] ELSE i
  <2>3. PICK new : new = [n \in DOMAIN iv |-> close(iv[n])]
    OBVIOUS
  <2>4. PICK known : known = IF run \in DOMAIN runs THEN runs ELSE With(runs, run, Open)
    OBVIOUS
  <2>5. t = [db |-> [s.db EXCEPT !.intervals = new, !.runs = known],
             ses |-> [s.ses EXCEPT !.registered = TRUE]]
    BY <1>3, <2>1, <2>2, <2>3, <2>4 DEF EnsureRun
  <2>6. t.db.intervals = new
    <3>1. PICK d : d = s.db
      OBVIOUS
    <3>2. DOMAIN d = Tables /\ t.db = [d EXCEPT !.intervals = new, !.runs = known]
      BY <2>5, <3>1 DEF Shape
    <3> HIDE DEF old, close
    <3> QED BY ONLY <3>2 DEF Tables
  <2>7. iv \in Seq(Interval) /\ RunsOf(iv, ends, run) /\ EndsOf(runs, ends)
    BY <2>1, <2>2
  <2>8. ASSUME NEW n \in DOMAIN iv
        PROVE  /\ close(iv[n]) \in Interval
               /\ \/ /\ close(iv[n]) = iv[n]
                     /\ \/ iv[n].run = run \/ iv[n].end # Open
                        \/ ~(ends[iv[n].run] >= iv[n].start)
                  \/ /\ iv[n].run # run /\ iv[n].end = Open
                     /\ close(iv[n]).kind = iv[n].kind /\ close(iv[n]).run = iv[n].run
                     /\ close(iv[n]).start = iv[n].start
                     /\ close(iv[n]).value = iv[n].value
                     /\ ends[iv[n].run] >= iv[n].start
                     /\ close(iv[n]).end = ends[iv[n].run] + 1
    <3>1. PICK i : i = iv[n]
      OBVIOUS
    <3>2. i \in Interval
      BY <2>7, <2>8, <3>1, IntervalFields
    <3>3. i.run # run => runs[i.run] = ends[i.run] /\ ends[i.run] \in Nat
      BY <2>7, <3>1 DEF RunsOf, EndsOf
    <3>4. i.run # run => runs[i.run] # Open
      BY <3>3 DEF Open
    <3>5. CASE old(i)
      <4>1. PICK e \in Int : e = ends[i.run] + 1
        BY <3>3, <3>5
      <4>2. close(i) = [i EXCEPT !.end = e]
        BY <3>3, <3>5, <4>1
      <4>3. close(i) = [kind |-> i.kind, run |-> i.run, start |-> i.start, end |-> e,
                        value |-> i.value]
        BY <3>2, <4>2 DEF Interval
      <4>4. /\ i.kind \in Kinds /\ i.run \in Nat /\ i.start \in Int
            /\ i.value \in Values /\ e \in Int
        BY <3>2 DEF Interval
      <4> HIDE DEF close
      <4>5. close(i) \in Interval
        BY ONLY <4>3, <4>4 DEF Interval
      <4>6. /\ close(i).kind = i.kind /\ close(i).run = i.run
            /\ close(i).start = i.start /\ close(i).value = i.value /\ close(i).end = e
        BY <4>3
      <4>7. ends[i.run] >= i.start /\ i.run # run /\ i.end = Open
        BY <3>3, <3>5
      <4> QED BY <3>1, <4>1, <4>5, <4>6, <4>7
    <3>6. CASE ~old(i)
      <4>1. close(i) = i
        BY <3>6
      <4>2. i.run = run \/ i.end # Open \/ ~(ends[i.run] >= i.start)
        BY <3>3, <3>4, <3>6
      <4> HIDE DEF close
      <4> QED BY <3>1, <3>2, <4>1, <4>2
    <3> QED BY <3>5, <3>6
  <2> HIDE DEF close
  <2>9. Len(iv) \in Nat /\ DOMAIN iv = 1 .. Len(iv)
    BY <2>7
  <2>10. \A n \in 1 .. Len(iv) : close(iv[n]) \in Interval
    BY <2>8, <2>9
  <2>11. new \in Seq(Interval) /\ DOMAIN new = DOMAIN iv
    BY <2>3, <2>9, <2>10
  <2>12. \A n \in DOMAIN iv : new[n] = close(iv[n])
    BY <2>3
  <2>13. Tidied(iv, new, ends, run)
    BY <2>8, <2>11, <2>12 DEF Tidied
  <2> QED BY <2>1, <2>6, <2>13
<1> QED BY <1>1, <1>2, <1>3

LEMMA TidiedTracked ==
    ASSUME NEW iv, NEW open, NEW top, NEW r, Tracked(iv, open, top, r), NEW ends,
           RunsOf(iv, ends, r), \A q \in DOMAIN ends : ends[q] \in Nat,
           NEW new, Tidied(iv, new, ends, r)
    PROVE  Tracked(new, open, top, r) /\ RunsOf(new, ends, r)
<1>1. ASSUME NEW k \in DOMAIN open PROVE new[open[k].id] = iv[open[k].id]
  BY DEF Tracked, Tidied
<1>2. ASSUME NEW n \in DOMAIN new PROVE new[n].end = Open \/ new[n].end >= new[n].start
  <2>1. CASE new[n] = iv[n]
    BY <2>1 DEF Tracked, Tidied
  <2>2. CASE new[n] # iv[n]
    <3>1. /\ n \in DOMAIN iv /\ iv[n].run # r /\ new[n].start = iv[n].start
          /\ ends[iv[n].run] >= iv[n].start /\ new[n].end = ends[iv[n].run] + 1
      BY <2>2 DEF Tidied
    <3>2. iv[n].start \in Int /\ ends[iv[n].run] \in Nat
      BY <3>1, IntervalFields DEF Tracked, RunsOf
    <3> QED BY ONLY <3>1, <3>2
  <2> QED BY <2>1, <2>2
<1>3. RunsOf(new, ends, r)
  BY DEF RunsOf, Tidied
<1>4. new \in Seq(Interval) /\ DOMAIN new = DOMAIN iv
  BY DEF Tidied
<1> QED BY <1>1, <1>2, <1>3, <1>4 DEF Tracked

LEMMA TidiedSettled ==
    ASSUME NEW iv, NEW new, NEW ends, NEW r, Tidied(iv, new, ends, r),
           NEW open, NEW top, NEW R, AllSettled(iv, open, top, r, R)
    PROVE  AllSettled(new, open, top, r, R)
<1>1. ASSUME NEW k \in Kinds PROVE Settled(new, open, top, r, k, Observed(R, k))
  <2>1. Settled(iv, open, top, r, k, Observed(R, k))
    BY DEF AllSettled
  <2>2. PICK O : O = Observed(R, k)
    OBVIOUS
  <2>3. /\ DOMAIN new = DOMAIN iv
        /\ \A n \in DOMAIN iv : /\ new[n].kind = iv[n].kind /\ new[n].run = iv[n].run
                                /\ iv[n].run = r => new[n] = iv[n]
    BY DEF Tidied
  <2>4. ASSUME NEW o \in O PROVE Shows(new, k, r, o.ts, o.value)
    <3>1. Shows(iv, k, r, o.ts, o.value)
      BY <2>1, <2>2 DEF Settled
    <3> QED BY <2>3, <3>1, ShowsSame
  <2> QED BY <2>1, <2>2, <2>3, <2>4 DEF Settled
<1> QED BY <1>1 DEF AllSettled

\* The intervals of the runs other than r, and what the rows of those runs see of them:
\* nothing of them lies after the run's end but for the tick that includes the end.
Past(iv, ends, L, r) ==
    /\ \A n \in DOMAIN iv : iv[n].run # r =>
           /\ iv[n].run \in DOMAIN ends /\ iv[n].start <= ends[iv[n].run]
           /\ iv[n].end # Open => iv[n].end <= ends[iv[n].run] + 1
    /\ \A x \in L : x.run # r =>
           /\ x.run \in DOMAIN ends /\ x.row.ts \in Nat /\ x.row.ts <= ends[x.run]
           /\ \A k \in Kinds : \A o \in Observed({x.row}, k) :
                  Shows(iv, k, x.run, o.ts, o.value)
PastEnded(iv, r) == \A n \in DOMAIN iv : iv[n].run # r => iv[n].end # Open

LEMMA PastKept ==
    ASSUME NEW iv, NEW ends, NEW L, NEW r, Past(iv, ends, L, r), NEW new,
           OnlyOf(r, iv, new)
    PROVE  Past(new, ends, L, r) /\ (PastEnded(iv, r) => PastEnded(new, r))
<1>1. \A n \in DOMAIN new : new[n].run # r => n \in DOMAIN iv /\ new[n] = iv[n]
  BY DEF OnlyOf
<1>2. ASSUME NEW x \in L, x.run # r, NEW k \in Kinds, NEW o \in Observed({x.row}, k)
      PROVE  Shows(new, k, x.run, o.ts, o.value)
  <2>1. Shows(iv, k, x.run, o.ts, o.value)
    BY <1>2 DEF Past
  <2> QED BY <1>2, <2>1, ShowsOther
<1> QED BY <1>1, <1>2 DEF Past, PastEnded

\* The time of an observation is that of its row.
LEMMA ObservedAt ==
    ASSUME NEW row, NEW k, NEW o \in Observed({row}, k)
    PROVE  o.ts = row.ts
<1>1. \A v : Observation(row.ts, v).ts = row.ts
  BY DEF Observation
<1> QED BY <1>1 DEF Observed

LEMMA TidiedPast ==
    ASSUME NEW iv \in Seq(Interval), NEW ends, \A q \in DOMAIN ends : ends[q] \in Nat,
           NEW L, NEW r, Past(iv, ends, L, r), NEW new, Tidied(iv, new, ends, r)
    PROVE  Past(new, ends, L, r) /\ PastEnded(new, r)
<1>1. ASSUME NEW n \in DOMAIN new, new[n].run # r
      PROVE  /\ n \in DOMAIN iv /\ iv[n].run = new[n].run /\ iv[n].kind = new[n].kind
             /\ new[n].start = iv[n].start /\ new[n].value = iv[n].value
             /\ new[n].run \in DOMAIN ends /\ new[n].start <= ends[new[n].run]
             /\ new[n].end # Open /\ new[n].end <= ends[new[n].run] + 1
             /\ iv[n].end = Open => new[n].end = ends[new[n].run] + 1
             /\ iv[n].end # Open => new[n].end = iv[n].end
  <2>1. /\ n \in DOMAIN iv /\ iv[n].run = new[n].run /\ iv[n].kind = new[n].kind
        /\ new[n].start = iv[n].start /\ new[n].value = iv[n].value
    BY DEF Tidied
  <2>2. /\ iv[n].run \in DOMAIN ends /\ iv[n].start <= ends[iv[n].run]
        /\ iv[n].end # Open => iv[n].end <= ends[iv[n].run] + 1
    BY <1>1, <2>1 DEF Past
  <2>3. iv[n].start \in Int /\ ends[iv[n].run] \in Nat /\ iv[n].end \in Int
    BY <2>1, <2>2, IntervalFields
  <2>4. ends[iv[n].run] >= iv[n].start
    BY ONLY <2>2, <2>3
  <2>5. CASE iv[n].end = Open
    <3>1. new[n].end = ends[iv[n].run] + 1
      BY <1>1, <2>1, <2>4, <2>5 DEF Tidied
    <3>2. new[n].end # Open /\ new[n].end <= ends[iv[n].run] + 1
      BY ONLY <2>3, <3>1 DEF Open
    <3> QED BY <2>1, <2>2, <2>5, <3>1, <3>2
  <2>6. CASE iv[n].end # Open
    <3>1. new[n] = iv[n]
      BY <2>1, <2>6 DEF Tidied
    <3> QED BY <2>1, <2>2, <2>6, <3>1
  <2> QED BY <2>5, <2>6
<1>2. ASSUME NEW n \in DOMAIN iv, iv[n].run # r PROVE n \in DOMAIN new /\ new[n].run # r
  BY <1>2 DEF Tidied
<1>3. ASSUME NEW x \in L, x.run # r, NEW k \in Kinds, NEW o \in Observed({x.row}, k)
      PROVE  Shows(new, k, x.run, o.ts, o.value)
  <2>1. Shows(iv, k, x.run, o.ts, o.value)
    BY <1>3 DEF Past
  <2>2. o.ts \in Nat /\ o.ts <= ends[x.run] /\ ends[x.run] \in Nat
    BY <1>3, ObservedAt DEF Past
  <2>3. InForce(new, k, x.run, o.ts) = InForce(iv, k, x.run, o.ts)
    <3>1. ASSUME NEW n \in DOMAIN iv, iv[n].run = x.run
          PROVE  n \in InForce(new, k, x.run, o.ts) <=> n \in InForce(iv, k, x.run, o.ts)
      <4>1. n \in DOMAIN new /\ new[n].run = x.run /\ new[n].run # r
        BY <1>2, <1>3, <3>1 DEF Tidied
      <4>2. CASE iv[n].end = Open
        <5>1. new[n].end = ends[x.run] + 1
          BY <1>1, <4>1, <4>2
        <5>2. o.ts < new[n].end
          BY ONLY <2>2, <5>1
        <5> QED BY <1>1, <4>1, <4>2, <5>2 DEF InForce
      <4>3. CASE iv[n].end # Open
        BY <1>1, <4>1, <4>3 DEF InForce
      <4> QED BY <4>2, <4>3
    <3>2. \A n \in InForce(iv, k, x.run, o.ts) : n \in DOMAIN iv /\ iv[n].run = x.run
      BY DEF InForce
    <3>3. \A n \in InForce(new, k, x.run, o.ts) : n \in DOMAIN iv /\ iv[n].run = x.run
      BY <1>1, <1>3 DEF InForce
    <3> QED BY <3>1, <3>2, <3>3
  <2>4. \A n \in InForce(iv, k, x.run, o.ts) : new[n].value = iv[n].value
    BY <1>1, <1>2, <1>3 DEF InForce
  <2> QED BY <2>1, <2>3, <2>4 DEF Shows
<1>4. ASSUME NEW x \in L, x.run # r
      PROVE  x.run \in DOMAIN ends /\ x.row.ts \in Nat /\ x.row.ts <= ends[x.run]
  BY <1>4 DEF Past
<1>5. PastEnded(new, r)
  BY <1>1 DEF PastEnded
<1> QED BY <1>1, <1>3, <1>4, <1>5 DEF Past

\* The tables and the memory after a row, in every history and in a steady one.
Track(s, ends) ==
    /\ Tracked(s.db.intervals, s.ses.open, s.ses.sparse_ts, run)
    /\ RunsOf(s.db.intervals, ends, run)
Settle(s, ends, L, R) ==
    /\ AllSettled(s.db.intervals, s.ses.open, s.ses.sparse_ts, run, R)
    /\ Past(s.db.intervals, ends, L, run)

LEMMA InOrder ==
    ASSUME NEW x, x.ses.sparse_ts \in Int, NEW row, row.ts \in Nat
    PROVE  /\ ~OutOfOrder(x, row) => x.ses.sparse_ts <= row.ts
           /\ x.ses.sparse_ts <= row.ts => ~OutOfOrder(x, row)
BY DEF OutOfOrder, Open

\* After the run is ensured.
LEMMA EnsuredTrack ==
    ASSUME NEW s, Shape(s), NEW ends, EndsOf(s.db.runs, ends), Track(s, ends),
           NEW row, NEW t, t = EnsureRun(s, row)
    PROVE  Track(t, ends)
<1>1. /\ Tracked(s.db.intervals, s.ses.open, s.ses.sparse_ts, run)
      /\ RunsOf(s.db.intervals, ends, run) /\ s.db.intervals \in Seq(Interval)
  BY DEF Track, Tracked
<1>2. /\ t.ses.open = s.ses.open /\ t.ses.sparse_ts = s.ses.sparse_ts
      /\ s.ses.registered => t.db.intervals = s.db.intervals
      /\ ~s.ses.registered => Tidied(s.db.intervals, t.db.intervals, ends, run)
  BY <1>1, EnsureRunTidies
<1>3. \A q \in DOMAIN ends : ends[q] \in Nat
  BY DEF EndsOf
<1>4. CASE s.ses.registered
  BY <1>1, <1>2, <1>4 DEF Track
<1>5. CASE ~s.ses.registered
  <2>1. /\ Tracked(t.db.intervals, s.ses.open, s.ses.sparse_ts, run)
        /\ RunsOf(t.db.intervals, ends, run)
    BY <1>1, <1>2, <1>3, <1>5, TidiedTracked
  <2> QED BY <1>2, <2>1 DEF Track
<1> QED BY <1>4, <1>5

LEMMA EnsuredSettle ==
    ASSUME NEW s, Shape(s), NEW ends, EndsOf(s.db.runs, ends), Track(s, ends),
           NEW L, NEW R, Settle(s, ends, L, R),
           s.ses.registered => PastEnded(s.db.intervals, run),
           NEW row, NEW t, t = EnsureRun(s, row)
    PROVE  Settle(t, ends, L, R) /\ PastEnded(t.db.intervals, run)
<1>1. /\ Tracked(s.db.intervals, s.ses.open, s.ses.sparse_ts, run)
      /\ RunsOf(s.db.intervals, ends, run) /\ s.db.intervals \in Seq(Interval)
  BY DEF Track, Tracked
<1>2. /\ t.ses.open = s.ses.open /\ t.ses.sparse_ts = s.ses.sparse_ts
      /\ s.ses.registered => t.db.intervals = s.db.intervals
      /\ ~s.ses.registered => Tidied(s.db.intervals, t.db.intervals, ends, run)
  BY <1>1, EnsureRunTidies
<1>3. \A q \in DOMAIN ends : ends[q] \in Nat
  BY DEF EndsOf
<1>4. CASE s.ses.registered
  BY <1>2, <1>4 DEF Settle
<1>5. CASE ~s.ses.registered
  <2>1. AllSettled(t.db.intervals, s.ses.open, s.ses.sparse_ts, run, R)
    BY <1>2, <1>5, TidiedSettled DEF Settle
  <2>2. Past(t.db.intervals, ends, L, run) /\ PastEnded(t.db.intervals, run)
    BY <1>1, <1>2, <1>3, <1>5, TidiedPast DEF Settle
  <2> QED BY <1>2, <2>1, <2>2 DEF Settle
<1> QED BY <1>4, <1>5

LEMMA StatesTrack ==
    ASSUME run \in Nat, NEW x, Shape(x), NEW ends, Track(x, ends), NEW row \in Row,
           NEW o, o = ObserveStates(x, row)
    PROVE  Track(o, ends)
<1>1. /\ Tracked(x.db.intervals, x.ses.open, x.ses.sparse_ts, run)
      /\ RunsOf(x.db.intervals, ends, run) /\ x.ses.sparse_ts \in Int
  BY DEF Track, Tracked
<1>2. row.ts \in Nat /\ Maybe(row.quality)
  BY RowFields
<1>3. CASE OutOfOrder(x, row)
  <2>1. o = x
    BY <1>3 DEF ObserveStates
  <2> QED BY <2>1
<1>4. CASE ~OutOfOrder(x, row)
  <2>1. /\ o.ses.sparse_ts = row.ts
        /\ StatesStep(x.db.intervals, x.ses.open, o.db.intervals, o.ses.open, row, run)
    BY <1>2, <1>4, ObserveStatesIs
  <2>2. x.ses.sparse_ts <= row.ts
    BY <1>1, <1>2, <1>4, InOrder
  <2>3. Tracked(x.db.intervals, x.ses.open, row.ts, run)
    BY <1>1, <1>2, <2>2, TrackedLater
  <2>4. /\ Tracked(o.db.intervals, o.ses.open, row.ts, run)
        /\ OnlyOf(run, x.db.intervals, o.db.intervals)
    BY <2>1, <2>3, StatesTracked
  <2>5. RunsOf(o.db.intervals, ends, run)
    BY <1>1, <2>4 DEF RunsOf, OnlyOf
  <2> QED BY <2>1, <2>4, <2>5 DEF Track
<1> QED BY <1>3, <1>4

LEMMA StatesSettle ==
    ASSUME run \in Nat, NEW x, Shape(x), NEW ends, Track(x, ends), NEW row \in Row,
           NEW L, NEW R, Settle(x, ends, L, R), PastEnded(x.db.intervals, run),
           \A y \in R : y.ts < row.ts, x.ses.sparse_ts <= row.ts,
           NEW o, o = ObserveStates(x, row)
    PROVE  /\ Settle(o, ends, L, R \cup {row}) /\ PastEnded(o.db.intervals, run)
           /\ o.ses.sparse_ts = row.ts
<1>1. /\ Tracked(x.db.intervals, x.ses.open, x.ses.sparse_ts, run)
      /\ x.ses.sparse_ts \in Int /\ x.db.intervals \in Seq(Interval)
  BY DEF Track, Tracked
<1>2. row.ts \in Nat /\ Maybe(row.quality)
  BY RowFields
<1>3. ~OutOfOrder(x, row)
  BY <1>1, <1>2, InOrder
<1>4. /\ o.ses.sparse_ts = row.ts
      /\ StatesStep(x.db.intervals, x.ses.open, o.db.intervals, o.ses.open, row, run)
  BY <1>2, <1>3, ObserveStatesIs
<1>5. Tracked(x.db.intervals, x.ses.open, row.ts, run)
  BY <1>1, <1>2, TrackedLater
<1>6. OnlyOf(run, x.db.intervals, o.db.intervals)
  BY <1>4, <1>5, StatesTracked
<1>7. Past(o.db.intervals, ends, L, run) /\ PastEnded(o.db.intervals, run)
  BY <1>6, PastKept DEF Settle
<1>8. AllSettled(x.db.intervals, x.ses.open, row.ts, run, R)
  <2>1. \A k \in Kinds : Settled(x.db.intervals, x.ses.open, x.ses.sparse_ts, run, k,
                                 Observed(R, k))
    BY DEF Settle, AllSettled
  <2>2. ASSUME NEW k \in Kinds
        PROVE  Settled(x.db.intervals, x.ses.open, row.ts, run, k, Observed(R, k))
    BY <1>1, <1>2, <2>1, SettledLater
  <2> QED BY <2>2 DEF AllSettled
<1>9. AllSettled(o.db.intervals, o.ses.open, row.ts, run, R \cup {row})
  BY <1>4, <1>5, <1>8, StatesSettled
<1> QED BY <1>4, <1>7, <1>9 DEF Settle

LEMMA WriteRowTrack ==
    ASSUME run \in Nat, NEW s, Shape(s), NEW ends, EndsOf(s.db.runs, ends),
           Track(s, ends), NEW row \in Row, NEW w, w = WriteRow(s, row)
    PROVE  Track(w, ends)
<1>1. PICK x : /\ Shape(x) /\ SameIntervals(EnsureRun(s, row), x)
               /\ SameIntervals(ObserveStates(x, row), w)
  BY WriteRowStages
<1>2. PICK t : t = EnsureRun(s, row)
  OBVIOUS
<1>3. Track(t, ends)
  BY <1>2, EnsuredTrack
<1>4. Track(x, ends)
  BY <1>1, <1>2, <1>3 DEF Track, SameIntervals
<1>5. PICK o : o = ObserveStates(x, row)
  OBVIOUS
<1>6. Track(o, ends)
  BY <1>1, <1>4, <1>5, StatesTrack
<1> QED BY <1>1, <1>5, <1>6 DEF Track, SameIntervals

LEMMA WriteRowSettle ==
    ASSUME run \in Nat, NEW s, Shape(s), NEW ends, EndsOf(s.db.runs, ends),
           Track(s, ends), NEW L, NEW R, Settle(s, ends, L, R),
           s.ses.registered => PastEnded(s.db.intervals, run),
           NEW row \in Row, \A y \in R : y.ts < row.ts, s.ses.sparse_ts <= row.ts,
           NEW w, w = WriteRow(s, row)
    PROVE  /\ Settle(w, ends, L, R \cup {row}) /\ PastEnded(w.db.intervals, run)
           /\ w.ses.sparse_ts = row.ts
<1>1. PICK x : /\ Shape(x) /\ SameIntervals(EnsureRun(s, row), x)
               /\ SameIntervals(ObserveStates(x, row), w)
  BY WriteRowStages
<1>2. PICK t : t = EnsureRun(s, row)
  OBVIOUS
<1>3. Track(t, ends)
  BY <1>2, EnsuredTrack
<1>4. Settle(t, ends, L, R) /\ PastEnded(t.db.intervals, run)
  BY <1>2, EnsuredSettle
<1>5. t.ses.sparse_ts = s.ses.sparse_ts
  BY <1>2, EnsureRunFrame
<1>6. /\ Track(x, ends) /\ Settle(x, ends, L, R) /\ PastEnded(x.db.intervals, run)
      /\ x.ses.sparse_ts = s.ses.sparse_ts
  BY <1>1, <1>2, <1>3, <1>4, <1>5 DEF Track, Settle, SameIntervals
<1>7. PICK o : o = ObserveStates(x, row)
  OBVIOUS
<1>8. /\ Settle(o, ends, L, R \cup {row}) /\ PastEnded(o.db.intervals, run)
      /\ o.ses.sparse_ts = row.ts
  BY <1>1, <1>6, <1>7, StatesSettle
<1> QED BY <1>1, <1>7, <1>8 DEF Settle, SameIntervals

\* In every history.
IntervalsTyped ==
    \A f \in Path :
        /\ Tracked(db[f].intervals, Bound(f).open, Bound(f).sparse_ts, run)
        /\ \A n \in DOMAIN db[f].intervals : db[f].intervals[n].run \in DOMAIN db[f].runs
        /\ \A r \in DOMAIN db[f].runs : db[f].runs[r] \in Nat

LEMMA TrackBatch ==
    ASSUME Base, RunsInv, IntervalsTyped, NEW g, NEW N, Advanced(g, N)
    PROVE  \A k \in 0 .. N : /\ Track(g[k], db[batchPath].runs)
                             /\ EndsOf(g[k].db.runs, db[batchPath].runs)
<1>1. /\ N = Len(pending) /\ N \in Nat /\ N > 0
      /\ g[0] = [db |-> db[batchPath], ses |-> Bound(batchPath)]
      /\ \A n \in 1 .. N : g[n] = WriteRow(g[n - 1], pending[n])
      /\ \A n \in 0 .. N : Shape(g[n])
  BY DEF Advanced
<1>2. /\ batchPath \in Path /\ DOMAIN pending = 1 .. N
      /\ \A n \in 1 .. N : pending[n] \in Row
  BY <1>1, BatchIs
<1>3. PICK ends : ends = db[batchPath].runs
  OBVIOUS
<1>4. \A r \in DOMAIN ends : ends[r] \in Nat
  BY <1>2, <1>3 DEF IntervalsTyped
<1>5. ASSUME NEW k \in 0 .. N PROVE EndsOf(g[k].db.runs, ends)
  <2>1. CASE k = 0
    BY <1>1, <1>3, <1>4, <2>1 DEF EndsOf
  <2>2. CASE k # 0
    <3>1. k \in 1 .. N
      BY <1>1, <2>2
    <3>2. RunsKept(ends, g[k].db.runs)
      BY <1>3, <3>1, RunsFold
    <3> QED BY <1>4, <3>2 DEF EndsOf, RunsKept
  <2> QED BY <2>1, <2>2
<1>6. run \in Nat
  BY BaseNumbers
<1> DEFINE T == {k \in Nat : Track(g[k], ends)}
<1>7. 0 \in T
  <2>1. g[0].db = db[batchPath] /\ g[0].ses = Bound(batchPath)
    BY <1>1
  <2>2. /\ Tracked(db[batchPath].intervals, Bound(batchPath).open,
                   Bound(batchPath).sparse_ts, run)
        /\ RunsOf(db[batchPath].intervals, ends, run)
    BY <1>2, <1>3 DEF IntervalsTyped, RunsOf
  <2> QED BY <2>1, <2>2 DEF Track
<1>8. ASSUME NEW k \in Nat, k < N, k \in T PROVE k + 1 \in T
  <2>1. /\ g[k + 1] = WriteRow(g[k], pending[k + 1]) /\ Shape(g[k])
        /\ k \in 0 .. N /\ k + 1 \in 1 .. N
    BY <1>1, <1>8
  <2>2. EndsOf(g[k].db.runs, ends)
    BY <1>5, <2>1
  <2>3. PICK row \in Row : row = pending[k + 1]
    BY <1>2, <2>1
  <2>4. Track(g[k + 1], ends)
    BY <1>6, <1>8, <2>1, <2>2, <2>3, WriteRowTrack
  <2> QED BY <2>4
<1>9. \A k \in 0 .. N : k \in T
  <2>1. \A k \in Nat : k < N /\ k \in T => k + 1 \in T
    BY <1>8
  <2> HIDE DEF T
  <2> QED BY <1>1, <1>7, <2>1, UpTo
<1> QED BY <1>3, <1>5, <1>9

LEMMA TypedInit == Init => IntervalsTyped
<1> SUFFICES ASSUME Init, NEW f \in Path
             PROVE  /\ Tracked(db[f].intervals, Bound(f).open, Bound(f).sparse_ts, run)
                    /\ DOMAIN db[f].intervals = {} /\ DOMAIN db[f].runs = {}
  BY DEF IntervalsTyped
<1>1. db[f].intervals = <<>> /\ db[f].runs = <<>>
  BY InitIs, NothingIn
<1>2. Bound(f) = NewSession(f)
  BY InitIs DEF Bound, NewSession
<1>3. NewSession(f).open = <<>> /\ NewSession(f).sparse_ts = Open
  BY DEF NewSession
<1>4. DOMAIN <<>> = {} /\ <<>> \in Seq(Interval) /\ Open \in Int
  BY DEF Open
<1>5. Tracked(<<>>, <<>>, Open, run)
  BY <1>4 DEF Tracked
<1> QED BY <1>1, <1>2, <1>3, <1>4, <1>5

LEMMA TypedStep == Base /\ RunsInv /\ IntervalsTyped /\ [Next]_vars => IntervalsTyped'
<1> SUFFICES ASSUME Base, RunsInv, IntervalsTyped, [Next]_vars, NEW f \in Path
             PROVE  /\ Tracked(db'[f].intervals, Bound(f)'.open, Bound(f)'.sparse_ts, run')
                    /\ \A n \in DOMAIN db'[f].intervals :
                           db'[f].intervals[n].run \in DOMAIN db'[f].runs
                    /\ \A r \in DOMAIN db'[f].runs : db'[f].runs[r] \in Nat
  BY DEF IntervalsTyped
<1>1. /\ Tracked(db[f].intervals, Bound(f).open, Bound(f).sparse_ts, run)
      /\ \A n \in DOMAIN db[f].intervals : db[f].intervals[n].run \in DOMAIN db[f].runs
      /\ \A r \in DOMAIN db[f].runs : db[f].runs[r] \in Nat
  BY DEF IntervalsTyped
\* A session that remembers no interval tracks what is there, for any run.
<1>2. ASSUME NEW r PROVE Tracked(db[f].intervals, NewSession(f).open, NewSession(f).sparse_ts, r)
  <2>1. NewSession(f).open = <<>> /\ NewSession(f).sparse_ts = Open
    BY DEF NewSession
  <2>2. DOMAIN <<>> = {} /\ Open \in Int
    BY DEF Open
  <2>3. Tracked(db[f].intervals, <<>>, Open, r)
    BY <1>1, <2>2 DEF Tracked
  <2> QED BY <2>1, <2>3
<1>3. CASE WriteBatch
  <2>1. batchPath' = batchPath /\ run' = run
    BY <1>3 DEF WriteBatch
  <2>2. CASE f = batchPath
    <3>1. PICK g, N : Advanced(g, N)
      BY <1>3, WriteBatchIs
    <3>2. /\ N = Len(pending) /\ N \in Nat /\ N > 0 /\ N \in 0 .. N /\ N \in 1 .. N
          /\ db'[batchPath].intervals = g[N].db.intervals /\ Bound(batchPath)' = g[N].ses
      BY <3>1 DEF Advanced, Committed
    <3>3. Track(g[N], db[batchPath].runs)
      BY <3>1, <3>2, TrackBatch
    <3>4. /\ DOMAIN db'[batchPath].runs = DOMAIN db[batchPath].runs \cup {run}
          /\ db'[batchPath].runs[run] = pending[Len(pending)].ts
          /\ \A r \in DOMAIN db[batchPath].runs \ {run} :
                 db'[batchPath].runs[r] = db[batchPath].runs[r]
      BY <1>3, BatchRuns
    <3>5. pending[N].ts \in Nat
      BY <3>2, BatchIs, RowFields
    <3>6. Bound(f)' = Bound(batchPath)'
      BY <2>1, <2>2 DEF Bound, NewSession
    <3>7. Tracked(db'[f].intervals, Bound(f)'.open, Bound(f)'.sparse_ts, run')
      BY <2>1, <2>2, <3>2, <3>3, <3>6 DEF Track
    <3>8. \A n \in DOMAIN db'[f].intervals :
              db'[f].intervals[n].run \in DOMAIN db'[f].runs
      BY <2>2, <3>2, <3>3, <3>4 DEF Track, RunsOf
    <3>9. \A r \in DOMAIN db'[f].runs : db'[f].runs[r] \in Nat
      BY <1>1, <2>2, <3>2, <3>4, <3>5
    <3> QED BY <3>7, <3>8, <3>9
  <2>3. CASE f # batchPath
    <3>1. db'[f] = db[f] /\ Bound(f)' = NewSession(f)
      BY <1>3, <2>3, WriteBatchIs
    <3> QED BY <1>1, <1>2, <3>1
  <2> QED BY <2>2, <2>3
<1>4. CASE ~WriteBatch
  <2>1. db' = db
    BY <1>4, Unwritten
  <2>2. Bound(f)' = NewSession(f) \/ (Bound(f)' = Bound(f) /\ run' = run)
    <3>1. CASE Restart
      BY <3>1, RestartIs
    <3>2. CASE ~Restart
      <4>1. run' = run
        BY <1>4, <3>2, SetBackIs DEF Next, vars, Sample, WriteFails
      <4> QED BY <1>4, <4>1, MemoryKept
    <3> QED BY <3>1, <3>2
  <2> QED BY <1>1, <1>2, <2>1, <2>2
<1> QED BY <1>3, <1>4

(***************************************************************************)
(* The state intervals in a steady history                                  *)
(***************************************************************************)
RowsOf(f, r) == {x.row : x \in {y \in Rows(f) : y.run = r}}

\* The session shows the rows of its run, and observed no later one.
Holds(iv, ses, r, R) ==
    /\ AllSettled(iv, ses.open, ses.sparse_ts, r, R)
    /\ ses.sparse_ts = Open \/ \E y \in R : y.ts = ses.sparse_ts
Superseded(iv, runs) ==
    \A n \in DOMAIN iv : (\E r \in DOMAIN runs : r > iv[n].run) => iv[n].end # Open
Ends(runs, L) == \A r \in DOMAIN runs : \E x \in L : x.run = r /\ x.row.ts = runs[r]

\* No run is the run 0: the intervals and rows of every run are past ones.
IntervalsInv ==
    \A f \in Path : Steady(f) =>
        /\ Past(db[f].intervals, db[f].runs, Rows(f), 0)
        /\ Superseded(db[f].intervals, db[f].runs)
        /\ Ends(db[f].runs, Rows(f))
        /\ session.path = f => Holds(db[f].intervals, session, run, RowsOf(f, run))

LEMMA RowsAre ==
    ASSUME Base, RunsInv, NEW f \in Path
    PROVE  /\ DOMAIN db[f].runs \subseteq 1 .. run /\ 0 \notin DOMAIN db[f].runs
           /\ run \in Nat /\ run >= 1
           /\ \A x \in Rows(f) : /\ x.run \in DOMAIN db[f].runs
                                 /\ x.row \in Row /\ x.row.ts \in Nat
           /\ \A r : RowsOf(f, r) \subseteq Measured(f)
<1>1. DOMAIN db[f].runs \subseteq 1 .. run
  BY DEF RunsInv
<1>2. run \in Nat /\ run >= 1
  BY BaseNumbers
<1>3. ASSUME NEW x \in Rows(f)
      PROVE  x.run \in DOMAIN db[f].runs /\ x.row \in Row /\ x.row.ts \in Nat
  <2>1. PICK n \in DOMAIN log[f] : x = log[f][n]
    BY DEF Rows
  <2>2. log[f][n].run \in DOMAIN db[f].runs
    BY DEF RunsInv
  <2>3. log[f][n].row \in Row
    BY RowsTyped
  <2> QED BY <2>1, <2>2, <2>3, RowFields
<1>4. \A r : RowsOf(f, r) \subseteq Measured(f)
  BY DEF RowsOf, Rows, Measured
<1>5. 0 \notin 1 .. run
  BY <1>2
<1> QED BY <1>1, <1>2, <1>3, <1>4, <1>5

\* A session that knows nothing holds the rows of a run that has none.
LEMMA NothingHeld ==
    ASSUME Base, RunsInv, IntervalsTyped, NEW f \in Path, run \notin DOMAIN db[f].runs
    PROVE  Holds(db[f].intervals, NewSession(f), run, RowsOf(f, run))
<1>1. RowsOf(f, run) = {}
  BY RowsAre DEF RowsOf
<1>2. \A n \in DOMAIN db[f].intervals : db[f].intervals[n].run # run
  BY DEF IntervalsTyped
<1>3. NewSession(f).open = <<>> /\ NewSession(f).sparse_ts = Open
  BY DEF NewSession
<1>4. \A k \in Kinds : Observed({}, k) = {}
  BY DEF Observed
<1>5. PICK iv : iv = db[f].intervals
  OBVIOUS
<1>6. AllSettled(iv, <<>>, Open, run, {})
  BY <1>2, <1>4, <1>5 DEF AllSettled, Settled
<1> QED BY <1>1, <1>3, <1>5, <1>6 DEF Holds

LEMMA PastOfAll ==
    ASSUME Base, RunsInv, IntervalsTyped, NEW f \in Path,
           Past(db[f].intervals, db[f].runs, Rows(f), 0)
    PROVE  Past(db[f].intervals, db[f].runs, Rows(f), run)
<1>1. PICK iv : iv = db[f].intervals
  OBVIOUS
<1>2. PICK ends : ends = db[f].runs
  OBVIOUS
<1>3. PICK L : L = Rows(f)
  OBVIOUS
<1>4. \A n \in DOMAIN iv : iv[n].run # 0
  BY <1>1, RowsAre DEF IntervalsTyped
<1>5. \A x \in L : x.run # 0
  BY <1>3, RowsAre
<1>6. Past(iv, ends, L, 0)
  BY <1>1, <1>2, <1>3
<1>7. Past(iv, ends, L, run)
  BY ONLY <1>4, <1>5, <1>6 DEF Past
<1> QED BY <1>1, <1>2, <1>3, <1>7

\* The memory a steady batch starts with.
LEMMA BoundHolds ==
    ASSUME Base, RunsInv, IntervalsTyped, IntervalsInv, WriteBatch \/ WriteFails,
           Steady(batchPath)'
    PROVE  /\ Holds(db[batchPath].intervals, Bound(batchPath), run, RowsOf(batchPath, run))
           /\ Past(db[batchPath].intervals, db[batchPath].runs, Rows(batchPath), run)
           /\ Bound(batchPath).registered => PastEnded(db[batchPath].intervals, run)
<1>1. batchPath \in Path /\ batchPath' = batchPath
  BY DEF Base, WriteBatch, WriteFails
<1>2. PICK f \in Path : f = batchPath
  BY <1>1
<1>3. Steady(f)'
  BY <1>1, <1>2 DEF Steady
<1>4. Steady(f) /\ (session.path # f => run \notin DOMAIN db[f].runs)
  BY <1>2, <1>3, SteadyBatch
<1>5. /\ Past(db[f].intervals, db[f].runs, Rows(f), 0)
      /\ Superseded(db[f].intervals, db[f].runs)
      /\ session.path = f => Holds(db[f].intervals, session, run, RowsOf(f, run))
  BY <1>4 DEF IntervalsInv
<1>6. Past(db[f].intervals, db[f].runs, Rows(f), run)
  BY <1>5, PastOfAll
<1>7. CASE session.path = f
  <2>1. Bound(f) = session
    BY <1>7 DEF Bound
  <2>2. ASSUME session.registered, NEW n \in DOMAIN db[f].intervals,
               db[f].intervals[n].run # run
        PROVE  db[f].intervals[n].end # Open
    <3>1. run \in DOMAIN db[f].runs
      BY <1>7, <2>2 DEF RunsInv
    <3>2. db[f].intervals[n].run \in 1 .. run
      BY RowsAre DEF IntervalsTyped
    <3>3. run > db[f].intervals[n].run
      BY <2>2, <3>2, RowsAre
    <3> QED BY <1>5, <3>1, <3>3 DEF Superseded
  <2> QED BY <1>2, <1>5, <1>6, <1>7, <2>1, <2>2 DEF PastEnded
<1>8. CASE session.path # f
  <2>1. Bound(f) = NewSession(f) /\ ~NewSession(f).registered
    BY <1>8 DEF Bound, NewSession
  <2> QED BY <1>2, <1>4, <1>6, <1>8, <2>1, NothingHeld
<1> QED BY <1>7, <1>8

\* The rows of the run after the k-th of the batch.
Mine(k) == RowsOf(batchPath, run) \cup {pending[n] : n \in 1 .. k}

LEMMA MineNext ==
    ASSUME Base, Order, RunsInv, stepped = {}, NEW k \in Nat, k < Len(pending)
    PROVE  /\ Mine(k + 1) = Mine(k) \cup {pending[k + 1]}
           /\ \A x \in Mine(k) : x.ts \in Nat /\ x.ts < pending[k + 1].ts
<1>1. Mine(k) \subseteq Upto(k)
  BY BatchIs, RowsAre DEF Mine, Upto
<1>2. \A n : n \in 1 .. k + 1 <=> n \in 1 .. k \/ n = k + 1
  OBVIOUS
<1> QED BY <1>1, <1>2, UptoNext DEF Mine

LEMMA RowsGrow ==
    ASSUME Base, WriteBatch
    PROVE  /\ \A x \in Rows(batchPath) : x \in Rows(batchPath)'
           /\ \A n \in 1 .. Len(pending) :
                  \E x \in Rows(batchPath)' : x.run = run /\ x.row = pending[n]
           /\ \A x \in Rows(batchPath)' :
                  \/ x \in Rows(batchPath)
                  \/ x.run = run /\ \E n \in 1 .. Len(pending) : x.row = pending[n]
<1>1. batchPath' = batchPath
  BY DEF WriteBatch
<1>2. PICK old : old = log[batchPath]
  OBVIOUS
<1>3. PICK new : new = log'[batchPath]
  OBVIOUS
<1>4. Grown(old, new, pending, run)
  BY <1>2, <1>3, LogGrows
<1>5. Rows(batchPath) = {old[n] : n \in DOMAIN old}
  BY <1>2 DEF Rows
<1>6. Rows(batchPath)' = {new[n] : n \in DOMAIN new}
  BY <1>1, <1>3 DEF Rows
<1>7. ASSUME NEW n \in DOMAIN old PROVE n \in DOMAIN new /\ new[n] = old[n]
  BY <1>4, <1>7 DEF Grown
<1>8. ASSUME NEW m \in 1 .. Len(pending)
      PROVE  \E n \in DOMAIN new : new[n].run = run /\ new[n].row = pending[m]
  <2>1. Len(old) + m \in DOMAIN new
    BY <1>4, <1>8 DEF Grown
  <2> QED BY <1>4, <1>8, <2>1 DEF Grown
<1>9. ASSUME NEW n \in DOMAIN new
      PROVE  \/ n \in DOMAIN old /\ new[n] = old[n]
             \/ \E m \in 1 .. Len(pending) : new[n].run = run /\ new[n].row = pending[m]
  BY <1>4, <1>9 DEF Grown
<1> HIDE <1>1, <1>2, <1>3, <1>4
<1> QED BY <1>5, <1>6, <1>7, <1>8, <1>9

LEMMA MineAll ==
    ASSUME Base, WriteBatch
    PROVE  /\ Mine(0) = RowsOf(batchPath, run)
           /\ Mine(Len(pending)) = RowsOf(batchPath, run)'
<1>1. Mine(0) = RowsOf(batchPath, run)
  BY DEF Mine
<1>2. batchPath' = batchPath /\ run' = run
  BY DEF WriteBatch
<1>3. PICK L : L = Rows(batchPath)
  OBVIOUS
<1>4. PICK M : M = Rows(batchPath)'
  OBVIOUS
<1>5. RowsOf(batchPath, run) = {x.row : x \in {y \in L : y.run = run}}
  BY <1>3 DEF RowsOf
<1>6. RowsOf(batchPath, run)' = {x.row : x \in {y \in M : y.run = run}}
  BY <1>2, <1>4 DEF RowsOf
<1>7. /\ \A x \in L : x \in M
      /\ \A n \in 1 .. Len(pending) : \E x \in M : x.run = run /\ x.row = pending[n]
      /\ \A x \in M : \/ x \in L
                      \/ x.run = run /\ \E n \in 1 .. Len(pending) : x.row = pending[n]
  BY <1>3, <1>4, RowsGrow
<1>8. Mine(Len(pending)) = RowsOf(batchPath, run)
                              \cup {pending[n] : n \in 1 .. Len(pending)}
  BY DEF Mine
<1> HIDE <1>2, <1>3, <1>4
<1>9. Mine(Len(pending)) = RowsOf(batchPath, run)'
  BY <1>5, <1>6, <1>7, <1>8
<1> QED BY <1>1, <1>9

LEMMA SettleBatch ==
    ASSUME Base, Order, RunsInv, IntervalsTyped, IntervalsInv, WriteBatch,
           Steady(batchPath)', NEW g, NEW N, Advanced(g, N)
    PROVE  /\ Settle(g[N], db[batchPath].runs, Rows(batchPath), Mine(N))
           /\ PastEnded(g[N].db.intervals, run)
           /\ g[N].ses.sparse_ts = pending[N].ts
<1>1. /\ N = Len(pending) /\ N \in Nat /\ N > 0
      /\ g[0] = [db |-> db[batchPath], ses |-> Bound(batchPath)]
      /\ \A n \in 1 .. N : g[n] = WriteRow(g[n - 1], pending[n])
      /\ \A n \in 0 .. N : Shape(g[n])
  BY DEF Advanced
<1>2. /\ batchPath \in Path /\ DOMAIN pending = 1 .. N
      /\ \A n \in 1 .. N : pending[n] \in Row
  BY <1>1, BatchIs
<1>3. PICK ends : ends = db[batchPath].runs
  OBVIOUS
<1>4. PICK L : L = Rows(batchPath)
  OBVIOUS
<1>5. stepped = {} /\ run \in Nat
  <2>1. Steady(batchPath) /\ batchPath' = batchPath
    BY SteadyStep, <1>2 DEF Next, WriteBatch, Steady
  <2> QED BY <2>1, BaseNumbers DEF Steady
<1>6. \A k \in 0 .. N : Track(g[k], ends) /\ EndsOf(g[k].db.runs, ends)
  BY <1>3, TrackBatch
<1>7. /\ Holds(db[batchPath].intervals, Bound(batchPath), run, RowsOf(batchPath, run))
      /\ Past(db[batchPath].intervals, ends, L, run)
      /\ Bound(batchPath).registered => PastEnded(db[batchPath].intervals, run)
  BY <1>3, <1>4, BoundHolds
<1> DEFINE Good(k) == /\ Settle(g[k], ends, L, Mine(k))
                      /\ g[k].ses.registered => PastEnded(g[k].db.intervals, run)
                      /\ \/ g[k].ses.sparse_ts = Open
                         \/ \E y \in Mine(k) : y.ts = g[k].ses.sparse_ts
                      /\ k > 0 => /\ PastEnded(g[k].db.intervals, run)
                                  /\ g[k].ses.sparse_ts = pending[k].ts
           T == {k \in Nat : Good(k)}
<1>8. 0 \in T
  <2>1. g[0].db = db[batchPath] /\ g[0].ses = Bound(batchPath)
    BY <1>1
  <2>2. Mine(0) = RowsOf(batchPath, run)
    BY MineAll
  <2> QED BY <1>7, <2>1, <2>2 DEF Settle, Holds
<1>9. ASSUME NEW k \in Nat, k < N, k \in T PROVE k + 1 \in T
  <2>1. /\ g[k + 1] = WriteRow(g[k], pending[k + 1]) /\ Shape(g[k])
        /\ k \in 0 .. N /\ k + 1 \in 1 .. N
    BY <1>1, <1>9
  <2>2. Good(k)
    BY <1>9
  <2>3. Track(g[k], ends) /\ EndsOf(g[k].db.runs, ends)
    BY <1>6, <2>1
  <2>4. PICK row \in Row : row = pending[k + 1]
    BY <1>2, <2>1
  <2>5. PICK R : R = Mine(k)
    OBVIOUS
  <2>6. /\ Mine(k + 1) = R \cup {row} /\ \A y \in R : y.ts \in Nat /\ y.ts < row.ts
    BY <1>1, <1>5, <1>9, <2>4, <2>5, MineNext
  <2>7. row.ts \in Nat
    BY RowFields
  <2>8. g[k].ses.sparse_ts <= row.ts
    <3>1. CASE g[k].ses.sparse_ts = Open
      BY <2>7, <3>1 DEF Open
    <3>2. CASE \E y \in R : y.ts = g[k].ses.sparse_ts
      <4>1. PICK t : t = g[k].ses.sparse_ts
        OBVIOUS
      <4>2. t \in Nat /\ t < row.ts
        BY <2>6, <3>2, <4>1
      <4>3. t <= row.ts
        BY ONLY <2>7, <4>2
      <4> QED BY <4>1, <4>3
    <3> QED BY <2>2, <2>5, <3>1, <3>2
  <2>9. /\ Settle(g[k], ends, L, R)
        /\ g[k].ses.registered => PastEnded(g[k].db.intervals, run)
    BY <2>2, <2>5
  <2>10. \A y \in R : y.ts < row.ts
    BY <2>6
  <2>11. g[k + 1] = WriteRow(g[k], row)
    BY <2>1, <2>4
  <2>12. /\ Settle(g[k + 1], ends, L, R \cup {row})
         /\ PastEnded(g[k + 1].db.intervals, run)
         /\ g[k + 1].ses.sparse_ts = row.ts
    BY <1>5, <2>1, <2>3, <2>8, <2>9, <2>10, <2>11, WriteRowSettle
  <2>13. Good(k + 1)
    BY <2>4, <2>6, <2>12
  <2> QED BY <2>13
<1>10. Good(N)
  <2> HIDE DEF Good
  <2>1. \A k \in Nat : k < N /\ k \in T => k + 1 \in T
    BY <1>9
  <2> HIDE DEF T
  <2>2. \A k \in 0 .. N : k \in T
    BY <1>1, <1>8, <2>1, UpTo
  <2>3. N \in T
    BY <1>1, <2>2
  <2> QED BY <2>3 DEF T
<1> QED BY <1>1, <1>3, <1>4, <1>10

\* The run's own rows and intervals are past ones, too, once its end is committed.
LEMMA PastCommitted ==
    ASSUME NEW iv \in Seq(Interval), NEW ends, NEW L, NEW r, Past(iv, ends, L, r),
           NEW open, NEW top \in Nat, NEW R, AllSettled(iv, open, top, r, R),
           NEW more, DOMAIN more = DOMAIN ends \cup {r}, more[r] = top,
           \A q \in DOMAIN ends \ {r} : more[q] = ends[q],
           NEW M, \A x \in M : \/ x \in L
                               \/ x.run = r /\ x.row \in R /\ x.row.ts \in Nat,
           \A x \in L : x.run = r => x.row \in R /\ x.row.ts \in Nat
    PROVE  Past(iv, more, M, 0)
<1>1. ASSUME NEW n \in DOMAIN iv
      PROVE  /\ iv[n].run \in DOMAIN more /\ iv[n].start <= more[iv[n].run]
             /\ iv[n].end # Open => iv[n].end <= more[iv[n].run] + 1
  <2>1. CASE iv[n].run # r
    BY <2>1 DEF Past
  <2>2. CASE iv[n].run = r
    <3>1. iv[n].kind \in Kinds /\ iv[n].end \in Int
      BY IntervalFields DEF Interval
    <3>2. iv[n].start <= top /\ (iv[n].end # Open => iv[n].end <= top)
      BY <2>2, <3>1 DEF AllSettled, Settled
    <3>3. iv[n].end <= top => iv[n].end <= top + 1
      BY ONLY <3>1, top \in Nat
    <3> QED BY <2>2, <3>2, <3>3
  <2> QED BY <2>1, <2>2
<1>2. ASSUME NEW x \in M, x.run # r
      PROVE  /\ x.run \in DOMAIN more /\ x.row.ts \in Nat /\ x.row.ts <= more[x.run]
             /\ \A k \in Kinds : \A o \in Observed({x.row}, k) :
                    Shows(iv, k, x.run, o.ts, o.value)
  BY <1>2 DEF Past
<1>3. ASSUME NEW x \in M, x.run = r
      PROVE  /\ x.run \in DOMAIN more /\ x.row.ts \in Nat /\ x.row.ts <= more[x.run]
             /\ \A k \in Kinds : \A o \in Observed({x.row}, k) :
                    Shows(iv, k, x.run, o.ts, o.value)
  <2>1. x.row \in R /\ x.row.ts \in Nat
    BY <1>3
  <2>2. \A k : Observed({x.row}, k) \subseteq Observed(R, k)
    BY <2>1 DEF Observed
  <2>3. Observation(x.row.ts, x.row.state) \in Observed({x.row}, "state")
    BY DEF Observed
  <2>4. \A k \in Kinds : \A o \in Observed({x.row}, k) :
            o.ts <= top /\ Shows(iv, k, r, o.ts, o.value)
    BY <2>2 DEF AllSettled, Settled
  <2>5. "state" \in Kinds
    BY DEF Kinds
  <2>6. Observation(x.row.ts, x.row.state).ts <= top
    BY <2>3, <2>4, <2>5
  <2>7. Observation(x.row.ts, x.row.state).ts = x.row.ts
    BY DEF Observation
  <2> QED BY <1>3, <2>1, <2>4, <2>6, <2>7
<1> QED BY <1>1, <1>2, <1>3 DEF Past

LEMMA IntervalsBatch ==
    ASSUME Base, Order, RunsInv, IntervalsTyped, IntervalsInv, WriteBatch,
           Steady(batchPath)'
    PROVE  /\ Past(db'[batchPath].intervals, db'[batchPath].runs, Rows(batchPath)', 0)
           /\ Superseded(db'[batchPath].intervals, db'[batchPath].runs)
           /\ Ends(db'[batchPath].runs, Rows(batchPath)')
           /\ Holds(db'[batchPath].intervals, session', run, RowsOf(batchPath, run)')
<1>1. PICK g, N : Advanced(g, N)
  BY WriteBatchIs
<1>2. /\ N = Len(pending) /\ N \in Nat /\ N > 0 /\ N \in 1 .. N /\ N \in 0 .. N
      /\ db'[batchPath].intervals = g[N].db.intervals /\ Bound(batchPath)' = g[N].ses
  BY <1>1 DEF Advanced, Committed
<1>3. batchPath \in Path /\ batchPath' = batchPath /\ run' = run
  BY BatchIs DEF WriteBatch
<1>4. session' = g[N].ses
  <2>1. session'.path = batchPath
    BY WriteBatchIs
  <2> QED BY <1>2, <1>3, <2>1 DEF Bound
<1>5. PICK ends : ends = db[batchPath].runs
  OBVIOUS
<1>6. PICK more : more = db'[batchPath].runs
  OBVIOUS
<1>7. PICK iv : iv = db'[batchPath].intervals
  OBVIOUS
<1>8. PICK L : L = Rows(batchPath)
  OBVIOUS
<1>9. PICK M : M = Rows(batchPath)'
  OBVIOUS
<1>10. PICK R : R = Mine(N)
  OBVIOUS
<1>11. PICK top : top = pending[N].ts
  OBVIOUS
<1>12. /\ DOMAIN more = DOMAIN ends \cup {run} /\ more[run] = top
       /\ \A q \in DOMAIN ends \ {run} : more[q] = ends[q]
  BY <1>2, <1>5, <1>6, <1>11, BatchRuns
<1>13. top \in Nat /\ \A n \in 1 .. N : pending[n].ts \in Nat
  BY <1>2, <1>11, BatchIs, RowFields
<1>14. /\ Settle(g[N], ends, L, R) /\ PastEnded(g[N].db.intervals, run)
       /\ g[N].ses.sparse_ts = top
  BY <1>1, <1>5, <1>8, <1>10, <1>11, SettleBatch
<1>15. /\ AllSettled(iv, session'.open, top, run, R) /\ Past(iv, ends, L, run)
       /\ PastEnded(iv, run) /\ session'.sparse_ts = top
  BY <1>2, <1>4, <1>7, <1>14 DEF Settle
<1>16. iv \in Seq(Interval)
  <2>1. Track(g[N], ends)
    BY <1>1, <1>2, <1>5, TrackBatch
  <2> QED BY <1>2, <1>7, <2>1 DEF Track, Tracked
<1>17. /\ \A x \in L : x \in M
       /\ \A n \in 1 .. N : \E x \in M : x.run = run /\ x.row = pending[n]
       /\ \A x \in M : \/ x \in L
                       \/ x.run = run /\ \E n \in 1 .. N : x.row = pending[n]
  BY <1>2, <1>8, <1>9, RowsGrow
<1>18. \A n \in 1 .. N : pending[n] \in R
  BY <1>10 DEF Mine
<1>19. \A x \in L : x.run = run => x.row \in R /\ x.row.ts \in Nat
  BY <1>3, <1>8, <1>10, RowsAre DEF Mine, RowsOf
<1>20. Past(iv, more, M, 0)
  <2>1. ASSUME NEW x \in M
        PROVE  \/ x \in L
               \/ x.run = run /\ x.row \in R /\ x.row.ts \in Nat
    BY <1>13, <1>17, <1>18
  <2> QED BY <1>12, <1>13, <1>15, <1>16, <1>19, <2>1, PastCommitted
<1>21. Superseded(iv, more)
  <2>1. DOMAIN ends \subseteq 1 .. run /\ run \in Nat /\ run >= 1
    BY <1>3, <1>5, RowsAre
  <2>2. \A q \in DOMAIN more : q \in Nat /\ q <= run
    BY <1>12, <2>1
  <2>3. ASSUME NEW n \in DOMAIN iv, NEW q \in DOMAIN more, q > iv[n].run
        PROVE  iv[n].run # run
    <3>1. q \in Nat /\ q <= run
      BY <2>2
    <3> QED BY ONLY <2>1, <2>3, <3>1
  <2> QED BY <1>15, <2>3 DEF Superseded, PastEnded
<1>22. Ends(more, M)
  <2>1. ASSUME NEW q \in DOMAIN more PROVE \E x \in M : x.run = q /\ x.row.ts = more[q]
    <3>1. CASE q = run
      BY <1>2, <1>11, <1>12, <1>17, <3>1
    <3>2. CASE q # run
      <4>1. Steady(batchPath)
        BY <1>3, SteadyBatch
      <4>2. Ends(ends, L)
        BY <1>3, <1>5, <1>8, <4>1 DEF IntervalsInv
      <4>3. q \in DOMAIN ends /\ more[q] = ends[q]
        BY <1>12, <3>2
      <4>4. PICK x \in L : x.run = q /\ x.row.ts = ends[q]
        BY <4>2, <4>3 DEF Ends
      <4> QED BY <1>17, <4>3, <4>4
    <3> QED BY <3>1, <3>2
  <2> QED BY <2>1 DEF Ends
<1>23. R = RowsOf(batchPath, run)'
  BY <1>2, <1>10, MineAll
<1>24. Holds(iv, session', run, R)
  <2>1. pending[N] \in R /\ pending[N].ts = session'.sparse_ts
    BY <1>2, <1>11, <1>15, <1>18
  <2> QED BY <1>15, <2>1 DEF Holds
<1> QED BY <1>6, <1>7, <1>9, <1>20, <1>21, <1>22, <1>23, <1>24

LEMMA IntervalsInit == Init => IntervalsInv
<1> SUFFICES ASSUME Init, NEW f \in Path
             PROVE  /\ Past(db[f].intervals, db[f].runs, Rows(f), 0)
                    /\ Superseded(db[f].intervals, db[f].runs)
                    /\ Ends(db[f].runs, Rows(f)) /\ session.path # f
  BY DEF IntervalsInv
<1>1. db[f].intervals = <<>> /\ db[f].runs = <<>> /\ Rows(f) = {} /\ session.path # f
  BY InitIs, NothingIn
<1>2. DOMAIN <<>> = {}
  OBVIOUS
<1>3. Past(<<>>, <<>>, {}, 0) /\ Superseded(<<>>, <<>>) /\ Ends(<<>>, {})
  BY <1>2 DEF Past, Superseded, Ends
<1> QED BY <1>1, <1>3

LEMMA IntervalsStep ==
    Base /\ Order /\ RunsInv /\ IntervalsTyped /\ IntervalsInv /\ [Next]_vars
        => IntervalsInv'
<1> SUFFICES ASSUME Base, Order, RunsInv, IntervalsTyped, IntervalsInv, [Next]_vars,
                    NEW f \in Path, Steady(f)'
             PROVE  /\ Past(db'[f].intervals, db'[f].runs, Rows(f)', 0)
                    /\ Superseded(db'[f].intervals, db'[f].runs)
                    /\ Ends(db'[f].runs, Rows(f)')
                    /\ session'.path = f =>
                           Holds(db'[f].intervals, session', run', RowsOf(f, run)')
  BY DEF IntervalsInv
<1>1. Steady(f)
  BY SteadyStep
<1>2. /\ Past(db[f].intervals, db[f].runs, Rows(f), 0)
      /\ Superseded(db[f].intervals, db[f].runs)
      /\ Ends(db[f].runs, Rows(f))
      /\ session.path = f => Holds(db[f].intervals, session, run, RowsOf(f, run))
  BY <1>1 DEF IntervalsInv
<1>3. CASE WriteBatch
  <2>1. batchPath' = batchPath /\ run' = run /\ session'.path = batchPath
    BY <1>3, WriteBatchIs DEF WriteBatch
  <2>2. CASE f = batchPath
    <3>1. Steady(batchPath)'
      BY <2>1, <2>2 DEF Steady
    <3>2. Rows(f)' = Rows(batchPath)' /\ RowsOf(f, run)' = RowsOf(batchPath, run)'
      BY <2>1, <2>2 DEF Rows, RowsOf
    <3> QED BY <1>3, <2>1, <2>2, <3>1, <3>2, IntervalsBatch
  <2>3. CASE f # batchPath
    <3>1. db'[f] = db[f] /\ log'[f] = log[f]
      BY <1>3, <2>3, WriteBatchIs
    <3>2. Rows(f)' = Rows(f)
      BY <3>1 DEF Rows
    <3> QED BY <1>2, <2>1, <2>3, <3>1, <3>2
  <2> QED BY <2>2, <2>3
<1>4. CASE ~WriteBatch
  <2>1. db' = db /\ log' = log
    BY <1>4, Unwritten
  <2>2. Rows(f)' = Rows(f)
    BY <2>1 DEF Rows
  <2>3. ASSUME session'.path = f
        PROVE  Holds(db'[f].intervals, session', run', RowsOf(f, run)')
    <3>1. CASE Restart
      BY <2>3, <3>1, RestartIs, PathAssumption
    <3>2. CASE WriteFails
      <4>1. /\ run' = run /\ batchPath' = batchPath /\ session'.path = batchPath
            /\ session' = Bound(batchPath)
        BY <3>2, WriteFailsIs DEF WriteFails, AfterRollback
      <4>2. Steady(batchPath)' /\ f = batchPath
        BY <2>3, <4>1 DEF Steady
      <4>3. Holds(db[f].intervals, session', run, RowsOf(f, run))
        BY <3>2, <4>1, <4>2, BoundHolds
      <4>4. RowsOf(f, run)' = RowsOf(f, run)
        BY <2>2, <4>1 DEF RowsOf
      <4> QED BY <2>1, <4>1, <4>3, <4>4
    <3>3. CASE ~Restart /\ ~WriteFails
      <4>1. run' = run /\ session' = session
        BY <1>4, <3>3, SetBackIs DEF Next, vars, Sample
      <4>2. RowsOf(f, run)' = RowsOf(f, run)
        BY <2>2, <4>1 DEF RowsOf
      <4> QED BY <1>2, <2>1, <2>3, <4>1, <4>2
    <3> QED BY <3>1, <3>2, <3>3
  <2> QED BY <1>2, <2>1, <2>2, <2>3
<1> QED BY <1>3, <1>4

\* What the intervals show is what a reader finds in force.
Reads(covering, value) ==
    /\ {i.value : i \in covering} = {value} \ {""}
    /\ covering = {} \/ \E i : covering = {i}
LEMMA Reader ==
    ASSUME NEW f, NEW kind, NEW r, NEW t, NEW value,
           Shows(db[f].intervals, kind, r, t, value)
    PROVE  Reads(Covering(f, kind, r, t), value)
<1> DEFINE iv == db[f].intervals
<1>1. Covering(f, kind, r, t) = {iv[n] : n \in InForce(iv, kind, r, t)}
  BY DEF Covering, InForce
<1>2. CASE value = ""
  <2>1. InForce(iv, kind, r, t) = {}
    BY <1>2 DEF Shows
  <2>2. Covering(f, kind, r, t) = {}
    BY <1>1, <2>1
  <2> QED BY <1>2, <2>2 DEF Reads
<1>3. CASE value # ""
  <2>1. PICK n : InForce(iv, kind, r, t) = {n} /\ iv[n].value = value
    BY <1>3 DEF Shows
  <2>2. Covering(f, kind, r, t) = {iv[n]}
    BY <1>1, <2>1
  <2>3. {i.value : i \in {iv[n]}} = {value}
    BY <2>1
  <2> QED BY <1>3, <2>2, <2>3 DEF Reads
<1> QED BY <1>2, <1>3

LEMMA IntervalsFromInv == Base /\ RunsInv /\ IntervalsInv => IntervalsMatchRows
<1> SUFFICES ASSUME Base, RunsInv, IntervalsInv, NEW f \in Path, Steady(f),
                    NEW x \in Rows(f)
             PROVE  /\ {i.value : i \in Covering(f, "state", x.run, x.row.ts)}
                           = {x.row.state} \ {""}
                    /\ Cardinality(Covering(f, "state", x.run, x.row.ts)) <= 1
                    /\ x.row.quality # {} =>
                           {i.value : i \in Covering(f, "quality", x.run, x.row.ts)}
                               = x.row.quality
  BY DEF IntervalsMatchRows
<1>1. Past(db[f].intervals, db[f].runs, Rows(f), 0)
  BY DEF IntervalsInv
<1>2. x.run # 0 /\ x.row \in Row
  BY RowsAre
<1>3. PICK iv : iv = db[f].intervals
  OBVIOUS
<1>4. \A k \in Kinds : \A o \in Observed({x.row}, k) : Shows(iv, k, x.run, o.ts, o.value)
  BY <1>1, <1>2, <1>3 DEF Past
<1>5. Shows(iv, "state", x.run, x.row.ts, x.row.state)
  <2>1. Observation(x.row.ts, x.row.state) \in Observed({x.row}, "state")
    BY DEF Observed
  <2>2. "state" \in Kinds
    BY DEF Kinds
  <2>3. /\ Observation(x.row.ts, x.row.state).ts = x.row.ts
        /\ Observation(x.row.ts, x.row.state).value = x.row.state
    BY DEF Observation
  <2> QED BY <1>4, <2>1, <2>2, <2>3
<1>6. PICK c : c = Covering(f, "state", x.run, x.row.ts)
  OBVIOUS
<1>7. {i.value : i \in c} = {x.row.state} \ {""} /\ (c = {} \/ \E i : c = {i})
  <2>1. Reads(Covering(f, "state", x.run, x.row.ts), x.row.state)
    BY <1>3, <1>5, Reader
  <2> QED BY <1>6, <2>1 DEF Reads
<1>8. Cardinality(c) <= 1
  <2>1. CASE c = {}
    <3>1. Cardinality(c) = 0
      BY <2>1, FS_EmptySet
    <3> QED BY <3>1
  <2>2. ASSUME NEW i, c = {i} PROVE Cardinality(c) <= 1
    <3>1. Cardinality(c) = 1
      BY <2>2, FS_Singleton
    <3> QED BY <3>1
  <2> QED BY <1>7, <2>1, <2>2
<1>9. ASSUME x.row.quality # {}
      PROVE  {i.value : i \in Covering(f, "quality", x.run, x.row.ts)} = x.row.quality
  <2>1. Maybe(x.row.quality) /\ "" \notin x.row.quality
    BY <1>2, RowFields
  <2>2. PICK q : x.row.quality = {q}
    BY <1>9, <2>1 DEF Maybe
  <2>3. q # ""
    BY <2>1, <2>2
  <2>4. Observation(x.row.ts, q) \in Observed({x.row}, "quality")
    BY <2>2 DEF Observed
  <2>5. "quality" \in Kinds
    BY DEF Kinds
  <2>6. Observation(x.row.ts, q).ts = x.row.ts /\ Observation(x.row.ts, q).value = q
    BY DEF Observation
  <2>7. Shows(iv, "quality", x.run, x.row.ts, q)
    BY <1>4, <2>4, <2>5, <2>6
  <2>8. {i.value : i \in Covering(f, "quality", x.run, x.row.ts)} = {q} \ {""}
    BY <1>3, <2>7, Reader DEF Reads
  <2> QED BY <2>2, <2>3, <2>8
<1> QED BY <1>6, <1>7, <1>8, <1>9

LEMMA DowntimeFromInv ==
    Base /\ RunsInv /\ IntervalsTyped /\ IntervalsInv => DowntimeIsNotBridged
<1> SUFFICES ASSUME Base, RunsInv, IntervalsTyped, IntervalsInv, NEW f \in Path,
                    Steady(f), NEW n \in DOMAIN db[f].intervals, NEW i,
                    i = db[f].intervals[n], NEW q \in DOMAIN db[f].runs, q > i.run
             PROVE  /\ i.end # Open
                    /\ i.end <= 1 + Max({x.row.ts : x \in
                                              {y \in Rows(f) : y.run = i.run}})
  BY DEF DowntimeIsNotBridged
<1>1. /\ Past(db[f].intervals, db[f].runs, Rows(f), 0)
      /\ Superseded(db[f].intervals, db[f].runs) /\ Ends(db[f].runs, Rows(f))
  BY DEF IntervalsInv
<1>2. i.end # Open
  BY <1>1 DEF Superseded
<1>3. i.run # 0 /\ i.run \in DOMAIN db[f].runs
  BY RowsAre DEF IntervalsTyped
<1>4. PICK end : end = db[f].runs[i.run]
  OBVIOUS
<1>5. i.end <= end + 1 /\ end \in Nat
  BY <1>1, <1>2, <1>3, <1>4 DEF Past, IntervalsTyped
<1>6. PICK own : own = {x.row.ts : x \in {y \in Rows(f) : y.run = i.run}}
  OBVIOUS
<1>7. end \in own
  <2>1. PICK x \in Rows(f) : x.run = i.run /\ x.row.ts = end
    BY <1>1, <1>3, <1>4 DEF Ends
  <2> QED BY <1>6, <2>1
<1>8. own \in SUBSET Int /\ \A t \in own : t <= end
  <2>1. ASSUME NEW t \in own PROVE t \in Int /\ t <= end
    <3>1. PICK x \in Rows(f) : x.run = i.run /\ t = x.row.ts
      BY <1>6
    <3>2. x.run # 0
      BY <1>3, <3>1
    <3>3. x.row.ts \in Nat /\ x.row.ts <= db[f].runs[x.run]
      BY <1>1, <3>2 DEF Past
    <3> QED BY <1>4, <3>1, <3>3
  <2> QED BY <2>1
<1>9. Max(own) = end
  BY <1>7, <1>8, MaxIs
<1>10. end + 1 = 1 + end
  BY <1>5
<1> QED BY <1>2, <1>5, <1>6, <1>9, <1>10

LEMMA TypesFromInv == Base /\ RunsInv /\ IntervalsTyped => TypeOK
<1> SUFFICES ASSUME Base, RunsInv, IntervalsTyped PROVE TypeOK
  OBVIOUS
<1>1. ASSUME NEW f \in Path PROVE DOMAIN db[f].runs \subseteq 1 .. MaxRun
  <2>1. DOMAIN db[f].runs \subseteq 1 .. run
    BY DEF RunsInv
  <2>2. run \in Nat /\ run <= MaxRun /\ MaxRun \in Nat
    BY BaseNumbers
  <2>3. 1 .. run \subseteq 1 .. MaxRun
    BY ONLY <2>2
  <2> QED BY <2>1, <2>3
<1>2. ASSUME NEW f \in Path, NEW n \in DOMAIN db[f].intervals
      PROVE  LET i == db[f].intervals[n]
             IN  i.run \in DOMAIN db[f].runs /\ (i.end = Open \/ i.end >= i.start)
  BY DEF IntervalsTyped, Tracked
<1> QED BY <1>1, <1>2 DEF TypeOK, Base

(***************************************************************************)
(* The evidence of availability                                             *)
(***************************************************************************)
Horizon == MaxTime + Minute
Segment == {g \in (0 .. Horizon) \X (0 .. Horizon) : g[1] <= g[2]}
Covers(segments, t) == \E g \in segments : g[1] <= t /\ t <= g[2]
\* The segment begins and ends with evidence from U and bridges no longer silence.
Backed(g, U, gap) ==
    /\ g[1] \in U /\ g[2] \in U
    /\ \A t \in g[1] .. g[2] - 1 : \E u \in U : t - gap < u /\ u <= t

LEMMA HorizonIs == Horizon \in Nat /\ MaxTime \in Nat /\ Minute \in Nat /\ MaxTime < Horizon
  BY GraphAssumption DEF Horizon

LEMMA SegmentIs ==
    /\ \A a \in Nat, b \in Nat : a <= b /\ b <= Horizon =>
           /\ <<a, b>> \in Segment /\ <<a, b>>[1] = a /\ <<a, b>>[2] = b
    /\ \A g \in Segment : /\ g[1] \in Nat /\ g[2] \in Nat /\ g[1] <= g[2]
                          /\ g[2] <= Horizon
<1>1. ASSUME NEW a \in Nat, NEW b \in Nat, a <= b, b <= Horizon
      PROVE  <<a, b>> \in Segment /\ <<a, b>>[1] = a /\ <<a, b>>[2] = b
  <2>1. a \in 0 .. Horizon /\ b \in 0 .. Horizon
    BY <1>1, HorizonIs
  <2> QED BY <1>1, <2>1 DEF Segment
<1>2. ASSUME NEW g \in Segment
      PROVE  g[1] \in Nat /\ g[2] \in Nat /\ g[1] <= g[2] /\ g[2] <= Horizon
  <2>1. g[1] \in 0 .. Horizon /\ g[2] \in 0 .. Horizon /\ g[1] <= g[2]
    BY DEF Segment
  <2> QED BY <2>1, HorizonIs
<1> QED BY <1>1, <1>2

\* A range that starts a merged one, and the end of the last range it reaches.
Starts(ranges, gap) ==
    {r \in ranges : ~ \E q \in ranges : q[1] < r[1] /\ q[2] + gap >= r[1]}
Reach(ranges, gap, r) ==
    {q \in ranges : q[1] >= r[1] /\
        \A z \in Starts(ranges, gap) : z[1] > r[1] => q[1] < z[1]}
Far(ranges, gap, r) == Max({q[2] : q \in Reach(ranges, gap, r)})

LEMMA MergeRangesIs ==
    ASSUME NEW ranges, NEW gap
    PROVE  MergeRanges(ranges, gap) =
               {<<r[1], Far(ranges, gap, r)>> : r \in Starts(ranges, gap)}
BY DEF MergeRanges, Starts, Reach, Far

LEMMA FarIs ==
    ASSUME NEW ranges \in SUBSET Segment, NEW gap, NEW r \in Starts(ranges, gap)
    PROVE  /\ \E q \in Reach(ranges, gap, r) : Far(ranges, gap, r) = q[2]
           /\ \A q \in Reach(ranges, gap, r) : q[2] <= Far(ranges, gap, r)
           /\ <<r[1], Far(ranges, gap, r)>> \in Segment
           /\ <<r[1], Far(ranges, gap, r)>>[1] = r[1]
           /\ <<r[1], Far(ranges, gap, r)>>[2] = Far(ranges, gap, r)
<1>1. r \in ranges /\ r[1] \in Nat /\ r[2] \in Nat /\ r[1] <= r[2]
  BY SegmentIs DEF Starts
<1>2. r \in Reach(ranges, gap, r)
  BY <1>1, SegmentIs DEF Reach, Starts
<1>3. PICK S : S = {q[2] : q \in Reach(ranges, gap, r)}
  OBVIOUS
<1>4. \A q \in Reach(ranges, gap, r) : q[2] \in Nat /\ q[2] <= Horizon
  BY SegmentIs DEF Reach
<1>5. S \in SUBSET Nat /\ r[2] \in S /\ \A x \in S : x <= Horizon
  BY <1>2, <1>3, <1>4
<1>6. Max(S) \in S /\ \A x \in S : x <= Max(S)
  BY <1>5, HorizonIs, Greatest
<1>7. Far(ranges, gap, r) = Max(S)
  BY <1>3 DEF Far
<1>8. PICK m : m = Far(ranges, gap, r)
  OBVIOUS
<1>9. m \in Nat /\ m <= Horizon /\ r[2] <= m
  BY <1>5, <1>6, <1>7, <1>8
<1>10. r[1] <= m
  BY <1>1, <1>9
<1>11. <<r[1], m>> \in Segment /\ <<r[1], m>>[1] = r[1] /\ <<r[1], m>>[2] = m
  BY <1>1, <1>9, <1>10, SegmentIs
<1> QED BY <1>3, <1>6, <1>7, <1>8, <1>11

\* Every range lies in a merged one, and no two merged ranges begin together.
LEMMA Merged ==
    ASSUME NEW ranges \in SUBSET Segment, NEW gap
    PROVE  /\ MergeRanges(ranges, gap) \in SUBSET Segment
           /\ \A m \in MergeRanges(ranges, gap) : \E r \in ranges : m[1] = r[1]
           /\ \A m, o \in MergeRanges(ranges, gap) : m[1] = o[1] => m = o
           /\ \A p \in ranges : \E m \in MergeRanges(ranges, gap) :
                  m[1] <= p[1] /\ p[2] <= m[2]
<1>1. PICK S : S = Starts(ranges, gap)
  OBVIOUS
<1>2. MergeRanges(ranges, gap) = {<<r[1], Far(ranges, gap, r)>> : r \in S}
  BY <1>1, MergeRangesIs
<1>3. S \subseteq ranges
  BY <1>1 DEF Starts
<1>4. \A r \in S : /\ <<r[1], Far(ranges, gap, r)>> \in Segment
                   /\ <<r[1], Far(ranges, gap, r)>>[1] = r[1]
                   /\ <<r[1], Far(ranges, gap, r)>>[2] = Far(ranges, gap, r)
  BY <1>1, FarIs
<1>5. ASSUME NEW q \in S, NEW r \in S, q[1] = r[1]
      PROVE  Far(ranges, gap, q) = Far(ranges, gap, r)
  <2>1. Reach(ranges, gap, q) = Reach(ranges, gap, r)
    BY <1>5 DEF Reach
  <2> QED BY <2>1 DEF Far
<1>6. ASSUME NEW p \in ranges
      PROVE  \E r \in S : r[1] <= p[1] /\ p[2] <= Far(ranges, gap, r)
  <2>1. p[1] \in Nat /\ p[2] \in Nat /\ \A r \in ranges : r[1] \in Nat
    BY SegmentIs
  <2>2. PICK B : B = {r[1] : r \in ranges}
    OBVIOUS
  <2>3. B \in SUBSET Nat /\ p[1] \in B
    BY <2>1, <2>2
  <2>4. Min(B) \in B /\ \A x \in B : Min(B) <= x
    BY <2>3, Smallest
  <2>5. PICK z \in ranges : z[1] = Min(B)
    BY <2>2, <2>4
  <2>6. \A r \in ranges : z[1] <= r[1]
    BY <2>2, <2>4, <2>5
  <2>7. z \in S
    BY <1>1, <2>1, <2>6 DEF Starts
  <2>8. PICK A : A = {r[1] : r \in {q \in S : q[1] <= p[1]}}
    OBVIOUS
  <2>9. A \in SUBSET Nat /\ z[1] \in A /\ \A x \in A : x <= p[1]
    BY <1>3, <2>1, <2>6, <2>7, <2>8
  <2>10. Max(A) \in A /\ \A x \in A : x <= Max(A)
    BY <2>1, <2>9, Greatest
  <2>11. PICK r \in S : r[1] = Max(A) /\ r[1] <= p[1]
    BY <2>8, <2>10
  <2>12. ASSUME NEW s \in S, s[1] > r[1] PROVE p[1] < s[1]
    <3>1. s[1] \in Nat /\ r[1] \in Nat
      BY <1>3, <2>1
    <3>2. s[1] <= p[1] => s[1] <= r[1]
      BY <2>8, <2>10, <2>11
    <3> QED BY ONLY <2>1, <2>12, <3>1, <3>2
  <2>13. p \in Reach(ranges, gap, r)
    BY <1>1, <1>3, <2>1, <2>11, <2>12 DEF Reach
  <2>14. p[2] <= Far(ranges, gap, r)
    BY <1>1, <2>13, FarIs
  <2> QED BY <2>11, <2>14
<1>7. MergeRanges(ranges, gap) \in SUBSET Segment
  BY <1>2, <1>4
<1>8. \A m \in MergeRanges(ranges, gap) : \E r \in ranges : m[1] = r[1]
  BY <1>2, <1>3, <1>4
<1>9. ASSUME NEW m \in MergeRanges(ranges, gap), NEW o \in MergeRanges(ranges, gap),
             m[1] = o[1]
      PROVE  m = o
  <2>1. PICK q \in S : m = <<q[1], Far(ranges, gap, q)>>
    BY <1>2
  <2>2. PICK r \in S : o = <<r[1], Far(ranges, gap, r)>>
    BY <1>2
  <2>3. q[1] = r[1]
    BY <1>4, <1>9, <2>1, <2>2
  <2> QED BY <1>5, <2>1, <2>2, <2>3
<1>10. ASSUME NEW p \in ranges
       PROVE  \E m \in MergeRanges(ranges, gap) : m[1] <= p[1] /\ p[2] <= m[2]
  <2>1. PICK r \in S : r[1] <= p[1] /\ p[2] <= Far(ranges, gap, r)
    BY <1>6
  <2>2. PICK m : m = <<r[1], Far(ranges, gap, r)>>
    OBVIOUS
  <2>3. m \in MergeRanges(ranges, gap)
    BY <1>2, <2>2
  <2>4. m[1] = r[1] /\ m[2] = Far(ranges, gap, r)
    BY <1>4, <2>2
  <2> QED BY <2>1, <2>3, <2>4
<1> QED BY <1>7, <1>8, <1>9, <1>10

\* Of points, a merged range bridges no silence as long as the gap.
Points(T) == {<<t, t>> : t \in T}

LEMMA PointsAre ==
    ASSUME NEW T \in SUBSET Nat, \A t \in T : t <= MaxTime
    PROVE  /\ Points(T) \in SUBSET Segment
           /\ \A q \in Points(T) : q[1] \in T /\ q[2] = q[1]
           /\ \A t \in T : \E q \in Points(T) : q[1] = t /\ q[2] = t
<1>1. ASSUME NEW t \in T
      PROVE  <<t, t>> \in Segment /\ <<t, t>>[1] = t /\ <<t, t>>[2] = t
  <2>1. t \in Nat /\ t <= MaxTime
    OBVIOUS
  <2>2. t <= t /\ t <= Horizon
    BY ONLY <2>1, HorizonIs
  <2> QED BY <2>1, <2>2, SegmentIs
<1> QED BY <1>1 DEF Points

LEMMA MergedPoints ==
    ASSUME NEW T \in SUBSET Nat, \A t \in T : t <= MaxTime, NEW gap \in Nat,
           NEW m \in MergeRanges(Points(T), gap)
    PROVE  Backed(m, T, gap)
<1>1. PICK P : P = Points(T)
  OBVIOUS
<1>2. /\ P \in SUBSET Segment
      /\ \A q \in P : q[1] \in T /\ q[2] = q[1]
      /\ \A t \in T : \E q \in P : q[1] = t /\ q[2] = t
  BY <1>1, PointsAre
<1>3. PICK r \in Starts(P, gap) : m = <<r[1], Far(P, gap, r)>>
  BY <1>1, MergeRangesIs
<1>4. m[1] = r[1] /\ m[2] = Far(P, gap, r) /\ r \in P
  BY <1>2, <1>3, FarIs DEF Starts
<1>5. PICK q \in Reach(P, gap, r) : m[2] = q[2]
  <2>1. \E q \in Reach(P, gap, r) : Far(P, gap, r) = q[2]
    BY <1>2, <1>3, FarIs
  <2> QED BY <1>4, <2>1
<1>6. q \in P /\ q[1] = m[2] /\ m[1] \in T /\ m[2] \in T
  BY <1>2, <1>4, <1>5 DEF Reach
<1>7. ASSUME NEW t \in m[1] .. m[2] - 1 PROVE \E u \in T : t - gap < u /\ u <= t
  <2>1. t \in Nat /\ m[1] <= t /\ t < m[2] /\ m[1] \in Nat /\ m[2] \in Nat
    <3>1. m[1] \in Nat /\ m[2] \in Nat
      BY <1>6
    <3> QED BY ONLY <1>7, <3>1
  <2>2. PICK A : A = {x \in T : x <= t}
    OBVIOUS
  <2>3. A \in SUBSET Nat /\ m[1] \in A /\ \A x \in A : x <= t
    BY <1>6, <2>1, <2>2
  <2>4. Max(A) \in A /\ \A x \in A : x <= Max(A)
    BY <2>1, <2>3, Greatest
  <2>5. PICK u \in T : u <= t /\ \A x \in T : x <= t => x <= u
    BY <2>2, <2>4
  <2>6. PICK B : B = {x \in T : x > t}
    OBVIOUS
  <2>7. B \in SUBSET Nat /\ m[2] \in B
    BY <1>6, <2>1, <2>6
  <2>8. Min(B) \in B /\ \A x \in B : Min(B) <= x
    BY <2>7, Smallest
  <2>9. PICK v \in T : v > t /\ \A x \in T : x > t => v <= x
    BY <2>6, <2>8
  <2>10. ASSUME u + gap <= t PROVE FALSE
    <3>1. PICK z \in P : z[1] = v /\ z[2] = v
      BY <1>2
    <3>2. ASSUME NEW y \in P, y[1] < z[1], y[2] + gap >= z[1] PROVE FALSE
      <4>1. y[1] \in T /\ y[2] = y[1]
        BY <1>2
      <4>2. y[1] \in Nat /\ y[1] < v /\ y[1] + gap >= v /\ u \in Nat /\ v \in Nat
        BY <3>1, <3>2, <4>1
      <4>3. y[1] <= t
        BY <2>1, <2>9, <4>1, <4>2
      <4>4. y[1] <= u
        BY <2>5, <4>1, <4>3
      <4> QED BY ONLY <2>1, <2>9, <2>10, <4>2, <4>4, gap \in Nat
    <3>3. z \in Starts(P, gap)
      BY <3>2 DEF Starts
    <3>4. z[1] > r[1]
      BY <1>4, <2>1, <2>9, <3>1
    <3>5. q[1] < z[1]
      BY <1>5, <3>3, <3>4 DEF Reach
    <3>6. v <= m[2]
      BY <1>6, <2>1, <2>9
    <3>7. m[2] < v /\ v \in Nat
      BY <1>6, <3>1, <3>5
    <3> QED BY ONLY <2>1, <3>6, <3>7
  <2>11. u \in Nat
    BY <2>5
  <2>12. t - gap < u
    BY ONLY <2>1, <2>10, <2>11, gap \in Nat
  <2> QED BY <2>5, <2>12
<1> QED BY <1>6, <1>7 DEF Backed

\* The segment that ends last is there.
LEMMA LastIs ==
    ASSUME NEW segments \in SUBSET Segment, segments # {}, NEW last,
           last = CHOOSE g \in segments : \A h \in segments : h[2] <= g[2]
    PROVE  last \in segments
<1>1. PICK S : S = {g[2] : g \in segments}
  OBVIOUS
<1>2. S \in SUBSET Nat /\ S # {} /\ \A x \in S : x <= Horizon
  BY <1>1, SegmentIs
<1>3. Max(S) \in S /\ \A x \in S : x <= Max(S)
  BY <1>2, HorizonIs, Greatest
<1>4. \E g \in segments : \A h \in segments : h[2] <= g[2]
  BY <1>1, <1>3
<1> QED BY ONLY <1>4, last = CHOOSE g \in segments : \A h \in segments : h[2] <= g[2]

\* The two outcomes of an extension: a segment of its own, or one that is longer.
Lengthened(segments, range, gap, new) ==
    \E g \in segments, h \in Segment :
        /\ range[1] <= g[2] + gap /\ new = (segments \ {g}) \cup {h}
        /\ h[1] <= g[1] /\ h[1] <= range[1] /\ (h[1] = g[1] \/ h[1] = range[1])
        /\ g[2] <= h[2] /\ range[2] <= h[2] /\ (h[2] = g[2] \/ h[2] = range[2])

LEMMA ExtendIs ==
    ASSUME NEW segments \in SUBSET Segment, NEW range \in Segment, NEW gap \in Nat,
           NEW new, new = Extend(segments, range, gap)
    PROVE  new = segments \cup {range} \/ Lengthened(segments, range, gap, new)
<1>1. PICK last : last = CHOOSE g \in segments : \A h \in segments : h[2] <= g[2]
  OBVIOUS
<1>2. new = IF segments # {} /\ range[1] <= last[2] + gap
            THEN (segments \ {last}) \cup
                 {<<Min({last[1], range[1]}), Max({last[2], range[2]})>>}
            ELSE segments \cup {range}
  BY <1>1 DEF Extend
<1>3. CASE segments # {} /\ range[1] <= last[2] + gap
  <2>1. last \in segments
    BY <1>1, <1>3, LastIs
  <2>2. /\ last[1] \in Nat /\ last[2] \in Nat /\ last[1] <= last[2] /\ last[2] <= Horizon
        /\ range[1] \in Nat /\ range[2] \in Nat /\ range[1] <= range[2]
        /\ range[2] <= Horizon
    BY <2>1, SegmentIs
  <2>3. PICK a : a = Min({last[1], range[1]})
    OBVIOUS
  <2>4. PICK b : b = Max({last[2], range[2]})
    OBVIOUS
  <2>5. a \in {last[1], range[1]} /\ a <= last[1] /\ a <= range[1]
    <3>1. {last[1], range[1]} \in SUBSET Nat /\ {last[1], range[1]} # {}
      BY <2>2
    <3> QED BY <2>3, <3>1, Smallest
  <2>6. b \in {last[2], range[2]} /\ last[2] <= b /\ range[2] <= b
    <3>1. /\ {last[2], range[2]} \in SUBSET Nat /\ {last[2], range[2]} # {}
          /\ \A x \in {last[2], range[2]} : x <= Horizon
      BY <2>2
    <3> QED BY <2>4, <3>1, HorizonIs, Greatest
  <2>7. a \in Nat /\ b \in Nat /\ a <= b /\ b <= Horizon
    BY <2>2, <2>5, <2>6, HorizonIs
  <2>8. PICK h : h = <<a, b>>
    OBVIOUS
  <2>9. h \in Segment /\ h[1] = a /\ h[2] = b
    BY <2>7, <2>8, SegmentIs
  <2>10. new = (segments \ {last}) \cup {h}
    BY <1>2, <1>3, <2>3, <2>4, <2>8
  <2> QED BY <1>3, <2>1, <2>5, <2>6, <2>9, <2>10 DEF Lengthened
<1>4. CASE ~(segments # {} /\ range[1] <= last[2] + gap)
  BY <1>2, <1>4
<1> QED BY <1>3, <1>4

\* Extension keeps what was covered and covers the range.
LEMMA ExtendCovers ==
    ASSUME NEW segments \in SUBSET Segment, NEW range \in Segment, NEW gap \in Nat,
           NEW new, new = Extend(segments, range, gap)
    PROVE  /\ new \in SUBSET Segment
           /\ \A t \in Nat : Covers(segments, t) => Covers(new, t)
           /\ \A t \in Nat : range[1] <= t /\ t <= range[2] => Covers(new, t)
<1>1. CASE new = segments \cup {range}
  BY <1>1 DEF Covers
<1>2. CASE Lengthened(segments, range, gap, new)
  <2>1. PICK g \in segments, h \in Segment :
            /\ new = (segments \ {g}) \cup {h}
            /\ h[1] <= g[1] /\ h[1] <= range[1] /\ g[2] <= h[2] /\ range[2] <= h[2]
    BY <1>2 DEF Lengthened
  <2>2. /\ g[1] \in Nat /\ g[2] \in Nat /\ h[1] \in Nat /\ h[2] \in Nat
        /\ range[1] \in Nat /\ range[2] \in Nat
    BY SegmentIs
  <2>3. ASSUME NEW t \in Nat, Covers(segments, t) PROVE Covers(new, t)
    <3>1. PICK s \in segments : s[1] <= t /\ t <= s[2]
      BY <2>3 DEF Covers
    <3>2. CASE s = g
      <4>1. h[1] <= t /\ t <= h[2]
        BY <2>1, <2>2, <3>1, <3>2
      <4> QED BY <2>1, <4>1 DEF Covers
    <3>3. CASE s # g
      BY <2>1, <3>1, <3>3 DEF Covers
    <3> QED BY <3>2, <3>3
  <2>4. ASSUME NEW t \in Nat, range[1] <= t, t <= range[2] PROVE Covers(new, t)
    <3>1. h[1] <= t /\ t <= h[2]
      BY <2>1, <2>2, <2>4
    <3> QED BY <2>1, <3>1 DEF Covers
  <2> QED BY <2>1, <2>3, <2>4
<1> QED BY <1>1, <1>2, ExtendIs

\* With later evidence it bridges no longer silence.
LEMMA ExtendBacked ==
    ASSUME NEW segments \in SUBSET Segment, NEW range \in Segment, NEW gap \in Nat,
           NEW new, new = Extend(segments, range, gap), NEW U \in SUBSET Nat,
           \A g \in segments : Backed(g, U, gap) /\ g[1] <= range[1],
           Backed(range, U, gap)
    PROVE  \A g \in new : Backed(g, U, gap) /\ g[1] <= range[1]
<1>1. range[1] \in Nat /\ range[2] \in Nat /\ range[1] <= range[2]
  BY SegmentIs
<1>2. CASE new = segments \cup {range}
  <2>1. range[1] <= range[1]
    BY <1>1
  <2> QED BY <1>2, <2>1
<1>3. CASE Lengthened(segments, range, gap, new)
  <2>1. PICK g \in segments, h \in Segment :
            /\ range[1] <= g[2] + gap /\ new = (segments \ {g}) \cup {h}
            /\ h[1] <= g[1] /\ h[1] <= range[1] /\ (h[1] = g[1] \/ h[1] = range[1])
            /\ g[2] <= h[2] /\ range[2] <= h[2] /\ (h[2] = g[2] \/ h[2] = range[2])
    BY <1>3 DEF Lengthened
  <2>2. g[1] \in Nat /\ g[2] \in Nat /\ h[1] \in Nat /\ h[2] \in Nat /\ g[1] <= range[1]
    BY SegmentIs
  <2>3. h[1] = g[1]
    BY <1>1, <2>1, <2>2
  <2>4. /\ g[1] \in U /\ g[2] \in U /\ range[2] \in U
        /\ \A t \in g[1] .. g[2] - 1 : \E u \in U : t - gap < u /\ u <= t
        /\ \A t \in range[1] .. range[2] - 1 : \E u \in U : t - gap < u /\ u <= t
    BY DEF Backed
  <2>5. ASSUME NEW t \in h[1] .. h[2] - 1 PROVE \E u \in U : t - gap < u /\ u <= t
    <3>1. t \in Nat /\ h[1] <= t /\ t < h[2]
      BY ONLY <2>2, <2>5
    <3>2. CASE t < g[2]
      <4>1. t \in g[1] .. g[2] - 1
        BY ONLY <2>2, <2>3, <3>1, <3>2
      <4> QED BY <2>4, <4>1
    <3>3. CASE g[2] <= t /\ t < range[1]
      <4>1. t - gap < g[2]
        BY ONLY <1>1, <2>1, <2>2, <3>1, <3>3, gap \in Nat
      <4> QED BY <2>4, <3>3, <4>1
    <3>4. CASE g[2] <= t /\ range[1] <= t
      <4>1. h[2] = range[2]
        BY ONLY <2>1, <2>2, <3>1, <3>4
      <4>2. t \in range[1] .. range[2] - 1
        BY ONLY <1>1, <3>1, <3>4, <4>1
      <4> QED BY <2>4, <4>2
    <3> QED BY ONLY <1>1, <2>2, <3>1, <3>2, <3>3, <3>4
  <2>6. Backed(h, U, gap)
    BY <2>1, <2>3, <2>4, <2>5 DEF Backed
  <2> QED BY <2>1, <2>6
<1> QED BY <1>2, <1>3, ExtendIs

\* The ranges that begin at the time t; there is at most one.
Begun(before, ranges, t, gap) ==
    LET now == {r \in ranges : r[1] = t}
    IN  IF now = {} THEN before ELSE Extend(before, CHOOSE r \in now : TRUE, gap)

LEMMA ExtendAllSteps ==
    ASSUME NEW segments, NEW ranges, NEW gap
    PROVE  \E g : /\ g[0] = segments
                  /\ \A n \in 1 .. MaxTime + 1 :
                         g[n] = Begun(g[n - 1], ranges, n - 1, gap)
                  /\ ExtendAll(segments, ranges, gap) = g[MaxTime + 1]
<1> DEFINE N == MaxTime + 1
           Is(g, k) == g = [t \in 0 .. k |->
                               IF t = 0 THEN segments
                               ELSE Begun(g[t - 1], ranges, t - 1, gap)]
           Has(k) == \E g : Is(g, k)
<1>1. N \in Nat
  BY HorizonIs
<1> HIDE DEF N
<1>2. Has(0)
  <2>1. Is([t \in 0 .. 0 |-> segments], 0)
    OBVIOUS
  <2> QED BY <2>1
<1>3. ASSUME NEW k \in Nat, Has(k) PROVE Has(k + 1)
  <2>1. PICK g : Is(g, k)
    BY <1>3
  <2> DEFINE h == [t \in 0 .. k + 1 |->
                      IF t = k + 1 THEN Begun(g[k], ranges, k, gap) ELSE g[t]]
  <2>2. ASSUME NEW t \in 0 .. k + 1
        PROVE  h[t] = IF t = 0 THEN segments ELSE Begun(h[t - 1], ranges, t - 1, gap)
    <3>1. CASE t = k + 1
      BY <3>1
    <3>2. CASE t # k + 1
      BY <2>1, <3>2
    <3> QED BY <3>1, <3>2
  <2>3. Is(h, k + 1)
    BY <2>2
  <2> HIDE DEF h
  <2> QED BY <2>3
<1>4. Has(N)
  <2> HIDE DEF Has
  <2> DEFINE T == {k \in Nat : Has(k)}
  <2>1. 0 \in T /\ \A k \in Nat : k < N /\ k \in T => k + 1 \in T
    BY <1>2, <1>3
  <2> HIDE DEF T
  <2>2. \A k \in 0 .. N : k \in T
    BY <1>1, <2>1, UpTo
  <2>3. N \in T
    BY <1>1, <2>2
  <2> QED BY <2>3 DEF T
<1> DEFINE by == CHOOSE g : Is(g, N)
<1>5. Is(by, N)
  <2> HIDE DEF Is
  <2> QED BY <1>4
<1>6. ExtendAll(segments, ranges, gap) = by[N]
  BY DEF ExtendAll, Begun, N
<1> HIDE DEF by
<1>7. by[0] = segments
  BY <1>1, <1>5
<1>8. \A n \in 1 .. N : by[n] = Begun(by[n - 1], ranges, n - 1, gap)
  BY <1>1, <1>5
<1> QED BY <1>6, <1>7, <1>8 DEF N

\* Merged ranges: no two begin together, and each begins in the time of the instance.
Apart(ranges) ==
    /\ ranges \in SUBSET Segment
    /\ \A r \in ranges : r[1] <= MaxTime
    /\ \A r, q \in ranges : r[1] = q[1] => r = q

LEMMA BegunIs ==
    ASSUME NEW ranges, Apart(ranges), NEW before, NEW t, NEW gap, NEW new,
           new = Begun(before, ranges, t, gap)
    PROVE  \/ new = before /\ \A r \in ranges : r[1] # t
           \/ \E r \in ranges : /\ r[1] = t /\ new = Extend(before, r, gap)
                                /\ \A q \in ranges : q[1] = t => q = r
<1>1. PICK now : now = {r \in ranges : r[1] = t}
  OBVIOUS
<1>2. new = IF now = {} THEN before ELSE Extend(before, CHOOSE r \in now : TRUE, gap)
  BY <1>1 DEF Begun
<1>3. CASE now = {}
  BY <1>1, <1>2, <1>3
<1>4. CASE now # {}
  <2>1. PICK r : r = CHOOSE x \in now : TRUE
    OBVIOUS
  <2>2. r \in now
    BY <1>4, <2>1
  <2> QED BY <1>1, <1>2, <1>4, <2>1, <2>2 DEF Apart
<1> QED BY <1>3, <1>4

LEMMA ExtendAllCovers ==
    ASSUME NEW segments \in SUBSET Segment, NEW ranges, Apart(ranges), NEW gap \in Nat,
           NEW new, new = ExtendAll(segments, ranges, gap)
    PROVE  /\ new \in SUBSET Segment
           /\ \A t \in Nat : Covers(segments, t) => Covers(new, t)
           /\ \A t \in Nat : Covers(ranges, t) => Covers(new, t)
<1>1. PICK N : N = MaxTime + 1
  OBVIOUS
<1>2. PICK g : /\ g[0] = segments
               /\ \A n \in 1 .. N : g[n] = Begun(g[n - 1], ranges, n - 1, gap)
               /\ new = g[N]
  BY <1>1, ExtendAllSteps
<1>3. N \in Nat
  BY <1>1, HorizonIs
<1> DEFINE Good(k) ==
               /\ g[k] \in SUBSET Segment
               /\ \A t \in Nat : Covers(segments, t) => Covers(g[k], t)
               /\ \A r \in ranges : \A t \in Nat :
                      r[1] < k /\ r[1] <= t /\ t <= r[2] => Covers(g[k], t)
           T == {k \in Nat : Good(k)}
<1>4. 0 \in T
  <2>1. \A r \in ranges : r[1] \in Nat
    BY SegmentIs DEF Apart
  <2> QED BY <1>2, <2>1
<1>5. ASSUME NEW k \in Nat, k < N, k \in T PROVE k + 1 \in T
  <2>1. g[k + 1] = Begun(g[k], ranges, k, gap)
    <3>1. k + 1 \in 1 .. N /\ k + 1 - 1 = k
      BY <1>3, <1>5
    <3> QED BY <1>2, <3>1
  <2>2. Good(k)
    BY <1>5
  <2>3. PICK a : a = g[k]
    OBVIOUS
  <2>4. PICK b : b = g[k + 1]
    OBVIOUS
  <2>5. \A r \in ranges : r[1] \in Nat /\ r \in Segment
    BY SegmentIs DEF Apart
  <2>6. \A r \in ranges : r[1] < k + 1 => r[1] < k \/ r[1] = k
    BY <2>5
  <2>7. ASSUME b = a, \A r \in ranges : r[1] # k PROVE Good(k + 1)
    <3>1. /\ a \in SUBSET Segment
          /\ \A t \in Nat : Covers(segments, t) => Covers(a, t)
          /\ \A r \in ranges : \A t \in Nat :
                 r[1] < k /\ r[1] <= t /\ t <= r[2] => Covers(a, t)
      BY <2>2, <2>3
    <3>2. g[k + 1] = a
      BY <2>4, <2>7
    <3>3. \A r \in ranges : r[1] < k + 1 => r[1] < k
      BY <2>6, <2>7
    <3> QED BY <3>1, <3>2, <3>3
  <2>8. ASSUME NEW q \in ranges, b = Extend(a, q, gap),
               \A r \in ranges : r[1] = k => r = q
        PROVE  Good(k + 1)
    <3>1. /\ b \in SUBSET Segment
          /\ \A t \in Nat : Covers(a, t) => Covers(b, t)
          /\ \A t \in Nat : q[1] <= t /\ t <= q[2] => Covers(b, t)
      BY <2>2, <2>3, <2>5, <2>8, ExtendCovers
    <3> QED BY <2>2, <2>3, <2>4, <2>6, <2>8, <3>1
  <2>9. Good(k + 1)
    BY <2>1, <2>3, <2>4, <2>7, <2>8, BegunIs
  <2> QED BY <2>9
<1>6. Good(N)
  <2> HIDE DEF Good
  <2>1. \A k \in Nat : k < N /\ k \in T => k + 1 \in T
    BY <1>5
  <2> HIDE DEF T
  <2>2. \A k \in 0 .. N : k \in T
    BY <1>3, <1>4, <2>1, UpTo
  <2>3. N \in T
    BY <1>3, <2>2
  <2> QED BY <2>3 DEF T
<1>7. \A r \in ranges : r[1] < N
  <2>1. ASSUME NEW r \in ranges PROVE r[1] < N
    <3>1. r[1] \in Nat /\ r[1] <= MaxTime
      BY SegmentIs DEF Apart
    <3> QED BY ONLY <1>1, <3>1, HorizonIs
  <2> QED BY <2>1
<1> QED BY <1>2, <1>6, <1>7 DEF Covers

LEMMA ExtendAllBacked ==
    ASSUME NEW segments \in SUBSET Segment, NEW ranges, Apart(ranges), NEW gap \in Nat,
           NEW new, new = ExtendAll(segments, ranges, gap), NEW U \in SUBSET Nat,
           \A s \in segments : Backed(s, U, gap) /\ \A r \in ranges : s[1] <= r[1],
           \A r \in ranges : Backed(r, U, gap)
    PROVE  \A s \in new : Backed(s, U, gap)
<1>1. PICK N : N = MaxTime + 1
  OBVIOUS
<1>2. PICK g : /\ g[0] = segments
               /\ \A n \in 1 .. N : g[n] = Begun(g[n - 1], ranges, n - 1, gap)
               /\ new = g[N]
  BY <1>1, ExtendAllSteps
<1>3. N \in Nat
  BY <1>1, HorizonIs
<1> DEFINE Good(k) ==
               /\ g[k] \in SUBSET Segment
               /\ \A s \in g[k] : /\ Backed(s, U, gap)
                                  /\ \A r \in ranges : k <= r[1] => s[1] <= r[1]
           T == {k \in Nat : Good(k)}
<1>4. 0 \in T
  BY <1>2
<1>5. ASSUME NEW k \in Nat, k < N, k \in T PROVE k + 1 \in T
  <2>1. g[k + 1] = Begun(g[k], ranges, k, gap)
    <3>1. k + 1 \in 1 .. N /\ k + 1 - 1 = k
      BY <1>3, <1>5
    <3> QED BY <1>2, <3>1
  <2>2. Good(k)
    BY <1>5
  <2>3. PICK a : a = g[k]
    OBVIOUS
  <2>4. PICK b : b = g[k + 1]
    OBVIOUS
  <2>5. \A r \in ranges : r[1] \in Nat /\ r \in Segment
    BY SegmentIs DEF Apart
  <2>6. \A r \in ranges : k + 1 <= r[1] => k <= r[1]
    BY <2>5
  <2>7. ASSUME b = a PROVE Good(k + 1)
    <3>1. /\ a \in SUBSET Segment
          /\ \A s \in a : /\ Backed(s, U, gap)
                         /\ \A r \in ranges : k <= r[1] => s[1] <= r[1]
      BY <2>2, <2>3
    <3>2. g[k + 1] = a
      BY <2>4, <2>7
    <3> QED BY <2>6, <3>1, <3>2
  <2>8. ASSUME NEW q \in ranges, q[1] = k, b = Extend(a, q, gap)
        PROVE  Good(k + 1)
    <3>1. \A s \in a : Backed(s, U, gap) /\ s[1] <= q[1]
      <4>1. k <= q[1]
        BY <2>8
      <4> QED BY <2>2, <2>3, <2>8, <4>1
    <3>2. a \in SUBSET Segment /\ Backed(q, U, gap)
      BY <2>2, <2>3
    <3>3. b \in SUBSET Segment
      BY <2>5, <2>8, <3>2, ExtendCovers
    <3>4. \A s \in b : Backed(s, U, gap) /\ s[1] <= q[1]
      BY <2>5, <2>8, <3>1, <3>2, ExtendBacked
    <3>5. ASSUME NEW s \in b, NEW r \in ranges, k + 1 <= r[1] PROVE s[1] <= r[1]
      <4>1. s[1] \in Nat /\ s[1] <= k
        BY <2>8, <3>3, <3>4, SegmentIs
      <4>2. r[1] \in Nat
        BY <2>5
      <4> QED BY ONLY <3>5, <4>1, <4>2, k \in Nat
    <3> QED BY <2>4, <3>3, <3>4, <3>5
  <2>9. Good(k + 1)
    BY <2>1, <2>3, <2>4, <2>7, <2>8, BegunIs
  <2> QED BY <2>9
<1>6. Good(N)
  <2> HIDE DEF Good
  <2>1. \A k \in Nat : k < N /\ k \in T => k + 1 \in T
    BY <1>5
  <2> HIDE DEF T
  <2>2. \A k \in 0 .. N : k \in T
    BY <1>3, <1>4, <2>1, UpTo
  <2>3. N \in T
    BY <1>3, <2>2
  <2> QED BY <2>3 DEF T
<1> QED BY <1>2, <1>6

LEMMA MergedApart ==
    ASSUME NEW ranges \in SUBSET Segment, \A r \in ranges : r[1] <= MaxTime, NEW gap
    PROVE  /\ Apart(MergeRanges(ranges, gap))
           /\ \A t \in Nat : Covers(ranges, t) => Covers(MergeRanges(ranges, gap), t)
<1>1. PICK M : M = MergeRanges(ranges, gap)
  OBVIOUS
<1>2. /\ M \in SUBSET Segment
      /\ \A m \in M : \E r \in ranges : m[1] = r[1]
      /\ \A m, o \in M : m[1] = o[1] => m = o
      /\ \A p \in ranges : \E m \in M : m[1] <= p[1] /\ p[2] <= m[2]
  BY <1>1, Merged
<1>3. Apart(M)
  BY <1>2 DEF Apart
<1>4. ASSUME NEW t \in Nat, Covers(ranges, t) PROVE Covers(M, t)
  <2>1. PICK p \in ranges : p[1] <= t /\ t <= p[2]
    BY <1>4 DEF Covers
  <2>2. PICK m \in M : m[1] <= p[1] /\ p[2] <= m[2]
    BY <1>2
  <2>3. /\ p[1] \in Nat /\ p[2] \in Nat /\ m[1] \in Nat /\ m[2] \in Nat
    BY <1>2, SegmentIs
  <2>4. m[1] <= t /\ t <= m[2]
    BY ONLY <2>1, <2>2, <2>3, t \in Nat
  <2> QED BY <2>4 DEF Covers
<1> QED BY <1>1, <1>3, <1>4

\* The times at which a power was measured, in the log and in the batch.
TimesOf(f) == {x.row.ts : x \in {y \in Rows(f) : y.row.power # {}}}
Buckets(T) == {<<Bucket(t), Bucket(t) + Minute - 1>> : t \in T}

LEMMA BucketsAre ==
    ASSUME NEW T \in SUBSET Nat, \A t \in T : t <= MaxTime
    PROVE  /\ Buckets(T) \in SUBSET Segment /\ \A r \in Buckets(T) : r[1] <= MaxTime
           /\ \A t \in T : Covers(Buckets(T), t)
<1>1. ASSUME NEW t \in T
      PROVE  \E r \in Segment : /\ r = <<Bucket(t), Bucket(t) + Minute - 1>>
                                /\ r[1] <= t /\ t <= r[2] /\ r[1] <= MaxTime
  <2>1. t \in Nat /\ t <= MaxTime
    OBVIOUS
  <2>2. Bucket(t) \in Nat /\ Bucket(t) <= t /\ t <= Bucket(t) + Minute - 1
    BY <2>1, BucketHolds
  <2>3. PICK a : a = Bucket(t)
    OBVIOUS
  <2>4. PICK b : b = Bucket(t) + Minute - 1
    OBVIOUS
  <2>5. a \in Nat /\ b = a + Minute - 1 /\ a <= t /\ t <= b
    BY <2>2, <2>3, <2>4
  <2>6. b \in Nat /\ a <= b /\ a <= MaxTime /\ b <= Horizon
    BY ONLY <2>1, <2>5, HorizonIs DEF Horizon
  <2>7. PICK r : r = <<a, b>>
    OBVIOUS
  <2>8. r \in Segment /\ r[1] = a /\ r[2] = b
    BY <2>5, <2>6, <2>7, SegmentIs
  <2> QED BY <2>3, <2>4, <2>5, <2>6, <2>7, <2>8
<1> QED BY <1>1 DEF Buckets, Covers

LEMMA PendingTimes ==
    ASSUME Base
    PROVE  Times(pending) \in SUBSET Nat /\ \A t \in Times(pending) : t <= MaxTime
BY BatchIs, RowFields DEF Times

LEMMA TimesGrow ==
    ASSUME Base, WriteBatch
    PROVE  TimesOf(batchPath)' = TimesOf(batchPath) \cup Times(pending)
<1>1. batchPath' = batchPath
  BY DEF WriteBatch
<1>2. PICK L : L = Rows(batchPath)
  OBVIOUS
<1>3. PICK M : M = Rows(batchPath)'
  OBVIOUS
<1>4. /\ \A x \in L : x \in M
      /\ \A n \in 1 .. Len(pending) : \E x \in M : x.run = run /\ x.row = pending[n]
      /\ \A x \in M : \/ x \in L
                      \/ x.run = run /\ \E n \in 1 .. Len(pending) : x.row = pending[n]
  BY <1>2, <1>3, RowsGrow
<1>5. TimesOf(batchPath) = {x.row.ts : x \in {y \in L : y.row.power # {}}}
  BY <1>2 DEF TimesOf
<1>6. TimesOf(batchPath)' = {x.row.ts : x \in {y \in M : y.row.power # {}}}
  BY <1>1, <1>3 DEF TimesOf
<1>7. PICK P : P = pending
  OBVIOUS
<1>8. /\ DOMAIN P = 1 .. Len(pending)
      /\ Times(pending) = {P[n].ts : n \in {m \in DOMAIN P : P[m].power # {}}}
  BY <1>7, BatchIs DEF Times
<1>9. /\ \A n \in DOMAIN P : \E x \in M : x.row = P[n]
      /\ \A x \in M : x \in L \/ \E n \in DOMAIN P : x.row = P[n]
  BY <1>4, <1>7, <1>8
<1>10. ASSUME NEW t \in TimesOf(batchPath)' PROVE t \in TimesOf(batchPath) \cup Times(pending)
  <2>1. PICK x \in M : x.row.power # {} /\ t = x.row.ts
    BY <1>6
  <2>2. CASE x \in L
    BY <1>5, <2>1, <2>2
  <2>3. CASE \E n \in DOMAIN P : x.row = P[n]
    BY <1>8, <2>1, <2>3
  <2> QED BY <1>9, <2>2, <2>3
<1>11. ASSUME NEW t \in TimesOf(batchPath) PROVE t \in TimesOf(batchPath)'
  BY <1>4, <1>5, <1>6
<1>12. ASSUME NEW t \in Times(pending) PROVE t \in TimesOf(batchPath)'
  <2>1. PICK n \in DOMAIN P : P[n].power # {} /\ t = P[n].ts
    BY <1>8
  <2>2. PICK x \in M : x.row = P[n]
    BY <1>9
  <2> QED BY <1>6, <2>1, <2>2
<1> QED BY <1>10, <1>11, <1>12

EvidenceInv ==
    \A f \in Path :
        /\ db[f].highres \in SUBSET Segment /\ db[f].permin \in SUBSET Segment
        /\ \A t \in TimesOf(f) : Covers(db[f].highres, t) /\ Covers(db[f].permin, t)
        /\ stepped = {} => \A g \in db[f].highres : Backed(g, TimesOf(f), JoinGap)

LEMMA TimesTyped ==
    ASSUME Base, NEW f \in Path
    PROVE  TimesOf(f) \in SUBSET Nat
<1>1. \A x \in Rows(f) : x.row \in Row
  BY RowsTyped DEF Rows
<1> QED BY <1>1, RowFields DEF TimesOf

\* In a steady history the batch is later than all that was committed.
LEMMA TimesInOrder ==
    ASSUME Base, Order, stepped = {}
    PROVE  \A u \in TimesOf(batchPath) : \A t \in Times(pending) : u < t
<1> SUFFICES ASSUME NEW u \in TimesOf(batchPath), NEW t \in Times(pending)
             PROVE  u < t
  OBVIOUS
<1>1. PICK n \in DOMAIN log[batchPath] : u = log[batchPath][n].row.ts
  BY DEF TimesOf, Rows
<1>2. PICK m \in DOMAIN pending : t = pending[m].ts
  BY DEF Times
<1>3. LoggedBefore(log[batchPath][n])
  BY BatchIs DEF Order
<1>4. PICK x : x = log[batchPath][n]
  OBVIOUS
<1>5. LoggedBefore(x) /\ u = x.row.ts
  BY <1>1, <1>3, <1>4
<1> QED BY <1>2, <1>5 DEF LoggedBefore

LEMMA EvidenceBatch ==
    ASSUME Base, Order, EvidenceInv, WriteBatch
    PROVE  /\ db'[batchPath].highres \in SUBSET Segment
           /\ db'[batchPath].permin \in SUBSET Segment
           /\ \A t \in TimesOf(batchPath)' : /\ Covers(db'[batchPath].highres, t)
                                             /\ Covers(db'[batchPath].permin, t)
           /\ stepped = {} => \A g \in db'[batchPath].highres :
                                  Backed(g, TimesOf(batchPath)', JoinGap)
<1>1. PICK T : T = Times(pending)
  OBVIOUS
<1>2. PICK old : old = db[batchPath].highres
  OBVIOUS
<1>3. PICK oldmin : oldmin = db[batchPath].permin
  OBVIOUS
<1>4. PICK new : new = db'[batchPath].highres
  OBVIOUS
<1>5. PICK newmin : newmin = db'[batchPath].permin
  OBVIOUS
<1>6. /\ new = ExtendAll(old, MergeRanges(Points(T), JoinGap), JoinGap)
      /\ newmin = ExtendAll(oldmin, MergeRanges(Buckets(T), 1), 1)
  <2>1. PICK g, N : Advanced(g, N)
    BY WriteBatchIs
  <2>2. Committed(db'[batchPath], Bound(batchPath)', db[batchPath], g[N], pending)
    BY <2>1 DEF Advanced
  <2> QED BY <1>1, <1>2, <1>3, <1>4, <1>5, <2>2 DEF Committed, Points, Buckets
<1>7. T \in SUBSET Nat /\ \A t \in T : t <= MaxTime
  BY <1>1, PendingTimes
<1>8. PICK U : U = TimesOf(batchPath)
  OBVIOUS
<1>9. /\ old \in SUBSET Segment /\ oldmin \in SUBSET Segment /\ U \in SUBSET Nat
      /\ \A t \in U : Covers(old, t) /\ Covers(oldmin, t)
      /\ stepped = {} => \A g \in old : Backed(g, U, JoinGap)
  BY <1>2, <1>3, <1>8, BatchIs, TimesTyped DEF EvidenceInv
<1>10. TimesOf(batchPath)' = U \cup T
  BY <1>1, <1>8, TimesGrow
<1>11. JoinGap \in Nat /\ 1 \in Nat
  BY GraphAssumption
<1>12. PICK P : P = MergeRanges(Points(T), JoinGap)
  OBVIOUS
<1>13. PICK B : B = MergeRanges(Buckets(T), 1)
  OBVIOUS
<1>14. /\ Points(T) \in SUBSET Segment /\ \A r \in Points(T) : r[1] \in T
       /\ \A t \in T : Covers(Points(T), t)
  <2>1. \A t \in T : t <= t
    BY <1>7
  <2> QED BY <1>7, <2>1, PointsAre DEF Covers
<1>15. Apart(P) /\ \A t \in T : Covers(P, t)
  BY <1>7, <1>12, <1>14, MergedApart
<1>16. Apart(B) /\ \A t \in T : Covers(B, t)
  <2>1. /\ Buckets(T) \in SUBSET Segment /\ \A r \in Buckets(T) : r[1] <= MaxTime
        /\ \A t \in T : Covers(Buckets(T), t)
    BY <1>7, BucketsAre
  <2> QED BY <1>7, <1>13, <2>1, MergedApart
<1>17. /\ new \in SUBSET Segment
       /\ \A t \in Nat : Covers(old, t) => Covers(new, t)
       /\ \A t \in Nat : Covers(P, t) => Covers(new, t)
  BY <1>6, <1>9, <1>11, <1>12, <1>15, ExtendAllCovers
<1>18. /\ newmin \in SUBSET Segment
       /\ \A t \in Nat : Covers(oldmin, t) => Covers(newmin, t)
       /\ \A t \in Nat : Covers(B, t) => Covers(newmin, t)
  BY <1>6, <1>9, <1>11, <1>13, <1>16, ExtendAllCovers
<1>19. ASSUME NEW t \in U \cup T PROVE Covers(new, t) /\ Covers(newmin, t)
  BY <1>7, <1>9, <1>15, <1>16, <1>17, <1>18
<1>20. ASSUME stepped = {} PROVE \A g \in new : Backed(g, U \cup T, JoinGap)
  <2>1. PICK V : V = U \cup T
    OBVIOUS
  <2>2. V \in SUBSET Nat
    BY <1>7, <1>9, <2>1
  <2>3. \A u \in U : \A t \in T : u < t
    BY <1>1, <1>8, <1>20, TimesInOrder
  <2>4. \A g \in old : Backed(g, V, JoinGap) /\ g[1] \in U
    BY <1>9, <1>20, <2>1 DEF Backed
  <2>5. ASSUME NEW r \in P PROVE Backed(r, V, JoinGap) /\ r[1] \in T
    <3>1. Backed(r, T, JoinGap)
      BY <1>7, <1>11, <1>12, MergedPoints
    <3> QED BY <2>1, <3>1 DEF Backed
  <2>6. \A g \in old : \A r \in P : g[1] <= r[1]
    <3>1. \A u \in U : \A t \in T : u \in Nat /\ t \in Nat /\ u <= t
      BY <1>7, <1>9, <2>3
    <3> QED BY <2>4, <2>5, <3>1
  <2>7. \A g \in old : Backed(g, V, JoinGap) /\ \A r \in P : g[1] <= r[1]
    BY <2>4, <2>6
  <2>8. \A r \in P : Backed(r, V, JoinGap)
    BY <2>5
  <2>9. \A g \in new : Backed(g, V, JoinGap)
    BY <1>6, <1>9, <1>11, <1>12, <1>15, <2>2, <2>7, <2>8, ExtendAllBacked
  <2> QED BY <2>1, <2>9
<1> QED BY <1>4, <1>5, <1>10, <1>17, <1>18, <1>19, <1>20

LEMMA EvidenceInit == Init => EvidenceInv
<1> SUFFICES ASSUME Init, NEW f \in Path
             PROVE  db[f].highres = {} /\ db[f].permin = {} /\ TimesOf(f) = {}
  BY DEF EvidenceInv
<1>1. db[f].highres = {} /\ db[f].permin = {} /\ Rows(f) = {}
  BY InitIs, NothingIn
<1> QED BY <1>1 DEF TimesOf

LEMMA EvidenceStep == Base /\ Order /\ EvidenceInv /\ [Next]_vars => EvidenceInv'
<1> SUFFICES ASSUME Base, Order, EvidenceInv, [Next]_vars, NEW f \in Path
             PROVE  /\ db'[f].highres \in SUBSET Segment /\ db'[f].permin \in SUBSET Segment
                    /\ \A t \in TimesOf(f)' : /\ Covers(db'[f].highres, t)
                                              /\ Covers(db'[f].permin, t)
                    /\ stepped' = {} => \A g \in db'[f].highres :
                                            Backed(g, TimesOf(f)', JoinGap)
  BY DEF EvidenceInv
<1>1. stepped' = {} => stepped = {}
  BY SetBackIs DEF Next, vars, Sample, WriteBatch, WriteFails, Restart
<1>2. /\ db[f].highres \in SUBSET Segment /\ db[f].permin \in SUBSET Segment
      /\ \A t \in TimesOf(f) : Covers(db[f].highres, t) /\ Covers(db[f].permin, t)
      /\ stepped = {} => \A g \in db[f].highres : Backed(g, TimesOf(f), JoinGap)
  BY DEF EvidenceInv
<1>3. CASE WriteBatch
  <2>1. CASE f = batchPath
    <3>1. batchPath' = batchPath
      BY <1>3 DEF WriteBatch
    <3>2. TimesOf(f)' = TimesOf(batchPath)'
      BY <2>1, <3>1 DEF TimesOf, Rows
    <3> QED BY <1>1, <1>3, <2>1, <3>2, EvidenceBatch
  <2>2. CASE f # batchPath
    <3>1. db'[f] = db[f] /\ log'[f] = log[f]
      BY <1>3, <2>2, WriteBatchIs
    <3>2. TimesOf(f)' = TimesOf(f)
      BY <3>1 DEF TimesOf, Rows
    <3> QED BY <1>1, <1>2, <3>1, <3>2
  <2> QED BY <2>1, <2>2
<1>4. CASE ~WriteBatch
  <2>1. db' = db /\ log' = log
    BY <1>4, Unwritten
  <2>2. TimesOf(f)' = TimesOf(f)
    BY <2>1 DEF TimesOf, Rows
  <2> QED BY <1>1, <1>2, <2>1, <2>2
<1> QED BY <1>3, <1>4

LEMMA EvidenceFromInv == Base /\ EvidenceInv => EvidenceMatchesRows
<1> SUFFICES ASSUME Base, EvidenceInv, NEW f \in Path
             PROVE  LET times == TimesOf(f)
                    IN  /\ \A t \in times : Covers(db[f].highres, t)
                        /\ \A t \in times : Covers(db[f].permin, t)
                        /\ stepped = {} => \A g \in db[f].highres :
                               \A t \in g[1] .. g[2] - 1 :
                                   \E u \in times : t - JoinGap < u /\ u <= t
  BY DEF EvidenceMatchesRows, TimesOf, Covers
<1> QED BY DEF EvidenceInv, Backed

(***************************************************************************)
(* The history                                                              *)
(***************************************************************************)

\* What every step preserves: the order of the rows, and view by view what the tables
\* hold of the log together with what the builders remember of the tables.
HistoryInv ==
    /\ Base /\ Order /\ RunsInv
    /\ EventsInv /\ TimelineInv /\ TopologyInv
    /\ IntervalsTyped /\ IntervalsInv /\ EvidenceInv

LEMMA HistoryInvHolds == Spec => []HistoryInv
<1>1. Init => HistoryInv
  BY BaseInit, OrderInit, RunsInit, EventsInit, TimelineInit, TopologyInit, TypedInit,
     IntervalsInit, EvidenceInit DEF HistoryInv
<1>2. HistoryInv /\ [Next]_vars => HistoryInv'
  BY BaseStep, OrderStep, RunsStep, EventsStep, TimelineStep, TopologyStep, TypedStep,
     IntervalsStep, EvidenceStep DEF HistoryInv
<1> QED BY <1>1, <1>2, PTL DEF Spec

\* The tables name only runs of the instance, and no interval of a state ends before
\* it begins (SparseStateBuilder.observe, GraphCoreV3LiveSession._ensure_run).
THEOREM TypesHold == Spec => []TypeOK
<1>1. HistoryInv => TypeOK
  BY TypesFromInv DEF HistoryInv
<1> QED BY <1>1, HistoryInvHolds, PTL

\* What a reader reconstructs of a file (the states and the quality in force at every
\* row, the end of each run's intervals before the next run's, every publish once, the
\* configuration at the time of a row, the last trusted list of units, and where there
\* was evidence) is what the committed rows say, for every sequence of batches,
\* rollbacks, retries, changes of the file and restarts (write_batch and the builders it
\* calls, graph_core_v3_live.py:140).
THEOREM HistoryMatchesRowsHolds == Spec => []HistoryMatchesRows
<1>1. HistoryInv => TypeOK /\ IntervalsMatchRows /\ DowntimeIsNotBridged
  BY TypesFromInv, IntervalsFromInv, DowntimeFromInv DEF HistoryInv
<1>2. HistoryInv => PublishedOnce /\ TimelineMatchesRows /\ TopologyMatchesLists
  BY PublishedOnceFromInv, TimelineFromInv, TopologyFromInv DEF HistoryInv
<1>3. HistoryInv => EvidenceMatchesRows
  BY EvidenceFromInv DEF HistoryInv
<1>4. HistoryInv => HistoryMatchesRows
  BY <1>1, <1>2, <1>3 DEF HistoryMatchesRows
<1> QED BY <1>4, HistoryInvHolds, PTL
=============================================================================
