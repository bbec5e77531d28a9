----------------------------- MODULE GraphHistory -----------------------------
(***************************************************************************)
(* What the live writer makes of the measurements in a graph database        *)
(* (GraphCoreV3LiveSession of graph_core_v3_live.py with the builders of     *)
(* graph_core_v3.py, graph_config_timeline.py and graph_evidence.py).  One    *)
(* batch of rows is one transaction that maintains seven views of the same    *)
(* measurements: the raw samples, the minute aggregates, the runs, the state  *)
(* intervals, the command events, the topology and configuration timelines    *)
(* and the evidence of availability.  Four of them are built from memory of   *)
(* the previous rows, which must survive a rollback and must not survive a    *)
(* restart.                                                                   *)
(*                                                                          *)
(* Time is in ticks of the rows' timestamps; a row carries, beside its time,  *)
(* one value of each kind the views distinguish: a state (the mutex fields    *)
(* and, name by name, the limiters), a quality flag, a power, the hash of the *)
(* configuration, the last publish event and the list of units.  A field that *)
(* may be missing is a set of at most one value.                              *)
(***************************************************************************)
EXTENDS Integers, Sequences, FiniteSets, SequencesExt

CONSTANTS
    Path,               \* the database files: the target's and the fallback's
    Kind,               \* the rows the control cycle can produce, without time
    Steps,              \* ticks from one row to the next
    SetBacks,           \* ticks by which the wall clock may be set back
    Minute,             \* ticks of a bucket (60 s)
    JoinGap,            \* ticks a live segment may bridge (10 s)
    BatchMax,           \* rows of a transaction
    MaxTime, MaxRun     \* bounds of the instance

ASSUME PathAssumption == "" \notin Path     \* NewSession("") has no file

ASSUME GraphAssumption ==
    /\ Steps \subseteq Nat \ {0} /\ SetBacks \subseteq Nat \ {0}
    /\ {Minute, JoinGap, BatchMax, MaxTime, MaxRun} \subseteq Nat \ {0}

\* What the extraction of a row yields: a field is there or it is not, a quality
\* is a word, and every row has a configuration (measurement_db.py:503).
Maybe(field) == field = {} \/ \E v \in field : field = {v}

ASSUME KindAssumption ==
    \A k \in Kind :
        /\ k.config # "" /\ k.publishes \in Nat
        /\ Maybe(k.quality) /\ "" \notin k.quality
        /\ Maybe(k.power) /\ k.power \subseteq Int
        /\ Maybe(k.units) /\ \A u \in k.units : IsFiniteSet(u)

Open == -1              \* NULL in end_ms

VARIABLES
    clock,              \* wall clock
    run,                \* run_id of the process
    pending,            \* the writer's batch, kept until it is written
    batchPath,          \* the file it goes to
    retrying,           \* the batch has failed and is not extended any more
    publish,            \* command_publish_event_id of the process
    session,            \* GraphCoreV3LiveSession and its builders
    db,                 \* [Path -> the committed tables]
    log,                \* history: [Path -> rows committed, with their run]
    stepped,            \* history: runs in which the clock was set back
    rebound             \* history: <<path, run>> left and come back to

vars == <<clock, run, pending, batchPath, retrying, publish, session, db, log,
          stepped, rebound>>

EmptyTables ==
    [raw |-> {}, minute |-> <<>>, runs |-> <<>>, intervals |-> <<>>,
     events |-> <<>>, topology |-> <<>>, timeline |-> <<>>,
     highres |-> {}, permin |-> {}]

\* reset_for_path on the file f: builders that know nothing.
NewSession(f) ==
    [path |-> f, registered |-> FALSE, last_ts |-> Open, config |-> "",
     open |-> <<>>, sparse_ts |-> Open, last_publish |-> 0,
     cache |-> <<>>, known |-> {}]

Init ==
    /\ clock = 0 /\ run = 1 /\ publish = 0
    /\ pending = <<>> /\ batchPath \in Path /\ retrying = FALSE
    /\ session = NewSession("")
    /\ db = [f \in Path |-> EmptyTables]
    /\ log = [f \in Path |-> <<>>]
    /\ stepped = {} /\ rebound = {}

With(f, x, v) == [y \in DOMAIN f \cup {x} |-> IF y = x THEN v ELSE f[y]]
Without(f, x) == [y \in DOMAIN f \ {x} |-> f[y]]
Bucket(ts) == (ts \div Minute) * Minute

----------------------------------------------------------------------------
(* One row: s is the pair of the tables in the transaction and the session  *)

\* _ensure_run: the first row of a process closes what older runs left open,
\* at the end those runs last committed, and registers its own run.
EnsureRun(s, row) ==
    IF s.ses.registered THEN s
    ELSE LET old(i) == /\ i.end = Open /\ i.run # run
                       /\ s.db.runs[i.run] # Open
                       /\ s.db.runs[i.run] >= i.start
             close(i) == IF old(i) THEN [i EXCEPT !.end = s.db.runs[i.run] + 1]
                         ELSE i
         IN  [db |-> [s.db EXCEPT
                  !.intervals = [n \in DOMAIN @ |-> close(@[n])],
                  !.runs = IF run \in DOMAIN @ THEN @ ELSE With(@, run, Open)],
              ses |-> [s.ses EXCEPT !.registered = TRUE]]

\* _upsert_minute: a bucket's count, sum, extremes of the power.
NoPower == [n |-> 0, count |-> 0, sum |-> 0, lo |-> {}, hi |-> {}]
AddTo(a, power) ==
    [n |-> a.n + 1,
     count |-> a.count + Cardinality(power),
     sum |-> a.sum + (IF power = {} THEN 0 ELSE Max(power)),
     lo |-> IF power = {} THEN a.lo ELSE {Min(a.lo \cup power)},
     hi |-> IF power = {} THEN a.hi ELSE {Max(a.hi \cup power)}]

\* AggregateAlways: the minute also counts a sample the table ignored.
AggregateAlways(s, row) ==
    LET b == Bucket(row.ts)
        a == IF b \in DOMAIN s.db.minute THEN s.db.minute[b] ELSE NoPower
        known == \E r \in s.db.raw : r.ts = row.ts
    IN  [s EXCEPT
            !.db.raw = IF known THEN @
                       ELSE @ \cup {[ts |-> row.ts, power |-> row.power]},
            !.db.minute = With(@, b, AddTo(a, row.power))]

\* insert_system_sample: INSERT OR IGNORE, and the aggregate only with it.
InsertSample(s, row) ==
    IF \E r \in s.db.raw : r.ts = row.ts THEN s
    ELSE LET b == Bucket(row.ts)
             a == IF b \in DOMAIN s.db.minute THEN s.db.minute[b] ELSE NoPower
         IN  [s EXCEPT
                 !.db.raw = @ \cup {[ts |-> row.ts, power |-> row.power]},
                 !.db.minute = With(@, b, AddTo(a, row.power))]

\* _topology, called for every one of the units: a row of the timeline for each
\* that had not this state last.
Known(s, u) ==
    IF u \in DOMAIN s.ses.cache THEN s.ses.cache[u]
    ELSE LET own == {n \in DOMAIN s.db.topology : s.db.topology[n].unit = u}
             late == {n \in own : \A m \in own :
                         \/ s.db.topology[m].ts < s.db.topology[n].ts
                         \/ s.db.topology[m].ts = s.db.topology[n].ts /\ m <= n}
         IN  IF own = {} THEN "never"
             ELSE s.db.topology[CHOOSE n \in late : TRUE].state
Topology(s, ts, units, state) ==
    LET new == SetToSeq({u \in units : Known(s, u) # state})
    IN  [s EXCEPT
            !.db.topology = @ \o [n \in DOMAIN new |->
                                     [ts |-> ts, unit |-> new[n], state |-> state]],
            !.ses.cache = [u \in DOMAIN @ \cup units |->
                              IF u \in units THEN state ELSE @[u]]]

AllUnits == UNION UNION {k.units : k \in Kind}
Remembered(s) == {u \in AllUnits : Known(s, u) = "PRESENT"}

\* EntityPersistenceBuilder.observe: only a list the row vouches for says which
\* units are there and that the others, this session's or those the file
\* remembers, are not.
ObserveUnits(s, row) ==
    IF row.units = {} THEN s
    ELSE LET here == UNION row.units
             before == IF s.ses.known = {} THEN Remembered(s) ELSE UNION s.ses.known
             present == Topology(s, row.ts, here, "PRESENT")
             absent == Topology(present, row.ts, before \ here, "ABSENT")
         IN  [absent EXCEPT !.ses.known = {here}]

\* SparseStateBuilder for one kind of interval: a value that differs ends the
\* open interval and, unless it is empty, opens the next one.
Finish(intervals, id, ts) ==
    [intervals EXCEPT ![id].end = IF @ = Open \/ @ > ts THEN ts ELSE @]
ObserveKind(s, kind, value, ts) ==
    LET has == kind \in DOMAIN s.ses.open
        ended == IF has THEN Finish(s.db.intervals, s.ses.open[kind].id, ts)
                 ELSE s.db.intervals
        opened == Append(ended, [kind |-> kind, run |-> run, start |-> ts,
                                 end |-> Open, value |-> value])
    IN  IF has /\ s.ses.open[kind].value = value THEN s
        ELSE IF value = "" THEN [s EXCEPT !.db.intervals = ended,
                                          !.ses.open = Without(@, kind)]
        ELSE [s EXCEPT !.db.intervals = opened,
                       !.ses.open = With(@, kind, [value |-> value,
                                                   id |-> Len(opened)])]

OutOfOrder(s, row) == s.ses.sparse_ts # Open /\ row.ts < s.ses.sparse_ts

\* A row older than the last one changes no state; an empty state field ends
\* the state, a missing quality flag leaves the quality as it was.
ObserveStates(s, row) ==
    IF OutOfOrder(s, row) THEN s
    ELSE LET t == [s EXCEPT !.ses.sparse_ts = row.ts]
             m == ObserveKind(t, "state", row.state, row.ts)
         IN  IF row.quality = {} THEN m
             ELSE ObserveKind(m, "quality", CHOOSE q \in row.quality : TRUE,
                              row.ts)

NothingNew(s, row) == row.publish = 0 \/ row.publish = s.ses.last_publish

\* CommandEventBuilder.observe: a publish event that was not the last one.
ObserveCommands(s, row) ==
    IF NothingNew(s, row) THEN s
    ELSE [s EXCEPT !.db.events = Append(@, [run |-> run, id |-> row.publish]),
                   !.ses.last_publish = row.publish]

\* upsert_timeline_entry: a boundary where the configuration changes, none
\* where it does not, and the next one removed when this one replaces it.
Upsert(timeline, ts, config) ==
    LET before == {t \in DOMAIN timeline : t < ts}
        after == {t \in DOMAIN timeline : t > ts}
        set == With(timeline, ts, config)
    IN  IF ts \in DOMAIN timeline /\ timeline[ts] = config THEN timeline
        ELSE IF ts \notin DOMAIN timeline /\ before # {}
                /\ timeline[Max(before)] = config THEN timeline
        ELSE IF after # {} /\ timeline[Min(after)] = config
             THEN Without(set, Min(after))
        ELSE set
ObserveConfig(s, row) ==
    IF row.config = s.ses.config THEN s
    ELSE [s EXCEPT !.db.timeline = Upsert(@, row.ts, row.config),
                   !.ses.config = row.config]

WriteRow(s, row) ==
    LET a == InsertSample(EnsureRun(s, row), row)
        b == ObserveUnits([a EXCEPT !.ses.last_ts = row.ts], row)
        c == ObserveCommands(ObserveStates(b, row), row)
    IN  ObserveConfig(c, row)

----------------------------------------------------------------------------
(* The end of the transaction                                               *)

\* _merge_ranges: neighbours no further apart than the gap become one.
MergeRanges(ranges, gap) ==
    LET starts == {r \in ranges : ~ \E q \in ranges :
                      q[1] < r[1] /\ q[2] + gap >= r[1]}
        reach(r) == {q \in ranges : q[1] >= r[1] /\
                        \A z \in starts : z[1] > r[1] => q[1] < z[1]}
    IN  {<<r[1], Max({q[2] : q \in reach(r)})>> : r \in starts}

\* _extend_available_segment: the segment that ends last is extended when the
\* new range begins within the gap after its end, else there is a new segment.
Extend(segments, range, gap) ==
    LET last == CHOOSE g \in segments : \A h \in segments : h[2] <= g[2]
    IN  IF segments # {} /\ range[1] <= last[2] + gap
        THEN (segments \ {last}) \cup
             {<<Min({last[1], range[1]}), Max({last[2], range[2]})>>}
        ELSE segments \cup {range}

\* One merged range after the other, as they begin; no two begin together.
ExtendAll(segments, ranges, gap) ==
    LET by[t \in 0 .. MaxTime + 1] ==
            IF t = 0 THEN segments
            ELSE LET now == {r \in ranges : r[1] = t - 1}
                 IN  IF now = {} THEN by[t - 1]
                     ELSE Extend(by[t - 1], CHOOSE r \in now : TRUE, gap)
    IN  by[MaxTime + 1]

\* record_live_batch_evidence: of the rows that carry a power.
RecordEvidence(tables, rows) ==
    LET times == {rows[n].ts : n \in {m \in DOMAIN rows : rows[m].power # {}}}
        points == {<<t, t>> : t \in times}
        buckets == {<<Bucket(t), Bucket(t) + Minute - 1>> : t \in times}
    IN  [tables EXCEPT
            !.highres = ExtendAll(@, MergeRanges(points, JoinGap), JoinGap),
            !.permin = ExtendAll(@, MergeRanges(buckets, 1), 1)]

\* _bind and write_batch up to the commit.
Bound(f) == IF session.path = f THEN session ELSE NewSession(f)
AfterRows(f, rows) ==
    LET after[n \in 0 .. Len(rows)] ==
            IF n = 0 THEN [db |-> db[f], ses |-> Bound(f)]
            ELSE WriteRow(after[n - 1], rows[n])
    IN  after[Len(rows)]
Written(f, rows) ==
    LET s == AfterRows(f, rows)
        t == [s.db EXCEPT !.runs[run] = s.ses.last_ts]
    IN  [db |-> RecordEvidence(t, rows), ses |-> s.ses]

----------------------------------------------------------------------------
(* The process                                                              *)

\* The next row, of the file the target resolves to now; a batch has rows of
\* one file.
Sample ==
    \E k \in Kind, d \in Steps, f \in Path :
        /\ clock + d <= MaxTime
        /\ ~retrying /\ Len(pending) < BatchMax
        /\ pending = <<>> \/ f = batchPath
        /\ clock' = clock + d
        /\ publish' = publish + k.publishes
        /\ pending' = Append(pending,
               [ts |-> clock', state |-> k.state, quality |-> k.quality,
                power |-> k.power, config |-> k.config, units |-> k.units,
                publish |-> publish'])
        /\ batchPath' = f
        /\ UNCHANGED <<run, retrying, session, db, log, stepped, rebound>>

\* The batch is committed.
WriteBatch ==
    /\ pending # <<>>
    /\ LET w == Written(batchPath, pending)
       IN  /\ db' = [db EXCEPT ![batchPath] = w.db]
           /\ session' = w.ses
    /\ log' = [log EXCEPT ![batchPath] = @ \o
                  [n \in DOMAIN pending |-> [run |-> run, row |-> pending[n]]]]
    /\ rebound' = IF session.path # batchPath /\ run \in DOMAIN db[batchPath].runs
                  THEN rebound \cup {<<batchPath, run>>} ELSE rebound
    /\ pending' = <<>> /\ retrying' = FALSE
    /\ UNCHANGED <<clock, run, batchPath, publish, stepped>>

\* KeptBuilders: the builders go on from the batch that was rolled back.
KeptBuilders(f) == Written(f, pending).ses
AfterRollback(f) == Bound(f)

\* Something fails before the commit: the tables are rolled back and the
\* session's memory is what it was after binding to the file.
WriteFails ==
    /\ pending # <<>>
    /\ session' = AfterRollback(batchPath)
    /\ retrying' = TRUE
    /\ rebound' = IF session.path # batchPath /\ run \in DOMAIN db[batchPath].runs
                  THEN rebound \cup {<<batchPath, run>>} ELSE rebound
    /\ UNCHANGED <<clock, run, pending, batchPath, publish, db, log, stepped>>

\* The process ends with whatever it had not committed; the next one is a run
\* of its own.
Restart ==
    /\ run < MaxRun
    /\ run' = run + 1
    /\ pending' = <<>> /\ retrying' = FALSE /\ publish' = 0
    /\ session' = NewSession("")
    /\ UNCHANGED <<clock, batchPath, db, log, stepped, rebound>>

\* The wall clock is set back, while the process runs.
SetBack ==
    \E b \in SetBacks :
        /\ stepped = {} /\ clock >= b
        /\ clock' = clock - b
        /\ stepped' = run .. MaxRun
        /\ UNCHANGED <<run, pending, batchPath, retrying, publish, session, db,
                       log, rebound>>

Next == Sample \/ WriteBatch \/ WriteFails \/ Restart \/ SetBack

Spec == Init /\ [][Next]_vars

----------------------------------------------------------------------------
(* Properties                                                               *)

TypeOK ==
    /\ clock \in 0 .. MaxTime /\ run \in 1 .. MaxRun
    /\ Len(pending) <= BatchMax /\ batchPath \in Path /\ retrying \in BOOLEAN
    /\ publish \in Nat
    /\ session.path \in Path \cup {""}
    /\ \A f \in Path :
           /\ DOMAIN db[f].runs \subseteq 1 .. MaxRun
           /\ \A n \in DOMAIN db[f].intervals :
                  LET i == db[f].intervals[n]
                  IN  i.run \in DOMAIN db[f].runs /\ (i.end = Open \/ i.end >= i.start)

Rows(f) == {log[f][n] : n \in DOMAIN log[f]}
Steady(f) == stepped = {} /\ \A r \in 1 .. MaxRun : <<f, r>> \notin rebound

\* What was measured at the time t, and the sum of a bucket's ticks.
PowerAt(samples, t) ==
    LET p == UNION {x.power : x \in {y \in samples : y.ts = t}}
    IN  IF p = {} THEN 0 ELSE Max(p)
SumOf(samples, b) ==
    LET sum[n \in 0 .. Minute] ==
            IF n = 0 THEN 0 ELSE sum[n - 1] + PowerAt(samples, b + n - 1)
    IN  sum[Minute]

\* The minute aggregates are what the raw samples give, whatever was rolled
\* back and retried, repeated after a step of the clock, or written by several
\* processes into one bucket.
MinutesMatchSamples ==
    \A f \in Path : \A b \in {Bucket(r.row.ts) : r \in Rows(f)} :
        LET own == {x \in db[f].raw : Bucket(x.ts) = b}
            powers == UNION {x.power : x \in own}
            a == db[f].minute[b]
        IN  /\ a.n = Cardinality(own)
            /\ a.count = Cardinality({x \in own : x.power # {}})
            /\ powers # {} => a.lo = {Min(powers)} /\ a.hi = {Max(powers)}
            /\ a.sum = SumOf(own, b)

Covering(f, kind, r, t) ==
    {i \in {db[f].intervals[n] : n \in DOMAIN db[f].intervals} :
        i.kind = kind /\ i.run = r /\ i.start <= t /\ (i.end = Open \/ t < i.end)}

\* At every committed row exactly the interval of the row's own state is in
\* force in its run, and none when the row has no state; likewise the quality
\* the row states.
IntervalsMatchRows ==
    \A f \in Path : Steady(f) => \A x \in Rows(f) :
        /\ {i.value : i \in Covering(f, "state", x.run, x.row.ts)}
               = {x.row.state} \ {""}
        /\ Cardinality(Covering(f, "state", x.run, x.row.ts)) <= 1
        /\ x.row.quality # {} =>
               {i.value : i \in Covering(f, "quality", x.run, x.row.ts)}
                   = x.row.quality

\* A state does not outlive the process that observed it: once a later process
\* has written to the file, every interval of an earlier run ends at most one
\* tick after that run's last committed row.
DowntimeIsNotBridged ==
    \A f \in Path : Steady(f) =>
        \A n \in DOMAIN db[f].intervals : LET i == db[f].intervals[n] IN
            (\E r \in DOMAIN db[f].runs : r > i.run) =>
                /\ i.end # Open
                /\ i.end <= 1 + Max({x.row.ts : x \in
                                          {y \in Rows(f) : y.run = i.run}})

\* Every publish a committed row reports is an event of its run, once, however
\* often its batch was tried and however many rows repeat it.
PublishedOnce ==
    \A f \in Path : Steady(f) =>
        \A x \in Rows(f) : x.row.publish > 0 =>
            Cardinality({n \in DOMAIN db[f].events :
                db[f].events[n] = [run |-> x.run, id |-> x.row.publish]}) = 1

\* The configuration a reader looks up for the time of a committed row is the
\* one that row was measured under.
TimelineMatchesRows ==
    \A f \in Path : stepped = {} => \A x \in Rows(f) :
        LET at == {t \in DOMAIN db[f].timeline : t <= x.row.ts}
        IN  at # {} /\ db[f].timeline[Max(at)] = x.row.config

\* The topology's last word on a unit is the last list that could be trusted,
\* across rollbacks, restarts and changes of the file.
TopologyMatchesLists ==
    \A f \in Path : stepped = {} =>
        LET lists == {n \in DOMAIN log[f] : log[f][n].row.units # {}}
            now == IF lists = {} THEN {} ELSE UNION log[f][Max(lists)].row.units
            ever == UNION {UNION log[f][n].row.units : n \in lists}
            last(u) == Max({n \in DOMAIN db[f].topology :
                                 db[f].topology[n].unit = u})
        IN  \A u \in ever : (db[f].topology[last(u)].state = "PRESENT") = (u \in now)

\* Availability is evidence: every committed row with a power lies in a segment,
\* and no segment spans a silence longer than the gap it may bridge.
EvidenceMatchesRows ==
    \A f \in Path :
        LET times == {x.row.ts : x \in {y \in Rows(f) : y.row.power # {}}}
        IN  /\ \A t \in times : \E g \in db[f].highres : g[1] <= t /\ t <= g[2]
            /\ \A t \in times : \E g \in db[f].permin : g[1] <= t /\ t <= g[2]
            /\ stepped = {} => \A g \in db[f].highres : \A t \in g[1] .. g[2] - 1 :
                   \E u \in times : t - JoinGap < u /\ u <= t

\* What a reader reconstructs (states, quality, publishes, configuration,
\* topology, availability, downtimes) agrees with the rows that were committed.
HistoryMatchesRows ==
    TypeOK /\ IntervalsMatchRows /\ DowntimeIsNotBridged /\ PublishedOnce
        /\ TimelineMatchesRows /\ TopologyMatchesLists /\ EvidenceMatchesRows
=============================================================================
