------------------------- MODULE MeasurementDbWriter -------------------------
(***************************************************************************)
(* The writer of the graph database (MeasurementDbWriter of                 *)
(* measurement_db.py): the control cycle puts one row per cycle into a       *)
(* bounded queue without ever waiting; a daemon thread collects rows of one  *)
(* database path into a batch and writes each batch in one transaction; a    *)
(* batch that cannot be written is kept and tried again; close asks the      *)
(* thread to stop and waits six seconds for it.                              *)
(*                                                                          *)
(* A row is its number; PathOf gives the database file it was resolved to    *)
(* when it was queued (the path of a configuration, or of the fallback       *)
(* directory while an external medium is away).  A flush takes the time of a *)
(* transaction or of the maintenance lock's five seconds, so it is a step of *)
(* its own, and rows arrive and close is called while it runs.               *)
(***************************************************************************)
EXTENDS Naturals, Sequences, FiniteSets

CONSTANTS
    Path,               \* the database files
    Point,              \* the rows: 1 .. N, queued in this order
    PathOf(_),          \* where each row belongs
    QueueCap,           \* max_queue
    BatchCap            \* rows that force a flush (50)

ASSUME WriterAssumption ==
    /\ QueueCap \in Nat \ {0}
    /\ BatchCap \in Nat \ {0}
    /\ IsFiniteSet(Point) /\ Point = 1 .. Cardinality(Point)
    /\ \A p \in Point : PathOf(p) \in Path

NoPath == "no path"
Sentinel == 0           \* _STOP_SENTINEL: no row is numbered 0
ASSUME NoPathAssumption == NoPath \notin Path

VARIABLES
    proc,               \* "running", "closing" (in close), "closed", "down"
    nextRow,            \* the next row the control cycle produces
    queue,              \* queue.Queue(maxsize): rows and the sentinel
    stop,               \* the _stop event
    pc,                 \* the thread: "none", "top", "flush" or "end"
    why,                \* the flush under way: which branch called it
    batch,              \* the thread's locals: batch, deferred, current_path,
    deferred,           \*   retry_pending
    current_path,
    retry_pending,
    conn,               \* the path of the open connection, or NoPath
    db,                 \* [Path -> rows committed, in order]
    failures,           \* measurement_db_consecutive_failures > 0
    status,             \* measurement_db_status
    dropped,            \* rows refused because the queue was full
    failedStop          \* history: a flush failed after stop was set

control == <<proc, nextRow, dropped>>
locals == <<batch, deferred, current_path, retry_pending>>
vars == <<proc, nextRow, queue, stop, pc, why, batch, deferred, current_path,
          retry_pending, conn, db, failures, status, dropped, failedStop>>

Statuses == {"idle", "queued", "active", "error", "queue_full",
             "shutdown_timeout"}
Reasons == {"retry", "idle", "path", "full", "last"}

TypeOK ==
    /\ proc \in {"running", "closing", "closed", "down"}
    /\ nextRow \in 1 .. Cardinality(Point) + 1
    /\ queue \in Seq(Point \cup {Sentinel}) /\ Len(queue) <= QueueCap
    /\ stop \in BOOLEAN
    /\ pc \in {"none", "top", "flush", "end"}
    /\ why \in Reasons
    /\ batch \in Seq(Point) /\ Len(batch) <= BatchCap
    /\ deferred \in Seq(Point) /\ Len(deferred) <= 1
    /\ current_path \in Path \cup {NoPath}
    /\ retry_pending \in BOOLEAN
    /\ conn \in Path \cup {NoPath}
    /\ db \in [Path -> Seq(Point)]
    /\ failures \in BOOLEAN
    /\ status \in Statuses
    /\ dropped \in SUBSET Point
    /\ failedStop \in BOOLEAN

Fresh ==
    /\ queue = <<>> /\ stop = FALSE /\ pc = "none" /\ why = "idle"
    /\ batch = <<>> /\ deferred = <<>> /\ current_path = NoPath
    /\ retry_pending = FALSE /\ conn = NoPath
    /\ failures = FALSE /\ status = "idle" /\ failedStop = FALSE

Init ==
    /\ proc = "running" /\ nextRow = 1 /\ dropped = {}
    /\ db = [f \in Path |-> <<>>]
    /\ Fresh

----------------------------------------------------------------------------
(* The control cycle: enqueue, close                                        *)

\* _ensure_thread: a thread that is not alive is replaced by a new one, with
\* its own locals, and the stop flag is cleared.
EnsureThread ==
    IF pc = "none"
    THEN /\ stop' = FALSE /\ pc' = "top"
         /\ batch' = <<>> /\ deferred' = <<>> /\ current_path' = NoPath
         /\ retry_pending' = FALSE
    ELSE UNCHANGED <<stop, pc, batch, deferred, current_path, retry_pending>>

HasRoom == Len(queue) < QueueCap

StatusOnQueue == IF failures THEN status ELSE "queued"

\* enqueue: the row goes to the queue or, when the queue is full, is counted
\* and forgotten.  "queued" is reported only while nothing has failed.
Enqueue ==
    /\ proc = "running"
    /\ nextRow \in Point
    /\ nextRow' = nextRow + 1
    /\ EnsureThread
    /\ \/ /\ HasRoom
          /\ queue' = Append(queue, nextRow)
          /\ status' = StatusOnQueue
          /\ UNCHANGED dropped
       \/ /\ ~HasRoom
          /\ dropped' = dropped \cup {nextRow}
          /\ status' = "queue_full"
          /\ UNCHANGED queue
    /\ UNCHANGED <<proc, why, conn, db, failures, failedStop>>

\* close, after the control loop has ended: the flag, the sentinel if there is
\* room for it, and the wait for the thread.
CloseBegin ==
    /\ proc = "running"
    /\ proc' = "closing"
    /\ stop' = TRUE
    /\ queue' = IF pc # "none" /\ HasRoom
                THEN Append(queue, Sentinel) ELSE queue
    /\ UNCHANGED <<nextRow, pc, why, locals, conn, db, failures, status,
                   dropped, failedStop>>

CloseJoined ==
    /\ proc = "closing"
    /\ pc = "none"
    /\ proc' = "closed"
    /\ UNCHANGED <<nextRow, queue, stop, pc, why, locals, conn, db, failures,
                   status, dropped, failedStop>>

\* join(timeout=6.0) returns with the thread still alive.
CloseTimeout ==
    /\ proc = "closing"
    /\ pc # "none"
    /\ proc' = "closed"
    /\ status' = "shutdown_timeout"
    /\ UNCHANGED <<nextRow, queue, stop, pc, why, locals, conn, db, failures,
                   dropped, failedStop>>

\* The process ends, after close or in the middle of anything; the daemon
\* thread, the queue and its locals end with it, an open transaction is
\* rolled back.
Die ==
    /\ proc # "down"
    /\ proc' = "down"
    /\ queue' = <<>> /\ stop' = FALSE /\ pc' = "none" /\ why' = "idle"
    /\ batch' = <<>> /\ deferred' = <<>> /\ current_path' = NoPath
    /\ retry_pending' = FALSE /\ conn' = NoPath
    /\ failures' = FALSE /\ status' = "idle" /\ failedStop' = FALSE
    /\ UNCHANGED <<nextRow, db, dropped>>

Restart ==
    /\ proc = "down"
    /\ proc' = "running"
    /\ UNCHANGED <<nextRow, queue, stop, pc, why, locals, conn, db, failures,
                   status, dropped, failedStop>>

----------------------------------------------------------------------------
(* The thread: _worker                                                      *)

Busy == <<proc, nextRow, stop, db, conn, failures, status, dropped, failedStop>>

StartFlush(reason) == pc' = "flush" /\ why' = reason


\* A batch that could not be written is tried again before anything is taken.
RetryFlush ==
    /\ pc = "top"
    /\ batch # <<>> /\ retry_pending
    /\ StartFlush("retry")
    /\ UNCHANGED <<queue, locals, Busy>>

OtherPath(p) ==
    current_path # NoPath /\ PathOf(p) # current_path /\ batch # <<>>

\* What happens to the next row: another path's row waits until the batch is
\* written; otherwise it joins the batch, and a full batch, or the last row
\* before a stop, is written.
HandOver(p, rest) ==
    IF OtherPath(p)
    THEN /\ deferred' = <<p>>
         /\ StartFlush("path")
         /\ UNCHANGED <<batch, current_path, retry_pending>>
    ELSE /\ deferred' = <<>>
         /\ current_path' = PathOf(p)
         /\ batch' = Append(batch, p)
         /\ UNCHANGED retry_pending
         /\ IF Len(batch') >= BatchCap THEN StartFlush("full")
            ELSE IF stop /\ rest = <<>> THEN StartFlush("last")
            ELSE pc' = "top" /\ UNCHANGED why

Ready == pc = "top" /\ ~(batch # <<>> /\ retry_pending)

TakeDeferred ==
    /\ Ready
    /\ deferred # <<>>
    /\ HandOver(deferred[1], queue)
    /\ UNCHANGED <<queue, Busy>>

TakeRow ==
    /\ Ready
    /\ deferred = <<>>
    /\ queue # <<>> /\ Head(queue) # Sentinel
    /\ queue' = Tail(queue)
    /\ HandOver(Head(queue), Tail(queue))
    /\ UNCHANGED Busy

\* EndAtSentinel: forgets the rows held back.
EndAtSentinel == "end"
AfterSentinel == IF batch = <<>> THEN "end" ELSE "top"

\* The sentinel ends the loop at once only when nothing is held back.
TakeSentinel ==
    /\ Ready
    /\ deferred = <<>>
    /\ queue # <<>> /\ Head(queue) = Sentinel
    /\ queue' = Tail(queue)
    /\ stop' = TRUE
    /\ pc' = AfterSentinel
    /\ UNCHANGED <<proc, nextRow, why, locals, conn, db, failures, status,
                   dropped, failedStop>>

\* queue.Empty after a quarter of a second: write what is there, or end.
Idle ==
    /\ Ready
    /\ deferred = <<>>
    /\ queue = <<>>
    /\ \/ batch # <<>> /\ StartFlush("idle")
       \/ batch = <<>> /\ stop /\ pc' = "end" /\ UNCHANGED why
    /\ UNCHANGED <<queue, locals, Busy>>

\* KeptConnection: an open connection is used for every path.
KeptConnection == IF conn = NoPath THEN current_path ELSE conn
Connection == IF conn = NoPath \/ conn # current_path THEN current_path ELSE conn

\* _flush succeeds: a connection to another path is replaced, the batch is one
\* transaction, and the failure count and the error are reset.
FlushOk ==
    /\ pc = "flush"
    /\ conn' = Connection
    /\ db' = [db EXCEPT ![conn'] = @ \o batch]
    /\ batch' = <<>>
    /\ failures' = FALSE
    /\ status' = "active"
    /\ retry_pending' = IF why = "retry" THEN FALSE ELSE retry_pending
    /\ current_path' = IF why = "path" THEN NoPath ELSE current_path
    /\ pc' = IF why = "last" \/ (why = "idle" /\ stop /\ queue = <<>>)
             THEN "end" ELSE "top"
    /\ UNCHANGED <<proc, nextRow, queue, stop, why, deferred, dropped,
                   failedStop>>

\* KeepsTrying: a retry does not look at the stop flag.
KeepsTrying == "top"
AfterFailure == IF stop \/ why = "last" THEN "end" ELSE "top"

\* _flush fails, for whatever reason (the lock's timeout, the disk, an unknown
\* schema, a row the store refuses): rolled back, the connection dropped, the
\* batch kept for a retry, unless the thread has been asked to stop.
FlushFail ==
    /\ pc = "flush"
    /\ conn' = NoPath
    /\ failures' = TRUE
    /\ status' = "error"
    /\ retry_pending' = TRUE
    /\ pc' = AfterFailure
    /\ failedStop' = (failedStop \/ stop)
    /\ UNCHANGED <<proc, nextRow, queue, stop, why, batch, deferred,
                   current_path, db, dropped>>

\* The thread returns: its locals are gone, the connection is closed.
WorkerExit ==
    /\ pc = "end"
    /\ pc' = "none"
    /\ batch' = <<>> /\ deferred' = <<>> /\ current_path' = NoPath
    /\ retry_pending' = FALSE
    /\ conn' = NoPath
    /\ UNCHANGED <<proc, nextRow, queue, stop, why, db, failures, status,
                   dropped, failedStop>>

----------------------------------------------------------------------------
Worker ==
    \/ RetryFlush \/ TakeDeferred \/ TakeRow \/ TakeSentinel \/ Idle
    \/ FlushOk \/ FlushFail \/ WorkerExit

Next ==
    \/ Enqueue
    \/ CloseBegin \/ CloseJoined \/ CloseTimeout
    \/ Die \/ Restart
    \/ Worker

Spec == Init /\ [][Next]_vars

\* A thread that runs gets the processor, and while the service runs a
\* database that fails does not fail for ever: an attempt succeeds if attempts
\* are made again and again.  Nothing is assumed of the database in close.
Fairness == WF_vars(Worker) /\ SF_vars(proc = "running" /\ FlushOk)

LiveSpec == Spec /\ Fairness

----------------------------------------------------------------------------
(* Properties                                                               *)

\* The rows of a queue: close puts the sentinel behind them, and after it no
\* row is queued any more.
Rows(q) ==
    IF q # <<>> /\ q[Len(q)] = Sentinel THEN SubSeq(q, 1, Len(q) - 1) ELSE q
Backlog == batch \o deferred \o Rows(queue)

\* The writer is a first-in first-out buffer in front of one store per path:
\* no row is stored twice, overtaken by a later one of its path, or stored in
\* another path's file, and none is lost while the process serves.
Fifo == INSTANCE MeasurementFifo
            WITH backlog <- Backlog, store <- db,
                 serving <- (proc = "running")
ImplementsFifo == Fifo!Spec

\* An orderly end loses nothing: unless a flush failed since the stop flag was
\* set, the thread holds no row when it returns, rows of another path that had
\* to wait for the batch included, and leaves none in the queue of a writer
\* that was closed.
CleanCloseLosesNothing ==
    ~failedStop =>
        /\ pc = "end" => batch = <<>> /\ deferred = <<>>
        /\ proc = "closed" /\ pc = "none" => Backlog = <<>>

\* Monitoring never shows a healthy writer while its last attempt failed,
\* whatever enqueue reports in between.
StatusShowsFailure == failures => status \notin {"idle", "queued", "active"}

\* A batch is rows of one path, the one it will be written to.
BatchHasOnePath ==
    \A i \in 1 .. Len(batch) : PathOf(batch[i]) = current_path

\* The thread's batch, the file it is bound to and the status agree, and an
\* orderly end loses nothing (_run, _flush_with_retry, close).
WriterIsConsistent ==
    TypeOK /\ BatchHasOnePath /\ StatusShowsFailure /\ CleanCloseLosesNothing

\* Every accepted row is stored sooner or later unless the process stops.
AcceptedIsStored ==
    \A p \in Point :
        (\E i \in 1 .. Len(Backlog) : Backlog[i] = p)
            ~> (proc # "running"
                \/ \E i \in 1 .. Len(db[PathOf(p)]) : db[PathOf(p)][i] = p)

\* A writer asked to stop ends, even against a database that fails every time.
StopEnds == (proc = "closing") ~> (pc = "none")

\* The thread makes progress, and ends when it has to.
WriterProgresses == AcceptedIsStored /\ StopEnds
=============================================================================
