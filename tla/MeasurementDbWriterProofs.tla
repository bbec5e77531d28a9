---------------------- MODULE MeasurementDbWriterProofs ----------------------
(***************************************************************************)
(* Theorems about MeasurementDbWriter, for any number of rows and paths and *)
(* any capacity of the queue and the batch.                                 *)
(***************************************************************************)
EXTENDS MeasurementDbWriter, FiniteSetTheorems, SequenceTheorems, TLAPS

-----------------------------------------------------------------------------
(* The inductive invariant *)

Ordered(q) ==
    \/ q \in Seq(Point)
    \/ \E rows \in Seq(Point) : q = Append(rows, Sentinel)

\* Only a closing writer is asked to stop, a flush can only fail its shutdown
\* after that, and the sentinel is the last thing in the queue.
StopInv ==
    /\ Ordered(queue)
    /\ proc = "running" => queue \in Seq(Point) /\ ~stop /\ ~failedStop
    /\ failedStop => proc \in {"closing", "closed"}
    /\ proc = "down" => pc = "none" /\ queue = <<>> /\ ~stop

\* What the thread holds at each of its places: nothing when there is no
\* thread, something to write in a flush, and at the end, unless a flush of
\* the shutdown has failed, neither it nor the queue holds anything.
HoldsInv ==
    /\ pc = "none" => batch = <<>> /\ deferred = <<>>
    /\ pc = "none" /\ ~failedStop => queue = <<>>
    /\ pc = "top" /\ ~retry_pending => Len(batch) < BatchCap
    /\ pc = "flush" => batch # <<>>
    /\ pc = "flush" /\ why \in {"last", "idle", "full"} => deferred = <<>>
    /\ pc = "flush" /\ why = "last" => stop /\ queue = <<>>
    /\ pc = "end" => stop
    /\ pc = "end" /\ ~failedStop => batch = <<>> /\ deferred = <<>> /\ queue = <<>>

WriterInv ==
    /\ TypeOK /\ BatchHasOnePath /\ StatusShowsFailure
    /\ StopInv /\ HoldsInv

-----------------------------------------------------------------------------
(* The queue *)

LEMMA SentinelIsNoRow == Sentinel \notin Point /\ Point \subseteq Nat
  BY WriterAssumption, FS_CardinalityType DEF WriterAssumption, Sentinel

\* What the rows of a queue are, with and without the sentinel.
LEMMA RowsOf ==
  ASSUME NEW r \in Seq(Point)
  PROVE  /\ Ordered(r) /\ Rows(r) = r
         /\ Ordered(Append(r, Sentinel)) /\ Rows(Append(r, Sentinel)) = r
<1>1. Rows(r) = r
  BY SentinelIsNoRow DEF Rows
<1>2. Rows(Append(r, Sentinel)) = r
  <2> DEFINE q == Append(r, Sentinel)
  <2>1. r \in Seq(Point \cup {Sentinel})
    OBVIOUS
  <2>2. q \in Seq(Point \cup {Sentinel}) /\ Len(q) = Len(r) + 1 /\ q[Len(q)] = Sentinel
        /\ \A i \in 1 .. Len(r) : q[i] = r[i]
    BY <2>1, AppendProperties
  <2>3. Len(r) \in Nat /\ q # <<>>
    BY <2>2
  <2> HIDE DEF q
  <2>4. Rows(q) = SubSeq(q, 1, Len(r))
    BY <2>2, <2>3 DEF Rows
  <2>5. SubSeq(q, 1, Len(r)) \in Seq(Point) /\ Len(SubSeq(q, 1, Len(r))) = Len(r)
        /\ \A i \in 1 .. Len(r) : SubSeq(q, 1, Len(r))[i] = r[i]
    <3>1. \A i \in 1 .. Len(r) : q[i] \in Point
      BY <2>2
    <3> QED
      BY <2>2, <2>3, <3>1, SubSeqProperties
  <2>6. SubSeq(q, 1, Len(r)) = r
    BY <2>5, SeqEqual
  <2> QED
    BY <2>4, <2>6 DEF q
<1> QED
  BY <1>1, <1>2 DEF Ordered

LEMMA RowsType ==
  ASSUME NEW q, Ordered(q)
  PROVE  Rows(q) \in Seq(Point) /\ q \in Seq(Point \cup {Sentinel})
<1>1. CASE q \in Seq(Point)
  BY <1>1, RowsOf
<1>2. ASSUME NEW r \in Seq(Point), q = Append(r, Sentinel)
      PROVE  Rows(q) \in Seq(Point) /\ q \in Seq(Point \cup {Sentinel})
  <2>1. r \in Seq(Point \cup {Sentinel})
    OBVIOUS
  <2> QED
    BY <1>2, <2>1, RowsOf, AppendProperties
<1> QED
  BY <1>1, <1>2 DEF Ordered

\* Taking the head of a queue.
LEMMA TakeHead ==
  ASSUME NEW q, Ordered(q), q # <<>>
  PROVE  /\ Head(q) = Sentinel => Tail(q) = <<>> /\ Rows(q) = <<>> /\ q \notin Seq(Point)
         /\ Head(q) # Sentinel => /\ Head(q) \in Point /\ Ordered(Tail(q))
                                  /\ Rows(q) = <<Head(q)>> \o Rows(Tail(q))
         /\ q \in Seq(Point) => Tail(q) \in Seq(Point)
         /\ Len(Tail(q)) <= Len(q)
<1>1. CASE q \in Seq(Point)
  <2>1. Head(q) \in Point /\ Tail(q) \in Seq(Point) /\ Len(Tail(q)) = Len(q) - 1
    BY <1>1, HeadTailProperties
  <2>2. q = <<Head(q)>> \o Tail(q)
    BY <1>1
  <2>3. Len(q) \in Nat
    BY <1>1
  <2>4. Head(q) # Sentinel
    BY <2>1, SentinelIsNoRow
  <2>5. Ordered(Tail(q)) /\ Rows(Tail(q)) = Tail(q) /\ Rows(q) = q
    BY <1>1, <2>1, RowsOf
  <2>6. Len(Tail(q)) <= Len(q)
    BY <2>1, <2>3
  <2> QED
    BY <2>1, <2>2, <2>4, <2>5, <2>6
<1>2. ASSUME NEW r \in Seq(Point), q = Append(r, Sentinel)
      PROVE  /\ Head(q) = Sentinel => Tail(q) = <<>> /\ Rows(q) = <<>> /\ q \notin Seq(Point)
             /\ Head(q) # Sentinel => /\ Head(q) \in Point /\ Ordered(Tail(q))
                                      /\ Rows(q) = <<Head(q)>> \o Rows(Tail(q))
             /\ q \in Seq(Point) => Tail(q) \in Seq(Point)
             /\ Len(Tail(q)) <= Len(q)
  <2>1. r \in Seq(Point \cup {Sentinel}) /\ Len(r) \in Nat
    OBVIOUS
  <2>2. q \in Seq(Point \cup {Sentinel}) /\ Len(q) = Len(r) + 1 /\ q[Len(q)] = Sentinel
        /\ Rows(q) = r
    BY <1>2, <2>1, AppendProperties, RowsOf
  <2>3. q \notin Seq(Point)
    BY <2>1, <2>2, SentinelIsNoRow
  <2>4. CASE r = <<>>
    <3>1. q = <<Sentinel>> /\ Tail(q) = <<>> /\ Head(q) = Sentinel
      BY <1>2, <2>4
    <3> QED
      BY <2>2, <2>3, <2>4, <3>1
  <2>5. CASE r # <<>>
    <3>1. Head(q) = Head(r) /\ Tail(q) = Append(Tail(r), Sentinel)
      BY <1>2, <2>1, <2>5, HeadTailAppend
    <3>2. Head(r) \in Point /\ Tail(r) \in Seq(Point) /\ r = <<Head(r)>> \o Tail(r)
      BY <2>5
    <3>3. Ordered(Tail(q)) /\ Rows(Tail(q)) = Tail(r)
      BY <3>1, <3>2, RowsOf
    <3>4. Len(Tail(q)) = Len(q) - 1
      BY <1>2, <2>2, HeadTailProperties
    <3>5. Head(q) # Sentinel
      BY <3>1, <3>2, SentinelIsNoRow
    <3>6. Rows(q) = <<Head(q)>> \o Rows(Tail(q))
      BY <2>2, <3>1, <3>2, <3>3
    <3>7. Len(Tail(q)) <= Len(q)
      BY <2>1, <2>2, <3>4
    <3> QED
      BY <2>3, <3>1, <3>2, <3>3, <3>5, <3>6, <3>7
  <2> QED
    BY <2>4, <2>5
<1> QED
  BY <1>1, <1>2 DEF Ordered

-----------------------------------------------------------------------------
(* The thread *)

LEMMA LocalTypes ==
  ASSUME TypeOK
  PROVE  /\ batch \in Seq(Point) /\ deferred \in Seq(Point) /\ Len(batch) \in Nat
         /\ Len(batch) <= BatchCap /\ Len(deferred) \in Nat /\ Len(deferred) <= 1
         /\ QueueCap \in Nat \ {0} /\ BatchCap \in Nat \ {0}
BY WriterAssumption, LenProperties DEF TypeOK, WriterAssumption

\* A batch that is not empty belongs to a path.
LEMMA BatchPath ==
  ASSUME TypeOK, BatchHasOnePath, batch # <<>>
  PROVE  current_path \in Path /\ PathOf(batch[1]) = current_path
<1>1. Len(batch) \in Nat /\ Len(batch) # 0 /\ batch \in Seq(Point)
  BY LocalTypes, EmptySeq
<1>2. 1 \in 1 .. Len(batch) /\ batch[1] \in Point
  BY <1>1
<1> QED
  BY <1>2, WriterAssumption DEF BatchHasOnePath, WriterAssumption

\* The next row joins the batch or waits behind it, and nothing overtakes it.
LEMMA HandOverEffect ==
  ASSUME TypeOK, BatchHasOnePath, HoldsInv, Ready, NEW p \in Point, NEW rest,
         HandOver(p, rest)
  PROVE  /\ batch' \in Seq(Point) /\ Len(batch') <= BatchCap
         /\ deferred' \in Seq(Point) /\ Len(deferred') <= 1
         /\ current_path' \in Path \cup {NoPath} /\ retry_pending' \in BOOLEAN
         /\ pc' \in {"top", "flush"} /\ why' \in Reasons
         /\ BatchHasOnePath'
         /\ batch' \o deferred' = batch \o <<p>>
         /\ pc' = "top" => Len(batch') < BatchCap
         /\ pc' = "flush" => batch' # <<>>
         /\ pc' = "flush" /\ why' \in {"last", "idle", "full"} => deferred' = <<>>
         /\ pc' = "flush" /\ why' = "last" => stop /\ rest = <<>>
<1>1. /\ batch \in Seq(Point) /\ Len(batch) \in Nat /\ Len(batch) <= BatchCap
      /\ BatchCap \in Nat \ {0} /\ current_path \in Path \cup {NoPath}
      /\ retry_pending \in BOOLEAN /\ why \in Reasons /\ PathOf(p) \in Path
  BY LocalTypes, WriterAssumption DEF TypeOK, WriterAssumption
<1>2. Len(batch) < BatchCap
  <2>1. CASE batch = <<>>
    BY <1>1, <2>1
  <2>2. CASE batch # <<>>
    BY <2>2 DEF Ready, HoldsInv
  <2> QED
    BY <2>1, <2>2
<1>3. <<p>> \in Seq(Point) /\ Len(<<p>>) = 1
  OBVIOUS
<1>4. CASE OtherPath(p)
  <2>1. /\ deferred' = <<p>> /\ pc' = "flush" /\ why' = "path"
        /\ UNCHANGED <<batch, current_path, retry_pending>>
    BY <1>4 DEF HandOver, StartFlush
  <2>2. BatchHasOnePath'
    BY <2>1 DEF BatchHasOnePath
  <2>3. batch # <<>>
    BY <1>4 DEF OtherPath
  <2> QED
    BY <1>1, <1>3, <2>1, <2>2, <2>3 DEF Reasons
<1>5. CASE ~OtherPath(p)
  <2>1. /\ deferred' = <<>> /\ current_path' = PathOf(p) /\ batch' = Append(batch, p)
        /\ retry_pending' = retry_pending
        /\ IF Len(batch') >= BatchCap THEN StartFlush("full")
           ELSE IF stop /\ rest = <<>> THEN StartFlush("last")
           ELSE pc' = "top" /\ UNCHANGED why
    BY <1>5 DEF HandOver
  <2>2. batch' \in Seq(Point) /\ Len(batch') = Len(batch) + 1 /\ batch' # <<>>
        /\ batch' = batch \o <<p>> /\ batch'[Len(batch) + 1] = p
        /\ \A i \in 1 .. Len(batch) : batch'[i] = batch[i]
    BY <1>1, <2>1, AppendProperties, AppendIsConcat
  <2>3. batch' \o <<>> = batch'
    BY <2>2, ConcatEmptySeq
  <2>4. BatchHasOnePath'
    <3> SUFFICES ASSUME NEW i \in 1 .. Len(batch) + 1 PROVE PathOf(batch'[i]) = PathOf(p)
      BY <2>1, <2>2 DEF BatchHasOnePath
    <3>1. CASE i = Len(batch) + 1
      BY <2>2, <3>1
    <3>2. CASE i \in 1 .. Len(batch)
      <4>1. batch # <<>> /\ PathOf(batch[i]) = current_path
        BY <1>1, <3>2 DEF BatchHasOnePath
      <4>2. current_path # NoPath
        BY <4>1, BatchPath, NoPathAssumption DEF NoPathAssumption
      <4> QED
        BY <1>5, <2>2, <3>2, <4>1, <4>2 DEF OtherPath
    <3> QED
      BY <1>1, <3>1, <3>2
  <2>5. /\ pc' \in {"top", "flush"} /\ why' \in Reasons
        /\ pc' = "top" => ~(Len(batch') >= BatchCap)
        /\ pc' = "flush" => why' \in {"full", "last"}
        /\ pc' = "flush" /\ why' = "last" => stop /\ rest = <<>>
    BY <1>1, <2>1 DEF StartFlush, Reasons
  <2>6. Len(batch') <= BatchCap /\ (pc' = "top" => Len(batch') < BatchCap)
    BY <1>1, <1>2, <2>2, <2>5
  <2>7. <<>> \in Seq(Point) /\ Len(<<>>) = 0 /\ current_path' \in Path \cup {NoPath}
    BY <1>1, <2>1
  <2> QED
    BY <1>1, <2>1, <2>2, <2>3, <2>4, <2>5, <2>6, <2>7
<1> QED
  BY <1>4, <1>5

-----------------------------------------------------------------------------
(* Every step keeps the invariant *)

LEMMA QueueTypes ==
  ASSUME TypeOK, StopInv
  PROVE  /\ Ordered(queue) /\ queue \in Seq(Point \cup {Sentinel}) /\ Len(queue) \in Nat
         /\ Len(queue) <= QueueCap /\ QueueCap \in Nat \ {0}
BY LocalTypes, LenProperties DEF TypeOK, StopInv

\* Whoever makes the thread: its locals are empty or as they were.
LEMMA EnsuredThread ==
  ASSUME WriterInv, proc = "running", EnsureThread
  PROVE  /\ UNCHANGED <<batch, deferred, stop>> /\ ~stop /\ pc' # "none"
         /\ current_path' \in {current_path, NoPath}
         /\ retry_pending' \in BOOLEAN
         /\ batch # <<>> => current_path' = current_path
         /\ \/ pc' = pc /\ retry_pending' = retry_pending
            \/ pc' = "top" /\ batch' = <<>>
         /\ pc' \in {"top", "flush", "end"} /\ (pc' # pc => pc' = "top")
<1>1. TypeOK /\ ~stop /\ (pc = "none" => batch = <<>> /\ deferred = <<>>)
  BY DEF WriterInv, StopInv, HoldsInv
<1> QED
  BY <1>1 DEF EnsureThread, TypeOK

LEMMA EnqueueStep == WriterInv /\ Enqueue => WriterInv'
<1> SUFFICES ASSUME WriterInv, Enqueue PROVE WriterInv'
  OBVIOUS
<1>1. TypeOK /\ BatchHasOnePath /\ StatusShowsFailure /\ StopInv /\ HoldsInv
  BY DEF WriterInv
<1>2. proc = "running" /\ queue \in Seq(Point) /\ ~failedStop /\ nextRow \in Point /\ EnsureThread
      /\ UNCHANGED <<proc, why, conn, db, failures, failedStop>> /\ nextRow' = nextRow + 1
  BY <1>1 DEF Enqueue, StopInv
<1>3. /\ UNCHANGED <<batch, deferred, stop>> /\ ~stop /\ pc' # "none"
      /\ current_path' \in {current_path, NoPath} /\ retry_pending' \in BOOLEAN
      /\ batch # <<>> => current_path' = current_path
      /\ \/ pc' = pc /\ retry_pending' = retry_pending
         \/ pc' = "top" /\ batch' = <<>>
      /\ pc' \in {"top", "flush", "end"} /\ (pc' # pc => pc' = "top")
  BY <1>2, EnsuredThread
<1>4. queue' \in {queue, Append(queue, nextRow)} /\ (queue' # queue => Len(queue) < QueueCap)
      /\ dropped' \subseteq dropped \cup {nextRow}
      /\ status' \in {StatusOnQueue, "queue_full"}
  BY DEF Enqueue, HasRoom
<1>5. queue' \in Seq(Point) /\ Len(queue') <= QueueCap
  <2>1. Append(queue, nextRow) \in Seq(Point) /\ Len(Append(queue, nextRow)) = Len(queue) + 1
    BY <1>2, AppendProperties
  <2> QED
    BY <1>1, <1>2, <1>4, <2>1, QueueTypes
<1>6. queue' \in Seq(Point \cup {Sentinel}) /\ Ordered(queue')
  BY <1>5, RowsOf, RowsType
<1>7. nextRow' \in 1 .. Cardinality(Point) + 1
  BY <1>2, WriterAssumption, FS_CardinalityType DEF WriterAssumption
<1>8. status' \in Statuses /\ StatusShowsFailure'
  BY <1>1, <1>2, <1>4 DEF StatusOnQueue, StatusShowsFailure, TypeOK, Statuses
<1>9. TypeOK'
  BY <1>1, <1>2, <1>3, <1>4, <1>5, <1>6, <1>7, <1>8 DEF TypeOK
<1>10. BatchHasOnePath'
  <2>1. CASE batch = <<>>
    BY <1>3, <2>1 DEF BatchHasOnePath
  <2>2. CASE batch # <<>>
    BY <1>1, <1>3, <2>2 DEF BatchHasOnePath
  <2> QED
    BY <2>1, <2>2
<1>11. StopInv'
  BY <1>2, <1>3, <1>5, <1>6 DEF StopInv
<1>12. HoldsInv'
  <2>1. pc' = "top" /\ batch' = <<>> => Len(batch') < BatchCap
    BY LocalTypes, <1>1
  <2> QED
    BY <1>1, <1>2, <1>3, <2>1 DEF HoldsInv
<1> QED
  BY <1>8, <1>9, <1>10, <1>11, <1>12 DEF WriterInv

LEMMA CloseStep ==
  WriterInv /\ (CloseBegin \/ CloseJoined \/ CloseTimeout \/ Restart) => WriterInv'
<1> SUFFICES ASSUME WriterInv, CloseBegin \/ CloseJoined \/ CloseTimeout \/ Restart PROVE WriterInv'
  OBVIOUS
<1>1. TypeOK /\ BatchHasOnePath /\ StatusShowsFailure /\ StopInv /\ HoldsInv
  BY DEF WriterInv
<1>2. CASE CloseBegin
  <2>1. /\ proc = "running" /\ proc' = "closing" /\ stop' = TRUE
        /\ queue' = IF pc # "none" /\ HasRoom THEN Append(queue, Sentinel) ELSE queue
        /\ UNCHANGED <<nextRow, pc, why, locals, conn, db, failures, status, dropped, failedStop>>
    BY <1>2 DEF CloseBegin
  <2>2. queue \in Seq(Point) /\ ~stop /\ ~failedStop
    BY <1>1, <2>1 DEF StopInv
  <2>3. Ordered(queue') /\ queue' \in Seq(Point \cup {Sentinel}) /\ Len(queue') <= QueueCap
    <3>1. Ordered(queue')
      BY <2>1, <2>2, RowsOf
    <3>2. Len(Append(queue, Sentinel)) = Len(queue) + 1
      BY <2>2
    <3>3. Len(queue') <= QueueCap
      BY <1>1, <2>1, <3>2, QueueTypes DEF HasRoom
    <3> QED
      BY <3>1, <3>3, RowsType
  <2>4. TypeOK'
    BY <1>1, <2>1, <2>3 DEF TypeOK, locals
  <2>5. BatchHasOnePath' /\ StatusShowsFailure'
    BY <1>1, <2>1 DEF BatchHasOnePath, StatusShowsFailure, locals
  <2>6. StopInv'
    BY <2>1, <2>2, <2>3 DEF StopInv
  <2>7. HoldsInv'
    BY <1>1, <2>1, <2>2 DEF HoldsInv, locals
  <2> QED
    BY <2>4, <2>5, <2>6, <2>7 DEF WriterInv
<1>3. CASE CloseJoined \/ CloseTimeout
  <2>1. /\ proc = "closing" /\ proc' = "closed" /\ status' \in {status, "shutdown_timeout"}
        /\ UNCHANGED <<nextRow, queue, stop, pc, why, locals, conn, db, failures, dropped, failedStop>>
    BY <1>3 DEF CloseJoined, CloseTimeout
  <2>2. TypeOK'
    BY <1>1, <2>1 DEF TypeOK, Statuses, locals
  <2>3. BatchHasOnePath' /\ StatusShowsFailure'
    BY <1>1, <2>1 DEF BatchHasOnePath, StatusShowsFailure, locals
  <2>4. StopInv' /\ HoldsInv'
    BY <1>1, <2>1 DEF StopInv, HoldsInv, locals
  <2> QED
    BY <2>2, <2>3, <2>4 DEF WriterInv
<1>4. CASE Restart
  <2>1. /\ proc = "down" /\ proc' = "running"
        /\ UNCHANGED <<nextRow, queue, stop, pc, why, locals, conn, db, failures, status, dropped, failedStop>>
    BY <1>4 DEF Restart
  <2>2. TypeOK'
    BY <1>1, <2>1 DEF TypeOK, locals
  <2>3. BatchHasOnePath' /\ StatusShowsFailure'
    BY <1>1, <2>1 DEF BatchHasOnePath, StatusShowsFailure, locals
  <2>4. StopInv'
    BY <1>1, <2>1 DEF StopInv
  <2>5. HoldsInv'
    BY <1>1, <2>1 DEF HoldsInv, locals
  <2> QED
    BY <2>2, <2>3, <2>4, <2>5 DEF WriterInv
<1> QED
  BY <1>2, <1>3, <1>4

LEMMA DieStep == WriterInv /\ Die => WriterInv'
<1> SUFFICES ASSUME WriterInv, Die PROVE WriterInv'
  OBVIOUS
<1>1. TypeOK /\ QueueCap \in Nat \ {0}
  BY WriterAssumption DEF WriterInv, WriterAssumption
<1>2. /\ proc' = "down" /\ queue' = <<>> /\ stop' = FALSE /\ pc' = "none" /\ why' = "idle"
      /\ batch' = <<>> /\ deferred' = <<>> /\ current_path' = NoPath
      /\ retry_pending' = FALSE /\ conn' = NoPath
      /\ failures' = FALSE /\ status' = "idle" /\ failedStop' = FALSE
      /\ UNCHANGED <<nextRow, db, dropped>>
  BY DEF Die
<1>3. <<>> \in Seq(Point) /\ <<>> \in Seq(Point \cup {Sentinel}) /\ Len(<<>>) = 0 /\ Ordered(<<>>)
  BY DEF Ordered
<1>4. 0 <= QueueCap /\ 0 <= BatchCap
  BY WriterAssumption DEF WriterAssumption
<1>5. TypeOK'
  <2>1. queue' \in Seq(Point \cup {Sentinel}) /\ Len(queue') <= QueueCap
    BY <1>2, <1>3, <1>4
  <2>2. batch' \in Seq(Point) /\ Len(batch') <= BatchCap
        /\ deferred' \in Seq(Point) /\ Len(deferred') <= 1
    BY <1>2, <1>3, <1>4
  <2> QED
    BY <1>1, <1>2, <2>1, <2>2 DEF TypeOK, Statuses, Reasons
<1> QED
  BY <1>2, <1>3, <1>5 DEF WriterInv, BatchHasOnePath, StatusShowsFailure, StopInv, HoldsInv

\* The thread takes a row, from the queue or the one that waited.
LEMMA TakeStep == WriterInv /\ (TakeDeferred \/ TakeRow) => WriterInv'
<1> SUFFICES ASSUME WriterInv, TakeDeferred \/ TakeRow PROVE WriterInv'
  OBVIOUS
<1>1. TypeOK /\ BatchHasOnePath /\ StatusShowsFailure /\ StopInv /\ HoldsInv
  BY DEF WriterInv
<1>2. Ready /\ pc = "top" /\ UNCHANGED Busy
  BY DEF TakeDeferred, TakeRow, Ready
<1>3. PICK p \in Point : HandOver(p, queue')
  <2>1. CASE TakeDeferred
    <3>1. deferred # <<>> /\ HandOver(deferred[1], queue) /\ queue' = queue
      BY <2>1 DEF TakeDeferred
    <3>2. deferred[1] \in Point
      BY <1>1, <3>1, LocalTypes
    <3> QED
      BY <3>1, <3>2
  <2>2. CASE TakeRow
    <3>1. queue # <<>> /\ Head(queue) # Sentinel /\ queue' = Tail(queue)
          /\ HandOver(Head(queue), Tail(queue))
      BY <2>2 DEF TakeRow
    <3>2. Head(queue) \in Point
      BY <1>1, <3>1, QueueTypes, TakeHead
    <3> QED
      BY <3>1, <3>2
  <2> QED
    BY <2>1, <2>2
<1>4. /\ Ordered(queue') /\ (queue \in Seq(Point) => queue' \in Seq(Point))
      /\ queue' \in Seq(Point \cup {Sentinel}) /\ Len(queue') <= QueueCap
  <2>1. CASE TakeDeferred
    BY <1>1, <2>1, QueueTypes DEF TakeDeferred
  <2>2. CASE TakeRow
    <3>1. queue # <<>> /\ Head(queue) # Sentinel /\ queue' = Tail(queue)
      BY <2>2 DEF TakeRow
    <3>2. Ordered(Tail(queue)) /\ Len(Tail(queue)) <= Len(queue)
          /\ (queue \in Seq(Point) => Tail(queue) \in Seq(Point))
      BY <1>1, <3>1, QueueTypes, TakeHead
    <3>3. Tail(queue) \in Seq(Point \cup {Sentinel}) /\ Len(Tail(queue)) \in Nat
      BY <3>2, RowsType, LenProperties
    <3>4. Len(Tail(queue)) <= QueueCap
      BY <1>1, <3>2, <3>3, QueueTypes
    <3> QED
      BY <3>1, <3>2, <3>3, <3>4
  <2> QED
    BY <2>1, <2>2
<1>5. /\ batch' \in Seq(Point) /\ Len(batch') <= BatchCap
      /\ deferred' \in Seq(Point) /\ Len(deferred') <= 1
      /\ current_path' \in Path \cup {NoPath} /\ retry_pending' \in BOOLEAN
      /\ pc' \in {"top", "flush"} /\ why' \in Reasons /\ BatchHasOnePath'
      /\ pc' = "top" => Len(batch') < BatchCap
      /\ pc' = "flush" => batch' # <<>>
      /\ pc' = "flush" /\ why' \in {"last", "idle", "full"} => deferred' = <<>>
      /\ pc' = "flush" /\ why' = "last" => stop /\ queue' = <<>>
  BY <1>1, <1>2, <1>3, HandOverEffect
<1>6. TypeOK'
  BY <1>1, <1>2, <1>4, <1>5 DEF TypeOK, Busy
<1>7. StatusShowsFailure'
  BY <1>1, <1>2 DEF StatusShowsFailure, Busy
<1>8. StopInv'
  BY <1>1, <1>2, <1>4 DEF StopInv, Busy
<1>9. HoldsInv'
  BY <1>2, <1>5 DEF HoldsInv, Busy
<1> QED
  BY <1>5, <1>6, <1>7, <1>8, <1>9 DEF WriterInv

LEMMA SentinelStep == WriterInv /\ TakeSentinel => WriterInv' /\ Rows(queue) = <<>> /\ queue' = <<>>
<1> SUFFICES ASSUME WriterInv, TakeSentinel
             PROVE  WriterInv' /\ Rows(queue) = <<>> /\ queue' = <<>>
  OBVIOUS
<1>1. TypeOK /\ BatchHasOnePath /\ StatusShowsFailure /\ StopInv /\ HoldsInv
  BY DEF WriterInv
<1>2. /\ Ready /\ pc = "top" /\ deferred = <<>> /\ queue # <<>> /\ Head(queue) = Sentinel
      /\ queue' = Tail(queue) /\ stop' = TRUE /\ pc' = AfterSentinel
      /\ UNCHANGED <<proc, nextRow, why, locals, conn, db, failures, status, dropped, failedStop>>
  BY DEF TakeSentinel, Ready
<1>3. queue' = <<>> /\ Rows(queue) = <<>> /\ queue \notin Seq(Point)
  BY <1>1, <1>2, QueueTypes, TakeHead
<1>4. proc # "running" /\ proc # "down"
  BY <1>1, <1>2, <1>3 DEF StopInv
<1>5. <<>> \in Seq(Point \cup {Sentinel}) /\ Ordered(<<>>) /\ Len(<<>>) <= QueueCap
  BY <1>1, QueueTypes DEF Ordered
<1>6. TypeOK'
  <2>1. queue' \in Seq(Point \cup {Sentinel}) /\ Len(queue') <= QueueCap
    BY <1>3, <1>5
  <2> QED
    BY <1>1, <1>2, <2>1 DEF TypeOK, locals, AfterSentinel
<1>7. BatchHasOnePath' /\ StatusShowsFailure'
  BY <1>1, <1>2 DEF BatchHasOnePath, StatusShowsFailure, locals
<1>8. StopInv'
  BY <1>1, <1>2, <1>3, <1>4, <1>5 DEF StopInv
<1>9. HoldsInv'
  BY <1>1, <1>2, <1>3 DEF HoldsInv, locals, AfterSentinel
<1> QED
  BY <1>3, <1>6, <1>7, <1>8, <1>9 DEF WriterInv

\* A flush begins, or the thread ends because there is nothing left.
LEMMA TurnStep == WriterInv /\ (RetryFlush \/ Idle) => WriterInv'
<1> SUFFICES ASSUME WriterInv, RetryFlush \/ Idle PROVE WriterInv'
  OBVIOUS
<1>1. TypeOK /\ BatchHasOnePath /\ StatusShowsFailure /\ StopInv /\ HoldsInv
  BY DEF WriterInv
<1>2. /\ pc = "top" /\ UNCHANGED <<queue, locals, Busy>>
      /\ \/ pc' = "flush" /\ why' = "retry" /\ batch # <<>>
         \/ pc' = "flush" /\ why' = "idle" /\ batch # <<>> /\ deferred = <<>>
         \/ /\ pc' = "end" /\ why' = why /\ stop
            /\ batch = <<>> /\ deferred = <<>> /\ queue = <<>>
  BY DEF RetryFlush, Idle, Ready, StartFlush
<1>3. TypeOK'
  BY <1>1, <1>2 DEF TypeOK, locals, Busy, Reasons
<1>4. BatchHasOnePath' /\ StatusShowsFailure' /\ StopInv'
  BY <1>1, <1>2 DEF BatchHasOnePath, StatusShowsFailure, StopInv, locals, Busy
<1>5. HoldsInv'
  BY <1>1, <1>2 DEF HoldsInv, locals, Busy
<1> QED
  BY <1>3, <1>4, <1>5 DEF WriterInv

\* What a flush writes goes to the path of its batch.
LEMMA FlushTarget ==
  ASSUME WriterInv, pc = "flush"
  PROVE  /\ batch # <<>> /\ batch \in Seq(Point) /\ Len(batch) \in Nat \ {0}
         /\ Connection = current_path /\ current_path \in Path /\ PathOf(batch[1]) = current_path
<1>1. TypeOK /\ BatchHasOnePath /\ HoldsInv
  BY DEF WriterInv
<1>2. batch # <<>> /\ batch \in Seq(Point) /\ Len(batch) \in Nat \ {0}
  BY <1>1, LocalTypes, EmptySeq DEF HoldsInv
<1> QED
  BY <1>1, <1>2, BatchPath DEF Connection

LEMMA FlushStep == WriterInv /\ (FlushOk \/ FlushFail \/ WorkerExit) => WriterInv'
<1> SUFFICES ASSUME WriterInv, FlushOk \/ FlushFail \/ WorkerExit PROVE WriterInv'
  OBVIOUS
<1>1. TypeOK /\ BatchHasOnePath /\ StatusShowsFailure /\ StopInv /\ HoldsInv
  BY DEF WriterInv
<1>2. <<>> \in Seq(Point) /\ Len(<<>>) = 0 /\ 0 <= BatchCap /\ 0 < BatchCap
  BY <1>1, LocalTypes
<1>3. CASE FlushOk
  <2>1. /\ pc = "flush" /\ conn' = Connection /\ db' = [db EXCEPT ![conn'] = @ \o batch]
        /\ batch' = <<>> /\ failures' = FALSE /\ status' = "active"
        /\ retry_pending' \in {FALSE, retry_pending} /\ current_path' \in {NoPath, current_path}
        /\ pc' = IF why = "last" \/ (why = "idle" /\ stop /\ queue = <<>>) THEN "end" ELSE "top"
        /\ UNCHANGED <<proc, nextRow, queue, stop, why, deferred, dropped, failedStop>>
    BY <1>3 DEF FlushOk
  <2>2. conn' \in Path /\ batch \in Seq(Point)
    BY <2>1, FlushTarget
  <2>3. db' \in [Path -> Seq(Point)]
    <3>1. db \in [Path -> Seq(Point)] /\ db[conn'] \in Seq(Point)
      BY <1>1, <2>2 DEF TypeOK
    <3>2. db[conn'] \o batch \in Seq(Point)
      BY <2>2, <3>1, ConcatProperties
    <3> QED
      BY <2>1, <2>2, <3>1, <3>2
  <2>4. TypeOK'
    <3>1. batch' \in Seq(Point) /\ Len(batch') <= BatchCap
      BY <1>2, <2>1
    <3> QED
      BY <1>1, <2>1, <2>2, <2>3, <3>1 DEF TypeOK, Statuses
  <2>5. BatchHasOnePath' /\ StatusShowsFailure' /\ StopInv'
    <3>1. Len(batch') = 0
      BY <1>2, <2>1
    <3>2. BatchHasOnePath'
      BY <3>1 DEF BatchHasOnePath
    <3>3. StopInv'
      BY <1>1, <2>1 DEF StopInv
    <3> QED
      BY <2>1, <3>2, <3>3 DEF StatusShowsFailure
  <2>6. HoldsInv'
    BY <1>1, <1>2, <2>1 DEF HoldsInv
  <2> QED
    BY <2>4, <2>5, <2>6 DEF WriterInv
<1>4. CASE FlushFail
  <2>1. /\ pc = "flush" /\ conn' = NoPath /\ failures' = TRUE /\ status' = "error"
        /\ retry_pending' = TRUE /\ pc' = AfterFailure /\ failedStop' = (failedStop \/ stop)
        /\ UNCHANGED <<proc, nextRow, queue, stop, why, batch, deferred, current_path, db, dropped>>
    BY <1>4 DEF FlushFail
  <2>2. TypeOK'
    BY <1>1, <2>1 DEF TypeOK, Statuses, AfterFailure
  <2>3. BatchHasOnePath' /\ StatusShowsFailure' /\ StopInv'
    <3>1. BatchHasOnePath'
      BY <1>1, <2>1 DEF BatchHasOnePath
    <3>2. StopInv'
      BY <1>1, <2>1 DEF StopInv, TypeOK
    <3> QED
      BY <2>1, <3>1, <3>2 DEF StatusShowsFailure
  <2>4. HoldsInv'
    BY <1>1, <2>1 DEF HoldsInv, AfterFailure
  <2> QED
    BY <2>2, <2>3, <2>4 DEF WriterInv
<1>5. CASE WorkerExit
  <2>1. /\ pc = "end" /\ pc' = "none" /\ batch' = <<>> /\ deferred' = <<>>
        /\ current_path' = NoPath /\ retry_pending' = FALSE /\ conn' = NoPath
        /\ UNCHANGED <<proc, nextRow, queue, stop, why, db, failures, status, dropped, failedStop>>
    BY <1>5 DEF WorkerExit
  <2>2. TypeOK'
    <3>1. batch' \in Seq(Point) /\ Len(batch') <= BatchCap
          /\ deferred' \in Seq(Point) /\ Len(deferred') <= 1
      BY <1>2, <2>1
    <3> QED
      BY <1>1, <2>1, <3>1 DEF TypeOK
  <2>3. BatchHasOnePath' /\ StatusShowsFailure' /\ StopInv'
    <3>1. Len(batch') = 0
      BY <1>2, <2>1
    <3>2. BatchHasOnePath'
      BY <3>1 DEF BatchHasOnePath
    <3>3. StopInv'
      BY <1>1, <2>1 DEF StopInv
    <3> QED
      BY <1>1, <2>1, <3>2, <3>3 DEF StatusShowsFailure
  <2>4. HoldsInv'
    BY <1>1, <2>1 DEF HoldsInv
  <2> QED
    BY <2>2, <2>3, <2>4 DEF WriterInv
<1> QED
  BY <1>3, <1>4, <1>5

LEMMA WriterInvStep == WriterInv /\ [Next]_vars => WriterInv'
<1> SUFFICES ASSUME WriterInv, [Next]_vars PROVE WriterInv'
  OBVIOUS
<1>1. CASE UNCHANGED vars
  BY <1>1 DEF vars, WriterInv, TypeOK, BatchHasOnePath, StatusShowsFailure, StopInv, HoldsInv
<1> QED
  BY <1>1, EnqueueStep, CloseStep, DieStep, TakeStep, SentinelStep, TurnStep, FlushStep
  DEF Next, Worker

LEMMA InitialWriter == Init => WriterInv
<1> SUFFICES ASSUME Init PROVE WriterInv
  OBVIOUS
<1>1. /\ proc = "running" /\ nextRow = 1 /\ dropped = {} /\ db = [f \in Path |-> <<>>]
      /\ queue = <<>> /\ stop = FALSE /\ pc = "none" /\ why = "idle"
      /\ batch = <<>> /\ deferred = <<>> /\ current_path = NoPath
      /\ retry_pending = FALSE /\ conn = NoPath
      /\ failures = FALSE /\ status = "idle" /\ failedStop = FALSE
  BY DEF Init, Fresh
<1>2. <<>> \in Seq(Point) /\ <<>> \in Seq(Point \cup {Sentinel}) /\ Len(<<>>) = 0 /\ Ordered(<<>>)
      /\ 0 <= QueueCap /\ 0 <= BatchCap
  BY WriterAssumption DEF Ordered, WriterAssumption
<1>3. nextRow \in 1 .. Cardinality(Point) + 1
  BY <1>1, WriterAssumption, FS_CardinalityType DEF WriterAssumption
<1>4. TypeOK
  <2>1. /\ queue \in Seq(Point \cup {Sentinel}) /\ Len(queue) <= QueueCap
        /\ batch \in Seq(Point) /\ Len(batch) <= BatchCap
        /\ deferred \in Seq(Point) /\ Len(deferred) <= 1
    BY <1>1, <1>2
  <2>2. db \in [Path -> Seq(Point)]
    BY <1>1, <1>2
  <2> QED
    BY <1>1, <1>3, <2>1, <2>2 DEF TypeOK, Statuses, Reasons
<1> QED
  BY <1>1, <1>2, <1>4 DEF WriterInv, BatchHasOnePath, StatusShowsFailure, StopInv, HoldsInv

LEMMA WriterInvariant == Spec => []WriterInv
BY InitialWriter, WriterInvStep, PTL DEF Spec

\* For any rows, paths and capacities: a batch is rows of the one path it will
\* be written to, monitoring shows no healthy writer after a failed attempt,
\* and an orderly end loses nothing (_run, _flush_with_retry, close).
THEOREM WriterConsistency == Spec => []WriterIsConsistent
<1>1. WriterInv => WriterIsConsistent
  <2> SUFFICES ASSUME WriterInv PROVE WriterIsConsistent
    OBVIOUS
  <2>1. TypeOK /\ BatchHasOnePath /\ StatusShowsFailure /\ HoldsInv
    BY DEF WriterInv
  <2>2. ASSUME ~failedStop, pc = "none" PROVE Backlog = <<>>
    <3>1. batch = <<>> /\ deferred = <<>> /\ queue = <<>>
      BY <2>1, <2>2 DEF HoldsInv
    <3>2. Rows(queue) = <<>>
      BY <3>1 DEF Rows
    <3> QED
      BY <3>1, <3>2 DEF Backlog
  <2>3. CleanCloseLosesNothing
    BY <2>1, <2>2 DEF CleanCloseLosesNothing, HoldsInv
  <2> QED
    BY <2>1, <2>3 DEF WriterIsConsistent
<1> QED
  BY <1>1, WriterInvariant, PTL

-----------------------------------------------------------------------------
(* The refinement: the writer implements MeasurementFifo *)

Serving == proc = "running"

LEMMA BacklogType ==
  ASSUME WriterInv
  PROVE  /\ batch \in Seq(Point) /\ deferred \in Seq(Point) /\ Rows(queue) \in Seq(Point)
         /\ Backlog \in Seq(Point)
<1>1. batch \in Seq(Point) /\ deferred \in Seq(Point) /\ Rows(queue) \in Seq(Point)
  BY LocalTypes, RowsType DEF WriterInv, StopInv
<1> QED
  BY <1>1, ConcatProperties DEF Backlog

\* A row that the queue takes goes behind everything accepted before.
LEMMA EnqueueImplements ==
  ASSUME WriterInv, Enqueue
  PROVE  (\E p \in Point : Fifo!Accept(p)) \/ UNCHANGED <<Backlog, db, Serving>>
<1>1. proc = "running" /\ proc' = "running" /\ db' = db /\ nextRow \in Point /\ EnsureThread
  BY DEF Enqueue
<1>2. UNCHANGED <<batch, deferred>> /\ queue \in Seq(Point)
  BY <1>1, EnsuredThread DEF WriterInv, StopInv
<1>3. CASE queue' = queue
  BY <1>1, <1>2, <1>3 DEF Backlog, Serving
<1>4. CASE queue' = Append(queue, nextRow)
  <2>1. queue' \in Seq(Point)
    BY <1>1, <1>2, <1>4, AppendProperties
  <2>2. Rows(queue) = queue /\ Rows(queue') = queue'
    BY <1>2, <2>1, RowsOf
  <2>3. batch \o deferred \in Seq(Point)
    BY BacklogType, ConcatProperties
  <2>4. <<nextRow>> \in Seq(Point) /\ queue' = queue \o <<nextRow>>
    BY <1>1, <1>2, <1>4, AppendIsConcat
  <2>5. Backlog' = (batch \o deferred) \o (queue \o <<nextRow>>)
    BY <1>2, <2>2, <2>4 DEF Backlog
  <2>6. Backlog' = Backlog \o <<nextRow>>
    BY <1>2, <2>2, <2>3, <2>4, <2>5, ConcatAssociative DEF Backlog
  <2>7. Backlog' = Append(Backlog, nextRow)
    BY <1>1, <2>6, BacklogType, AppendIsConcat
  <2> QED
    BY <1>1, <2>7 DEF Fifo!Accept, Serving
<1> QED
  BY <1>3, <1>4 DEF Enqueue

\* A row that the thread takes keeps its place in the order.
LEMMA TakeImplements ==
  ASSUME WriterInv, TakeDeferred \/ TakeRow
  PROVE  UNCHANGED <<Backlog, db, Serving>>
<1>1. TypeOK /\ BatchHasOnePath /\ StopInv /\ HoldsInv /\ Ready /\ UNCHANGED <<proc, db>>
  BY DEF WriterInv, TakeDeferred, TakeRow, Busy
<1>2. batch \in Seq(Point) /\ Rows(queue) \in Seq(Point)
  BY BacklogType
<1>3. CASE TakeDeferred
  <2>1. deferred # <<>> /\ HandOver(deferred[1], queue) /\ queue' = queue
    BY <1>3 DEF TakeDeferred
  <2>2. PICK p \in Point : deferred = <<p>> /\ HandOver(p, queue)
    <3>1. deferred \in Seq(Point) /\ Len(deferred) \in Nat /\ Len(deferred) <= 1
      BY <1>1, LocalTypes
    <3>2. Len(deferred) # 0
      BY <2>1, <3>1, EmptySeq
    <3>3. Len(deferred) = 1
      BY <3>1, <3>2, SMTT(30)
    <3>4. deferred = <<deferred[1]>> /\ deferred[1] \in Point
      BY <3>1, <3>3
    <3> QED
      BY <2>1, <3>4
  <2>3. batch' \o deferred' = batch \o <<p>>
    BY <1>1, <2>2, HandOverEffect
  <2>4. batch' \o deferred' = batch \o deferred
    BY <2>2, <2>3
  <2> QED
    BY <1>1, <2>1, <2>4 DEF Backlog, Serving
<1>4. CASE TakeRow
  <2>1. /\ deferred = <<>> /\ queue # <<>> /\ Head(queue) # Sentinel
        /\ queue' = Tail(queue) /\ HandOver(Head(queue), Tail(queue))
    BY <1>4 DEF TakeRow
  <2>2. Head(queue) \in Point /\ Rows(queue) = <<Head(queue)>> \o Rows(queue')
        /\ Ordered(queue')
    BY <1>1, <2>1, QueueTypes, TakeHead
  <2>3. batch' \o deferred' = batch \o <<Head(queue)>>
    BY <1>1, <2>1, <2>2, HandOverEffect
  <2>4. Backlog' = (batch \o <<Head(queue)>>) \o Rows(queue')
    BY <2>3 DEF Backlog
  <2>5. Rows(queue') \in Seq(Point) /\ <<Head(queue)>> \in Seq(Point)
    BY <2>2, RowsType
  <2>6. Backlog' = batch \o Rows(queue)
    BY <1>2, <2>2, <2>4, <2>5, ConcatAssociative
  <2>7. Backlog = batch \o Rows(queue)
    BY <1>2, <2>1, ConcatEmptySeq DEF Backlog
  <2> QED
    BY <1>1, <2>6, <2>7 DEF Serving
<1> QED
  BY <1>3, <1>4

\* A flush that succeeds stores the front of the backlog, all of it of one
\* path, in that path's file.
LEMMA FlushImplements ==
  ASSUME WriterInv, FlushOk
  PROVE  Len(batch) \in 1 .. Len(Backlog) /\ Fifo!Commit(Len(batch))
<1> DEFINE n == Len(batch)
           rest == deferred \o Rows(queue)
<1>1. /\ pc = "flush" /\ conn' = Connection /\ db' = [db EXCEPT ![conn'] = @ \o batch]
      /\ batch' = <<>> /\ UNCHANGED <<proc, queue, deferred>> /\ BatchHasOnePath
  BY DEF FlushOk, WriterInv
<1>2. batch # <<>> /\ batch \in Seq(Point) /\ n \in Nat \ {0}
      /\ conn' = current_path /\ PathOf(batch[1]) = current_path
  BY <1>1, FlushTarget
<1>3. deferred \in Seq(Point) /\ Rows(queue) \in Seq(Point)
  BY BacklogType
<1>4. rest \in Seq(Point) /\ Len(rest) \in Nat
  BY <1>3, ConcatProperties, LenProperties
<1>5. Backlog = batch \o rest
  BY <1>2, <1>3, ConcatAssociative DEF Backlog
<1>6. Backlog' = rest
  <2>1. Backlog' = (<<>> \o deferred) \o Rows(queue)
    BY <1>1 DEF Backlog
  <2>2. <<>> \o deferred = deferred
    BY <1>3, ConcatEmptySeq
  <2> QED
    BY <2>1, <2>2
<1> HIDE DEF rest, n
<1>7. Len(Backlog) = n + Len(rest) /\ Backlog[1] = batch[1]
  BY <1>2, <1>4, <1>5, ConcatProperties DEF n
<1>8. n \in 1 .. Len(Backlog)
  BY <1>2, <1>4, <1>7
<1>9. SubSeq(Backlog, 1, n) = batch
  <2>1. SubSeq(batch \o rest, 1, n) = SubSeq(batch, 1, n)
    BY <1>2, <1>4, SubSeqOfConcat1 DEF n
  <2> QED
    BY <1>2, <1>5, <2>1, SubSeqFull DEF n
<1>10. SubSeq(Backlog, n + 1, Len(Backlog)) = rest
  <2>1. SubSeq(batch \o rest, n + 1, n + Len(rest)) = SubSeq(rest, n + 1 - n, n + Len(rest) - n)
    BY <1>2, <1>4, SubSeqOfConcat2 DEF n
  <2>2. n + 1 - n = 1 /\ n + Len(rest) - n = Len(rest)
    BY <1>2, <1>4
  <2> QED
    BY <1>4, <1>5, <1>7, <2>1, <2>2, SubSeqFull
<1>11. \A i \in 1 .. n : PathOf(batch[i]) = current_path
  BY <1>1 DEF BatchHasOnePath, n
<1>12. UNCHANGED Serving
  BY <1>1 DEF Serving
<1>13. Fifo!Commit(n)
  BY <1>1, <1>2, <1>6, <1>7, <1>8, <1>9, <1>10, <1>11, <1>12 DEF Fifo!Commit, Serving
<1> QED
  BY <1>8, <1>13 DEF n

\* The thread returns.  It holds rows only when a flush failed after the
\* request to stop, and then those are lost.
LEMMA ExitImplements ==
  ASSUME WriterInv, WorkerExit
  PROVE  (\E n \in 1 .. Len(Backlog) : Fifo!Lose(n)) \/ UNCHANGED <<Backlog, db, Serving>>
<1> DEFINE held == batch \o deferred
           n == Len(held)
<1>1. /\ pc = "end" /\ batch' = <<>> /\ deferred' = <<>> /\ UNCHANGED <<proc, queue, db>>
      /\ stop
  BY DEF WorkerExit, WriterInv, HoldsInv
<1>2. proc # "running"
  BY <1>1 DEF WriterInv, StopInv
<1>3. batch \in Seq(Point) /\ deferred \in Seq(Point) /\ Rows(queue) \in Seq(Point)
  BY BacklogType
<1>4. held \in Seq(Point) /\ n \in Nat /\ Len(Rows(queue)) \in Nat
  BY <1>3, ConcatProperties, LenProperties
<1>5. Backlog = held \o Rows(queue)
  BY DEF Backlog
<1>6. Backlog' = Rows(queue)
  <2>1. Backlog' = (<<>> \o <<>>) \o Rows(queue)
    BY <1>1 DEF Backlog
  <2> QED
    BY <1>3, <2>1, ConcatEmptySeq
<1> HIDE DEF held, n
<1>7. CASE n = 0
  <2>1. held = <<>>
    BY <1>4, <1>7, EmptySeq DEF n
  <2>2. Backlog = Rows(queue)
    BY <1>3, <1>5, <2>1, ConcatEmptySeq
  <2> QED
    BY <1>1, <1>6, <2>2 DEF Serving
<1>8. CASE n # 0
  <2>1. Len(Backlog) = n + Len(Rows(queue))
    BY <1>3, <1>4, <1>5, ConcatProperties DEF n
  <2>2. n \in 1 .. Len(Backlog)
    BY <1>4, <1>8, <2>1
  <2>3. SubSeq(Backlog, n + 1, Len(Backlog)) = Rows(queue)
    <3>1. CASE Rows(queue) = <<>>
      <4>1. Len(Backlog) = n
        BY <1>4, <2>1, <3>1
      <4> QED
        BY <1>4, <3>1, <4>1, BacklogType, SubSeqEmpty
    <3>2. CASE Rows(queue) # <<>>
      <4>1. Len(Rows(queue)) >= 1
        BY <1>3, <1>4, <3>2, EmptySeq
      <4>2. SubSeq(held \o Rows(queue), n + 1, n + Len(Rows(queue)))
             = SubSeq(Rows(queue), n + 1 - n, n + Len(Rows(queue)) - n)
        BY <1>3, <1>4, <4>1, SubSeqOfConcat2 DEF n
      <4>3. n + 1 - n = 1 /\ n + Len(Rows(queue)) - n = Len(Rows(queue))
        BY <1>4
      <4> QED
        BY <1>3, <1>5, <2>1, <4>2, <4>3, SubSeqFull
    <3> QED
      BY <3>1, <3>2
  <2>4. Fifo!Lose(n)
    BY <1>1, <1>2, <1>6, <2>2, <2>3 DEF Fifo!Lose
  <2> QED
    BY <2>2, <2>4
<1> QED
  BY <1>7, <1>8

LEMMA StepImplementsFifo == WriterInv /\ [Next]_vars => [Fifo!Next]_(Fifo!vars)
<1> SUFFICES ASSUME WriterInv, [Next]_vars PROVE [Fifo!Next]_(Fifo!vars)
  OBVIOUS
<1> USE DEF Fifo!vars, Serving
<1>1. CASE Enqueue
  BY <1>1, EnqueueImplements DEF Fifo!Next
<1>2. CASE TakeDeferred \/ TakeRow
  BY <1>2, TakeImplements
<1>3. CASE FlushOk
  BY <1>3, FlushImplements DEF Fifo!Next
<1>4. CASE WorkerExit
  BY <1>4, ExitImplements DEF Fifo!Next
<1>5. CASE TakeSentinel
  <2>1. Rows(queue) = <<>> /\ Rows(queue') = <<>>
    BY <1>5, SentinelStep DEF Rows
  <2> QED
    BY <1>5, <2>1 DEF TakeSentinel, locals, Backlog
<1>6. CASE RetryFlush \/ Idle
  BY <1>6 DEF RetryFlush, Idle, locals, Busy, Backlog
<1>7. CASE FlushFail
  BY <1>7 DEF FlushFail, Backlog
<1>8. CASE CloseJoined \/ CloseTimeout
  BY <1>8 DEF CloseJoined, CloseTimeout, locals, Backlog
<1>9. CASE CloseBegin
  <2>1. queue \in Seq(Point)
    BY <1>9 DEF CloseBegin, WriterInv, StopInv
  <2>2. Rows(queue') = Rows(queue)
    BY <1>9, <2>1, RowsOf DEF CloseBegin
  <2> QED
    BY <1>9, <2>2 DEF CloseBegin, locals, Backlog, Fifo!StopServing, Fifo!Next
<1>10. CASE Die
  <2>1. Rows(queue') = <<>> /\ batch' = <<>> /\ deferred' = <<>>
    BY <1>10 DEF Die, Rows
  <2>2. Backlog' = <<>>
    BY <2>1 DEF Backlog
  <2> QED
    BY <1>10, <2>2 DEF Die, Fifo!Die, Fifo!Next
<1>11. CASE Restart
  <2>1. Backlog = <<>> /\ Backlog' = Backlog
    <3>1. batch = <<>> /\ deferred = <<>> /\ queue = <<>>
      BY <1>11 DEF Restart, WriterInv, StopInv, HoldsInv
    <3>2. Rows(queue) = <<>>
      BY <3>1 DEF Rows
    <3> QED
      BY <1>11, <3>1, <3>2 DEF Restart, locals, Backlog
  <2> QED
    BY <1>11, <2>1 DEF Restart, Fifo!Restart, Fifo!Next
<1>12. CASE UNCHANGED vars
  BY <1>12 DEF vars, Backlog
<1> QED
  BY <1>1, <1>2, <1>3, <1>4, <1>5, <1>6, <1>7, <1>8, <1>9, <1>10, <1>11, <1>12
  DEF Next, Worker

LEMMA InitImplementsFifo == Init => Fifo!Init
<1> SUFFICES ASSUME Init PROVE Fifo!Init
  OBVIOUS
<1>1. Rows(queue) = <<>> /\ batch = <<>> /\ deferred = <<>>
  BY DEF Init, Fresh, Rows
<1> QED
  BY <1>1 DEF Init, Backlog, Fifo!Init

\* The writer implements the buffer of MeasurementFifo, for any rows, paths and
\* capacities: nothing is stored twice, out of order or in another path's file,
\* and nothing accepted is lost while the process serves (_run, enqueue, close).
THEOREM WriterImplementsFifo == Spec => ImplementsFifo
BY InitImplementsFifo, StepImplementsFifo, WriterInvariant, PTL
DEF Spec, ImplementsFifo, Fifo!Spec
=============================================================================
