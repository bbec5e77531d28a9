--------------------------- MODULE MeasurementFifo ---------------------------
(***************************************************************************)
(* What the graph database's writer promises to the control cycle that      *)
(* hands it measurements: it is a first-in first-out buffer in front of one  *)
(* store per database path.  A point is accepted or refused at once; an      *)
(* accepted point reaches the store its path names, in the order of          *)
(* acceptance and once; points are lost from the front of the buffer only    *)
(* after the process has stopped serving, and with the process.              *)
(***************************************************************************)
EXTENDS Naturals, Sequences

CONSTANTS
    Point,              \* the measurements
    Path,               \* the database files
    PathOf(_)           \* the file a point is meant for

VARIABLES
    backlog,            \* accepted and not yet stored, in order
    store,              \* [Path -> the points stored, in order]
    serving             \* FALSE from the request to stop on

vars == <<backlog, store, serving>>

Init ==
    /\ backlog = <<>>
    /\ store = [f \in Path |-> <<>>]
    /\ serving = TRUE

Accept(p) ==
    /\ serving
    /\ backlog' = Append(backlog, p)
    /\ UNCHANGED <<store, serving>>

\* The first n points, all of one path, become durable together.
Commit(n) ==
    /\ n \in 1 .. Len(backlog)
    /\ LET f == PathOf(backlog[1])
           group == SubSeq(backlog, 1, n)
       IN  /\ \A i \in 1 .. n : PathOf(group[i]) = f
           /\ store' = [store EXCEPT ![f] = @ \o group]
    /\ backlog' = SubSeq(backlog, n + 1, Len(backlog))
    /\ UNCHANGED serving

StopServing ==
    /\ serving' = FALSE
    /\ UNCHANGED <<backlog, store>>

Lose(n) ==
    /\ ~serving
    /\ n \in 1 .. Len(backlog)
    /\ backlog' = SubSeq(backlog, n + 1, Len(backlog))
    /\ UNCHANGED <<store, serving>>

\* The process dies, in whatever state it was.
Die ==
    /\ backlog' = <<>>
    /\ serving' = FALSE
    /\ UNCHANGED store

Restart ==
    /\ ~serving
    /\ backlog = <<>>
    /\ serving' = TRUE
    /\ UNCHANGED <<backlog, store>>

Next ==
    \/ \E p \in Point : Accept(p)
    \/ \E n \in 1 .. Len(backlog) : Commit(n) \/ Lose(n)
    \/ StopServing
    \/ Die
    \/ Restart

Spec == Init /\ [][Next]_vars
=============================================================================
