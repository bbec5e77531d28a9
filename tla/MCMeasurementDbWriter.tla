------------------------ MODULE MCMeasurementDbWriter ------------------------
(***************************************************************************)
(* Instances of MeasurementDbWriter for TLC.                                *)
(***************************************************************************)
EXTENDS MeasurementDbWriter

CONSTANTS main, fallback, N
SomeRows == 1 .. N

\* The external medium goes away and comes back, twice.
AwayAndBack(p) == IF p \in {3, 6} THEN fallback ELSE main
=============================================================================
