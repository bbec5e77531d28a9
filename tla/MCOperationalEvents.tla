------------------------ MODULE MCOperationalEvents ------------------------
(***************************************************************************)
(* Instances of OperationalEvents for TLC.                                 *)
(***************************************************************************)
EXTENDS OperationalEvents

CONSTANTS b1, b2, n1, g1

\* Two failures with different reserves.
TwoReserves == [f \in Failures |-> f + 1]

\* One part of the world moves at a time.
OneMoves == {{p} : p \in Parts}
OnlyGrid == {{"grid"}}
=============================================================================
