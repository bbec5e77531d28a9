-------------------------- MODULE MCLastGoodStore --------------------------
(***************************************************************************)
(* A small instance of LastGoodStore for TLC: two revisions, one of them   *)
(* with two byte-different configurations, and two controller versions.    *)
(* The two configurations of one revision and the two versions are         *)
(* interchangeable; the slots are not (A is preferred to B).               *)
(***************************************************************************)
EXTENDS LastGoodStore, TLC

CONSTANTS c1, c2, c3, r1, r2, v1, v2

Interchangeable == Permutations({c2, c3}) \cup Permutations(Versions)

MCTypedRevision == [c \in Configs |-> IF c = c1 THEN r1 ELSE r2]
=============================================================================
