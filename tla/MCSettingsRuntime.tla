------------------------- MODULE MCSettingsRuntime -------------------------
(***************************************************************************)
(* Small instances of SettingsRuntime for TLC.                             *)
(***************************************************************************)
EXTENDS SettingsRuntime, TLC

CONSTANTS l1, l2, l3, r1, r2, x1, s1, s2

OneGuard == [v \in Live \cup {DefaultLive} |-> "g1"]
TwoGuards == [v \in Live \cup {DefaultLive} |-> IF v = l3 THEN "g2" ELSE "g1"]
AllContents == Contents
NoSlots == {None}
SlotsOrNone == {None, [live |-> l1, rest |-> r1]}
FileEdits == Contents \ {Broken}
Interchangeable == Permutations({l1, l2}) \cup Permutations({s1, s2})
ValidEdits == Configs \cup {NoFile}
=============================================================================
