---------------------- MODULE MCConfigTransactions -------------------------
(***************************************************************************)
(* A small instance of ConfigTransactions for TLC.                         *)
(***************************************************************************)
EXTENDS ConfigTransactions, TLC

CONSTANTS i1, s1, n1, n2

Empty == [k \in Keys |-> Absent]
With(pairs) == [k \in Keys |-> IF k \in DOMAIN pairs THEN pairs[k] ELSE Absent]

\* A new file, one that runs with cross-charge and its derived integration,
\* and one that sets the integration off under it and is therefore invalid.
Files == {Empty,
          With([cross |-> 1, password |-> 1, foreign |-> 1]),
          With([cross |-> 1, integration |-> 0])}
OneChange == {[key |-> "integration", value |-> 0]}
FullOrOne == {Managed, {"integration"}}
OneExport == {[content |-> With([cross |-> 1, password |-> 1]), scope |-> Managed,
               secrets |-> TRUE, newer |-> TRUE]}
OneOldFile == {With([alias |-> 1, foreign |-> 1])}

AnyName == Permutations(Names)
=============================================================================
