---------------------------- MODULE MCGraphHistory ----------------------------
(***************************************************************************)
(* Instances of GraphHistory for TLC.                                       *)
(***************************************************************************)
EXTENDS GraphHistory

CONSTANTS main, fallback, u1, u2

\* Rows that between them change, keep and drop every field.
RowKinds ==
    {[state |-> "A", quality |-> {"VALID"}, power |-> {3}, config |-> "c1",
      units |-> {{u1, u2}}, publishes |-> 1],
     [state |-> "B", quality |-> {}, power |-> {-2}, config |-> "c2",
      units |-> {{u1}}, publishes |-> 0],
     [state |-> "", quality |-> {"INVALID"}, power |-> {}, config |-> "c1",
      units |-> {}, publishes |-> 0]}
=============================================================================
