----------------------------- MODULE MCSemaStack -----------------------------
(* Model values for the checks of SemaStack.                                 *)
EXTENDS SemaStack

CONSTANTS p1, p2, c1, c2, a, b

ProducersDef == {p1, p2}
ConsumersDef == {c1, c2}
ItemsDef     == {a, b}
=============================================================================
