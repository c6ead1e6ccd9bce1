------------------------- MODULE MCAxiomProjection -------------------------
(* Instances of AxiomProjection for TLC. *)
EXTENDS AxiomProjection, TLC

CONSTANTS w1, w2, w3, iron, deep

ThreeWorlds == {w1, w2, w3}
TwoBuilds == {iron, deep}
DeepOnly == {deep}
LargeOnly == {iron}
=============================================================================
