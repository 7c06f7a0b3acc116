------------------------------ MODULE MCNodes ------------------------------
(* Nodes for TLC: one board and two rows, so that a wiped board can enrol   *)
(* again while requests of its earlier life are under way.                  *)
EXTENDS Nodes
=============================================================================
