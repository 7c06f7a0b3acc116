------------------------------- MODULE MCRules -------------------------------
(* Rules with a queue of two frames and the shortest clocks that keep their   *)
(* order: coverage and silence are noticed one tick apart before a fade.      *)
EXTENDS Rules
=============================================================================
