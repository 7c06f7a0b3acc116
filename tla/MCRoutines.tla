----------------------------- MODULE MCRoutines -----------------------------
(* Routines with one routine that its user turns from one trigger into       *)
(* another, in a house of two rooms.                                         *)
EXTENDS Routines

CONSTANTS hall, den

DailyAway == [kind |-> "schedule", room |-> Nobody, away |-> TRUE]
AwayBy == [kind |-> "away by", room |-> Nobody, away |-> FALSE]
Left == [kind |-> "left", room |-> Nobody, away |-> FALSE]
Empty == [kind |-> "empty", room |-> hall, away |-> TRUE]
Still(m) == [kind |-> "still", room |-> m, away |-> FALSE]

Triggers == {DailyAway, AwayBy, Left, Empty, Still(hall)}
=============================================================================
