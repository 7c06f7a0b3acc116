------------------------------- MODULE Board -------------------------------
(***************************************************************************)
(* What a reader of a room is promised, whatever it reads from: it is shown*)
(* states that fusion really reached, never one nobody computed, and once  *)
(* fusion settles on a state, that state is what it is shown.              *)
(*                                                                         *)
(* It is not promised every state, nor that they come in order: publishers *)
(* overtake each other while one waits for the disk.                       *)
(***************************************************************************)
CONSTANTS
    State,   \* the states of a room
    Nothing  \* no state yet

VARIABLES
    truth,   \* what fusion says of the room now
    past,    \* every state fusion has reached
    shown    \* what the reader is shown

board == <<truth, past, shown>>

Init == truth = Nothing /\ past = {} /\ shown = Nothing

\* Fusion moves, the reader is shown something, or both in one turn of the loop.
Move ==
    /\ truth' \in State \cup {Nothing}
    /\ past' = past \cup ({truth'} \ {Nothing})
    /\ shown' \in {shown, Nothing} \cup past'

Safe == Init /\ [][Move]_board

\* Two states that say the same of the room are one to a reader.
Settles == <>[][UNCHANGED truth]_truth => <>[](truth # Nothing => shown.val = truth.val)

Spec == Safe /\ Settles
=============================================================================
