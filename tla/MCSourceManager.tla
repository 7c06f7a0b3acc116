--------------------------- MODULE MCSourceManager ---------------------------
(* SourceManager with one source and two requests.                           *)
EXTENDS SourceManagerInTurn, TLC

CONSTANTS camera, alice, bob

OneSource == {camera}
TwoRequests == {alice, bob}

=============================================================================
