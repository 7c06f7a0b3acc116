------------------------- MODULE SourceManagerInTurn -------------------------
(***************************************************************************)
(* SourceManager with a history variable: whether a request has ever been  *)
(* served while another one was in flight.  What the manager promises for  *)
(* requests made one after another is stated of the behaviours in which    *)
(* none was.                                                               *)
(***************************************************************************)
EXTENDS SourceManager

VARIABLE raced

turnVars == <<vars, raced>>

TurnInit == Init /\ raced = FALSE

Progress ==
    \/ \E h \in Handler : Serve(h)
    \/ \E t \in Task : First(t) \/ Wake(t) \/ Closed(t) \/ Cancel(t) \/ Source(t)

TurnNext ==
    \/ Request /\ raced' = (raced \/ ~Idle)
    \/ Progress /\ UNCHANGED raced

TurnSpec == TurnInit /\ [][TurnNext]_turnVars
FairTurnSpec == TurnSpec /\ Fairness

-----------------------------------------------------------------------------
(* No source is open twice as long as no request overtakes another: a second *)
(* reader of a camera or a serial port starts only after the first, told to  *)
(* stop, has finished its clean-up (_kill waits before restart spawns).      *)
OneInstanceInTurn == ~raced => AtMostOneInstance

(* With no request in flight, a source that is switched off, or gone from    *)
(* the roster, or whose manager is stopped, is not running.                  *)
OffIsDeadInTurn == ~raced => OffIsDead

(* The supervisor says "running" of a source exactly while its generator     *)
(* runs, whatever stops, restarts, failures and clean ends came before.      *)
HonestInTurn == ~raced => HealthIsHonest

=============================================================================
