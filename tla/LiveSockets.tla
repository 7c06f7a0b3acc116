----------------------------- MODULE LiveSockets -----------------------------
(***************************************************************************)
(* The live sockets of /ws/live (app.py): _ws_authorize redeems a ticket   *)
(* and reads the row, ws.accept() is awaited, and _stream_live pumps frames*)
(* and reads the row again.  Every await is a point where the credential   *)
(* may be lost.  A socket is one handler; two handlers share nothing, and a *)
(* socket of the Core's own machine has no row and is not here.            *)
(***************************************************************************)
EXTENDS PairingCodes

CONSTANTS
    Socket,    \* handlers of /ws/live at a time
    Recheck    \* _WS_REVOKE_RECHECK_S, in ticks

ASSUME SocketAssumption == Recheck \in Nat \ {0}

VARIABLES
    socket,    \* what each handler is doing
    lost       \* history: ticks for which a credential with a ticket or socket was not Entitled

liveVars == <<device, grants, untidy, code, ticket, failed, wrong, issued, socket, lost>>

\* last_check = 0.0: no check yet, so one is due whatever the clock says.
Never == Recheck + 1
Enough == 2 * Recheck   \* bound: lost and age are counted no further
UpTo(bound, n) == IF n < bound THEN n + 1 ELSE n

\* since: ticks since last_check; waited: ticks in this wait_for; age: history,
\* ticks since _ws_authorize until the first check.
Closed == [stage |-> "closed"]
OpenSocket ==
    [stage : {"accepting", "waiting", "sending"}, device : Id,
     since : 0 .. Recheck \cup {Never}, waited : 0 .. Recheck, age : 0 .. Enough]

LiveTypeOK ==
    /\ CodesTypeOK
    /\ socket \in [Socket -> OpenSocket \cup {Closed}]
    /\ lost \in [Id -> 0 .. Enough]

LiveInit ==
    /\ CodesInit
    /\ socket = [s \in Socket |-> Closed]
    /\ lost = [d \in Id |-> 0]

Open(s) == socket[s].stage # "closed"
At(s, stage) == socket[s].stage = stage
Owner(s) == socket[s].device
Watched(d) ==
    \/ \E s \in Socket : Open(s) /\ Owner(s) = d
    \/ \E t \in Ticket : ticket[t].stage # "none" /\ ticket[t].device = d

\* Kept by every step but Tick.
LostKept == lost' = [d \in Id |-> IF Entitled(d)' \/ ~Watched(d)' THEN 0 ELSE lost[d]]

-----------------------------------------------------------------------------
(* The handler of one socket. *)

\* _ws_authorize: the ticket is spent, the row is read; refused, nothing opens.
Asked(s, t) ==
    socket' = [socket EXCEPT ![s] =
        [stage |-> "accepting", device |-> ticket[t].device, since |-> Never, waited |-> 0, age |-> 0]]
Authorize_TrustsTicket(s, t) ==   \* mutant: the row is not read again
    /\ ~Open(s)
    /\ RedeemTicket(t)
    /\ IF ticket[t].stage = "live" THEN Asked(s, t) ELSE UNCHANGED socket
    /\ LostKept
Authorize(s, t) ==
    /\ ~Open(s)
    /\ RedeemTicket(t)
    /\ IF ticket[t].stage = "live" /\ Entitled(ticket[t].device) THEN Asked(s, t) ELSE UNCHANGED socket
    /\ LostKept

Becomes(s, entry) ==
    /\ socket' = [socket EXCEPT ![s] = entry]
    /\ UNCHANGED codeVars
    /\ LostKept

\* ws.accept() returns; the handler subscribes and the loop begins to wait.
Accepted(s) ==
    /\ At(s, "accepting")
    /\ Becomes(s, [socket[s] EXCEPT !.stage = "waiting"])

\* q.get() returns before the time-out; the frame begins to go out.
NextFrame(s) ==
    /\ At(s, "waiting")
    /\ Becomes(s, [socket[s] EXCEPT !.stage = "sending"])

\* The end of a round: the row is read when the last reading is old enough, and
\* a credential that is no longer entitled ends the stream.
Again(s, since) == [socket[s] EXCEPT !.stage = "waiting", !.since = since, !.waited = 0, !.age = 0]
EndOfRound_Restarts(s) ==   \* mutant: last_check is set in every round
    IF socket[s].since < Recheck THEN Again(s, 0)
    ELSE IF Entitled(Owner(s)) THEN Again(s, 0) ELSE Closed
EndOfRound(s) ==
    IF socket[s].since < Recheck THEN Again(s, socket[s].since)
    ELSE IF Entitled(Owner(s)) THEN Again(s, 0) ELSE Closed

\* send_json returns, however long the peer kept it.
Sent(s) ==
    /\ At(s, "sending")
    /\ Becomes(s, EndOfRound(s))

\* wait_for raises TimeoutError: no frame in Recheck ticks.
TimesOut_Parks(s) ==   \* mutant: a silent round waits again, without the check
    /\ At(s, "waiting")
    /\ socket[s].waited = Recheck
    /\ Becomes(s, Again(s, socket[s].since))
TimesOut(s) ==
    /\ At(s, "waiting")
    /\ socket[s].waited = Recheck
    /\ Becomes(s, EndOfRound(s))

\* The peer is gone; only an accept or a send notices, the loop never receives.
Disconnect(s) ==
    /\ At(s, "accepting") \/ At(s, "sending")
    /\ Becomes(s, Closed)

\* Time passes.  A wait_for is never later than its time-out.
Tick ==
    /\ \E d \in Id : Watched(d)
    /\ \A s \in Socket : At(s, "waiting") => socket[s].waited < Recheck
    /\ socket' = [s \in Socket |->
          IF Open(s)
          THEN [socket[s] EXCEPT !.since = UpTo(Recheck, @),
                                 !.age = IF socket[s].since = Never THEN UpTo(Enough, @) ELSE @,
                                 !.waited = IF At(s, "waiting") THEN @ + 1 ELSE @]
          ELSE Closed]
    /\ lost' = [d \in Id |-> IF Entitled(d) \/ ~Watched(d) THEN 0 ELSE UpTo(Enough, lost[d])]
    /\ UNCHANGED codeVars

-----------------------------------------------------------------------------
SocketStep(s) ==
    Accepted(s) \/ NextFrame(s) \/ Sent(s) \/ TimesOut(s) \/ Disconnect(s)

LiveNext ==
    \/ CodesAtWork /\ UNCHANGED socket /\ LostKept
    \/ Restart /\ socket' = [s \in Socket |-> Closed] /\ LostKept
    \/ \E s \in Socket, t \in Ticket : Authorize(s, t)
    \/ \E s \in Socket : SocketStep(s)
    \/ Tick

\* Time goes on, a time-out fires, and an accept or a send returns or raises in
\* the end.  Nothing is assumed of frames, peers or people.
LiveSpec == LiveInit /\ [][LiveNext]_liveVars
FairLiveSpec ==
    /\ LiveSpec
    /\ WF_liveVars(Tick)
    /\ \A s \in Socket : WF_liveVars(TimesOut(s)) /\ WF_liveVars(Accepted(s)) /\ WF_liveVars(Sent(s))

-----------------------------------------------------------------------------
(* What must hold. *)

Begins(s) == At(s, "waiting") /\ At(s, "sending")'

\* Frames stop: however many frames come and however long a send blocks, none
\* begins to go out to a credential that has been revoked, expired or without the
\* scope for twice the re-check interval.  Only the first of a socket may come
\* later, when the accept itself was slow, and even that never to a credential
\* that was lost before the socket was asked for (_ws_authorize, _stream_live).
FramesStop ==
    [][\A s \in Socket : Begins(s) =>
          \/ lost[Owner(s)] < 2 * Recheck
          \/ socket[s].since = Never /\ lost[Owner(s)] <= socket[s].age]_liveVars

\* The docstring's bound, "severing the stream within recheck_s" (app.py:256): no
\* frame begins once the interval is over.  It does not hold: a frame that comes
\* just before the interval is over puts the check off by a round.
StopsWithinRecheck ==
    [][\A s \in Socket : Begins(s) /\ socket[s].since # Never => lost[Owner(s)] < Recheck]_liveVars

\* The socket of a credential that was lost closes, on a hub that is silent as on
\* one that never pauses (_stream_live).
DeadStreamsEnd ==
    \A s \in Socket, d \in Id :
        (Open(s) /\ Owner(s) = d /\ ~Entitled(d)) ~> (~Open(s) \/ Entitled(d))

=============================================================================
