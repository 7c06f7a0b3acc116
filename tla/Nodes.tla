-------------------------------- MODULE Nodes --------------------------------
(***************************************************************************)
(* Sensor nodes: the Core's registry (nodes.py, api_nodes.py) and one      *)
(* board that runs the reference firmware (firmware/wavr_node), with the   *)
(* network between them.                                                   *)
(*                                                                         *)
(* Everything the Core keeps against a replay is a number the board has to *)
(* keep ahead of: `press` for the button and `seq` for telemetry.  The     *)
(* Core writes its side at once; the board writes the sequence number to   *)
(* flash only now and then and jumps ahead when it boots.  The board waits *)
(* for each answer and may stop waiting; the request it gave up on can     *)
(* still arrive.                                                           *)
(*                                                                         *)
(* A token is named by the row it opens: a row has one at a time.  Nodes   *)
(* that ask to join (request, claim) are other boards, known to the Core   *)
(* by their rows only; the reference firmware enrols with a code.          *)
(***************************************************************************)
EXTENDS Integers, FiniteSets

CONSTANTS
    Row,         \* node ids
    Code,        \* enrolment codes
    None,
    Every,       \* kSeqCheckpointEvery
    Margin,      \* kSeqBootMargin
    MaxPending,  \* MAX_PENDING_NODES
    MaxPress,    \* bound: presses of one board between two factory resets
    MaxSeq,      \* bound: sequence numbers
    MaxFaults    \* bound: power cuts, restarts, answers lost, replays

\* 20 and 1000 in the firmware, 50 rows in the Core.
ASSUME NodesAssumption ==
    /\ Every \in Nat \ {0} /\ Margin \in Nat /\ Every <= Margin + 1
    /\ MaxPending \in Nat \ {0}
    /\ MaxPress \in Nat /\ MaxSeq \in Nat /\ MaxFaults \in Nat
    /\ None \notin Row \cup Code
    /\ Row \cap {"none", "refused", "ok", "sleep"} = {}

VARIABLES
    row,      \* the nodes table
    enabled,  \* history: times a row went from disabled to active
    issued,   \* NodeStore._issued: approved rows whose token waits
    codes,    \* NodeEnroller._codes
    nvs,      \* the board's flash
    ram,      \* telemetrySeq, seqSinceCheckpoint, sensing
    mode,     \* "off", in the "portal", in the "enrol" call, in the "loop"
    call,     \* the request the board waits on
    answer,   \* what the Core answered it
    air,      \* requests that may still reach the Core
    faults

core == <<row, enabled, issued, codes>>
board == <<nvs, ram, mode>>
net == <<call, answer, air>>
vars == <<core, board, net, faults>>

Enrolment == [kind : {"enrol"}, by : Code, n : {0}]
Report == [kind : {"telemetry", "heartbeat", "reactivate"}, by : Row, n : Nat]
Request == Enrolment \cup Report
Answer == {"none", "refused", "ok", "sleep"} \cup Row

Entry == [state : {"absent", "pending", "active", "disabled", "revoked", "gone"},
          key : BOOLEAN, asked : BOOLEAN, press : Nat, seq : Nat]
Flash == [token : Row \cup {None}, code : Code \cup {None}, press : Nat, seqhi : Nat]
Memory == [seq : Nat, since : Nat, sensing : BOOLEAN]

TypeOK ==
    /\ row \in [Row -> Entry] /\ enabled \in [Row -> Nat]
    /\ issued \subseteq Row /\ codes \subseteq Code
    /\ nvs \in Flash /\ ram \in Memory
    /\ mode \in {"off", "portal", "enrol", "loop"}
    /\ call \in Request \cup {None} /\ answer \in Answer
    /\ air \subseteq Request /\ faults \in Nat

Factory == [token |-> None, code |-> None, press |-> 0, seqhi |-> 0]
Cold == [seq |-> 0, since |-> 0, sensing |-> TRUE]

Init ==
    /\ row = [r \in Row |-> [state |-> "absent", key |-> FALSE, asked |-> FALSE,
                             press |-> 0, seq |-> 0]]
    /\ enabled = [r \in Row |-> 0]
    /\ issued = {} /\ codes = {}
    /\ nvs = Factory /\ ram = Cold /\ mode = "off"
    /\ call = None /\ answer = "none" /\ air = {}
    /\ faults = 0

States(S) == {r \in Row : row[r].state \in S}
Known == States({"pending", "active", "disabled", "revoked"})

(***************************************************************************)
(* The operator, at the trusted screen.                                    *)
(***************************************************************************)
\* mint_code: eight random digits, never those of a request on its way.
Mint(c) ==
    /\ c \notin codes /\ nvs.code # c /\ \A m \in air : m.by # c
    /\ codes' = codes \cup {c}
    /\ UNCHANGED <<row, enabled, issued, board, net, faults>>

Expire(c) ==
    /\ c \in codes
    /\ codes' = codes \ {c}
    /\ UNCHANGED <<row, enabled, issued, board, net, faults>>

Disable(r) ==
    /\ r \in Known /\ row[r].state # "revoked"
    /\ row' = [row EXCEPT ![r].state = "disabled"]
    /\ UNCHANGED <<enabled, issued, codes, board, net, faults>>

\* revoke clears the token and leaves the row's request_id alone.
Revoke(r) ==
    /\ r \in Known
    /\ row' = [row EXCEPT ![r] = [@ EXCEPT !.state = "revoked", !.key = FALSE]]
    /\ UNCHANGED <<enabled, issued, codes, board, net, faults>>

Approve(r) ==
    /\ row[r].state = "pending"
    /\ row' = [row EXCEPT ![r] = [@ EXCEPT !.state = "active", !.key = TRUE]]
    /\ issued' = IF row[r].asked THEN issued \cup {r} ELSE issued
    /\ UNCHANGED <<enabled, codes, board, net, faults>>

Deny(r) ==
    /\ row[r].state = "pending"
    /\ row' = [row EXCEPT ![r] = [@ EXCEPT !.state = "gone", !.asked = FALSE]]
    /\ UNCHANGED <<enabled, issued, codes, board, net, faults>>

Operator ==
    \/ \E c \in Code : Mint(c) \/ Expire(c)
    \/ \E r \in Row : Disable(r) \/ Revoke(r) \/ Approve(r) \/ Deny(r)

(***************************************************************************)
(* A board that asks to join.                                              *)
(***************************************************************************)
\* A row is pending from the moment it was asked for, or again once its
\* token is lost; either way its age is that of the request, so any of them
\* may be past PENDING_TTL_SECONDS.
Pruned(gone) ==
    [r \in Row |-> IF r \in gone
                   THEN [row[r] EXCEPT !.state = "gone", !.asked = FALSE] ELSE row[r]]

RequestJoin(r) ==
    /\ row[r].state = "absent"
    /\ \E gone \in SUBSET States({"pending"}) :
          /\ Cardinality(States({"pending"}) \ gone) < MaxPending
          /\ row' = [Pruned(gone) EXCEPT ![r] = [@ EXCEPT !.state = "pending", !.asked = TRUE]]
    /\ UNCHANGED <<enabled, issued, codes, board, net, faults>>

\* claim: a held token is handed over and the request forgotten; an approved
\* row whose token is gone returns to the queue.
Claim(r) ==
    /\ row[r].asked /\ row[r].state # "pending"
    /\ issued' = issued \ {r}
    /\ row' = IF r \in issued
              THEN [row EXCEPT ![r].asked = FALSE]
              ELSE [row EXCEPT ![r] = [@ EXCEPT !.state = "pending", !.key = FALSE]]
    /\ UNCHANGED <<enabled, codes, board, net, faults>>

\* CLAIM_PICKUP_SECONDS have passed.
Lapse(r) ==
    /\ r \in issued
    /\ issued' = issued \ {r}
    /\ UNCHANGED <<row, enabled, codes, board, net, faults>>

Joiner == \E r \in Row : RequestJoin(r) \/ Claim(r) \/ Lapse(r)

(***************************************************************************)
(* The Core's routes for nodes.  Each handler runs without an await up to  *)
(* its answer (telemetry awaits fusion last).                              *)
(***************************************************************************)
Fault == faults < MaxFaults /\ faults' = faults + 1

\* A request is served once, unless the network replays it.
Taken(m) ==
    \/ air' = air \ {m} /\ UNCHANGED faults
    \/ air' = air /\ Fault

\* The board hears the answer if it still waits.
Answered(m, a) ==
    /\ answer' = IF call = m /\ answer = "none" THEN a ELSE answer
    /\ UNCHANGED call

\* get_by_token
Admitted(r) == row[r].key /\ row[r].state # "revoked"

\* redeem: the code is spent by the attempt, whatever becomes of the answer.
EnrolServed(m) ==
    /\ m.kind = "enrol" /\ Taken(m)
    /\ \/ /\ m.by \in codes
          /\ codes' = codes \ {m.by}
          /\ \E r \in Row :
                /\ row[r].state = "absent"
                /\ row' = [row EXCEPT ![r] = [@ EXCEPT !.state = "active", !.key = TRUE]]
                /\ Answered(m, r)
       \/ /\ m.by \notin codes
          /\ Answered(m, "refused")
          /\ UNCHANGED <<row, codes>>
    /\ UNCHANGED <<enabled, issued, board>>

\* telemetry and record_seq: 403, 423, 409 or 200; the board reads none of them.
TelemetryServed(m) ==
    /\ m.kind = "telemetry" /\ Taken(m) /\ Answered(m, "ok")
    /\ row' = IF Admitted(m.by) /\ row[m.by].state = "active" /\ m.n > row[m.by].seq
              THEN [row EXCEPT ![m.by].seq = m.n] ELSE row
    /\ UNCHANGED <<enabled, issued, codes, board>>

Command_Ok(r) == "ok"
Command(r) == IF row[r].state = "active" THEN "ok" ELSE "sleep"

HeartbeatServed(m) ==
    /\ m.kind = "heartbeat" /\ Taken(m)
    /\ Answered(m, IF Admitted(m.by) THEN Command(m.by) ELSE "refused")
    /\ UNCHANGED <<core, board>>

\* reactivate's test of the count.
Fresh_NotOlder(r, n) == n >= row[r].press
Fresh(r, n) == n > row[r].press

\* The high-water mark advances whatever the state; only a disabled row wakes.
Wakes(r) == row[r].state = "disabled"
Noted(r, n) ==
    [row[r] EXCEPT !.press = n, !.state = IF Wakes(r) THEN "active" ELSE row[r].state]

\* Twenty attempts in a minute are refused before this: a call refused so is
\* one that never arrived.
ReactivateServed(m) ==
    LET r == m.by
    IN /\ m.kind = "reactivate" /\ Taken(m) /\ Answered(m, "ok")
       /\ \/ /\ Admitted(r) /\ Fresh(r, m.n)
             /\ row' = [row EXCEPT ![r] = Noted(r, m.n)]
             /\ enabled' = [enabled EXCEPT ![r] = IF Wakes(r) THEN @ + 1 ELSE @]
          \/ /\ ~(Admitted(r) /\ Fresh(r, m.n))
             /\ UNCHANGED <<row, enabled>>
       /\ UNCHANGED <<issued, codes, board>>

Serve ==
    \E m \in air : \/ EnrolServed(m) \/ TelemetryServed(m)
                   \/ HeartbeatServed(m) \/ ReactivateServed(m)

\* What waits in memory is lost, the connections with it.
Restart ==
    /\ Fault
    /\ issued' = {} /\ codes' = {} /\ air' = {} /\ answer' = "none"
    /\ UNCHANGED <<row, enabled, board, call>>

(***************************************************************************)
(* The board.                                                              *)
(***************************************************************************)
Sends(m) == call' = m /\ air' = air \cup {m} /\ answer' = "none"
Silent == UNCHANGED net

\* A heartbeat nobody waits for changes nothing at the Core.
HangsUp ==
    /\ call' = None /\ answer' = "none"
    /\ air' = {m \in air : m.kind # "heartbeat"}

\* loadSeqCheckpoint: what the flash holds after the jump.
Published_Late(seq) == nvs.seqhi
Published(seq) == seq

\* setup: the portal unless provisioned; else the jump, then the loop with a
\* token and the enrolment call without.
Boot ==
    /\ mode = "off"
    /\ \/ /\ nvs.token = None /\ nvs.code = None
          /\ mode' = "portal"
          /\ Silent /\ UNCHANGED <<nvs, ram>>
       \/ /\ nvs.token # None \/ nvs.code # None
          /\ nvs.seqhi + Margin <= MaxSeq
          /\ LET seq == nvs.seqhi + Margin IN
                /\ ram' = [Cold EXCEPT !.seq = seq]
                /\ nvs' = [nvs EXCEPT !.seqhi = Published(seq)]
          /\ \/ /\ nvs.token # None /\ mode' = "loop" /\ Silent
             \/ /\ nvs.token = None /\ mode' = "enrol"
                /\ Sends([kind |-> "enrol", by |-> nvs.code, n |-> 0])
    /\ UNCHANGED <<core, faults>>

\* handleSave: the operator types the code the screen shows.
Provision(c) ==
    /\ mode = "portal" /\ c \in codes
    /\ nvs' = [nvs EXCEPT !.code = c]
    /\ mode' = "off"
    /\ UNCHANGED <<core, ram, net, faults>>

Idle == mode = "loop" /\ call = None

\* The count is in flash before the request is sent.
Kept_InMemory(n) == nvs.press
Kept(n) == n

Press ==
    /\ Idle /\ nvs.press < MaxPress
    /\ nvs' = [nvs EXCEPT !.press = Kept(@ + 1)]
    /\ Sends([kind |-> "reactivate", by |-> nvs.token, n |-> nvs.press + 1])
    /\ UNCHANGED <<core, ram, mode, faults>>

SendHeartbeat ==
    /\ Idle
    /\ Sends([kind |-> "heartbeat", by |-> nvs.token, n |-> 0])
    /\ UNCHANGED <<core, board, faults>>

SendTelemetry ==
    /\ Idle /\ ram.sensing /\ ram.seq < MaxSeq
    /\ LET due == ram.since + 1 >= Every IN
          /\ ram' = [ram EXCEPT !.seq = @ + 1, !.since = IF due THEN 0 ELSE @ + 1]
          /\ nvs' = [nvs EXCEPT !.seqhi = IF due THEN ram.seq + 1 ELSE @]
    /\ Sends([kind |-> "telemetry", by |-> nvs.token, n |-> ram.seq + 1])
    /\ UNCHANGED <<core, mode, faults>>

\* factoryReset: the flash is wiped and the board restarts.  The long hold is
\* polled in the loop only.
Wiped == nvs' = Factory /\ mode' = "off"

HoldButton ==
    /\ Idle
    /\ Wiped
    /\ UNCHANGED <<core, ram, net, faults>>

\* A restart forgets the sequence number in memory.
GoesDown == mode' = "off" /\ ram' = Cold

\* begin's end: the token is saved and the code dropped, or the board restarts.
HearEnrol ==
    /\ \/ /\ answer \in Row
          /\ nvs' = [nvs EXCEPT !.token = answer, !.code = None]
          /\ mode' = "loop" /\ UNCHANGED ram
       \/ /\ answer = "refused"
          /\ GoesDown /\ UNCHANGED nvs

\* sendHeartbeat: a refusal is final, 401 and 403 only.
Final_Never(a) == FALSE
Final(a) == a = "refused"

HearHeartbeat ==
    \/ /\ answer \in {"ok", "sleep"}
       /\ ram' = [ram EXCEPT !.sensing = answer = "ok"]
       /\ UNCHANGED <<nvs, mode>>
    \/ /\ Final(answer)
       /\ Wiped /\ UNCHANGED ram
    \/ /\ answer = "refused" /\ ~Final(answer)
       /\ UNCHANGED board

Hear ==
    /\ call # None /\ answer # "none"
    /\ \/ call.kind = "enrol" /\ HearEnrol
       \/ call.kind = "heartbeat" /\ HearHeartbeat
       \/ call.kind \in {"telemetry", "reactivate"} /\ UNCHANGED board
    /\ HangsUp
    /\ UNCHANGED <<core, faults>>

\* kUnreachable, or another boot.
NoAnswer ==
    /\ HangsUp
    /\ \/ mode = "enrol" /\ GoesDown /\ UNCHANGED nvs
       \/ mode = "loop" /\ UNCHANGED board
    /\ UNCHANGED core

TimesOut == call # None /\ Fault /\ NoAnswer

\* The request went down with the Core.
Disconnected ==
    /\ call # None /\ call \notin air /\ answer = "none"
    /\ NoAnswer /\ UNCHANGED faults

\* The power goes and comes back: what the flash holds is all that is left.
PowerCut ==
    /\ mode \in {"enrol", "loop"} /\ Fault
    /\ GoesDown /\ HangsUp
    /\ UNCHANGED <<core, nvs>>

Board ==
    \/ Boot \/ Press \/ SendHeartbeat \/ SendTelemetry \/ HoldButton
    \/ Hear \/ TimesOut \/ Disconnected \/ PowerCut
    \/ \E c \in Code : Provision(c)

Next == Operator \/ Joiner \/ Serve \/ Restart \/ Board

Spec == Init /\ [][Next]_vars

\* The firmware's loop comes round, its timers fire, and the Core serves what
\* reaches it.  Nothing is assumed of people or of the network.
Fairness ==
    /\ WF_vars(Serve) /\ WF_vars(Boot) /\ WF_vars(SendHeartbeat)
    /\ WF_vars(Hear) /\ WF_vars(Disconnected)

FairSpec == Spec /\ Fairness

(***************************************************************************)
(* Properties                                                              *)
(***************************************************************************)
\* Telemetry never stops for good: however the power went, the next frame of
\* a running board is newer than any the Core took from it (the checkpoint
\* and the jump of wavr_client.cpp against record_seq).
TelemetryIsFresh ==
    mode = "loop" => row[nvs.token].seq <= ram.seq

\* The button works at the first press: the board's count is never behind the
\* Core's, so the next press passes reactivate's test (savePressCount).
ButtonCounts ==
    nvs.token # None => row[nvs.token].press <= nvs.press

\* One press wakes a node once: a replayed or late reactivation cannot undo a
\* second disable, since each waking consumed a count of its own.
OnePressOneWaking == \A r \in Row : enabled[r] <= row[r].press

\* Remote off reaches the hardware and settles there: a board whose row stays
\* disabled is at last silent for good (heartbeat, sendHeartbeat), however the
\* power went, as often as it is cut within MaxFaults.
Own(state) == nvs.token # None /\ row[nvs.token].state = state
Sensing == mode = "loop" /\ ram.sensing
OffReachesTheBoard == <>[]Own("disabled") => <>[]~Sensing

\* Stated and not held: a board that heard "sleep" stays dark until a press or
\* a revocation (the comment of main.cpp on sensing).  `sensing` is not in
\* flash: a board that lost power boots with it on, and senses and reports
\* until the first heartbeat of that life is answered.
StaysDark ==
    [][mode = "loop" /\ ~ram.sensing /\ Own("disabled")
          => ~ram'.sensing \/ answer = "ok"]_vars

\* A board whose row is revoked wipes itself (main.cpp, kRevoked), unless the
\* bound on sequence numbers keeps it from booting.
RevocationReachesTheBoard ==
    Own("revoked") ~> ~Own("revoked") \/ nvs.seqhi + Margin > MaxSeq

\* Revocation is terminal (NodeStore.revoke, STATE_REVOKED).
RevokedIsTerminal ==
    [][\A r \in Row : row[r].state = "revoked" => row'[r].state = "revoked"]_vars
=============================================================================
