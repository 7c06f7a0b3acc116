---------------------------- MODULE CoreTopology ----------------------------
(***************************************************************************)
(* Who is authoritative for a Space: the Cores of one household, each with *)
(* its own database (the `space` row of space_store.py and the `cores`     *)
(* table of core_registry.py), and the discovery pass that asks every      *)
(* paired peer what it believes (app.py, _observe_peer_cores).             *)
(*                                                                         *)
(* A Core is named by the node that runs it.  The HTTP handlers run on the *)
(* event loop and never interleave with one another; the discovery pass    *)
(* runs in a worker thread (asyncio.to_thread), so a handler of the same   *)
(* Core may run between any two of its steps, and the answers it works on  *)
(* are as old as the network made them.                                    *)
(***************************************************************************)
EXTENDS Naturals, FiniteSets

CONSTANTS
    Core,       \* the machines
    IdRank,     \* Core -> Nat: the order of the core_id strings
    Peers,      \* Core -> SUBSET Core: the unrevoked peers in a Core's PeerStore
    MaxEpoch,   \* bound: no Core's Space row goes past this epoch
    MaxCrashes  \* bound: process crashes in one behaviour

ASSUME CoreAssumption ==
    /\ IdRank \in [Core -> Nat]
    /\ \A a, b \in Core : a # b => IdRank[a] # IdRank[b]
    /\ Peers \in [Core -> SUBSET Core]
    /\ \A c \in Core : c \notin Peers[c]
    /\ MaxEpoch \in Nat
    /\ MaxCrashes \in Nat

VARIABLES
    up,         \* up[c]: c's process is running
    space,      \* space[c]: the epoch of c's Space row, 0 while it has none
    cores,      \* cores[c][d]: the row for d in c's `cores` table
    pass,       \* pass[c]: the discovery pass of c's worker thread
    crashes,    \* crashes so far
    claimed,    \* history: every <<core, epoch>> ever made primary by its Core
    excused     \* history: c was stood down by its operator, or was promoted
                \* while its own pass was already standing it down

vars == <<up, space, cores, pass, crashes, claimed, excused>>

Status == {"primary", "standby"}
NoRow == [known |-> FALSE, status |-> "standby", epoch |-> 0]
Row == [known : BOOLEAN, status : Status, epoch : Nat]

(***************************************************************************)
(* A pass polls the peers in todo one by one.  "answered": a peer's        *)
(* core-status arrived and observe_peer has not run on it; "standing_down":*)
(* observe_peer decided to demote and demote() has not run.                *)
(***************************************************************************)
NoAnswer(c) == [core |-> c, epoch |-> 0, primary |-> FALSE]
Idle(c) == [step |-> "idle", todo |-> {}, answer |-> NoAnswer(c)]
Pass == [step : {"idle", "polling", "answered", "standing_down"},
         todo : SUBSET Core,
         answer : [core : Core, epoch : Nat, primary : BOOLEAN]]

Me(c) == cores[c][c]
IsPrimary(c) == Me(c).known /\ Me(c).status = "primary"
Serving(c) == up[c] /\ space[c] > 0

TypeOK ==
    /\ up \in [Core -> BOOLEAN]
    /\ space \in [Core -> Nat]
    /\ cores \in [Core -> [Core -> Row]]
    /\ pass \in [Core -> Pass]
    /\ crashes \in Nat
    /\ claimed \in SUBSET (Core \X Nat)
    /\ excused \in [Core -> BOOLEAN]

Init ==
    /\ up = [c \in Core |-> TRUE]
    /\ space = [c \in Core |-> 0]
    /\ cores = [c \in Core |-> [d \in Core |-> NoRow]]
    /\ pass = [c \in Core |-> Idle(c)]
    /\ crashes = 0
    /\ claimed = {}
    /\ excused = [c \in Core |-> FALSE]

-----------------------------------------------------------------------------
(* Set-up. *)

\* create-space (and adopt): the Space row at epoch 1, this machine registered,
\* and, when it takes the core function, promoted at bump_epoch() = 2.
CreateSpace(c, takesCore) ==
    /\ up[c]
    /\ \A d \in Core : space[d] = 0
    /\ MaxEpoch >= 2
    /\ space' = [space EXCEPT ![c] = IF takesCore THEN 2 ELSE 1]
    /\ cores' = [cores EXCEPT ![c][c] =
                    IF takesCore
                    THEN [known |-> TRUE, status |-> "primary", epoch |-> 2]
                    ELSE [known |-> TRUE, status |-> "standby", epoch |-> 0]]
    /\ claimed' = IF takesCore THEN claimed \cup {<<c, 2>>} ELSE claimed
    /\ UNCHANGED <<up, pass, crashes, excused>>

\* join-space: the shared space_id at a Space row of its own, whose epoch starts
\* at 1 again; registered as a standby.
JoinSpace(c) ==
    /\ up[c]
    /\ space[c] = 0
    /\ \E d \in Core : space[d] > 0
    /\ space' = [space EXCEPT ![c] = 1]
    /\ cores' = [cores EXCEPT ![c][c] =
                    [known |-> TRUE, status |-> "standby", epoch |-> 0]]
    /\ UNCHANGED <<up, pass, crashes, claimed, excused>>

-----------------------------------------------------------------------------
(* The operator's requests to Core c about the Core named d. *)

BumpEpoch(c) ==
    /\ space[c] < MaxEpoch
    /\ space' = [space EXCEPT ![c] = @ + 1]

\* CoreRegistry.promote: everyone else in the table stands down, d is primary at
\* the new epoch.
Enthroned(c, d, e) ==
    [x \in Core |->
        IF x = d THEN [known |-> TRUE, status |-> "primary", epoch |-> e]
                 ELSE [cores[c][x] EXCEPT !.status = "standby"]]

Promote(c, d) ==
    /\ Serving(c)
    /\ BumpEpoch(c)
    /\ cores[c][d].known
    /\ \A x \in Core : cores[c][x].epoch < space[c] + 1
    /\ cores' = [cores EXCEPT ![c] = Enthroned(c, d, space[c] + 1)]
    /\ claimed' = IF d = c THEN claimed \cup {<<c, space[c] + 1>>} ELSE claimed
    /\ excused' = [excused EXCEPT ![c] =
                      IF d = c THEN pass[c].step = "standing_down" ELSE TRUE]
    /\ UNCHANGED <<up, pass, crashes>>

\* The handler bumps the epoch first: a refused promotion has used one up.
PromoteRefused(c, d) ==
    /\ Serving(c)
    /\ BumpEpoch(c)
    /\ \/ ~cores[c][d].known
       \/ \E x \in Core : cores[c][x].epoch >= space[c] + 1
    /\ UNCHANGED <<up, cores, pass, crashes, claimed, excused>>

Demote(c, d) ==
    /\ Serving(c)
    /\ cores[c][d].known
    /\ cores' = [cores EXCEPT ![c][d].status = "standby"]
    /\ excused' = IF d = c THEN [excused EXCEPT ![c] = TRUE] ELSE excused
    /\ UNCHANGED <<up, space, pass, crashes, claimed>>

Forget(c, d) ==
    /\ Serving(c)
    /\ cores[c][d].known
    /\ cores[c][d].status # "primary"
    /\ cores' = [cores EXCEPT ![c][d] = NoRow]
    /\ UNCHANGED <<up, space, pass, crashes, claimed, excused>>

-----------------------------------------------------------------------------
(* The discovery pass. *)

\* What c answers to GET /api/peers/core-status; no row, or no Space, is a 503.
CoreStatus(p) == [core |-> p, epoch |-> Me(p).epoch, primary |-> IsPrimary(p)]

\* The pass with the peer just dealt with behind it.
Onward(c) == [pass[c] EXCEPT !.step = "polling", !.answer = NoAnswer(c)]

BeginPass(c) ==
    /\ up[c]
    /\ pass[c].step = "idle"
    /\ pass' = [pass EXCEPT ![c] =
                   [step |-> "polling",
                    todo |-> IF space[c] > 0 /\ Me(c).known THEN Peers[c] ELSE {},
                    answer |-> NoAnswer(c)]]
    /\ UNCHANGED <<up, space, cores, crashes, claimed, excused>>

Answer(c, p) ==
    /\ up[c]
    /\ pass[c].step = "polling" /\ p \in pass[c].todo
    /\ Serving(p) /\ Me(p).known
    /\ pass' = [pass EXCEPT ![c].step = "answered",
                            ![c].todo = @ \ {p},
                            ![c].answer = CoreStatus(p)]
    /\ UNCHANGED <<up, space, cores, crashes, claimed, excused>>

\* An unreachable peer is skipped until the next pass.
NoReply(c, p) ==
    /\ up[c]
    /\ pass[c].step = "polling" /\ p \in pass[c].todo
    /\ pass' = [pass EXCEPT ![c].todo = @ \ {p}]
    /\ UNCHANGED <<up, space, cores, crashes, claimed, excused>>

IdBelow(a, b) == IdRank[a] < IdRank[b]

\* Mutants: everyone yields at a tie; nobody does.
MustYield_AllAtTie(c, a) == IsPrimary(c) /\ a.primary /\ a.epoch >= Me(c).epoch
MustYield_NoneAtTie(c, a) == IsPrimary(c) /\ a.primary /\ a.epoch > Me(c).epoch

\* observe_peer on the answer: does the peer's claim make us stand down?
MustYield(c, a) ==
    /\ IsPrimary(c) /\ a.primary
    /\ \/ a.epoch > Me(c).epoch
       \/ a.epoch = Me(c).epoch /\ IdBelow(a.core, c)

ObservePeer(c) ==
    /\ up[c]
    /\ pass[c].step = "answered"
    /\ pass' = [pass EXCEPT ![c] =
                   IF MustYield(c, pass[c].answer) THEN [@ EXCEPT !.step = "standing_down"]
                                                   ELSE Onward(c)]
    /\ UNCHANGED <<up, space, cores, crashes, claimed, excused>>

\* observe_peer's demote(me.core_id): the lock was dropped since the decision.  A
\* row forgotten meanwhile is "unknown core", which the pass swallows.
StandDown(c) ==
    /\ up[c]
    /\ pass[c].step = "standing_down"
    /\ cores' = IF Me(c).known THEN [cores EXCEPT ![c][c].status = "standby"]
                               ELSE cores
    /\ pass' = [pass EXCEPT ![c] = Onward(c)]
    /\ UNCHANGED <<up, space, crashes, claimed, excused>>

\* The pass is over.  feed_core_topology looks for a second primary in this Core's
\* own table, which holds no row but its own (KnowsOnlyItself in the proofs).
EndPass(c) ==
    /\ up[c]
    /\ pass[c].step = "polling" /\ pass[c].todo = {}
    /\ pass' = [pass EXCEPT ![c] = Idle(c)]
    /\ UNCHANGED <<up, space, cores, crashes, claimed, excused>>

-----------------------------------------------------------------------------
(* The process dies and comes back: the databases stay, the pass does not.  *)

Crash(c) ==
    /\ up[c] /\ crashes < MaxCrashes
    /\ up' = [up EXCEPT ![c] = FALSE]
    /\ crashes' = crashes + 1
    /\ pass' = [pass EXCEPT ![c] = Idle(c)]
    /\ UNCHANGED <<space, cores, claimed, excused>>

\* A promotion cut between bump_epoch's commit and promote's.
CrashInPromote(c) ==
    /\ Serving(c) /\ crashes < MaxCrashes
    /\ BumpEpoch(c)
    /\ up' = [up EXCEPT ![c] = FALSE]
    /\ crashes' = crashes + 1
    /\ pass' = [pass EXCEPT ![c] = Idle(c)]
    /\ UNCHANGED <<cores, claimed, excused>>

\* Mutant: registering at start-up resumes the last leadership.
Restart_Resumes(c) ==
    /\ ~up[c]
    /\ up' = [up EXCEPT ![c] = TRUE]
    /\ cores' = [cores EXCEPT ![c][c].status =
                    IF Me(c).epoch > 0 THEN "primary" ELSE "standby"]
    /\ UNCHANGED <<space, pass, crashes, claimed, excused>>

Restart(c) ==
    /\ ~up[c]
    /\ up' = [up EXCEPT ![c] = TRUE]
    /\ UNCHANGED <<space, cores, pass, crashes, claimed, excused>>

-----------------------------------------------------------------------------
Operator(c) ==
    \/ \E takesCore \in BOOLEAN : CreateSpace(c, takesCore)
    \/ JoinSpace(c)
    \/ \E d \in Core : Promote(c, d) \/ PromoteRefused(c, d)
                       \/ Demote(c, d) \/ Forget(c, d)

DiscoveryPass(c) ==
    \/ BeginPass(c)
    \/ \E p \in Core : Answer(c, p) \/ NoReply(c, p)
    \/ ObservePeer(c) \/ StandDown(c) \/ EndPass(c)

Failure(c) == Crash(c) \/ CrashInPromote(c) \/ Restart(c)

Next == \E c \in Core : Operator(c) \/ DiscoveryPass(c) \/ Failure(c)

Spec == Init /\ [][Next]_vars

(***************************************************************************)
(* The discovery loop runs a pass every minute for as long as the process  *)
(* lives, a crashed service is started again, and a peer that can be       *)
(* reached time and again does answer some time.                           *)
(***************************************************************************)
Fairness ==
    \A c \in Core :
        /\ WF_vars(BeginPass(c)) /\ WF_vars(EndPass(c))
        /\ WF_vars(ObservePeer(c)) /\ WF_vars(StandDown(c))
        /\ WF_vars(\E p \in Core : Answer(c, p) \/ NoReply(c, p))
        /\ \A p \in Core : SF_vars(Answer(c, p))
        /\ WF_vars(Restart(c))

FairSpec == Spec /\ Fairness

-----------------------------------------------------------------------------
(* Properties. *)

Beats(a, b) == a[2] > b[2] \/ (a[2] = b[2] /\ IdBelow(a[1], b[1]))
Strongest(k) == k \in claimed /\ \A j \in claimed : j # k => Beats(k, j)

\* "The primary is the Core named by the HIGHEST epoch": of every claim ever made
\* in the Space, the strongest (highest epoch, then lowest core_id) is upheld.  No
\* answer, however old, no lost reply and no crash makes that Core stand down;
\* only its operator does, or a promotion that lands while its own pass is between
\* deciding to stand down and doing so.
StrongestStands ==
    \A k \in claimed :
        Strongest(k) /\ ~excused[k[1]] => IsPrimary(k[1]) /\ Me(k[1]).epoch = k[2]

\* A Core becomes primary only at an epoch above every one it has ever been
\* primary at: no restart, re-registration, refused promotion or forgotten row
\* replays a promotion (register's and promote's doc comments).
NeverReplays ==
    [][\A c \in Core : IsPrimary(c)' /\ Me(c)' # Me(c) =>
          \A k \in claimed : k[1] = c => k[2] < Me(c)'.epoch]_vars

\* Once the operators stop promoting (MaxEpoch), Cores that are paired with each
\* other end up with at most one of them acting as primary, for good.
OneVoice == <>[](\A a, b \in Core : IsPrimary(a) /\ IsPrimary(b) => a = b)

\* bump_epoch's comment: the epochs of a Space are "monotonic and never reused".
EpochNeverReused == \A j, k \in claimed : j[2] = k[2] => j[1] = k[1]

\* observe_peer's comment on a lower peer epoch: "the peer is stale; it will yield
\* to us" - a Core never stands down for a peer whose epoch is below its own.
NeverYieldsToStale ==
    [][\A c \in Core : StandDown(c) /\ IsPrimary(c) =>
          pass[c].answer.epoch >= Me(c).epoch]_vars

=============================================================================
