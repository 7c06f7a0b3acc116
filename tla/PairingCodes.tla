---------------------------- MODULE PairingCodes ----------------------------
(***************************************************************************)
(* Pairing with a code: PairingManager (pairing.py) and the routes that use *)
(* it (api_devices.py, app.py).  Codes, tickets and failed attempts live in *)
(* memory and die with the process; the rows they lead to are Devices'.     *)
(* LiveSockets extends this module with the sockets that tickets open.      *)
(***************************************************************************)
EXTENDS Devices

CONSTANTS
    Code, Ticket,   \* values in circulation (random; a spent one may be drawn again)
    Ip,             \* hosts that try codes
    MaxFailed,      \* MAX_FAILED_ATTEMPTS
    Budgets         \* bound: what is ever issued, and the hosts that try wrong codes, stay within one

Invitation == {"permanent", "guest", "ticket"}

ASSUME PairingAssumption ==
    /\ MaxFailed \in Nat \ {0}
    /\ Budgets \subseteq [Invitation \cup {"hosts"} -> Nat]
    /\ "none" \notin Id

VARIABLES
    code,      \* _codes: what a code leads to; "stale" is expired, not purged yet
    ticket,    \* _tickets
    failed,    \* _failed: recent failures in each bucket
    wrong,     \* history: hosts that ever tried a wrong code
    issued     \* history: codes issued of each kind, and tickets

memory == <<code, ticket, failed>>
history == <<wrong, issued>>
codeVars == <<device, grants, untidy, code, ticket, failed, wrong, issued>>

Stage == {"none", "live", "stale"}
NoCode == [stage |-> "none", temp |-> FALSE, role |-> "user"]
NoTicket == [stage |-> "none", device |-> "none"]

CodesTypeOK ==
    /\ DevicesTypeOK
    /\ code \in [Code -> [stage : Stage, temp : BOOLEAN, role : Role]]
    /\ ticket \in [Ticket -> [stage : Stage, device : Id \cup {"none"}]]
    /\ \A t \in Ticket : ticket[t].stage # "none" => ticket[t].device \in Id
    /\ failed \in [Ip -> 0 .. MaxFailed]
    /\ wrong \in SUBSET Ip
    /\ issued \in [Invitation -> Nat]

CodesInit ==
    /\ DevicesInit
    /\ code = [c \in Code |-> NoCode]
    /\ ticket = [t \in Ticket |-> NoTicket]
    /\ failed = [i \in Ip |-> 0]
    /\ wrong = {}
    /\ issued = [k \in Invitation |-> 0]

-----------------------------------------------------------------------------
(* Codes. *)

\* _purge_expired, run by every mint of a code or a ticket.
Purged(f, empty) == [x \in DOMAIN f |-> IF f[x].stage = "stale" THEN empty ELSE f[x]]

Affordable(spent, hosts) ==
    \E budget \in Budgets :
        /\ \A kind \in Invitation : spent[kind] <= budget[kind]
        /\ Cardinality(hosts) <= budget["hosts"]
CountIssued(kind) ==
    /\ issued' = [issued EXCEPT ![kind] = @ + 1]
    /\ Affordable(issued', wrong)

\* mint_code, and mint_guest_code for a visitor.
MintCode(c, temp, role) ==
    /\ Mintable(temp, role)
    /\ code[c].stage # "live"
    /\ CountIssued(IF temp THEN "guest" ELSE "permanent")
    /\ code' = [Purged(code, NoCode) EXCEPT ![c] = [stage |-> "live", temp |-> temp, role |-> role]]
    /\ ticket' = Purged(ticket, NoTicket)
    /\ UNCHANGED <<devVars, failed, wrong>>

CodeExpires(c) ==
    /\ code[c].stage = "live"
    /\ code' = [code EXCEPT ![c].stage = "stale"]
    /\ UNCHANGED <<devVars, ticket, failed, history>>

Shared == CHOOSE i \in Ip : TRUE
Bucket_Shared(ip) == Shared   \* mutant: one list of failures for everybody
Bucket(ip) == ip
\* Over the cap redeem refuses without a look at the code, and records nothing.
Throttled(ip) == failed[Bucket(ip)] >= MaxFailed

\* redeem of a code that is unknown, spent or expired.
RedeemWrong(c, ip) ==
    /\ ~Throttled(ip)
    /\ code[c].stage # "live"
    /\ Affordable(issued, wrong \cup {ip})
    /\ code' = [code EXCEPT ![c] = NoCode]
    /\ failed' = [failed EXCEPT ![Bucket(ip)] = @ + 1]
    /\ wrong' = wrong \cup {ip}
    /\ UNCHANGED <<devVars, ticket, issued>>

\* redeem of the right code: it is spent, then the row is minted, temporary
\* exactly when the code was a guest's.
Redeem_KeepsCode(c, ip, d, k) ==   \* mutant: read instead of popped
    /\ ~Throttled(ip)
    /\ code[c].stage = "live"
    /\ Mint(d, k, code[c].temp, code[c].role) \/ MintCut(d, k, code[c].temp, code[c].role)
    /\ UNCHANGED <<code, ticket, failed, history>>
Redeem_NoDeadline(c, ip, d, k) ==   \* mutant: a guest's deadline is not passed on
    /\ ~Throttled(ip)
    /\ code[c].stage = "live"
    /\ Mint(d, k, FALSE, code[c].role) \/ MintCut(d, k, FALSE, code[c].role)
    /\ code' = [code EXCEPT ![c] = NoCode]
    /\ UNCHANGED <<ticket, failed, history>>
Redeem(c, ip, d, k) ==
    /\ ~Throttled(ip)
    /\ code[c].stage = "live"
    /\ Mint(d, k, code[c].temp, code[c].role) \/ MintCut(d, k, code[c].temp, code[c].role)
    /\ code' = [code EXCEPT ![c] = NoCode]
    /\ UNCHANGED <<ticket, failed, history>>

\* A failure falls out of the window; _purge_failed forgets it.
FailureAges(ip) ==
    /\ failed[ip] > 0
    /\ failed' = [failed EXCEPT ![ip] = @ - 1]
    /\ UNCHANGED <<devVars, code, ticket, history>>

-----------------------------------------------------------------------------
(* Tickets for a live socket. *)

\* A valid credential whose role holds presence:read.
Entitled(d) == Valid(d) /\ device[d].role \in {"central", "user"}

MintTicket(t, d) ==
    /\ Entitled(d)
    /\ ticket[t].stage # "live"
    /\ CountIssued("ticket")
    /\ code' = Purged(code, NoCode)
    /\ ticket' = [Purged(ticket, NoTicket) EXCEPT ![t] = [stage |-> "live", device |-> d]]
    /\ UNCHANGED <<devVars, failed, wrong>>

TicketExpires(t) ==
    /\ ticket[t].stage = "live"
    /\ ticket' = [ticket EXCEPT ![t].stage = "stale"]
    /\ UNCHANGED <<devVars, code, failed, history>>

\* redeem_ticket: the ticket is spent, whatever comes of it.
RedeemTicket(t) ==
    /\ ticket[t].stage # "none"
    /\ ticket' = [ticket EXCEPT ![t] = NoTicket]
    /\ UNCHANGED <<devVars, code, failed, history>>

\* The process dies and starts again.
Restart ==
    /\ code' = [c \in Code |-> NoCode]
    /\ ticket' = [t \in Ticket |-> NoTicket]
    /\ failed' = [i \in Ip |-> 0]
    /\ UNCHANGED <<devVars, history>>

-----------------------------------------------------------------------------
\* All that happens to codes and tickets, but for a ticket's use and a restart.
CodesAtWork ==
    \/ \E c \in Code, temp \in BOOLEAN, role \in Role : MintCode(c, temp, role)
    \/ \E c \in Code : CodeExpires(c)
    \/ \E c \in Code, ip \in Ip : RedeemWrong(c, ip)
    \/ \E c \in Code, ip \in Ip, d \in Id, k \in Key : Redeem(c, ip, d, k)
    \/ \E ip \in Ip : FailureAges(ip)
    \/ \E t \in Ticket, d \in Id : MintTicket(t, d)
    \/ \E t \in Ticket : TicketExpires(t)
    \/ (Administer \/ \E d \in Id : Lapse(d)) /\ UNCHANGED <<memory, history>>

CodesNext ==
    \/ CodesAtWork
    \/ \E t \in Ticket : RedeemTicket(t)
    \/ Restart

CodesSpec == CodesInit /\ [][CodesNext]_codeVars

-----------------------------------------------------------------------------
(* What must hold. *)

Rows(temp) == {d \in Id : Known(d) /\ device[d].temp = temp}

\* One invitation, one key: there are never more rows of a kind than codes of
\* that kind were issued; a code mints once, and a visitor's code mints no
\* permanent key (redeem pops the code before it mints).
OneInvitationOneKey ==
    /\ Cardinality(Rows(FALSE)) <= issued["permanent"]
    /\ Cardinality(Rows(TRUE)) <= issued["guest"]

\* A host that never tried a wrong code is never refused for the failures of
\* others (redeem's per-host bucket).
HonestHostNotThrottled == \A ip \in Ip \ wrong : ~Throttled(ip)

\* The pairing layer only does to the store what Devices allows.
ImplementsDevices == DevicesSpec

=============================================================================
