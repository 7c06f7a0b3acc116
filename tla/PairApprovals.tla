--------------------------- MODULE PairApprovals ---------------------------
(***************************************************************************)
(* Pairing without a code: a companion asks, shows a number, and somebody  *)
(* at the Core approves the request whose number it is                     *)
(* (PairApprovalManager in pair_requests.py, its routes in                 *)
(* api_pair_requests.py).  Requests live in memory, in the order they were *)
(* made, at most MaxPending of them; the rows they lead to are Devices'.   *)
(***************************************************************************)
EXTENDS Devices, Sequences

CONSTANTS
    Browser,      \* clients that send no device_key
    Host,           \* hosts that ask
    RequestId,    \* request ids (random, one per request)
    Number,       \* compare codes
    MaxPending,   \* MAX_PENDING
    PerIp         \* MAX_PENDING_PER_IP

Client == Phone \cup Browser
Nothing == "nothing"

ASSUME ApprovalAssumption ==
    /\ MaxPending \in Nat \ {0}
    /\ PerIp \in Nat \ {0}
    /\ Nothing \notin Id \cup RequestId \cup Number \cup Client
    /\ NoKey \notin Browser

VARIABLES
    requests,  \* _requests, oldest first
    asks,      \* the request each client polls
    screen,    \* the number each client shows
    read       \* history: whose screen was read, and whose request approved, for each row

approvalVars == <<device, grants, untidy, requests, asks, screen, read>>

Request == [id : RequestId, client : Client, ip : Host, number : Number,
            status : {"pending", "approved", "denied"},
            device : Id \cup {Nothing},
            late : BOOLEAN]    \* past its expires_at, not purged yet

Pending(r) == r.status = "pending"
\* The pending requests of a host.
Mine(s, ip) == {i \in DOMAIN s : s[i].ip = ip /\ Pending(s[i])}

\* Shapes, and the two caps: MaxPending requests in all, PerIp pending of a host.
ApprovalsTypeOK ==
    /\ DevicesTypeOK
    /\ requests \in Seq(Request)
    /\ Len(requests) <= MaxPending
    /\ \A ip \in Host : Cardinality(Mine(requests, ip)) <= PerIp
    /\ \A i \in DOMAIN requests :
          requests[i].status = "approved" <=> requests[i].device # Nothing
    /\ asks \in [Client -> RequestId \cup {Nothing}]
    /\ screen \in [Client -> Number \cup {Nothing}]
    /\ read \in [Id -> [screen : Client \cup {Nothing}, request : Client \cup {Nothing}]]

ApprovalsInit ==
    /\ DevicesInit
    /\ requests = <<>>
    /\ asks = [x \in Client |-> Nothing]
    /\ screen = [x \in Client |-> Nothing]
    /\ read = [d \in Id |-> [screen |-> Nothing, request |-> Nothing]]

KeyOf(x) == IF x \in Phone THEN x ELSE NoKey

-----------------------------------------------------------------------------
(* What create, poll, list_pending and approve do to the map first. *)

\* The n-th smallest of a set of numbers.
Nth(S, n) == CHOOSE i \in S : Cardinality({j \in S : j <= i}) = n
\* What s holds at the positions in S, in order.
Only(s, S) == [n \in 1 .. Cardinality(S) |-> s[Nth(S, n)]]

PurgedRequests_Decided(s) ==   \* mutant: only decided requests run out
    Only(s, {i \in DOMAIN s : ~s[i].late \/ Pending(s[i])})
PurgedRequests(s) == Only(s, {i \in DOMAIN s : ~s[i].late})

OldestIn(s, S) == Only(s, DOMAIN s \ {CHOOSE i \in S : \A j \in S : i <= j})

\* _evict_oldest_for_ip: the host is over its share.
EvictForIp_Late(s, ip) ==   \* mutant: > for >=
    IF Cardinality(Mine(s, ip)) > PerIp THEN OldestIn(s, Mine(s, ip)) ELSE s
EvictForIp(s, ip) ==
    IF Cardinality(Mine(s, ip)) >= PerIp THEN OldestIn(s, Mine(s, ip)) ELSE s

\* _evict_oldest_global: whatever is oldest, decided or not.
EvictGlobal(s) == IF Len(s) >= MaxPending THEN Tail(s) ELSE s

\* Numbers held by pending requests; create draws until it finds another.
InUse_None(s) == {}   \* mutant: the number is drawn once
InUse(s) == {s[i].number : i \in {j \in DOMAIN s : Pending(s[j])}}

-----------------------------------------------------------------------------
(* The companion. *)

\* Two draws of six digits are taken to differ where the code does not see to
\* it: a new number is not one that some client still shows from a request that
\* is no longer pending.
StaleNumbers(s) == {screen[x] : x \in {y \in Client : \A i \in DOMAIN s : s[i].id = asks[y] => ~Pending(s[i])}}

Create(x, ip, id, number) ==
    LET room == EvictGlobal(EvictForIp(PurgedRequests(requests), ip)) IN
    /\ \A i \in DOMAIN requests : requests[i].id # id
    /\ \A y \in Client : asks[y] # id
    /\ number \notin InUse(room) \cup StaleNumbers(room)
    /\ requests' = Append(room, [id |-> id, client |-> x, ip |-> ip, number |-> number,
                                 status |-> "pending", device |-> Nothing, late |-> FALSE])
    /\ asks' = [asks EXCEPT ![x] = id]
    /\ screen' = [screen EXCEPT ![x] = number]
    /\ UNCHANGED <<devVars, read>>

\* poll, and the answer arrives: everything but "pending" ends the wait.
Poll(x) ==
    LET left == PurgedRequests(requests)
        waits == \E i \in DOMAIN left : left[i].id = asks[x] /\ Pending(left[i])
    IN
    /\ asks[x] # Nothing
    /\ requests' = left
    /\ IF waits THEN UNCHANGED <<asks, screen>>
       ELSE asks' = [asks EXCEPT ![x] = Nothing] /\ screen' = [screen EXCEPT ![x] = Nothing]
    /\ UNCHANGED <<devVars, read>>

-----------------------------------------------------------------------------
(* Somebody at the Core. *)

\* list_pending; also a poll whose answer is lost, and an approve that is
\* refused (unknown, decided, or the number is not the request's).
Look ==
    /\ requests' = PurgedRequests(requests)
    /\ UNCHANGED <<devVars, asks, screen, read>>

Approved(s, i, d) == [s EXCEPT ![i].status = "approved", ![i].device = d]

\* approve: the number typed is the one on the screen of client y.
Approve(i, y, d, role) ==
    LET left == PurgedRequests(requests)  r == left[i] IN
    /\ i \in DOMAIN left
    /\ Pending(r)
    /\ screen[y] = r.number
    /\ role \in {"central", "user"}
    /\ Mint(d, KeyOf(r.client), FALSE, role) \/ MintCut(d, KeyOf(r.client), FALSE, role)
    /\ requests' = Approved(left, i, d)
    /\ read' = [read EXCEPT ![d] = [screen |-> y, request |-> r.client]]
    /\ UNCHANGED <<asks, screen>>

\* deny does not purge: a request past its time can still be denied.
Deny_Any(i) ==   \* mutant: also what was decided already
    /\ i \in DOMAIN requests
    /\ requests' = [requests EXCEPT ![i].status = "denied"]
    /\ UNCHANGED <<devVars, asks, screen, read>>
Deny(i) ==
    /\ i \in DOMAIN requests
    /\ Pending(requests[i])
    /\ requests' = [requests EXCEPT ![i].status = "denied"]
    /\ UNCHANGED <<devVars, asks, screen, read>>

-----------------------------------------------------------------------------
(* Time, and the process. *)

\* expires_at passes, for the older requests first; an approval only moves it
\* later.
RunsOut(i) ==
    /\ i \in DOMAIN requests
    /\ ~requests[i].late
    /\ \A j \in 1 .. i - 1 : requests[j].status = "approved" \/ requests[j].late
    /\ requests' = [requests EXCEPT ![i].late = TRUE]
    /\ UNCHANGED <<devVars, asks, screen, read>>

ApprovalsRestart ==
    /\ requests # <<>>
    /\ requests' = <<>>
    /\ UNCHANGED <<devVars, asks, screen, read>>

ApprovalsNext ==
    \/ \E x \in Client, ip \in Host, id \in RequestId, number \in Number : Create(x, ip, id, number)
    \/ \E x \in Client : Poll(x)
    \/ Look
    \/ \E i \in 1 .. MaxPending, y \in Client, d \in Id, role \in Role : Approve(i, y, d, role)
    \/ \E i \in 1 .. MaxPending : Deny(i) \/ RunsOut(i)
    \/ ApprovalsRestart
    \/ Retract /\ UNCHANGED <<requests, asks, screen, read>>

ApprovalsSpec == ApprovalsInit /\ [][ApprovalsNext]_approvalVars

\* A client that asked polls until it has an answer, and the clock goes on.
FairApprovalsSpec ==
    /\ ApprovalsSpec
    /\ \A x \in Client : WF_approvalVars(Poll(x))
    /\ \A i \in 1 .. MaxPending : WF_approvalVars(RunsOut(i))

-----------------------------------------------------------------------------
(* What must hold. *)

\* The key goes to the phone whose number was read: whatever was asked, evicted,
\* denied or restarted meanwhile, nobody approves one request by the number of
\* another (unique numbers in create, the echo in approve).
RightClient == \A d \in Id : read[d].screen = read[d].request

\* A decision is final: no later deny, approval or sweep changes it or the row
\* it led to.
DecisionIsFinal ==
    [][\A i \in DOMAIN requests, j \in DOMAIN requests' :
          requests[i].id = requests'[j].id /\ ~Pending(requests[i]) =>
              /\ requests'[j].status = requests[i].status
              /\ requests'[j].device = requests[i].device]_approvalVars

\* A companion always reaches an answer, approved, denied or expired: no request
\* is polled for ever.
EveryAskEnds ==
    \A x \in Client, id \in RequestId : asks[x] = id ~> asks[x] # id

\* pair_requests.py says an approval must be "retryable within this window rather
\* than stranding the operator's Approve": an approved request stays until its
\* time is over (violated: the global cap evicts it).
ApprovedIsCollectable ==
    [][\A i \in DOMAIN requests :
          requests[i].status = "approved" /\ ~requests[i].late /\ ~ApprovalsRestart =>
              \E j \in DOMAIN requests' : requests'[j].id = requests[i].id]_approvalVars

=============================================================================
