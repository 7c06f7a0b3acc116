------------------------------- MODULE Devices -------------------------------
(***************************************************************************)
(* The credentials of a household: DeviceStore (devices.py), one row per   *)
(* device that ever paired, and the experience grants that hang off a row  *)
(* (experience_grants.py).  PairingCodes and PairApprovals extend this     *)
(* module with the two ways a row is minted; here any mint may happen.     *)
(*                                                                         *)
(* The handlers run on the event loop and never await between the store    *)
(* calls, so only a crash or a failing store call can separate them.       *)
(***************************************************************************)
EXTENDS Naturals, FiniteSets

CONSTANTS
    Id,          \* device ids (random, never reused)
    Phone,       \* physical devices, each with its own device_key
    NoKey,       \* the key of a client that sends none
    Role,        \* roles in play, of VALID_ROLES
    Faults       \* may the process die, or a store call fail, inside a mint?

ASSUME DeviceAssumption ==
    /\ NoKey \notin Phone
    /\ {"user", "guest"} \subseteq Role
    /\ Role \subseteq {"central", "user", "agent", "guest"}
    /\ Faults \in BOOLEAN

Key == Phone \cup {NoKey}

VARIABLES
    device,   \* Id -> the row: key, kind (temp: it carries expires_at), role, state
    grants,   \* ids with rows in experience_grants
    untidy    \* history: <<phone, kind>> whose last mint was cut short

devVars == <<device, grants, untidy>>

\* A row that lapsed is past its expires_at; only a temporary one can.
Row == {r \in [key : Key, temp : BOOLEAN, role : Role,
               state : {"absent", "live", "revoked"}, lapsed : BOOLEAN] :
           r.lapsed => r.temp}
NoRow == [key |-> NoKey, temp |-> FALSE, role |-> "user", state |-> "absent", lapsed |-> FALSE]

DevicesTypeOK ==
    /\ device \in [Id -> Row]
    /\ grants \in SUBSET Id
    /\ untidy \in SUBSET (Key \X BOOLEAN)

DevicesInit ==
    /\ device = [d \in Id |-> NoRow]
    /\ grants = {}
    /\ untidy = {}

Known(d) == device[d].state # "absent"
\* verify: what a bearer token of this row is answered.
Valid(d) == device[d].state = "live" /\ ~device[d].lapsed

-----------------------------------------------------------------------------
(* A mint is add, then supersede_same_device, then the revoke hook.         *)

NewRow(k, temp, role) ==
    [key |-> k, temp |-> temp, role |-> role, state |-> "live", lapsed |-> FALSE]

\* The rows a new credential retires: same phone, same kind, not yet revoked.
Superseded_AnyKind(k, temp) ==   \* mutant: matches on the key alone
    {x \in Id : k # NoKey /\ device[x].key = k /\ device[x].state = "live"}
Superseded_Guests(k, temp) ==    \* mutant: the two ranges swapped
    {x \in Id : k # NoKey /\ device[x].key = k /\ device[x].state = "live" /\ device[x].temp # temp}
Superseded(k, temp) ==
    {x \in Id : k # NoKey /\ device[x].key = k /\ device[x].state = "live" /\ device[x].temp = temp}

Minted(d, k, temp, role, retired) ==
    device' = [x \in Id |-> IF x = d THEN NewRow(k, temp, role)
                            ELSE IF x \in retired THEN [device[x] EXCEPT !.state = "revoked"]
                            ELSE device[x]]

Mint(d, k, temp, role) ==
    /\ ~Known(d)
    /\ Minted(d, k, temp, role, Superseded(k, temp))
    /\ untidy' = untidy \ {<<k, temp>>}
    /\ grants' = grants \ Superseded(k, temp)

\* The mint stops early: the earlier rows are not retired (supersede raised, or
\* the process died after add), or they are and their grants stay (the hook
\* raised, or the process died before it).
MintCut(d, k, temp, role) ==
    /\ Faults
    /\ ~Known(d)
    /\ \E retired \in {{}, Superseded(k, temp)} : Minted(d, k, temp, role, retired)
    /\ untidy' = untidy \cup {<<k, temp>>}
    /\ UNCHANGED grants

\* Who mints what: a pairing or an approval a permanent row, a guest invite a
\* temporary one with the role guest.
Mintable(temp, role) == IF temp THEN role = "guest" ELSE role # "guest"

-----------------------------------------------------------------------------
(* Administration and time. *)

\* DELETE /api/devices: revoke, then the hook (swallowed when it fails).
Revoke(d) ==
    /\ Known(d)
    /\ device' = [device EXCEPT ![d].state = "revoked"]
    /\ \/ grants' = grants \ {d}
       \/ Faults /\ UNCHANGED grants
    /\ UNCHANGED untidy

\* Removing a person, and unpairing a peer Core, revoke rows in the store
\* directly.
RevokeByOwner(S) ==
    /\ S # {}
    /\ \A d \in S : Known(d)
    /\ device' = [d \in Id |-> IF d \in S THEN [device[d] EXCEPT !.state = "revoked"] ELSE device[d]]
    /\ UNCHANGED <<grants, untidy>>

SetRole(d, role) ==
    /\ Known(d)
    /\ role # "guest"
    /\ device' = [device EXCEPT ![d].role = role]
    /\ UNCHANGED <<grants, untidy>>

\* PUT /api/experience/grants: the device id is not looked up.
Grant(d) ==
    /\ Known(d)
    /\ grants' = grants \cup {d}
    /\ UNCHANGED <<device, untidy>>

RevokeGrant(d) ==
    /\ d \in grants
    /\ grants' = grants \ {d}
    /\ UNCHANGED <<device, untidy>>

\* expires_at passes.
Lapse(d) ==
    /\ Known(d)
    /\ device[d].temp
    /\ ~device[d].lapsed
    /\ device' = [device EXCEPT ![d].lapsed = TRUE]
    /\ UNCHANGED <<grants, untidy>>

Retract ==
    \/ \E d \in Id : Revoke(d)
    \/ \E S \in SUBSET Id : RevokeByOwner(S)

Administer ==
    \/ Retract
    \/ \E d \in Id : Grant(d) \/ RevokeGrant(d)
    \/ \E d \in Id, role \in Role : SetRole(d, role)

DevicesNext ==
    \/ \E d \in Id, k \in Key, temp \in BOOLEAN, role \in Role :
          Mintable(temp, role) /\ (Mint(d, k, temp, role) \/ MintCut(d, k, temp, role))
    \/ Administer
    \/ \E d \in Id : Lapse(d)

DevicesSpec == DevicesInit /\ [][DevicesNext]_devVars

-----------------------------------------------------------------------------
(* What must hold. *)

Live(k, temp) == {d \in Id : device[d].key = k /\ device[d].state = "live" /\ device[d].temp = temp}

\* One phone, one live key: however often a phone pairs, by code, visitor code or
\* approval, at most one of its permanent rows and one of its temporary rows is
\* not revoked; what a mint that was cut short left behind, the phone's next
\* pairing retires (redeem, approve, supersede_same_device).
OneLiveKey ==
    \A k \in Phone, temp \in BOOLEAN :
        <<k, temp>> \notin untidy => \A d, e \in Live(k, temp) : d = e

\* A guest credential always carries a deadline: no mint and no role change ever
\* makes a guest that never expires (set_role's refusal, the invite route).
GuestsExpire == \A d \in Id : device[d].role = "guest" => device[d].temp

\* Pairing is not a lockout: while a phone holds a permanent key, no pairing of
\* any phone, visitor code included, complete or cut short, leaves it with none.
PairingNeverLocksOut ==
    [][(\E d \in Id : ~Known(d) /\ Known(d)') =>
          \A k \in Phone : Live(k, FALSE) # {} => Live(k, FALSE)' # {}]_devVars

\* set_revoke_hook claims to cover the "two ways" a credential stops being live:
\* whenever a row is revoked its grants go with it (violated: removing a person
\* revokes in the store and runs no hook).
RevokingClearsGrants ==
    [][\A x \in Id : device[x].state = "live" /\ device'[x].state = "revoked" => x \notin grants']_devVars

=============================================================================
