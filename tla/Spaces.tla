------------------------------- MODULE Spaces -------------------------------
(***************************************************************************)
(* A Core's Space: its set-up, its people, whose each device is, and what  *)
(* a person's role leaves of a device's (api_space.py, space_store.py,     *)
(* auth.py and the person half of pairing in app.py).                      *)
(*                                                                         *)
(* Whose a device is stands in two stores: the Space lists the link, and   *)
(* the credential's own column is what the cap reads.  A handler writes    *)
(* them in two commits and never awaits between them, so only a failing    *)
(* write, or the end of the process, can separate them.                    *)
(*                                                                         *)
(* The credentials themselves are the subject of Devices; agents, which    *)
(* the cap exempts, and leadership (CoreTopology) are left out.            *)
(***************************************************************************)
EXTENDS Naturals, Sequences

CONSTANTS
    Person, Device,   \* ids, random and never reused
    Code,             \* pairing codes
    None,             \* nobody
    PersonMax,        \* _PENDING_PERSON_MAX
    MaxFaults         \* bound: failed writes and restarts

ASSUME SpacesAssumption ==
    /\ None \notin Person
    /\ PersonMax \in Nat \ {0} /\ MaxFaults \in Nat

VARIABLES
    space,      \* is there a row?
    people,     \* the rows of people
    link,       \* person_devices
    described,  \* devices with a row of functions or a manifest
    device,     \* the credentials: role, state and person_id
    code,       \* pairing codes, with the role and person they are for
    pending,    \* _pending_person: the codes whose person is remembered
    answer,     \* what the last set-up of an unset Core was answered
    ours,       \* history: whose an operator last said the device is
    torn,       \* history: devices for which that was not carried through: a write failed,
                \* or memory lost the person; heard by the operator or not
    faults

vars == <<space, answer, people, link, described, device, code, pending, ours, torn, faults>>

PersonRole == {"owner", "admin", "user", "guest"}
DeviceRole == {"central", "user"}
NoPerson == [role |-> "user", state |-> "absent"]
NoDevice == [role |-> "user", state |-> "absent", person |-> None]
NoCode == [role |-> "user", state |-> "unused", person |-> None]

TypeOK ==
    /\ space \in BOOLEAN /\ answer \in {"none", "done", "refused"}
    /\ people \in [Person -> [role : PersonRole, state : {"absent", "live", "removed", "gone"}]]
    /\ link \in [Device -> Person \cup {None}] /\ described \in SUBSET Device
    /\ device \in [Device -> [role : DeviceRole, state : {"absent", "live", "revoked"},
                              person : Person \cup {None}]]
    /\ code \in [Code -> [role : DeviceRole, state : {"unused", "live", "spent"},
                          person : Person \cup {None}]]
    /\ pending \in Seq(Code)
    /\ ours \in [Device -> Person \cup {None}] /\ torn \in SUBSET Device
    /\ faults \in 0 .. MaxFaults

Init ==
    /\ space = FALSE /\ answer = "none"
    /\ people = [p \in Person |-> NoPerson]
    /\ link = [d \in Device |-> None] /\ described = {}
    /\ device = [d \in Device |-> NoDevice]
    /\ code = [c \in Code |-> NoCode] /\ pending = <<>>
    /\ ours = [d \in Device |-> None] /\ torn = {}
    /\ faults = 0

Known(d) == device[d].state # "absent"
Live(p) == people[p].state = "live"
OnFile(p) == people[p].state \in {"live", "removed"}   \* get_person
Owners == {p \in Person : Live(p) /\ people[p].role = "owner"}
Fault == faults < MaxFaults /\ faults' = faults + 1

-----------------------------------------------------------------------------
(* The cap (auth.py).                                                       *)

Rank(role) == CASE role = "none" -> 0 [] role = "guest" -> 1 [] role = "user" -> 2 [] role = "central" -> 3
Grants(role) == IF role \in {"owner", "admin"} THEN "central" ELSE role
Narrower(a, b) == IF Rank(a) <= Rank(b) THEN a ELSE b

\* _person_role: nothing once the person left.
PersonGrants_Removed(p) == IF OnFile(p) THEN Grants(people[p].role) ELSE "none"   \* mutant
PersonGrants(p) == IF Live(p) THEN Grants(people[p].role) ELSE "none"

\* verify, then _apply_person_cap: what the device is answered as right now.
Effective(d) ==
    IF device[d].state # "live" THEN "none"
    ELSE IF device[d].person = None THEN device[d].role
    ELSE Narrower(device[d].role, PersonGrants(device[d].person))

-----------------------------------------------------------------------------
(* Set-up: the row, the Owner, for an adoption the two rows of every        *)
(* central device (a revoked one included) and the column of each, and the  *)
(* registration of the Core, which stands for all that follows it.          *)

Centrals == {d \in Device : Known(d) /\ device[d].role = "central"}

\* Refused when somebody added an Owner before there was a Space.
Owned(p) ==
    /\ people[p].state = "absent" /\ Owners = {}
    /\ people' = [people EXCEPT ![p] = [role |-> "owner", state |-> "live"]]

\* Those of L are listed, and those of T have the column too.
Adopted(p, L, T) ==
    /\ link' = [d \in Device |-> IF d \in L THEN p ELSE link[d]]
    /\ described' = described \cup L
    /\ device' = [d \in Device |-> IF d \in T THEN [device[d] EXCEPT !.person = p] ELSE device[d]]
    /\ ours' = [d \in Device |-> IF d \in L THEN p ELSE ours[d]]
    /\ torn' = (torn \cup L) \ T

Linked(how, p) ==
    IF how = "adopt" THEN Adopted(p, Centrals, Centrals)
    ELSE UNCHANGED <<link, described, device, ours, torn>>

\* A code lives in memory, like the person it is remembered for.
Forgotten ==
    /\ code' = [c \in Code |-> IF code[c].state = "live" THEN [code[c] EXCEPT !.state = "spent"]
                               ELSE code[c]]
    /\ pending' = <<>>

SetUp(how, p) ==
    /\ Owned(p) /\ Linked(how, p)
    /\ answer' = "done"
    /\ UNCHANGED <<code, pending, faults>>

\* adopt swallows what set_person raises, and goes on.
AdoptsLoosely(p) ==
    /\ Fault
    /\ Owned(p) /\ \E T \in SUBSET Centrals : Adopted(p, Centrals, T)
    /\ answer' = "done"
    /\ UNCHANGED <<code, pending>>

\* What it was doing ends there: with an answer, or with the process.
CutShort ==
    \/ answer' = "refused" /\ UNCHANGED <<code, pending>>
    \/ answer' = "none" /\ Forgotten

\* No Owner: there is one, the name is blank, or the write fails.
StopsAtOwner ==
    /\ CutShort
    /\ \/ answer' = "refused" /\ UNCHANGED faults
       \/ Fault
    /\ UNCHANGED <<people, link, described, device, ours, torn>>

StopsAtLinks(p) ==
    /\ Fault /\ CutShort
    /\ Owned(p)
    /\ \/ \E L \in SUBSET Centrals : Adopted(p, L, {})
       \/ \E T \in SUBSET Centrals : Adopted(p, Centrals, T) /\ answer' = "none"

\* create and adopt roll back where nothing is attached; join never does.
Attached == (\E d \in Device : link'[d] # None) \/ described' # {}
Alone(p) == \A q \in Person : Live(q) => q = p

StopsAtCore(how, p) ==
    /\ Fault /\ CutShort
    /\ Owned(p) /\ Linked(how, p)
    /\ (answer' = "refused" /\ how # "join") => (Attached \/ ~Alone(p))

RollsBack(how, p) ==
    /\ Fault /\ ~space /\ how # "join"
    /\ people[p].state = "absent" /\ Owners = {} /\ Alone(p)
    /\ Linked(how, p) /\ ~Attached
    /\ people' = [q \in Person |-> IF people[q].state = "absent" /\ q # p THEN people[q]
                                   ELSE [people[q] EXCEPT !.state = "gone"]]
    /\ answer' = "refused"
    /\ UNCHANGED <<space, code, pending>>

Begins ==
    /\ ~space /\ space' = TRUE
    /\ \/ StopsAtOwner
       \/ \E p \in Person : AdoptsLoosely(p) \/ StopsAtLinks(p)
       \/ \E how \in {"create", "join", "adopt"}, p \in Person :
             SetUp(how, p) \/ StopsAtCore(how, p)

SetUps == Begins \/ \E how \in {"create", "adopt"}, p \in Person : RollsBack(how, p)

-----------------------------------------------------------------------------
(* People.  Nothing here asks whether there is a Space.                     *)

AddPerson(p, role) ==
    /\ people[p].state = "absent"
    /\ role = "owner" => Owners = {}
    /\ people' = [people EXCEPT ![p] = [role |-> role, state |-> "live"]]

SetPersonRole_Owner(p, role) ==   \* mutant: the Owner may be demoted
    /\ OnFile(p) /\ role # "owner"
    /\ people' = [people EXCEPT ![p].role = role]
SetPersonRole(p, role) ==
    /\ OnFile(p) /\ people[p].role # "owner" /\ role # "owner"
    /\ people' = [people EXCEPT ![p].role = role]

Transfer(p) ==
    /\ Live(p) /\ people[p].role # "owner" /\ Owners # {}
    /\ \E o \in Owners :
          people' = [people EXCEPT ![o].role = "admin", ![p].role = "owner"]

PeopleChange ==
    /\ \E p \in Person :
          Transfer(p) \/ \E role \in PersonRole : AddPerson(p, role) \/ SetPersonRole(p, role)
    /\ UNCHANGED <<space, answer, link, described, device, code, pending, ours, torn, faults>>

\* remove_person, then revoke and forget_device for each device listed as theirs.
Removed(p) == people' = [people EXCEPT ![p].state = "removed"]
Theirs(p) == {d \in Device : link[d] = p}
RevokedAll(S) ==
    device' = [d \in Device |-> IF d \in S /\ Known(d) THEN [device[d] EXCEPT !.state = "revoked"]
                                ELSE device[d]]

RemovePerson(p) ==
    /\ OnFile(p) /\ people[p].role # "owner"
    /\ Removed(p)
    /\ link' = [d \in Device |-> IF d \in Theirs(p) THEN None ELSE link[d]]
    /\ \/ RevokedAll(Theirs(p)) /\ described' = described \ Theirs(p)
          /\ UNCHANGED <<code, pending, torn, faults>>
       \/ Fault
          /\ \E S \in SUBSET Theirs(p) :
                S # Theirs(p) /\ RevokedAll(S) /\ described' = described \ S
          /\ UNCHANGED <<code, pending, torn>>
    /\ UNCHANGED <<space, answer, ours>>

-----------------------------------------------------------------------------
(* Devices and whose they are.                                              *)

\* associate_device, then set_person; undone where the second fails, unless the
\* process ends there.
Associate_Listed(d, p) ==   \* mutant: the column that enforces is not written
    /\ Known(d) /\ OnFile(p)
    /\ link' = [link EXCEPT ![d] = p]
    /\ ours' = [ours EXCEPT ![d] = p]
    /\ torn' = torn \ {d}
    /\ UNCHANGED <<device, code, pending, faults>>
Associate(d, p) ==
    /\ Known(d) /\ OnFile(p)
    /\ link' = [link EXCEPT ![d] = p]
    /\ device' = [device EXCEPT ![d].person = p]
    /\ ours' = [ours EXCEPT ![d] = p]
    /\ torn' = torn \ {d}
    /\ UNCHANGED <<code, pending, faults>>

\* The undo takes the earlier link away too, and leaves the earlier column.
AssociateFails(d, p) ==
    /\ Known(d) /\ OnFile(p) /\ Fault
    /\ \/ link' = [link EXCEPT ![d] = None] /\ UNCHANGED <<code, pending>>
       \/ link' = [link EXCEPT ![d] = p] /\ Forgotten
    /\ torn' = torn \cup {d}
    /\ UNCHANGED <<device, ours>>

Disassociate(d) ==
    /\ Known(d)
    /\ link' = [link EXCEPT ![d] = None]
    /\ \/ /\ device' = [device EXCEPT ![d].person = None]
          /\ ours' = [ours EXCEPT ![d] = None]
          /\ torn' = torn \ {d}
          /\ UNCHANGED faults
       \/ Fault /\ torn' = torn \cup {d} /\ UNCHANGED <<device, ours>>

\* The rest of a credential's life, as Devices has it.
Describe(d) ==
    /\ Known(d)
    /\ described' = described \cup {d}
    /\ UNCHANGED device

Revoke(d) ==
    /\ Known(d)
    /\ device' = [device EXCEPT ![d].state = "revoked"]
    /\ UNCHANGED described

SetRole(d, role) ==
    /\ Known(d)
    /\ device' = [device EXCEPT ![d].role = role]
    /\ UNCHANGED described

DevicesChange ==
    \/ \E d \in Device :
          /\ \E p \in Person : Associate(d, p) \/ AssociateFails(d, p)
          /\ UNCHANGED <<space, answer, people, described>>
    \/ \E d \in Device :
          /\ Disassociate(d)
          /\ UNCHANGED <<space, answer, people, described, code, pending>>
    \/ \E d \in Device :
          /\ Describe(d) \/ Revoke(d) \/ \E role \in DeviceRole : SetRole(d, role)
          /\ UNCHANGED <<space, answer, people, link, code, pending, ours, torn, faults>>

-----------------------------------------------------------------------------
(* Pairing a device of a person: the code carries the role, memory the      *)
(* person.                                                                  *)

Remember(c, who) ==
    IF who = None THEN UNCHANGED pending
    ELSE pending' = Append(IF Len(pending) < PersonMax THEN pending ELSE Tail(pending), c)

\* POST /api/pair-code: the person's role is a ceiling, and a guest has no code.
PairCode(c, who, asked) ==
    /\ code[c].state = "unused"
    /\ LET role == IF who = None THEN asked ELSE Narrower(asked, PersonGrants(who))
       IN  /\ role \in DeviceRole
           /\ code' = [code EXCEPT ![c] = [role |-> role, state |-> "live", person |-> who]]
    /\ Remember(c, who)
    /\ UNCHANGED <<device, link, ours, torn, faults>>

Expire(c) ==
    /\ code[c].state = "live"
    /\ code' = [code EXCEPT ![c].state = "spent"]
    /\ UNCHANGED <<pending, device, link, ours, torn, faults>>

Remembered(c) == \E i \in DOMAIN pending : pending[i] = c
\* A code is remembered once: it is issued once.
Without(c) ==
    LET i == CHOOSE j \in DOMAIN pending : pending[j] = c
    IN  IF Remembered(c) THEN SubSeq(pending, 1, i - 1) \o SubSeq(pending, i + 1, Len(pending))
        ELSE pending

Minted(d, c, who) == [device EXCEPT ![d] = [role |-> code[c].role, state |-> "live", person |-> who]]

\* redeem, then _claim_pairing_person: each of its writes may fail unheard.
Redeem(c, d) ==
    /\ code[c].state = "live" /\ ~Known(d)
    /\ code' = [code EXCEPT ![c].state = "spent"] /\ pending' = Without(c)
    /\ ours' = [ours EXCEPT ![d] = code[c].person]
    /\ IF Remembered(c)
       THEN \/ /\ device' = Minted(d, c, code[c].person)
               /\ link' = [link EXCEPT ![d] = IF OnFile(code[c].person) THEN code[c].person ELSE None]
               /\ UNCHANGED <<torn, faults>>
            \/ /\ Fault
               /\ \E who \in {None, code[c].person}, listed \in {None, code[c].person} :
                     device' = Minted(d, c, who) /\ link' = [link EXCEPT ![d] = listed]
               /\ torn' = torn \cup {d}
       ELSE /\ device' = Minted(d, c, None)
            /\ torn' = (IF code[c].person = None THEN torn ELSE torn \cup {d})
            /\ UNCHANGED <<link, faults>>

\* The process ends after the mint.
RedeemCut(c, d) ==
    /\ code[c].state = "live" /\ ~Known(d)
    /\ Fault /\ Forgotten
    /\ device' = Minted(d, c, None) /\ ours' = [ours EXCEPT ![d] = code[c].person]
    /\ torn' = torn \cup {d}
    /\ UNCHANGED link

Pairing ==
    /\ \E c \in Code :
          \/ \E who \in Person \cup {None}, asked \in DeviceRole : PairCode(c, who, asked)
          \/ Expire(c)
          \/ \E d \in Device : Redeem(c, d) \/ RedeemCut(c, d)
    /\ UNCHANGED <<space, answer, people, described>>

Restart ==
    /\ Fault /\ Forgotten
    /\ UNCHANGED <<space, answer, people, link, described, device, ours, torn>>

-----------------------------------------------------------------------------
Next ==
    \/ SetUps \/ PeopleChange \/ DevicesChange \/ Pairing \/ Restart
    \/ \E p \in Person : RemovePerson(p)

Spec == Init /\ [][Next]_vars

-----------------------------------------------------------------------------
(* Exactly one Owner once set-up was answered, and never two: through every *)
(* transfer, role change, removal, adoption and set-up that was undone and  *)
(* tried again (add_person, set_person_role, transfer_ownership).           *)
OneOwner ==
    /\ \A p, q \in Owners : p = q
    /\ answer = "done" => Owners # {}

(* A device that an operator said is a person's is never answered as more   *)
(* than that person's role of today allows, and as nothing once they left,  *)
(* whoever paired it, linked it or adopted it, and whatever a removal did   *)
(* not finish revoking.  A torn device is excused: the mint or the link was  *)
(* cut before its person was bound, which api_devices.py:90-96 and adopt     *)
(* swallow, or the binding that an unlinking left is stale.                  *)
(* The code narrows at each request (auth._apply_person_cap), while set_role *)
(* answers the contrary: see DemotionKeepsAccess.                            *)
DemotionReaches ==
    \A d \in Device :
        ours[d] # None /\ d \notin torn =>
            \/ Effective(d) = "none"
            \/ Live(ours[d]) /\ Rank(Effective(d)) <= Rank(Grants(people[ours[d]].role))

(* What the Devices screen shows is what is enforced: a device listed as a  *)
(* person's is capped by that person, and one that is capped is listed      *)
(* while the person is there (api_space.associate, adopt, remove_person).   *)
ListedIsEnforced ==
    \A d \in Device :
        device[d].state = "live" /\ d \notin torn =>
            /\ link[d] # None => device[d].person = link[d]
            /\ link[d] = None /\ device[d].person # None => ~Live(device[d].person)

(* "Existing devices keep the access they were paired with until you revoke *)
(* them" (the note of set_role, api_space.py:476-482): a live device whose   *)
(* own role and person stand is never answered as less than before.  It does *)
(* not hold: a demotion or a removal reaches it with the next request.       *)
DemotionKeepsAccess ==
    [][\A d \in Device :
          /\ device[d].state = "live"
          /\ device'[d] = device[d]
          => Rank(Effective(d)') >= Rank(Effective(d))]_vars

(* "If any step fails the whole thing fails -- there is no half-created     *)
(* Space to clean up" (create_space): violated by a name for the Owner that *)
(* is blank, after the row of the Space was committed.                      *)
SetUpIsAllOrNothing == answer = "refused" => ~space
=============================================================================
