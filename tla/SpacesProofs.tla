----------------------------- MODULE SpacesProofs -----------------------------
(***************************************************************************)
(* What is proved of Spaces, for any people, devices, codes and number of  *)
(* faults: there is never a second Owner, a person's role of today bounds  *)
(* what their devices are answered as, and what is listed is enforced.     *)
(*                                                                         *)
(* The inductive invariant has a part for each store: the people, the      *)
(* links with the credentials, the codes, and the set-up.  The parts meet  *)
(* in one relation between a state and the next: nobody who was here or    *)
(* left is forgotten, and nobody comes back (Onward).                      *)
(***************************************************************************)
EXTENDS Spaces, SequenceTheorems, TLAPS

PersonRow == [role : PersonRole, state : {"absent", "live", "removed", "gone"}]
DeviceRow == [role : DeviceRole, state : {"absent", "live", "revoked"}, person : Person \cup {None}]
CodeRow == [role : DeviceRole, state : {"unused", "live", "spent"}, person : Person \cup {None}]

Absent(p) == people[p].state = "absent"

SoundPeople ==
    /\ people \in [Person -> PersonRow]
    /\ \A p, q \in Owners : p = q

\* What was said of a device is in its column, unless that was cut short; a
\* device nobody paired is not listed; and whom a column names has been here.
SoundLinks ==
    /\ link \in [Device -> Person \cup {None}] /\ described \in SUBSET Device
    /\ device \in [Device -> DeviceRow]
    /\ ours \in [Device -> Person \cup {None}] /\ torn \in SUBSET Device
    /\ \A d \in Device : d \notin torn => device[d].person = ours[d]
    /\ \A d \in Device : ~Known(d) => link[d] = None
    /\ \A d \in Device : device[d].person # None => ~Absent(device[d].person)
    /\ ListedIsEnforced

\* A code is only ever issued for somebody who is here.
SoundCodes ==
    /\ code \in [Code -> CodeRow] /\ pending \in Seq(Code)
    /\ \A c \in Code : code[c].person # None => ~Absent(code[c].person)

SoundSetUp ==
    /\ space \in BOOLEAN /\ answer \in {"none", "done", "refused"}
    /\ faults \in 0 .. MaxFaults
    /\ answer = "done" => space /\ Owners # {}

IInv == SoundPeople /\ SoundLinks /\ SoundCodes /\ SoundSetUp

Onward ==
    \A q \in Person :
        ~Absent(q) => /\ people'[q].state # "absent"
                      /\ people'[q].state = "live" => Live(q)

LEMMA Parts == IInv => TypeOK /\ OneOwner /\ ListedIsEnforced
BY DEF IInv, SoundPeople, SoundLinks, SoundCodes, SoundSetUp, TypeOK, OneOwner,
       PersonRow, DeviceRow, CodeRow

LEMMA NobodyIsNone == None \notin Person
BY SpacesAssumption

LEMMA FaultCounts ==
    ASSUME faults \in 0 .. MaxFaults, Fault
    PROVE  faults' \in 0 .. MaxFaults
BY SpacesAssumption DEF Fault

LEMMA InitIInv == Init => IInv
<1> SUFFICES ASSUME Init PROVE IInv
    OBVIOUS
<1>1. SoundPeople
    BY DEF Init, SoundPeople, NoPerson, PersonRow, PersonRole, Owners, Live
<1>2. SoundLinks
    BY DEF Init, SoundLinks, NoDevice, DeviceRow, DeviceRole, ListedIsEnforced
<1>3. SoundCodes
    BY EmptySeq DEF Init, SoundCodes, NoCode, CodeRow, DeviceRole
<1>4. SoundSetUp
    <2>1. faults \in 0 .. MaxFaults
        BY SpacesAssumption DEF Init
    <2> QED BY <2>1 DEF Init, SoundSetUp
<1> QED BY <1>1, <1>2, <1>3, <1>4 DEF IInv

-----------------------------------------------------------------------------
(* A store that a step leaves alone stays sound, as long as people go on.   *)

LEMMA LinksStay ==
    ASSUME IInv, Onward, UNCHANGED <<link, device, ours, torn>>, described' \in SUBSET Device
    PROVE  SoundLinks'
<1>1. \A d \in Device : device[d].person \in Person \cup {None}
    BY DEF IInv, SoundLinks, DeviceRow
<1> QED BY <1>1 DEF IInv, SoundLinks, Known, ListedIsEnforced, Onward, Absent, Live

LEMMA CodesStay ==
    ASSUME IInv, Onward, UNCHANGED <<code, pending>>
    PROVE  SoundCodes'
BY DEF IInv, SoundCodes, CodeRow, Onward, Absent

LEMMA CodesForgotten ==
    ASSUME IInv, Onward, Forgotten
    PROVE  SoundCodes'
<1>1. \A c \in Code : code'[c] \in CodeRow /\ code'[c].person = code[c].person
    BY DEF IInv, SoundCodes, CodeRow, Forgotten
<1>2. code' \in [Code -> CodeRow]
    BY <1>1 DEF Forgotten
<1>3. \A c \in Code : code[c].person \in Person \cup {None}
    BY DEF IInv, SoundCodes, CodeRow
<1> QED BY <1>1, <1>2, <1>3, EmptySeq DEF IInv, SoundCodes, Forgotten, Onward, Absent

LEMMA PeopleStay ==
    ASSUME IInv, UNCHANGED people
    PROVE  Onward /\ SoundPeople'
BY DEF IInv, SoundPeople, Onward, Owners, Absent, Live

LEMMA SetUpStays ==
    ASSUME IInv, UNCHANGED <<space, answer>>, UNCHANGED faults \/ Fault,
           Owners # {} => Owners' # {}
    PROVE  SoundSetUp'
BY FaultCounts DEF IInv, SoundSetUp

-----------------------------------------------------------------------------
(* People.                                                                  *)

LEMMA OwnedIsSound ==
    ASSUME IInv, NEW p \in Person, Owned(p)
    PROVE  /\ SoundPeople' /\ Onward /\ Owners' = {p}
           /\ Absent(p) /\ \A q \in Person : q # p => people'[q] = people[q]
<1>1. /\ people[p].state = "absent" /\ Owners = {}
      /\ people' = [people EXCEPT ![p] = [role |-> "owner", state |-> "live"]]
      /\ people \in [Person -> PersonRow]
    BY DEF Owned, IInv, SoundPeople
<1>2. [role |-> "owner", state |-> "live"] \in PersonRow
    BY DEF PersonRow, PersonRole
<1>3. people' \in [Person -> PersonRow] /\ \A q \in Person : q # p => people'[q] = people[q]
    BY <1>1, <1>2
<1>4. Owners' = {p}
    BY <1>1, <1>3 DEF Owners, Live
<1> QED BY <1>1, <1>3, <1>4 DEF SoundPeople, Onward, Absent, Live

LEMMA AddPersonIsSound ==
    ASSUME IInv, NEW p \in Person, NEW role \in PersonRole, AddPerson(p, role)
    PROVE  SoundPeople' /\ Onward /\ (Owners # {} => Owners' # {})
<1>1. /\ people[p].state = "absent" /\ (role = "owner" => Owners = {})
      /\ people' = [people EXCEPT ![p] = [role |-> role, state |-> "live"]]
      /\ people \in [Person -> PersonRow]
    BY DEF AddPerson, IInv, SoundPeople
<1>2. [role |-> role, state |-> "live"] \in PersonRow
    BY DEF PersonRow
<1>3. people' \in [Person -> PersonRow] /\ \A q \in Person : q # p => people'[q] = people[q]
    BY <1>1, <1>2
<1>4. Owners' = IF role = "owner" THEN {p} ELSE Owners
    BY <1>1, <1>3 DEF Owners, Live
<1> QED BY <1>1, <1>3, <1>4 DEF IInv, SoundPeople, Onward, Absent, Live

LEMMA SetPersonRoleIsSound ==
    ASSUME IInv, NEW p \in Person, NEW role \in PersonRole, SetPersonRole(p, role)
    PROVE  SoundPeople' /\ Onward /\ Owners' = Owners
<1>1. /\ people[p].role # "owner" /\ role # "owner"
      /\ people' = [people EXCEPT ![p].role = role]
      /\ people \in [Person -> PersonRow]
    BY DEF SetPersonRole, IInv, SoundPeople
<1>2. /\ people' \in [Person -> PersonRow]
      /\ \A q \in Person : /\ people'[q].state = people[q].state
                           /\ people'[q].role = (IF q = p THEN role ELSE people[q].role)
    BY <1>1 DEF PersonRow
<1>3. Owners' = Owners
    BY <1>1, <1>2 DEF Owners, Live
<1> QED BY <1>2, <1>3 DEF IInv, SoundPeople, Onward, Absent, Live

LEMMA TransferIsSound ==
    ASSUME IInv, NEW p \in Person, Transfer(p)
    PROVE  SoundPeople' /\ Onward /\ Owners' = {p}
<1>1. PICK o \in Owners : people' = [people EXCEPT ![o].role = "admin", ![p].role = "owner"]
    BY DEF Transfer
<1>2. /\ Live(p) /\ people[p].role # "owner" /\ people \in [Person -> PersonRow]
      /\ o \in Person /\ o # p
    BY DEF Transfer, IInv, SoundPeople, Owners
<1>3. /\ people' \in [Person -> PersonRow]
      /\ \A q \in Person :
            /\ people'[q].state = people[q].state
            /\ people'[q].role = (IF q = p THEN "owner" ELSE IF q = o THEN "admin" ELSE people[q].role)
    BY <1>1, <1>2 DEF PersonRow, PersonRole
<1>4. \A q \in Owners : q = o
    BY DEF IInv, SoundPeople
<1>5. Owners' = {p}
    BY <1>2, <1>3, <1>4 DEF Owners, Live
<1> QED BY <1>3, <1>5 DEF SoundPeople, Onward, Absent, Live

LEMMA PeopleChangeKeeps ==
    ASSUME IInv, PeopleChange
    PROVE  IInv'
<1>1. SoundPeople' /\ Onward /\ (Owners # {} => Owners' # {})
    BY AddPersonIsSound, SetPersonRoleIsSound, TransferIsSound DEF PeopleChange
<1>2. UNCHANGED <<space, answer, link, described, device, code, pending, ours, torn, faults>>
    BY DEF PeopleChange
<1>3. SoundLinks' /\ SoundCodes' /\ SoundSetUp'
    BY <1>1, <1>2, LinksStay, CodesStay, SetUpStays DEF IInv, SoundLinks
<1> QED BY <1>1, <1>3 DEF IInv

\* The removal: who was linked is not, and holds at most what the removal did
\* not come to.
LEMMA RemovePersonKeeps ==
    ASSUME IInv, NEW p \in Person, RemovePerson(p)
    PROVE  IInv'
<1>1. /\ OnFile(p) /\ people[p].role # "owner" /\ people' = [people EXCEPT ![p].state = "removed"]
      /\ people \in [Person -> PersonRow]
    BY DEF RemovePerson, Removed, IInv, SoundPeople
<1>2. /\ people' \in [Person -> PersonRow]
      /\ \A q \in Person : /\ people'[q].role = people[q].role
                           /\ people'[q].state = (IF q = p THEN "removed" ELSE people[q].state)
    BY <1>1 DEF PersonRow
<1>3. Owners' = Owners
    BY <1>1, <1>2 DEF Owners, Live
<1>4. SoundPeople' /\ Onward
    BY <1>2, <1>3 DEF IInv, SoundPeople, Onward, Absent, Live
<1>5. PICK S \in SUBSET Device : RevokedAll(S) /\ described' = described \ S
    BY DEF RemovePerson, Theirs
<1>6. /\ link' = [d \in Device |-> IF d \in Theirs(p) THEN None ELSE link[d]]
      /\ UNCHANGED <<space, answer, ours, code, pending, torn>> /\ (UNCHANGED faults \/ Fault)
    BY DEF RemovePerson
<1>7. /\ device' \in [Device -> DeviceRow] /\ described' \in SUBSET Device
      /\ \A d \in Device : /\ device'[d].person = device[d].person
                           /\ device'[d].state \in {device[d].state, "revoked"}
                           /\ device'[d].state = "absent" <=> device[d].state = "absent"
    BY <1>5 DEF RevokedAll, Known, IInv, SoundLinks, DeviceRow
<1>8. SoundLinks'
    <2>0. \A d \in Device : device[d].person \in Person \cup {None}
        BY DEF IInv, SoundLinks, DeviceRow
    <2>1. ASSUME NEW d \in Device, device'[d].state = "live", d \notin torn'
          PROVE  /\ link'[d] # None => device'[d].person = link'[d]
                 /\ link'[d] = None /\ device'[d].person # None => people'[device'[d].person].state # "live"
        <3>1. device[d].state = "live" /\ d \notin torn /\ device'[d].person = device[d].person
            BY <1>6, <1>7, <2>1
        <3>2. /\ link[d] # None => device[d].person = link[d]
              /\ link[d] = None /\ device[d].person # None => people[device[d].person].state # "live"
            BY <3>1 DEF IInv, SoundLinks, ListedIsEnforced, Live
        <3>3. link'[d] = IF link[d] = p THEN None ELSE link[d]
            BY <1>6 DEF Theirs
        <3>4. CASE link[d] = p
            BY <1>2, <3>1, <3>2, <3>3, <3>4, NobodyIsNone
        <3>5. CASE link[d] # p
            BY <1>2, <2>0, <3>1, <3>2, <3>3, <3>5
        <3> QED BY <3>4, <3>5
    <2>2. ASSUME NEW d \in Device, device'[d].person # None
          PROVE  people'[device'[d].person].state # "absent"
        <3>1. device'[d].person = device[d].person /\ device[d].person \in Person
            BY <1>7, <2>0, <2>2
        <3>2. people[device[d].person].state # "absent"
            BY <2>2, <3>1 DEF IInv, SoundLinks, Absent
        <3> QED BY <1>2, <3>1, <3>2
    <2>3. \A d \in Device : ~Known(d)' => link'[d] = None
        BY <1>6, <1>7 DEF IInv, SoundLinks, Theirs, Known
    <2>4. link' \in [Device -> Person \cup {None}]
        BY <1>6 DEF IInv, SoundLinks
    <2>5. ListedIsEnforced'
        BY <2>1 DEF ListedIsEnforced, Live
    <2>6. \A d \in Device : d \notin torn' => device'[d].person = ours'[d]
        BY <1>6, <1>7 DEF IInv, SoundLinks
    <2>7. ours' \in [Device -> Person \cup {None}] /\ torn' \in SUBSET Device
        BY <1>6 DEF IInv, SoundLinks
    <2> QED BY <1>7, <2>2, <2>3, <2>4, <2>5, <2>6, <2>7 DEF SoundLinks, Absent
<1> QED BY <1>3, <1>4, <1>6, <1>8, CodesStay, SetUpStays DEF IInv

-----------------------------------------------------------------------------
(* Set-up.                                                                  *)

\* The devices whose column was written are theirs; the others that were listed
\* are torn.
LEMMA AdoptedIsSound ==
    ASSUME IInv, NEW p \in Person, Owned(p),
           NEW L \in SUBSET Device, NEW T \in SUBSET L, \A d \in L : Known(d),
           Adopted(p, L, T)
    PROVE  SoundLinks'
<1>1. /\ link' = [d \in Device |-> IF d \in L THEN p ELSE link[d]]
      /\ described' = described \cup L
      /\ device' = [d \in Device |-> IF d \in T THEN [device[d] EXCEPT !.person = p] ELSE device[d]]
      /\ ours' = [d \in Device |-> IF d \in L THEN p ELSE ours[d]]
      /\ torn' = (torn \cup L) \ T
    BY DEF Adopted
<1>2. /\ link \in [Device -> Person \cup {None}] /\ described \in SUBSET Device
      /\ device \in [Device -> DeviceRow]
      /\ ours \in [Device -> Person \cup {None}] /\ torn \in SUBSET Device
    BY DEF IInv, SoundLinks
<1>3. /\ people[p].state = "absent" /\ people'[p].state = "live"
      /\ \A q \in Person : q # p => people'[q] = people[q]
    BY OwnedIsSound DEF Absent, Owners, Live
<1>4. \A d \in Device : device[d].person \in Person \cup {None}
    BY <1>2 DEF DeviceRow
<1>5. \A d \in Device : device[d].person # p
    BY <1>3, NobodyIsNone DEF IInv, SoundLinks, Absent
<1>6. \A d \in Device : /\ device'[d].person = (IF d \in T THEN p ELSE device[d].person)
                        /\ device'[d].state = device[d].state
    BY <1>1, <1>2 DEF DeviceRow
<1>7. device' \in [Device -> DeviceRow]
    BY <1>1, <1>2 DEF DeviceRow
<1>8. /\ link' \in [Device -> Person \cup {None}] /\ described' \in SUBSET Device
      /\ ours' \in [Device -> Person \cup {None}] /\ torn' \in SUBSET Device
    BY <1>1, <1>2
<1>9. \A d \in Device : d \notin torn' => device'[d].person = ours'[d]
    BY <1>1, <1>6 DEF IInv, SoundLinks
<1>10. \A d \in Device : ~Known(d)' => link'[d] = None
    BY <1>1, <1>6 DEF IInv, SoundLinks, Known
<1>11. \A d \in Device : device'[d].person # None => people'[device'[d].person].state # "absent"
    BY <1>3, <1>4, <1>6 DEF IInv, SoundLinks, Absent
<1>12. ListedIsEnforced'
    <2>1. ASSUME NEW d \in Device, device'[d].state = "live", d \notin torn'
          PROVE  /\ link'[d] # None => device'[d].person = link'[d]
                 /\ link'[d] = None /\ device'[d].person # None => people'[device'[d].person].state # "live"
        <3>1. CASE d \in L
            BY <1>1, <1>6, <2>1, <3>1, NobodyIsNone
        <3>2. CASE d \notin L
            <4>1. device[d].state = "live" /\ d \notin torn /\ link'[d] = link[d]
                  /\ device'[d].person = device[d].person
                BY <1>1, <1>6, <2>1, <3>2
            <4> QED BY <1>3, <1>4, <1>5, <4>1 DEF IInv, SoundLinks, ListedIsEnforced, Live
        <3> QED BY <3>1, <3>2
    <2> QED BY <2>1 DEF ListedIsEnforced, Live
<1> QED BY <1>7, <1>8, <1>9, <1>10, <1>11, <1>12 DEF SoundLinks, Absent

LEMMA LinkedIsSound ==
    ASSUME IInv, NEW p \in Person, Owned(p), NEW how, Linked(how, p)
    PROVE  SoundLinks'
<1>1. CASE how = "adopt"
    <2>1. Adopted(p, Centrals, Centrals) /\ Centrals \in SUBSET Device /\ \A d \in Centrals : Known(d)
        BY <1>1 DEF Linked, Centrals
    <2> QED BY <2>1, AdoptedIsSound
<1>2. CASE how # "adopt"
    BY <1>2, LinksStay, OwnedIsSound DEF Linked, IInv, SoundLinks
<1> QED BY <1>1, <1>2

LEMMA CutShortIsSound ==
    ASSUME IInv, Onward, CutShort
    PROVE  SoundCodes' /\ answer' \in {"refused", "none"}
BY CodesStay, CodesForgotten DEF CutShort

\* An answer of "done" comes with the Space and with the Owner.
LEMMA BeginsKeeps ==
    ASSUME IInv, Begins
    PROVE  IInv'
<1>1. /\ space' = TRUE /\ faults \in 0 .. MaxFaults
    BY DEF Begins, IInv, SoundSetUp
<1>2. CASE StopsAtOwner
    <2>1. SoundPeople' /\ Onward
        BY <1>2, PeopleStay DEF StopsAtOwner
    <2>2. SoundLinks'
        BY <1>2, <2>1, LinksStay DEF StopsAtOwner, IInv, SoundLinks
    <2>3. SoundCodes' /\ answer' \in {"refused", "none"}
        BY <1>2, <2>1, CutShortIsSound DEF StopsAtOwner
    <2>4. SoundSetUp'
        BY <1>1, <1>2, <2>3, FaultCounts DEF StopsAtOwner, SoundSetUp
    <2> QED BY <2>1, <2>2, <2>3, <2>4 DEF IInv
<1>3. ASSUME NEW p \in Person, Owned(p), SoundLinks',
             UNCHANGED faults \/ Fault,
             \/ CutShort
             \/ UNCHANGED <<code, pending>> /\ answer' = "done"
      PROVE  IInv'
    <2>1. SoundPeople' /\ Onward /\ Owners' # {}
        BY <1>3, OwnedIsSound
    <2>2. SoundCodes' /\ answer' \in {"none", "done", "refused"}
        BY <1>3, <2>1, CodesStay, CutShortIsSound
    <2>3. SoundSetUp'
        BY <1>1, <1>3, <2>1, <2>2, FaultCounts DEF SoundSetUp
    <2> QED BY <1>3, <2>1, <2>2, <2>3 DEF IInv
<1>4. ASSUME NEW p \in Person, AdoptsLoosely(p) \/ StopsAtLinks(p)
      PROVE  IInv'
    <2>1. Centrals \in SUBSET Device /\ \A d \in Centrals : Known(d)
        BY DEF Centrals
    <2>2. PICK L \in SUBSET Centrals, T \in SUBSET Centrals : T \subseteq L /\ Adopted(p, L, T)
        BY <1>4 DEF AdoptsLoosely, StopsAtLinks
    <2>3. Owned(p) /\ Fault
        BY <1>4 DEF AdoptsLoosely, StopsAtLinks
    <2>4. SoundLinks'
        BY <2>1, <2>2, <2>3, AdoptedIsSound
    <2>5. CutShort \/ (UNCHANGED <<code, pending>> /\ answer' = "done")
        BY <1>4 DEF AdoptsLoosely, StopsAtLinks
    <2> QED BY <1>3, <2>3, <2>4, <2>5
<1>5. ASSUME NEW how, NEW p \in Person, SetUp(how, p) \/ StopsAtCore(how, p)
      PROVE  IInv'
    BY <1>3, <1>5, LinkedIsSound DEF SetUp, StopsAtCore
<1> QED BY <1>2, <1>4, <1>5 DEF Begins

\* What is rolled back had nothing attached: the links were empty, and are.
LEMMA RollsBackKeeps ==
    ASSUME IInv, NEW how, NEW p \in Person, RollsBack(how, p)
    PROVE  IInv'
<1>1. /\ Fault /\ ~space /\ Owners = {} /\ answer' = "refused"
      /\ Linked(how, p) /\ ~Attached
      /\ UNCHANGED <<space, code, pending>>
      /\ people' = [q \in Person |-> IF people[q].state = "absent" /\ q # p THEN people[q]
                                     ELSE [people[q] EXCEPT !.state = "gone"]]
    BY DEF RollsBack
<1>2. \A q \in Person : /\ people'[q] \in PersonRow
                        /\ people'[q].state \in {"absent", "gone"}
                        /\ people[q].state # "absent" => people'[q].state = "gone"
    BY <1>1 DEF IInv, SoundPeople, PersonRow
<1>3. SoundPeople' /\ Onward
    BY <1>1, <1>2 DEF SoundPeople, Onward, Owners, Live, Absent
<1>4. UNCHANGED <<link, device, ours, torn, described>>
    <2>1. CASE how = "adopt"
        <3>1. Adopted(p, Centrals, Centrals)
            BY <1>1, <2>1 DEF Linked
        <3>2. Centrals = {}
            BY <1>1, <3>1, NobodyIsNone DEF Adopted, Attached, Centrals
        <3> QED BY <3>1, <3>2 DEF Adopted, IInv, SoundLinks
    <2>2. CASE how # "adopt"
        BY <1>1, <2>2 DEF Linked
    <2> QED BY <2>1, <2>2
<1>5. SoundLinks' /\ SoundCodes'
    BY <1>1, <1>3, <1>4, LinksStay, CodesStay DEF IInv, SoundLinks
<1>6. SoundSetUp'
    BY <1>1, FaultCounts DEF IInv, SoundSetUp
<1> QED BY <1>3, <1>5, <1>6 DEF IInv

-----------------------------------------------------------------------------
(* Whose a device is, and the rest of its life.                             *)

\* One device d changes: what has to be said of it for the links to be sound.
LEMMA OneLinkIsSound ==
    ASSUME IInv, UNCHANGED people, NEW d \in Device,
           NEW l \in Person \cup {None}, NEW row \in DeviceRow, NEW o \in Person \cup {None},
           row.person # None => ~Absent(row.person),
           row.state = "absent" => l = None,
           link' = [link EXCEPT ![d] = l],
           device' = [device EXCEPT ![d] = row],
           ours' = [ours EXCEPT ![d] = o],
           torn' \in {torn, torn \cup {d}, torn \ {d}}, described' \in SUBSET Device,
           d \notin torn' =>
              /\ row.person = o
              /\ row.state = "live" =>
                    /\ l # None => row.person = l
                    /\ l = None /\ row.person # None => ~Live(row.person)
    PROVE  SoundLinks'
<1>1. /\ link \in [Device -> Person \cup {None}] /\ device \in [Device -> DeviceRow]
      /\ ours \in [Device -> Person \cup {None}] /\ torn \in SUBSET Device
    BY DEF IInv, SoundLinks
<1>2. /\ link' \in [Device -> Person \cup {None}] /\ device' \in [Device -> DeviceRow]
      /\ ours' \in [Device -> Person \cup {None}] /\ torn' \in SUBSET Device
    BY <1>1
<1>3. /\ link'[d] = l /\ device'[d] = row /\ ours'[d] = o
      /\ \A x \in Device : x # d => /\ link'[x] = link[x] /\ device'[x] = device[x]
                                   /\ ours'[x] = ours[x] /\ (x \in torn' <=> x \in torn)
    BY <1>1
<1>4. ASSUME NEW x \in Device
      PROVE  /\ x \notin torn' => device'[x].person = ours'[x]
             /\ device'[x].state = "absent" => link'[x] = None
             /\ device'[x].person # None => people[device'[x].person].state # "absent"
             /\ device'[x].state = "live" /\ x \notin torn' =>
                   /\ link'[x] # None => device'[x].person = link'[x]
                   /\ link'[x] = None /\ device'[x].person # None => people[device'[x].person].state # "live"
    <2>1. CASE x = d
        BY <1>3, <2>1 DEF Absent, Live
    <2>2. CASE x # d
        BY <1>3, <2>2 DEF IInv, SoundLinks, ListedIsEnforced, Known, Absent, Live
    <2> QED BY <2>1, <2>2
<1>5. ListedIsEnforced'
    BY <1>4 DEF ListedIsEnforced, Live
<1> QED BY <1>2, <1>4, <1>5 DEF SoundLinks, Known, Absent

LEMMA AssociateIsSound ==
    ASSUME IInv, UNCHANGED <<people, described>>, NEW d \in Device,
           (\E p \in Person : Associate(d, p) \/ AssociateFails(d, p)) \/ Disassociate(d)
    PROVE  SoundLinks'
<1> DEFINE row(q) == [device[d] EXCEPT !.person = q]
<1>1. /\ device[d] \in DeviceRow /\ device[d].state # "absent"
      /\ device \in [Device -> DeviceRow] /\ ours \in [Device -> Person \cup {None}]
      /\ described' \in SUBSET Device
    BY DEF IInv, SoundLinks, Associate, AssociateFails, Disassociate, Known
<1>2. device[d].person # None => ~Absent(device[d].person)
    BY DEF IInv, SoundLinks
<1>3. ASSUME NEW p \in Person, Associate(d, p) PROVE SoundLinks'
    <2>1. ~Absent(p)
        BY <1>3 DEF Associate, OnFile, Absent
    <2>2. row(p) \in DeviceRow /\ row(p).state = device[d].state /\ row(p).person = p
        BY <1>1 DEF DeviceRow
    <2>3. /\ link' = [link EXCEPT ![d] = p] /\ ours' = [ours EXCEPT ![d] = p]
          /\ device' = [device EXCEPT ![d] = row(p)] /\ torn' = torn \ {d}
        BY <1>1, <1>3 DEF Associate
    <2> HIDE DEF row
    <2> QED BY <1>1, <2>1, <2>2, <2>3, NobodyIsNone, OneLinkIsSound
<1>4. ASSUME NEW p \in Person, AssociateFails(d, p) PROVE SoundLinks'
    <2>1. PICK l \in Person \cup {None} : link' = [link EXCEPT ![d] = l]
        BY <1>4 DEF AssociateFails
    <2>2. /\ ours' = [ours EXCEPT ![d] = ours[d]] /\ device' = [device EXCEPT ![d] = device[d]]
          /\ torn' = torn \cup {d}
        BY <1>1, <1>4 DEF AssociateFails
    <2> QED BY <1>1, <1>2, <2>1, <2>2, OneLinkIsSound
<1>5. CASE Disassociate(d)
    <2>1. link' = [link EXCEPT ![d] = None]
        BY <1>5 DEF Disassociate
    <2>2. CASE Fault /\ torn' = torn \cup {d} /\ UNCHANGED <<device, ours>>
        <3>1. ours' = [ours EXCEPT ![d] = ours[d]] /\ device' = [device EXCEPT ![d] = device[d]]
            BY <1>1, <2>2
        <3>2. d \in torn' /\ ours[d] \in Person \cup {None} /\ torn' = torn \cup {d}
            BY <1>1, <2>2
        <3> QED BY <1>1, <1>2, <2>1, <3>1, <3>2, OneLinkIsSound
    <2>3. CASE /\ device' = [device EXCEPT ![d].person = None]
               /\ ours' = [ours EXCEPT ![d] = None] /\ torn' = torn \ {d}
        <3>1. row(None) \in DeviceRow /\ row(None).state = device[d].state /\ row(None).person = None
            BY <1>1 DEF DeviceRow
        <3>2. device' = [device EXCEPT ![d] = row(None)]
            BY <1>1, <2>3
        <3> HIDE DEF row
        <3> QED BY <1>1, <2>1, <2>3, <3>1, <3>2, OneLinkIsSound
    <2> QED BY <1>5, <2>2, <2>3 DEF Disassociate
<1> QED BY <1>3, <1>4, <1>5

\* A role change or a revocation leaves whose the device is.
LEMMA CredentialIsSound ==
    ASSUME IInv, UNCHANGED <<people, link, ours, torn>>, NEW d \in Device,
           Describe(d) \/ Revoke(d) \/ \E role \in DeviceRole : SetRole(d, role)
    PROVE  SoundLinks'
<1>1. /\ device \in [Device -> DeviceRow] /\ ours \in [Device -> Person \cup {None}]
      /\ link \in [Device -> Person \cup {None}] /\ described \in SUBSET Device
      /\ device[d] \in DeviceRow /\ device[d].state # "absent"
    BY DEF IInv, SoundLinks, Describe, Revoke, SetRole, Known
<1>2. link' = [link EXCEPT ![d] = link[d]] /\ ours' = [ours EXCEPT ![d] = ours[d]]
    BY <1>1
<1>3. CASE Describe(d)
    <2>1. described' \in SUBSET Device /\ UNCHANGED device
        BY <1>1, <1>3 DEF Describe
    <2> QED BY <2>1, LinksStay, PeopleStay
<1>4. CASE Revoke(d) \/ \E role \in DeviceRole : SetRole(d, role)
    <2>1. PICK row \in DeviceRow :
              /\ device' = [device EXCEPT ![d] = row]
              /\ row.person = device[d].person /\ row.state \in {device[d].state, "revoked"}
        <3>1. CASE Revoke(d)
            <4>1. [device[d] EXCEPT !.state = "revoked"] \in DeviceRow
                BY <1>1 DEF DeviceRow
            <4> QED BY <1>1, <3>1, <4>1 DEF Revoke, DeviceRow
        <3>2. ASSUME NEW role \in DeviceRole, SetRole(d, role)
              PROVE  \E row \in DeviceRow :
                        /\ device' = [device EXCEPT ![d] = row]
                        /\ row.person = device[d].person /\ row.state \in {device[d].state, "revoked"}
            <4>1. [device[d] EXCEPT !.role = role] \in DeviceRow
                BY <1>1 DEF DeviceRow
            <4> QED BY <1>1, <3>2, <4>1 DEF SetRole, DeviceRow
        <3> QED BY <1>4, <3>1, <3>2
    <2>2. UNCHANGED described
        BY <1>4 DEF Revoke, SetRole
    <2>3. /\ row.person # None => ~Absent(row.person)
          /\ d \notin torn => row.person = ours[d]
        BY <2>1 DEF IInv, SoundLinks
    <2>4. row.state = "live" /\ d \notin torn =>
              /\ link[d] # None => row.person = link[d]
              /\ link[d] = None /\ row.person # None => ~Live(row.person)
        BY <2>1 DEF IInv, SoundLinks, ListedIsEnforced
    <2>5. link[d] \in Person \cup {None} /\ ours[d] \in Person \cup {None} /\ row.state # "absent"
        BY <1>1, <2>1
    <2>6. d \notin torn' =>
              /\ row.person = ours[d]
              /\ row.state = "live" =>
                    /\ link[d] # None => row.person = link[d]
                    /\ link[d] = None /\ row.person # None => ~Live(row.person)
        BY <2>3, <2>4
    <2>7. /\ torn' = torn /\ described' \in SUBSET Device
          /\ device' = [device EXCEPT ![d] = row]
        BY <1>1, <2>1, <2>2
    <2> QED BY <1>2, <2>3, <2>5, <2>6, <2>7, OneLinkIsSound
<1> QED BY <1>3, <1>4

LEMMA DevicesChangeKeeps ==
    ASSUME IInv, DevicesChange
    PROVE  IInv'
<1>1. /\ UNCHANGED <<space, answer, people>> /\ (UNCHANGED faults \/ Fault)
      /\ UNCHANGED <<code, pending>> \/ Forgotten
    BY DEF DevicesChange, Associate, AssociateFails, Disassociate
<1>2. SoundPeople' /\ Onward
    BY <1>1, PeopleStay
<1>3. SoundCodes'
    BY <1>1, <1>2, CodesStay, CodesForgotten
<1>4. SoundSetUp'
    BY <1>1, SetUpStays DEF Owners, Live
<1>5. SoundLinks'
    BY AssociateIsSound, CredentialIsSound DEF DevicesChange
<1> QED BY <1>2, <1>3, <1>4, <1>5 DEF IInv

-----------------------------------------------------------------------------
(* Pairing.                                                                 *)

\* A role is handed out in the name of somebody only while they are here.
LEMMA OnlyTheLiveGrant ==
    ASSUME NEW p \in Person, NEW asked \in DeviceRole,
           Narrower(asked, PersonGrants(p)) \in DeviceRole
    PROVE  Live(p)
BY DEF Narrower, PersonGrants, Rank, DeviceRole

LEMMA RememberIsSound ==
    ASSUME pending \in Seq(Code), NEW c \in Code, NEW who, Remember(c, who)
    PROVE  pending' \in Seq(Code)
<1>1. CASE who = None
    BY <1>1 DEF Remember
<1>2. CASE who # None
    <2>1. PersonMax \in Nat /\ PersonMax > 0 /\ Len(pending) \in Nat
        BY SpacesAssumption, LenProperties
    <2>2. CASE Len(pending) < PersonMax
        BY <1>2, <2>2, AppendProperties DEF Remember
    <2>3. CASE ~(Len(pending) < PersonMax)
        <3>1. pending # <<>>
            BY <2>1, <2>3, EmptySeq
        <3>2. Tail(pending) \in Seq(Code)
            BY <3>1, HeadTailProperties
        <3> QED BY <1>2, <2>3, <3>2, AppendProperties DEF Remember
    <2> QED BY <2>2, <2>3
<1> QED BY <1>1, <1>2

LEMMA WithoutIsSeq ==
    ASSUME pending \in Seq(Code), NEW c \in Code
    PROVE  Without(c) \in Seq(Code)
<1> DEFINE i == CHOOSE j \in DOMAIN pending : pending[j] = c
<1>1. Len(pending) \in Nat /\ DOMAIN pending = 1 .. Len(pending)
      /\ \A j \in 1 .. Len(pending) : pending[j] \in Code
    BY LenProperties, ElementOfSeq
<1>2. CASE Remembered(c)
    <2>1. i \in 1 .. Len(pending)
        BY <1>1, <1>2 DEF Remembered
    <2>2. Without(c) = SubSeq(pending, 1, i - 1) \o SubSeq(pending, i + 1, Len(pending))
        BY <1>2 DEF Without
    <2> HIDE DEF i
    <2>3. SubSeq(pending, 1, i - 1) \in Seq(Code)
        <3>1. 1 \in Int /\ i - 1 \in Int /\ \A j \in 1 .. i - 1 : pending[j] \in Code
            BY <1>1, <2>1
        <3> QED BY <3>1, SubSeqProperties
    <2>4. SubSeq(pending, i + 1, Len(pending)) \in Seq(Code)
        <3>1. i + 1 \in Int /\ Len(pending) \in Int /\ \A j \in i + 1 .. Len(pending) : pending[j] \in Code
            BY <1>1, <2>1
        <3> QED BY <3>1, SubSeqProperties
    <2> QED BY <2>2, <2>3, <2>4, ConcatProperties
<1>3. CASE ~Remembered(c)
    BY <1>3 DEF Without
<1> QED BY <1>2, <1>3

LEMMA PairCodeIsSound ==
    ASSUME IInv, UNCHANGED people, NEW c \in Code, NEW who \in Person \cup {None},
           NEW asked \in DeviceRole, PairCode(c, who, asked)
    PROVE  SoundCodes'
<1>1. PICK role \in DeviceRole :
          /\ code' = [code EXCEPT ![c] = [role |-> role, state |-> "live", person |-> who]]
          /\ role = IF who = None THEN asked ELSE Narrower(asked, PersonGrants(who))
    BY DEF PairCode
<1>2. who # None => ~Absent(who)
    BY <1>1, OnlyTheLiveGrant DEF Live, Absent
<1>3. [role |-> role, state |-> "live", person |-> who] \in CodeRow
    BY <1>1 DEF CodeRow
<1>4. code \in [Code -> CodeRow] /\ pending \in Seq(Code)
    BY DEF IInv, SoundCodes
<1>5. pending' \in Seq(Code)
    BY <1>4, RememberIsSound DEF PairCode
<1>6. ASSUME NEW x \in Code, code'[x].person # None
      PROVE  people[code'[x].person].state # "absent"
    BY <1>1, <1>2, <1>4, <1>6 DEF IInv, SoundCodes, Absent
<1> QED BY <1>1, <1>3, <1>4, <1>5, <1>6 DEF SoundCodes, Absent

\* A spent code still names the same person.
LEMMA SpentIsSound ==
    ASSUME IInv, UNCHANGED people, NEW c \in Code,
           code' = [code EXCEPT ![c].state = "spent"], pending' \in Seq(Code)
    PROVE  SoundCodes'
<1>1. code \in [Code -> CodeRow]
    BY DEF IInv, SoundCodes
<1>2. code' \in [Code -> CodeRow] /\ \A x \in Code : code'[x].person = code[x].person
    BY <1>1 DEF CodeRow
<1> QED BY <1>2 DEF IInv, SoundCodes, Absent

\* The row that is minted names the person of the code, or nobody; where that is
\* not whom the code was for, the device is torn.
LEMMA RedeemedIsSound ==
    ASSUME IInv, UNCHANGED <<people, described>>, NEW c \in Code, NEW d \in Device,
           Redeem(c, d) \/ RedeemCut(c, d)
    PROVE  SoundLinks'
<1> DEFINE p == code[c].person
           row(who) == [role |-> code[c].role, state |-> "live", person |-> who]
<1>1. /\ p \in Person \cup {None} /\ code[c].role \in DeviceRole /\ (p # None => ~Absent(p))
      /\ link[d] = None /\ link \in [Device -> Person \cup {None}] /\ described' \in SUBSET Device
    BY DEF IInv, SoundCodes, SoundLinks, CodeRow, Redeem, RedeemCut
<1>2. ours' = [ours EXCEPT ![d] = p]
    BY DEF Redeem, RedeemCut
<1>4. ASSUME NEW who \in {None, p}, NEW l \in Person \cup {None}, NEW t \in {torn, torn \cup {d}},
             device' = Minted(d, c, who), link' = [link EXCEPT ![d] = l], torn' = t,
             d \notin t =>
                /\ who = p
                /\ l # None => who = l
                /\ l = None /\ who # None => ~Live(who)
      PROVE  SoundLinks'
    <2>1. /\ row(who) \in DeviceRow /\ row(who).person = who /\ row(who).state = "live"
          /\ device' = [device EXCEPT ![d] = row(who)] /\ (who # None => ~Absent(who))
        BY <1>1, <1>4 DEF DeviceRow, Minted
    <2> HIDE DEF row, p
    <2>2. torn' \in {torn, torn \cup {d}, torn \ {d}}
        BY <1>4
    <2> QED BY <1>1, <1>2, <1>4, <2>1, <2>2, OneLinkIsSound
<1>5. CASE RedeemCut(c, d)
    BY <1>1, <1>4, <1>5 DEF RedeemCut
<1>6. CASE Redeem(c, d) /\ ~Remembered(c)
    BY <1>1, <1>4, <1>6 DEF Redeem
<1>7. CASE Redeem(c, d) /\ Remembered(c)
    <2>1. CASE /\ device' = Minted(d, c, p) /\ UNCHANGED torn
               /\ link' = [link EXCEPT ![d] = IF OnFile(p) THEN p ELSE None]
        <3>1. (IF OnFile(p) THEN p ELSE None) \in Person \cup {None}
            BY <1>1
        <3>2. ~OnFile(p) => ~Live(p)
            BY DEF OnFile, Live
        <3> QED BY <1>1, <1>4, <2>1, <3>1, <3>2
    <2>2. ASSUME NEW who \in {None, p}, NEW l \in {None, p},
                 device' = Minted(d, c, who), link' = [link EXCEPT ![d] = l], torn' = torn \cup {d}
          PROVE  SoundLinks'
        BY <1>1, <1>4, <2>2
    <2> QED BY <1>7, <2>1, <2>2 DEF Redeem
<1> QED BY <1>5, <1>6, <1>7

LEMMA PairingKeeps ==
    ASSUME IInv, Pairing
    PROVE  IInv'
<1>1. UNCHANGED <<space, answer, people, described>> /\ (UNCHANGED faults \/ Fault)
    BY DEF Pairing, PairCode, Expire, Redeem, RedeemCut
<1>2. SoundPeople' /\ Onward
    BY <1>1, PeopleStay
<1>3. SoundSetUp'
    BY <1>1, SetUpStays DEF Owners, Live
<1>4. pending \in Seq(Code)
    BY DEF IInv, SoundCodes
<1>5. PICK c \in Code :
          \/ \E who \in Person \cup {None}, asked \in DeviceRole : PairCode(c, who, asked)
          \/ Expire(c)
          \/ \E d \in Device : Redeem(c, d) \/ RedeemCut(c, d)
    BY DEF Pairing
<1>6. ASSUME NEW who \in Person \cup {None}, NEW asked \in DeviceRole, PairCode(c, who, asked)
      PROVE  SoundCodes' /\ SoundLinks'
    BY <1>1, <1>2, <1>6, PairCodeIsSound, LinksStay DEF PairCode, IInv, SoundLinks
<1>7. ASSUME Expire(c)
      PROVE  SoundCodes' /\ SoundLinks'
    <2>1. pending' \in Seq(Code) /\ code' = [code EXCEPT ![c].state = "spent"]
        BY <1>4, <1>7 DEF Expire
    <2>2. SoundCodes'
        BY <1>1, <2>1, SpentIsSound
    <2>3. SoundLinks'
        BY <1>1, <1>2, <1>7, LinksStay DEF Expire, IInv, SoundLinks
    <2> QED BY <2>2, <2>3
<1>8. ASSUME NEW d \in Device, Redeem(c, d)
      PROVE  SoundCodes' /\ SoundLinks'
    BY <1>1, <1>4, <1>8, SpentIsSound, WithoutIsSeq, RedeemedIsSound DEF Redeem
<1>9. ASSUME NEW d \in Device, RedeemCut(c, d)
      PROVE  SoundCodes' /\ SoundLinks'
    BY <1>1, <1>2, <1>9, CodesForgotten, RedeemedIsSound DEF RedeemCut
<1>10. SoundCodes' /\ SoundLinks'
    BY <1>5, <1>6, <1>7, <1>8, <1>9
<1> QED BY <1>2, <1>3, <1>10 DEF IInv

LEMMA RestartKeeps ==
    ASSUME IInv, Restart
    PROVE  IInv'
<1>1. SoundPeople' /\ Onward
    BY PeopleStay DEF Restart
<1>2. SoundLinks' /\ SoundCodes'
    BY <1>1, LinksStay, CodesForgotten DEF Restart, IInv, SoundLinks
<1>3. SoundSetUp'
    BY SetUpStays DEF Restart, Owners, Live
<1> QED BY <1>1, <1>2, <1>3 DEF IInv

-----------------------------------------------------------------------------
LEMMA StepKeeps == IInv /\ [Next]_vars => IInv'
<1> SUFFICES ASSUME IInv, [Next]_vars PROVE IInv'
    OBVIOUS
<1>1. CASE SetUps
    BY <1>1, BeginsKeeps, RollsBackKeeps DEF SetUps
<1>2. CASE PeopleChange
    BY <1>2, PeopleChangeKeeps
<1>3. CASE DevicesChange
    BY <1>3, DevicesChangeKeeps
<1>4. CASE Pairing
    BY <1>4, PairingKeeps
<1>5. CASE Restart
    BY <1>5, RestartKeeps
<1>6. CASE \E p \in Person : RemovePerson(p)
    BY <1>6, RemovePersonKeeps
<1>7. CASE UNCHANGED vars
    <2>1. SoundPeople' /\ Onward
        BY <1>7, PeopleStay DEF vars
    <2>2. SoundLinks' /\ SoundCodes'
        BY <1>7, <2>1, LinksStay, CodesStay DEF vars, IInv, SoundLinks
    <2>3. SoundSetUp'
        BY <1>7, SetUpStays DEF vars, Owners, Live
    <2> QED BY <2>1, <2>2, <2>3 DEF IInv
<1> QED BY <1>1, <1>2, <1>3, <1>4, <1>5, <1>6, <1>7 DEF Next

LEMMA Invariance == Spec => []IInv
BY InitIInv, StepKeeps, PTL DEF Spec

-----------------------------------------------------------------------------
(* The six stores keep their shapes.                                        *)
THEOREM SpacesTypeCorrect == Spec => []TypeOK
BY Parts, Invariance, PTL

(* Whatever set-ups, adoptions, undone set-ups, transfers, role changes and *)
(* removals follow each other, for any people: at most one Owner, and one   *)
(* from the moment set-up was answered (add_person, set_person_role,        *)
(* transfer_ownership).                                                     *)
THEOREM NeverTwoOwners == Spec => []OneOwner
BY Parts, Invariance, PTL

(* A device listed as a person's carries that person in the column the cap  *)
(* reads, unless a failing write or the end of the process came between the *)
(* two (associate, adopt, _claim_pairing_person).                           *)
THEOREM ListsWhatItEnforces == Spec => []ListedIsEnforced
BY Parts, Invariance, PTL

\* The cap is a ceiling, and a person who left leaves nothing.
LEMMA CapIsACeiling ==
    ASSUME NEW role \in DeviceRole, NEW p \in Person, people[p].role \in PersonRole
    PROVE  LET answered == Narrower(role, PersonGrants(p))
           IN  IF Live(p) THEN Rank(answered) <= Rank(Grants(people[p].role)) ELSE answered = "none"
<1>1. Rank(role) \in {2, 3}
    BY DEF Rank, DeviceRole
<1>2. Grants(people[p].role) \in {"central", "user", "guest"}
    BY DEF Grants, PersonRole
<1>3. Rank(Grants(people[p].role)) \in {1, 2, 3} /\ Rank("none") = 0
    BY <1>2 DEF Rank
<1>4. CASE Live(p)
    <2>1. Narrower(role, PersonGrants(p)) =
             IF Rank(role) <= Rank(Grants(people[p].role)) THEN role ELSE Grants(people[p].role)
        BY <1>4 DEF Narrower, PersonGrants
    <2> QED BY <1>1, <1>3, <1>4, <2>1
<1>5. CASE ~Live(p)
    <2>1. Narrower(role, PersonGrants(p)) = IF Rank(role) <= 0 THEN role ELSE "none"
        BY <1>3, <1>5 DEF Narrower, PersonGrants
    <2> QED BY <1>1, <1>5, <2>1
<1> QED BY <1>4, <1>5

(* Lowering a person's role, or removing the person, reaches every device   *)
(* that an operator said is theirs, for any people and devices: the device  *)
(* is answered as no more than that person's role of today allows, by the   *)
(* column alone and whatever was revoked (_apply_person_cap).               *)
THEOREM DemotionsReachDevices == Spec => []DemotionReaches
<1>1. ASSUME IInv, NEW d \in Device, ours[d] # None, d \notin torn, Effective(d) # "none"
      PROVE  Live(ours[d]) /\ Rank(Effective(d)) <= Rank(Grants(people[ours[d]].role))
    <2>1. /\ device[d].person = ours[d] /\ ours[d] \in Person /\ device[d].role \in DeviceRole
          /\ people[ours[d]].role \in PersonRole
        BY <1>1 DEF IInv, SoundLinks, SoundPeople, DeviceRow, PersonRow
    <2>2. Effective(d) = Narrower(device[d].role, PersonGrants(ours[d]))
        BY <1>1, <2>1 DEF Effective
    <2> QED BY <1>1, <2>1, <2>2, CapIsACeiling
<1>2. IInv => DemotionReaches
    BY <1>1 DEF DemotionReaches
<1> QED BY <1>2, Invariance, PTL
=============================================================================
