--------------------------- MODULE CredentialProofs ---------------------------
(***************************************************************************)
(* Theorems about the credentials of a household, for every set of ids,    *)
(* phones, codes, sockets, hosts and requests, with and without faults     *)
(* inside a mint: about Devices, which holds the rows, and about its two   *)
(* doors, PairingCodes and PairApprovals.  Each door does to the rows only *)
(* what Devices allows, so what is proved of Devices holds through either. *)
(***************************************************************************)
EXTENDS LiveSockets, PairApprovals, FiniteSetTheorems, SequenceTheorems, TLAPS

(* Devices: one invariant of the rows.                                     *)

KInv == DevicesTypeOK /\ OneLiveKey /\ GuestsExpire

-----------------------------------------------------------------------------
\* A mint adds one row and touches no other but those it retires.
LEMMA MintedRows ==
    ASSUME DevicesTypeOK, NEW d \in Id, NEW k \in Key, NEW temp \in BOOLEAN, NEW role \in Role,
           NEW retired \in SUBSET Id, d \notin retired, Minted(d, k, temp, role, retired)
    PROVE  /\ device' \in [Id -> Row]
           /\ device'[d] = NewRow(k, temp, role)
           /\ \A x \in Id : x # d => /\ device'[x].key = device[x].key
                                     /\ device'[x].temp = device[x].temp
                                     /\ device'[x].role = device[x].role
                                     /\ x \in retired => device'[x].state = "revoked"
                                     /\ x \notin retired => device'[x].state = device[x].state
<1>1. NewRow(k, temp, role) \in Row
    BY DEF NewRow, Row
<1>2. \A x \in Id : device[x] \in Row /\ [device[x] EXCEPT !.state = "revoked"] \in Row
    BY DEF DevicesTypeOK, Row
<1>3. device' \in [Id -> Row]
    BY <1>1, <1>2 DEF Minted
<1>4. device'[d] = NewRow(k, temp, role)
    BY DEF Minted
<1>5. ASSUME NEW x \in Id, x # d
      PROVE  /\ device'[x].key = device[x].key
             /\ device'[x].temp = device[x].temp
             /\ device'[x].role = device[x].role
             /\ x \in retired => device'[x].state = "revoked"
             /\ x \notin retired => device'[x].state = device[x].state
    <2>1. device'[x] = IF x \in retired THEN [device[x] EXCEPT !.state = "revoked"] ELSE device[x]
        BY <1>5 DEF Minted
    <2> QED BY <2>1, <1>2 DEF Row
<1> QED BY <1>3, <1>4, <1>5

\* The rows a mint retires are not the new one.
LEMMA RetiredAreOld ==
    ASSUME NEW d \in Id, NEW k \in Key, NEW temp \in BOOLEAN, ~Known(d)
    PROVE  Superseded(k, temp) \in SUBSET Id /\ d \notin Superseded(k, temp)
BY DEF Superseded, Known

\* Rows that only leave the live state or change role keep the keys apart.
LEMMA NoNewLive ==
    ASSUME OneLiveKey, untidy \subseteq untidy',
           \A x \in Id : /\ device'[x].key = device[x].key
                         /\ device'[x].temp = device[x].temp
                         /\ device'[x].state = "live" => device[x].state = "live"
    PROVE  OneLiveKey'
BY DEF OneLiveKey, Live

LEMMA MintStep ==
    ASSUME KInv, NEW d \in Id, NEW k \in Key, NEW temp \in BOOLEAN, NEW role \in Role,
           Mintable(temp, role), Mint(d, k, temp, role)
    PROVE  KInv'
<1> USE DEF KInv
<1> DEFINE old == Superseded(k, temp)
<1>1. old \in SUBSET Id /\ d \notin old
    BY RetiredAreOld DEF Mint
<1>2. /\ device' \in [Id -> Row]
      /\ device'[d] = NewRow(k, temp, role)
      /\ \A x \in Id : x # d => /\ device'[x].key = device[x].key
                                /\ device'[x].temp = device[x].temp
                                /\ device'[x].role = device[x].role
                                /\ x \in old => device'[x].state = "revoked"
                                /\ x \notin old => device'[x].state = device[x].state
    <2> HIDE DEF old
    <2>1. Minted(d, k, temp, role, old)
        BY DEF Mint, old
    <2> QED BY <1>1, <2>1, MintedRows
<1>3. DevicesTypeOK'
    BY <1>1, <1>2 DEF DevicesTypeOK, Mint
<1>4. GuestsExpire'
    BY <1>2 DEF GuestsExpire, Mintable, NewRow
<1>5. OneLiveKey'
    <2> SUFFICES ASSUME NEW p \in Phone, NEW t \in BOOLEAN, <<p, t>> \notin untidy',
                        NEW x \in Live(p, t)', NEW y \in Live(p, t)'
                 PROVE  x = y
        BY DEF OneLiveKey
    <2>1. CASE p = k /\ t = temp
        <3>1. \A z \in Id : z # d /\ z \in Live(p, t)' => FALSE
            BY <2>1, <1>2, DeviceAssumption DEF Live, Superseded
        <3> QED BY <3>1 DEF Live
    <2>2. CASE ~(p = k /\ t = temp)
        <3>1. <<p, t>> \notin untidy
            BY <2>2 DEF Mint
        <3>2. d \notin Live(p, t)'
            BY <2>2, <1>2 DEF Live, NewRow
        <3>3. \A z \in Id : z # d /\ z \in Live(p, t)' => z \in Live(p, t)
            BY <1>2 DEF Live, Superseded
        <3> QED BY <3>1, <3>2, <3>3 DEF OneLiveKey, Live
    <2> QED BY <2>1, <2>2
<1> QED BY <1>3, <1>4, <1>5

LEMMA MintCutStep ==
    ASSUME KInv, NEW d \in Id, NEW k \in Key, NEW temp \in BOOLEAN, NEW role \in Role,
           Mintable(temp, role), MintCut(d, k, temp, role)
    PROVE  KInv'
<1> USE DEF KInv
<1>1. PICK retired \in {{}, Superseded(k, temp)} : Minted(d, k, temp, role, retired)
    BY DEF MintCut
<1>2. retired \in SUBSET Id /\ d \notin retired
    BY <1>1, RetiredAreOld DEF MintCut
<1>3. /\ device' \in [Id -> Row]
      /\ device'[d] = NewRow(k, temp, role)
      /\ \A x \in Id : x # d => /\ device'[x].key = device[x].key
                                /\ device'[x].temp = device[x].temp
                                /\ device'[x].role = device[x].role
                                /\ x \in retired => device'[x].state = "revoked"
                                /\ x \notin retired => device'[x].state = device[x].state
    BY <1>1, <1>2, MintedRows
<1>4. untidy' = untidy \cup {<<k, temp>>} /\ grants' = grants
    BY DEF MintCut
<1>5. DevicesTypeOK'
    BY <1>3, <1>4 DEF DevicesTypeOK
<1>6. GuestsExpire'
    BY <1>3 DEF GuestsExpire, Mintable, NewRow
<1>7. OneLiveKey'
    <2> SUFFICES ASSUME NEW p \in Phone, NEW t \in BOOLEAN, <<p, t>> \notin untidy',
                        NEW x \in Live(p, t)', NEW y \in Live(p, t)'
                 PROVE  x = y
        BY DEF OneLiveKey
    <2>1. <<p, t>> \notin untidy /\ ~(p = k /\ t = temp)
        BY <1>4
    <2>2. d \notin Live(p, t)'
        BY <2>1, <1>3 DEF Live, NewRow
    <2>3. \A z \in Id : z # d /\ z \in Live(p, t)' => z \in Live(p, t)
        BY <1>3 DEF Live
    <2> QED BY <2>1, <2>2, <2>3 DEF OneLiveKey, Live
<1> QED BY <1>5, <1>6, <1>7

LEMMA RetractStep ==
    ASSUME KInv, Retract
    PROVE  KInv'
<1> USE DEF KInv
<1>1. PICK S \in SUBSET Id :
         device' = [x \in Id |-> IF x \in S THEN [device[x] EXCEPT !.state = "revoked"]
                                            ELSE device[x]]
    <2>1. ASSUME NEW d \in Id, Revoke(d)
          PROVE  device' = [x \in Id |-> IF x \in {d} THEN [device[x] EXCEPT !.state = "revoked"]
                                                      ELSE device[x]]
        BY <2>1 DEF Revoke, DevicesTypeOK
    <2>2. ASSUME NEW d \in Id, Revoke(d) PROVE {d} \in SUBSET Id
        OBVIOUS
    <2> QED BY <2>1, <2>2 DEF Retract, RevokeByOwner
<1>2. \A x \in Id : device[x] \in Row
    BY DEF DevicesTypeOK
<1>3. \A x \in Id : /\ device'[x] \in Row
                    /\ device'[x].key = device[x].key /\ device'[x].temp = device[x].temp
                    /\ device'[x].role = device[x].role
                    /\ device'[x].state = "live" => device[x].state = "live"
    BY <1>1, <1>2 DEF Row
<1>4. untidy' = untidy /\ grants' \in SUBSET Id
    BY DEF Retract, Revoke, RevokeByOwner, DevicesTypeOK
<1>5. DevicesTypeOK'
    BY <1>1, <1>3, <1>4 DEF DevicesTypeOK
<1> QED BY <1>3, <1>4, <1>5, NoNewLive DEF GuestsExpire

LEMMA SetRoleStep ==
    ASSUME KInv, NEW d \in Id, NEW role \in Role, SetRole(d, role)
    PROVE  KInv'
<1> USE DEF KInv
<1>1. \A x \in Id : device[x] \in Row
    BY DEF DevicesTypeOK
<1>2. \A x \in Id : device'[x] = IF x = d THEN [device[x] EXCEPT !.role = role] ELSE device[x]
    BY DEF SetRole, DevicesTypeOK
<1>3. \A x \in Id : /\ device'[x] \in Row
                    /\ device'[x].key = device[x].key /\ device'[x].temp = device[x].temp
                    /\ device'[x].state = device[x].state
                    /\ device'[x].role = "guest" => device[x].role = "guest"
    BY <1>1, <1>2 DEF Row, SetRole
<1>4. untidy' = untidy /\ grants' = grants /\ device' = [x \in Id |-> device'[x]]
    BY DEF SetRole, DevicesTypeOK
<1>5. DevicesTypeOK'
    BY <1>3, <1>4 DEF DevicesTypeOK
<1> QED BY <1>3, <1>4, <1>5, NoNewLive DEF GuestsExpire

LEMMA LapseStep ==
    ASSUME KInv, NEW d \in Id, Lapse(d)
    PROVE  KInv'
<1> USE DEF KInv
<1>1. \A x \in Id : device[x] \in Row
    BY DEF DevicesTypeOK
<1>2. \A x \in Id : device'[x] = IF x = d THEN [device[x] EXCEPT !.lapsed = TRUE] ELSE device[x]
    BY DEF Lapse, DevicesTypeOK
<1>3. \A x \in Id : /\ device'[x] \in Row
                    /\ device'[x].key = device[x].key /\ device'[x].temp = device[x].temp
                    /\ device'[x].state = device[x].state
                    /\ device'[x].role = device[x].role
    <2>1. device[d].temp
        BY DEF Lapse
    <2>2. [device[d] EXCEPT !.lapsed = TRUE] \in Row
        BY <1>1, <2>1 DEF Row
    <2> QED BY <1>1, <1>2, <2>2 DEF Row
<1>4. untidy' = untidy /\ grants' = grants /\ device' = [x \in Id |-> device'[x]]
    BY DEF Lapse, DevicesTypeOK
<1>5. DevicesTypeOK'
    BY <1>3, <1>4 DEF DevicesTypeOK
<1> QED BY <1>3, <1>4, <1>5, NoNewLive DEF GuestsExpire

LEMMA KInitial == DevicesInit => KInv
BY DeviceAssumption DEF DevicesInit, KInv, DevicesTypeOK, OneLiveKey, GuestsExpire, Live,
   NoRow, Row, Key

LEMMA KStep ==
    ASSUME KInv, [DevicesNext]_devVars
    PROVE  KInv'
<1>1. ASSUME NEW d \in Id, NEW k \in Key, NEW temp \in BOOLEAN, NEW role \in Role,
             Mintable(temp, role), Mint(d, k, temp, role) \/ MintCut(d, k, temp, role)
      PROVE  KInv'
    BY <1>1, MintStep, MintCutStep
<1>2. ASSUME NEW d \in Id, Grant(d) \/ RevokeGrant(d) PROVE KInv'
    BY <1>2 DEF KInv, Grant, RevokeGrant, DevicesTypeOK, OneLiveKey, GuestsExpire, Live
<1>3. CASE Administer
    BY <1>2, <1>3, RetractStep, SetRoleStep DEF Administer
<1>4. CASE UNCHANGED devVars
    BY <1>4 DEF KInv, devVars, DevicesTypeOK, OneLiveKey, GuestsExpire, Live
<1> QED BY <1>1, <1>3, <1>4, LapseStep DEF DevicesNext

LEMMA KInvariance == DevicesSpec => []KInv
BY KInitial, KStep, PTL DEF DevicesSpec

\* Every row, grant and history stays well formed.
THEOREM DevicesTypeCorrect == DevicesSpec => []DevicesTypeOK
BY KInvariance, PTL DEF KInv

\* However a phone pairs, it holds at most one live key of each kind, and its next
\* pairing repairs a mint that was cut short (supersede_same_device).
THEOREM KeysAreUnique == DevicesSpec => []OneLiveKey
BY KInvariance, PTL DEF KInv

\* No mint and no role change makes a guest without a deadline (set_role).
THEOREM GuestsAlwaysExpire == DevicesSpec => []GuestsExpire
BY KInvariance, PTL DEF KInv

\* A permanent row retires only the permanent rows of its own phone, and it is one
\* itself; a visitor's row retires no permanent row at all.
THEOREM NoLockout == DevicesSpec => PairingNeverLocksOut
<1> DEFINE Kept == (\E d \in Id : ~Known(d) /\ Known(d)') =>
                      \A k \in Phone : Live(k, FALSE) # {} => Live(k, FALSE)' # {}
<1>1. ASSUME KInv, [DevicesNext]_devVars PROVE Kept
    <2> SUFFICES ASSUME NEW d \in Id, ~Known(d), Known(d)', NEW p \in Phone,
                        NEW x \in Live(p, FALSE)
                 PROVE  Live(p, FALSE)' # {}
        OBVIOUS
    <2> USE <1>1 DEF KInv
    <2>1. ASSUME NEW e \in Id, NEW k \in Key, NEW temp \in BOOLEAN, NEW role \in Role,
                 Mint(e, k, temp, role) \/ MintCut(e, k, temp, role)
          PROVE  Live(p, FALSE)' # {}
        <3>1. PICK retired \in {{}, Superseded(k, temp)} : Minted(e, k, temp, role, retired)
            BY <2>1 DEF Mint, MintCut
        <3>2. ~Known(e) /\ retired \in SUBSET Id /\ e \notin retired
            BY <2>1, <3>1, RetiredAreOld DEF Mint, MintCut
        <3>3. /\ device'[e] = NewRow(k, temp, role)
              /\ \A z \in Id : z # e => /\ device'[z].key = device[z].key
                                        /\ device'[z].temp = device[z].temp
                                        /\ z \notin retired => device'[z].state = device[z].state
            BY <3>1, <3>2, MintedRows
        <3>4. x \in Id /\ x # e
            BY <3>2 DEF Live, Known
        <3>5. CASE x \notin retired
            BY <3>3, <3>4, <3>5 DEF Live
        <3>6. CASE x \in retired
            <4>1. k = p /\ temp = FALSE
                BY <3>6, <3>1 DEF Superseded, Live
            <4>2. e \in Live(p, FALSE)'
                BY <3>3, <4>1 DEF Live, NewRow
            <4> QED BY <4>2
        <3> QED BY <3>5, <3>6
    <2>2. CASE Administer
        <3>1. ASSUME NEW e \in Id, Revoke(e) PROVE FALSE
            BY <3>1 DEF Revoke, Known, DevicesTypeOK
        <3>2. ASSUME NEW S \in SUBSET Id, RevokeByOwner(S) PROVE FALSE
            BY <3>2 DEF RevokeByOwner, Known, DevicesTypeOK
        <3>3. ASSUME NEW e \in Id, NEW role \in Role, SetRole(e, role) PROVE FALSE
            BY <3>3 DEF SetRole, Known, DevicesTypeOK, Row
        <3> QED BY <2>2, <3>1, <3>2, <3>3 DEF Administer, Retract, Grant, RevokeGrant, Known
    <2>3. ASSUME NEW e \in Id, Lapse(e) PROVE FALSE
        BY <2>3 DEF Lapse, Known, DevicesTypeOK, Row
    <2>4. CASE UNCHANGED devVars
        BY <2>4 DEF devVars, Known
    <2> QED BY <2>1, <2>2, <2>3, <2>4 DEF DevicesNext
<1>2. KInv /\ [DevicesNext]_devVars => [Kept]_devVars
    BY <1>1
<1> QED BY <1>2, KInvariance, PTL DEF DevicesSpec, PairingNeverLocksOut

-----------------------------------------------------------------------------
(* PairingCodes: the rows, and the codes and throttle beside them.         *)

\* A code in circulation leads to a row that some invitation may mint.
CodesMintable ==
    \A c \in Code : code[c].stage # "none" => Mintable(code[c].temp, code[c].role)

\* Failures are counted against the hosts that made them.
FailuresAreOwn == \A ip \in Ip : ip \notin wrong => failed[ip] = 0

PInv == KInv /\ CodesTypeOK /\ CodesMintable /\ FailuresAreOwn

CodeEntry == [stage : Stage, temp : BOOLEAN, role : Role]
TicketEntry == [stage : Stage, device : Id \cup {"none"}]

-----------------------------------------------------------------------------
\* Purging empties entries and alters none.
LEMMA PurgedCodes ==
    ASSUME code \in [Code -> CodeEntry]
    PROVE  /\ Purged(code, NoCode) \in [Code -> CodeEntry]
           /\ \A c \in Code : Purged(code, NoCode)[c] \in {NoCode, code[c]}
BY DeviceAssumption DEF Purged, NoCode, Stage, CodeEntry

LEMMA PurgedTickets ==
    ASSUME ticket \in [Ticket -> TicketEntry]
    PROVE  /\ Purged(ticket, NoTicket) \in [Ticket -> TicketEntry]
           /\ \A t \in Ticket : Purged(ticket, NoTicket)[t] \in {NoTicket, ticket[t]}
BY DEF Purged, NoTicket, Stage, TicketEntry

\* Every step of the pairing layer is a step of Devices, or leaves the rows alone.
LEMMA StepRefines ==
    ASSUME PInv, [CodesNext]_codeVars
    PROVE  [DevicesNext]_devVars
<1>1. ASSUME NEW c \in Code, NEW ip \in Ip, NEW d \in Id, NEW k \in Key, Redeem(c, ip, d, k)
      PROVE  DevicesNext
    <2>1. code[c].temp \in BOOLEAN /\ code[c].role \in Role
        BY DEF PInv, CodesTypeOK
    <2>2. Mintable(code[c].temp, code[c].role)
        BY <1>1 DEF PInv, CodesMintable, Redeem
    <2> QED BY <1>1, <2>1, <2>2 DEF Redeem, DevicesNext
<1>2. CASE Administer \/ \E d \in Id : Lapse(d)
    BY <1>2 DEF DevicesNext
<1>3. CASE UNCHANGED codeVars
    BY <1>3 DEF codeVars, devVars
<1> QED BY <1>1, <1>2, <1>3 DEF CodesNext, MintCode, CodeExpires, RedeemWrong, FailureAges,
       MintTicket, TicketExpires, RedeemTicket, Restart, CodesAtWork

LEMMA PInitial == CodesInit => PInv
<1> SUFFICES ASSUME CodesInit PROVE PInv
    OBVIOUS
<1>1. KInv
    BY KInitial DEF CodesInit
<1>2. CodesTypeOK
    BY <1>1, DeviceAssumption, PairingAssumption
       DEF CodesInit, CodesTypeOK, KInv, NoCode, NoTicket, Stage
<1>3. CodesMintable /\ FailuresAreOwn
    BY DEF CodesInit, CodesMintable, FailuresAreOwn, NoCode
<1> QED BY <1>1, <1>2, <1>3 DEF PInv

-----------------------------------------------------------------------------
(* What each operation does to the layer's own state; KInv' comes from        *)
(* Devices.                                                                    *)

LEMMA MintCodeStep ==
    ASSUME PInv, KInv', NEW c \in Code, NEW temp \in BOOLEAN, NEW role \in Role, MintCode(c, temp, role)
    PROVE  PInv'
<1> USE DEF PInv
<1>1. code \in [Code -> CodeEntry] /\ ticket \in [Ticket -> TicketEntry]
    BY DEF CodesTypeOK, CodeEntry, TicketEntry
<1>2. Purged(code, NoCode) \in [Code -> CodeEntry]
    BY <1>1, PurgedCodes
<1>3. [stage |-> "live", temp |-> temp, role |-> role] \in CodeEntry
    BY DEF CodeEntry, Stage
<1>4. code' \in [Code -> CodeEntry]
    BY <1>2, <1>3 DEF MintCode
<1>5. /\ ticket' \in [Ticket -> TicketEntry]
      /\ \A t \in Ticket : ticket'[t].stage # "none" => ticket'[t].device \in Id
    BY <1>1, PurgedTickets DEF MintCode, CodesTypeOK, NoTicket
<1>6. issued' \in [Invitation -> Nat]
    BY DEF Invitation, MintCode, CountIssued, CodesTypeOK
<1>7. CodesTypeOK'
    BY <1>4, <1>5, <1>6 DEF KInv, MintCode, CodesTypeOK, CodeEntry, TicketEntry
<1>8. CodesMintable'
    <2>1. \A x \in Code : x # c => code'[x] \in {NoCode, code[x]}
        BY <1>1, PurgedCodes DEF MintCode
    <2>2. code'[c] = [stage |-> "live", temp |-> temp, role |-> role] /\ Mintable(temp, role)
        BY <1>2 DEF MintCode
    <2> QED BY <2>1, <2>2 DEF CodesMintable, NoCode, Mintable
<1> QED BY <1>7, <1>8 DEF FailuresAreOwn, MintCode

LEMMA CodeExpiresStep ==
    ASSUME PInv, KInv', NEW c \in Code, CodeExpires(c)
    PROVE  PInv'
<1> USE DEF PInv
<1>1. CodesTypeOK'
    BY DEF KInv, CodeExpires, CodesTypeOK, Stage, history
<1>2. CodesMintable'
    BY DEF CodesMintable, CodeExpires, CodesTypeOK, Mintable
<1> QED BY <1>1, <1>2 DEF FailuresAreOwn, CodeExpires, history

LEMMA RedeemWrongStep ==
    ASSUME PInv, KInv', NEW c \in Code, NEW ip \in Ip, RedeemWrong(c, ip)
    PROVE  PInv'
<1> USE DEF PInv
<1>1. code' = [code EXCEPT ![c] = NoCode]
    BY DEF RedeemWrong
<1>2. NoCode \in CodeEntry
    BY DeviceAssumption DEF NoCode, CodeEntry, Stage
<1>3. failed' \in [Ip -> 0 .. MaxFailed]
    BY PairingAssumption DEF RedeemWrong, Throttled, Bucket, CodesTypeOK
<1>4. CodesTypeOK'
    BY <1>1, <1>2, <1>3 DEF KInv, RedeemWrong, CodesTypeOK, CodeEntry
<1>5. CodesMintable'
    BY <1>1 DEF CodesMintable, CodesTypeOK, NoCode, Mintable
<1>6. FailuresAreOwn'
    BY DEF FailuresAreOwn, RedeemWrong, Bucket, CodesTypeOK
<1> QED BY <1>4, <1>5, <1>6

LEMMA RedeemStep ==
    ASSUME PInv, KInv', NEW c \in Code, NEW ip \in Ip, NEW d \in Id, NEW k \in Key, Redeem(c, ip, d, k)
    PROVE  PInv'
<1> USE DEF PInv
<1>1. code' = [code EXCEPT ![c] = NoCode] /\ UNCHANGED <<ticket, failed, history>>
    BY DEF Redeem
<1>2. NoCode \in CodeEntry
    BY DeviceAssumption DEF NoCode, CodeEntry, Stage
<1>3. CodesTypeOK'
    BY <1>1, <1>2 DEF KInv, CodesTypeOK, CodeEntry, history
<1>4. CodesMintable'
    BY <1>1 DEF CodesMintable, CodesTypeOK, NoCode, Mintable
<1> QED BY <1>1, <1>3, <1>4 DEF FailuresAreOwn, history

LEMMA FailureAgesStep ==
    ASSUME PInv, KInv', NEW ip \in Ip, FailureAges(ip)
    PROVE  PInv'
<1> USE DEF PInv
<1>1. failed' \in [Ip -> 0 .. MaxFailed]
    BY PairingAssumption DEF FailureAges, CodesTypeOK
<1>2. CodesTypeOK' /\ CodesMintable'
    BY <1>1 DEF KInv, FailureAges, CodesTypeOK, CodesMintable, Mintable, history
<1>3. FailuresAreOwn'
    BY DEF FailuresAreOwn, FailureAges, CodesTypeOK, history
<1> QED BY <1>2, <1>3

LEMMA MintTicketStep ==
    ASSUME PInv, KInv', NEW t \in Ticket, NEW d \in Id, MintTicket(t, d)
    PROVE  PInv'
<1> USE DEF PInv
<1>0. ticket \in [Ticket -> TicketEntry] /\ code \in [Code -> CodeEntry]
    BY DEF CodesTypeOK, CodeEntry, TicketEntry
<1>1. Purged(ticket, NoTicket) \in [Ticket -> TicketEntry]
    BY <1>0, PurgedTickets
<1>2. [stage |-> "live", device |-> d] \in TicketEntry
    BY DEF TicketEntry, Stage
<1>3. /\ ticket' \in [Ticket -> TicketEntry]
      /\ \A x \in Ticket : ticket'[x].stage # "none" => ticket'[x].device \in Id
    <2>1. ticket' = [Purged(ticket, NoTicket) EXCEPT ![t] = [stage |-> "live", device |-> d]]
        BY DEF MintTicket
    <2>2. \A x \in Ticket : x # t => ticket'[x] \in {NoTicket, ticket[x]}
        BY <2>1, <1>0, PurgedTickets
    <2> QED BY <2>1, <2>2, <1>1, <1>2 DEF NoTicket, CodesTypeOK
<1>4. code' \in [Code -> CodeEntry] /\ \A c \in Code : code'[c] \in {NoCode, code[c]}
    BY <1>0, PurgedCodes DEF MintTicket
<1>5. issued' \in [Invitation -> Nat]
    BY DEF Invitation, MintTicket, CountIssued, CodesTypeOK
<1>6. CodesTypeOK'
    BY <1>3, <1>4, <1>5 DEF KInv, MintTicket, CodesTypeOK, CodeEntry, TicketEntry
<1>7. CodesMintable'
    BY <1>4 DEF CodesMintable, NoCode, Mintable
<1> QED BY <1>6, <1>7 DEF FailuresAreOwn, MintTicket

LEMMA TicketExpiresStep ==
    ASSUME PInv, KInv', NEW t \in Ticket, TicketExpires(t)
    PROVE  PInv'
<1> USE DEF PInv
<1>1. CodesTypeOK'
    BY DEF KInv, TicketExpires, CodesTypeOK, Stage, history
<1> QED BY <1>1 DEF CodesMintable, Mintable, FailuresAreOwn, TicketExpires, history

LEMMA RedeemTicketStep ==
    ASSUME PInv, KInv', NEW t \in Ticket, RedeemTicket(t)
    PROVE  PInv'
<1> USE DEF PInv
<1>0. ticket \in [Ticket -> TicketEntry]
    BY DEF CodesTypeOK, TicketEntry
<1>1. NoTicket \in TicketEntry /\ ticket' = [ticket EXCEPT ![t] = NoTicket]
    BY DEF NoTicket, TicketEntry, Stage, RedeemTicket
<1>2. CodesTypeOK'
    BY <1>0, <1>1 DEF KInv, RedeemTicket, CodesTypeOK, NoTicket, TicketEntry, history
<1> QED BY <1>2 DEF CodesMintable, Mintable, FailuresAreOwn, RedeemTicket, history

LEMMA RestartStep ==
    ASSUME PInv, KInv', Restart
    PROVE  PInv'
<1> USE DEF PInv
<1>1. CodesTypeOK'
    BY DeviceAssumption, PairingAssumption
       DEF KInv, Restart, CodesTypeOK, NoCode, NoTicket, Stage, history
<1> QED BY <1>1 DEF CodesMintable, Mintable, FailuresAreOwn, Restart, NoCode

LEMMA PStep ==
    ASSUME PInv, [CodesNext]_codeVars
    PROVE  PInv'
<1>1. KInv'
    BY StepRefines, KStep DEF PInv
<1>2. CASE (Administer \/ \E d \in Id : Lapse(d)) /\ UNCHANGED <<memory, history>>
    BY <1>1, <1>2 DEF PInv, KInv, CodesTypeOK, CodesMintable, Mintable, FailuresAreOwn,
                      memory, history
<1>3. CASE UNCHANGED codeVars
    BY <1>1, <1>3 DEF PInv, KInv, CodesTypeOK, CodesMintable, Mintable, FailuresAreOwn, codeVars
<1> QED BY <1>1, <1>2, <1>3, MintCodeStep, CodeExpiresStep, RedeemWrongStep, RedeemStep,
           FailureAgesStep, MintTicketStep, TicketExpiresStep, RedeemTicketStep,
           RestartStep DEF CodesNext, CodesAtWork

LEMMA PInvariance == CodesSpec => []PInv
BY PInitial, PStep, PTL DEF CodesSpec

-----------------------------------------------------------------------------
\* Codes, tickets and throttle stay well formed; the throttle never
\* counts past its cap (redeem, mint_ticket).
THEOREM CodesTypeCorrect == CodesSpec => []CodesTypeOK
BY PInvariance, PTL DEF PInv

\* The pairing layer refines the store: its initial states are the store's and
\* every step of it is one of the store's or leaves the rows alone.
THEOREM CodesImplementDevices == CodesSpec => ImplementsDevices
<1>1. CodesInit => DevicesInit
    BY DEF CodesInit
<1> QED BY <1>1, PInvariance, StepRefines, PTL DEF CodesSpec, ImplementsDevices, DevicesSpec

\* Hence however codes are minted, tried and cut short, a phone holds at most one
\* live key of a kind.
THEOREM CodesKeepKeysUnique == CodesSpec => []OneLiveKey
BY CodesImplementDevices, KeysAreUnique, PTL DEF ImplementsDevices

\* The failures of other hosts never lock an honest one out (redeem's buckets).
THEOREM HonestHostsArePassed == CodesSpec => []HonestHostNotThrottled
<1>1. PInv => HonestHostNotThrottled
    BY PairingAssumption DEF PInv, FailuresAreOwn, HonestHostNotThrottled, Throttled, Bucket
<1> QED BY <1>1, PInvariance, PTL

\* One invitation, one key, needs more than the rows: a code that is in the
\* manager still counts, and is given back for the one row it mints.
Coded(temp) == {c \in Code : code[c].stage # "none" /\ code[c].temp = temp}
Kind(temp) == IF temp THEN "guest" ELSE "permanent"
Balanced ==
    \A temp \in BOOLEAN :
        /\ IsFiniteSet(Rows(temp)) /\ IsFiniteSet(Coded(temp))
        /\ Cardinality(Rows(temp)) + Cardinality(Coded(temp)) <= issued[Kind(temp)]

\* Sets that only shrink need no more invitations.
LEMMA FewerIsFine ==
    ASSUME NEW R, NEW C, NEW R2 \in SUBSET R, NEW C2 \in SUBSET C, NEW n \in Nat, NEW m \in Nat,
           IsFiniteSet(R), IsFiniteSet(C), Cardinality(R) + Cardinality(C) <= n, n <= m
    PROVE  IsFiniteSet(R2) /\ IsFiniteSet(C2) /\ Cardinality(R2) + Cardinality(C2) <= m
<1>1. /\ IsFiniteSet(R2) /\ Cardinality(R2) <= Cardinality(R)
      /\ IsFiniteSet(C2) /\ Cardinality(C2) <= Cardinality(C)
    BY FS_Subset
<1>2. /\ Cardinality(R) \in Nat /\ Cardinality(C) \in Nat
      /\ Cardinality(R2) \in Nat /\ Cardinality(C2) \in Nat
    BY <1>1, FS_CardinalityType
<1> QED BY <1>1, <1>2

\* One more element: at most one more invitation.
LEMMA OneMoreIsFine ==
    ASSUME NEW S, NEW x, IsFiniteSet(S)
    PROVE  /\ IsFiniteSet(S \cup {x}) /\ Cardinality(S) \in Nat
           /\ Cardinality(S \cup {x}) \in Nat /\ Cardinality(S \cup {x}) <= Cardinality(S) + 1
<1>1. /\ IsFiniteSet(S \cup {x})
      /\ Cardinality(S \cup {x}) \in {Cardinality(S), Cardinality(S) + 1}
    BY FS_AddElement
<1>2. Cardinality(S) \in Nat
    BY FS_CardinalityType
<1> QED BY <1>1, <1>2

\* What no mint does: no row appears and none changes its kind.
LEMMA NoMintKeepsRows ==
    ASSUME PInv, (Administer \/ \E d \in Id : Lapse(d)) \/ UNCHANGED device
    PROVE  \A temp \in BOOLEAN : Rows(temp)' = Rows(temp)
<1>1. \A d \in Id : Known(d)' = Known(d) /\ device'[d].temp = device[d].temp
    <2>1. device \in [Id -> Row]
        BY DEF PInv, KInv, DevicesTypeOK
    <2>2. ASSUME NEW e \in Id, Revoke(e) \/ Lapse(e)
          PROVE  \A d \in Id : Known(d)' = Known(d) /\ device'[d].temp = device[d].temp
        BY <2>1, <2>2 DEF Revoke, Lapse, Known, Row
    <2>3. ASSUME NEW e \in Id, NEW role, SetRole(e, role)
          PROVE  \A d \in Id : Known(d)' = Known(d) /\ device'[d].temp = device[d].temp
        BY <2>1, <2>3 DEF SetRole, Known, Row
    <2>4. ASSUME NEW S \in SUBSET Id, RevokeByOwner(S)
          PROVE  \A d \in Id : Known(d)' = Known(d) /\ device'[d].temp = device[d].temp
        BY <2>1, <2>4 DEF RevokeByOwner, Known, Row
    <2>5. CASE UNCHANGED device
        BY <2>5 DEF Known
    <2> QED BY <2>2, <2>3, <2>4, <2>5 DEF Administer, Retract, Grant, RevokeGrant
<1> QED BY <1>1 DEF Rows

\* A mint adds the row it is for, of the kind it is for.
LEMMA MintAddsOne ==
    ASSUME PInv, NEW d \in Id, NEW k \in Key, NEW temp \in BOOLEAN, NEW role \in Role,
           Mint(d, k, temp, role) \/ MintCut(d, k, temp, role)
    PROVE  /\ Rows(temp)' \subseteq Rows(temp) \cup {d}
           /\ \A other \in BOOLEAN \ {temp} : Rows(other)' \subseteq Rows(other)
<1>1. DevicesTypeOK /\ ~Known(d)
    BY DEF PInv, KInv, Mint, MintCut
<1>2. PICK retired \in SUBSET Superseded(k, temp) : Minted(d, k, temp, role, retired)
    BY DEF Mint, MintCut
<1>3. /\ device'[d] = NewRow(k, temp, role)
      /\ \A x \in Id : x # d => /\ device'[x].temp = device[x].temp
                                /\ x \notin retired => device'[x].state = device[x].state
    <2>1. retired \in SUBSET Id /\ d \notin retired
        BY <1>1, <1>2, RetiredAreOld
    <2> QED BY <1>1, <1>2, <2>1, MintedRows
<1>4. \A x \in Id : x # d /\ Known(x)' => Known(x)
    BY <1>2, <1>3 DEF Known, Superseded
<1>5. device'[d].temp = temp
    BY <1>3 DEF NewRow
<1> QED BY <1>3, <1>4, <1>5 DEF Rows

\* No invitation issued, no row made, no code added.
LEMMA NothingIssuedStep ==
    ASSUME PInv, Balanced, (Administer \/ \E d \in Id : Lapse(d)) \/ UNCHANGED device,
           \A c \in Code : code'[c].stage # "none" => code'[c].temp = code[c].temp /\ code[c].stage # "none",
           \A kind \in Invitation : issued[kind] <= issued'[kind] /\ issued'[kind] \in Nat
    PROVE  Balanced'
<1> SUFFICES ASSUME NEW temp \in BOOLEAN
             PROVE  /\ IsFiniteSet(Rows(temp)') /\ IsFiniteSet(Coded(temp)')
                    /\ Cardinality(Rows(temp)') + Cardinality(Coded(temp)') <= issued'[Kind(temp)]
    BY DEF Balanced, Kind
<1>1. Rows(temp)' \in SUBSET Rows(temp) /\ Coded(temp)' \in SUBSET Coded(temp)
    BY NoMintKeepsRows DEF Coded
<1>2. Kind(temp) \in Invitation
    BY DEF Kind, Invitation
<1>3. issued[Kind(temp)] \in Nat
    BY <1>2 DEF PInv, CodesTypeOK
<1>4. /\ IsFiniteSet(Rows(temp)) /\ IsFiniteSet(Coded(temp))
      /\ Cardinality(Rows(temp)) + Cardinality(Coded(temp)) <= issued[Kind(temp)]
    BY DEF Balanced
<1> QED BY <1>1, <1>2, <1>3, <1>4, FewerIsFine

LEMMA MintCodeBalanced ==
    ASSUME PInv, Balanced, NEW c \in Code, NEW temp \in BOOLEAN, NEW role \in Role, MintCode(c, temp, role)
    PROVE  Balanced'
<1> SUFFICES ASSUME NEW kind \in BOOLEAN
             PROVE  /\ IsFiniteSet(Rows(kind)') /\ IsFiniteSet(Coded(kind)')
                    /\ Cardinality(Rows(kind)') + Cardinality(Coded(kind)') <= issued'[Kind(kind)]
    BY DEF Balanced, Kind
<1>1. Rows(kind)' = Rows(kind)
    BY NoMintKeepsRows DEF MintCode, devVars
<1>2. /\ IsFiniteSet(Rows(kind)) /\ IsFiniteSet(Coded(kind))
      /\ Cardinality(Rows(kind)) + Cardinality(Coded(kind)) <= issued[Kind(kind)]
      /\ Kind(kind) \in Invitation /\ issued \in [Invitation -> Nat] /\ issued[Kind(kind)] \in Nat
    BY DEF Balanced, Kind, Invitation, PInv, CodesTypeOK
<1>3. issued' = [issued EXCEPT ![Kind(temp)] = @ + 1]
    BY DEF MintCode, CountIssued, Kind
<1>4. /\ code'[c] = [stage |-> "live", temp |-> temp, role |-> role]
      /\ \A b \in Code \ {c} : code'[b] \in {NoCode, code[b]}
    BY PurgedCodes DEF MintCode, PInv, CodesTypeOK, CodeEntry
<1>5. CASE kind = temp
    <2>1. Coded(kind)' \in SUBSET (Coded(kind) \cup {c})
        BY <1>4 DEF Coded, NoCode
    <2>2. /\ IsFiniteSet(Coded(kind) \cup {c}) /\ Cardinality(Coded(kind)) \in Nat
          /\ Cardinality(Coded(kind) \cup {c}) \in Nat
          /\ Cardinality(Coded(kind) \cup {c}) <= Cardinality(Coded(kind)) + 1
        BY <1>2, OneMoreIsFine
    <2>3. IsFiniteSet(Coded(kind)') /\ Cardinality(Coded(kind)') <= Cardinality(Coded(kind) \cup {c})
        BY <2>1, <2>2, FS_Subset
    <2>4. Cardinality(Rows(kind)) \in Nat /\ Cardinality(Coded(kind)') \in Nat
        BY <1>2, <2>3, FS_CardinalityType
    <2>5. issued'[Kind(kind)] = issued[Kind(kind)] + 1
        BY <1>2, <1>3, <1>5
    <2>6. Cardinality(Rows(kind)) + Cardinality(Coded(kind)') <= issued'[Kind(kind)]
        BY <1>2, <2>2, <2>3, <2>4, <2>5
    <2> QED BY <1>1, <1>2, <2>3, <2>6
<1>6. CASE kind # temp
    <2>1. Coded(kind)' \in SUBSET Coded(kind)
        BY <1>4, <1>6 DEF Coded, NoCode
    <2>2. issued'[Kind(kind)] = issued[Kind(kind)]
        BY <1>2, <1>3, <1>6 DEF Kind
    <2> QED BY <1>1, <1>2, <2>1, <2>2, FewerIsFine
<1> QED BY <1>5, <1>6

LEMMA RedeemBalanced ==
    ASSUME PInv, Balanced, NEW c \in Code, NEW ip \in Ip, NEW d \in Id, NEW k \in Key, Redeem(c, ip, d, k)
    PROVE  Balanced'
<1> DEFINE temp == code[c].temp
<1>1. /\ temp \in BOOLEAN /\ code[c].role \in Role /\ code[c].stage = "live"
      /\ Mint(d, k, temp, code[c].role) \/ MintCut(d, k, temp, code[c].role)
      /\ code' = [code EXCEPT ![c] = NoCode] /\ UNCHANGED issued
    BY DEF Redeem, PInv, CodesTypeOK, history
<1> SUFFICES ASSUME NEW kind \in BOOLEAN
             PROVE  /\ IsFiniteSet(Rows(kind)') /\ IsFiniteSet(Coded(kind)')
                    /\ Cardinality(Rows(kind)') + Cardinality(Coded(kind)') <= issued'[Kind(kind)]
    BY DEF Balanced, Kind
<1>2. /\ IsFiniteSet(Rows(kind)) /\ IsFiniteSet(Coded(kind))
      /\ Cardinality(Rows(kind)) + Cardinality(Coded(kind)) <= issued[Kind(kind)]
      /\ Kind(kind) \in Invitation /\ issued[Kind(kind)] \in Nat
    BY DEF Balanced, Kind, Invitation, PInv, CodesTypeOK
<1>3. Coded(kind)' \subseteq Coded(kind) \ {c}
    BY <1>1 DEF Coded, NoCode, PInv, CodesTypeOK
<1>4. CASE kind = temp
    <2>1. Rows(kind)' \in SUBSET (Rows(kind) \cup {d})
        BY <1>1, <1>4, MintAddsOne
    <2>2. c \in Coded(kind)
        BY <1>1, <1>4 DEF Coded
    <2>3. /\ IsFiniteSet(Coded(kind) \ {c})
          /\ Cardinality(Coded(kind) \ {c}) = Cardinality(Coded(kind)) - 1
        BY <1>2, <2>2, FS_RemoveElement
    <2>4. /\ IsFiniteSet(Rows(kind) \cup {d}) /\ Cardinality(Rows(kind)) \in Nat
          /\ Cardinality(Rows(kind) \cup {d}) \in Nat
          /\ Cardinality(Rows(kind) \cup {d}) <= Cardinality(Rows(kind)) + 1
        BY <1>2, OneMoreIsFine
    <2>5. Cardinality(Coded(kind)) \in Nat
        BY <1>2, FS_CardinalityType
    <2>6. Cardinality(Rows(kind) \cup {d}) + Cardinality(Coded(kind) \ {c}) <= issued[Kind(kind)]
        BY <1>2, <2>3, <2>4, <2>5
    <2>7. issued'[Kind(kind)] = issued[Kind(kind)]
        BY <1>1
    <2> QED BY <1>2, <1>3, <2>1, <2>3, <2>4, <2>6, <2>7, FewerIsFine
<1>5. CASE kind # temp
    <2>1. Rows(kind)' \in SUBSET Rows(kind) /\ Coded(kind)' \in SUBSET Coded(kind)
        BY <1>1, <1>3, <1>5, MintAddsOne
    <2>2. issued'[Kind(kind)] = issued[Kind(kind)]
        BY <1>1
    <2> QED BY <1>2, <2>1, <2>2, FewerIsFine
<1> QED BY <1>4, <1>5

LEMMA BalancedInitial == CodesInit => Balanced
<1> SUFFICES ASSUME CodesInit, NEW temp \in BOOLEAN
             PROVE  /\ IsFiniteSet(Rows(temp)) /\ IsFiniteSet(Coded(temp))
                    /\ Cardinality(Rows(temp)) + Cardinality(Coded(temp)) <= issued[Kind(temp)]
    BY DEF Balanced
<1>1. Rows(temp) = {} /\ Coded(temp) = {}
    BY DEF CodesInit, DevicesInit, NoRow, NoCode, Rows, Coded, Known
<1>2. issued[Kind(temp)] = 0
    BY DEF CodesInit, Kind, Invitation
<1>3. IsFiniteSet({}) /\ Cardinality({}) = 0
    BY FS_EmptySet
<1> QED BY ONLY <1>1, <1>2, <1>3

LEMMA BalancedStep ==
    ASSUME PInv, Balanced, [CodesNext]_codeVars
    PROVE  Balanced'
<1> DEFINE Fewer == \A c \in Code : code'[c].stage # "none" => code'[c].temp = code[c].temp /\ code[c].stage # "none"
           NotLess == \A kind \in Invitation : issued[kind] <= issued'[kind] /\ issued'[kind] \in Nat
           NoRows == (Administer \/ \E d \in Id : Lapse(d)) \/ UNCHANGED device
<1>1. code \in [Code -> CodeEntry] /\ issued \in [Invitation -> Nat]
    BY DEF PInv, CodesTypeOK, CodeEntry
<1>2. NotLess
    <2>1. ASSUME NEW kind, CountIssued(kind) PROVE NotLess
        BY <1>1, <2>1 DEF CountIssued
    <2>2. CASE UNCHANGED issued
        BY <1>1, <2>2
    <2> QED BY <2>1, <2>2 DEF CodesNext, CodesAtWork, MintCode, CodeExpires, RedeemWrong, Redeem, FailureAges,
           MintTicket, TicketExpires, RedeemTicket, Restart, history, codeVars
<1>3. ASSUME NEW c \in Code, CodeExpires(c) PROVE Fewer /\ NoRows
    BY <1>1, <1>3 DEF CodeExpires, CodeEntry, devVars
<1>4. ASSUME NEW c \in Code, NEW ip \in Ip, RedeemWrong(c, ip) PROVE Fewer /\ NoRows
    BY <1>1, <1>4 DEF RedeemWrong, NoCode, devVars
<1>5. ASSUME NEW t \in Ticket, NEW d \in Id, MintTicket(t, d) PROVE Fewer /\ NoRows
    <2>1. \A c \in Code : code'[c] \in {NoCode, code[c]}
        BY <1>1, <1>5, PurgedCodes DEF MintTicket
    <2> QED BY <1>5, <2>1 DEF MintTicket, NoCode, devVars
<1>6. CASE Restart
    <2>1. Fewer
        BY <1>6 DEF Restart, NoCode
    <2> QED BY <1>2, <1>6, <2>1, NothingIssuedStep DEF Restart, devVars
<1>7. CASE UNCHANGED code /\ NoRows
    BY <1>2, <1>7, NothingIssuedStep
<1>8. CASE \E c \in Code, ip \in Ip, d \in Id, k \in Key : Redeem(c, ip, d, k)
    BY <1>8, RedeemBalanced
<1>9. CASE \E c \in Code, temp \in BOOLEAN, role \in Role : MintCode(c, temp, role)
    BY <1>9, MintCodeBalanced
<1>10. Fewer /\ NoRows => Balanced'
    BY <1>2, NothingIssuedStep
<1> HIDE DEF Fewer, NotLess
<1> QED BY <1>3, <1>4, <1>5, <1>6, <1>7, <1>8, <1>9, <1>10 DEF CodesNext, CodesAtWork, codeVars, devVars, FailureAges,
       TicketExpires, RedeemTicket, memory

\* Every row of a kind answers to a code of that kind that was issued, and no code
\* to two (redeem pops the code before it mints the row).
THEOREM KeysWereInvited == CodesSpec => []OneInvitationOneKey
<1>1. PInv /\ Balanced => OneInvitationOneKey
    <2>1. ASSUME PInv, Balanced, NEW temp \in BOOLEAN PROVE Cardinality(Rows(temp)) <= issued[Kind(temp)]
        <3>1. /\ IsFiniteSet(Rows(temp)) /\ IsFiniteSet(Coded(temp))
              /\ Cardinality(Rows(temp)) + Cardinality(Coded(temp)) <= issued[Kind(temp)]
              /\ issued[Kind(temp)] \in Nat
            BY <2>1 DEF PInv, CodesTypeOK, Balanced, Kind, Invitation
        <3>2. Cardinality(Rows(temp)) \in Nat /\ Cardinality(Coded(temp)) \in Nat
            BY <3>1, FS_CardinalityType
        <3> QED BY <3>1, <3>2
    <2> QED BY <2>1 DEF Kind, OneInvitationOneKey
<1>2. Balanced /\ PInv /\ [CodesNext]_codeVars => Balanced'
    BY BalancedStep
<1> QED BY PInvariance, BalancedInitial, <1>1, <1>2, PTL DEF CodesSpec

-----------------------------------------------------------------------------
(* LiveSockets: the layer above, one more step away from the rows.          *)

\* Whatever a socket does, codes and tickets see a step of their own or none.
LEMMA LiveRefines == ASSUME [LiveNext]_liveVars PROVE [CodesNext]_codeVars
<1>1. ASSUME NEW s \in Socket, SocketStep(s) PROVE UNCHANGED codeVars
    BY <1>1 DEF SocketStep, Accepted, NextFrame, Sent, TimesOut, Disconnect, Becomes
<1>2. ASSUME NEW s \in Socket, NEW t \in Ticket, Authorize(s, t) PROVE CodesNext
    BY <1>2 DEF Authorize, CodesNext
<1> QED BY <1>1, <1>2 DEF LiveNext, CodesNext, Tick, liveVars, codeVars

\* The pairing layer keeps what is proved of it when sockets are opened.
THEOREM LiveImplementsCodes == LiveSpec => CodesSpec
<1>1. LiveInit => CodesInit
    BY DEF LiveInit
<1> QED BY <1>1, LiveRefines, PTL DEF LiveSpec, CodesSpec

\* How long a credential may have been lost, by where its socket's loop is.
Fresh(e, n) ==
    /\ e.stage = "accepting" => e.since = Never
    /\ e.since = Never => n <= e.age
    /\ e.since < Recheck => n <= e.since
    /\ e.since # Never /\ e.stage = "waiting" => n < Recheck + e.waited

SocketsOK ==
    /\ socket \in [Socket -> OpenSocket \cup {Closed}]
    /\ lost \in [Id -> 0 .. Enough]
Current == \A d \in Id : Entitled(d) => lost[d] = 0
LInv ==
    /\ SocketsOK
    /\ Current
    /\ \A s \in Socket : Open(s) => Fresh(socket[s], lost[Owner(s)])

LEMMA Numbers == Recheck \in Nat \ {0} /\ Never \in Nat /\ Enough \in Nat /\ Never = Recheck + 1 /\ Enough = 2 * Recheck
BY SocketAssumption DEF Never, Enough

\* An open entry, part by part.
LEMMA Parts ==
    ASSUME NEW e \in OpenSocket
    PROVE  /\ e.stage \in {"accepting", "waiting", "sending"} /\ e.device \in Id
           /\ e.since \in Nat /\ (e.since <= Recheck \/ e.since = Never)
           /\ e.waited \in 0 .. Recheck /\ e.age \in 0 .. Enough
BY Numbers DEF OpenSocket

LEMMA OpenIsTyped ==
    ASSUME SocketsOK, NEW s \in Socket, Open(s)
    PROVE  socket[s] \in OpenSocket /\ Owner(s) \in Id /\ lost[Owner(s)] \in 0 .. Enough
<1>1. socket[s] \in OpenSocket
    BY DEF SocketsOK, Open, Closed
<1> QED BY <1>1, Parts DEF SocketsOK, Owner

\* Less time lost is no harm.
LEMMA LessLost ==
    ASSUME NEW e \in OpenSocket, NEW n \in Nat, NEW m \in Nat, Fresh(e, n), m <= n
    PROVE  Fresh(e, m)
<1>1. e.since \in Nat /\ e.waited \in Nat /\ e.age \in Nat
    BY Parts, Numbers
<1> QED BY <1>1, Numbers DEF Fresh

\* Between two ticks no credential is lost for longer.
LEMMA LostKeptStep ==
    ASSUME SocketsOK, LostKept
    PROVE  /\ lost' \in [Id -> 0 .. Enough] /\ Current'
           /\ \A d \in Id : lost'[d] \in Nat /\ lost[d] \in Nat /\ lost'[d] <= lost[d]
<1>1. lost' = [d \in Id |-> IF Entitled(d)' \/ ~Watched(d)' THEN 0 ELSE lost[d]]
    BY DEF LostKept
<1>2. \A d \in Id : lost[d] \in 0 .. Enough /\ lost'[d] \in {0, lost[d]}
    BY <1>1 DEF SocketsOK
<1>3. \A d \in Id : lost'[d] \in 0 .. Enough
    BY <1>2, Numbers
<1>4. Current'
    BY <1>1 DEF Current
<1> QED BY <1>1, <1>2, <1>3, <1>4, Numbers

\* A step that leaves one socket with a fresh entry, or closed, and others alone.
LEMMA OneSocketStep ==
    ASSUME LInv, LostKept, NEW s \in Socket, NEW e \in OpenSocket \cup {Closed},
           socket' = [socket EXCEPT ![s] = e],
           e # Closed => Fresh(e, lost'[e.device])
    PROVE  LInv'
<1>1. /\ lost' \in [Id -> 0 .. Enough] /\ Current'
      /\ \A d \in Id : lost'[d] \in Nat /\ lost[d] \in Nat /\ lost'[d] <= lost[d]
    BY LostKeptStep DEF LInv
<1>2. socket' \in [Socket -> OpenSocket \cup {Closed}]
    BY DEF LInv, SocketsOK
<1>3. ASSUME NEW z \in Socket, Open(z)' PROVE Fresh(socket[z], lost[Owner(z)])'
    <2>1. CASE z = s
        <3>1. socket'[z] = e /\ e # Closed
            BY <1>3, <2>1 DEF LInv, SocketsOK, Open, Closed
        <3> QED BY <3>1 DEF Owner
    <2>2. CASE z # s
        <3>1. socket'[z] = socket[z] /\ Open(z)
            BY <1>3, <2>2 DEF LInv, SocketsOK, Open
        <3>2. Fresh(socket[z], lost[Owner(z)]) /\ socket[z] \in OpenSocket /\ Owner(z) \in Id
            BY <3>1, OpenIsTyped DEF LInv
        <3>3. Fresh(socket[z], lost'[Owner(z)])
            BY <1>1, <3>2, LessLost
        <3> QED BY <3>1, <3>3 DEF Owner
    <2> QED BY <2>1, <2>2
<1> QED BY <1>1, <1>2, <1>3 DEF LInv, SocketsOK

\* The end of a round: too early for a check, or a check that the credential passed.
LEMMA EndOfRoundStep ==
    ASSUME LInv, LostKept, UNCHANGED device, NEW s \in Socket, Open(s), ~At(s, "accepting"),
           socket' = [socket EXCEPT ![s] = EndOfRound(s)]
    PROVE  LInv'
<1>1. /\ socket[s] \in OpenSocket /\ Owner(s) \in Id
      /\ Fresh(socket[s], lost[Owner(s)])
    BY OpenIsTyped DEF LInv
<1>2. /\ \A d \in Id : lost'[d] \in Nat /\ lost[d] \in Nat /\ lost'[d] <= lost[d]
      /\ Current'
    BY LostKeptStep DEF LInv
<1>3. socket[s].since \in Nat /\ socket[s].device = Owner(s) /\ 0 \in 0 .. Enough /\ 0 \in 0 .. Recheck
    BY <1>1, Parts, Numbers DEF Owner
<1>4. CASE socket[s].since < Recheck
    <2> DEFINE e == Again(s, socket[s].since)
    <2>1. e \in OpenSocket
        BY <1>1, <1>3 DEF Again, OpenSocket
    <2>2. e.device = Owner(s) /\ e.stage = "waiting" /\ e.since = socket[s].since /\ e.waited = 0
        BY <1>1 DEF Again, OpenSocket, Owner
    <2>3. lost'[Owner(s)] <= socket[s].since
        BY <1>1, <1>2, <1>3, <1>4 DEF Fresh
    <2>4. Fresh(e, lost'[e.device])
        <3> HIDE DEF e
        <3> QED BY <1>1, <1>2, <1>3, <1>4, <2>2, <2>3, Numbers DEF Fresh
    <2>5. EndOfRound(s) = e
        BY <1>4 DEF EndOfRound
    <2> QED BY <2>1, <2>4, <2>5, OneSocketStep
<1>5. CASE ~(socket[s].since < Recheck) /\ Entitled(Owner(s))
    <2> DEFINE e == Again(s, 0)
    <2>1. e \in OpenSocket
        BY <1>1, <1>3 DEF Again, OpenSocket
    <2>2. e.device = Owner(s) /\ e.stage = "waiting" /\ e.since = 0 /\ e.waited = 0
        BY <1>1 DEF Again, OpenSocket, Owner
    <2>3. lost'[Owner(s)] = 0
        <3>1. Owner(s) \in Id /\ Valid(Owner(s)) /\ device[Owner(s)].role \in {"central", "user"}
            BY <1>1, <1>5 DEF Entitled
        <3>2. \A d \in Id : Entitled(d) => lost'[d] = 0
            BY <1>2 DEF Current, Entitled, Valid
        <3> QED BY <3>1, <3>2 DEF Entitled
    <2>4. Fresh(e, lost'[e.device])
        <3> HIDE DEF e
        <3> QED BY <2>2, <2>3, Numbers DEF Fresh
    <2>5. EndOfRound(s) = e
        BY <1>5 DEF EndOfRound
    <2> QED BY <2>1, <2>4, <2>5, OneSocketStep
<1>6. CASE ~(socket[s].since < Recheck) /\ ~Entitled(Owner(s))
    <2>1. EndOfRound(s) = Closed
        BY <1>6 DEF EndOfRound
    <2> QED BY <2>1, OneSocketStep
<1> QED BY <1>4, <1>5, <1>6

LEMMA AuthorizeStep ==
    ASSUME LInv, PInv, NEW s \in Socket, NEW t \in Ticket, Authorize(s, t)
    PROVE  LInv'
<1> DEFINE d == ticket[t].device
           e == [stage |-> "accepting", device |-> d, since |-> Never, waited |-> 0, age |-> 0]
<1>1. /\ LostKept /\ UNCHANGED devVars
      /\ ticket[t].stage # "none"
    BY DEF Authorize, RedeemTicket
<1>2. CASE UNCHANGED socket
    <2>1. socket' = [socket EXCEPT ![s] = socket[s]] /\ socket[s] = Closed
        BY <1>2 DEF LInv, SocketsOK, Open, OpenSocket, Authorize
    <2> QED BY <1>1, <2>1, OneSocketStep
<1>3. CASE Entitled(d) /\ Asked(s, t)
    <2>1. d \in Id
        BY <1>1 DEF PInv, CodesTypeOK
    <2>2. e \in OpenSocket
        BY <2>1, Numbers DEF OpenSocket
    <2>3. lost'[d] = 0
        <3>1. Current'
            BY <1>1, LostKeptStep DEF LInv
        <3>2. Valid(d) /\ device[d].role \in {"central", "user"} /\ device' = device
            BY <1>1, <1>3 DEF Entitled, devVars
        <3> QED BY <2>1, <3>1, <3>2 DEF Current, Entitled, Valid
    <2>4. Fresh(e, lost'[e.device])
        BY <2>3, Numbers DEF Fresh
    <2>5. socket' = [socket EXCEPT ![s] = e]
        BY <1>3 DEF Asked
    <2> HIDE DEF e
    <2> QED BY <1>1, <2>2, <2>4, <2>5, OneSocketStep
<1> QED BY <1>2, <1>3 DEF Authorize

LEMMA SocketLStep ==
    ASSUME LInv, NEW s \in Socket, SocketStep(s)
    PROVE  LInv'
<1>1. LostKept /\ UNCHANGED device
    BY DEF SocketStep, Accepted, NextFrame, Sent, TimesOut, Disconnect, Becomes, codeVars
<1>2. Open(s)
    BY DEF SocketStep, Accepted, NextFrame, Sent, TimesOut, Disconnect, At, Open
<1>3. /\ socket[s] \in OpenSocket /\ Owner(s) \in Id
      /\ Fresh(socket[s], lost[Owner(s)])
    BY <1>2, OpenIsTyped DEF LInv
<1>4. \A d \in Id : lost'[d] \in Nat /\ lost[d] \in Nat /\ lost'[d] <= lost[d]
    BY <1>1, LostKeptStep DEF LInv
<1>5. Fresh(socket[s], lost'[Owner(s)])
    BY <1>3, <1>4, LessLost
<1>6. CASE Sent(s) \/ TimesOut(s)
    BY <1>1, <1>2, <1>6, EndOfRoundStep DEF Sent, TimesOut, Becomes, At
<1>7. CASE Disconnect(s)
    BY <1>1, <1>7, OneSocketStep DEF Disconnect, Becomes
<1>8. ASSUME NEW stage \in {"waiting", "sending"},
             (stage = "waiting" /\ Accepted(s)) \/ (stage = "sending" /\ NextFrame(s))
      PROVE  LInv'
    <2> DEFINE e == [socket[s] EXCEPT !.stage = stage]
    <2>1. /\ e \in OpenSocket /\ e.device = Owner(s) /\ e.stage = stage
          /\ e.since = socket[s].since /\ e.age = socket[s].age /\ e.waited = socket[s].waited
        BY <1>3 DEF OpenSocket, Owner
    <2>2. stage = "waiting" => e.since = Never
        BY <1>3, <1>8, <2>1 DEF Accepted, At, Fresh
    <2>3. Fresh(e, lost'[e.device])
        <3> HIDE DEF e
        <3> QED BY <1>5, <1>8, <2>1, <2>2 DEF Fresh
    <2>4. socket' = [socket EXCEPT ![s] = e]
        BY <1>8 DEF Accepted, NextFrame, Becomes
    <2> HIDE DEF e
    <2> QED BY <1>1, <2>1, <2>3, <2>4, OneSocketStep
<1> QED BY <1>6, <1>7, <1>8 DEF SocketStep

\* One tick more, lost and counted alike.
LEMMA UpToStep ==
    ASSUME NEW b \in Nat, NEW n \in 0 .. b
    PROVE  UpTo(b, n) \in 0 .. b /\ UpTo(b, n) >= n /\ UpTo(b, n) <= n + 1
                /\ (UpTo(b, n) = n + 1 \/ (UpTo(b, n) = b /\ n = b))
BY DEF UpTo

LEMMA TickFresh ==
    ASSUME NEW e \in OpenSocket, NEW n \in 0 .. Enough, Fresh(e, n),
           e.stage = "waiting" => e.waited < Recheck,
           NEW f \in OpenSocket, f.stage = e.stage, f.since = UpTo(Recheck, e.since),
           f.age = IF e.since = Never THEN UpTo(Enough, e.age) ELSE e.age,
           f.waited = IF e.stage = "waiting" THEN e.waited + 1 ELSE e.waited
    PROVE  Fresh(f, UpTo(Enough, n))
<1>1. /\ e.since \in Nat /\ (e.since <= Recheck \/ e.since = Never)
      /\ e.waited \in Nat /\ e.age \in 0 .. Enough
    BY Parts, Numbers
<1>2. UpTo(Enough, n) \in Nat /\ UpTo(Enough, n) <= n + 1
    BY Numbers DEF UpTo
<1>3. e.since = Never /\ n <= e.age => UpTo(Enough, n) <= f.age
    BY <1>1, Numbers DEF UpTo
<1>4. f.since = Never <=> e.since = Never
    BY <1>1, Numbers DEF UpTo
<1>5. f.since < Recheck => e.since < Recheck /\ f.since = e.since + 1
    BY <1>1, Numbers DEF UpTo
<1> QED BY <1>1, <1>2, <1>3, <1>4, <1>5, Numbers DEF Fresh

LEMMA TickStep ==
    ASSUME LInv, Tick
    PROVE  LInv'
<1>1. /\ lost' = [d \in Id |-> IF Entitled(d) \/ ~Watched(d) THEN 0 ELSE UpTo(Enough, lost[d])]
      /\ UNCHANGED device
    BY DEF Tick, codeVars
<1>2. /\ \A d \in Id : lost[d] \in 0 .. Enough
      /\ \A d \in Id : lost'[d] \in {0, UpTo(Enough, lost[d])}
    BY <1>1 DEF LInv, SocketsOK
<1>3. \A d \in Id : UpTo(Enough, lost[d]) \in 0 .. Enough
    BY <1>2, UpToStep, Numbers
<1>4. lost' \in [Id -> 0 .. Enough]
    BY <1>1, <1>3, Numbers
<1>5. Current'
    BY <1>1 DEF Current, Entitled, Valid
<1>6. ASSUME NEW s \in Socket, Open(s)
      PROVE  /\ socket'[s] \in OpenSocket /\ Fresh(socket'[s], lost'[Owner(s)])
             /\ socket'[s].device = Owner(s)
    <2> DEFINE e == socket[s]  f == socket'[s]  n == lost[Owner(s)]
    <2>1. e \in OpenSocket /\ Owner(s) \in Id /\ n \in 0 .. Enough /\ Fresh(e, n)
        BY <1>6, OpenIsTyped DEF LInv
    <2>2. f = [e EXCEPT !.since = UpTo(Recheck, @),
                        !.age = IF e.since = Never THEN UpTo(Enough, @) ELSE @,
                        !.waited = IF At(s, "waiting") THEN @ + 1 ELSE @]
        BY <1>6 DEF Tick
    <2>3. At(s, "waiting") => e.waited < Recheck
        BY DEF Tick
    <2>4. UpTo(Enough, e.age) \in 0 .. Enough /\ e.waited \in 0 .. Recheck
        BY <2>1, Parts, UpToStep, Numbers
    <2>5. UpTo(Recheck, e.since) \in 0 .. Recheck \cup {Never}
        BY <2>1, Parts, Numbers DEF UpTo
    <2>6. (IF At(s, "waiting") THEN e.waited + 1 ELSE e.waited) \in 0 .. Recheck
        BY <2>3, <2>4, Numbers
    <2>7. /\ f.stage = e.stage /\ f.device = e.device /\ f.since = UpTo(Recheck, e.since)
          /\ f.age = IF e.since = Never THEN UpTo(Enough, e.age) ELSE e.age
          /\ f.waited = IF e.stage = "waiting" THEN e.waited + 1 ELSE e.waited
        BY <2>1, <2>2 DEF OpenSocket, At
    <2>8. f \in OpenSocket
        BY <2>1, <2>2, <2>4, <2>5, <2>6 DEF OpenSocket
    <2> HIDE DEF e, f, n
    <2>9. Fresh(f, UpTo(Enough, n))
        BY <2>1, <2>3, <2>7, <2>8, TickFresh DEF At, e
    <2>10. Fresh(f, lost'[Owner(s)])
        <3>1. UpTo(Enough, n) \in Nat /\ 0 <= UpTo(Enough, n)
            BY <2>1, UpToStep, Numbers
        <3>2. lost'[Owner(s)] \in {0, UpTo(Enough, n)}
            BY <1>2, <2>1 DEF n
        <3> QED BY <2>8, <2>9, <3>1, <3>2, LessLost
    <2> QED BY <2>7, <2>8, <2>10 DEF e, f, Owner
<1>7. ASSUME NEW s \in Socket, ~Open(s) PROVE socket'[s] = Closed
    BY <1>7 DEF Tick
<1>8. socket' \in [Socket -> OpenSocket \cup {Closed}]
    <2>1. socket' = [s \in Socket |-> socket'[s]]
        BY DEF Tick
    <2> QED BY <2>1, <1>6, <1>7
<1>9. ASSUME NEW s \in Socket, Open(s)' PROVE Fresh(socket[s], lost[Owner(s)])'
    <2>1. Open(s)
        BY <1>7, <1>9 DEF Open, Closed
    <2> QED BY <1>6, <2>1 DEF Owner
<1> QED BY <1>4, <1>5, <1>8, <1>9 DEF LInv, SocketsOK

LEMMA LStep ==
    ASSUME LInv, PInv, [LiveNext]_liveVars
    PROVE  LInv'
<1>1. CASE UNCHANGED socket /\ LostKept
    <2>1. lost' \in [Id -> 0 .. Enough] /\ Current'
        BY <1>1, LostKeptStep DEF LInv
    <2>2. ASSUME NEW s \in Socket, Open(s)' PROVE Fresh(socket[s], lost[Owner(s)])'
        <3>1. Open(s) /\ socket'[s] = socket[s]
            BY <1>1, <2>2 DEF Open
        <3>2. Fresh(socket[s], lost[Owner(s)]) /\ socket[s] \in OpenSocket /\ Owner(s) \in Id
            BY <3>1, OpenIsTyped DEF LInv
        <3>3. Fresh(socket[s], lost'[Owner(s)])
            BY <1>1, <3>2, LostKeptStep, LessLost DEF LInv
        <3> QED BY <3>1, <3>3 DEF Owner
    <2> QED BY <1>1, <2>1, <2>2 DEF LInv, SocketsOK
<1>2. CASE socket' = [s \in Socket |-> Closed] /\ LostKept
    <2>1. lost' \in [Id -> 0 .. Enough] /\ Current'
        BY <1>2, LostKeptStep DEF LInv
    <2> QED BY <1>2, <2>1 DEF LInv, SocketsOK, Open, Closed
<1>3. CASE UNCHANGED liveVars
    BY <1>3 DEF liveVars, LInv, SocketsOK, Current, Entitled, Valid, Open, Owner
<1> QED BY <1>1, <1>2, <1>3, AuthorizeStep, SocketLStep, TickStep DEF LiveNext

LEMMA LInvariance == LiveSpec => []LInv
<1>1. LiveInit => LInv
    <2> SUFFICES ASSUME LiveInit PROVE LInv
        OBVIOUS
    <2>1. SocketsOK
        BY Numbers DEF LiveInit, SocketsOK
    <2> QED BY <2>1 DEF LiveInit, LInv, Current, Open, Closed
<1>2. PInv /\ LInv /\ [LiveNext]_liveVars => LInv'
    BY LStep
<1>3. LiveSpec => []PInv
    BY LiveImplementsCodes, PInvariance, PTL
<1> QED BY <1>1, <1>2, <1>3, PTL DEF LiveSpec

\* Sockets, their clocks and the layers below stay well formed (live, _stream_live).
THEOREM LiveTypeCorrect == LiveSpec => []LiveTypeOK
<1>1. LInv /\ CodesTypeOK => LiveTypeOK
    BY DEF LInv, SocketsOK, LiveTypeOK
<1> QED BY <1>1, LInvariance, LiveImplementsCodes, CodesTypeCorrect, PTL

\* For any interval, any frames and any delays in accept and send, no frame begins
\* to go out to a credential that was lost two intervals ago, or before its socket
\* was asked for (_ws_authorize, _stream_live).
THEOREM LostCredentialsGetNoFrames == LiveSpec => FramesStop
<1> DEFINE InTime ==
        \A s \in Socket : Begins(s) =>
            \/ lost[Owner(s)] < 2 * Recheck
            \/ socket[s].since = Never /\ lost[Owner(s)] <= socket[s].age
<1>1. ASSUME LInv, NEW s \in Socket, Begins(s)
      PROVE  \/ lost[Owner(s)] < 2 * Recheck
             \/ socket[s].since = Never /\ lost[Owner(s)] <= socket[s].age
    <2>1. Open(s) /\ socket[s].stage = "waiting"
        BY <1>1 DEF Begins, At, Open
    <2>2. /\ Fresh(socket[s], lost[Owner(s)]) /\ socket[s] \in OpenSocket
          /\ lost[Owner(s)] \in Nat
        BY <1>1, <2>1, OpenIsTyped, Numbers DEF LInv
    <2>3. socket[s].waited \in 0 .. Recheck
        BY <2>2, Parts
    <2> QED BY <2>1, <2>2, <2>3, Numbers DEF Fresh
<1>2. LInv => [InTime]_liveVars
    BY <1>1
<1> QED BY <1>2, LInvariance, PTL DEF FramesStop

-----------------------------------------------------------------------------
(* PairApprovals.  Every purge and eviction leaves a queue that is drawn    *)
(* from the earlier one: each request stands once, as it was.               *)

Drawn(t, s, S) ==
    \E f \in Injection(DOMAIN t, S) : \A i \in DOMAIN t : t[i] = s[f[i]]

\* A finite set of numbers has an n-th smallest: how many are at most i is
\* another number for each i, so every count up to the size is met.
LEMMA NthExists ==
    ASSUME NEW S, S \subseteq Nat, IsFiniteSet(S), NEW n \in 1 .. Cardinality(S)
    PROVE  Nth(S, n) \in S /\ Cardinality({j \in S : j <= Nth(S, n)}) = n
<1> DEFINE upto(i) == {j \in S : j <= i}
           f == [i \in S |-> Cardinality(upto(i))]
           C == 1 .. Cardinality(S)
<1>1. Cardinality(S) \in Nat
    BY FS_CardinalityType
<1>2. IsFiniteSet(C) /\ Cardinality(C) = Cardinality(S)
    <2>1. 1 \in Int /\ Cardinality(S) \in Int
        BY <1>1
    <2> QED BY <1>1, <2>1, FS_Interval
<1>3. ASSUME NEW i \in S
      PROVE  /\ IsFiniteSet(upto(i)) /\ Cardinality(upto(i)) \in C
    <2>1. upto(i) \in SUBSET S /\ upto(i) # {}
        BY <1>3
    <2>2. IsFiniteSet(upto(i)) /\ Cardinality(upto(i)) <= Cardinality(S)
        BY <2>1, FS_Subset
    <2>3. Cardinality(upto(i)) \in Nat /\ Cardinality(upto(i)) # 0
        BY <2>1, <2>2, FS_CardinalityType, FS_EmptySet
    <2> HIDE DEF upto
    <2> QED BY <1>1, <2>2, <2>3
<1>4. ASSUME NEW i \in S, NEW k \in S, i < k
      PROVE  Cardinality(upto(i)) # Cardinality(upto(k))
    <2>1. (\A j \in S : j <= i => j <= k) /\ k <= k /\ ~(k <= i)
        BY <1>4
    <2>2. upto(i) \in SUBSET upto(k) /\ k \in upto(k) /\ k \notin upto(i)
        BY <2>1
    <2> QED BY <1>3, <2>2, FS_Subset
<1>5. f \in Injection(S, C)
    <2>1. f \in [S -> C]
        BY <1>3
    <2>2. ASSUME NEW i \in S, NEW k \in S, f[i] = f[k] PROVE i = k
        <3>1. Cardinality(upto(i)) = Cardinality(upto(k))
            BY <2>2
        <3>2. i < k \/ k < i \/ i = k
            OBVIOUS
        <3> HIDE DEF upto, f
        <3> QED BY <1>4, <3>1, <3>2
    <2> HIDE DEF f, C
    <2> QED BY <2>1, <2>2 DEF Injection, IsInjective
<1>6. f \in Surjection(S, C)
    BY <1>2, <1>5, FS_Injection
<1>7. PICK i \in S : f[i] = n
    <2> HIDE DEF f
    <2> QED BY <1>6 DEF Surjection
<1>8. Cardinality(upto(i)) = n
    BY <1>7
<1> QED BY <1>8 DEF Nth

LEMMA LeastExists ==
    ASSUME NEW S, S \subseteq Nat, IsFiniteSet(S), S # {}
    PROVE  (CHOOSE i \in S : \A j \in S : i <= j) \in S
<1> DEFINE least == Nth(S, 1)
           upto == {j \in S : j <= least}
<1>1. 1 \in 1 .. Cardinality(S)
    BY FS_CardinalityType, FS_EmptySet
<1>2. least \in S /\ Cardinality(upto) = 1
    BY <1>1, NthExists
<1>3. IsFiniteSet(upto)
    BY FS_Subset
<1>4. \A j \in upto : j = least
    <2>1. PICK x : upto = {x}
        BY <1>2, <1>3, FS_Singleton
    <2>2. least \in S /\ least <= least
        <3> HIDE DEF least
        <3> QED BY <1>2
    <2> QED BY <2>1, <2>2
<1>5. \A j \in S : least <= j
    <2> HIDE DEF least
    <2> QED BY <1>2, <1>4
<1> QED BY <1>2, <1>5

LEMMA OnlyIsDrawn ==
    ASSUME NEW T, NEW s \in Seq(T), NEW S \in SUBSET DOMAIN s
    PROVE  /\ Only(s, S) \in Seq(T)
           /\ Len(Only(s, S)) = Cardinality(S)
           /\ Drawn(Only(s, S), s, S)
<1>1. Len(s) \in Nat /\ DOMAIN s = 1 .. Len(s) /\ \A i \in DOMAIN s : s[i] \in T
    BY LenProperties, ElementOfSeq
<1>2. IsFiniteSet(S) /\ Cardinality(S) \in Nat /\ S \subseteq Nat
    <2>1. 1 \in Int /\ Len(s) \in Int
        BY <1>1
    <2>2. IsFiniteSet(DOMAIN s)
        BY <1>1, <2>1, FS_Interval
    <2> QED BY <1>1, <2>2, FS_Subset, FS_CardinalityType
<1> DEFINE m == Cardinality(S)
           f == [n \in 1 .. m |-> Nth(S, n)]
<1>3. \A n \in 1 .. m : Nth(S, n) \in S /\ Cardinality({j \in S : j <= Nth(S, n)}) = n
    BY <1>2, NthExists
<1>4. Only(s, S) \in [1 .. m -> T]
    BY <1>1, <1>3 DEF Only
<1>5. Only(s, S) \in Seq(T)
    BY <1>2, <1>4, SeqDef
<1>6. DOMAIN Only(s, S) = 1 .. m
    BY DEF Only
<1>7. Len(Only(s, S)) = m
    BY <1>2, <1>5, <1>6, LenProperties
<1>8. f \in Injection(1 .. m, S)
    <2>1. f \in [1 .. m -> S]
        BY <1>3
    <2>2. \A a, b \in 1 .. m : f[a] = f[b] => a = b
        BY <1>3
    <2> HIDE DEF f, m
    <2> QED BY <2>1, <2>2 DEF Injection, IsInjective
<1>9. \A n \in 1 .. m : Only(s, S)[n] = s[f[n]]
    BY DEF Only
<1> QED BY <1>5, <1>6, <1>7, <1>8, <1>9 DEF Drawn

LEMMA DrawnAgain ==
    ASSUME NEW s, NEW t, NEW u, NEW S, S \subseteq DOMAIN s,
           Drawn(t, s, S), Drawn(u, t, DOMAIN t)
    PROVE  Drawn(u, s, S)
<1>1. PICK f \in Injection(DOMAIN t, S) : \A i \in DOMAIN t : t[i] = s[f[i]]
    BY DEF Drawn
<1>2. PICK g \in Injection(DOMAIN u, DOMAIN t) : \A i \in DOMAIN u : u[i] = t[g[i]]
    BY DEF Drawn
<1> DEFINE h == [i \in DOMAIN u |-> f[g[i]]]
<1>3. /\ f \in [DOMAIN t -> S] /\ \A i, j \in DOMAIN t : f[i] = f[j] => i = j
      /\ g \in [DOMAIN u -> DOMAIN t] /\ \A i, j \in DOMAIN u : g[i] = g[j] => i = j
    BY <1>1, <1>2 DEF Injection, IsInjective
<1>4. h \in Injection(DOMAIN u, S)
    BY <1>3 DEF Injection, IsInjective
<1>5. \A i \in DOMAIN u : u[i] = s[h[i]]
    BY <1>1, <1>2, <1>3
<1> HIDE DEF h
<1> QED BY <1>4, <1>5 DEF Drawn

LEMMA DrawnWhole == ASSUME NEW s PROVE Drawn(s, s, DOMAIN s)
<1> DEFINE f == [i \in DOMAIN s |-> i]
<1>1. f \in Injection(DOMAIN s, DOMAIN s) /\ \A i \in DOMAIN s : s[i] = s[f[i]]
    BY DEF Injection, IsInjective
<1> HIDE DEF f
<1> QED BY <1>1 DEF Drawn

LEMMA TailIsDrawn ==
    ASSUME NEW T, NEW s \in Seq(T), s # <<>>
    PROVE  /\ Tail(s) \in Seq(T) /\ Len(Tail(s)) = Len(s) - 1
           /\ Drawn(Tail(s), s, DOMAIN s)
<1>1. /\ Tail(s) \in Seq(T) /\ Len(Tail(s)) = Len(s) - 1
      /\ \A i \in 1 .. Len(Tail(s)) : Tail(s)[i] = s[i + 1]
    BY HeadTailProperties
<1>2. /\ Len(s) \in Nat /\ DOMAIN s = 1 .. Len(s) /\ Len(s) > 0
      /\ DOMAIN Tail(s) = 1 .. Len(s) - 1
    BY <1>1, LenProperties, EmptySeq
<1> DEFINE f == [i \in DOMAIN Tail(s) |-> i + 1]
<1>3. f \in [DOMAIN Tail(s) -> DOMAIN s] /\ \A i, j \in DOMAIN Tail(s) : f[i] = f[j] => i = j
    BY <1>2
<1>4. \A i \in DOMAIN Tail(s) : Tail(s)[i] = s[f[i]]
    BY <1>1, <1>2
<1> HIDE DEF f
<1>5. f \in Injection(DOMAIN Tail(s), DOMAIN s)
    BY <1>3 DEF Injection, IsInjective
<1> QED BY <1>1, <1>4, <1>5 DEF Drawn

\* How many of a host are pending in a queue drawn from the positions in S.
LEMMA MineOfDrawn ==
    ASSUME NEW s, NEW t, NEW S, S \subseteq DOMAIN s, Drawn(t, s, S), NEW ip, IsFiniteSet(DOMAIN s)
    PROVE  /\ IsFiniteSet(Mine(t, ip)) /\ Cardinality(Mine(t, ip)) \in Nat
           /\ IsFiniteSet(Mine(s, ip)) /\ Cardinality(Mine(s, ip)) \in Nat
           /\ Cardinality(Mine(t, ip)) <= Cardinality(Mine(s, ip) \cap S)
           /\ Cardinality(Mine(t, ip)) <= Cardinality(Mine(s, ip))
<1>1. PICK f \in Injection(DOMAIN t, S) : \A i \in DOMAIN t : t[i] = s[f[i]]
    BY DEF Drawn
<1> DEFINE g == [i \in Mine(t, ip) |-> f[i]]
           R == Mine(s, ip) \cap S
<1>2. /\ f \in [DOMAIN t -> S] /\ \A i, j \in DOMAIN t : f[i] = f[j] => i = j
      /\ Mine(t, ip) \subseteq DOMAIN t
    BY <1>1 DEF Injection, IsInjective, Mine
<1>3. g \in Injection(Mine(t, ip), R)
    <2>1. \A i \in Mine(t, ip) : f[i] \in R
        BY <1>1, <1>2 DEF Mine
    <2>2. g \in [Mine(t, ip) -> R] /\ \A i, j \in Mine(t, ip) : g[i] = g[j] => i = j
        BY <1>2, <2>1
    <2> HIDE DEF g
    <2> QED BY <2>2 DEF Injection, IsInjective
<1>4. Mine(s, ip) \in SUBSET DOMAIN s /\ R \in SUBSET Mine(s, ip)
    BY DEF Mine
<1> HIDE DEF g, R
<1>5. /\ IsFiniteSet(Mine(s, ip)) /\ Cardinality(Mine(s, ip)) \in Nat
      /\ IsFiniteSet(R) /\ Cardinality(R) \in Nat /\ Cardinality(R) <= Cardinality(Mine(s, ip))
    <2>1. IsFiniteSet(Mine(s, ip))
        BY <1>4, FS_Subset
    <2> QED BY <1>4, <2>1, FS_Subset, FS_CardinalityType
<1>6. IsFiniteSet(Mine(t, ip)) /\ Cardinality(Mine(t, ip)) <= Cardinality(R)
    BY <1>3, <1>5, FS_Injection
<1>7. Cardinality(Mine(t, ip)) \in Nat
    BY <1>6, FS_CardinalityType
<1> QED BY <1>5, <1>6, <1>7 DEF R

LEMMA DrawnIsShorter ==
    ASSUME NEW T, NEW s \in Seq(T), NEW t \in Seq(T), Drawn(t, s, DOMAIN s)
    PROVE  Len(t) <= Len(s)
<1>1. /\ Len(s) \in Nat /\ DOMAIN s = 1 .. Len(s)
      /\ Len(t) \in Nat /\ DOMAIN t = 1 .. Len(t)
    BY LenProperties
<1>2. /\ IsFiniteSet(DOMAIN s) /\ Cardinality(DOMAIN s) = Len(s)
      /\ IsFiniteSet(DOMAIN t) /\ Cardinality(DOMAIN t) = Len(t)
    <2>1. \A n \in Nat : IsFiniteSet(1 .. n) /\ Cardinality(1 .. n) = n
        BY FS_Interval
    <2> QED BY <1>1, <2>1
<1>3. PICK f \in Injection(DOMAIN t, DOMAIN s) : TRUE
    BY DEF Drawn
<1>4. Cardinality(DOMAIN t) <= Cardinality(DOMAIN s)
    BY <1>2, <1>3, FS_Injection
<1> QED BY <1>2, <1>4

-----------------------------------------------------------------------------
(* The queue of requests, and what it has to do with the screens.           *)

QueueOK(s) ==
    /\ s \in Seq(Request) /\ Len(s) <= MaxPending
    /\ \A ip \in Host : Cardinality(Mine(s, ip)) <= PerIp
    /\ \A i \in DOMAIN s : s[i].status = "approved" <=> s[i].device # Nothing
    /\ \A i, j \in DOMAIN s : s[i].id = s[j].id => i = j

\* The client that polls a pending request is the one that made it, and shows its
\* number; and nobody else shows that number.
Answers(s, polled, shown) ==
    \A i \in DOMAIN s, y \in Client : Pending(s[i]) =>
        /\ polled[y] = s[i].id => s[i].client = y /\ shown[y] = s[i].number
        /\ shown[y] = s[i].number => s[i].client = y

\* What was decided in s is decided the same way in t, if it is still there.
Kept(s, t) ==
    \A i \in DOMAIN s, j \in DOMAIN t :
        s[i].id = t[j].id /\ ~Pending(s[i]) =>
            /\ t[j].status = s[i].status
            /\ t[j].device = s[i].device

AInv ==
    /\ KInv /\ QueueOK(requests) /\ Answers(requests, asks, screen) /\ RightClient
    /\ asks \in [Client -> RequestId \cup {Nothing}]
    /\ screen \in [Client -> Number \cup {Nothing}]
    /\ read \in [Id -> [screen : Client \cup {Nothing}, request : Client \cup {Nothing}]]

LEMMA QueueBounds ==
    ASSUME NEW s \in Seq(Request)
    PROVE  /\ Len(s) \in Nat /\ DOMAIN s = 1 .. Len(s) /\ IsFiniteSet(DOMAIN s)
           /\ \A i \in DOMAIN s : s[i] \in Request /\ i \in Nat
<1>1. Len(s) \in Nat /\ DOMAIN s = 1 .. Len(s) /\ \A i \in DOMAIN s : s[i] \in Request
    BY LenProperties, ElementOfSeq
<1>2. 1 \in Int /\ Len(s) \in Int
    BY <1>1
<1> QED BY <1>1, <1>2, FS_Interval

LEMMA DrawnIsOK ==
    ASSUME NEW s, QueueOK(s), NEW t \in Seq(Request), Drawn(t, s, DOMAIN s)
    PROVE  /\ QueueOK(t) /\ Kept(s, t)
           /\ \A polled, shown : Answers(s, polled, shown) => Answers(t, polled, shown)
<1>1. PICK f \in Injection(DOMAIN t, DOMAIN s) : \A i \in DOMAIN t : t[i] = s[f[i]]
    BY DEF Drawn
<1>2. f \in [DOMAIN t -> DOMAIN s] /\ \A i, j \in DOMAIN t : f[i] = f[j] => i = j
    BY <1>1 DEF Injection, IsInjective
<1>3. s \in Seq(Request) /\ MaxPending \in Nat /\ PerIp \in Nat
    BY ApprovalAssumption DEF QueueOK
<1>4. Len(t) <= MaxPending
    BY <1>3, DrawnIsShorter, QueueBounds DEF QueueOK
<1>5. ASSUME NEW ip \in Host PROVE Cardinality(Mine(t, ip)) <= PerIp
    <2>1. /\ Cardinality(Mine(t, ip)) <= Cardinality(Mine(s, ip))
          /\ Cardinality(Mine(t, ip)) \in Nat /\ Cardinality(Mine(s, ip)) \in Nat
        BY <1>3, MineOfDrawn, QueueBounds
    <2>2. Cardinality(Mine(s, ip)) <= PerIp
        BY DEF QueueOK
    <2> QED BY <1>3, <2>1, <2>2
<1>6. \A i \in DOMAIN t : t[i].status = "approved" <=> t[i].device # Nothing
    BY <1>1, <1>2 DEF QueueOK
<1>7. \A i, j \in DOMAIN t : t[i].id = t[j].id => i = j
    BY <1>1, <1>2 DEF QueueOK
<1>8. \A polled, shown : Answers(s, polled, shown) => Answers(t, polled, shown)
    BY <1>1, <1>2 DEF Answers
<1>9. Kept(s, t)
    BY <1>1, <1>2 DEF Kept, QueueOK
<1> QED BY <1>4, <1>5, <1>6, <1>7, <1>8, <1>9 DEF QueueOK

LEMMA PurgedIsDrawn ==
    ASSUME NEW s, QueueOK(s)
    PROVE  /\ PurgedRequests(s) \in Seq(Request)
           /\ Drawn(PurgedRequests(s), s, DOMAIN s)
           /\ QueueOK(PurgedRequests(s)) /\ Kept(s, PurgedRequests(s))
           /\ \A polled, shown : Answers(s, polled, shown) => Answers(PurgedRequests(s), polled, shown)
<1> DEFINE S == {i \in DOMAIN s : ~s[i].late}
<1>1. PurgedRequests(s) \in Seq(Request) /\ Drawn(PurgedRequests(s), s, S)
    BY OnlyIsDrawn DEF PurgedRequests, QueueOK
<1>2. Drawn(PurgedRequests(s), s, DOMAIN s)
    BY <1>1 DEF Drawn, Injection, IsInjective
<1> QED BY <1>1, <1>2, DrawnIsOK

\* The host's own share has room, and so has the whole queue.
LEMMA ShareHasRoom ==
    ASSUME NEW s, QueueOK(s), NEW ip \in Host
    PROVE  /\ EvictForIp(s, ip) \in Seq(Request)
           /\ Drawn(EvictForIp(s, ip), s, DOMAIN s)
           /\ Cardinality(Mine(EvictForIp(s, ip), ip)) < PerIp
<1> DEFINE M == Mine(s, ip)
           first == CHOOSE i \in M : \A j \in M : i <= j
           S == DOMAIN s \ {first}
<1>1. /\ s \in Seq(Request) /\ IsFiniteSet(DOMAIN s) /\ PerIp \in Nat /\ PerIp > 0
      /\ M \in SUBSET DOMAIN s /\ M \subseteq Nat /\ Cardinality(M) <= PerIp
    BY QueueBounds, ApprovalAssumption DEF QueueOK, Mine
<1>2. IsFiniteSet(M) /\ Cardinality(M) \in Nat
    BY <1>1, FS_Subset, FS_CardinalityType
<1>3. CASE Cardinality(M) >= PerIp
    <2>1. M # {}
        BY <1>1, <1>2, <1>3, FS_EmptySet
    <2>2. first \in M
        BY <1>1, <1>2, <2>1, LeastExists
    <2>3. EvictForIp(s, ip) = Only(s, S)
        BY <1>3 DEF EvictForIp, OldestIn
    <2> HIDE DEF first, M
    <2>4. Only(s, S) \in Seq(Request) /\ Drawn(Only(s, S), s, S)
        BY <1>1, OnlyIsDrawn
    <2>5. Drawn(Only(s, S), s, DOMAIN s)
        BY <2>4 DEF Drawn, Injection, IsInjective
    <2>6. Cardinality(Mine(Only(s, S), ip)) <= Cardinality(M \cap S)
        BY <1>1, <2>4, MineOfDrawn DEF M
    <2>7. M \cap S = M \ {first}
        BY <1>1
    <2>8. Cardinality(M \ {first}) = Cardinality(M) - 1
        BY <1>2, <2>2, FS_RemoveElement
    <2>9. Cardinality(Mine(Only(s, S), ip)) \in Nat
        BY <1>1, <2>4, MineOfDrawn
    <2>10. Cardinality(Mine(Only(s, S), ip)) < PerIp
        <3>1. Cardinality(M \cap S) = Cardinality(M) - 1
            BY <2>7, <2>8
        <3> HIDE DEF S
        <3> QED BY <1>1, <1>2, <2>6, <2>9, <3>1
    <2> QED BY <2>3, <2>4, <2>5, <2>10
<1>4. CASE ~(Cardinality(M) >= PerIp)
    BY <1>1, <1>2, <1>4, DrawnWhole DEF EvictForIp
<1> QED BY <1>3, <1>4

LEMMA RoomForOne ==
    ASSUME NEW s, QueueOK(s), NEW ip \in Host
    PROVE  LET room == EvictGlobal(EvictForIp(PurgedRequests(s), ip))
           IN  /\ room \in Seq(Request) /\ Drawn(room, s, DOMAIN s)
               /\ Len(room) < MaxPending /\ Cardinality(Mine(room, ip)) < PerIp
<1> DEFINE left == PurgedRequests(s)
           mine == EvictForIp(left, ip)
           room == EvictGlobal(mine)
<1>1. QueueOK(left) /\ Drawn(left, s, DOMAIN s)
    BY PurgedIsDrawn
<1>2. mine \in Seq(Request) /\ Drawn(mine, left, DOMAIN left) /\ Cardinality(Mine(mine, ip)) < PerIp
    BY <1>1, ShareHasRoom
<1>3. QueueOK(mine) /\ Drawn(mine, s, DOMAIN s)
    BY <1>1, <1>2, DrawnIsOK, DrawnAgain
<1>4. MaxPending \in Nat /\ MaxPending > 0 /\ PerIp \in Nat
    BY ApprovalAssumption
<1> HIDE DEF mine, left
<1>5. CASE Len(mine) >= MaxPending
    <2>1. mine # <<>> /\ Len(mine) = MaxPending
        BY <1>3, <1>4, <1>5, EmptySeq, QueueBounds DEF QueueOK
    <2>2. room = Tail(mine)
        BY <1>5 DEF EvictGlobal
    <2>3. room \in Seq(Request) /\ Len(room) = MaxPending - 1 /\ Drawn(room, mine, DOMAIN mine)
        BY <1>2, <2>1, <2>2, TailIsDrawn
    <2>4. Drawn(room, s, DOMAIN s)
        BY <1>3, <2>3, DrawnAgain
    <2>5. /\ Cardinality(Mine(room, ip)) <= Cardinality(Mine(mine, ip))
          /\ Cardinality(Mine(room, ip)) \in Nat /\ Cardinality(Mine(mine, ip)) \in Nat
        BY <1>2, <2>3, MineOfDrawn, QueueBounds
    <2> HIDE DEF room
    <2>6. Len(room) < MaxPending /\ Cardinality(Mine(room, ip)) < PerIp
        BY <1>2, <1>4, <2>3, <2>5
    <2> QED BY <2>3, <2>4, <2>6 DEF room, mine, left
<1>6. CASE ~(Len(mine) >= MaxPending)
    <2>1. room = mine
        BY <1>6 DEF EvictGlobal
    <2>2. Len(mine) < MaxPending
        BY <1>2, <1>4, <1>6, QueueBounds
    <2> QED BY <1>2, <1>3, <2>1, <2>2 DEF room, mine, left
<1> QED BY <1>5, <1>6

LEMMA OneMoreIsOK ==
    ASSUME NEW s, QueueOK(s), NEW r \in Request,
           Len(s) < MaxPending, Cardinality(Mine(s, r.ip)) < PerIp,
           r.status = "pending", r.device = Nothing, \A i \in DOMAIN s : s[i].id # r.id
    PROVE  /\ QueueOK(Append(s, r))
           /\ DOMAIN Append(s, r) = 1 .. Len(s) + 1
           /\ \A i \in DOMAIN s : Append(s, r)[i] = s[i]
           /\ Append(s, r)[Len(s) + 1] = r
<1> DEFINE t == Append(s, r)
<1>1. /\ s \in Seq(Request) /\ Len(s) \in Nat /\ DOMAIN s = 1 .. Len(s) /\ IsFiniteSet(DOMAIN s)
      /\ MaxPending \in Nat /\ PerIp \in Nat
    BY QueueBounds, ApprovalAssumption DEF QueueOK
<1>2. /\ t \in Seq(Request) /\ Len(t) = Len(s) + 1
      /\ \A i \in DOMAIN s : t[i] = s[i]
      /\ t[Len(s) + 1] = r
    BY <1>1, AppendProperties
<1>3. DOMAIN t = 1 .. Len(s) + 1 /\ \A i \in DOMAIN t : i \in DOMAIN s \/ i = Len(s) + 1
    BY <1>1, <1>2, LenProperties
<1> HIDE DEF t
<1>4. ASSUME NEW ip \in Host PROVE Cardinality(Mine(t, ip)) <= PerIp
    <2>1. IsFiniteSet(Mine(s, ip)) /\ Cardinality(Mine(s, ip)) \in Nat /\ Cardinality(Mine(s, ip)) <= PerIp
        <3>1. Mine(s, ip) \in SUBSET DOMAIN s
            BY DEF Mine
        <3> QED BY <1>1, <3>1, FS_Subset, FS_CardinalityType DEF QueueOK
    <2>2. CASE ip = r.ip
        <3>1. Mine(t, ip) \in SUBSET (Mine(s, ip) \cup {Len(s) + 1})
            BY <1>2, <1>3 DEF Mine
        <3>2. /\ IsFiniteSet(Mine(s, ip) \cup {Len(s) + 1})
              /\ Cardinality(Mine(s, ip) \cup {Len(s) + 1})
                   \in {Cardinality(Mine(s, ip)), Cardinality(Mine(s, ip)) + 1}
            BY <2>1, FS_AddElement
        <3>3. /\ Cardinality(Mine(t, ip)) <= Cardinality(Mine(s, ip) \cup {Len(s) + 1})
              /\ Cardinality(Mine(t, ip)) \in Nat
              /\ Cardinality(Mine(s, ip) \cup {Len(s) + 1}) \in Nat
            BY <3>1, <3>2, FS_Subset, FS_CardinalityType
        <3> QED BY <1>1, <2>1, <2>2, <3>2, <3>3
    <2>3. CASE ip # r.ip
        <3>1. Mine(t, ip) = Mine(s, ip)
            BY <1>2, <1>3, <2>3 DEF Mine
        <3> QED BY <2>1, <3>1
    <2> QED BY <2>2, <2>3
<1>5. \A i \in DOMAIN t : t[i].status = "approved" <=> t[i].device # Nothing
    BY <1>2, <1>3 DEF QueueOK
<1>6. \A i, j \in DOMAIN t : t[i].id = t[j].id => i = j
    BY <1>2, <1>3 DEF QueueOK
<1>7. QueueOK(t)
    BY <1>1, <1>2, <1>4, <1>5, <1>6 DEF QueueOK
<1> QED BY <1>2, <1>3, <1>7 DEF t

\* One request is decided, or runs out.
LEMMA ChangedIsOK ==
    ASSUME NEW s, QueueOK(s), NEW i \in DOMAIN s, NEW r \in Request,
           r.id = s[i].id, r.client = s[i].client, r.ip = s[i].ip, r.number = s[i].number,
           Pending(r) => Pending(s[i]), r.status = "approved" <=> r.device # Nothing,
           ~Pending(s[i]) => r.status = s[i].status /\ r.device = s[i].device
    PROVE  /\ QueueOK([s EXCEPT ![i] = r]) /\ Kept(s, [s EXCEPT ![i] = r])
           /\ \A polled, shown : Answers(s, polled, shown) => Answers([s EXCEPT ![i] = r], polled, shown)
<1> DEFINE t == [s EXCEPT ![i] = r]
<1>1. s \in Seq(Request) /\ DOMAIN s = 1 .. Len(s) /\ IsFiniteSet(DOMAIN s)
    BY QueueBounds DEF QueueOK
<1>2. t \in Seq(Request) /\ Len(t) = Len(s) /\ \A j \in DOMAIN s : t[j] = IF j = i THEN r ELSE s[j]
    BY <1>1, ExceptSeq
<1>3. DOMAIN t = DOMAIN s
    OBVIOUS
<1> HIDE DEF t
<1>4. ASSUME NEW ip \in Host PROVE Cardinality(Mine(t, ip)) <= PerIp
    <2>1. Mine(t, ip) \in SUBSET Mine(s, ip) /\ Mine(s, ip) \in SUBSET DOMAIN s
        BY <1>2, <1>3 DEF Mine
    <2>2. IsFiniteSet(Mine(s, ip))
        BY <1>1, <2>1, FS_Subset
    <2>3. /\ Cardinality(Mine(t, ip)) <= Cardinality(Mine(s, ip))
          /\ Cardinality(Mine(t, ip)) \in Nat /\ Cardinality(Mine(s, ip)) \in Nat
        BY <2>1, <2>2, FS_Subset, FS_CardinalityType
    <2> QED BY <2>3, ApprovalAssumption DEF QueueOK
<1>5. \A j \in DOMAIN t : t[j].status = "approved" <=> t[j].device # Nothing
    BY <1>2, <1>3 DEF QueueOK
<1>6. \A j, k \in DOMAIN t : t[j].id = t[k].id => j = k
    BY <1>2, <1>3 DEF QueueOK
<1>7. QueueOK(t)
    BY <1>1, <1>2, <1>4, <1>5, <1>6 DEF QueueOK
<1>8. \A polled, shown : Answers(s, polled, shown) => Answers(t, polled, shown)
    BY <1>2, <1>3 DEF Answers
<1>9. Kept(s, t)
    BY <1>2, <1>3 DEF Kept, QueueOK
<1> QED BY <1>7, <1>8, <1>9 DEF t

-----------------------------------------------------------------------------
(* What each operation of the approvals does; KInv' comes from Devices.     *)

LEMMA NothingIsNone == Nothing \notin Id /\ Nothing \notin RequestId /\ Nothing \notin Number /\ Nothing \notin Client
BY ApprovalAssumption

LEMMA CreateStep ==
    ASSUME AInv, KInv', NEW x \in Client, NEW ip \in Host, NEW id \in RequestId, NEW number \in Number,
           Create(x, ip, id, number)
    PROVE  AInv' /\ Kept(requests, requests')
<1> DEFINE room == EvictGlobal(EvictForIp(PurgedRequests(requests), ip))
           r == [id |-> id, client |-> x, ip |-> ip, number |-> number,
                 status |-> "pending", device |-> Nothing, late |-> FALSE]
<1>1. /\ QueueOK(requests) /\ Answers(requests, asks, screen)
      /\ asks \in [Client -> RequestId \cup {Nothing}] /\ screen \in [Client -> Number \cup {Nothing}]
    BY DEF AInv
<1>2. /\ \A i \in DOMAIN requests : requests[i].id # id
      /\ \A y \in Client : asks[y] # id
      /\ number \notin InUse(room) /\ number \notin StaleNumbers(room)
      /\ requests' = Append(room, r)
      /\ asks' = [asks EXCEPT ![x] = id] /\ screen' = [screen EXCEPT ![x] = number]
      /\ UNCHANGED read
    BY DEF Create
<1>3. /\ room \in Seq(Request) /\ Drawn(room, requests, DOMAIN requests)
      /\ Len(room) < MaxPending /\ Cardinality(Mine(room, ip)) < PerIp
    BY <1>1, RoomForOne
<1>4. /\ r \in Request /\ r.id = id /\ r.client = x /\ r.ip = ip /\ r.number = number
      /\ r.status = "pending" /\ r.device = Nothing
    BY DEF Request
<1> HIDE DEF room, r
<1>5. QueueOK(room) /\ Answers(room, asks, screen) /\ Kept(requests, room)
    BY <1>1, <1>3, DrawnIsOK
<1>6. \A i \in DOMAIN room : room[i].id # id
    BY <1>2, <1>3 DEF Drawn, Injection
<1>7. /\ QueueOK(requests') /\ DOMAIN requests' = 1 .. Len(room) + 1
      /\ \A i \in DOMAIN room : requests'[i] = room[i]
      /\ requests'[Len(room) + 1] = r
    BY <1>2, <1>3, <1>4, <1>5, <1>6, OneMoreIsOK
<1>8. /\ \A i \in DOMAIN requests' : i \in DOMAIN room \/ i = Len(room) + 1
      /\ Len(room) + 1 \in DOMAIN requests'
    <2>1. Len(room) \in Nat /\ DOMAIN room = 1 .. Len(room)
        BY <1>3, QueueBounds
    <2> QED BY <1>7, <2>1
<1>9. ASSUME NEW y \in Client, y # x
      PROVE  screen[y] # number
    <2>1. CASE \A i \in DOMAIN room : room[i].id = asks[y] => ~Pending(room[i])
        BY <1>2, <2>1 DEF StaleNumbers
    <2>2. CASE \E i \in DOMAIN room : room[i].id = asks[y] /\ Pending(room[i])
        <3>1. PICK i \in DOMAIN room : room[i].id = asks[y] /\ Pending(room[i])
            BY <2>2
        <3>2. screen[y] = room[i].number
            BY <1>5, <3>1 DEF Answers
        <3> QED BY <1>2, <3>1, <3>2 DEF InUse
    <2> QED BY <2>1, <2>2
<1>10. Answers(requests', asks', screen')
    <2> SUFFICES ASSUME NEW i \in DOMAIN requests', NEW y \in Client, Pending(requests'[i])
                 PROVE  /\ asks'[y] = requests'[i].id =>
                              requests'[i].client = y /\ screen'[y] = requests'[i].number
                        /\ screen'[y] = requests'[i].number => requests'[i].client = y
        BY DEF Answers
    <2>1. /\ asks'[y] = (IF y = x THEN id ELSE asks[y])
          /\ screen'[y] = (IF y = x THEN number ELSE screen[y])
        BY <1>1, <1>2
    <2>2. CASE i = Len(room) + 1
        BY <1>2, <1>4, <1>7, <1>9, <2>1, <2>2
    <2>3. CASE i \in DOMAIN room
        <3>1. requests'[i] = room[i] /\ Pending(room[i])
            BY <1>7, <2>3
        <3>2. room[i].number # number
            BY <1>2, <2>3, <3>1 DEF InUse
        <3> QED BY <1>5, <1>6, <2>1, <2>3, <3>1, <3>2 DEF Answers
    <2> QED BY <1>8, <2>2, <2>3
<1>11. /\ asks' \in [Client -> RequestId \cup {Nothing}] /\ screen' \in [Client -> Number \cup {Nothing}]
    BY <1>1, <1>2
<1>12. Kept(requests, requests')
    BY <1>2, <1>4, <1>5, <1>7, <1>8 DEF Kept
<1> QED BY <1>2, <1>7, <1>10, <1>11, <1>12 DEF AInv, RightClient

LEMMA PollStep ==
    ASSUME AInv, KInv', NEW x \in Client, Poll(x)
    PROVE  AInv' /\ Kept(requests, requests')
<1>1. /\ QueueOK(requests) /\ Answers(requests, asks, screen)
      /\ asks \in [Client -> RequestId \cup {Nothing}] /\ screen \in [Client -> Number \cup {Nothing}]
    BY DEF AInv
<1>2. requests' = PurgedRequests(requests) /\ UNCHANGED read
    BY DEF Poll
<1>3. QueueOK(requests') /\ Answers(requests', asks, screen) /\ Kept(requests, requests')
    BY <1>1, <1>2, PurgedIsDrawn
<1>4. \/ asks' = asks /\ screen' = screen
      \/ asks' = [asks EXCEPT ![x] = Nothing] /\ screen' = [screen EXCEPT ![x] = Nothing]
    BY DEF Poll
<1>5. \A i \in DOMAIN requests' : requests'[i].id \in RequestId /\ requests'[i].number \in Number
    BY <1>3, QueueBounds DEF QueueOK, Request
<1>6. /\ asks' \in [Client -> RequestId \cup {Nothing}] /\ screen' \in [Client -> Number \cup {Nothing}]
      /\ \A y \in Client : \/ asks'[y] = asks[y] /\ screen'[y] = screen[y]
                           \/ asks'[y] = Nothing /\ screen'[y] = Nothing
    <2>1. CASE asks' = asks /\ screen' = screen
        BY <1>1, <2>1
    <2>2. CASE asks' = [asks EXCEPT ![x] = Nothing] /\ screen' = [screen EXCEPT ![x] = Nothing]
        BY <1>1, <2>2
    <2> QED BY <1>4, <2>1, <2>2
<1>7. Answers(requests', asks', screen')
    BY <1>3, <1>5, <1>6, NothingIsNone DEF Answers
<1> QED BY <1>2, <1>3, <1>6, <1>7 DEF AInv, RightClient

\* Nothing but the queue, and that only shrinks.
LEMMA QueueOnlyStep ==
    ASSUME AInv, KInv', UNCHANGED <<asks, screen, read>>,
           QueueOK(requests'), Kept(requests, requests'),
           \A a, n : Answers(requests, a, n) => Answers(requests', a, n)
    PROVE  AInv' /\ Kept(requests, requests')
BY DEF AInv, RightClient

LEMMA ApproveStep ==
    ASSUME AInv, KInv', NEW i, NEW y \in Client, NEW d \in Id, NEW role, Approve(i, y, d, role)
    PROVE  AInv' /\ Kept(requests, requests')
<1> DEFINE left == PurgedRequests(requests)
           r == [left[i] EXCEPT !.status = "approved", !.device = d]
<1>1. QueueOK(left) /\ Answers(left, asks, screen) /\ Kept(requests, left)
    BY PurgedIsDrawn DEF AInv
<1>2. /\ i \in DOMAIN left /\ Pending(left[i]) /\ screen[y] = left[i].number
      /\ requests' = Approved(left, i, d)
      /\ read' = [read EXCEPT ![d] = [screen |-> y, request |-> left[i].client]]
      /\ UNCHANGED <<asks, screen>>
    BY DEF Approve
<1> HIDE DEF left
<1>3. left[i] \in Request /\ left \in [DOMAIN left -> Request]
    BY <1>1, <1>2, QueueBounds, LenProperties DEF QueueOK
<1>4. /\ r \in Request /\ r.id = left[i].id /\ r.client = left[i].client /\ r.ip = left[i].ip
      /\ r.number = left[i].number /\ r.status = "approved" /\ r.device = d
    BY <1>3 DEF Request
<1>5. requests' = [left EXCEPT ![i] = r]
    BY <1>2, <1>3 DEF Approved
<1> HIDE DEF r
<1>6. QueueOK(requests') /\ Answers(requests', asks, screen) /\ Kept(left, requests')
    <2>1. Pending(r) => Pending(left[i])
        BY <1>2
    <2>2. r.status = "approved" <=> r.device # Nothing
        BY <1>4, NothingIsNone
    <2>3. /\ QueueOK([left EXCEPT ![i] = r]) /\ Kept(left, [left EXCEPT ![i] = r])
          /\ \A a, n : Answers(left, a, n) => Answers([left EXCEPT ![i] = r], a, n)
        BY <1>1, <1>2, <1>4, <2>1, <2>2, ChangedIsOK
    <2> QED BY <1>1, <1>5, <2>3
<1>7. left[i].client = y
    BY <1>1, <1>2 DEF Answers
<1>8. /\ read' \in [Id -> [screen : Client \cup {Nothing}, request : Client \cup {Nothing}]]
      /\ RightClient'
    BY <1>2, <1>7 DEF AInv, RightClient
<1>9. Kept(requests, requests')
    <2>1. DOMAIN requests' = DOMAIN left /\ \A j \in DOMAIN left : requests'[j].id = left[j].id
        BY <1>2, <1>3, <1>4, <1>5
    <2> QED BY <1>1, <1>6, <2>1 DEF Kept, Pending
<1> QED BY <1>2, <1>6, <1>8, <1>9 DEF AInv

LEMMA DenyStep ==
    ASSUME AInv, KInv', NEW i, Deny(i)
    PROVE  AInv' /\ Kept(requests, requests')
<1> DEFINE r == [requests[i] EXCEPT !.status = "denied"]
<1>1. /\ i \in DOMAIN requests /\ Pending(requests[i]) /\ UNCHANGED <<asks, screen, read>>
      /\ requests' = [requests EXCEPT ![i].status = "denied"] /\ QueueOK(requests)
    BY DEF Deny, AInv
<1>2. requests[i] \in Request /\ requests \in [DOMAIN requests -> Request]
    BY <1>1, QueueBounds, LenProperties DEF QueueOK
<1>3. requests[i].device = Nothing
    BY <1>1 DEF QueueOK, Pending
<1>4. /\ r \in Request /\ r.id = requests[i].id /\ r.client = requests[i].client
      /\ r.ip = requests[i].ip /\ r.number = requests[i].number
      /\ r.status = "denied" /\ r.device = Nothing
    BY <1>2, <1>3 DEF Request
<1>5. requests' = [requests EXCEPT ![i] = r]
    BY <1>1, <1>2
<1> HIDE DEF r
<1>6. Pending(r) => Pending(requests[i])
    BY <1>1
<1>7. r.status = "approved" <=> r.device # Nothing
    BY <1>4
<1>8. /\ QueueOK([requests EXCEPT ![i] = r]) /\ Kept(requests, [requests EXCEPT ![i] = r])
      /\ \A a, n : Answers(requests, a, n) => Answers([requests EXCEPT ![i] = r], a, n)
    BY <1>1, <1>4, <1>6, <1>7, ChangedIsOK
<1>9. QueueOK(requests') /\ Kept(requests, requests') /\ \A a, n : Answers(requests, a, n) => Answers(requests', a, n)
    BY <1>5, <1>8
<1> QED BY <1>1, <1>9, QueueOnlyStep

LEMMA RunsOutStep ==
    ASSUME AInv, KInv', NEW i, RunsOut(i)
    PROVE  AInv' /\ Kept(requests, requests')
<1> DEFINE r == [requests[i] EXCEPT !.late = TRUE]
<1>1. /\ i \in DOMAIN requests /\ UNCHANGED <<asks, screen, read>>
      /\ requests' = [requests EXCEPT ![i].late = TRUE] /\ QueueOK(requests)
    BY DEF RunsOut, AInv
<1>2. requests[i] \in Request /\ requests \in [DOMAIN requests -> Request]
    BY <1>1, QueueBounds, LenProperties DEF QueueOK
<1>3. /\ r \in Request /\ r.id = requests[i].id /\ r.client = requests[i].client
      /\ r.ip = requests[i].ip /\ r.number = requests[i].number
      /\ r.status = requests[i].status /\ r.device = requests[i].device
    BY <1>2 DEF Request
<1>4. requests' = [requests EXCEPT ![i] = r]
    BY <1>1, <1>2
<1>5. r.status = "approved" <=> r.device # Nothing
    BY <1>1, <1>3 DEF QueueOK
<1> HIDE DEF r
<1>6. Pending(r) => Pending(requests[i])
    BY <1>3 DEF Pending
<1>7. /\ QueueOK([requests EXCEPT ![i] = r]) /\ Kept(requests, [requests EXCEPT ![i] = r])
      /\ \A a, n : Answers(requests, a, n) => Answers([requests EXCEPT ![i] = r], a, n)
    <2>1. ~Pending(requests[i]) => r.status = requests[i].status /\ r.device = requests[i].device
        BY <1>3
    <2> QED BY <1>1, <1>3, <1>5, <1>6, <2>1, ChangedIsOK
<1>8. QueueOK(requests') /\ Kept(requests, requests') /\ \A a, n : Answers(requests, a, n) => Answers(requests', a, n)
    BY <1>4, <1>7
<1> QED BY <1>1, <1>8, QueueOnlyStep

LEMMA LookStep ==
    ASSUME AInv, KInv', Look
    PROVE  AInv' /\ Kept(requests, requests')
<1>1. QueueOK(requests) /\ requests' = PurgedRequests(requests) /\ UNCHANGED <<asks, screen, read>>
    BY DEF AInv, Look
<1>2. QueueOK(requests') /\ Kept(requests, requests') /\ \A a, n : Answers(requests, a, n) => Answers(requests', a, n)
    BY <1>1, PurgedIsDrawn
<1> QED BY <1>1, <1>2, QueueOnlyStep

LEMMA NoneIsOK == QueueOK(<<>>) /\ \A a, n : Answers(<<>>, a, n)
<1>1. \A ip \in Host : Mine(<<>>, ip) = {}
    BY DEF Mine
<1>2. Cardinality({}) = 0
    BY FS_EmptySet
<1>3. <<>> \in Seq(Request) /\ Len(<<>>) = 0 /\ DOMAIN <<>> = {}
    BY EmptySeq
<1>4. ASSUME NEW ip \in Host PROVE Cardinality(Mine(<<>>, ip)) <= PerIp
    <2>1. Mine(<<>>, ip) = {}
        BY <1>1
    <2>2. Cardinality(Mine(<<>>, ip)) = 0
        BY ONLY <2>1, <1>2
    <2>3. PerIp \in Nat
        BY ApprovalAssumption
    <2> QED BY ONLY <2>2, <2>3
<1>5. 0 <= MaxPending
    BY ApprovalAssumption
<1> QED BY <1>3, <1>4, <1>5 DEF QueueOK, Answers

LEMMA ApprovalsRestartStep ==
    ASSUME AInv, KInv', ApprovalsRestart
    PROVE  AInv' /\ Kept(requests, requests')
<1>1. requests' = <<>> /\ UNCHANGED <<asks, screen, read>>
    BY DEF ApprovalsRestart
<1>2. Kept(requests, requests')
    BY <1>1 DEF Kept
<1> QED BY <1>1, <1>2, NoneIsOK, QueueOnlyStep

LEMMA QueueStandsStep ==
    ASSUME AInv, KInv', UNCHANGED <<requests, asks, screen, read>>
    PROVE  AInv' /\ Kept(requests, requests')
<1>1. Kept(requests, requests)
    BY DEF AInv, QueueOK, Kept
<1> QED BY <1>1 DEF AInv, RightClient

\* Every step of the approvals is a step of Devices, or leaves the rows alone.
LEMMA ApprovalsStepRefines ==
    ASSUME AInv, [ApprovalsNext]_approvalVars
    PROVE  [DevicesNext]_devVars
<1>1. ASSUME NEW i, NEW y \in Client, NEW d \in Id, NEW role \in Role, Approve(i, y, d, role)
      PROVE  DevicesNext
    <2> DEFINE left == PurgedRequests(requests)
    <2>1. i \in DOMAIN left /\ role \in {"central", "user"}
          /\ (Mint(d, KeyOf(left[i].client), FALSE, role) \/ MintCut(d, KeyOf(left[i].client), FALSE, role))
        BY <1>1 DEF Approve
    <2>2. QueueOK(left)
        BY PurgedIsDrawn DEF AInv
    <2> HIDE DEF left
    <2>3. left[i].client \in Client
        BY <2>1, <2>2, QueueBounds DEF QueueOK, Request
    <2>4. KeyOf(left[i].client) \in Key
        BY <2>3 DEF KeyOf, Client, Key
    <2>5. Mintable(FALSE, role)
        BY <2>1 DEF Mintable
    <2> QED BY <2>1, <2>4, <2>5 DEF DevicesNext
<1>2. CASE Retract
    BY <1>2 DEF DevicesNext, Administer
<1>3. CASE UNCHANGED approvalVars
    BY <1>3 DEF approvalVars, devVars
<1> QED BY <1>1, <1>2, <1>3 DEF ApprovalsNext, Create, Poll, Look, Deny, RunsOut, ApprovalsRestart

LEMMA AInitial == ApprovalsInit => AInv
<1> SUFFICES ASSUME ApprovalsInit PROVE AInv
    OBVIOUS
<1>1. KInv
    BY KInitial DEF ApprovalsInit
<1> QED BY <1>1, NoneIsOK DEF ApprovalsInit, AInv, RightClient

LEMMA AStep ==
    ASSUME AInv, [ApprovalsNext]_approvalVars
    PROVE  AInv' /\ Kept(requests, requests')
<1>1. KInv'
    BY ApprovalsStepRefines, KStep DEF AInv
<1>2. CASE \E x \in Client, ip \in Host, id \in RequestId, number \in Number : Create(x, ip, id, number)
    BY <1>1, <1>2, CreateStep
<1>3. CASE \E x \in Client : Poll(x)
    BY <1>1, <1>3, PollStep
<1>4. CASE Look
    BY <1>1, <1>4, LookStep
<1>5. CASE \E i \in 1 .. MaxPending, y \in Client, d \in Id, role \in Role : Approve(i, y, d, role)
    BY <1>1, <1>5, ApproveStep
<1>6. CASE \E i \in 1 .. MaxPending : Deny(i) \/ RunsOut(i)
    BY <1>1, <1>6, DenyStep, RunsOutStep
<1>7. CASE ApprovalsRestart
    BY <1>1, <1>7, ApprovalsRestartStep
<1>8. CASE Retract /\ UNCHANGED <<requests, asks, screen, read>>
    BY <1>1, <1>8, QueueStandsStep
<1>9. CASE UNCHANGED approvalVars
    BY <1>1, <1>9, QueueStandsStep DEF approvalVars
<1> QED BY <1>2, <1>3, <1>4, <1>5, <1>6, <1>7, <1>8, <1>9 DEF ApprovalsNext

LEMMA AInvariance == ApprovalsSpec => []AInv
BY AInitial, AStep, PTL DEF ApprovalsSpec

\* The shapes, and both caps of the queue: never more than MAX_PENDING requests,
\* never more than a host's share of pending ones (create, _evict_oldest_for_ip,
\* _evict_oldest_global).
THEOREM ApprovalsTypeCorrect == ApprovalsSpec => []ApprovalsTypeOK
<1>1. AInv => ApprovalsTypeOK
    BY DEF AInv, KInv, QueueOK, ApprovalsTypeOK
<1> QED BY AInvariance, <1>1, PTL

\* An approval gives the row to the client whose number was read, through every
\* eviction, purge, denial and restart (create's unique numbers, approve's echo).
THEOREM ApprovedIsTheOneRead == ApprovalsSpec => []RightClient
<1>1. AInv => RightClient
    BY DEF AInv
<1> QED BY AInvariance, <1>1, PTL

\* What was approved or denied stays so, with the row it led to (approve and
\* deny act on pending requests only).
THEOREM DecisionsAreFinal == ApprovalsSpec => DecisionIsFinal
<1>1. ASSUME AInv, [ApprovalsNext]_approvalVars
      PROVE  [\A i \in DOMAIN requests, j \in DOMAIN requests' :
                requests[i].id = requests'[j].id /\ ~Pending(requests[i]) =>
                    /\ requests'[j].status = requests[i].status
                    /\ requests'[j].device = requests[i].device]_approvalVars
    BY <1>1, AStep DEF Kept
<1> QED BY AInvariance, <1>1, PTL DEF ApprovalsSpec, DecisionIsFinal

\* The approvals implement the device registry: what they do to the rows is what
\* Devices allows.
THEOREM ApprovalsImplementDevices == ApprovalsSpec => DevicesSpec
<1>1. ApprovalsInit => DevicesInit
    BY DEF ApprovalsInit
<1> QED BY AInvariance, <1>1, ApprovalsStepRefines, PTL DEF ApprovalsSpec, DevicesSpec

\* So one phone has one live key of a kind when the pairings are approvals.
THEOREM ApprovalsKeepKeysUnique == ApprovalsSpec => []OneLiveKey
BY ApprovalsImplementDevices, KeysAreUnique
=============================================================================
