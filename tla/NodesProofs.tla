----------------------------- MODULE NodesProofs -----------------------------
(***************************************************************************)
(* What keeps a board ahead of the Core, for any number of rows, codes,    *)
(* presses, frames and faults, and any checkpoint interval the margin      *)
(* covers.                                                                 *)
(*                                                                         *)
(* The invariant follows a row's numbers through the three places they     *)
(* live: the table, the requests on their way, and the board.  The board   *)
(* bounds both others while it holds the row's token; before it does, they *)
(* are zero, and a row that was never created is named by nothing.         *)
(***************************************************************************)
EXTENDS Nodes, TLAPS

Unborn ==
    \A r \in Row : row[r].state = "absent" =>
        /\ row[r].seq = 0 /\ row[r].press = 0 /\ ~row[r].key
        /\ nvs.token # r /\ answer # r
        /\ \A m \in air : m.kind # "enrol" => m.by # r

Offered ==
    answer \in Row =>
        /\ row[answer].seq = 0 /\ row[answer].press = 0
        /\ call # None => call.kind = "enrol"
        /\ \A m \in air : m.kind # "enrol" => m.by # answer

Modes ==
    /\ call # None /\ call.kind = "enrol" => mode = "enrol"
    /\ mode = "loop" => nvs.token \in Row
    /\ mode = "enrol" => nvs.token = None

\* What a boot makes up for is what was sent since the last checkpoint.
Checkpoint ==
    mode \in {"enrol", "loop"} => ram.seq = nvs.seqhi + ram.since /\ ram.since < Every

\* The number the board's next frame exceeds.
Top == IF mode = "loop" THEN ram.seq ELSE nvs.seqhi + Margin

Frames ==
    nvs.token \in Row =>
        /\ row[nvs.token].seq <= Top
        /\ \A m \in air : m.kind = "telemetry" /\ m.by = nvs.token => m.n <= Top

Counts ==
    nvs.token \in Row =>
        /\ row[nvs.token].press <= nvs.press
        /\ \A m \in air : m.kind = "reactivate" /\ m.by = nvs.token => m.n <= nvs.press

IInv == TypeOK /\ Unborn /\ Offered /\ Modes /\ Checkpoint /\ Frames /\ Counts
                /\ OnePressOneWaking

USE DEF core, board, net, vars

USE DEF core, board, net, vars

(***************************************************************************)
(* Typing                                                                  *)
(***************************************************************************)
LEMMA EntryUpdates ==
    ASSUME NEW x \in Entry
    PROVE  /\ [x EXCEPT !.state = "disabled"] \in Entry
           /\ [x EXCEPT !.state = "revoked", !.key = FALSE] \in Entry
           /\ [x EXCEPT !.state = "active", !.key = TRUE] \in Entry
           /\ [x EXCEPT !.state = "gone", !.asked = FALSE] \in Entry
           /\ [x EXCEPT !.state = "pending", !.asked = TRUE] \in Entry
           /\ [x EXCEPT !.state = "pending", !.key = FALSE] \in Entry
           /\ [x EXCEPT !.asked = FALSE] \in Entry
           /\ \A n \in Nat : [x EXCEPT !.seq = n] \in Entry
           /\ \A n \in Nat : \A s \in {"active", x.state} :
                [x EXCEPT !.press = n, !.state = s] \in Entry
BY DEF Entry

LEMMA MemoryTyping ==
    /\ Cold \in Memory /\ Factory \in Flash
    /\ \A n \in Nat : [Cold EXCEPT !.seq = n] \in Memory
BY DEF Cold, Factory, Memory, Flash

LEMMA Numbers ==
    ASSUME TypeOK
    PROVE  /\ nvs.press \in Nat /\ nvs.seqhi \in Nat /\ ram.seq \in Nat /\ ram.since \in Nat
           /\ nvs.press + 1 \in Nat /\ ram.seq + 1 \in Nat /\ ram.since + 1 \in Nat
           /\ nvs.token \in Row \cup {None} /\ nvs.code \in Code \cup {None}
BY DEF TypeOK, Memory, Flash

LEMMA MemoryUpdates ==
    ASSUME TypeOK
    PROVE  /\ \A b \in BOOLEAN : [ram EXCEPT !.sensing = b] \in Memory
           /\ \A n \in Nat : \A k \in Nat : [ram EXCEPT !.seq = n, !.since = k] \in Memory
           /\ \A n \in Nat : [nvs EXCEPT !.press = n] \in Flash
           /\ \A n \in Nat : [nvs EXCEPT !.seqhi = n] \in Flash
           /\ \A c \in Code : [nvs EXCEPT !.code = c] \in Flash
           /\ \A r \in Row : [nvs EXCEPT !.token = r, !.code = None] \in Flash
BY DEF TypeOK, Memory, Flash

LEMMA NetTyping ==
    ASSUME TypeOK
    PROVE  /\ HangsUp => call' \in Request \cup {None} /\ answer' \in Answer /\ air' \subseteq Request
           /\ \A m \in Request : Sends(m) => /\ call' \in Request \cup {None} /\ answer' \in Answer
                                            /\ air' \subseteq Request
BY DEF TypeOK, HangsUp, Sends, Answer

LEMMA RowUpdate ==
    ASSUME TypeOK, NEW r \in Row
    PROVE  /\ row[r] \in Entry
           /\ \A e \in Entry : [row EXCEPT ![r] = e] \in [Row -> Entry]
BY DEF TypeOK

LEMMA OperatorTyping == ASSUME NodesAssumption, TypeOK, Operator PROVE TypeOK'
<1>1. ASSUME NEW c \in Code, Mint(c) \/ Expire(c) PROVE TypeOK'
  BY <1>1 DEF TypeOK, Mint, Expire
<1>2. ASSUME NEW r \in Row, Disable(r) PROVE TypeOK'
  <2>1. row' = [row EXCEPT ![r] = [row[r] EXCEPT !.state = "disabled"]]
    BY <1>2 DEF Disable, TypeOK
  <2>2. row' \in [Row -> Entry] BY <2>1, RowUpdate, EntryUpdates
  <2> QED BY <1>2, <2>2 DEF TypeOK, Disable
<1>3. ASSUME NEW r \in Row, Revoke(r) PROVE TypeOK'
  <2>1. row' \in [Row -> Entry] BY <1>3, RowUpdate, EntryUpdates DEF Revoke
  <2> QED BY <1>3, <2>1 DEF TypeOK, Revoke
<1>4. ASSUME NEW r \in Row, Deny(r) PROVE TypeOK'
  <2>1. row' \in [Row -> Entry] BY <1>4, RowUpdate, EntryUpdates DEF Deny
  <2> QED BY <1>4, <2>1 DEF TypeOK, Deny
<1>5. ASSUME NEW r \in Row, Approve(r) PROVE TypeOK'
  <2>1. row' \in [Row -> Entry] BY <1>5, RowUpdate, EntryUpdates DEF Approve
  <2> QED BY <1>5, <2>1 DEF TypeOK, Approve
<1> QED BY <1>1, <1>2, <1>3, <1>4, <1>5 DEF Operator

LEMMA JoinerTyping == ASSUME NodesAssumption, TypeOK, Joiner PROVE TypeOK'
<1>1. ASSUME NEW r \in Row, RequestJoin(r) PROVE TypeOK'
  <2> PICK gone \in SUBSET Row :
        row' = [Pruned(gone) EXCEPT ![r] = [@ EXCEPT !.state = "pending", !.asked = TRUE]]
    BY <1>1 DEF RequestJoin, States
  <2>1. Pruned(gone) \in [Row -> Entry] BY EntryUpdates DEF TypeOK, Pruned
  <2>2. row' \in [Row -> Entry] BY <2>1, EntryUpdates
  <2> QED BY <1>1, <2>2 DEF TypeOK, RequestJoin
<1>2. ASSUME NEW r \in Row, Claim(r) PROVE TypeOK'
  <2>1. CASE r \in issued
    <3>1. row' = [row EXCEPT ![r] = [row[r] EXCEPT !.asked = FALSE]]
      BY <1>2, <2>1 DEF Claim, TypeOK
    <3>2. row' \in [Row -> Entry] BY <3>1, RowUpdate, EntryUpdates
    <3> QED BY <1>2, <3>2 DEF TypeOK, Claim
  <2>2. CASE r \notin issued
    <3>1. row' \in [Row -> Entry] BY <1>2, <2>2, RowUpdate, EntryUpdates DEF Claim
    <3> QED BY <1>2, <3>1 DEF TypeOK, Claim
  <2> QED BY <2>1, <2>2
<1>3. ASSUME NEW r \in Row, Lapse(r) PROVE TypeOK'
  BY <1>3 DEF TypeOK, Lapse
<1> QED BY <1>1, <1>2, <1>3 DEF Joiner

LEMMA Reports ==
    ASSUME TypeOK, NEW m \in air, m.kind # "enrol"
    PROVE  m.by \in Row /\ m.n \in Nat
BY DEF TypeOK, Request, Enrolment, Report

LEMMA ServeTyping == ASSUME NodesAssumption, TypeOK, Serve PROVE TypeOK'
<1> SUFFICES ASSUME NEW m \in air,
                    \/ EnrolServed(m) \/ TelemetryServed(m)
                    \/ HeartbeatServed(m) \/ ReactivateServed(m)
             PROVE  TypeOK'
  BY DEF Serve
<1>0. Taken(m) => air' \subseteq Request /\ faults' \in Nat
  BY DEF TypeOK, Taken, Fault
<1>1. CASE EnrolServed(m)
  <2>1. row' = row \/ \E r \in Row : row' = [row EXCEPT ![r] =
                          [row[r] EXCEPT !.state = "active", !.key = TRUE]]
    BY <1>1 DEF EnrolServed
  <2>a. row' \in [Row -> Entry]
    <3>1. CASE row' = row BY <3>1 DEF TypeOK
    <3>2. ASSUME NEW r \in Row,
                 row' = [row EXCEPT ![r] = [row[r] EXCEPT !.state = "active", !.key = TRUE]]
          PROVE  row' \in [Row -> Entry]
      BY <3>2, RowUpdate, EntryUpdates
    <3> QED BY <2>1, <3>1, <3>2
  <2>2. answer' \in Answer BY <1>1 DEF TypeOK, EnrolServed, Answered, Answer
  <2> QED BY <1>0, <1>1, <2>a, <2>2 DEF TypeOK, EnrolServed, Answered
<1>2. CASE TelemetryServed(m)
  <2>1. m.by \in Row /\ m.n \in Nat BY <1>2, Reports DEF TelemetryServed
  <2>2. row' = row \/ row' = [row EXCEPT ![m.by] = [row[m.by] EXCEPT !.seq = m.n]]
    BY <1>2, <2>1 DEF TelemetryServed, TypeOK
  <2>a. [row[m.by] EXCEPT !.seq = m.n] \in Entry BY <2>1, RowUpdate, EntryUpdates
  <2>3. row' \in [Row -> Entry]
    <3>1. CASE row' = row BY <3>1 DEF TypeOK
    <3> QED BY <2>1, <2>2, <2>a, <3>1, RowUpdate
  <2> QED BY <1>0, <1>2, <2>3 DEF TypeOK, TelemetryServed, Answered, Answer
<1>3. CASE HeartbeatServed(m)
  BY <1>0, <1>3 DEF TypeOK, HeartbeatServed, Answered, Answer, Command
<1>4. CASE ReactivateServed(m)
  <2>1. m.by \in Row /\ m.n \in Nat BY <1>4, Reports DEF ReactivateServed
  <2>2. row' \in [Row -> Entry]
    <3>1. CASE row' = row BY <3>1 DEF TypeOK
    <3>2. CASE row' = [row EXCEPT ![m.by] = Noted(m.by, m.n)]
      <4>1. Noted(m.by, m.n) \in Entry BY <2>1, RowUpdate, EntryUpdates DEF Noted
      <4> QED BY <2>1, <3>2, <4>1, RowUpdate
    <3> QED BY <1>4, <3>1, <3>2 DEF ReactivateServed
  <2>3. enabled' \in [Row -> Nat]
    <3>1. enabled \in [Row -> Nat] BY DEF TypeOK
    <3>2. enabled[m.by] + 1 \in Nat BY <2>1, <3>1
    <3>3. \/ enabled' = enabled
          \/ enabled' = [enabled EXCEPT ![m.by] = enabled[m.by] + 1]
          \/ enabled' = [enabled EXCEPT ![m.by] = enabled[m.by]]
      BY <1>4 DEF ReactivateServed, Wakes
    <3> QED BY <2>1, <3>1, <3>2, <3>3
  <2> QED BY <1>0, <1>4, <2>2, <2>3 DEF TypeOK, ReactivateServed, Answered, Answer
<1> QED BY <1>1, <1>2, <1>3, <1>4

LEMMA BoardTyping == ASSUME NodesAssumption, TypeOK, Modes, Board PROVE TypeOK'
<1> DEFINE Ok == /\ call' \in Request \cup {None} /\ answer' \in Answer /\ air' \subseteq Request
                 /\ nvs' \in Flash /\ ram' \in Memory
                 /\ mode' \in {"off", "portal", "enrol", "loop"}
                 /\ faults' \in Nat
<1> SUFFICES Ok
  BY DEF TypeOK, Board, Boot, Press, SendHeartbeat, SendTelemetry, HoldButton, Hear,
         TimesOut, Disconnected, NoAnswer, PowerCut, Provision
<1>0. nvs.token \in Row => \A k \in {"telemetry", "heartbeat", "reactivate"}, n \in Nat :
        [kind |-> k, by |-> nvs.token, n |-> n] \in Request
  BY DEF Request, Report
<1>1. CASE Boot
  <2>1. nvs.seqhi + Margin \in Nat BY Numbers DEF NodesAssumption
  <2>2. nvs.code # None => [kind |-> "enrol", by |-> nvs.code, n |-> 0] \in Request
    BY Numbers DEF Request, Enrolment
  <2>3. nvs' \in Flash /\ ram' \in Memory
    <3>1. \/ UNCHANGED <<nvs, ram>>
          \/ /\ ram' = [Cold EXCEPT !.seq = nvs.seqhi + Margin]
             /\ nvs' = [nvs EXCEPT !.seqhi = nvs.seqhi + Margin]
      BY <1>1 DEF Boot, Published
    <3>2. nvs \in Flash /\ ram \in Memory
      BY DEF TypeOK
    <3> QED BY <2>1, <3>1, <3>2, MemoryTyping, MemoryUpdates
  <2>4. call' \in Request \cup {None} /\ answer' \in Answer /\ air' \subseteq Request
    BY <1>1, <2>2, NetTyping DEF Boot, Silent, TypeOK
  <2> QED BY <1>1, <2>3, <2>4 DEF Boot, TypeOK
<1>2. CASE Press
  <2>1. nvs' = [nvs EXCEPT !.press = nvs.press + 1] BY <1>2 DEF Press, Kept
  <2>2. [kind |-> "reactivate", by |-> nvs.token, n |-> nvs.press + 1] \in Request
    BY <1>0, <1>2, Numbers DEF Press, Idle, Modes
  <2>3. nvs' \in Flash BY <2>1, Numbers, MemoryUpdates
  <2> QED BY <1>2, <2>2, <2>3, NetTyping DEF Press, TypeOK
<1>3. CASE SendHeartbeat
  <2>1. [kind |-> "heartbeat", by |-> nvs.token, n |-> 0] \in Request
    BY <1>0, <1>3 DEF SendHeartbeat, Idle, Modes
  <2> QED BY <1>3, <2>1, NetTyping DEF SendHeartbeat, TypeOK
<1>4. CASE SendTelemetry
  <2>0. ram' = [ram EXCEPT !.seq = ram.seq + 1, !.since = 0]
        \/ ram' = [ram EXCEPT !.seq = ram.seq + 1, !.since = ram.since + 1]
    BY <1>4 DEF SendTelemetry
  <2>1. ram' \in Memory
    <3>1. ram.seq + 1 \in Nat /\ ram.since + 1 \in Nat /\ 0 \in Nat BY Numbers
    <3> QED BY <2>0, <3>1, MemoryUpdates
  <2>2. nvs' = [nvs EXCEPT !.seqhi = ram.seq + 1] \/ nvs' = [nvs EXCEPT !.seqhi = nvs.seqhi]
    BY <1>4 DEF SendTelemetry
  <2>3. nvs' \in Flash BY <2>2, Numbers, MemoryUpdates
  <2>4. [kind |-> "telemetry", by |-> nvs.token, n |-> ram.seq + 1] \in Request
    BY <1>0, <1>4, Numbers DEF SendTelemetry, Idle, Modes
  <2> QED BY <1>4, <2>1, <2>3, <2>4, NetTyping DEF SendTelemetry, TypeOK
<1>5. CASE HoldButton
  BY <1>5, MemoryTyping DEF HoldButton, Wiped, TypeOK
<1>6. CASE Hear
  <2>1. nvs' \in Flash
    BY <1>6, MemoryTyping, MemoryUpdates DEF Hear, HearEnrol, HearHeartbeat, Wiped, TypeOK
  <2>2. ram' \in Memory
    BY <1>6, MemoryTyping, MemoryUpdates DEF Hear, HearEnrol, HearHeartbeat, GoesDown, TypeOK
  <2>3. mode' \in {"off", "portal", "enrol", "loop"}
    BY <1>6 DEF Hear, HearEnrol, HearHeartbeat, Wiped, GoesDown, TypeOK
  <2> QED BY <1>6, <2>1, <2>2, <2>3, NetTyping DEF Hear, TypeOK
<1>7. CASE TimesOut \/ Disconnected
  <2>1. NoAnswer /\ faults' \in Nat BY <1>7 DEF TimesOut, Disconnected, Fault, TypeOK
  <2> QED BY <2>1, NetTyping, MemoryTyping DEF NoAnswer, GoesDown, TypeOK
<1>8. CASE PowerCut
  BY <1>8, NetTyping, MemoryTyping DEF PowerCut, Fault, GoesDown, TypeOK
<1>9. ASSUME NEW c \in Code, Provision(c) PROVE Ok
  BY <1>9, MemoryUpdates DEF Provision, TypeOK
<1> QED BY <1>1, <1>2, <1>3, <1>4, <1>5, <1>6, <1>7, <1>8, <1>9 DEF Board

LEMMA StepTyping == ASSUME NodesAssumption, TypeOK, Modes, Next PROVE TypeOK'
<1>1. CASE Restart BY <1>1 DEF TypeOK, Restart, Fault, Answer
<1> QED BY <1>1, OperatorTyping, JoinerTyping, ServeTyping, BoardTyping DEF Next

(***************************************************************************)
(* What happens at the Core away from the board leaves the numbers alone.  *)
(***************************************************************************)
SameNumbers ==
    \A r \in Row : /\ row'[r].seq = row[r].seq /\ row'[r].press = row[r].press
                   /\ row'[r].state = "absent" => row[r].state = "absent" /\ row'[r].key = row[r].key

LEMMA DeskStep ==
    ASSUME TypeOK, Operator \/ Joiner
    PROVE  SameNumbers /\ UNCHANGED <<enabled, board, net>>
<1>0. ASSUME NEW r \in Row, NEW e \in Entry, row' = [row EXCEPT ![r] = e],
             e.seq = row[r].seq, e.press = row[r].press,
             e.state = "absent" => row[r].state = "absent" /\ e.key = row[r].key
      PROVE  SameNumbers
  BY <1>0 DEF TypeOK, SameNumbers
<1>1. ASSUME NEW r \in Row, \/ Disable(r) \/ Revoke(r) \/ Approve(r) \/ Deny(r)
                           \/ Claim(r)
      PROVE  SameNumbers
  <2> USE RowUpdate
  <2>1. CASE Disable(r)
    <3> DEFINE e == [row[r] EXCEPT !.state = "disabled"]
    <3>0. e \in Entry BY EntryUpdates
    <3>1. e.seq = row[r].seq /\ e.press = row[r].press /\ e.state = "disabled"
      BY DEF Entry
    <3>2. row' = [row EXCEPT ![r] = e] BY <2>1 DEF Disable
    <3> QED BY <1>0, <3>0, <3>1, <3>2
  <2>2. CASE Revoke(r)
    <3> DEFINE e == [row[r] EXCEPT !.state = "revoked", !.key = FALSE]
    <3>0. e \in Entry BY EntryUpdates
    <3>1. e.seq = row[r].seq /\ e.press = row[r].press /\ e.state = "revoked"
      BY DEF Entry
    <3> QED BY <1>0, <2>2, <3>0, <3>1 DEF Revoke
  <2>3. CASE Approve(r)
    <3> DEFINE e == [row[r] EXCEPT !.state = "active", !.key = TRUE]
    <3>0. e \in Entry BY EntryUpdates
    <3>1. e.seq = row[r].seq /\ e.press = row[r].press /\ e.state = "active"
      BY DEF Entry
    <3> QED BY <1>0, <2>3, <3>0, <3>1 DEF Approve
  <2>4. CASE Deny(r)
    <3> DEFINE e == [row[r] EXCEPT !.state = "gone", !.asked = FALSE]
    <3>0. e \in Entry BY EntryUpdates
    <3>1. e.seq = row[r].seq /\ e.press = row[r].press /\ e.state = "gone"
      BY DEF Entry
    <3> QED BY <1>0, <2>4, <3>0, <3>1 DEF Deny
  <2>5. CASE Claim(r) /\ r \in issued
    <3> DEFINE e == [row[r] EXCEPT !.asked = FALSE]
    <3>0. e \in Entry BY EntryUpdates
    <3>1. e.seq = row[r].seq /\ e.press = row[r].press
          /\ e.state = row[r].state /\ e.key = row[r].key
      BY DEF Entry
    <3>2. row' = [row EXCEPT ![r] = e] BY <2>5 DEF Claim
    <3> QED BY <1>0, <3>0, <3>1, <3>2
  <2>6. CASE Claim(r) /\ r \notin issued
    <3> DEFINE e == [row[r] EXCEPT !.state = "pending", !.key = FALSE]
    <3>0. e \in Entry BY EntryUpdates
    <3>1. e.seq = row[r].seq /\ e.press = row[r].press /\ e.state = "pending"
      BY DEF Entry
    <3> QED BY <1>0, <2>6, <3>0, <3>1 DEF Claim
  <2> QED BY <1>1, <2>1, <2>2, <2>3, <2>4, <2>5, <2>6
<1>2. ASSUME NEW r \in Row, RequestJoin(r) PROVE SameNumbers
  <2> PICK gone \in SUBSET States({"pending"}) :
        row' = [Pruned(gone) EXCEPT ![r] = [@ EXCEPT !.state = "pending", !.asked = TRUE]]
    BY <1>2 DEF RequestJoin
  <2>1. \A x \in Row : /\ Pruned(gone)[x].seq = row[x].seq
                       /\ Pruned(gone)[x].press = row[x].press
                       /\ x \in gone \/ Pruned(gone)[x] = row[x]
                       /\ x \in gone => Pruned(gone)[x].state = "gone"
    BY DEF Pruned, TypeOK, Entry
  <2>2. row' \in [Row -> Entry] /\ Pruned(gone) \in [Row -> Entry]
    BY <1>2, EntryUpdates DEF Pruned, TypeOK
  <2>3. row'[r].seq = row[r].seq /\ row'[r].press = row[r].press /\ row'[r].state = "pending"
    BY <2>1, <2>2 DEF Entry
  <2>4. \A x \in Row \ {r} : row'[x] = Pruned(gone)[x] BY <2>2
  <2> QED BY <2>1, <2>3, <2>4 DEF SameNumbers
<1>3. ASSUME UNCHANGED row PROVE SameNumbers BY <1>3 DEF SameNumbers
<1>4. CASE Operator BY <1>1, <1>3, <1>4 DEF Operator, Mint, Expire, Disable, Revoke, Approve, Deny
<1>5. CASE Joiner BY <1>1, <1>2, <1>3, <1>5 DEF Joiner, RequestJoin, Claim, Lapse
<1> QED BY <1>4, <1>5

LEMMA DeskInv ==
    ASSUME NodesAssumption, IInv, Operator \/ Joiner
    PROVE  /\ Unborn' /\ Offered' /\ Modes' /\ Checkpoint' /\ Frames' /\ Counts'
           /\ OnePressOneWaking'
<1>1. SameNumbers /\ UNCHANGED <<enabled, board, net>> BY DeskStep DEF IInv
<1>2. Unborn' BY <1>1 DEF IInv, Unborn, SameNumbers
<1>3. Offered' BY <1>1 DEF IInv, Offered, SameNumbers
<1>4. Modes' /\ Checkpoint' BY <1>1 DEF IInv, Modes, Checkpoint
<1>5. Frames' BY <1>1 DEF IInv, Frames, Top, SameNumbers
<1>6. Counts' BY <1>1 DEF IInv, Counts, SameNumbers
<1>7. OnePressOneWaking' BY <1>1 DEF IInv, OnePressOneWaking, SameNumbers
<1> QED BY <1>2, <1>3, <1>4, <1>5, <1>6, <1>7

LEMMA RestartInv ==
    ASSUME NodesAssumption, IInv, Restart
    PROVE  /\ Unborn' /\ Offered' /\ Modes' /\ Checkpoint' /\ Frames' /\ Counts'
           /\ OnePressOneWaking'
<1> USE DEF Restart, IInv
<1>1. "none" \notin Row BY DEF NodesAssumption
<1>2. Unborn' BY <1>1 DEF Unborn
<1>3. Offered' BY <1>1 DEF Offered
<1>4. Modes' /\ Checkpoint' /\ OnePressOneWaking' BY DEF Modes, Checkpoint, OnePressOneWaking
<1>5. Frames' BY DEF Frames, Top
<1>6. Counts' BY DEF Counts
<1> QED BY <1>2, <1>3, <1>4, <1>5, <1>6

(***************************************************************************)
(* What the Core does with a request.                                      *)
(***************************************************************************)
LEMMA Served ==
    ASSUME NodesAssumption, TypeOK, NEW m \in air, NEW a, Taken(m), Answered(m, a)
    PROVE  /\ air' \subseteq air /\ call' = call
           /\ answer' = answer \/ (answer' = a /\ call = m)
BY DEF Taken, Answered

LEMMA EnrolInv ==
    ASSUME NodesAssumption, IInv, NEW m \in air, EnrolServed(m)
    PROVE  /\ Unborn' /\ Offered' /\ Modes' /\ Checkpoint' /\ Frames' /\ Counts'
           /\ OnePressOneWaking'
<1> TypeOK BY DEF IInv
<1>0. UNCHANGED <<enabled, board>> /\ m.kind = "enrol" BY DEF EnrolServed
<1>1. CASE UNCHANGED row /\ Answered(m, "refused")
  <2>1. air' \subseteq air /\ call' = call /\ (answer' = answer \/ answer' = "refused")
    BY <1>1, Served DEF EnrolServed
  <2>2. "refused" \notin Row BY DEF NodesAssumption
  <2>3. Unborn' BY <1>0, <1>1, <2>1, <2>2 DEF IInv, Unborn
  <2>4. Offered' BY <1>0, <1>1, <2>1, <2>2 DEF IInv, Offered
  <2>5. Modes' /\ Checkpoint' /\ OnePressOneWaking'
    BY <1>0, <1>1, <2>1 DEF IInv, Modes, Checkpoint, OnePressOneWaking
  <2>6. Frames' BY <1>0, <1>1, <2>1 DEF IInv, Frames, Top
  <2>7. Counts' BY <1>0, <1>1, <2>1 DEF IInv, Counts
  <2> QED BY <2>3, <2>4, <2>5, <2>6, <2>7
<1>2. ASSUME NEW r \in Row, row[r].state = "absent", Answered(m, r),
             row' = [row EXCEPT ![r] = [row[r] EXCEPT !.state = "active", !.key = TRUE]]
      PROVE  /\ Unborn' /\ Offered' /\ Modes' /\ Checkpoint' /\ Frames' /\ Counts'
             /\ OnePressOneWaking'
  <2>1. air' \subseteq air /\ call' = call /\ (answer' = answer \/ (answer' = r /\ call = m))
    BY <1>2, Served DEF EnrolServed
  <2>2. row'[r].seq = row[r].seq /\ row'[r].press = row[r].press /\ row'[r].state = "active"
    BY <1>2, RowUpdate DEF TypeOK, Entry
  <2>3. \A x \in Row \ {r} : row'[x] = row[x] BY <1>2 DEF TypeOK
  <2>4. /\ row[r].seq = 0 /\ row[r].press = 0 /\ nvs.token # r
        /\ \A k \in air : k.kind # "enrol" => k.by # r
    BY <1>2 DEF IInv, Unborn
  <2>5. Unborn' BY <1>0, <1>2, <2>1, <2>2, <2>3 DEF IInv, Unborn
  <2>6. Offered'
    <3>1. CASE answer' = r /\ call = m
      BY <1>0, <2>1, <2>2, <2>4, <3>1 DEF Offered
    <3>2. CASE answer' = answer
      BY <2>1, <2>2, <2>3, <3>2 DEF IInv, Offered
    <3> QED BY <2>1, <3>1, <3>2
  <2>7. Modes' /\ Checkpoint' BY <1>0, <2>1 DEF IInv, Modes, Checkpoint
  <2>8. Frames' BY <1>0, <2>1, <2>3, <2>4 DEF IInv, Frames, Top
  <2>9. Counts' BY <1>0, <2>1, <2>3, <2>4 DEF IInv, Counts
  <2>10. OnePressOneWaking' BY <1>0, <2>2, <2>3 DEF IInv, OnePressOneWaking
  <2> QED BY <2>5, <2>6, <2>7, <2>8, <2>9, <2>10
<1> QED BY <1>1, <1>2 DEF EnrolServed

LEMMA TelemetryInv ==
    ASSUME NodesAssumption, IInv, NEW m \in air, TelemetryServed(m)
    PROVE  /\ Unborn' /\ Offered' /\ Modes' /\ Checkpoint' /\ Frames' /\ Counts'
           /\ OnePressOneWaking'
<1> TypeOK BY DEF IInv
<1>0. UNCHANGED <<enabled, board>> /\ m.kind = "telemetry" /\ m.by \in Row /\ m.n \in Nat
  BY Reports DEF TelemetryServed
<1>1. air' \subseteq air /\ call' = call /\ (answer' = answer \/ answer' = "ok")
  BY Served DEF TelemetryServed
<1>2. "ok" \notin Row BY DEF NodesAssumption
<1>3. \A r \in Row : /\ row'[r].press = row[r].press /\ row'[r].state = row[r].state
                     /\ row'[r].key = row[r].key
                     /\ row'[r].seq = row[r].seq \/ (r = m.by /\ row'[r].seq = m.n)
  <2>1. CASE row' = row BY <2>1
  <2>2. CASE row' = [row EXCEPT ![m.by].seq = m.n]
    <3>1. \A r \in Row \ {m.by} : row'[r] = row[r] BY <2>2 DEF TypeOK
    <3>2. row'[m.by] = [row[m.by] EXCEPT !.seq = m.n] BY <1>0, <2>2 DEF TypeOK
    <3>3. /\ row'[m.by].seq = m.n /\ row'[m.by].press = row[m.by].press
          /\ row'[m.by].state = row[m.by].state /\ row'[m.by].key = row[m.by].key
      BY <1>0, <3>2, RowUpdate DEF Entry
    <3> QED BY <3>1, <3>3
  <2> QED BY <2>1, <2>2 DEF TelemetryServed
<1>4. Unborn'
  <2>1. row[m.by].state # "absent" BY <1>0 DEF IInv, Unborn
  <2> QED BY <1>0, <1>1, <1>2, <1>3, <2>1 DEF IInv, Unborn
<1>5. Offered'
  <2>1. answer \in Row => m.by # answer BY <1>0 DEF IInv, Offered
  <2> QED BY <1>0, <1>1, <1>2, <1>3, <2>1 DEF IInv, Offered
<1>6. Modes' /\ Checkpoint' BY <1>0, <1>1 DEF IInv, Modes, Checkpoint
<1>7. Frames'
  <2>1. m.by = nvs.token => m.n <= Top BY <1>0 DEF IInv, Frames
  <2>2. Top' = Top BY <1>0 DEF Top
  <2> QED BY <1>0, <1>1, <1>3, <2>1, <2>2 DEF IInv, Frames
<1>8. Counts' BY <1>0, <1>1, <1>3 DEF IInv, Counts
<1>9. OnePressOneWaking' BY <1>0, <1>3 DEF IInv, OnePressOneWaking
<1> QED BY <1>4, <1>5, <1>6, <1>7, <1>8, <1>9

LEMMA HeartbeatInv ==
    ASSUME NodesAssumption, IInv, NEW m \in air, HeartbeatServed(m)
    PROVE  /\ Unborn' /\ Offered' /\ Modes' /\ Checkpoint' /\ Frames' /\ Counts'
           /\ OnePressOneWaking'
<1> TypeOK BY DEF IInv
<1>0. UNCHANGED <<core, board>> BY DEF HeartbeatServed
<1>1. air' \subseteq air /\ call' = call /\ (answer' = answer \/ answer' \in {"ok", "sleep", "refused"})
  BY Served DEF HeartbeatServed, Command
<1>2. \A a \in {"ok", "sleep", "refused"} : a \notin Row BY DEF NodesAssumption
<1>4. Unborn' BY <1>0, <1>1, <1>2 DEF IInv, Unborn
<1>5. Offered' BY <1>0, <1>1, <1>2 DEF IInv, Offered
<1>6. Modes' /\ Checkpoint' /\ OnePressOneWaking'
  BY <1>0, <1>1 DEF IInv, Modes, Checkpoint, OnePressOneWaking
<1>7. Frames' BY <1>0, <1>1 DEF IInv, Frames, Top
<1>8. Counts' BY <1>0, <1>1 DEF IInv, Counts
<1> QED BY <1>4, <1>5, <1>6, <1>7, <1>8

LEMMA ReactivateInv ==
    ASSUME NodesAssumption, IInv, NEW m \in air, ReactivateServed(m)
    PROVE  /\ Unborn' /\ Offered' /\ Modes' /\ Checkpoint' /\ Frames' /\ Counts'
           /\ OnePressOneWaking'
<1> TypeOK BY DEF IInv
<1>0. UNCHANGED board /\ m.kind = "reactivate" /\ m.by \in Row /\ m.n \in Nat
  BY Reports DEF ReactivateServed
<1>1. air' \subseteq air /\ call' = call /\ (answer' = answer \/ answer' = "ok")
  BY Served DEF ReactivateServed
<1>2. "ok" \notin Row BY DEF NodesAssumption
<1>3. CASE UNCHANGED <<row, enabled>>
  <2>1. Unborn' BY <1>0, <1>1, <1>2, <1>3 DEF IInv, Unborn
  <2>2. Offered' BY <1>0, <1>1, <1>2, <1>3 DEF IInv, Offered
  <2>3. Modes' /\ Checkpoint' /\ OnePressOneWaking'
    BY <1>0, <1>1, <1>3 DEF IInv, Modes, Checkpoint, OnePressOneWaking
  <2>4. Frames' BY <1>0, <1>1, <1>3 DEF IInv, Frames, Top
  <2>5. Counts' BY <1>0, <1>1, <1>3 DEF IInv, Counts
  <2> QED BY <2>1, <2>2, <2>3, <2>4, <2>5
<1>4. CASE /\ row' = [row EXCEPT ![m.by] = Noted(m.by, m.n)]
           /\ m.n > row[m.by].press
           /\ enabled' = [enabled EXCEPT ![m.by] = IF Wakes(m.by) THEN @ + 1 ELSE @]
  <2>1. \A r \in Row \ {m.by} : row'[r] = row[r] /\ enabled'[r] = enabled[r]
    BY <1>4 DEF TypeOK
  <2>2. row'[m.by] = Noted(m.by, m.n) BY <1>0, <1>4 DEF TypeOK
  <2>3. row'[m.by].press = m.n /\ row'[m.by].seq = row[m.by].seq
    BY <1>0, <2>2, RowUpdate DEF Noted, Entry
  <2>4. row[m.by].state # "absent" /\ row'[m.by].state # "absent"
    <3>1. row[m.by].state # "absent" BY <1>0 DEF IInv, Unborn
    <3>2. row'[m.by].state \in {"active", row[m.by].state}
      BY <1>0, <2>2, RowUpdate DEF Noted, Entry
    <3> QED BY <3>1, <3>2
  <2>5. Unborn' BY <1>0, <1>1, <1>2, <2>1, <2>4 DEF IInv, Unborn
  <2>6. Offered'
    <3>1. answer \in Row => m.by # answer BY <1>0 DEF IInv, Offered
    <3> QED BY <1>0, <1>1, <1>2, <2>1, <3>1 DEF IInv, Offered
  <2>7. Modes' /\ Checkpoint' BY <1>0, <1>1 DEF IInv, Modes, Checkpoint
  <2>8. Frames' BY <1>0, <1>1, <2>1, <2>3 DEF IInv, Frames, Top
  <2>9. Counts'
    <3>1. m.by = nvs.token => m.n <= nvs.press BY <1>0 DEF IInv, Counts
    <3> QED BY <1>0, <1>1, <2>1, <2>3, <3>1 DEF IInv, Counts
  <2>10. OnePressOneWaking'
    <3>1. enabled[m.by] \in Nat /\ row[m.by].press \in Nat /\ enabled[m.by] <= row[m.by].press
      BY <1>0 DEF IInv, OnePressOneWaking, TypeOK, Entry
    <3>2. enabled'[m.by] <= enabled[m.by] + 1
      BY <1>0, <1>4, <3>1 DEF TypeOK
    <3>3. enabled'[m.by] \in Nat BY <1>0, <1>4, <3>1 DEF TypeOK
    <3>4. \A k, e, q, n \in Nat : e <= q /\ n > q /\ k <= e + 1 => k <= n
      OBVIOUS
    <3>5. enabled'[m.by] <= row'[m.by].press
      BY <1>0, <1>4, <2>3, <3>1, <3>2, <3>3, <3>4
    <3> QED BY <2>1, <3>5 DEF IInv, OnePressOneWaking
  <2> QED BY <2>5, <2>6, <2>7, <2>8, <2>9, <2>10
<1> QED BY <1>3, <1>4 DEF ReactivateServed, Fresh

(***************************************************************************)
(* The board's own steps: the table does not move.                         *)
(***************************************************************************)
LEMMA BootInv ==
    ASSUME NodesAssumption, IInv, Boot
    PROVE  /\ Unborn' /\ Offered' /\ Modes' /\ Checkpoint' /\ Frames' /\ Counts'
           /\ OnePressOneWaking'
<1>0. TypeOK /\ UNCHANGED core /\ mode = "off" BY DEF IInv, Boot
<1>1. /\ nvs'.token = nvs.token /\ nvs'.press = nvs.press
      /\ mode' # "portal" => ram'.seq = nvs.seqhi + Margin /\ nvs'.seqhi = nvs.seqhi + Margin
                              /\ ram'.since = 0
  BY <1>0 DEF TypeOK, Flash, Boot, Published, Cold
<1>2. \/ UNCHANGED net /\ mode' = "portal" /\ nvs.token = None
      \/ UNCHANGED net /\ mode' = "loop" /\ nvs.token # None
      \/ /\ answer' = "none" /\ nvs.token = None /\ mode' = "enrol"
         /\ \E e \in {[kind |-> "enrol", by |-> nvs.code, n |-> 0]} : call' = e /\ air' = air \cup {e}
  BY DEF Boot, Silent, Sends
<1>a. \/ UNCHANGED net
      \/ /\ answer' = "none"
         /\ \A m \in air' : m \in air \/ m.kind = "enrol"
  BY <1>2
<1>b. "none" \notin Row /\ None \notin Row BY DEF NodesAssumption
<1>3. Unborn' BY <1>0, <1>1, <1>a, <1>b DEF IInv, Unborn
<1>4. Offered' BY <1>0, <1>a, <1>b DEF IInv, Offered
<1>5. Modes'
  <2>1. UNCHANGED net => (call' # None => call'.kind # "enrol")
    BY <1>0 DEF IInv, Modes
  <2> QED BY <1>0, <1>1, <1>2, <2>1, Numbers DEF Modes
<1>6. Checkpoint'
  <2>1. mode' # "portal" => ram'.seq = nvs'.seqhi + ram'.since
    BY <1>0, <1>1, Numbers DEF NodesAssumption
  <2> QED BY <1>1, <2>1 DEF Checkpoint, NodesAssumption
<1>7. Frames'
  <2>1. CASE mode' = "loop"
    <3>1. Top' = Top BY <1>0, <1>1, <2>1 DEF Top
    <3> QED BY <1>0, <1>1, <1>2, <2>1, <3>1 DEF IInv, Frames
  <2>2. CASE mode' # "loop"
    BY <1>1, <1>2, <1>b, <2>2 DEF Frames
  <2> QED BY <2>1, <2>2
<1>8. Counts'
  <2>1. \A m \in air' : m \in air \/ m.kind = "enrol" BY <1>a
  <2> QED BY <1>0, <1>1, <2>1 DEF IInv, Counts
<1>9. OnePressOneWaking' BY <1>0 DEF IInv, OnePressOneWaking
<1> QED BY <1>3, <1>4, <1>5, <1>6, <1>7, <1>8, <1>9

LEMMA PressInv ==
    ASSUME NodesAssumption, IInv, Press
    PROVE  /\ Unborn' /\ Offered' /\ Modes' /\ Checkpoint' /\ Frames' /\ Counts'
           /\ OnePressOneWaking'
<1> DEFINE e == [kind |-> "reactivate", by |-> nvs.token, n |-> nvs.press + 1]
<1>0. /\ TypeOK /\ UNCHANGED <<core, ram, mode>> /\ mode = "loop" /\ nvs.token \in Row
      /\ call' = e /\ air' = air \cup {e} /\ answer' = "none"
  BY DEF IInv, Press, Idle, Sends, Modes
<1>1. nvs'.token = nvs.token /\ nvs'.seqhi = nvs.seqhi /\ nvs'.press = nvs.press + 1
  BY <1>0 DEF TypeOK, Flash, Press, Kept
<1>2. "none" \notin Row BY DEF NodesAssumption
<1>3. Unborn' BY <1>0, <1>1, <1>2 DEF IInv, Unborn
<1>4. Offered' BY <1>0, <1>2 DEF Offered
<1>5. Modes' BY <1>0, <1>1 DEF IInv, Modes
<1>6. Checkpoint' BY <1>0, <1>1 DEF IInv, Checkpoint
<1>7. Frames' BY <1>0, <1>1 DEF IInv, Frames, Top
<1>8. Counts'
  <2>1. row[nvs.token].press \in Nat /\ nvs.press \in Nat BY <1>0, Numbers DEF TypeOK, Entry
  <2>2. \A m \in air : m.kind = "reactivate" => m.n \in Nat BY <1>0, Reports
  <2>3. \A k, q \in Nat : k <= q => k <= q + 1 OBVIOUS
  <2>4. row[nvs.token].press <= nvs.press + 1 BY <1>0, <2>1, <2>3 DEF IInv, Counts
  <2>5. \A m \in air : m.kind = "reactivate" /\ m.by = nvs.token => m.n <= nvs.press + 1
    BY <1>0, <2>1, <2>2, <2>3 DEF IInv, Counts
  <2>6. e.n <= nvs.press + 1 BY <2>1
  <2> QED BY <1>0, <1>1, <2>4, <2>5, <2>6 DEF Counts
<1>9. OnePressOneWaking' BY <1>0 DEF IInv, OnePressOneWaking
<1> QED BY <1>3, <1>4, <1>5, <1>6, <1>7, <1>8, <1>9

LEMMA SendHeartbeatInv ==
    ASSUME NodesAssumption, IInv, SendHeartbeat
    PROVE  /\ Unborn' /\ Offered' /\ Modes' /\ Checkpoint' /\ Frames' /\ Counts'
           /\ OnePressOneWaking'
<1> DEFINE e == [kind |-> "heartbeat", by |-> nvs.token, n |-> 0]
<1>0. /\ UNCHANGED <<core, board>> /\ mode = "loop" /\ nvs.token \in Row
      /\ call' = e /\ air' = air \cup {e} /\ answer' = "none"
  BY DEF IInv, SendHeartbeat, Idle, Sends, Modes
<1>2. "none" \notin Row BY DEF NodesAssumption
<1>3. Unborn' BY <1>0, <1>2 DEF IInv, Unborn
<1>4. Offered' BY <1>0, <1>2 DEF Offered
<1>5. Modes' BY <1>0 DEF IInv, Modes
<1>6. Checkpoint' BY <1>0 DEF IInv, Checkpoint
<1>7. Frames' BY <1>0 DEF IInv, Frames, Top
<1>8. Counts' BY <1>0 DEF IInv, Counts
<1>9. OnePressOneWaking' BY <1>0 DEF IInv, OnePressOneWaking
<1> QED BY <1>3, <1>4, <1>5, <1>6, <1>7, <1>8, <1>9

LEMMA SendTelemetryInv ==
    ASSUME NodesAssumption, IInv, SendTelemetry
    PROVE  /\ Unborn' /\ Offered' /\ Modes' /\ Checkpoint' /\ Frames' /\ Counts'
           /\ OnePressOneWaking'
<1> DEFINE e == [kind |-> "telemetry", by |-> nvs.token, n |-> ram.seq + 1]
<1>0. /\ TypeOK /\ UNCHANGED <<core, mode>> /\ mode = "loop" /\ nvs.token \in Row
      /\ call' = e /\ air' = air \cup {e} /\ answer' = "none"
  BY DEF IInv, SendTelemetry, Idle, Sends, Modes
<1>1. nvs'.token = nvs.token /\ nvs'.press = nvs.press /\ ram'.seq = ram.seq + 1
  BY <1>0 DEF TypeOK, Flash, Memory, SendTelemetry
<1>2. "none" \notin Row BY DEF NodesAssumption
<1>3. Unborn' BY <1>0, <1>1, <1>2 DEF IInv, Unborn
<1>4. Offered' BY <1>0, <1>2 DEF Offered
<1>5. Modes' BY <1>0, <1>1 DEF IInv, Modes
<1>6. Checkpoint'
  <2>1. ram.seq = nvs.seqhi + ram.since BY <1>0 DEF IInv, Checkpoint
  <2>2. CASE ram.since + 1 >= Every
    <3>1. nvs'.seqhi = ram.seq + 1 /\ ram'.since = 0
      BY <1>0, <2>2 DEF TypeOK, Flash, Memory, SendTelemetry
    <3>2. ram'.seq = nvs'.seqhi + ram'.since BY <1>0, <1>1, <3>1, Numbers
    <3> QED BY <3>1, <3>2 DEF Checkpoint, NodesAssumption
  <2>3. CASE ~(ram.since + 1 >= Every)
    <3>1. nvs'.seqhi = nvs.seqhi /\ ram'.since = ram.since + 1
      BY <1>0, <2>3 DEF TypeOK, Flash, Memory, SendTelemetry
    <3>2. ram'.seq = nvs'.seqhi + ram'.since BY <1>0, <1>1, <2>1, <3>1, Numbers
    <3>3. ram.since + 1 < Every BY <1>0, <2>3, Numbers DEF NodesAssumption
    <3> QED BY <3>1, <3>2, <3>3 DEF Checkpoint
  <2> QED BY <2>2, <2>3
<1>7. Frames'
  <2>1. row[nvs.token].seq \in Nat /\ ram.seq \in Nat BY <1>0, Numbers DEF TypeOK, Entry
  <2>2. \A m \in air : m.kind = "telemetry" => m.n \in Nat BY <1>0, Reports
  <2>3. \A k, q \in Nat : k <= q => k <= q + 1 OBVIOUS
  <2>4. row[nvs.token].seq <= ram.seq + 1 BY <1>0, <2>1, <2>3 DEF IInv, Frames, Top
  <2>5. \A m \in air : m.kind = "telemetry" /\ m.by = nvs.token => m.n <= ram.seq + 1
    BY <1>0, <2>1, <2>2, <2>3 DEF IInv, Frames, Top
  <2>6. e.n <= ram.seq + 1 BY <2>1
  <2> QED BY <1>0, <1>1, <2>4, <2>5, <2>6 DEF Frames, Top
<1>8. Counts' BY <1>0, <1>1 DEF IInv, Counts
<1>9. OnePressOneWaking' BY <1>0 DEF IInv, OnePressOneWaking
<1> QED BY <1>3, <1>4, <1>5, <1>6, <1>7, <1>8, <1>9

\* The margin covers what was sent since the checkpoint.
LEMMA Covered ==
    ASSUME NodesAssumption, IInv, mode \in {"enrol", "loop"}
    PROVE  \A n \in Nat : n <= ram.seq => n <= nvs.seqhi + Margin
<1>1. ram.seq = nvs.seqhi + ram.since /\ ram.since < Every BY DEF IInv, Checkpoint
<1>2. /\ nvs.seqhi \in Nat /\ ram.since \in Nat /\ ram.seq \in Nat
      /\ Every \in Nat /\ Margin \in Nat /\ Every <= Margin + 1
  BY Numbers DEF IInv, NodesAssumption
<1>3. \A s, h, q, e, g \in Nat : s = h + q /\ q < e /\ e <= g + 1 => s <= h + g OBVIOUS
<1>4. ram.seq <= nvs.seqhi + Margin BY <1>1, <1>2, <1>3
<1> QED BY <1>2, <1>4

\* A board that keeps everything, or has no token and waits for nothing.
LEMMA QuietInv ==
    ASSUME NodesAssumption, IInv, UNCHANGED core,
           \/ UNCHANGED board
           \/ nvs'.token = None /\ mode' \in {"off", "portal"} /\ call' = None,
           call' \in {call, None}, answer' \in {answer, "none"}, air' \subseteq air,
           call' = call \/ answer' = "none"
    PROVE  /\ Unborn' /\ Offered' /\ Modes' /\ Checkpoint' /\ Frames' /\ Counts'
           /\ OnePressOneWaking'
<1>1. "none" \notin Row /\ None \notin Row BY DEF NodesAssumption
<1>2. Unborn' BY <1>1 DEF IInv, Unborn
<1>3. Offered' BY <1>1 DEF IInv, Offered
<1>4. OnePressOneWaking' BY DEF IInv, OnePressOneWaking
<1>5. CASE UNCHANGED board
  <2>1. Modes' /\ Checkpoint' BY <1>5 DEF IInv, Modes, Checkpoint
  <2>2. Frames' BY <1>5 DEF IInv, Frames, Top
  <2>3. Counts' BY <1>5 DEF IInv, Counts
  <2> QED BY <1>2, <1>3, <1>4, <2>1, <2>2, <2>3
<1>6. CASE nvs'.token = None /\ mode' \in {"off", "portal"} /\ call' = None
  <2>1. Modes' /\ Checkpoint' BY <1>6 DEF Modes, Checkpoint
  <2>2. Frames' /\ Counts' BY <1>1, <1>6 DEF Frames, Counts
  <2> QED BY <1>2, <1>3, <1>4, <2>1, <2>2
<1> QED BY <1>5, <1>6

LEMMA HoldButtonInv ==
    ASSUME NodesAssumption, IInv, HoldButton
    PROVE  /\ Unborn' /\ Offered' /\ Modes' /\ Checkpoint' /\ Frames' /\ Counts'
           /\ OnePressOneWaking'
<1>1. /\ UNCHANGED core /\ nvs'.token = None /\ mode' = "off" /\ call' = None
      /\ call' = call /\ answer' = answer /\ air' = air
  BY DEF HoldButton, Idle, Wiped, Factory
<1> QED BY <1>1, QuietInv

LEMMA ProvisionInv ==
    ASSUME NodesAssumption, IInv, NEW c \in Code, Provision(c)
    PROVE  /\ Unborn' /\ Offered' /\ Modes' /\ Checkpoint' /\ Frames' /\ Counts'
           /\ OnePressOneWaking'
<1>1. /\ UNCHANGED <<core, ram, net>> /\ mode = "portal" /\ mode' = "off"
      /\ nvs'.token = nvs.token /\ nvs'.press = nvs.press /\ nvs'.seqhi = nvs.seqhi
  BY DEF IInv, TypeOK, Flash, Provision
<1>2. Unborn' BY <1>1 DEF IInv, Unborn
<1>3. Offered' BY <1>1 DEF IInv, Offered
<1>4. Modes' BY <1>1 DEF IInv, Modes
<1>5. Checkpoint' BY <1>1 DEF Checkpoint
<1>6. Frames' BY <1>1 DEF IInv, Frames, Top
<1>7. Counts' BY <1>1 DEF IInv, Counts
<1>8. OnePressOneWaking' BY <1>1 DEF IInv, OnePressOneWaking
<1> QED BY <1>2, <1>3, <1>4, <1>5, <1>6, <1>7, <1>8

LEMMA Hushed ==
    ASSUME HangsUp
    PROVE  call' = None /\ answer' = "none" /\ air' \subseteq air
BY DEF HangsUp

\* A board that goes down remembers its flash, and the margin covers the rest.
LEMMA DownInv ==
    ASSUME NodesAssumption, IInv, mode \in {"enrol", "loop"}, GoesDown, HangsUp,
           UNCHANGED <<core, nvs>>
    PROVE  /\ Unborn' /\ Offered' /\ Modes' /\ Checkpoint' /\ Frames' /\ Counts'
           /\ OnePressOneWaking'
<1>1. "none" \notin Row BY DEF NodesAssumption
<1>2. mode' = "off" BY DEF GoesDown
<1>3. Unborn' BY <1>1, Hushed DEF IInv, Unborn
<1>4. Offered' BY <1>1, Hushed DEF Offered
<1>5. Modes' /\ Checkpoint' BY <1>2, Hushed DEF Modes, Checkpoint
<1>6. Frames'
  <2> SUFFICES ASSUME nvs.token \in Row
               PROVE  /\ row[nvs.token].seq <= nvs.seqhi + Margin
                      /\ \A m \in air : m.kind = "telemetry" /\ m.by = nvs.token
                                          => m.n <= nvs.seqhi + Margin
    BY <1>2, Hushed DEF Frames, Top
  <2>1. mode = "loop"
    BY DEF IInv, Modes, NodesAssumption
  <2>2. row[nvs.token].seq \in Nat BY DEF IInv, TypeOK, Entry
  <2>3. \A m \in air : m.kind = "telemetry" => m.n \in Nat BY Reports DEF IInv
  <2> QED BY <2>1, <2>2, <2>3, Covered DEF IInv, Frames, Top
<1>7. Counts' BY Hushed DEF IInv, Counts
<1>8. OnePressOneWaking' BY DEF IInv, OnePressOneWaking
<1> QED BY <1>3, <1>4, <1>5, <1>6, <1>7, <1>8

LEMMA NoAnswerInv ==
    ASSUME NodesAssumption, IInv, NoAnswer
    PROVE  /\ Unborn' /\ Offered' /\ Modes' /\ Checkpoint' /\ Frames' /\ Counts'
           /\ OnePressOneWaking'
<1>1. CASE mode = "enrol" /\ GoesDown /\ UNCHANGED nvs
  BY <1>1, DownInv DEF NoAnswer
<1>2. CASE UNCHANGED board
  <2>1. UNCHANGED core /\ call' = None /\ answer' = "none" /\ air' \subseteq air
    BY Hushed DEF NoAnswer
  <2> QED BY <1>2, <2>1, QuietInv
<1> QED BY <1>1, <1>2 DEF NoAnswer

LEMMA PowerCutInv ==
    ASSUME NodesAssumption, IInv, PowerCut
    PROVE  /\ Unborn' /\ Offered' /\ Modes' /\ Checkpoint' /\ Frames' /\ Counts'
           /\ OnePressOneWaking'
BY DownInv DEF PowerCut

LEMMA HearInv ==
    ASSUME NodesAssumption, IInv, Hear
    PROVE  /\ Unborn' /\ Offered' /\ Modes' /\ Checkpoint' /\ Frames' /\ Counts'
           /\ OnePressOneWaking'
<1>0. /\ UNCHANGED core /\ call # None
      /\ call' = None /\ answer' = "none" /\ air' \subseteq air
  BY Hushed DEF Hear
<1>1. "none" \notin Row /\ None \notin Row BY DEF NodesAssumption
<1>2. CASE UNCHANGED board BY <1>0, <1>2, QuietInv
<1>3. CASE Wiped
  <2>1. nvs'.token = None /\ mode' = "off" BY <1>3 DEF Wiped, Factory
  <2> QED BY <1>0, <2>1, QuietInv
<1>4. CASE call.kind = "enrol" /\ GoesDown /\ UNCHANGED nvs
  <2>1. mode = "enrol" BY <1>0, <1>4 DEF IInv, Modes
  <2> QED BY <1>4, <2>1, DownInv DEF Hear
<1>5. CASE /\ nvs' = nvs /\ mode' = mode
           /\ \E b \in BOOLEAN : ram' = [ram EXCEPT !.sensing = b]
  <2>1. ram'.seq = ram.seq /\ ram'.since = ram.since BY <1>5 DEF IInv, TypeOK, Memory
  <2>2. Unborn' BY <1>0, <1>1, <1>5 DEF IInv, Unborn
  <2>3. Offered' BY <1>0, <1>1 DEF Offered
  <2>4. Modes' /\ Checkpoint' BY <1>0, <1>5, <2>1 DEF IInv, Modes, Checkpoint
  <2>5. Frames' BY <1>0, <1>5, <2>1 DEF IInv, Frames, Top
  <2>6. Counts' BY <1>0, <1>5 DEF IInv, Counts
  <2>7. OnePressOneWaking' BY <1>0 DEF IInv, OnePressOneWaking
  <2> QED BY <2>2, <2>3, <2>4, <2>5, <2>6, <2>7
<1>6. CASE /\ call.kind = "enrol" /\ answer \in Row /\ mode' = "loop" /\ UNCHANGED ram
           /\ nvs' = [nvs EXCEPT !.token = answer, !.code = None]
  <2>1. /\ nvs'.token = answer /\ nvs'.press = nvs.press /\ nvs'.seqhi = nvs.seqhi
        /\ nvs.press \in Nat /\ ram.seq \in Nat
    BY <1>6, Numbers DEF IInv, TypeOK, Flash
  <2>2. /\ row[answer].seq = 0 /\ row[answer].press = 0
        /\ \A m \in air : m.kind # "enrol" => m.by # answer
    BY <1>6 DEF IInv, Offered
  <2>3. mode = "enrol" BY <1>0, <1>6 DEF IInv, Modes
  <2>4. Unborn' BY <1>0, <1>1, <2>1 DEF IInv, Unborn
  <2>5. Offered' BY <1>0, <1>1 DEF Offered
  <2>6. Modes' BY <1>0, <1>6, <2>1 DEF Modes
  <2>7. Checkpoint' BY <1>6, <2>1, <2>3 DEF IInv, Checkpoint
  <2>8. Frames' BY <1>0, <1>6, <2>1, <2>2 DEF Frames, Top
  <2>9. Counts' BY <1>0, <2>1, <2>2 DEF Counts
  <2>10. OnePressOneWaking' BY <1>0 DEF IInv, OnePressOneWaking
  <2> QED BY <2>4, <2>5, <2>6, <2>7, <2>8, <2>9, <2>10
<1>7. CASE call.kind = "enrol" /\ HearEnrol BY <1>4, <1>6, <1>7 DEF HearEnrol
<1>8. CASE HearHeartbeat
  BY <1>2, <1>3, <1>5, <1>8 DEF HearHeartbeat
<1> QED BY <1>2, <1>7, <1>8 DEF Hear

(***************************************************************************)
(* The theorems.                                                           *)
(***************************************************************************)
LEMMA InitInv == ASSUME NodesAssumption, Init PROVE IInv
<1> USE DEF Init
<1>1. TypeOK
  BY DEF TypeOK, Entry, Flash, Memory, Factory, Cold, Answer
<1>2. None \notin Row /\ "none" \notin Row BY DEF NodesAssumption
<1>3. Unborn BY <1>2 DEF Unborn, Factory
<1>4. Offered BY <1>2 DEF Offered
<1>5. Modes /\ Checkpoint BY DEF Modes, Checkpoint
<1>6. Frames /\ Counts BY <1>2 DEF Frames, Counts, Factory
<1>7. OnePressOneWaking BY DEF OnePressOneWaking
<1> QED BY <1>1, <1>3, <1>4, <1>5, <1>6, <1>7 DEF IInv

LEMMA StepInv == ASSUME NodesAssumption, IInv, [Next]_vars PROVE IInv'
<1>0. CASE UNCHANGED vars
  <2>1. TypeOK' BY <1>0 DEF IInv, TypeOK
  <2> QED BY <1>0, <2>1, QuietInv DEF IInv
<1>1. CASE Next
  <2>1. TypeOK' BY <1>1, StepTyping DEF IInv
  <2> SUFFICES /\ Unborn' /\ Offered' /\ Modes' /\ Checkpoint' /\ Frames' /\ Counts'
               /\ OnePressOneWaking'
    BY <2>1 DEF IInv
  <2>2. CASE Operator \/ Joiner BY <2>2, DeskInv
  <2>3. CASE Serve
    BY <2>3, EnrolInv, TelemetryInv, HeartbeatInv, ReactivateInv DEF Serve
  <2>4. CASE Restart BY <2>4, RestartInv
  <2>5. CASE Board
    <3>1. CASE Boot BY <3>1, BootInv
    <3>2. CASE Press BY <3>2, PressInv
    <3>3. CASE SendHeartbeat BY <3>3, SendHeartbeatInv
    <3>4. CASE SendTelemetry BY <3>4, SendTelemetryInv
    <3>5. CASE HoldButton BY <3>5, HoldButtonInv
    <3>6. CASE Hear BY <3>6, HearInv
    <3>7. CASE TimesOut \/ Disconnected BY <3>7, NoAnswerInv DEF TimesOut, Disconnected
    <3>8. CASE PowerCut BY <3>8, PowerCutInv
    <3>9. ASSUME NEW c \in Code, Provision(c)
          PROVE  /\ Unborn' /\ Offered' /\ Modes' /\ Checkpoint' /\ Frames' /\ Counts'
                 /\ OnePressOneWaking'
      BY <3>9, ProvisionInv
    <3> QED BY <2>5, <3>1, <3>2, <3>3, <3>4, <3>5, <3>6, <3>7, <3>8, <3>9 DEF Board
  <2> QED BY <1>1, <2>2, <2>3, <2>4, <2>5 DEF Next
<1> QED BY <1>0, <1>1

THEOREM Invariance == Spec => []IInv
<1>1. Init => IInv BY InitInv, NodesAssumption
<1>2. IInv /\ [Next]_vars => IInv' BY StepInv, NodesAssumption
<1> QED BY <1>1, <1>2, PTL DEF Spec

\* Every variable of the registry, the network and the board stays in its set.
THEOREM Typing == Spec => []TypeOK
<1>1. IInv => TypeOK BY DEF IInv
<1> QED BY <1>1, Invariance, PTL

\* However often the power goes, a running board's next frame is one the Core
\* has not seen (loadSeqCheckpoint against record_seq), for every checkpoint
\* interval the boot margin covers.
THEOREM TelemetryStaysFresh == Spec => []TelemetryIsFresh
<1>1. IInv => TelemetryIsFresh
  BY DEF IInv, Modes, Frames, Top, TelemetryIsFresh
<1> QED BY <1>1, Invariance, PTL

\* The press count in flash is never behind the Core's (savePressCount against
\* reactivate), so one press is always enough.
THEOREM ButtonAlwaysCounts == Spec => []ButtonCounts
<1>1. IInv => ButtonCounts
  BY Numbers DEF IInv, Counts, ButtonCounts
<1> QED BY <1>1, Invariance, PTL

\* No replay and no delay makes one press wake a node twice (reactivate).
THEOREM OnePressWakesOnce == Spec => []OnePressOneWaking
<1>1. IInv => OnePressOneWaking BY DEF IInv
<1> QED BY <1>1, Invariance, PTL
=============================================================================
