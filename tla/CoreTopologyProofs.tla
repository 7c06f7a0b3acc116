------------------------- MODULE CoreTopologyProofs -------------------------
(***************************************************************************)
(* Theorems about CoreTopology, for every set of Cores, every pairing and  *)
(* every bound.                                                            *)
(***************************************************************************)
EXTENDS CoreTopology, TLAPS

Claim(c) == <<c, Me(c).epoch>>
AnswerClaim(c) == <<pass[c].answer.core, pass[c].answer.epoch>>

\* No handler registers a peer, so a Core's table holds itself or nothing.
KnowsOnlyItself ==
    \A c, d \in Core : (d # c \/ ~cores[c][d].known) => cores[c][d] = NoRow

\* A row needs a Space, and nothing on record is ahead of the Space's epoch.
EpochBounded ==
    /\ \A c \in Core : Me(c).known => space[c] > 0
    /\ \A c \in Core : Me(c).epoch <= space[c]
    /\ \A k \in claimed : 0 < k[2] /\ k[2] <= space[k[1]]

PrimaryClaimed == \A c \in Core : IsPrimary(c) => Claim(c) \in claimed

\* Whatever is in flight was once true of its sender.
AnswersAreClaims ==
    \A c \in Core :
        /\ pass[c].todo \subseteq Peers[c]
        /\ pass[c].step \in {"answered", "standing_down"} /\ pass[c].answer.primary
              => pass[c].answer.core # c /\ AnswerClaim(c) \in claimed

\* A Core on its way down still has the reason it decided on.
YieldsForAReason ==
    \A c \in Core : pass[c].step = "standing_down" =>
        /\ pass[c].answer.primary
        /\ excused[c] \/ ~IsPrimary(c) \/ Beats(AnswerClaim(c), Claim(c))

IInv == /\ TypeOK /\ KnowsOnlyItself /\ EpochBounded /\ PrimaryClaimed
        /\ AnswersAreClaims /\ YieldsForAReason /\ StrongestStands

-----------------------------------------------------------------------------
\* Two claims never beat each other: core_ids are totally ordered.
LEMMA BeatsAsymmetric ==
    ASSUME NEW j \in Core \X Nat, NEW k \in Core \X Nat, Beats(j, k)
    PROVE  ~Beats(k, j)
<1>1. IdRank[j[1]] \in Nat /\ IdRank[k[1]] \in Nat
    BY CoreAssumption
<1> QED BY <1>1 DEF Beats, IdBelow

\* Replacing one row of one table keeps the tables well formed.
LEMMA RowUpdate ==
    ASSUME NEW t \in [Core -> [Core -> Row]], NEW c \in Core, NEW d \in Core, NEW r \in Row
    PROVE  /\ [t EXCEPT ![c][d] = r] \in [Core -> [Core -> Row]]
           /\ \A x, y \in Core :
                 [t EXCEPT ![c][d] = r][x][y] = IF x = c /\ y = d THEN r ELSE t[x][y]
    OBVIOUS

LEMMA InitIInv == Init => IInv
<1> SUFFICES ASSUME Init PROVE IInv
    OBVIOUS
<1>1. TypeOK
    BY CoreAssumption DEF Init, TypeOK, NoRow, Row, Status, Idle, NoAnswer, Pass
<1>2. KnowsOnlyItself /\ EpochBounded /\ PrimaryClaimed
    BY DEF Init, KnowsOnlyItself, EpochBounded, PrimaryClaimed, Me, IsPrimary, NoRow
<1>3. AnswersAreClaims /\ YieldsForAReason /\ StrongestStands
    BY DEF Init, AnswersAreClaims, YieldsForAReason, StrongestStands, Idle, NoAnswer
<1> QED BY <1>1, <1>2, <1>3 DEF IInv

LEMMA CreateSpaceStep ==
    ASSUME IInv, NEW c \in Core, NEW takesCore \in BOOLEAN, CreateSpace(c, takesCore)
    PROVE  IInv'
<1> USE DEF IInv
<1>1. TypeOK'
    BY DEF TypeOK, CreateSpace, Row, Status
<1>2. ~IsPrimary(c) /\ claimed = {}
    BY DEF CreateSpace, TypeOK, EpochBounded, IsPrimary
<1>3. \A d \in Core : d # c => Me(d)' = Me(d)
    BY DEF Me, CreateSpace, TypeOK
<1>4. /\ Me(c)' \in Row /\ Me(c)'.known
      /\ takesCore => IsPrimary(c)' /\ Me(c)'.epoch = 2
      /\ ~takesCore => ~IsPrimary(c)' /\ Me(c)'.epoch = 0
    BY DEF Me, CreateSpace, TypeOK, IsPrimary, Row, Status
<1>5. KnowsOnlyItself'
    BY DEF KnowsOnlyItself, CreateSpace, TypeOK, NoRow
<1>6. EpochBounded'
    BY <1>2, <1>3, <1>4 DEF EpochBounded, CreateSpace, TypeOK
<1>7. PrimaryClaimed'
    BY <1>2, <1>3, <1>4 DEF PrimaryClaimed, IsPrimary, Claim, CreateSpace, TypeOK
<1>8. AnswersAreClaims'
    BY DEF AnswersAreClaims, AnswerClaim, CreateSpace
<1>9. YieldsForAReason'
    BY <1>2 DEF YieldsForAReason, AnswersAreClaims, CreateSpace
<1>10. StrongestStands'
    BY <1>2, <1>3, <1>4 DEF StrongestStands, Strongest, Beats, IdBelow, IsPrimary,
                CreateSpace, TypeOK
<1> QED BY <1>1, <1>5, <1>6, <1>7, <1>8, <1>9, <1>10

LEMMA JoinSpaceStep ==
    ASSUME IInv, NEW c \in Core, JoinSpace(c)
    PROVE  IInv'
<1> USE DEF IInv
<1>1. TypeOK'
    <2> DEFINE r == [known |-> TRUE, status |-> "standby", epoch |-> 0]
    <2>1. r \in Row
        BY DEF Row, Status
    <2>2. cores' = [cores EXCEPT ![c][c] = r]
        BY DEF JoinSpace
    <2>3. cores' \in [Core -> [Core -> Row]]
        BY <2>1, <2>2, RowUpdate DEF TypeOK
    <2> QED BY <2>3 DEF TypeOK, JoinSpace
<1>2. ~IsPrimary(c) /\ \A k \in claimed : k[1] \in Core /\ k[1] # c
    BY DEF JoinSpace, TypeOK, EpochBounded, IsPrimary
<1>3. \A d \in Core : d # c => Me(d)' = Me(d)
    BY DEF Me, JoinSpace, TypeOK
<1>4. Me(c)' \in Row /\ Me(c)'.known /\ ~IsPrimary(c)' /\ Me(c)'.epoch = 0
    BY DEF Me, JoinSpace, TypeOK, IsPrimary, Row, Status
<1>5. KnowsOnlyItself'
    <2>1. \A x, y \in Core : ~(x = c /\ y = c) => cores'[x][y] = cores[x][y]
        BY DEF JoinSpace, TypeOK
    <2> QED BY <2>1, <1>4 DEF KnowsOnlyItself, Me
<1>6. EpochBounded'
    BY <1>2, <1>3, <1>4 DEF EpochBounded, JoinSpace, TypeOK
<1>7. PrimaryClaimed'
    BY <1>3, <1>4 DEF PrimaryClaimed, IsPrimary, Claim, JoinSpace
<1>8. AnswersAreClaims'
    BY DEF AnswersAreClaims, AnswerClaim, JoinSpace
<1>9. YieldsForAReason'
    BY <1>3, <1>4 DEF YieldsForAReason, IsPrimary, Claim, AnswerClaim, Beats, JoinSpace
<1>10. StrongestStands'
    BY <1>2, <1>3 DEF StrongestStands, Strongest, IsPrimary, JoinSpace
<1> QED BY <1>1, <1>5, <1>6, <1>7, <1>8, <1>9, <1>10

LEMMA PromoteStep ==
    ASSUME IInv, NEW c \in Core, NEW d \in Core, Promote(c, d)
    PROVE  IInv'
<1> USE DEF IInv
<1> DEFINE e == space[c] + 1
<1>0. d = c /\ e \in Nat
    BY DEF Promote, KnowsOnlyItself, NoRow, TypeOK
<1>1. TypeOK'
    <2>1. \A x \in Core : cores[c][x] \in Row
        BY DEF TypeOK
    <2>2. Enthroned(c, d, e) \in [Core -> Row]
        BY <1>0, <2>1 DEF Enthroned, Row, Status
    <2>3. cores' \in [Core -> [Core -> Row]]
        BY <2>2 DEF TypeOK, Promote
    <2>4. excused' \in [Core -> BOOLEAN]
        BY DEF TypeOK, Promote
    <2>5. space' \in [Core -> Nat] /\ claimed' \in SUBSET (Core \X Nat)
        BY <1>0 DEF TypeOK, Promote, BumpEpoch
    <2> QED BY <2>3, <2>4, <2>5 DEF TypeOK, Promote
<1>2. \A x \in Core : x # c => Me(x)' = Me(x) /\ excused'[x] = excused[x]
    BY DEF Me, Promote, TypeOK
<1>3. /\ Me(c)' = [known |-> TRUE, status |-> "primary", epoch |-> e]
      /\ claimed' = claimed \cup {<<c, e>>}
      /\ excused'[c] = (pass[c].step = "standing_down")
    BY <1>0 DEF Me, Promote, Enthroned, TypeOK
<1>4. \A k \in claimed : k \in Core \X Nat /\ (k[1] = c => k[2] < e)
    BY <1>0 DEF EpochBounded, TypeOK
<1>5. KnowsOnlyItself'
    <2>1. \A x \in Core : x # c => Enthroned(c, c, e)[x] = NoRow
        BY DEF KnowsOnlyItself, Enthroned, NoRow
    <2>2. \A x, y \in Core :
             cores'[x][y] = IF x = c THEN Enthroned(c, c, e)[y] ELSE cores[x][y]
        BY <1>0 DEF Promote, TypeOK
    <2>3. cores'[c][c].known
        BY <1>3 DEF Me
    <2> QED BY <2>1, <2>2, <2>3 DEF KnowsOnlyItself
<1>6. EpochBounded'
    BY <1>0, <1>2, <1>3, <1>4 DEF EpochBounded, Promote, BumpEpoch, TypeOK
<1>7. PrimaryClaimed'
    BY <1>2, <1>3 DEF PrimaryClaimed, IsPrimary, Claim
<1>8. AnswersAreClaims'
    BY <1>3 DEF AnswersAreClaims, AnswerClaim, Promote
<1>9. YieldsForAReason'
    <2> SUFFICES ASSUME NEW x \in Core, pass[x].step = "standing_down"
                 PROVE  /\ pass[x].answer.primary
                        /\ excused'[x] \/ ~IsPrimary(x)' \/ Beats(AnswerClaim(x), Claim(x))'
        BY DEF YieldsForAReason, Promote
    <2>1. CASE x = c
        BY <2>1, <1>3 DEF YieldsForAReason
    <2>2. CASE x # c
        BY <2>2, <1>2 DEF YieldsForAReason, IsPrimary, Claim, AnswerClaim, Beats, IdBelow, Promote
    <2> QED BY <2>1, <2>2
<1>10. StrongestStands'
    <2> SUFFICES ASSUME NEW k \in claimed', Strongest(k)', ~excused'[k[1]]
                 PROVE  IsPrimary(k[1])' /\ Me(k[1])'.epoch = k[2]
        BY DEF StrongestStands
    <2>1. CASE k = <<c, e>>
        BY <2>1, <1>3 DEF IsPrimary
    <2>2. CASE k # <<c, e>> /\ k[1] = c
        <3>1. ~Beats(k, <<c, e>>)
            BY <2>2, <1>0, <1>3, <1>4 DEF Beats
        <3> QED BY <3>1, <2>2, <1>3 DEF Strongest, Beats, IdBelow
    <2>3. CASE k[1] # c
        <3>1. k \in claimed /\ Strongest(k)
            BY <2>3, <1>3 DEF Strongest, Beats, IdBelow
        <3>2. k[1] \in Core
            BY <3>1, <1>4
        <3> QED BY <3>1, <3>2, <2>3, <1>2 DEF StrongestStands, IsPrimary
    <2> QED BY <2>1, <2>2, <2>3
<1> QED BY <1>1, <1>5, <1>6, <1>7, <1>8, <1>9, <1>10

LEMMA DemoteStep ==
    ASSUME IInv, NEW c \in Core, NEW d \in Core, Demote(c, d)
    PROVE  IInv'
<1> USE DEF IInv
<1>0. d = c
    BY DEF Demote, KnowsOnlyItself, NoRow
<1>1. TypeOK'
    <2>0. cores[c][c] \in Row
        BY DEF TypeOK
    <2>1. [cores[c][c] EXCEPT !.status = "standby"] \in Row
        BY <2>0 DEF Row, Status
    <2>2. cores' = [cores EXCEPT ![c][c] = [cores[c][c] EXCEPT !.status = "standby"]]
        BY <1>0 DEF Demote, TypeOK
    <2> QED BY <1>0, <2>1, <2>2, RowUpdate DEF TypeOK, Demote
<1>2. \A x \in Core : x # c => Me(x)' = Me(x) /\ excused'[x] = excused[x]
    BY <1>0 DEF Me, Demote, TypeOK
<1>3. /\ Me(c)'.known = Me(c).known /\ Me(c)'.epoch = Me(c).epoch
      /\ ~IsPrimary(c)' /\ excused'[c]
    BY <1>0 DEF Me, IsPrimary, Demote, TypeOK, Row
<1>5. KnowsOnlyItself'
    BY <1>0 DEF KnowsOnlyItself, Demote, TypeOK, NoRow
<1>6. EpochBounded'
    BY <1>2, <1>3 DEF EpochBounded, Demote, TypeOK
<1>7. PrimaryClaimed'
    BY <1>2, <1>3 DEF PrimaryClaimed, IsPrimary, Claim, Demote
<1>8. AnswersAreClaims'
    BY DEF AnswersAreClaims, AnswerClaim, Demote
<1>9. YieldsForAReason'
    BY <1>2, <1>3 DEF YieldsForAReason, IsPrimary, Claim, AnswerClaim, Beats, Demote
<1>10. StrongestStands'
    BY <1>2, <1>3 DEF StrongestStands, Strongest, Beats, IdBelow, IsPrimary, Demote, TypeOK
<1> QED BY <1>1, <1>5, <1>6, <1>7, <1>8, <1>9, <1>10

LEMMA ForgetStep ==
    ASSUME IInv, NEW c \in Core, NEW d \in Core, Forget(c, d)
    PROVE  IInv'
<1> USE DEF IInv
<1>0. d = c /\ ~IsPrimary(c)
    BY DEF Forget, KnowsOnlyItself, NoRow, IsPrimary, Me
<1>1. TypeOK'
    <2>1. NoRow \in Row
        BY DEF NoRow, Row, Status
    <2> QED BY <1>0, <2>1, RowUpdate DEF TypeOK, Forget
<1>2. \A x \in Core : x # c => Me(x)' = Me(x)
    BY <1>0 DEF Me, Forget, TypeOK
<1>3. Me(c)' = NoRow /\ ~IsPrimary(c)'
    BY <1>0 DEF Me, IsPrimary, Forget, TypeOK, NoRow
<1>5. KnowsOnlyItself'
    BY <1>0 DEF KnowsOnlyItself, Forget, TypeOK, NoRow
<1>6. EpochBounded'
    <2>1. \A x \in Core : Me(x)'.known => Me(x).known
        BY <1>2, <1>3 DEF NoRow
    <2>2. \A x \in Core : Me(x)'.epoch <= space[x]
        BY <1>2, <1>3 DEF NoRow, EpochBounded, TypeOK
    <2> QED BY <2>1, <2>2 DEF EpochBounded, Forget
<1>7. PrimaryClaimed'
    BY <1>2, <1>3 DEF PrimaryClaimed, IsPrimary, Claim, Forget
<1>8. AnswersAreClaims'
    BY DEF AnswersAreClaims, AnswerClaim, Forget
<1>9. YieldsForAReason'
    BY <1>2, <1>3 DEF YieldsForAReason, IsPrimary, Claim, AnswerClaim, Beats, Forget
<1>10. StrongestStands'
    BY <1>0, <1>2 DEF StrongestStands, Strongest, Beats, IdBelow, IsPrimary, Forget, TypeOK
<1> QED BY <1>1, <1>5, <1>6, <1>7, <1>8, <1>9, <1>10

-----------------------------------------------------------------------------
\* What the network, the lock and a crash can disturb is only the pass.
LEMMA BeliefsKept ==
    ASSUME IInv, UNCHANGED <<space, cores, claimed, excused>>
    PROVE  KnowsOnlyItself' /\ EpochBounded' /\ PrimaryClaimed' /\ StrongestStands'
BY DEF IInv, KnowsOnlyItself, EpochBounded, PrimaryClaimed, StrongestStands, Strongest,
       Beats, IdBelow, IsPrimary, Me, Claim

\* Moving on from a peer leaves nothing in flight.
LEMMA OnwardIsPolling ==
    ASSUME NEW c \in Core, pass[c] \in Pass
    PROVE  /\ Onward(c) \in Pass
           /\ Onward(c).step = "polling"
           /\ Onward(c).todo = pass[c].todo
<1>1. NoAnswer(c) \in [core : Core, epoch : Nat, primary : BOOLEAN]
    BY DEF NoAnswer
<1> QED BY <1>1 DEF Onward, Pass

\* A pass with nothing in flight owes nobody a reason.
LEMMA NothingInFlight ==
    ASSUME IInv, NEW c \in Core, UNCHANGED <<claimed, excused>>,
           \A d \in Core : d # c => pass'[d] = pass[d] /\ Me(d)' = Me(d),
           pass'[c].step \in {"idle", "polling"},
           pass'[c].todo \subseteq Peers[c]
    PROVE  AnswersAreClaims' /\ YieldsForAReason'
<1>1. AnswersAreClaims'
    BY DEF IInv, AnswersAreClaims, AnswerClaim
<1>2. YieldsForAReason'
    BY DEF IInv, YieldsForAReason, AnswerClaim, Claim, IsPrimary, Beats, IdBelow
<1> QED BY <1>1, <1>2

LEMMA BeginPassStep ==
    ASSUME IInv, NEW c \in Core, BeginPass(c)
    PROVE  IInv'
<1> USE DEF IInv
<1>1. TypeOK'
    BY CoreAssumption DEF TypeOK, BeginPass, Pass, NoAnswer
<1>2. AnswersAreClaims' /\ YieldsForAReason'
    BY DEF AnswersAreClaims, YieldsForAReason, AnswerClaim, Claim, Me, IsPrimary,
           Beats, IdBelow, BeginPass, TypeOK
<1> QED BY <1>1, <1>2, BeliefsKept DEF BeginPass

LEMMA AnswerStep ==
    ASSUME IInv, NEW c \in Core, NEW p \in Core, Answer(c, p)
    PROVE  IInv'
<1> USE DEF IInv
<1>1. CoreStatus(p) \in [core : Core, epoch : Nat, primary : BOOLEAN]
    <2>1. Me(p).epoch \in Nat /\ Me(p).known \in BOOLEAN
        BY DEF TypeOK, Me, Row
    <2> QED BY <2>1 DEF CoreStatus, IsPrimary
<1>2. /\ pass'[c] = [pass[c] EXCEPT !.step = "answered", !.todo = @ \ {p},
                                    !.answer = CoreStatus(p)]
      /\ \A d \in Core : d # c => pass'[d] = pass[d]
    BY DEF TypeOK, Answer
<1>3. pass[c] \in Pass
    BY DEF TypeOK
<1>4. pass'[c] \in Pass /\ pass'[c].step = "answered"
      /\ pass'[c].todo = pass[c].todo \ {p} /\ pass'[c].answer = CoreStatus(p)
    BY <1>1, <1>2, <1>3 DEF Pass
<1>5. TypeOK'
    BY <1>4 DEF TypeOK, Answer
<1>6. p # c /\ p \in pass[c].todo
    BY CoreAssumption DEF Answer, AnswersAreClaims
<1>7. AnswersAreClaims'
    <2>1. AnswerClaim(c)' = Claim(p) /\ pass'[c].answer.core = p
          /\ pass'[c].answer.primary = IsPrimary(p)
        BY <1>4 DEF AnswerClaim, Claim, CoreStatus
    <2>2. pass'[c].todo \subseteq Peers[c]
        BY <1>4 DEF AnswersAreClaims
    <2>3. IsPrimary(p) => Claim(p) \in claimed
        BY DEF PrimaryClaimed
    <2>4. pass'[c].answer.primary => AnswerClaim(c)' \in claimed'
        BY <2>1, <2>3 DEF Answer
    <2>5. \A d \in Core : d # c =>
             AnswerClaim(d)' = AnswerClaim(d) /\ pass'[d] = pass[d] /\ claimed' = claimed
        BY <1>2 DEF AnswerClaim, Answer
    <2>6. ASSUME NEW d \in Core
          PROVE  /\ pass'[d].todo \subseteq Peers[d]
                 /\ pass'[d].step \in {"answered", "standing_down"} /\ pass'[d].answer.primary
                       => pass'[d].answer.core # d /\ AnswerClaim(d)' \in claimed'
        BY <1>6, <2>1, <2>2, <2>4, <2>5 DEF AnswersAreClaims
    <2> QED BY <2>6 DEF AnswersAreClaims
<1>8. YieldsForAReason'
    <2>1. \A d \in Core : Claim(d)' = Claim(d) /\ IsPrimary(d)' = IsPrimary(d)
        BY DEF Answer, Claim, Me, IsPrimary
    <2>2. \A d \in Core : d # c => AnswerClaim(d)' = AnswerClaim(d)
        BY <1>2 DEF AnswerClaim
    <2>3. ASSUME NEW d \in Core, pass'[d].step = "standing_down"
          PROVE  /\ d # c /\ pass'[d] = pass[d] /\ excused' = excused
                 /\ pass[d].answer.primary
                 /\ excused[d] \/ ~IsPrimary(d) \/ Beats(AnswerClaim(d), Claim(d))
        <3>1. d # c
            BY <1>4, <2>3
        <3>2. pass'[d] = pass[d] /\ excused' = excused
            BY <1>2, <3>1 DEF Answer
        <3> QED BY <2>3, <3>1, <3>2 DEF YieldsForAReason
    <2>4. ASSUME NEW d \in Core, pass'[d].step = "standing_down"
          PROVE  /\ pass'[d].answer.primary
                 /\ excused'[d] \/ ~IsPrimary(d)' \/ Beats(AnswerClaim(d), Claim(d))'
        BY <2>1, <2>2, <2>3, <2>4 DEF Beats, IdBelow
    <2> QED BY <2>4 DEF YieldsForAReason
<1> QED BY <1>5, <1>7, <1>8, BeliefsKept DEF Answer

LEMMA NoReplyStep ==
    ASSUME IInv, NEW c \in Core, NEW p \in Core, NoReply(c, p)
    PROVE  IInv'
<1> USE DEF IInv
<1>1. pass'[c] = [pass[c] EXCEPT !.todo = @ \ {p}]
      /\ pass[c] \in Pass /\ \A d \in Core : d # c => pass'[d] = pass[d]
    BY DEF TypeOK, NoReply
<1>2. pass'[c] \in Pass /\ pass'[c].step = "polling" /\ pass'[c].todo = pass[c].todo \ {p}
    BY <1>1 DEF Pass, NoReply
<1>3. TypeOK'
    BY <1>2 DEF TypeOK, NoReply
<1>4. AnswersAreClaims' /\ YieldsForAReason'
    BY <1>1, <1>2 DEF AnswersAreClaims, YieldsForAReason, AnswerClaim, Claim, Me,
                      IsPrimary, Beats, IdBelow, NoReply
<1> QED BY <1>3, <1>4, BeliefsKept DEF NoReply

LEMMA ObservePeerStep ==
    ASSUME IInv, NEW c \in Core, ObservePeer(c)
    PROVE  IInv'
<1> USE DEF IInv
<1>1. pass[c] \in Pass /\ \A d \in Core : d # c => pass'[d] = pass[d]
    BY DEF TypeOK, ObservePeer
<1>2. pass'[c] = IF MustYield(c, pass[c].answer)
                 THEN [pass[c] EXCEPT !.step = "standing_down"]
                 ELSE Onward(c)
    BY DEF ObservePeer, TypeOK
<1>3. CASE MustYield(c, pass[c].answer)
    <2>1. pass'[c] \in Pass /\ pass'[c].step = "standing_down"
          /\ pass'[c].todo = pass[c].todo /\ pass'[c].answer = pass[c].answer
        BY <1>1, <1>2, <1>3 DEF Pass
    <2>2. TypeOK'
        BY <2>1 DEF TypeOK, ObservePeer
    <2>3. AnswersAreClaims'
        BY <1>1, <2>1 DEF AnswersAreClaims, AnswerClaim, ObservePeer
    <2>4. pass[c].answer.primary /\ Beats(AnswerClaim(c), Claim(c))
        BY <1>3 DEF MustYield, Beats, AnswerClaim, Claim
    <2>5. YieldsForAReason'
        BY <1>1, <2>1, <2>4 DEF YieldsForAReason, AnswerClaim, Claim, Me,
                          IsPrimary, Beats, IdBelow, ObservePeer
    <2> QED BY <2>2, <2>3, <2>5, BeliefsKept DEF ObservePeer
<1>4. CASE ~MustYield(c, pass[c].answer)
    <2>1. pass'[c] \in Pass /\ pass'[c].step = "polling" /\ pass'[c].todo = pass[c].todo
        BY <1>1, <1>2, <1>4, OnwardIsPolling
    <2>2. TypeOK'
        BY <2>1 DEF TypeOK, ObservePeer
    <2>3. AnswersAreClaims' /\ YieldsForAReason'
        BY <1>1, <2>1, NothingInFlight DEF AnswersAreClaims, Me, ObservePeer
    <2> QED BY <2>2, <2>3, BeliefsKept DEF ObservePeer
<1> QED BY <1>3, <1>4

LEMMA StandDownStep ==
    ASSUME IInv, NEW c \in Core, StandDown(c)
    PROVE  IInv'
<1> USE DEF IInv
<1>1. /\ pass[c] \in Pass /\ \A d \in Core : d # c => pass'[d] = pass[d]
      /\ pass'[c] = Onward(c)
    BY DEF TypeOK, StandDown
<1>2. pass'[c] \in Pass /\ pass'[c].step = "polling" /\ pass'[c].todo = pass[c].todo
    BY <1>1, OnwardIsPolling
<1>3. \A x \in Core : x # c => Me(x)' = Me(x)
    BY DEF Me, StandDown, TypeOK
<1>4. /\ Me(c)'.known = Me(c).known /\ Me(c)'.epoch = Me(c).epoch /\ ~IsPrimary(c)'
      /\ \A x, y \in Core : ~(x = c /\ y = c) => cores'[x][y] = cores[x][y]
      /\ ~Me(c).known => cores' = cores
    BY DEF Me, IsPrimary, StandDown, TypeOK, Row
<1>5. TypeOK'
    <2>0. cores[c][c] \in Row
        BY DEF TypeOK
    <2>1. [cores[c][c] EXCEPT !.status = "standby"] \in Row
        BY <2>0 DEF Row, Status
    <2>2. Me(c).known =>
             cores' = [cores EXCEPT ![c][c] = [cores[c][c] EXCEPT !.status = "standby"]]
        BY DEF StandDown, TypeOK
    <2>3. cores' \in [Core -> [Core -> Row]]
        <3>1. cores \in [Core -> [Core -> Row]]
            BY DEF TypeOK
        <3>2. CASE Me(c).known
            <4> DEFINE r == [cores[c][c] EXCEPT !.status = "standby"]
            <4>1. cores' = [cores EXCEPT ![c][c] = r] /\ r \in Row
                BY <3>2, <2>1, <2>2
            <4> HIDE DEF r
            <4> QED BY <3>1, <4>1, RowUpdate
        <3>3. CASE ~Me(c).known
            BY <3>1, <3>3, <1>4
        <3> QED BY <3>2, <3>3
    <2> QED BY <1>2, <2>3 DEF TypeOK, StandDown
<1>6. KnowsOnlyItself'
    BY <1>4 DEF KnowsOnlyItself, Me
<1>7. EpochBounded' /\ PrimaryClaimed'
    BY <1>3, <1>4 DEF EpochBounded, PrimaryClaimed, IsPrimary, Claim, StandDown
<1>8. AnswersAreClaims' /\ YieldsForAReason'
    BY <1>1, <1>2, <1>3, NothingInFlight DEF AnswersAreClaims, StandDown
<1>9. StrongestStands'
    <2> SUFFICES ASSUME NEW k \in claimed, Strongest(k), ~excused[k[1]]
                 PROVE  IsPrimary(k[1])' /\ Me(k[1])'.epoch = k[2]
        BY DEF StrongestStands, Strongest, Beats, IdBelow, StandDown
    <2>1. k \in Core \X Nat /\ IsPrimary(k[1]) /\ Me(k[1]).epoch = k[2]
        BY DEF StrongestStands, TypeOK
    <2>2. k[1] # c
        <3> SUFFICES ASSUME k[1] = c PROVE FALSE
            OBVIOUS
        <3>1. k = Claim(c)
            BY <2>1 DEF Claim
        <3>2. /\ AnswerClaim(c) \in claimed /\ AnswerClaim(c) # k
              /\ Beats(AnswerClaim(c), k)
            BY <2>1, <3>1 DEF AnswersAreClaims, YieldsForAReason, AnswerClaim, StandDown
        <3>3. Beats(k, AnswerClaim(c))
            BY <3>2 DEF Strongest
        <3> QED BY <2>1, <3>2, <3>3, BeatsAsymmetric DEF TypeOK
    <2> QED BY <1>3, <2>1, <2>2 DEF IsPrimary
<1> QED BY <1>5, <1>6, <1>7, <1>8, <1>9

LEMMA EndPassStep ==
    ASSUME IInv, NEW c \in Core, EndPass(c)
    PROVE  IInv'
<1> USE DEF IInv
<1>1. /\ \A d \in Core : d # c => pass'[d] = pass[d]
      /\ pass'[c] = Idle(c) /\ pass'[c].step = "idle" /\ pass'[c].todo = {}
    BY DEF TypeOK, EndPass, Idle
<1>2. pass'[c] \in Pass
    BY <1>1 DEF Idle, NoAnswer, Pass
<1>4. TypeOK'
    BY <1>2 DEF TypeOK, EndPass
<1>5. AnswersAreClaims' /\ YieldsForAReason'
    BY <1>1 DEF AnswersAreClaims, YieldsForAReason, AnswerClaim, Claim, Me,
                IsPrimary, Beats, IdBelow, EndPass
<1> QED BY <1>4, <1>5, BeliefsKept DEF EndPass

LEMMA CrashStep ==
    ASSUME IInv, NEW c \in Core, Crash(c) \/ CrashInPromote(c)
    PROVE  IInv'
<1> USE DEF IInv
<1>1. /\ \A d \in Core : d # c => pass'[d] = pass[d]
      /\ pass'[c] = Idle(c) /\ pass'[c].step = "idle" /\ pass'[c].todo = {}
      /\ space' \in [Core -> Nat] /\ \A d \in Core : space'[d] >= space[d]
      /\ crashes' \in Nat /\ up' \in [Core -> BOOLEAN]
      /\ UNCHANGED <<cores, claimed, excused>>
    <2>1. pass' = [pass EXCEPT ![c] = Idle(c)] /\ up' = [up EXCEPT ![c] = FALSE]
          /\ crashes' = crashes + 1 /\ UNCHANGED <<cores, claimed, excused>>
          /\ (UNCHANGED space \/ space' = [space EXCEPT ![c] = @ + 1])
        BY DEF Crash, CrashInPromote, BumpEpoch
    <2>2. space' \in [Core -> Nat] /\ \A d \in Core : space'[d] >= space[d]
        <3>1. space \in [Core -> Nat]
            BY DEF TypeOK
        <3>2. CASE UNCHANGED space
            BY <3>1, <3>2
        <3>3. CASE space' = [space EXCEPT ![c] = @ + 1]
            BY <3>1, <3>3
        <3> QED BY <2>1, <3>2, <3>3
    <2>3. crashes' \in Nat /\ up' \in [Core -> BOOLEAN]
        BY <2>1 DEF TypeOK
    <2>4. pass'[c] = Idle(c) /\ \A d \in Core : d # c => pass'[d] = pass[d]
        BY <2>1 DEF TypeOK
    <2> QED BY <2>1, <2>2, <2>3, <2>4 DEF Idle
<1>2. pass'[c] \in Pass
    BY <1>1 DEF Idle, NoAnswer, Pass
<1>3. pass' \in [Core -> Pass]
    BY <1>1, <1>2 DEF TypeOK, Crash, CrashInPromote
<1>4. TypeOK'
    BY <1>1, <1>3 DEF TypeOK
<1>5. AnswersAreClaims' /\ YieldsForAReason'
    BY <1>1, NothingInFlight DEF Me
<1>6. EpochBounded'
    BY <1>1 DEF EpochBounded, TypeOK, Me, Row
<1>7. KnowsOnlyItself' /\ PrimaryClaimed' /\ StrongestStands'
    BY <1>1 DEF KnowsOnlyItself, PrimaryClaimed, StrongestStands, Strongest,
                Beats, IdBelow, IsPrimary, Me, Claim
<1> QED BY <1>4, <1>5, <1>6, <1>7

LEMMA PromoteRefusedStep ==
    ASSUME IInv, NEW c \in Core, NEW d \in Core, PromoteRefused(c, d)
    PROVE  IInv'
<1> USE DEF IInv
<1>1. /\ space' \in [Core -> Nat] /\ \A x \in Core : space'[x] >= space[x]
      /\ UNCHANGED <<up, cores, pass, crashes, claimed, excused>>
    BY DEF TypeOK, PromoteRefused, BumpEpoch
<1>2. TypeOK'
    BY <1>1 DEF TypeOK
<1>3. EpochBounded'
    BY <1>1 DEF EpochBounded, TypeOK, Me, Row
<1>4. KnowsOnlyItself' /\ PrimaryClaimed' /\ StrongestStands'
    BY <1>1 DEF KnowsOnlyItself, PrimaryClaimed, StrongestStands, Strongest,
                Beats, IdBelow, IsPrimary, Me, Claim
<1>5. AnswersAreClaims' /\ YieldsForAReason'
    BY <1>1 DEF AnswersAreClaims, YieldsForAReason, AnswerClaim, Claim, Me,
                IsPrimary, Beats, IdBelow
<1> QED BY <1>2, <1>3, <1>4, <1>5

LEMMA QuietStep ==
    ASSUME IInv, UNCHANGED <<space, cores, pass, crashes, claimed, excused>>,
           up' \in [Core -> BOOLEAN]
    PROVE  IInv'
<1> USE DEF IInv
<1>1. TypeOK'
    BY DEF TypeOK
<1>2. AnswersAreClaims' /\ YieldsForAReason'
    BY DEF AnswersAreClaims, YieldsForAReason, AnswerClaim, Claim, Me,
           IsPrimary, Beats, IdBelow
<1> QED BY <1>1, <1>2, BeliefsKept

-----------------------------------------------------------------------------
\* IInv is an invariant: the one argument every theorem below rests on.
LEMMA Invariance == Spec => []IInv
<1>1. ASSUME IInv, [Next]_vars PROVE IInv'
    <2> USE <1>1
    <2>1. ASSUME NEW c \in Core, Operator(c) PROVE IInv'
        BY <2>1, CreateSpaceStep, JoinSpaceStep, PromoteStep, PromoteRefusedStep,
           DemoteStep, ForgetStep DEF Operator
    <2>2. ASSUME NEW c \in Core, DiscoveryPass(c) PROVE IInv'
        BY <2>2, BeginPassStep, AnswerStep, NoReplyStep, ObservePeerStep,
           StandDownStep, EndPassStep DEF DiscoveryPass
    <2>3. ASSUME NEW c \in Core, Failure(c) PROVE IInv'
        <3>1. CASE Restart(c)
            <4>1. up' \in [Core -> BOOLEAN]
                BY <3>1 DEF Restart, IInv, TypeOK
            <4> QED BY <3>1, <4>1, QuietStep DEF Restart
        <3> QED BY <2>3, <3>1, CrashStep DEF Failure
    <2>4. CASE UNCHANGED vars
        BY <2>4, QuietStep DEF vars, IInv, TypeOK
    <2> QED BY <2>1, <2>2, <2>3, <2>4 DEF Next
<1> QED BY <1>1, InitIInv, PTL DEF Spec

\* Every database, pass and history stays well formed.
THEOREM TypeCorrect == Spec => []TypeOK
BY Invariance, PTL DEF IInv

\* The strongest claim ever made in the Space is upheld (core_registry.py,
\* observe_peer and promote) whatever the network and the crashes do.
THEOREM StrongestClaimStands == Spec => []StrongestStands
BY Invariance, PTL DEF IInv

\* No handler registers a peer, so no Core ever sees two primaries in its own
\* table: feed_core_topology, which looks for them there, raises no card.
THEOREM TableHoldsOnlyItself == Spec => []KnowsOnlyItself
BY Invariance, PTL DEF IInv

\* promote never replays an epoch at a Core, across forgotten rows, refused
\* promotions, restarts and crashes (core_registry.py, promote and register).
THEOREM PromotionsAreFresh == Spec => NeverReplays
<1> DEFINE Fresh == \A c \in Core : IsPrimary(c)' /\ Me(c)' # Me(c) =>
                       \A k \in claimed : k[1] = c => k[2] < Me(c)'.epoch
<1>1. ASSUME IInv, [Next]_vars PROVE Fresh
    <2> SUFFICES ASSUME NEW c \in Core, IsPrimary(c)', Me(c)' # Me(c),
                        NEW k \in claimed, k[1] = c
                 PROVE  k[2] < Me(c)'.epoch
        OBVIOUS
    <2> USE <1>1 DEF IInv
    <2>1. k[2] \in Nat /\ 0 < k[2] /\ k[2] <= space[c] /\ space[c] \in Nat
        BY DEF EpochBounded, TypeOK
    <2>2. ASSUME NEW x \in Core, Operator(x) PROVE k[2] < Me(c)'.epoch
        <3>1. CASE \E takesCore \in BOOLEAN : CreateSpace(x, takesCore)
            BY <2>1, <3>1 DEF CreateSpace
        <3>2. CASE JoinSpace(x)
            BY <3>2 DEF JoinSpace, Me, IsPrimary, TypeOK
        <3>3. ASSUME NEW d \in Core, Promote(x, d) PROVE k[2] < Me(c)'.epoch
            <4>1. d = x
                BY <3>3 DEF Promote, KnowsOnlyItself, NoRow
            <4>2. x = c
                BY <3>3 DEF Promote, Me, TypeOK
            <4>3. Me(c)'.epoch = space[c] + 1
                BY <3>3, <4>1, <4>2 DEF Promote, Enthroned, Me, TypeOK
            <4> QED BY <2>1, <4>3
        <3>4. ASSUME NEW d \in Core, Demote(x, d) PROVE FALSE
            <4>1. d = x
                BY <3>4 DEF Demote, KnowsOnlyItself, NoRow
            <4> QED BY <3>4, <4>1 DEF Demote, Me, IsPrimary, TypeOK, Row
        <3>5. ASSUME NEW d \in Core, Forget(x, d) PROVE FALSE
            <4>1. d = x
                BY <3>5 DEF Forget, KnowsOnlyItself, NoRow
            <4> QED BY <3>5, <4>1 DEF Forget, Me, IsPrimary, TypeOK, NoRow
        <3>6. ASSUME NEW d \in Core, PromoteRefused(x, d) PROVE FALSE
            BY <3>6 DEF PromoteRefused, Me
        <3> QED BY <2>2, <3>1, <3>2, <3>3, <3>4, <3>5, <3>6 DEF Operator
    <2>3. ASSUME NEW x \in Core, DiscoveryPass(x) PROVE FALSE
        <3>1. CASE StandDown(x)
            BY <3>1 DEF StandDown, Me, IsPrimary, TypeOK, Row
        <3>2. CASE UNCHANGED cores
            BY <3>2 DEF Me
        <3> QED BY <2>3, <3>1, <3>2 DEF DiscoveryPass, BeginPass, Answer, NoReply,
                    ObservePeer, EndPass
    <2>4. ASSUME NEW x \in Core, Failure(x) PROVE FALSE
        BY <2>4 DEF Failure, Crash, CrashInPromote, Restart, Me
    <2>5. CASE UNCHANGED vars
        BY <2>5 DEF vars, Me
    <2> QED BY <2>2, <2>3, <2>4, <2>5 DEF Next
<1>2. IInv /\ [Next]_vars => [Fresh]_vars
    BY <1>1
<1> QED BY <1>2, Invariance, PTL DEF Spec, NeverReplays
=============================================================================
