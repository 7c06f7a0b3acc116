-------------------------- MODULE PublishingProofs --------------------------
(***************************************************************************)
(* What is proved of Publishing: its types, that `latest` only ever shows  *)
(* states fusion reached, and that one failed write or one restart never   *)
(* leaves the occupancy log believing in a row it does not have.           *)
(***************************************************************************)
EXTENDS Publishing, FiniteSetTheorems, WellFoundedInduction, TLAPS

Typed == TypeOK /\ IsFiniteSet(past)

\* The least number principle, from the library's well-foundedness of < on Nat.
Less == {pair \in Nat \X Nat : pair[1] < pair[2]}

LEMMA LessIsWellFounded == IsWellFoundedOn(Less, Nat)
<1>1. OpToRel(<, Nat) = Less
  BY DEF OpToRel, Less
<1> QED BY <1>1, NatLessThanWellFounded

LEMMA LeastNumber ==
    ASSUME NEW S \in SUBSET Nat, S # {}
    PROVE  \E m \in S : \A n \in S : m <= n
<1>1. PICK m \in S : \A n \in S : ~ (<<n, m>> \in Less)
  BY LessIsWellFounded, WFMin
<1>2. ASSUME NEW n \in S PROVE m <= n
  <2>1. m \in Nat /\ n \in Nat
    OBVIOUS
  <2>2. ~ (n < m)
    BY <1>1, <2>1 DEF Less
  <2> QED BY <2>1, <2>2
<1> QED BY <1>2

\* A set of rows that is not empty has a newest one.
LEMMA NewestIsARow ==
    ASSUME NEW rows \in SUBSET Row, rows # {}
    PROVE  Newest(rows) \in rows
<1>0. \A r \in rows : r.seq \in 0 .. MaxSeq
  BY PublishingAssumption DEF Row, State, Nothing
<1> DEFINE Left == {MaxSeq - r.seq : r \in rows}
<1>1. Left \in SUBSET Nat /\ Left # {}
  BY <1>0, PublishingAssumption
<1>2. \E m \in Left : \A n \in Left : m <= n
  <2> HIDE DEF Left
  <2> QED BY <1>1, LeastNumber
<1>3. PICK r \in rows : \A n \in Left : MaxSeq - r.seq <= n
  BY <1>2
<1>4. ASSUME NEW q \in rows PROVE q.seq <= r.seq
  <2>1. MaxSeq - r.seq <= MaxSeq - q.seq
    BY <1>3
  <2>2. \A i, j, k \in Int : i - j <= i - k => k <= j
    OBVIOUS
  <2> QED BY <1>0, <2>1, <2>2, PublishingAssumption
<1> QED BY <1>4 DEF Newest

LEMMA NewestIsARowOrNothing ==
    ASSUME NEW rows \in SUBSET Row
    PROVE  Newest(rows) \in rows \cup {Nothing}
BY NewestIsARow DEF Newest

LEMMA NothingIsNoState == Nothing \notin State /\ Nothing \in Row
BY PublishingAssumption DEF Nothing, State, Row

-----------------------------------------------------------------------------
(* Types. *)

LEMMA IdleIsTyped ==
    Idle \in [at : Stage, state : Row, prev : Claims, cancelled : BOOLEAN]
BY DEF Idle, Stage, Row, Claims, Publisher

LEMMA ShowIsTyped ==
    ASSUME TypeOK, NEW p \in Publisher, NEW rs \in Row, Show(p, rs)
    PROVE  latest' \in Row
           /\ pub' \in [Publisher -> [at : Stage, state : Row, prev : Claims, cancelled : BOOLEAN]]
BY IdleIsTyped DEF Show, TypeOK

LEMMA ClaimIsTyped ==
    ASSUME TypeOK, NEW p \in Publisher, NEW rs \in Row, Claim(p, rs)
    PROVE  latest' \in Row /\ last' \in Claims
           /\ pub' \in [Publisher -> [at : Stage, state : Row, prev : Claims, cancelled : BOOLEAN]]
<1>1. CASE last.row.val = rs.val
  BY <1>1, ShowIsTyped DEF Claim, TypeOK
<1>2. CASE last.row.val # rs.val
  <2>1. last \in Claims /\ [row |-> rs, by |-> p] \in Claims
    BY DEF TypeOK, Claims
  <2>2. [at |-> "writing", state |-> rs, prev |-> last, cancelled |-> FALSE]
            \in [at : Stage, state : Row, prev : Claims, cancelled : BOOLEAN]
    BY <2>1 DEF Stage
  <2> QED BY <1>2, <2>1, <2>2 DEF Claim, TypeOK
<1> QED BY <1>1, <1>2

LEMMA PublishIsTyped ==
    ASSUME TypeOK, NEW p \in Publisher, NEW rs \in Row, NEW persist \in BOOLEAN,
           Publish(p, rs, persist)
    PROVE  latest' \in Row /\ last' \in Claims
           /\ pub' \in [Publisher -> [at : Stage, state : Row, prev : Claims, cancelled : BOOLEAN]]
<1>1. CASE persist
  <2>1. [Idle EXCEPT !.at = "storing", !.state = rs]
            \in [at : Stage, state : Row, prev : Claims, cancelled : BOOLEAN]
    BY IdleIsTyped DEF Stage
  <2> QED BY <1>1, <2>1 DEF Publish, TypeOK
<1>2. CASE ~persist
  BY <1>2, ClaimIsTyped DEF Publish
<1> QED BY <1>1, <1>2

LEMMA FuseIsTyped ==
    ASSUME Typed, NEW v \in Value, Fuse(v)
    PROVE  fused' \in State /\ past' \in SUBSET State /\ IsFiniteSet(past')
<1>1. Cardinality(past) \in Nat
  BY FS_CardinalityType DEF Typed
<1>2. fused' \in State
  <2>1. CASE v = fused.val
    BY <2>1, PublishingAssumption DEF Fuse, Typed, TypeOK, Row, Nothing
  <2>2. CASE v # fused.val
    BY <1>1, <2>2, PublishingAssumption DEF Fuse, State
  <2> QED BY <2>1, <2>2
<1>3. past' = past \cup {fused'}
  BY DEF Fuse
<1>4. IsFiniteSet(past')
  BY <1>3, FS_AddElement DEF Typed
<1> QED BY <1>2, <1>3, <1>4 DEF Typed, TypeOK

LEMMA FaultIsTyped ==
    ASSUME TypeOK, Fault
    PROVE  faults' \in 0 .. MaxFaults
BY PublishingAssumption DEF Fault, TypeOK

LEMMA TypingStep == Typed /\ [Next]_vars => Typed'
<1> SUFFICES ASSUME Typed, [Next]_vars PROVE Typed'
  OBVIOUS
<1> USE DEF Typed
<1>0. State \subseteq Row /\ Nothing \in Row
  BY DEF Row
<1>1. ASSUME NEW p \in Source, NEW v \in Value, Ingest(p, v) PROVE Typed'
  <2>1. p \in Publisher
    BY DEF Publisher
  <2>2. fused' \in State /\ past' \in SUBSET State /\ IsFiniteSet(past')
    BY <1>1, FuseIsTyped DEF Ingest
  <2>3. fused' \in Row
    BY <1>0, <2>2
  <2>4. Publish(p, fused', latest.val # v) /\ UNCHANGED <<stored, log, faults>>
    BY <1>1 DEF Ingest
  <2> HIDE DEF Typed
  <2>5. latest' \in Row /\ last' \in Claims
        /\ pub' \in [Publisher -> [at : Stage, state : Row, prev : Claims, cancelled : BOOLEAN]]
    BY <2>1, <2>3, <2>4, PublishIsTyped DEF Typed
  <2> QED BY <2>2, <2>3, <2>4, <2>5 DEF Typed, TypeOK
<1>2. ASSUME NEW v \in {fused.val, Empty}, v # NoValue, Refuse(v) PROVE Typed'
  <2>0. v \in Value
    BY <1>2, PublishingAssumption DEF TypeOK, Row, State, Nothing
  <2>1. Tick \in Publisher
    BY DEF Publisher
  <2>2. fused' \in State /\ past' \in SUBSET State /\ IsFiniteSet(past')
    BY <1>2, <2>0, FuseIsTyped DEF Refuse
  <2>3. fused' \in Row
    BY <1>0, <2>2
  <2>4. /\ Publish(Tick, fused', latest = Nothing \/ Class[latest.val] # Class[v])
        /\ UNCHANGED <<stored, log, faults>>
    BY <1>2 DEF Refuse
  <2> HIDE DEF Typed
  <2>5. latest' \in Row /\ last' \in Claims
        /\ pub' \in [Publisher -> [at : Stage, state : Row, prev : Claims, cancelled : BOOLEAN]]
    BY <2>1, <2>3, <2>4, PublishIsTyped DEF Typed
  <2> QED BY <2>2, <2>3, <2>4, <2>5 DEF Typed, TypeOK
<1>3. ASSUME NEW p \in Publisher, Resume(p) PROVE Typed'
  <2>0. pub[p].state \in Row
    BY DEF TypeOK
  <2>1. latest' \in Row /\ last' \in Claims
        /\ pub' \in [Publisher -> [at : Stage, state : Row, prev : Claims, cancelled : BOOLEAN]]
    BY <1>3, <2>0, ClaimIsTyped, ShowIsTyped DEF Resume, TypeOK
  <2> QED BY <1>3, <2>1 DEF Resume, TypeOK
<1>4. ASSUME NEW p \in Source, Cancel(p) PROVE Typed'
  BY <1>4, IdleIsTyped DEF Cancel, TypeOK, Publisher
<1>5. ASSUME NEW p \in Publisher, StoreRow(p) PROVE Typed'
  BY <1>5, IdleIsTyped DEF StoreRow, ThreadEnds, TypeOK, Stage
<1>6. ASSUME NEW p \in Publisher, WriteRow(p) PROVE Typed'
  <2>1. pub[p].state \in Row
    BY DEF TypeOK
  <2>2. log' \in SUBSET Row
    BY <1>6, <2>1 DEF WriteRow, TypeOK
  <2> QED BY <1>6, <2>2, IdleIsTyped DEF WriteRow, ThreadEnds, TypeOK, Stage
<1>7. ASSUME NEW p \in Publisher, StoreFails(p) PROVE Typed'
  BY <1>7, IdleIsTyped, FaultIsTyped DEF StoreFails, TypeOK
<1>8. ASSUME NEW p \in Publisher, WriteFails(p) PROVE Typed'
  <2>1. last' \in Claims
    BY <1>8 DEF WriteFails, PutBack, TypeOK
  <2> QED BY <1>8, <2>1, IdleIsTyped, FaultIsTyped DEF WriteFails, TypeOK
<1>9. CASE Restart
  <2>1. last' \in Claims
    BY <1>9, NewestIsARowOrNothing, <1>0 DEF Restart, TypeOK, Claims, Publisher
  <2>2. pub' \in [Publisher -> [at : Stage, state : Row, prev : Claims, cancelled : BOOLEAN]]
    BY <1>9, IdleIsTyped DEF Restart
  <2> QED BY <1>9, <2>1, <2>2, <1>0, FaultIsTyped DEF Restart, TypeOK
<1>10. CASE UNCHANGED vars
  BY <1>10 DEF vars, TypeOK
<1> QED BY <1>1, <1>2, <1>3, <1>4, <1>5, <1>6, <1>7, <1>8, <1>9, <1>10 DEF Next, Thread

(* Every variable stays of its type, whatever the bounds.                   *)
THEOREM Typing == Spec => []TypeOK
<1>1. Init => Typed
  <2>1. IsFiniteSet({})
    BY FS_EmptySet
  <2> QED BY <2>1, IdleIsTyped, PublishingAssumption
          DEF Init, Typed, TypeOK, Unclaimed, Claims, Publisher, Row
<1>2. Typed => TypeOK
  BY DEF Typed
<1> QED BY <1>1, <1>2, TypingStep, PTL DEF Spec

-----------------------------------------------------------------------------
(* What is shown was reached: the states that publishers hold, and the one  *)
(* on the screen, all came from fusion.                                     *)

Reached == past \cup {Nothing}

OnlyReached ==
    /\ fused \in Reached /\ latest \in Reached
    /\ \A p \in Publisher : pub[p].state \in Reached

LEMMA PublishReaches ==
    ASSUME Typed, OnlyReached, NEW p \in Publisher, NEW v \in Value, NEW persist \in BOOLEAN,
           Fuse(v), Publish(p, fused', persist)
    PROVE  OnlyReached'
<1>1. fused' \in past' /\ past \subseteq past'
  BY DEF Fuse
<1>2. latest' \in {latest, fused'}
  BY DEF Publish, Claim, Show
<1>3. \A q \in Publisher : pub'[q].state \in {pub[q].state, fused', Nothing}
  <2>1. /\ Idle.state = Nothing
        /\ \A s : [Idle EXCEPT !.at = "storing", !.state = s].state = s
    BY DEF Idle
  <2>2. \A q \in Publisher : q # p => pub'[q] = pub[q]
    BY DEF Publish, Claim, Show, Typed, TypeOK
  <2>3. CASE persist
    BY <2>1, <2>2, <2>3 DEF Publish, Typed, TypeOK
  <2>4. CASE ~persist /\ last.row.val = (fused').val
    BY <2>1, <2>2, <2>4 DEF Publish, Claim, Show, Typed, TypeOK
  <2>5. CASE ~persist /\ last.row.val # (fused').val
    <3>1. pub'[p].state = fused'
      BY <2>5 DEF Publish, Claim, Typed, TypeOK
    <3> QED BY <2>2, <3>1
  <2> QED BY <2>3, <2>4, <2>5
<1> QED BY <1>1, <1>2, <1>3 DEF OnlyReached, Reached

LEMMA ReachedStep == Typed /\ OnlyReached /\ [Next]_vars => OnlyReached'
<1> SUFFICES ASSUME Typed, OnlyReached, [Next]_vars PROVE OnlyReached'
  OBVIOUS
<1>1. ASSUME NEW p \in Source, NEW v \in Value, Ingest(p, v) PROVE OnlyReached'
  BY <1>1, PublishReaches DEF Ingest, Publisher
<1>2. ASSUME NEW v \in {fused.val, Empty}, v # NoValue, Refuse(v) PROVE OnlyReached'
  <2>1. v \in Value
    BY <1>2, PublishingAssumption DEF Typed, TypeOK, Row, State, Nothing
  <2> QED BY <1>2, <2>1, PublishReaches DEF Refuse, Publisher
<1>3. ASSUME NEW p \in Publisher, Resume(p) PROVE OnlyReached'
  <2>1. \A q \in Publisher : pub'[q].state \in {pub[q].state, pub[p].state, Nothing}
    BY <1>3 DEF Resume, Claim, Show, Idle, Typed, TypeOK
  <2>2. latest' \in {latest, pub[p].state}
    BY <1>3 DEF Resume, Claim, Show
  <2> QED BY <1>3, <2>1, <2>2 DEF Resume, OnlyReached, Reached
<1>4. ASSUME NEW p \in Publisher,
             \/ Cancel(p) \/ StoreRow(p) \/ WriteRow(p) \/ StoreFails(p) \/ WriteFails(p)
      PROVE  OnlyReached'
  <2>1. \A q \in Publisher : pub'[q].state \in {pub[q].state, Nothing}
    BY <1>4 DEF Cancel, StoreRow, WriteRow, StoreFails, WriteFails, ThreadEnds, Idle,
                Typed, TypeOK
  <2>2. UNCHANGED <<fused, latest, past>>
    BY <1>4 DEF Cancel, StoreRow, WriteRow, StoreFails, WriteFails
  <2> QED BY <2>1, <2>2 DEF OnlyReached, Reached
<1>5. CASE Restart
  BY <1>5 DEF Restart, OnlyReached, Reached, Idle
<1>6. CASE UNCHANGED vars
  BY <1>6 DEF vars, OnlyReached, Reached
<1> QED BY <1>1, <1>2, <1>3, <1>4, <1>5, <1>6 DEF Next, Thread, Publisher

\* Every step of the publishers is a move of the board, or none.
LEMMA StepIsAMove ==
    Typed /\ OnlyReached /\ OnlyReached' /\ Typed' /\ [Next]_vars
        => [Screen!Move]_(Screen!board)
<1> SUFFICES ASSUME Typed, OnlyReached, Typed', OnlyReached', [Next]_vars
             PROVE  [Screen!Move]_(Screen!board)
  OBVIOUS
<1>1. fused' \in State \cup {Nothing}
  BY DEF Typed, TypeOK, Row
<1>2. latest' \in {latest, Nothing} \cup past'
  BY DEF OnlyReached, Reached
<1> DEFINE Grows == past' = past \cup ({fused'} \ {Nothing})
<1>3. Grows
  <2>1. ASSUME NEW v \in Value, Fuse(v) PROVE Grows
    <3>1. fused' \in State
      BY <2>1, FuseIsTyped
    <3> QED BY <2>1, <3>1, NothingIsNoState DEF Fuse
  <2>2. ASSUME UNCHANGED <<fused, past>> PROVE Grows
    BY <2>2 DEF OnlyReached, Reached
  <2>3. ASSUME fused' = Nothing, past' = past PROVE Grows
    BY <2>3
  <2>4. ASSUME NEW p \in Source, NEW v \in Value, Ingest(p, v) PROVE Grows
    BY <2>1, <2>4 DEF Ingest
  <2>5. ASSUME NEW v \in {fused.val, Empty}, v # NoValue, Refuse(v) PROVE Grows
    <3>1. v \in Value
      BY <2>5, PublishingAssumption DEF Typed, TypeOK, Row, State, Nothing
    <3> QED BY <2>1, <2>5, <3>1 DEF Refuse
  <2>6. ASSUME NEW p \in Publisher,
               \/ Cancel(p) \/ Resume(p) \/ StoreRow(p) \/ WriteRow(p)
               \/ StoreFails(p) \/ WriteFails(p)
        PROVE  Grows
    <3>1. UNCHANGED <<fused, past>>
      BY <2>6 DEF Cancel, Resume, StoreRow, WriteRow, StoreFails, WriteFails
    <3> QED BY <2>2, <3>1
  <2>7. CASE Restart
    BY <2>3, <2>7 DEF Restart
  <2>8. CASE UNCHANGED vars
    BY <2>2, <2>8 DEF vars
  <2> HIDE DEF Grows
  <2> QED BY <2>4, <2>5, <2>6, <2>7, <2>8 DEF Next, Thread, Publisher
<1> QED BY <1>1, <1>2, <1>3 DEF Screen!Move

(* The safety half of the board's promise: a screen is never shown a state  *)
(* that fusion did not reach, under any number of failures and restarts.    *)
THEOREM ScreenIsSafe == Spec => Screen!Safe
<1>1. Init => Typed /\ OnlyReached /\ Screen!Init
  <2>1. IsFiniteSet({})
    BY FS_EmptySet
  <2>2. Init => Typed
    BY <2>1, IdleIsTyped, PublishingAssumption
       DEF Init, Typed, TypeOK, Unclaimed, Claims, Publisher, Row
  <2> QED BY <2>2 DEF Init, OnlyReached, Reached, Idle, Screen!Init
<1>2. Typed /\ OnlyReached /\ [Next]_vars => (Typed /\ OnlyReached)'
  BY TypingStep, ReachedStep
<1> QED BY <1>1, <1>2, StepIsAMove, PTL DEF Spec, Screen!Safe

-----------------------------------------------------------------------------
(* The log's memory: a claim is kept when its row is written, or still being*)
(* written by the publisher that claimed it.                                *)

InFlight(c, pubs) == pubs[c.by].at = "writing" /\ pubs[c.by].state = c.row
Kept(c, pubs, rows) == c.row = Nothing \/ c.row \in rows \/ InFlight(c, pubs)

\* What a failing write would put back is kept too, and is another row.
PrevKept(q, pubs, rows) ==
    pubs[q].at = "writing" =>
        Kept(pubs[q].prev, pubs, rows) /\ pubs[q].state # pubs[q].prev.row

Sound ==
    /\ Kept(last, pub, log)
    /\ faults = 0 => \A q \in Publisher : PrevKept(q, pub, log)

\* A claim stays kept when one publisher moves and its write, if it had one, is done
\* or goes on.
LEMMA KeptOn ==
    ASSUME Typed, NEW p \in Publisher, NEW c \in Claims, Kept(c, pub, log),
           log \subseteq log', \A q \in Publisher : q # p => pub'[q] = pub[q],
           pub[p].at = "writing" => \/ pub[p].state \in log'
                                    \/ pub'[p].at = "writing" /\ pub'[p].state = pub[p].state
    PROVE  Kept(c, pub', log')
<1>1. c.by \in Publisher
  BY DEF Claims
<1> QED BY <1>1 DEF Kept, InFlight

LEMMA PrevKeptOn ==
    ASSUME Typed, NEW p \in Publisher,
           \A q \in Publisher : PrevKept(q, pub, log),
           log \subseteq log', \A q \in Publisher : q # p => pub'[q] = pub[q],
           pub[p].at = "writing" => \/ pub[p].state \in log'
                                    \/ pub'[p].at = "writing" /\ pub'[p].state = pub[p].state,
           NEW q \in Publisher,
           pub'[q].at = "writing" => /\ pub[q].at = "writing" /\ pub'[q].state = pub[q].state
                                    /\ pub'[q].prev = pub[q].prev
    PROVE  PrevKept(q, pub', log')
<1>1. CASE pub'[q].at # "writing"
  BY <1>1 DEF PrevKept
<1>2. CASE pub'[q].at = "writing"
  <2>1. pub[q].prev \in Claims /\ Kept(pub[q].prev, pub, log)
        /\ pub[q].state # pub[q].prev.row
    BY <1>2 DEF PrevKept, Typed, TypeOK
  <2>2. Kept(pub[q].prev, pub', log')
    BY <2>1, KeptOn
  <2> QED BY <1>2, <2>1, <2>2 DEF PrevKept
<1> QED BY <1>1, <1>2

LEMMA SoundClaim ==
    ASSUME Typed, Sound, NEW p \in Publisher, NEW rs \in Row, pub[p].at # "writing",
           Claim(p, rs), UNCHANGED <<log, faults>>
    PROVE  Sound'
<1>1. \A q \in Publisher : q # p => pub'[q] = pub[q]
  BY DEF Claim, Show, Typed, TypeOK
<1>2. last \in Claims /\ Kept(last, pub', log')
  BY <1>1, KeptOn DEF Sound, Typed, TypeOK
<1>3. CASE last.row.val = rs.val
  <2>1. last' = last /\ pub'[p].at = "idle"
    BY <1>3 DEF Claim, Show, Idle, Typed, TypeOK
  <2>2. ASSUME faults = 0, NEW q \in Publisher PROVE PrevKept(q, pub', log')
    BY <1>1, <2>1, <2>2, PrevKeptOn DEF Sound
  <2> QED BY <1>2, <2>1, <2>2 DEF Sound
<1>4. CASE last.row.val # rs.val
  <2>1. /\ last' = [row |-> rs, by |-> p]
        /\ pub'[p] = [at |-> "writing", state |-> rs, prev |-> last, cancelled |-> FALSE]
    BY <1>4 DEF Claim, Typed, TypeOK
  <2>2. Kept(last', pub', log')
    BY <2>1 DEF Kept, InFlight
  <2>3. PrevKept(p, pub', log')
    BY <1>2, <1>4, <2>1 DEF PrevKept
  <2>4. ASSUME faults = 0, NEW q \in Publisher, q # p PROVE PrevKept(q, pub', log')
    BY <1>1, <2>4, PrevKeptOn DEF Sound
  <2> QED BY <2>2, <2>3, <2>4 DEF Sound
<1> QED BY <1>3, <1>4

\* Moves that leave `last` alone, and whatever is being written.
LEMMA SoundMove ==
    ASSUME Typed, Sound, NEW p \in Publisher, UNCHANGED last,
           log \subseteq log', \A q \in Publisher : q # p => pub'[q] = pub[q],
           pub'[p].at = "writing" => /\ pub[p].at = "writing" /\ pub'[p].state = pub[p].state
                                    /\ pub'[p].prev = pub[p].prev,
           pub[p].at = "writing" => pub[p].state \in log' \/ pub'[p].at = "writing",
           faults' = 0 => faults = 0
    PROVE  Sound'
<1>0. pub[p].at = "writing" =>
          \/ pub[p].state \in log'
          \/ pub'[p].at = "writing" /\ pub'[p].state = pub[p].state
  OBVIOUS
<1>1. Kept(last', pub', log')
  <2>1. last \in Claims /\ Kept(last, pub, log)
    BY DEF Sound, Typed, TypeOK
  <2>2. last.by \in Publisher
    BY <2>1 DEF Claims
  <2>3. last' = last
    OBVIOUS
  <2> QED BY <1>0, <2>1, <2>2, <2>3 DEF Kept, InFlight
<1>2. ASSUME faults' = 0, NEW q \in Publisher PROVE PrevKept(q, pub', log')
  <2>1. \A r \in Publisher : PrevKept(r, pub, log)
    BY <1>2 DEF Sound
  <2>2. pub'[q].at = "writing" => /\ pub[q].at = "writing" /\ pub'[q].state = pub[q].state
                                 /\ pub'[q].prev = pub[q].prev
    OBVIOUS
  <2>3. CASE pub'[q].at = "writing"
    <3>1. /\ Kept(pub[q].prev, pub, log) /\ pub[q].state # pub[q].prev.row
          /\ pub[q].prev.by \in Publisher
      BY <2>1, <2>2, <2>3 DEF PrevKept, Typed, TypeOK, Claims
    <3>2. Kept(pub[q].prev, pub', log')
      BY <1>0, <3>1 DEF Kept, InFlight
    <3> QED BY <2>2, <2>3, <3>1, <3>2 DEF PrevKept
  <2> QED BY <2>3 DEF PrevKept
<1> QED BY <1>1, <1>2 DEF Sound

LEMMA SoundPublish ==
    ASSUME Typed, Sound, NEW p \in Publisher, NEW rs \in Row, NEW persist \in BOOLEAN,
           pub[p].at = "idle", Publish(p, rs, persist), UNCHANGED <<log, faults>>
    PROVE  Sound'
<1>1. CASE persist
  <2>0. [Idle EXCEPT !.at = "storing", !.state = rs].at = "storing"
    BY DEF Idle
  <2>1. pub'[p].at = "storing" /\ \A q \in Publisher : q # p => pub'[q] = pub[q]
    BY <1>1, <2>0 DEF Publish, Typed, TypeOK
  <2> QED BY <1>1, <2>1, SoundMove DEF Publish
<1>2. CASE ~persist
  BY <1>2, SoundClaim DEF Publish
<1> QED BY <1>1, <1>2

LEMMA SoundStep ==
    ASSUME MaxFaults <= 1, Typed, Typed', Sound, [Next]_vars
    PROVE  Sound'
<1>0. faults \in Nat /\ (faults' # faults => faults = 0 /\ faults' = 1)
  <2>1. faults \in 0 .. MaxFaults /\ faults' \in 0 .. MaxFaults
    BY DEF Typed, TypeOK
  <2>2. faults' = faults \/ faults' = faults + 1
    BY DEF Next, Thread, vars, Ingest, Refuse, Cancel, Resume, StoreRow, WriteRow,
           StoreFails, WriteFails, Restart, Fault
  <2>3. \A i, j, k \in Int : k <= 1 /\ i \in 0 .. k /\ j \in 0 .. k /\ (j = i \/ j = i + 1)
                               /\ j # i => i = 0 /\ j = 1
    OBVIOUS
  <2> QED BY <2>1, <2>2, <2>3, PublishingAssumption
<1>1. ASSUME NEW p \in Source, NEW v \in Value, Ingest(p, v) PROVE Sound'
  <2>1. fused' \in Row /\ p \in Publisher
    BY DEF Typed, TypeOK, Publisher
  <2> QED BY <1>1, <2>1, SoundPublish DEF Ingest
<1>2. ASSUME NEW v \in {fused.val, Empty}, v # NoValue, Refuse(v) PROVE Sound'
  <2>1. fused' \in Row /\ Tick \in Publisher
    BY DEF Typed, TypeOK, Publisher
  <2> QED BY <1>2, <2>1, SoundPublish DEF Refuse
<1>3. ASSUME NEW p \in Publisher, Resume(p) PROVE Sound'
  <2>1. CASE pub[p].at = "stored"
    <3>1. pub[p].state \in Row
      BY DEF Typed, TypeOK
    <3> QED BY <1>3, <2>1, <3>1, SoundClaim DEF Resume
  <2>2. CASE pub[p].at = "written"
    <3>1. pub'[p].at = "idle" /\ \A q \in Publisher : q # p => pub'[q] = pub[q]
      BY <1>3, <2>2 DEF Resume, Show, Idle, Typed, TypeOK
    <3> QED BY <1>3, <2>2, <3>1, SoundMove DEF Resume
  <2> QED BY <1>3, <2>1, <2>2 DEF Resume
<1>4. ASSUME NEW p \in Source, Cancel(p) PROVE Sound'
  <2>0. p \in Publisher
    BY DEF Publisher
  <2>1. \/ pub'[p].at = "idle" /\ pub[p].at \in {"stored", "written"}
        \/ pub'[p].at = pub[p].at /\ pub'[p].state = pub[p].state /\ pub'[p].prev = pub[p].prev
    BY <1>4, <2>0 DEF Cancel, Idle, Typed, TypeOK
  <2>2. \A q \in Publisher : q # p => pub'[q] = pub[q]
    BY <1>4 DEF Cancel, Typed, TypeOK
  <2>3. UNCHANGED <<last, log, faults>>
    BY <1>4 DEF Cancel
  <2>4. CASE pub[p].at = "writing"
    BY <2>0, <2>1, <2>2, <2>3, <2>4, SoundMove
  <2>5. CASE pub[p].at # "writing"
    BY <2>0, <2>1, <2>2, <2>3, <2>5, SoundMove
  <2> QED BY <2>4, <2>5
<1>5. ASSUME NEW p \in Publisher, StoreRow(p) PROVE Sound'
  <2>1. pub'[p].at \in {"idle", "stored"} /\ \A q \in Publisher : q # p => pub'[q] = pub[q]
    BY <1>5 DEF StoreRow, ThreadEnds, Idle, Typed, TypeOK
  <2> QED BY <1>5, <2>1, SoundMove DEF StoreRow
<1>6. ASSUME NEW p \in Publisher, WriteRow(p) PROVE Sound'
  <2>1. pub'[p].at \in {"idle", "written"} /\ \A q \in Publisher : q # p => pub'[q] = pub[q]
    BY <1>6 DEF WriteRow, ThreadEnds, Idle, Typed, TypeOK
  <2> QED BY <1>6, <2>1, SoundMove DEF WriteRow
<1>7. ASSUME NEW p \in Publisher, StoreFails(p) PROVE Sound'
  <2>1. pub'[p].at = "idle" /\ \A q \in Publisher : q # p => pub'[q] = pub[q]
    BY <1>7 DEF StoreFails, Idle, Typed, TypeOK
  <2>2. faults' = 0 => faults = 0
    BY <1>0
  <2> QED BY <1>7, <2>1, <2>2, SoundMove DEF StoreFails
<1>8. ASSUME NEW p \in Publisher, WriteFails(p) PROVE Sound'
  <2>1. pub'[p].at = "idle" /\ \A q \in Publisher : q # p => pub'[q] = pub[q]
    BY <1>8 DEF WriteFails, Idle, Typed, TypeOK
  <2>2. faults = 0 /\ faults' = 1
    BY <1>0, <1>8 DEF WriteFails, Fault
  <2>3. /\ Kept(last, pub, log) /\ Kept(pub[p].prev, pub, log)
        /\ pub[p].state # pub[p].prev.row
    BY <1>8, <2>2 DEF Sound, PrevKept, WriteFails
  <2>4. last \in Claims /\ pub[p].prev \in Claims
    BY DEF Typed, TypeOK
  <2>5. Kept(last', pub', log)
    BY <1>8, <2>1, <2>3, <2>4 DEF WriteFails, PutBack, Kept, InFlight, Claims
  <2>6. log' = log
    BY <1>8 DEF WriteFails
  <2> QED BY <2>2, <2>5, <2>6 DEF Sound
<1>9. CASE Restart
  <2>1. faults' = 1
    BY <1>0, <1>9 DEF Restart, Fault
  <2>2. Newest(log) \in log \cup {Nothing} /\ log' = log
    BY <1>9, NewestIsARowOrNothing DEF Restart, Typed, TypeOK
  <2>3. Kept(last', pub', log')
    BY <1>9, <2>2 DEF Restart, Kept
  <2> QED BY <2>1, <2>3 DEF Sound
<1>10. CASE UNCHANGED vars
  BY <1>10 DEF vars, Sound
<1> QED BY <1>1, <1>2, <1>3, <1>4, <1>5, <1>6, <1>7, <1>8, <1>9, <1>10 DEF Next, Thread

(* With at most one failure or restart, the row the log takes for its last  *)
(* one is written or on its way, however many publishers overtake it.  Two  *)
(* are too many: the second failed write puts back the first one's row.     *)
THEOREM LastIsAlwaysLogged ==
    ASSUME MaxFaults <= 1
    PROVE  Spec => []LastIsLogged
<1>1. Init => Typed /\ Sound
  <2>1. IsFiniteSet({})
    BY FS_EmptySet
  <2>2. Init => Typed
    BY <2>1, IdleIsTyped, PublishingAssumption
       DEF Init, Typed, TypeOK, Unclaimed, Claims, Publisher, Row
  <2> QED BY <2>2 DEF Init, Sound, Kept, PrevKept, Idle, Unclaimed
<1>2. Typed /\ Sound /\ [Next]_vars => (Typed /\ Sound)'
  BY TypingStep, SoundStep
<1>3. Typed /\ Sound => LastIsLogged
  <2> SUFFICES ASSUME Typed, Sound PROVE LastIsLogged
    OBVIOUS
  <2>1. last.by \in Publisher
    BY DEF Typed, TypeOK, Claims
  <2> QED BY <2>1 DEF Sound, Kept, InFlight, LastIsLogged
<1> QED BY <1>1, <1>2, <1>3, PTL DEF Spec

=============================================================================
