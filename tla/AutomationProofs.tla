--------------------------- MODULE AutomationProofs ---------------------------
(***************************************************************************)
(* What is proved of Routines, for any house, routines, edits and number of*)
(* restarts: a time trigger acts at most once a day unless its mark was    *)
(* lost, no day is skipped unless a foreign run took its mark, and a still *)
(* room is answered once.  And of Rules, for any cadence, interval, fade   *)
(* and queue: a room that only faded is not told as left.                  *)
(***************************************************************************)
EXTENDS Routines, Rules, Integers, SequenceTheorems, TLAPS

\* The part of the types the arguments below need.
Shaped ==
    /\ day \in Day /\ late \in BOOLEAN
    /\ lastFired \in [Routine -> 0 .. MaxDay] /\ firedDay \in [Routine -> 0 .. MaxDay]
    /\ pass \in [todo : SUBSET Routine, acting : Routine \cup {Nobody}, day : 0 .. MaxDay]
    /\ acted \in [Routine -> [Day -> Nat]]
    /\ def \in [Routine -> Shape \cup {Unborn, Gone}]

\* Nothing is from the future, and a pass that is under way has a day.
NotAhead ==
    /\ pass.day <= day
    /\ pass # NoPass => pass.day \in Day
    /\ \A r \in Routine : firedDay[r] <= day /\ lastFired[r] <= day
    /\ \A r \in Routine, d \in Day : d > day => acted[r][d] = 0

\* A run that has begun and kept its mark is under way, or marked, or its routine is gone.
Accounted(r) ==
    acted[r][day] > 0 /\ <<r, day>> \notin cut =>
        \/ (pass.acting = r /\ pass.day = day)
        \/ lastFired[r] = day
        \/ def[r] = Gone

\* What waits has not acted, and what acts has begun.
Begun ==
    /\ \A r \in pass.todo : acted[r][pass.day] = 0 \/ <<r, pass.day>> \in cut
    /\ \A r \in Routine : pass.acting = r => acted[r][pass.day] > 0
    /\ \A r \in Routine : r \in pass.todo \/ pass.acting = r => def[r] # Unborn

\* Both guards of _once close for a reason.
Reasons(r) ==
    /\ firedDay[r] = day =>
          \/ acted[r][day] > 0
          \/ (r \in pass.todo /\ pass.day = day)
          \/ <<r, day>> \in borrowed
    /\ lastFired[r] = day => (acted[r][day] > 0 \/ <<r, day>> \in borrowed)

IInv ==
    /\ Shaped /\ NotAhead /\ Begun /\ OnceADay
    /\ \A r \in Routine : Accounted(r) /\ Reasons(r)

LEMMA NoPassIsNobody == NoPass.acting = Nobody /\ NoPass.todo = {} /\ NoPass.day = 0
BY DEF NoPass

LEMMA DaysCount == MaxDay \in Nat /\ MaxDay > 0 /\ 0 \in 0 .. MaxDay /\ Day \subseteq 0 .. MaxDay
<1>1. MaxDay \in Nat \ {0}
  BY RoutinesAssumption
<1> QED BY <1>1 DEF Day

LEMMA InitIInv == Init => IInv
<1> SUFFICES ASSUME Init PROVE IInv
  OBVIOUS
<1>1. /\ day = 1 /\ late = FALSE /\ pass = NoPass /\ day \in Day
      /\ def = [r \in Routine |-> Unborn]
      /\ lastFired = [r \in Routine |-> 0] /\ firedDay = [r \in Routine |-> 0]
      /\ acted = [r \in Routine |-> [d \in Day |-> 0]]
  BY DaysCount DEF Init, Day
<1>2. NoPass \in [todo : SUBSET Routine, acting : Routine \cup {Nobody}, day : 0 .. MaxDay]
  BY DaysCount DEF NoPass
<1>3. Shaped
  BY <1>1, <1>2, DaysCount DEF Shaped
<1>4. NotAhead
  BY <1>1, NoPassIsNobody DEF NotAhead
<1>5. Begun
  BY <1>1, NoPassIsNobody, RoutinesAssumption DEF Begun
<1>6. OnceADay /\ \A r \in Routine : Accounted(r) /\ Reasons(r)
  BY <1>1 DEF OnceADay, Accounted, Reasons
<1> QED BY <1>3, <1>4, <1>5, <1>6 DEF IInv

LEMMA GoneIsNoShape == Gone \notin Shape /\ Unborn \notin Shape /\ Gone # Unborn
BY RoutinesAssumption DEF Gone, Unborn

\* Steps that leave the clock, the runs and the marks alone.
LEMMA EditKeeps ==
    ASSUME IInv, NEW r \in Routine,
           \/ \E s \in Shape : Update(r, s) \/ \E on \in BOOLEAN : Add(r, s, on)
           \/ \E on \in BOOLEAN : SetEnabled(r, on)
           \/ Delete(r),
           UNCHANGED <<clock, engine, pass, history>>
    PROVE  IInv'
<1>1. def' \in [Routine -> Shape \cup {Unborn, Gone}] /\ UNCHANGED lastFired
  BY DEF Update, Add, SetEnabled, Delete, IInv, Shaped
<1>2. \A q \in Routine : def[q] = Gone => def'[q] = Gone
  BY GoneIsNoShape DEF Update, Add, SetEnabled, Delete, Exists, IInv, Shaped
<1>3. UNCHANGED <<day, late, firedDay, pass, acted, cut, borrowed>>
  BY DEF clock, engine, history
<1>4. \A q \in Routine : def[q] # Unborn => def'[q] # Unborn
  BY GoneIsNoShape DEF Update, Add, SetEnabled, Delete, Exists, IInv, Shaped
<1> QED BY <1>1, <1>2, <1>3, <1>4
        DEF IInv, Shaped, NotAhead, Begun, OnceADay, Accounted, Reasons

LEMMA TickKeeps == IInv /\ Tick => IInv'
<1> SUFFICES ASSUME IInv, Tick PROVE IInv'
  OBVIOUS
<1> USE DEF IInv
<1> DEFINE matched == {r \in Asked : Due(r) /\ Once(r)}
<1>0. UNCHANGED <<day, late, def, lastFired, acted, cut, borrowed>>
  BY DEF Tick, clock, row, history
<1>1. /\ pass = NoPass
      /\ pass' = IF matched = {} THEN NoPass
                 ELSE [todo |-> matched, acting |-> Nobody, day |-> day]
      /\ firedDay' = [r \in Routine |-> IF r \in Asked THEN day ELSE firedDay[r]]
  BY DEF Tick
<1>2. matched \in SUBSET Routine /\ \A r \in matched : r \in Routine /\ Once(r) /\ def[r] # Gone /\ def[r] # Unborn
  BY GoneIsNoShape DEF Asked, Due, Armed, Exists
<1>3. \A r \in matched : acted[r][day] = 0 \/ <<r, day>> \in cut
  <2>1. ASSUME NEW r \in matched PROVE acted[r][day] = 0 \/ <<r, day>> \in cut
    <3>1. r \in Routine /\ lastFired[r] # day /\ def[r] # Gone
      BY <1>2 DEF Once
    <3>2. pass.acting # r
      BY <1>1, <3>1, NoPassIsNobody, RoutinesAssumption
    <3>3. ~(acted[r][day] > 0 /\ <<r, day>> \notin cut)
      BY <3>1, <3>2 DEF Accounted
    <3>4. acted[r][day] \in Nat
      BY <3>1 DEF Shaped
    <3> QED BY <3>3, <3>4
  <2> QED BY <2>1
<1>4. \A r \in Asked : r \in matched \/ firedDay[r] = day \/ lastFired[r] = day
  BY DEF Asked, Once
<1>5. CASE matched = {}
  <2>1. pass' = NoPass
    BY <1>1, <1>5
  <2>2. \A r \in Asked : firedDay[r] = day \/ lastFired[r] = day
    BY <1>4, <1>5
  <2> HIDE DEF matched
  <2>3. Shaped' /\ NotAhead'
    BY <1>0, <1>1, <2>1 DEF Shaped, NotAhead, Day
  <2>4. Begun' /\ OnceADay'
    BY <1>0, <1>1, <2>1 DEF Begun, OnceADay
  <2>5. \A r \in Routine : Accounted(r)'
    BY <1>0, <1>1, <2>1 DEF Accounted
  <2>6. \A r \in Routine : Reasons(r)'
    BY <1>0, <1>1, <2>1, <2>2, NoPassIsNobody DEF Reasons
  <2> QED BY <2>3, <2>4, <2>5, <2>6
<1>6. CASE matched # {}
  <2>1. pass' = [todo |-> matched, acting |-> Nobody, day |-> day]
    BY <1>1, <1>6
  <2> HIDE DEF matched
  <2>2. pass'.todo = matched /\ pass'.acting = Nobody /\ pass'.day = day
    BY <2>1
  <2>3. Shaped'
    BY <1>0, <1>1, <1>2, <2>1 DEF Shaped, Day
  <2>4. NotAhead'
    BY <1>0, <1>1, <2>2 DEF NotAhead, Shaped, Day
  <2>5. Begun' /\ OnceADay'
    BY <1>0, <1>2, <1>3, <2>2, RoutinesAssumption DEF Begun, OnceADay
  <2>6. \A r \in Routine : Accounted(r)'
    BY <1>0, <1>1, <2>2, NoPassIsNobody, RoutinesAssumption DEF Accounted
  <2>7. \A r \in Routine : Reasons(r)'
    BY <1>0, <1>1, <1>4, <2>2, NoPassIsNobody DEF Reasons
  <2> QED BY <2>3, <2>4, <2>5, <2>6, <2>7
<1> QED BY <1>5, <1>6

LEMMA PassActsKeeps == ASSUME IInv, NEW r \in Routine, PassActs(r) PROVE IInv'
<1> USE DEF IInv
<1>0. UNCHANGED <<day, late, def, lastFired, firedDay, cut, borrowed>>
  BY DEF PassActs, clock, row, engine
<1>1. /\ pass.acting = Nobody /\ r \in pass.todo
      /\ pass'.todo = pass.todo \ {r} /\ pass'.acting = r /\ pass'.day = pass.day
      /\ pass' \in [todo : SUBSET Routine, acting : Routine \cup {Nobody}, day : 0 .. MaxDay]
  BY DEF PassActs, Shaped
<1>2. pass.day \in Day
  BY <1>1, NoPassIsNobody DEF NotAhead
<1>3. /\ acted' \in [Routine -> [Day -> Nat]]
      /\ acted'[r][pass.day] = acted[r][pass.day] + 1
      /\ \A q \in Routine, d \in Day : <<q, d>> # <<r, pass.day>> => acted'[q][d] = acted[q][d]
  BY <1>2 DEF PassActs, Shaped
<1>4. acted[r][pass.day] \in Nat /\ acted'[r][pass.day] > 0
  <2>1. acted[r][pass.day] \in Nat
    BY <1>2 DEF Shaped
  <2>2. \A i, j \in Int : i \in Nat /\ j = i + 1 => j > 0
    OBVIOUS
  <2> QED BY <1>3, <2>1, <2>2
<1>5. Shaped'
  BY <1>0, <1>1, <1>3 DEF Shaped
<1>6. NotAhead'
  <2>0. day \in Int /\ \A d \in Day : d \in Int
    BY DaysCount DEF Shaped, Day
  <2>1. \A q \in Routine, d \in Day : d > day => <<q, d>> # <<r, pass.day>>
    BY <1>2, <2>0 DEF NotAhead
  <2>2. \A q \in Routine, d \in Day : d > day => acted'[q][d] = 0
    BY <1>3, <2>1 DEF NotAhead
  <2> QED BY <1>0, <1>1, <1>2, <2>2 DEF NotAhead
<1>7. OnceADay'
  <2>1. ASSUME NEW q \in Routine, NEW d \in Day
        PROVE  acted'[q][d] <= 1 \/ <<q, d>> \in cut'
    <3>1. CASE <<q, d>> = <<r, pass.day>>
      <4>1. <<r, pass.day>> \in cut \/ acted[r][pass.day] = 0
        BY <1>1 DEF Begun
      <4> QED BY <1>0, <1>3, <3>1, <4>1
    <3>2. CASE <<q, d>> # <<r, pass.day>>
      BY <1>0, <1>3, <3>2 DEF OnceADay
    <3> QED BY <3>1, <3>2
  <2> QED BY <2>1 DEF OnceADay
<1>8. Begun'
  <2>1. \A q \in pass'.todo : q \in Routine /\ q # r /\ q \in pass.todo
    BY <1>1
  <2>2. \A q \in pass'.todo : acted'[q][pass'.day] = 0 \/ <<q, pass'.day>> \in cut'
    BY <1>0, <1>1, <1>2, <1>3, <2>1 DEF Begun
  <2>3. \A q \in Routine : pass'.acting = q => acted'[q][pass'.day] > 0
    BY <1>1, <1>4
  <2>4. \A q \in Routine : q \in pass'.todo \/ pass'.acting = q => def'[q] # Unborn
    BY <1>0, <1>1 DEF Begun
  <2> QED BY <2>2, <2>3, <2>4 DEF Begun
<1>9. ASSUME NEW q \in Routine PROVE Accounted(q)'
  <2>0. day \in Day
    BY DEF Shaped
  <2>1. CASE q = r /\ pass.day = day
    BY <1>0, <1>1, <2>1 DEF Accounted
  <2>2. CASE ~(q = r /\ pass.day = day)
    <3>1. acted'[q][day] = acted[q][day]
      BY <1>3, <2>0, <2>2
    <3>2. pass.acting # q
      BY <1>1, RoutinesAssumption
    <3> QED BY <1>0, <3>1, <3>2 DEF Accounted
  <2> QED BY <2>1, <2>2
<1>10. ASSUME NEW q \in Routine PROVE Reasons(q)'
  <2>0. day \in Day
    BY DEF Shaped
  <2>1. CASE q = r /\ pass.day = day
    BY <1>0, <1>4, <2>1 DEF Reasons
  <2>2. CASE ~(q = r /\ pass.day = day)
    <3>1. acted'[q][day] = acted[q][day]
      BY <1>3, <2>0, <2>2
    <3>2. q \in pass.todo /\ pass.day = day => q \in pass'.todo /\ pass'.day = day
      BY <1>1, <2>2
    <3> QED BY <1>0, <3>1, <3>2 DEF Reasons
  <2> QED BY <2>1, <2>2
<1> QED BY <1>5, <1>6, <1>7, <1>8, <1>9, <1>10

\* The marks of one run, on whatever day it ends.
LEMMA MarkedRow ==
    ASSUME IInv, NEW r \in Routine, NEW for \in 0 .. MaxDay,
           for = day => acted[r][day] > 0,
           Mark(r, for) \/ MarkFails(r, for), UNCHANGED <<day, acted>>
    PROVE  /\ lastFired' \in [Routine -> 0 .. MaxDay]
           /\ cut \subseteq cut' /\ borrowed \subseteq borrowed'
           /\ \A q \in Routine : lastFired'[q] \in {lastFired[q], day}
           /\ \A q \in Routine : lastFired[q] = day => lastFired'[q] = day
           /\ \A q \in Routine :
                 lastFired'[q] = day => acted[q][day] > 0 \/ <<q, day>> \in borrowed'
           /\ for # 0 => <<r, for>> \in cut' \/ lastFired'[r] = day \/ ~Exists(r)
<1>0. day \in 0 .. MaxDay /\ lastFired \in [Routine -> 0 .. MaxDay]
  BY DaysCount DEF IInv, Shaped
<1>1. \A q \in Routine : lastFired[q] = day => acted[q][day] > 0 \/ <<q, day>> \in borrowed
  BY DEF IInv, Reasons
<1>2. CASE Mark(r, for)
  BY <1>0, <1>1, <1>2 DEF Mark
<1>3. CASE MarkFails(r, for)
  BY <1>0, <1>1, <1>3 DEF MarkFails
<1> QED BY <1>2, <1>3

LEMMA PassMarksKeeps == ASSUME IInv, NEW r \in Routine, PassMarks(r) PROVE IInv'
<1> USE DEF IInv
<1>0. UNCHANGED <<day, late, def, firedDay, acted>> /\ pass.acting = r
  BY DEF PassMarks, clock, engine
<1>1. /\ pass.day \in 0 .. MaxDay
      /\ pass.day = day => acted[r][day] > 0
      /\ Mark(r, pass.day) \/ MarkFails(r, pass.day)
  BY <1>0 DEF PassMarks, Begun, Shaped
<1>2. pass.day \in Day
  BY <1>0, NoPassIsNobody, RoutinesAssumption DEF NotAhead
<1>3. /\ lastFired' \in [Routine -> 0 .. MaxDay]
      /\ cut \subseteq cut' /\ borrowed \subseteq borrowed'
      /\ \A q \in Routine : lastFired'[q] \in {lastFired[q], day}
      /\ \A q \in Routine : lastFired[q] = day => lastFired'[q] = day
      /\ \A q \in Routine :
            lastFired'[q] = day => acted[q][day] > 0 \/ <<q, day>> \in borrowed'
      /\ pass.day # 0 => <<r, pass.day>> \in cut' \/ lastFired'[r] = day \/ ~Exists(r)
  BY <1>0, <1>1, MarkedRow
<1>4. /\ pass' \in [todo : SUBSET Routine, acting : Routine \cup {Nobody}, day : 0 .. MaxDay]
      /\ pass'.acting = Nobody /\ pass'.todo = pass.todo
      /\ pass' = NoPass \/ pass'.day = pass.day
      /\ pass.todo # {} => pass'.day = pass.day
  <2>1. pass \in [todo : SUBSET Routine, acting : Routine \cup {Nobody}, day : 0 .. MaxDay]
    BY DEF Shaped
  <2>2. CASE pass.todo = {}
    <3>1. pass' = NoPass
      BY <2>2 DEF PassMarks
    <3>2. 0 \in 0 .. MaxDay
      BY DaysCount
    <3>3. NoPass \in [todo : SUBSET Routine, acting : Routine \cup {Nobody}, day : 0 .. MaxDay]
      BY <3>2 DEF NoPass
    <3> QED BY <2>2, <3>1, <3>3, NoPassIsNobody
  <2>3. CASE pass.todo # {}
    <3>1. pass' = [pass EXCEPT !.acting = Nobody]
      BY <2>3 DEF PassMarks
    <3> QED BY <2>1, <2>3, <3>1
  <2> QED BY <2>2, <2>3
<1>5. Shaped'
  BY <1>0, <1>3, <1>4 DEF Shaped
<1>6. NotAhead'
  <2>1. day \in Day /\ \A q \in Routine : lastFired[q] \in 0 .. MaxDay
    BY DEF Shaped
  <2>2. \A q \in Routine : lastFired'[q] <= day
    BY <1>3, <2>1 DEF NotAhead, Day
  <2>3. pass'.day <= day /\ (pass' # NoPass => pass'.day \in Day)
    BY <1>2, <1>4, <2>1, NoPassIsNobody DEF NotAhead, Day
  <2> QED BY <1>0, <2>2, <2>3 DEF NotAhead
<1>7. OnceADay'
  BY <1>0, <1>3 DEF OnceADay
<1>8. Begun'
  <2>1. \A q \in pass'.todo : acted[q][pass.day] = 0 \/ <<q, pass.day>> \in cut'
    BY <1>3, <1>4 DEF Begun
  <2>2. pass'.todo # {} => pass'.day = pass.day
    BY <1>4
  <2> QED BY <1>0, <1>4, <2>1, <2>2, RoutinesAssumption DEF Begun
<1>9. ASSUME NEW q \in Routine PROVE Accounted(q)'
  <2>1. pass.day # 0
    BY <1>2 DEF Day
  <2>2. CASE q = r /\ pass.day = day
    <3>1. ~Exists(r) => def[r] = Gone
      BY <1>0 DEF Exists, Shaped, Begun
    <3> QED BY <1>0, <1>3, <2>1, <2>2, <3>1 DEF Accounted
  <2>3. CASE ~(q = r /\ pass.day = day)
    BY <1>0, <1>3, <2>3 DEF Accounted
  <2> QED BY <2>2, <2>3
<1>10. ASSUME NEW q \in Routine PROVE Reasons(q)'
  BY <1>0, <1>3, <1>4 DEF Reasons
<1> QED BY <1>5, <1>6, <1>7, <1>8, <1>9, <1>10
LEMMA IdleKeeps ==
    IInv /\ UNCHANGED <<day, late, def, lastFired, firedDay, pass, acted, cut, borrowed>> => IInv'
BY DEF IInv, Shaped, NotAhead, Begun, OnceADay, Accounted, Reasons

LEMMA EdgeMarksKeeps == ASSUME IInv, NEW r \in Routine, EdgeMarks(r) PROVE IInv'
<1> USE DEF IInv
<1>0. UNCHANGED <<day, late, def, firedDay, acted, pass>>
  BY DEF EdgeMarks, clock, engine
<1>1. Mark(r, 0) \/ MarkFails(r, 0)
  BY DEF EdgeMarks
<1>2. 0 \in 0 .. MaxDay /\ day # 0
  BY DaysCount DEF Shaped, Day
<1>3. /\ lastFired' \in [Routine -> 0 .. MaxDay]
      /\ cut \subseteq cut' /\ borrowed \subseteq borrowed'
      /\ \A q \in Routine : lastFired'[q] \in {lastFired[q], day}
      /\ \A q \in Routine : lastFired[q] = day => lastFired'[q] = day
      /\ \A q \in Routine :
            lastFired'[q] = day => acted[q][day] > 0 \/ <<q, day>> \in borrowed'
  BY <1>0, <1>1, <1>2, MarkedRow
<1>4. Shaped'
  BY <1>0, <1>3 DEF Shaped
<1>5. NotAhead'
  <2>1. day <= day
    BY DEF Shaped, Day
  <2>2. \A q \in Routine : lastFired'[q] <= day
    BY <1>3, <2>1 DEF NotAhead
  <2> QED BY <1>0, <2>2 DEF NotAhead
<1>6. Begun'
  BY <1>0, <1>3 DEF Begun
<1>7. OnceADay'
  BY <1>0, <1>3 DEF OnceADay
<1>8. \A q \in Routine : Accounted(q)'
  BY <1>0, <1>3 DEF Accounted
<1>9. \A q \in Routine : Reasons(q)'
  BY <1>0, <1>3 DEF Reasons
<1> QED BY <1>4, <1>5, <1>6, <1>7, <1>8, <1>9

LEMMA PassKeeps == IInv /\ Pass => IInv'
<1> SUFFICES ASSUME IInv, Pass PROVE IInv'
  OBVIOUS
<1> USE DEF IInv
<1>0. UNCHANGED <<def, lastFired, firedDay, pass, acted, cut, borrowed>>
  BY DEF Pass, row, engine, history
<1>1. CASE UNCHANGED day
  <2>1. late' \in BOOLEAN
    BY DEF Pass, Shaped
  <2> QED BY <1>0, <1>1, <2>1 DEF Shaped, NotAhead, Begun, OnceADay, Accounted, Reasons
<1>2. CASE ~UNCHANGED day
  <2>1. day < MaxDay /\ day' = day + 1 /\ late' = FALSE
    BY <1>2 DEF Pass
  <2>2. day' \in Day /\ day' > day /\ day \in Day
    BY <2>1, DaysCount DEF Shaped, Day
  <2>3. \A d \in 0 .. MaxDay : d <= day => d <= day' /\ d # day'
    BY <2>2, DaysCount DEF Day
  <2>4. \A r \in Routine : acted[r][day'] = 0
    BY <2>2 DEF NotAhead
  <2>5. Shaped'
    BY <1>0, <2>1, <2>2 DEF Shaped
  <2>6. NotAhead'
    <3>1. \A d \in Day : d > day' => d > day
      BY <2>2, DaysCount DEF Day
    <3>2. pass.day \in 0 .. MaxDay /\ \A r \in Routine : firedDay[r] \in 0 .. MaxDay /\ lastFired[r] \in 0 .. MaxDay
      BY DEF Shaped
    <3> QED BY <1>0, <2>3, <3>1, <3>2 DEF NotAhead
  <2>7. Begun' /\ OnceADay'
    BY <1>0 DEF Begun, OnceADay
  <2>8. \A r \in Routine : Accounted(r)'
    BY <1>0, <2>4 DEF Accounted
  <2>9. \A r \in Routine : Reasons(r)'
    <3>1. \A r \in Routine : firedDay[r] # day' /\ lastFired[r] # day'
      BY <2>3 DEF NotAhead, Shaped
    <3> QED BY <1>0, <3>1 DEF Reasons
  <2> QED BY <2>5, <2>6, <2>7, <2>8, <2>9
<1> QED BY <1>1, <1>2

LEMMA RestartKeeps == IInv /\ Restart => IInv'
<1> SUFFICES ASSUME IInv, Restart PROVE IInv'
  OBVIOUS
<1> USE DEF IInv
<1>0. UNCHANGED <<day, late, def, lastFired, acted, borrowed>>
  BY DEF Restart, clock, row
<1>1. /\ pass' = NoPass
      /\ firedDay' = [r \in Routine |-> 0]
      /\ cut' = IF pass.acting = Nobody THEN cut ELSE cut \cup {<<pass.acting, pass.day>>}
  BY DEF Restart
<1>2. NoPass \in [todo : SUBSET Routine, acting : Routine \cup {Nobody}, day : 0 .. MaxDay]
  BY DaysCount DEF NoPass
<1>3. day \in Day /\ day # 0 /\ 0 <= day /\ 0 \in 0 .. MaxDay
  BY DaysCount DEF Shaped, Day
<1>4. Shaped'
  BY <1>0, <1>1, <1>2, <1>3 DEF Shaped
<1>5. NotAhead'
  BY <1>0, <1>1, <1>3, NoPassIsNobody DEF NotAhead
<1>6. cut \subseteq cut'
  BY <1>1
<1>7. OnceADay'
  BY <1>0, <1>6 DEF OnceADay
<1>8. Begun'
  BY <1>1, NoPassIsNobody, RoutinesAssumption DEF Begun
<1>9. ASSUME NEW r \in Routine PROVE Accounted(r)'
  <2>1. pass.acting = r => <<r, pass.day>> \in cut'
    BY <1>1, RoutinesAssumption
  <2> QED BY <1>0, <1>6, <2>1 DEF Accounted
<1>10. ASSUME NEW r \in Routine PROVE Reasons(r)'
  BY <1>0, <1>1, <1>3 DEF Reasons
<1> QED BY <1>4, <1>5, <1>7, <1>8, <1>9, <1>10

LEMMA StepKeeps == IInv /\ [Next]_vars => IInv'
<1> SUFFICES ASSUME IInv, [Next]_vars PROVE IInv'
  OBVIOUS
<1>1. CASE UserEdits
  <2>1. PICK r \in Routine :
            \/ \E s \in Shape : Update(r, s) \/ \E on \in BOOLEAN : Add(r, s, on)
            \/ \E on \in BOOLEAN : SetEnabled(r, on)
            \/ Delete(r)
    BY <1>1 DEF UserEdits
  <2>2. UNCHANGED <<clock, engine, pass, history>>
    BY <1>1 DEF UserEdits
  <2> QED BY <2>1, <2>2, EditKeeps
<1>2. CASE Tick
  BY <1>2, TickKeeps
<1>3. CASE Frames
  BY <1>3, IdleKeeps DEF Frames, Frame, clock, row
<1>4. CASE Runs
  <2>1. PICK r \in Routine : PassActs(r) \/ PassMarks(r) \/ EdgeActs(r) \/ EdgeMarks(r)
    BY <1>4 DEF Runs
  <2>2. CASE EdgeActs(r)
    BY <2>2, IdleKeeps DEF EdgeActs, clock, row, engine, history
  <2> QED BY <2>1, <2>2, PassActsKeeps, PassMarksKeeps, EdgeMarksKeeps
<1>5. CASE Pass
  BY <1>5, PassKeeps
<1>6. CASE Switch
  BY <1>6, IdleKeeps DEF Switch, clock, row, engine, history
<1>7. CASE Restart
  BY <1>7, RestartKeeps
<1>8. CASE UNCHANGED vars
  BY <1>8, IdleKeeps DEF vars, clock, row, engine, history
<1> QED BY <1>1, <1>2, <1>3, <1>4, <1>5, <1>6, <1>7, <1>8 DEF Next

LEMMA Accounting == Spec => []IInv
<1>1. Init => IInv
  BY InitIInv
<1>2. IInv /\ [Next]_vars => IInv'
  BY StepKeeps
<1> QED BY <1>1, <1>2, PTL DEF Spec

(* For any number of routines, days, edits, restarts and failed writes, a   *)
(* time trigger acts a second time on a day only if the mark of the first   *)
(* run was lost (_once, mark_fired).                                        *)
THEOREM ActsOnceADay == Spec => []OnceADay
<1>1. IInv => OnceADay
  BY DEF IInv
<1> QED BY <1>1, Accounting, PTL

(* And it is left out of a day only when a run that was not that day's took *)
(* the day's mark.                                                          *)
THEOREM SkipsNoDay == Spec => []NoDaySkipped
<1>1. IInv => NoDaySkipped
  BY DEF IInv, NoDaySkipped, Reasons, Once
<1> QED BY <1>1, Accounting, PTL

-----------------------------------------------------------------------------
\* A routine that answered the stillness of a room, and saw no motion there
\* since, is latched on that room: there is one latch, so one such room.
Answered == \A r \in Routine : episode[r] \subseteq Room \cap {latched[r]}

LEMMA FrameKeepsAnswered ==
    ASSUME Answered, NEW m \in Room, NEW o, NEW e, Frame(m, o, e)
    PROVE  Answered'
<1> DEFINE still == IF warm /\ e = "long" THEN StillIn(m) ELSE {}
           over == IF warm /\ e = "zero" THEN Rearm(m) ELSE {}
<1>1. /\ latched' = [r \in Routine |-> IF r \in over THEN Nobody
                                       ELSE IF r \in still THEN m ELSE latched[r]]
      /\ episode' = [r \in Routine |-> IF r \in still THEN episode[r] \cup {m}
                                       ELSE IF e = "zero" THEN episode[r] \ {m}
                                       ELSE episode[r]]
  BY DEF Frame
<1>2. SUFFICES ASSUME NEW r \in Routine, NEW x \in episode'[r] PROVE x \in Room /\ x = latched'[r]
  BY DEF Answered
<1>3. Nobody \notin Room
  BY RoutinesAssumption
<1>4. CASE r \in still
  <2>1. e = "long" /\ latched[r] = Nobody /\ over = {}
    BY <1>4 DEF StillIn
  <2>2. latched'[r] = m /\ episode'[r] = episode[r] \cup {m}
    BY <1>1, <1>4, <2>1
  <2>3. episode[r] = {}
    BY <1>3, <2>1 DEF Answered
  <2> QED BY <1>2, <2>2, <2>3
<1>5. CASE r \notin still
  <2>1. x \in episode[r] /\ (e = "zero" => x # m)
    BY <1>1, <1>2, <1>5
  <2>2. x \in Room /\ latched[r] = x
    BY <2>1 DEF Answered
  <2>3. r \notin over
    BY <2>1, <2>2 DEF Rearm
  <2> QED BY <1>1, <1>5, <2>2, <2>3
<1> QED BY <1>4, <1>5

LEMMA AnsweredInvariant == Spec => []Answered
<1>1. Init => Answered
  BY DEF Init, Answered
<1>2. ASSUME Answered, [Next]_vars PROVE Answered'
  <2>1. CASE UNCHANGED <<latched, episode>>
    BY <1>2, <2>1 DEF Answered
  <2>2. CASE Frames
    BY <1>2, <2>2, FrameKeepsAnswered DEF Frames
  <2>3. CASE Restart
    BY <2>3 DEF Restart, Answered
  <2> QED BY <1>2, <2>1, <2>2, <2>3
          DEF Next, UserEdits, Tick, Runs, PassActs, PassMarks, Mark, MarkFails, EdgeActs,
              EdgeMarks, Pass, Switch, vars, engine, history
<1> QED BY <1>1, <1>2, PTL DEF Spec

(* For any rooms, routines, edits and restarts, a routine is latched on a   *)
(* room only if it had not answered that room's stillness since somebody    *)
(* moved there (on_stillness).                                              *)
THEOREM AnswersStillnessOnce == Spec => StillOnce
<1> DEFINE A == \A r \in Routine, m \in Room :
                   latched'[r] = m /\ latched[r] # m => m \notin episode[r]
<1>1. Answered => A
  BY DEF Answered
<1> HIDE DEF A
<1>2. Answered => [A]_vars
  BY <1>1
<1>3. Spec => [][A]_vars
  BY <1>2, AnsweredInvariant, PTL
<1> QED BY <1>3 DEF A, StillOnce

-----------------------------------------------------------------------------
(* The rest of the types: switches and trackers, then runs and faults.      *)

Tracked ==
    /\ enabled \in [Routine -> BOOLEAN]
    /\ latched \in [Routine -> Room \cup {Nobody}] /\ episode \in [Routine -> SUBSET Room]
    /\ rooms \in [Room -> {"none", "in", "out"}] /\ house \in {"none", "home", "away"}
    /\ vacant \in 0 .. Grace /\ warm \in BOOLEAN /\ sensing \in BOOLEAN

Counted ==
    /\ edge \in [Routine -> [queued : 0 .. MaxEdges, acting : 0 .. MaxEdges]]
    /\ cut \in SUBSET (Routine \X Day) /\ borrowed \in SUBSET (Routine \X Day)
    /\ faults \in 0 .. MaxFaults

LEMMA Bounds ==
    /\ Grace \in Nat /\ MaxEdges \in Nat /\ MaxFaults \in Nat
    /\ 0 \in 0 .. Grace /\ 0 \in 0 .. MaxEdges /\ 0 \in 0 .. MaxFaults
<1>1. Grace \in Nat /\ MaxEdges \in Nat /\ MaxFaults \in Nat
  BY RoutinesAssumption
<1> QED BY <1>1

LEMMA TrackedStep ==
    ASSUME Tracked, [Next]_vars
    PROVE  Tracked'
<1>1. CASE UserEdits
  <2>1. enabled' \in [Routine -> BOOLEAN]
    BY <1>1 DEF UserEdits, Update, Add, SetEnabled, Delete, Tracked
  <2> QED BY <1>1, <2>1 DEF UserEdits, engine, trackers, history, Tracked
<1>2. ASSUME NEW m \in Room, NEW o \in {"in", "out"}, NEW e \in {"zero", "short", "long"},
             Frame(m, o, e)
      PROVE  Tracked'
  <2>1. /\ rooms' = [rooms EXCEPT ![m] = o] /\ HouseSees
        /\ UNCHANGED <<enabled, warm, sensing>>
    BY <1>2 DEF Frame, row
  <2>2. /\ latched' \in [Routine -> Room \cup {Nobody}]
        /\ episode' \in [Routine -> SUBSET Room]
    BY <1>2 DEF Frame, Tracked
  <2>3. rooms' \in [Room -> {"none", "in", "out"}] /\ house' \in {"none", "home", "away"}
    BY <2>1 DEF HouseSees, Tracked
  <2>4. vacant' \in 0 .. Grace
    <3>1. vacant' = 0 \/ vacant' = (IF vacant < Grace THEN vacant + 1 ELSE vacant)
      BY <2>1 DEF HouseSees, Count
    <3>2. vacant \in 0 .. Grace
      BY DEF Tracked
    <3> QED BY <3>1, <3>2, Bounds
  <2> QED BY <2>1, <2>2, <2>3, <2>4 DEF Tracked
<1>3. CASE Switch
  BY <1>3 DEF Switch, row, engine, history, Tracked
<1>4. CASE Restart
  BY <1>4, Bounds DEF Restart, row, Tracked
<1>5. CASE UNCHANGED <<enabled, latched, episode, rooms, house, vacant, warm, sensing>>
  BY <1>5 DEF Tracked
<1> QED BY <1>1, <1>2, <1>3, <1>4, <1>5
        DEF Next, Frames, Tick, Runs, PassActs, PassMarks, EdgeActs, EdgeMarks, Pass,
            vars, row, engine, trackers, history

LEMMA CountedStep ==
    ASSUME IInv, Counted, [Next]_vars
    PROVE  Counted'
<1> USE DEF Counted
<1>0. MaxEdges \in Nat /\ MaxFaults \in Nat /\ day \in Day /\ pass.day \in 0 .. MaxDay
  BY Bounds DEF IInv, Shaped
<1>1. ASSUME NEW r \in Routine, NEW d \in 0 .. MaxDay, Mark(r, d) \/ MarkFails(r, d)
      PROVE  /\ cut' \in SUBSET (Routine \X Day) /\ borrowed' \in SUBSET (Routine \X Day)
             /\ faults' \in 0 .. MaxFaults
  <2>1. d # 0 => d \in Day
    BY DaysCount DEF Day
  <2> QED BY <1>0, <1>1, <2>1 DEF Mark, MarkFails, Fault
<1>2. ASSUME NEW m \in Room, NEW o, NEW e, Frame(m, o, e)
      PROVE  Counted'
  <2>1. PICK fired \in SUBSET Routine :
            /\ \A r \in fired : edge[r].queued < MaxEdges
            /\ edge' = [r \in Routine |-> IF r \in fired
                                          THEN [edge[r] EXCEPT !.queued = @ + 1] ELSE edge[r]]
    <3> DEFINE still == IF warm /\ e = "long" THEN StillIn(m) ELSE {}
               fired == still \cup (IF warm THEN Edged(m) ELSE {})
    <3>1. fired \in SUBSET Routine
      BY DEF StillIn, Edged
    <3>2. /\ \A r \in fired : edge[r].queued < MaxEdges
          /\ edge' = [r \in Routine |-> IF r \in fired
                                        THEN [edge[r] EXCEPT !.queued = @ + 1] ELSE edge[r]]
      BY <1>2 DEF Frame
    <3> HIDE DEF fired
    <3> QED BY <3>1, <3>2
  <2>2. \A r \in Routine : edge'[r] \in [queued : 0 .. MaxEdges, acting : 0 .. MaxEdges]
    BY <1>0, <2>1
  <2>3. UNCHANGED <<cut, borrowed, faults>>
    BY <1>2 DEF Frame
  <2> QED BY <2>1, <2>2, <2>3
<1>3. ASSUME NEW r \in Routine, PassMarks(r)
      PROVE  Counted'
  <2>1. Mark(r, pass.day) \/ MarkFails(r, pass.day)
    BY <1>3 DEF PassMarks
  <2>2. UNCHANGED edge
    BY <1>3 DEF PassMarks
  <2> QED BY <1>0, <1>1, <2>1, <2>2
<1>4. ASSUME NEW r \in Routine, EdgeActs(r)
      PROVE  Counted'
  <2>1. edge' \in [Routine -> [queued : 0 .. MaxEdges, acting : 0 .. MaxEdges]]
    BY <1>0, <1>4 DEF EdgeActs
  <2> QED BY <1>4, <2>1 DEF EdgeActs, history
<1>5. ASSUME NEW r \in Routine, EdgeMarks(r)
      PROVE  Counted'
  <2>1. edge' \in [Routine -> [queued : 0 .. MaxEdges, acting : 0 .. MaxEdges]]
    BY <1>0, <1>5 DEF EdgeMarks
  <2>2. Mark(r, 0) \/ MarkFails(r, 0)
    BY <1>5 DEF EdgeMarks
  <2> QED BY <1>1, <2>1, <2>2, DaysCount
<1>6. CASE Restart
  <2>1. pass.acting # Nobody => <<pass.acting, pass.day>> \in Routine \X Day
    BY NoPassIsNobody DEF IInv, Shaped, NotAhead
  <2>2. edge' \in [Routine -> [queued : 0 .. MaxEdges, acting : 0 .. MaxEdges]]
    BY <1>0, <1>6 DEF Restart, NoRun
  <2>3. faults' \in 0 .. MaxFaults
    BY <1>0, <1>6 DEF Restart, Fault
  <2> QED BY <1>6, <2>1, <2>2, <2>3 DEF Restart
<1>7. CASE UNCHANGED <<edge, cut, borrowed, faults>>
  BY <1>7
<1> QED BY <1>2, <1>3, <1>4, <1>5, <1>6, <1>7
        DEF Next, UserEdits, Tick, Frames, Runs, PassActs, Pass, Switch, vars, history

(* For any house, routines, days and bounds: rows, trackers and runs stay   *)
(* well formed, the vacancy streak stops at its grace, and only days that   *)
(* came are marked, cut off or borrowed.                                    *)
THEOREM RoutinesTypeCorrect == Spec => []TypeOK
<1>1. ASSUME Init PROVE Tracked /\ Counted
  <2>1. Tracked
    BY <1>1, Bounds DEF Init, Tracked
  <2>2. NoRun \in [queued : 0 .. MaxEdges, acting : 0 .. MaxEdges]
    BY Bounds DEF NoRun
  <2>3. Counted
    BY <1>1, <2>2, Bounds DEF Init, Counted
  <2> QED BY <2>1, <2>3
<1>2. IInv /\ Tracked /\ Counted /\ [Next]_vars => (Tracked /\ Counted)'
  BY TrackedStep, CountedStep
<1>3. IInv /\ Tracked /\ Counted => TypeOK
  BY DEF IInv, Shaped, Tracked, Counted, TypeOK
<1> QED BY <1>1, <1>2, <1>3, Accounting, PTL DEF Spec

-----------------------------------------------------------------------------
(* Rules.  A fade is not a departure because three clocks keep an order: as *)
(* long as the sensor neither came back nor went unread, silence counts     *)
(* with quiet, and coverage is never older than an interval.                *)

Faded(s) == \E i \in DOMAIN s : s[i] = "faded"

Clocks ==
    /\ occ = "faded" => quiet = Fade
    /\ ~excuse =>
          /\ silent = (IF quiet <= Heartbeat THEN quiet ELSE Heartbeat + 1)
          /\ cov # "blind" => age = Interval \/ quiet <= Heartbeat + age
          /\ Faded(queue) => quiet = Fade

FInv == RulesTypeOK /\ Clocks

LEMMA ClockBounds ==
    /\ Size \in Nat /\ Size > 0 /\ Interval \in Nat /\ Interval > 0
    /\ Heartbeat \in Nat /\ Fade \in Nat /\ MaxFailures \in Nat
    /\ Heartbeat + Interval <= Fade
BY RulesAssumption

\* Publishing puts one frame at the end and may lose the oldest.
LEMMA PublishedFrames ==
    ASSUME queue \in Seq(Seen), Len(queue) <= Size, NEW f \in Seen, Publish(f)
    PROVE  /\ queue' \in Seq(Seen) /\ Len(queue') <= Size
           /\ Faded(queue') => Faded(queue) \/ f = "faded"
<1> DEFINE kept == IF Len(queue) = Size THEN Tail(queue) ELSE queue
<1>1. /\ kept \in Seq(Seen) /\ Len(kept) \in Nat /\ Len(kept) + 1 <= Size
      /\ Faded(kept) => Faded(queue)
  <2>1. CASE Len(queue) = Size
    <3>1. queue # <<>>
        BY <2>1, ClockBounds, EmptySeq
    <3>2. /\ Tail(queue) \in Seq(Seen) /\ Len(Tail(queue)) = Len(queue) - 1
          /\ \A i \in 1 .. Len(Tail(queue)) : Tail(queue)[i] = queue[i + 1]
        BY <3>1, HeadTailProperties
    <3>3. /\ DOMAIN Tail(queue) = 1 .. Len(Tail(queue)) /\ DOMAIN queue = 1 .. Len(queue)
          /\ Len(queue) \in Nat /\ Len(Tail(queue)) \in Nat
        BY <3>2, LenProperties
    <3>4. Faded(Tail(queue)) => Faded(queue)
        BY <3>2, <3>3 DEF Faded
    <3> QED BY <2>1, <3>2, <3>3, <3>4
  <2>2. CASE Len(queue) # Size
    <3>1. Len(queue) \in Nat
        BY LenProperties
    <3> QED BY <2>2, <3>1, ClockBounds
  <2> QED BY <2>1, <2>2
<1>2. queue' = Append(kept, f)
    BY DEF Publish
<1> HIDE DEF kept
<1>3. /\ queue' \in Seq(Seen) /\ Len(queue') = Len(kept) + 1
      /\ \A i \in 1 .. Len(kept) : queue'[i] = kept[i]
      /\ queue'[Len(kept) + 1] = f
    BY <1>1, <1>2, AppendProperties
<1>4. DOMAIN kept = 1 .. Len(kept) /\ DOMAIN queue' = 1 .. Len(kept) + 1
    BY <1>1, <1>3, LenProperties
<1>5. Faded(queue') => Faded(kept) \/ f = "faded"
    BY <1>1, <1>3, <1>4 DEF Faded
<1> QED BY <1>1, <1>3, <1>5

\* Taking a frame leaves the younger ones.
LEMMA TakenFrames ==
    ASSUME queue \in Seq(Seen), Len(queue) <= Size, queue # <<>>
    PROVE  /\ Tail(queue) \in Seq(Seen) /\ Len(Tail(queue)) <= Size
           /\ Head(queue) \in Seen
           /\ Faded(Tail(queue)) => Faded(queue)
           /\ Head(queue) = "faded" => Faded(queue)
<1>1. /\ Tail(queue) \in Seq(Seen) /\ Len(Tail(queue)) = Len(queue) - 1
      /\ Head(queue) \in Seen /\ Head(queue) = queue[1]
      /\ \A i \in 1 .. Len(Tail(queue)) : Tail(queue)[i] = queue[i + 1]
    BY HeadTailProperties
<1>2. /\ DOMAIN Tail(queue) = 1 .. Len(Tail(queue)) /\ DOMAIN queue = 1 .. Len(queue)
      /\ Len(queue) \in Nat /\ Len(Tail(queue)) \in Nat /\ Len(queue) > 0
    BY <1>1, LenProperties, EmptySeq
<1>3. Faded(Tail(queue)) => Faded(queue)
    BY <1>1, <1>2 DEF Faded
<1>4. Head(queue) = "faded" => Faded(queue)
    BY <1>1, <1>2 DEF Faded
<1> QED BY <1>1, <1>2, <1>3, <1>4, ClockBounds

LEMMA FInitial == RulesInit => FInv
<1> SUFFICES ASSUME RulesInit PROVE FInv
    OBVIOUS
<1>1. queue \in Seq(Seen) /\ Len(queue) = 0 /\ ~Faded(queue)
    BY EmptySeq DEF RulesInit, Faded
<1>2. /\ silent = 0 /\ quiet = 0 /\ age = Interval /\ failures = 0 /\ occ = "none"
      /\ cov = "unknown" /\ excuse = FALSE
    BY DEF RulesInit
<1>3. /\ silent \in 0 .. Heartbeat + 1 /\ quiet \in 0 .. Fade /\ age \in 0 .. Interval
      /\ failures \in 0 .. MaxFailures /\ Len(queue) <= Size
    BY <1>1, <1>2, ClockBounds
<1>4. RulesTypeOK
    BY <1>1, <1>2, <1>3 DEF RulesInit, RulesTypeOK, Edge, Coverage, Availability
<1>5. Clocks
    BY <1>1, <1>2, ClockBounds DEF Clocks
<1> QED BY <1>4, <1>5 DEF FInv

LEMMA ReportStep ==
    ASSUME FInv, NEW v \in {"in", "out"}, Report(v)
    PROVE  FInv'
<1>1. v \in Seen /\ Publish(v) /\ queue \in Seq(Seen) /\ Len(queue) <= Size
    BY DEF Report, Seen, FInv, RulesTypeOK
<1>2. queue' \in Seq(Seen) /\ Len(queue') <= Size /\ (Faded(queue') => Faded(queue))
    BY <1>1, PublishedFrames
<1>3. excuse' = Faded(queue)
    BY DEF Report, Faded
<1>4. RulesTypeOK'
    BY <1>1, <1>2, ClockBounds DEF FInv, RulesTypeOK, Report, rulesEngine, broker
<1>5. quiet' = 0 /\ silent' = 0 /\ occ' # "faded" /\ age \in 0 .. Interval /\ age' = age
    BY DEF Report, rulesEngine, FInv, RulesTypeOK
<1>6. ~excuse' => ~Faded(queue')
    BY <1>2, <1>3
<1>7. /\ silent' = (IF quiet' <= Heartbeat THEN quiet' ELSE Heartbeat + 1)
      /\ age' = Interval \/ quiet' <= Heartbeat + age'
    BY <1>5, ClockBounds
<1>8. Clocks'
    BY <1>5, <1>6, <1>7 DEF Clocks
<1> QED BY <1>4, <1>8 DEF FInv

LEMMA TickStep ==
    ASSUME FInv, RefuseTick
    PROVE  FInv'
<1> USE DEF FInv
<1>1. /\ silent' = (IF silent < Heartbeat + 1 THEN silent + 1 ELSE silent)
      /\ quiet' = (IF quiet < Fade THEN quiet + 1 ELSE quiet)
      /\ age' = (IF age < Interval THEN age + 1 ELSE age)
      /\ occ' = IF occ = "in" /\ quiet' = Fade THEN "faded" ELSE occ
      /\ UNCHANGED <<running, cov, seen, last, told, missed, posted, link, topic, avail, failures, excuse>>
    BY DEF RefuseTick, Later, broker
<1>2. /\ silent \in 0 .. Heartbeat + 1 /\ quiet \in 0 .. Fade /\ age \in 0 .. Interval
      /\ queue \in Seq(Seen) /\ Len(queue) <= Size /\ occ \in Seen \cup {"none"}
    BY DEF RulesTypeOK
<1>3. silent' \in 0 .. Heartbeat + 1 /\ quiet' \in 0 .. Fade /\ age' \in 0 .. Interval
    BY <1>1, <1>2, ClockBounds
<1>4. occ' \in Seen \cup {"none"} /\ (occ # "none" => occ' \in Seen)
    BY <1>1, <1>2 DEF Seen
<1>5. /\ queue' \in Seq(Seen) /\ Len(queue') <= Size
      /\ Faded(queue') => Faded(queue) \/ occ' = "faded"
  <2>1. CASE occ = "none"
      BY <1>2, <2>1 DEF RefuseTick
  <2>2. CASE occ # "none"
    <3>1. Publish(occ') /\ occ' \in Seen
        BY <1>4, <2>2 DEF RefuseTick
    <3> QED BY <1>2, <3>1, PublishedFrames
  <2> QED BY <2>1, <2>2
<1>6. RulesTypeOK'
    BY <1>1, <1>3, <1>4, <1>5 DEF RulesTypeOK
<1>7. occ' = "faded" => quiet' = Fade
    BY <1>1, <1>2, ClockBounds DEF Clocks
<1>8. ASSUME ~excuse
      PROVE  /\ silent' = (IF quiet' <= Heartbeat THEN quiet' ELSE Heartbeat + 1)
             /\ cov # "blind" => age' = Interval \/ quiet' <= Heartbeat + age'
             /\ Faded(queue') => quiet' = Fade
  <2>1. silent' = (IF quiet' <= Heartbeat THEN quiet' ELSE Heartbeat + 1)
      BY <1>1, <1>2, <1>8, ClockBounds DEF Clocks
  <2>2. cov # "blind" => age' = Interval \/ quiet' <= Heartbeat + age'
      BY <1>1, <1>2, <1>8, ClockBounds DEF Clocks
  <2>3. Faded(queue') => quiet' = Fade
      BY <1>1, <1>2, <1>5, <1>7, <1>8, ClockBounds DEF Clocks
  <2> QED BY <2>1, <2>2, <2>3
<1>9. Clocks'
    BY <1>1, <1>7, <1>8 DEF Clocks
<1> QED BY <1>6, <1>9

\* A pull, or none: coverage is fresh afterwards.
LEMMA PullStep ==
    ASSUME FInv, NEW raises \in BOOLEAN, Pull(raises)
    PROVE  /\ cov' \in Coverage /\ age' \in 0 .. Interval /\ failures' \in 0 .. MaxFailures
           /\ excuse' \in BOOLEAN /\ (excuse => excuse')
           /\ ~excuse' /\ cov' # "blind" => age' = Interval \/ quiet <= Heartbeat + age'
           /\ ~excuse' /\ cov' # "blind" => quiet < Fade
<1> USE DEF FInv
<1>1. /\ silent \in 0 .. Heartbeat + 1 /\ quiet \in 0 .. Fade /\ age \in 0 .. Interval
      /\ failures \in 0 .. MaxFailures /\ excuse \in BOOLEAN /\ cov \in Coverage
    BY DEF RulesTypeOK
<1>2. CASE age < Interval
  <2>1. UNCHANGED <<cov, age, failures, excuse>>
      BY <1>2 DEF Pull
  <2>2. ~excuse /\ cov # "blind" => quiet <= Heartbeat + age
      BY <1>1, <1>2, ClockBounds DEF Clocks
  <2>3. ~excuse /\ cov # "blind" => quiet < Fade
      BY <1>1, <1>2, <2>2, ClockBounds
  <2> QED BY <1>1, <2>1, <2>2, <2>3
<1>3. CASE ~(age < Interval) /\ raises
    BY <1>1, <1>3, ClockBounds DEF Pull
<1>4. CASE ~(age < Interval) /\ ~raises
  <2>1. /\ age' = 0 /\ cov' = (IF Observing THEN "watched" ELSE "blind")
        /\ UNCHANGED <<failures, excuse>>
      BY <1>4 DEF Pull
  <2>2. ~excuse /\ Observing => quiet <= Heartbeat
      BY <1>1, ClockBounds DEF Observing, Clocks
  <2> QED BY <1>1, <2>1, <2>2, ClockBounds DEF Coverage
<1> QED BY <1>2, <1>3, <1>4

\* What is retained stays what a broker can be told.
LEMMA PostStep ==
    ASSUME FInv, cov' \in Coverage, NEW f \in Seen
    PROVE  /\ PostState(f) => topic' \in Seen \cup {"none", "unknown"}
           /\ PostAvailability => posted' \in Availability /\ avail' \in Availability
BY DEF FInv, RulesTypeOK, PostState, PostAvailability, Sent, Available, Availability

LEMMA HandleStep ==
    ASSUME FInv, NEW raises \in BOOLEAN, Handle(raises)
    PROVE  FInv' /\ (Leaves => Head(queue) = "out" \/ excuse')
<1> DEFINE f == Head(queue)
           now == IF f = "in" THEN "occupied" ELSE "vacant"
<1>1. /\ queue # <<>> /\ queue' = Tail(queue) /\ seen' = (f = "in")
      /\ Pull(raises) /\ PostState(f) /\ PostAvailability /\ Flip(now)
      /\ UNCHANGED <<running, silent, occ, quiet, link>>
    BY DEF Handle, room
<1>2. /\ queue' \in Seq(Seen) /\ Len(queue') <= Size /\ f \in Seen
      /\ Faded(queue') => Faded(queue)
      /\ f = "faded" => Faded(queue)
    BY <1>1, TakenFrames DEF FInv, RulesTypeOK
<1>3. /\ cov' \in Coverage /\ age' \in 0 .. Interval /\ failures' \in 0 .. MaxFailures
      /\ excuse' \in BOOLEAN /\ (excuse => excuse')
      /\ ~excuse' /\ cov' # "blind" => age' = Interval \/ quiet <= Heartbeat + age'
      /\ ~excuse' /\ cov' # "blind" => quiet < Fade
    BY <1>1, PullStep
<1>4. topic' \in Seen \cup {"none", "unknown"} /\ posted' \in Availability /\ avail' \in Availability
    BY <1>1, <1>2, <1>3, PostStep
<1> HIDE DEF f
<1>5. last' \in Edge /\ told' \in Edge /\ missed' \in BOOLEAN
    BY <1>1 DEF Flip, Announce, Sent, Edge, FInv, RulesTypeOK
<1>6. RulesTypeOK'
    BY <1>1, <1>2, <1>3, <1>4, <1>5 DEF FInv, RulesTypeOK
<1>7. Clocks'
    BY <1>1, <1>2, <1>3 DEF FInv, RulesTypeOK, Clocks
<1>8. ASSUME Leaves PROVE f = "out" \/ excuse'
  <2>1. Available /\ now = "vacant"
      BY <1>1, <1>8 DEF Leaves, Flip
  <2>2. f # "in" /\ cov' # "blind"
      BY <1>1, <2>1 DEF Available
  <2>3. ASSUME f = "faded", ~excuse' PROVE FALSE
    <3>1. quiet = Fade
        BY <1>2, <1>3, <2>3 DEF FInv, Clocks
    <3> QED BY <1>3, <2>2, <2>3, <3>1, ClockBounds
  <2> QED BY <1>2, <2>2, <2>3 DEF Seen
<1> QED BY <1>6, <1>7, <1>8 DEF FInv, f

LEMMA OtherStep ==
    ASSUME FInv, NEW raises \in BOOLEAN, HandleOther(raises)
    PROVE  FInv'
<1>1. /\ Pull(raises) /\ UNCHANGED seen
      /\ IF raises THEN UNCHANGED <<posted, avail>> ELSE PostAvailability
      /\ UNCHANGED <<running, silent, occ, quiet, queue, last, told, missed, link, topic>>
    BY DEF HandleOther, room
<1>2. /\ cov' \in Coverage /\ age' \in 0 .. Interval /\ failures' \in 0 .. MaxFailures
      /\ excuse' \in BOOLEAN /\ (excuse => excuse')
      /\ ~excuse' /\ cov' # "blind" => age' = Interval \/ quiet <= Heartbeat + age'
    BY <1>1, PullStep
<1>3. posted' \in Availability /\ avail' \in Availability
  <2>1. "in" \in Seen
      BY DEF Seen
  <2> QED BY <1>1, <1>2, <2>1, PostStep DEF FInv, RulesTypeOK
<1>4. RulesTypeOK'
    BY <1>1, <1>2, <1>3 DEF FInv, RulesTypeOK
<1>5. Clocks'
    BY <1>1, <1>2 DEF FInv, RulesTypeOK, Clocks
<1> QED BY <1>4, <1>5 DEF FInv

LEMMA SensorStep ==
    ASSUME FInv, Fail \/ Start \/ Toggle \/ UNCHANGED rulesVars
    PROVE  FInv'
<1> USE DEF FInv, RulesTypeOK, Clocks, room, rulesEngine, broker
<1>1. CASE Fail
    BY <1>1 DEF Fail
<1>2. CASE Start
    BY <1>2, ClockBounds DEF Start
<1>3. CASE Toggle
    BY <1>3 DEF Toggle
<1>4. CASE UNCHANGED rulesVars
    BY <1>4 DEF rulesVars
<1> QED BY <1>1, <1>2, <1>3, <1>4

LEMMA FStep ==
    ASSUME FInv, [RulesNext]_rulesVars
    PROVE  FInv' /\ [Leaves => Head(queue) = "out" \/ excuse']_rulesVars
<1>1. Report("in") \/ Report("out") \/ Fail \/ Start \/ Toggle \/ RefuseTick
         \/ (\E raises \in BOOLEAN : HandleOther(raises)) => ~Leaves
    BY DEF Report, Fail, Start, Toggle, RefuseTick, HandleOther, Leaves, rulesEngine
<1>2. ASSUME NEW raises \in BOOLEAN, Handle(raises)
      PROVE  FInv' /\ (Leaves => Head(queue) = "out" \/ excuse')
    BY <1>2, HandleStep
<1> QED BY <1>1, <1>2, ReportStep, SensorStep, TickStep, OtherStep DEF RulesNext

LEMMA FInvariance == RulesSpec => []FInv
BY FInitial, FStep, PTL DEF RulesSpec

\* The queue never outgrows its bound, and clocks, coverage and what the broker
\* retains keep their ranges.
THEOREM RulesTypeCorrect == RulesSpec => []RulesTypeOK
<1>1. FInv => RulesTypeOK
    BY DEF FInv
<1> QED BY FInvariance, <1>1, PTL

\* A room that only faded is not told as left unless the sensor came back first or
\* coverage could not be read, for every cadence, interval and fade in that order
\* (RulesEngine._available over a coverage that is refreshed before each frame).
THEOREM FadesAreNotTold == RulesSpec => FadingIsNoDeparture
BY FInvariance, FStep, PTL DEF RulesSpec, FadingIsNoDeparture
=============================================================================
