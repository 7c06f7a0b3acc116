---------------------------- MODULE FusionProofs ----------------------------
(***************************************************************************)
(* Theorems about Fusion: for any sensors, weights, reports, windows, skew *)
(* and re-fuse interval, and for time without end.                         *)
(***************************************************************************)
EXTENDS Fusion, TLAPS, WellFoundedInduction

\* The stored readings are no newer than the history says.
Recorded ==
    \A s \in Sensor :
        /\ latest[s].presence => seen <= latest[s].age
        /\ latest[s].count # None => latest[s].presence /\ counted <= latest[s].age

\* A dwell runs only in an occupied room, and no longer than the quiet.
Dwelling ==
    pending # None =>
        /\ occupied
        /\ pending <= quiet \/ quiet = Vacate
        /\ pending <= Vacate - 1 + due
        /\ seen <= Stale - 1 + Interval + pending

\* Without one, the last fuse saw somebody.
Attested == occupied /\ pending = None => seen <= Stale - 1 + due

\* The latch is what is shown, and as old as the newest count or older.
Latched ==
    /\ count = latch.count
    /\ latch.count # None =>
        /\ counted <= Stale + due
        /\ latch.age <= Stale => counted <= latch.age

FInv == TypeOK /\ Recorded /\ Dwelling /\ Attested /\ Latched

-----------------------------------------------------------------------------
(* Readings.                                                                *)

\* What is alive is younger than stale_s.
LEMMA AliveIsYoung ==
    ASSUME NEW a \in Int, Decay(a) > 0
    PROVE  a < Stale
BY FusionAssumption DEF Decay, Age, Most

\* Every sort of evidence is a living reading that saw somebody.
LEMMA EvidenceIsSeen ==
    ASSUME NEW r \in [Sensor -> Reading], Evidence(r)
    PROVE  \E s \in Sensor : r[s].presence /\ r[s].age < Stale
<1>1. \E s \in Sensor : Sees(r, s)
  <2>1. CASE Confident(r)
    BY <2>1 DEF Confident
  <2>2. CASE Told(r)
    BY <2>2 DEF Told, Counts
  <2>3. CASE \E s \in Sensor \ Counting : Sees(r, s)
    BY <2>3
  <2> QED BY <2>1, <2>2, <2>3 DEF Evidence
<1>2. PICK s \in Sensor : Sees(r, s)
    BY <1>1
<1>3. r[s].age \in Int /\ Decay(r[s].age) > 0 /\ r[s].presence
    BY <1>2 DEF Sees, Alive, Reading
<1> QED BY <1>3, AliveIsYoung

\* Of the sensors that count, one is the heaviest.
LEMMA TellerCounts ==
    ASSUME NEW r \in [Sensor -> Reading], Told(r)
    PROVE  Teller(r) \in Sensor /\ Counts(r, Teller(r))
<1> DEFINE T == {n \in 0 .. 10 : \E s \in Sensor : Counts(r, s) /\ Weight[s] = 10 - n}
           R == {p \in Nat \X Nat : p[1] < p[2]}
<1>1. \A s \in Sensor : Weight[s] \in 0 .. 10
    BY FusionAssumption
<1>2. PICK s0 \in Sensor : Counts(r, s0)
    BY DEF Told
<1>3. 10 - Weight[s0] \in T
    BY <1>1, <1>2
<1>4. IsWellFoundedOn(R, Nat)
    BY NatLessThanWellFounded DEF OpToRel
<1>5. T \subseteq Nat /\ T # {}
    BY <1>3
<1>6. PICK n \in T : \A m \in T : ~ (<<m, n>> \in R)
    <2> HIDE DEF T, R
    <2> QED BY <1>4, <1>5, WFMin
<1>7. PICK s \in Sensor : Counts(r, s) /\ Weight[s] = 10 - n
    BY <1>6
<1>8. ASSUME NEW t \in Sensor, Counts(r, t)
      PROVE  Weight[t] <= Weight[s]
    <2>1. 10 - Weight[t] \in T
        BY <1>1, <1>8
    <2>2. <<10 - Weight[t], n>> \notin R
        BY <2>1, <1>6
    <2>3. 10 - Weight[t] \in Nat /\ n \in Nat
        BY <1>1
    <2> QED BY <2>2, <2>3, <1>1, <1>7
<1>9. s \in Counting /\ Counting \subseteq Sensor
    BY <1>7, FusionAssumption DEF Counts
<1> QED BY <1>7, <1>8 DEF Teller

-----------------------------------------------------------------------------
(* One fuse.                                                                *)

\* The dwell keeps what the room claims within what was seen.
LEMMA DebounceKeeps ==
    ASSUME TypeOK, Dwelling, Attested, NEW e \in BOOLEAN, Debounce(e), due' \in {0, due},
           seen' \in Int, seen' <= seen, e => seen' <= Stale - 1
    PROVE  /\ occupied' \in BOOLEAN /\ pending' \in None .. Vacate + Interval - 1
           /\ quiet' \in 0 .. Vacate /\ due' \in 0 .. Interval
           /\ Dwelling' /\ Attested'
           /\ occupied /\ ~occupied' => quiet = Vacate
<1> USE DEF None
<1>1. /\ Stale \in Nat /\ Vacate \in Nat /\ Interval \in Nat
      /\ occupied \in BOOLEAN /\ pending \in Int /\ pending >= -1 /\ due \in 0 .. Interval
      /\ quiet \in 0 .. Vacate /\ seen \in Int /\ Interval >= 1
    BY FusionAssumption DEF TypeOK
<1>2. due' \in 0 .. Interval
    BY <1>1
<1>3. /\ Elapsed \in Nat
      /\ Elapsed <= quiet \/ quiet = Vacate
      /\ occupied => seen <= Stale - 1 + Interval + Elapsed
  <2>1. CASE pending = None
    BY <2>1, <1>1 DEF Elapsed, Attested
  <2>2. CASE pending # None
    BY <2>2, <1>1 DEF Elapsed, Dwelling
  <2> QED BY <2>1, <2>2
<1>4. CASE e
  <2>1. occupied' = TRUE /\ pending' = None /\ quiet' = 0
    BY <1>4 DEF Debounce, Held
  <2>2. seen' <= Stale - 1 + due'
    <3>1. \A x \in Int, d \in 0 .. Interval : x <= Stale - 1 => x <= Stale - 1 + d
        BY <1>1
    <3> QED BY <3>1, <1>2, <1>4
  <2>3. Dwelling' /\ Attested'
    BY <2>1, <2>2, <1>1 DEF Dwelling, Attested
  <2>4. pending' \in None .. Vacate + Interval - 1 /\ quiet' \in 0 .. Vacate
    BY <2>1, <1>1
  <2> QED BY <2>1, <2>3, <2>4, <1>2
<1>5. CASE ~e /\ occupied /\ Elapsed < Vacate
  <2>1. occupied' = TRUE /\ pending' = Elapsed /\ quiet' = quiet
    BY <1>5 DEF Debounce, Held
  <2>2. pending' <= Vacate - 1 + due'
    <3>1. \A d \in 0 .. Interval : Elapsed <= Vacate - 1 + d
        BY <1>1, <1>3, <1>5
    <3> QED BY <3>1, <2>1, <1>2
  <2>3. seen' <= Stale - 1 + Interval + pending'
    <3>1. \A x \in Int : x <= seen => x <= Stale - 1 + Interval + Elapsed
        BY <1>1, <1>3, <1>5
    <3> QED BY <3>1, <2>1
  <2>4. pending' \in None .. Vacate + Interval - 1
    <3>1. Elapsed \in None .. Vacate + Interval - 1
        BY <1>1, <1>3, <1>5
    <3> QED BY <3>1, <2>1
  <2>5. Dwelling' /\ Attested'
    BY <2>1, <2>2, <2>3, <1>3 DEF Dwelling, Attested
  <2> QED BY <2>1, <2>4, <2>5, <1>1, <1>2
<1>6. CASE ~e /\ ~(occupied /\ Elapsed < Vacate)
  <2>1. occupied' = FALSE /\ pending' = None /\ quiet' = quiet
    BY <1>6 DEF Debounce, Held
  <2>2. occupied => quiet = Vacate
    BY <1>1, <1>3, <1>6
  <2>3. pending' \in None .. Vacate + Interval - 1
    <3>1. None \in None .. Vacate + Interval - 1
        BY <1>1
    <3> QED BY <3>1, <2>1
  <2>4. Dwelling' /\ Attested'
    BY <2>1 DEF Dwelling, Attested
  <2> QED BY <2>1, <2>2, <2>3, <2>4, <1>1, <1>2
<1> QED BY <1>4, <1>5, <1>6

\* The count shown is no older than the newest one that was reported allows.
LEMMA RecountKeeps ==
    ASSUME TypeOK, Latched, NEW r \in [Sensor -> Reading], Recount(r), due' \in {0, due},
           counted' \in Int, counted' <= counted,
           \A s \in Sensor : r[s].count # None => counted' <= r[s].age
    PROVE  /\ latch' \in Latch
           /\ count' \in Count \cup {None}
           /\ Latched'
           /\ count = None /\ count' # None => Told(r)
<1>1. /\ Stale \in Nat /\ Interval \in Nat /\ due' \in 0 .. Interval
      /\ counted \in Int
    BY FusionAssumption DEF TypeOK
<1>2. PICK l \in Latch :
        /\ Keep(l)
        /\ l.count # None =>
            /\ counted' <= l.age /\ l.age <= Stale
            /\ Told(r) \/ l = latch
  <2>1. NoLatch \in Latch
    BY FusionAssumption DEF NoLatch, Latch
  <2>2. CASE Vacant
    BY <2>1, <2>2 DEF Vacant, NoLatch
  <2>3. CASE Counted(r)
    <3> DEFINE l == [count |-> r[Teller(r)].count, age |-> r[Teller(r)].age]
    <3>1. Told(r) /\ Keep(l)
        BY <2>3 DEF Counted
    <3>2. Teller(r) \in Sensor /\ Counts(r, Teller(r))
        BY <3>1, TellerCounts
    <3>3. r[Teller(r)] \in Reading
        BY <3>2
    <3>4. /\ r[Teller(r)].age \in Int /\ r[Teller(r)].age <= Stale
          /\ r[Teller(r)].count \in Count \cup {None}
        BY <3>3 DEF Reading
    <3>5. l \in Latch
        BY <3>4, FusionAssumption DEF Latch
    <3>6. l.count # None => counted' <= l.age /\ l.age <= Stale
        BY <3>2, <3>4
    <3> QED BY <3>1, <3>5, <3>6
  <2>4. CASE Emptied(r) /\ Keep(NoLatch)
    BY <2>1, <2>4 DEF NoLatch
  <2>5. CASE Uncounted(r)
    <3>1. CASE latch.age <= Stale
      <4>1. Keep(latch)
        BY <2>5, <3>1 DEF Uncounted
      <4>2. latch.count # None => counted' <= latch.age
        <5>1. \A x \in Int : x <= counted /\ counted <= latch.age => x <= latch.age
            BY <1>1 DEF TypeOK, Latch
        <5> QED BY <5>1, <3>1 DEF Latched
      <4> QED BY <4>1, <4>2, <3>1 DEF TypeOK
    <3>2. CASE ~(latch.age <= Stale)
      <4>1. Keep(NoLatch)
        BY <2>5, <3>2 DEF Uncounted
      <4> QED BY <4>1, <2>1 DEF NoLatch
    <3> QED BY <3>1, <3>2
  <2> QED BY <2>2, <2>3, <2>4, <2>5 DEF Recount
<1>3. latch' = l /\ count' = l.count
    BY <1>2 DEF Keep
<1>4. l.age \in Int /\ l.count \in Count \cup {None}
    BY <1>2 DEF Latch
<1>5. Latched'
  <2>1. CASE l.count = None
    BY <2>1, <1>3 DEF Latched
  <2>2. CASE l.count # None
    <3>1. counted' <= l.age /\ l.age <= Stale
        BY <2>2, <1>2
    <3>2. \A x \in Int, d \in 0 .. Interval : x <= l.age => x <= Stale + d
        BY <3>1, <1>1, <1>4
    <3>3. counted' <= Stale + due'
        BY <3>1, <3>2, <1>1
    <3> QED BY <3>1, <3>3, <1>3 DEF Latched
  <2> QED BY <2>1, <2>2
<1>6. count = None /\ count' # None => Told(r)
    BY <1>2, <1>3 DEF Latched
<1> QED BY <1>2, <1>3, <1>4, <1>5, <1>6

-----------------------------------------------------------------------------
(* Invariance.                                                              *)

LEMMA FInitial == Init => FInv
<1> SUFFICES ASSUME Init PROVE FInv
    OBVIOUS
<1> USE FusionAssumption DEF Init, None
<1>1. Unheard \in Reading
    BY DEF Unheard, Reading
<1>2. NoLatch \in Latch
    BY DEF NoLatch, Latch
<1>3. latest \in [Sensor -> Reading] /\ occupied \in BOOLEAN /\ latch \in Latch
    BY <1>1, <1>2
<1>4. /\ pending \in None .. Vacate + Interval - 1 /\ count \in Count \cup {None}
      /\ due \in 0 .. Interval /\ quiet \in 0 .. Vacate
    OBVIOUS
<1>5. seen \in {a \in Int : a <= FadesBy + 1} /\ counted \in {a \in Int : a <= ExpiresBy + 1}
    BY DEF FadesBy, ExpiresBy
<1>6. TypeOK
    BY <1>3, <1>4, <1>5 DEF TypeOK
<1>7. Recorded
    BY DEF Recorded, Unheard
<1>8. Dwelling /\ Attested /\ Latched
    BY DEF Dwelling, Attested, Latched, NoLatch
<1> QED BY <1>6, <1>7, <1>8 DEF FInv

\* A fuse of readings no newer than the history keeps the invariant.
LEMMA FuseKeeps ==
    ASSUME FInv, latest' \in [Sensor -> Reading], Fuse(latest'), due' \in {0, due},
           seen' \in Int, seen' <= seen, counted' \in Int, counted' <= counted, Recorded'
    PROVE  /\ FInv'
           /\ occupied /\ ~occupied' => quiet = Vacate
           /\ count = None /\ count' # None => Told(latest')
<1>1. Evidence(latest') \in BOOLEAN
    BY DEF Evidence
<1>2. Evidence(latest') => seen' <= Stale - 1
  <2> SUFFICES ASSUME Evidence(latest') PROVE seen' <= Stale - 1
    OBVIOUS
  <2>1. PICK s \in Sensor : latest'[s].presence /\ latest'[s].age < Stale
    BY EvidenceIsSeen
  <2>2. latest'[s].age \in Int /\ Stale \in Int
    BY FusionAssumption DEF Reading
  <2>3. seen' <= latest'[s].age
    BY <2>1 DEF Recorded
  <2>4. \A x \in Int, a \in Int : x <= a /\ a < Stale => x <= Stale - 1
    BY <2>2
  <2> QED BY <2>1, <2>2, <2>3, <2>4
<1>3. TypeOK /\ Dwelling /\ Attested /\ Latched
    BY DEF FInv
<1>4. Debounce(Evidence(latest')) /\ Recount(latest')
    BY DEF Fuse
<1>5. /\ occupied' \in BOOLEAN /\ pending' \in None .. Vacate + Interval - 1
      /\ quiet' \in 0 .. Vacate /\ due' \in 0 .. Interval
      /\ Dwelling' /\ Attested'
      /\ occupied /\ ~occupied' => quiet = Vacate
    BY <1>1, <1>2, <1>3, <1>4, DebounceKeeps
<1>6. \A s \in Sensor : latest'[s].count # None => counted' <= latest'[s].age
    BY DEF Recorded
<1>7. /\ latch' \in Latch /\ count' \in Count \cup {None} /\ Latched'
      /\ count = None /\ count' # None => Told(latest')
    BY <1>3, <1>4, <1>6, RecountKeeps
<1>8. seen' \in {a \in Int : a <= FadesBy + 1} /\ counted' \in {a \in Int : a <= ExpiresBy + 1}
  <2>1. \A x, y, z \in Int : x <= y /\ y <= z => x <= z
    OBVIOUS
  <2>2. FadesBy + 1 \in Int /\ ExpiresBy + 1 \in Int
    BY FusionAssumption DEF FadesBy, ExpiresBy
  <2> QED BY <1>3, <2>1, <2>2 DEF TypeOK
<1>9. TypeOK'
    BY <1>5, <1>7, <1>8 DEF TypeOK
<1> QED BY <1>5, <1>7, <1>9 DEF FInv

LEMMA UpdateKeeps ==
    ASSUME FInv, NEW s \in Sensor, Update(s)
    PROVE  /\ FInv'
           /\ occupied /\ ~occupied' => quiet = Vacate
           /\ count = None /\ count' # None => Told(latest')
<1>1. PICK r \in Reports(s) :
        /\ latest' = [latest EXCEPT ![s] = r]
        /\ Fuse(latest')
        /\ seen' = IF r.presence THEN Least(seen, r.age) ELSE seen
        /\ counted' = IF r.count # None THEN Least(counted, r.age) ELSE counted
        /\ due' = due
    BY DEF Update
<1>2. /\ r \in Reading /\ r.age \in Int
      /\ r.count # None => r.presence
    BY FusionAssumption DEF Reports, Reading
<1>3. /\ latest \in [Sensor -> Reading] /\ seen \in Int /\ counted \in Int
      /\ \A x \in Sensor : latest[x].age \in Int
    BY DEF FInv, TypeOK, Reading
<1>4. latest' \in [Sensor -> Reading]
    BY <1>1, <1>2, <1>3
<1>5. \A a, b \in Int : Least(a, b) \in Int /\ Least(a, b) <= a /\ Least(a, b) <= b
    BY DEF Least
<1>6. /\ seen' \in Int /\ seen' <= seen /\ (r.presence => seen' <= r.age)
      /\ counted' \in Int /\ counted' <= counted /\ (r.count # None => counted' <= r.age)
  <2>1. seen <= seen /\ counted <= counted
    BY <1>3
  <2> QED BY <1>1, <1>2, <1>3, <1>5, <2>1
<1>7. Recorded'
  <2> SUFFICES ASSUME NEW x \in Sensor
               PROVE  /\ latest'[x].presence => seen' <= latest'[x].age
                      /\ latest'[x].count # None =>
                            latest'[x].presence /\ counted' <= latest'[x].age
    BY DEF Recorded, None
  <2>1. CASE x = s
    <3>1. latest'[x] = r
        BY <2>1, <1>1, <1>3
    <3> QED BY <3>1, <1>2, <1>6
  <2>2. CASE x # s
    <3>1. latest'[x] = latest[x]
        BY <2>2, <1>1, <1>3
    <3>2. /\ latest[x].presence => seen <= latest[x].age
          /\ latest[x].count # None => latest[x].presence /\ counted <= latest[x].age
        BY DEF FInv, Recorded
    <3>3. \A a, b, c \in Int : a <= b /\ b <= c => a <= c
        OBVIOUS
    <3> QED BY <3>1, <3>2, <3>3, <1>3, <1>6
  <2> QED BY <2>1, <2>2
<1> QED BY <1>1, <1>4, <1>6, <1>7, FuseKeeps

\* Time moves every age alike.
LEMMA PassKeeps ==
    ASSUME FInv, Pass
    PROVE  FInv'
<1>1. /\ Stale \in Nat /\ Vacate \in Nat /\ Interval \in Nat
      /\ FadesBy \in Int /\ ExpiresBy \in Int
    BY FusionAssumption DEF FadesBy, ExpiresBy
<1>2. /\ latest \in [Sensor -> Reading] /\ occupied \in BOOLEAN
      /\ pending \in None .. Vacate + Interval - 1 /\ pending \in Int
      /\ latch \in Latch /\ latch.age \in Int /\ latch.age <= Stale + 1
      /\ latch.count \in Count \cup {None} /\ count \in Count \cup {None}
      /\ due \in 0 .. Interval /\ quiet \in 0 .. Vacate
      /\ seen \in Int /\ counted \in Int
    BY <1>1 DEF FInv, TypeOK, Latch, None
<1>3. /\ due < Interval /\ due' = due + 1
      /\ latest' = [x \in Sensor |-> Older(latest[x])]
      /\ pending' = IF pending = None THEN None ELSE pending + 1
      /\ latch' = [latch EXCEPT !.age = Least(latch.age + 1, Stale + 1)]
      /\ quiet' = Least(quiet + 1, Vacate)
      /\ seen' = Least(seen + 1, FadesBy + 1)
      /\ counted' = Least(counted + 1, ExpiresBy + 1)
      /\ occupied' = occupied /\ count' = count
    BY DEF Pass
<1>4. ASSUME NEW x \in Sensor
      PROVE  /\ Older(latest[x]) \in Reading
             /\ Older(latest[x]).presence =>
                    latest[x].presence /\ Older(latest[x]).age = latest[x].age + 1
             /\ Older(latest[x]).count # None =>
                    /\ latest[x].count # None
                    /\ Older(latest[x]).presence = latest[x].presence
                    /\ Older(latest[x]).age = latest[x].age + 1
  <2>1. latest[x] \in Reading
    BY <1>2
  <2>2. CASE latest[x].age + 1 >= Stale
    BY <2>2, <1>1 DEF Older, Unheard, Reading
  <2>3. CASE ~(latest[x].age + 1 >= Stale)
    <3>1. Older(latest[x]) = [latest[x] EXCEPT !.age = latest[x].age + 1]
        BY <2>3 DEF Older
    <3>2. latest[x].age + 1 \in Int /\ latest[x].age + 1 <= Stale
        BY <2>1, <2>3, <1>1 DEF Reading
    <3> QED BY <2>1, <3>1, <3>2 DEF Reading
  <2> QED BY <2>2, <2>3
<1>5. latest' \in [Sensor -> Reading]
    BY <1>3, <1>4
<1>6. \A a, b \in Int : /\ Least(a, b) \in Int /\ Least(a, b) <= a /\ Least(a, b) <= b
                        /\ Least(a, b) = a \/ Least(a, b) = b
    BY DEF Least
<1>7. Recorded'
  <2> SUFFICES ASSUME NEW x \in Sensor
               PROVE  /\ latest'[x].presence => seen' <= latest'[x].age
                      /\ latest'[x].count # None =>
                            latest'[x].presence /\ counted' <= latest'[x].age
    BY DEF Recorded, None
  <2>1. latest'[x] = Older(latest[x])
    BY <1>3
  <2>2. latest[x].age \in Int
    BY <1>2 DEF Reading
  <2>3. /\ latest[x].presence => seen <= latest[x].age
        /\ latest[x].count # None => latest[x].presence /\ counted <= latest[x].age
    BY DEF FInv, Recorded
  <2>4. \A a, b, c \in Int : a <= c => Least(a + 1, b) <= c + 1
    BY DEF Least
  <2> QED BY <2>1, <2>2, <2>3, <2>4, <1>1, <1>2, <1>3, <1>4
<1>8. due' \in 0 .. Interval /\ quiet' \in 0 .. Vacate
  <2>1. due + 1 \in 0 .. Interval /\ Least(quiet + 1, Vacate) \in 0 .. Vacate
    BY <1>1, <1>2, <1>3 DEF Least
  <2> QED BY <2>1, <1>3
<1>9. /\ seen' \in {a \in Int : a <= FadesBy + 1}
      /\ counted' \in {a \in Int : a <= ExpiresBy + 1}
  <2>1. /\ Least(seen + 1, FadesBy + 1) \in {a \in Int : a <= FadesBy + 1}
        /\ Least(counted + 1, ExpiresBy + 1) \in {a \in Int : a <= ExpiresBy + 1}
    BY <1>1, <1>2 DEF Least
  <2> QED BY <2>1, <1>3
<1>10. pending' \in None .. Vacate + Interval - 1 /\ Dwelling'
  <2>1. CASE pending = None
    <3>1. pending' = None /\ None \in None .. Vacate + Interval - 1
        BY <2>1, <1>1, <1>2, <1>3 DEF None
    <3> QED BY <3>1 DEF Dwelling
  <2>2. CASE pending # None
    <3>1. /\ occupied /\ (pending <= quiet \/ quiet = Vacate)
          /\ pending <= Vacate - 1 + due /\ seen <= Stale - 1 + Interval + pending
        BY <2>2 DEF FInv, Dwelling
    <3>2. pending + 1 \in None .. Vacate + Interval - 1
        BY <3>1, <1>1, <1>2, <1>3 DEF None
    <3>3. pending + 1 <= Least(quiet + 1, Vacate) \/ Least(quiet + 1, Vacate) = Vacate
        BY <3>1, <1>1, <1>2 DEF Least
    <3>4. pending + 1 <= Vacate - 1 + (due + 1)
        BY <3>1, <1>1, <1>2
    <3>5. Least(seen + 1, FadesBy + 1) <= Stale - 1 + Interval + (pending + 1)
        BY <3>1, <1>1, <1>2 DEF Least
    <3>6. /\ pending' = pending + 1 /\ quiet' = Least(quiet + 1, Vacate)
          /\ seen' = Least(seen + 1, FadesBy + 1) /\ due' = due + 1 /\ occupied' = occupied
        BY <2>2, <1>3
    <3>7. pending' <= quiet' \/ quiet' = Vacate
        BY <3>3, <3>6
    <3>8. occupied'
        BY <3>1, <3>6
    <3>9. pending' <= Vacate - 1 + due'
        BY <3>4, <3>6
    <3>10. seen' <= Stale - 1 + Interval + pending'
        BY <3>5, <3>6
    <3>11. Dwelling'
        BY <3>7, <3>8, <3>9, <3>10 DEF Dwelling
    <3> QED BY <3>2, <3>6, <3>11
  <2> QED BY <2>1, <2>2
<1>11. Attested'
  <2> SUFFICES ASSUME occupied', pending' = None PROVE seen' <= Stale - 1 + due'
    BY DEF Attested
  <2>1. pending = None
    <3>1. pending # None => pending + 1 # None
        BY <1>1, <1>2 DEF None
    <3> QED BY <3>1, <1>3
  <2>2. seen <= Stale - 1 + due
    BY <2>1, <1>3 DEF FInv, Attested
  <2>3. Least(seen + 1, FadesBy + 1) <= Stale - 1 + (due + 1)
    BY <2>2, <1>1, <1>2 DEF Least
  <2> QED BY <2>3, <1>3
<1>12. latch' \in Latch /\ Latched'
  <2> DEFINE older == Least(latch.age + 1, Stale + 1)
  <2>1. older \in Int /\ older <= Stale + 1
    BY <1>1, <1>2 DEF Least
  <2>2. latch'.age = older /\ latch'.count = latch.count /\ latch' \in Latch
    BY <2>1, <1>2, <1>3 DEF Latch
  <2>3. /\ count = latch.count
        /\ latch.count # None =>
            counted <= Stale + due /\ (latch.age <= Stale => counted <= latch.age)
    BY DEF FInv, Latched
  <2>4. latch.count # None => Least(counted + 1, ExpiresBy + 1) <= Stale + (due + 1)
    BY <2>3, <1>1, <1>2 DEF Least
  <2>5. latch.count # None /\ older <= Stale => Least(counted + 1, ExpiresBy + 1) <= older
    BY <2>3, <1>1, <1>2 DEF Least
  <2> HIDE DEF older
  <2> QED BY <2>2, <2>3, <2>4, <2>5, <1>3 DEF Latched
<1>13. TypeOK'
  <2>1. occupied' \in BOOLEAN /\ count' \in Count \cup {None}
    BY <1>2, <1>3
  <2> QED BY <2>1, <1>5, <1>8, <1>9, <1>10, <1>12 DEF TypeOK
<1> QED BY <1>7, <1>10, <1>11, <1>12, <1>13 DEF FInv

\* Every step keeps the invariant, empties a room only after the dwell and brings a
\* number back only for a reading that counts.
LEMMA FStep ==
    ASSUME FInv, [Next]_vars
    PROVE  /\ FInv'
           /\ occupied /\ ~occupied' => quiet = Vacate
           /\ count = None /\ count' # None => Told(latest')
<1>1. ASSUME NEW s \in Sensor, Update(s)
      PROVE  /\ FInv'
             /\ occupied /\ ~occupied' => quiet = Vacate
             /\ count = None /\ count' # None => Told(latest')
    BY <1>1, UpdateKeeps
<1>2. CASE Reject \/ Refuse
  <2>1. /\ latest' = latest /\ seen' = seen /\ counted' = counted
        /\ due' \in {0, due} /\ Fuse(latest)
    BY <1>2 DEF Reject, Refuse
  <2>2. latest' \in [Sensor -> Reading] /\ seen \in Int /\ counted \in Int
    BY <2>1 DEF FInv, TypeOK
  <2>3. seen' \in Int /\ seen' <= seen /\ counted' \in Int /\ counted' <= counted
    <3>1. seen <= seen /\ counted <= counted
        BY <2>2
    <3> QED BY <2>1, <2>2, <3>1
  <2>4. Fuse(latest')
    BY <2>1
  <2>5. Recorded'
    BY <2>1 DEF FInv, Recorded
  <2> QED BY <2>1, <2>2, <2>3, <2>4, <2>5, FuseKeeps
<1>3. CASE Pass
  <2>1. occupied' = occupied /\ count' = count
    BY <1>3 DEF Pass
  <2> QED BY <2>1, <1>3, PassKeeps
<1>4. CASE UNCHANGED vars
  <2> USE <1>4 DEF vars
  <2>1. TypeOK' /\ Recorded'
    BY DEF FInv, TypeOK, Recorded
  <2>2. Dwelling' /\ Attested' /\ Latched'
    BY DEF FInv, Dwelling, Attested, Latched
  <2> QED BY <2>1, <2>2 DEF FInv
<1> QED BY <1>1, <1>2, <1>3, <1>4 DEF Next

LEMMA FInvariance == Spec => []FInv
<1>1. FInv /\ [Next]_vars => FInv'
    BY FStep
<1> QED BY <1>1, FInitial, PTL DEF Spec

\* Whatever the sensors send, early, late or from the future, and whenever the room
\* is fused again, the engine's tables keep their types.
THEOREM RoomTypeCorrect == Spec => []TypeOK
<1>1. FInv => TypeOK
    BY DEF FInv
<1> QED BY <1>1, FInvariance, PTL

\* An occupied room turns vacant only after a whole dwell without evidence.
THEOREM DwellIsKept == Spec => VacatesSlowly
<1>1. FInv /\ [Next]_vars => [occupied /\ ~occupied' => quiet = Vacate]_vars
    BY FStep
<1> QED BY <1>1, FInvariance, PTL DEF Spec, VacatesSlowly

\* No room stays occupied beyond the windows of the code after anybody was seen.
THEOREM NoRoomFreezes == Spec => []RoomsFade
<1>1. FInv => RoomsFade
  <2> SUFFICES ASSUME FInv, occupied PROVE seen <= FadesBy
    BY DEF RoomsFade
  <2>1. /\ Stale \in Nat /\ Vacate \in Nat /\ Interval \in Nat /\ Interval >= 1
        /\ due \in 0 .. Interval /\ seen \in Int /\ pending \in Int
    BY FusionAssumption DEF FInv, TypeOK, None
  <2>2. CASE pending = None
    BY <2>1, <2>2 DEF FInv, Attested, FadesBy
  <2>3. CASE pending # None
    BY <2>1, <2>3 DEF FInv, Dwelling, FadesBy
  <2> QED BY <2>2, <2>3
<1> QED BY <1>1, FInvariance, PTL

\* A number is never shown for longer than stale_s and one re-fuse after the newest
\* reading that counted.
THEOREM CountsAreRecent == Spec => []CountsExpire
<1>1. FInv => CountsExpire
  <2> SUFFICES ASSUME FInv, count # None PROVE counted <= ExpiresBy
    BY DEF CountsExpire
  <2>1. Stale \in Nat /\ Interval \in Nat /\ due \in 0 .. Interval /\ counted \in Int
    BY FusionAssumption DEF FInv, TypeOK
  <2>2. counted <= Stale + due
    BY DEF FInv, Latched
  <2> QED BY <2>1, <2>2 DEF ExpiresBy
<1> QED BY <1>1, FInvariance, PTL

\* A count that was withdrawn is brought back by a reading that counts, never by age.
THEOREM CountsStayWithdrawn == Spec => NeverResurfaces
<1>1. FInv /\ [Next]_vars => [count = None /\ count' # None => Told(latest')]_vars
    BY FStep
<1> QED BY <1>1, FInvariance, PTL DEF Spec, NeverResurfaces

=============================================================================
