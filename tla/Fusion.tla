------------------------------- MODULE Fusion -------------------------------
(***************************************************************************)
(* What one room claims: the FusionEngine of fusion.py, fed by the sensors *)
(* of the room (_ingest in app.py) and by the periodic re-fuse             *)
(* (_refuse_once), under the wall clock app.py gives it.  The engine keeps *)
(* its state per room, so one room stands for all.                         *)
(*                                                                         *)
(* Every moment the code keeps is kept here as the distance from now that  *)
(* the code computes from it: an age, negative while the moment lies ahead *)
(* (a sensor whose clock runs fast), and saturated where the code stops    *)
(* telling older from old.  Pass lets one unit of time go by.              *)
(*                                                                         *)
(* Left out: targets, vitals and the explanation (they decide nothing      *)
(* here), the rounding of the confidence to three decimals, and a          *)
(* reliability that changes while a reading is stored.  Two counting       *)
(* sensors of one weight are told apart by arrival in the code, by CHOOSE  *)
(* here.                                                                   *)
(***************************************************************************)
EXTENDS Integers, FiniteSetsExt

CONSTANTS
    Sensor,      \* the (modality, sensor_id) slots of the room
    Counting,    \* the sensors of COUNTING_MODALITIES
    Trusted,     \* the sensors of TRUSTED_ABSENCE_MODALITIES
    Weight,      \* the weight of each sensor's modality, in tenths
    Reliability, \* reliability_fn: what each sensor has earned, in tenths
    Level,       \* confidences a present reading carries, in tenths
    Count,       \* the numbers a counting sensor reports
    Arrival,     \* how old a reading may be when it is ingested
    Fresh, Stale, Vacate,   \* freshness_s, stale_s, vacate_s
    Skew,        \* _SKEW_TOLERANCE_S
    Threshold,   \* fusion_threshold, in tenths
    Interval     \* refuse_interval: the longest time between two re-fuses

ASSUME FusionAssumption ==
    /\ Trusted \subseteq Counting /\ Counting \subseteq Sensor
    /\ Weight \in [Sensor -> 0 .. 10] /\ Reliability \in [Sensor -> 0 .. 10]
    /\ Level \subseteq 1 .. 10 /\ Count \subseteq Nat
    /\ Fresh \in Nat /\ Stale \in Nat /\ Fresh < Stale
    /\ Vacate \in Nat /\ Skew \in Nat
    /\ Threshold \in Nat \ {0} /\ Interval \in Nat \ {0}
    /\ Arrival \subseteq {a \in Int : a <= Stale}

None == -1

VARIABLES
    latest,      \* _latest: the stored reading of each sensor
    occupied,    \* _occupied_state, and what the last fuse published
    pending,     \* _vacate_since: how long ago a pending vacate began, or None
    latch,       \* _count_latch: the held count and the age of its event
    count,       \* the person_count the last fuse published, or None
    due,         \* time since the last periodic re-fuse
    quiet,       \* history: time since a fuse last found evidence of a person
    seen,        \* history: age of the newest reading that saw anybody
    counted      \* history: age of the newest reading that counted anybody

vars == <<latest, occupied, pending, latch, count, due, quiet, seen, counted>>

\* The longest a room may stay occupied after the newest sight of anybody, and
\* a count after the newest count.
FadesBy == Stale + Vacate + 2 * Interval - 2
ExpiresBy == Stale + Interval

Reading == [age : {a \in Int : a <= Stale}, presence : BOOLEAN,
            conf : Level \cup {0}, count : Count \cup {None}]
\* A sensor that never reported weighs what a dead one does: nothing.
Unheard == [age |-> Stale, presence |-> FALSE, conf |-> 0, count |-> None]
Latch == [count : Count \cup {None}, age : {a \in Int : a <= Stale + 1}]
NoLatch == [count |-> None, age |-> Stale + 1]

TypeOK ==
    /\ latest \in [Sensor -> Reading]
    /\ occupied \in BOOLEAN
    /\ pending \in None .. Vacate + Interval - 1
    /\ latch \in Latch
    /\ count \in Count \cup {None}
    /\ due \in 0 .. Interval
    /\ quiet \in 0 .. Vacate
    /\ seen \in {a \in Int : a <= FadesBy + 1}
    /\ counted \in {a \in Int : a <= ExpiresBy + 1}

Init ==
    /\ latest = [s \in Sensor |-> Unheard]
    /\ occupied = FALSE /\ pending = None
    /\ latch = NoLatch /\ count = None
    /\ due = 0
    /\ quiet = Vacate /\ seen = FadesBy + 1 /\ counted = ExpiresBy + 1

Least(a, b) == IF a < b THEN a ELSE b
Most(a, b) == IF a > b THEN a ELSE b

-----------------------------------------------------------------------------
(* The evidence in a set of readings r.                                     *)

\* A timestamp ahead of now ages too, beyond the tolerance.
Age(a) == IF a < 0 THEN Most(0, -a - Skew) ELSE a
\* _freshness, in units of 1 / (Stale - Fresh).
Decay(a) ==
    IF Age(a) <= Fresh THEN Stale - Fresh
    ELSE IF Age(a) >= Stale THEN 0 ELSE Stale - Age(a)
Alive(r, s) == Decay(r[s].age) > 0

\* A look at an empty room, from a sensor that can tell.
Dissents(r, s) == s \in Trusted /\ ~r[s].presence /\ Alive(r, s)
Mass(r, s) ==
    Weight[s] * Reliability[s] * Decay(r[s].age)
        * (IF Dissents(r, s) THEN 10 ELSE r[s].conf)

Sees(r, s) == r[s].presence /\ Alive(r, s)
Counts(r, s) == s \in Counting /\ Sees(r, s) /\ r[s].count # None

\* agreement x strength reaches the threshold (a mass of 1 is Unit here).
Unit == 1000 * (Stale - Fresh)
Confident(r) ==
    LET for == MapThenSumSet(LAMBDA s : Mass(r, s), {s \in Sensor : r[s].presence})
        all == MapThenSumSet(LAMBDA s : Mass(r, s), Sensor)
    IN  \E s \in Sensor :
            /\ Sees(r, s)
            /\ \A t \in Sensor : r[t].presence => Mass(r, t) <= Mass(r, s)
            /\ 10 * for * Mass(r, s) >= Threshold * Unit * all
            /\ all > 0

\* The counting sensor whose number stands: of the heaviest modality that counts now
\* (its reliability has no say here).
Teller(r) ==
    CHOOSE s \in Sensor : Counts(r, s) /\ \A t \in Sensor : Counts(r, t) => Weight[t] <= Weight[s]
Told(r) == \E s \in Sensor : Counts(r, s)

Evidence(r) ==
    \/ Confident(r)
    \/ Told(r) /\ r[Teller(r)].count > 0
    \/ \E s \in Sensor \ Counting : Sees(r, s)

-----------------------------------------------------------------------------
(* One fuse.                                                                *)

\* _debounce_occupancy, told whether there is evidence e: up at once, down when the
\* dwell has elapsed.
Elapsed == IF pending = None THEN 0 ELSE pending
Held(e) == ~e /\ occupied /\ Elapsed < Vacate
\* Mutants: evidence leaves the running dwell in place; every fuse restarts it.
Debounce_KeepsDwell(e) ==
    /\ occupied' = (e \/ Held(e))
    /\ pending' = IF Held(e) THEN Elapsed ELSE IF e THEN pending ELSE None
    /\ quiet' = IF e THEN 0 ELSE quiet
Debounce_Restarts(e) ==
    /\ occupied' = (e \/ Held(e))
    /\ pending' = IF Held(e) THEN 0 ELSE None
    /\ quiet' = IF e THEN 0 ELSE quiet
Debounce(e) ==
    /\ occupied' = (e \/ Held(e))
    /\ pending' = IF Held(e) THEN Elapsed ELSE None
    /\ quiet' = IF e THEN 0 ELSE quiet

\* The count: none for a vacant room, else the live number, else nothing at a
\* look at the empty room, else the held number for as long as stale_s.
Keep(l) == latch' = l /\ count' = l.count
Vacant == ~occupied' /\ Keep(NoLatch)
Counted(r) ==
    /\ occupied' /\ Told(r)
    /\ Keep([count |-> r[Teller(r)].count, age |-> r[Teller(r)].age])
Emptied(r) == occupied' /\ ~Told(r) /\ \E s \in Sensor : Dissents(r, s)
Uncounted(r) ==
    /\ occupied' /\ ~Told(r) /\ \A s \in Sensor : ~Dissents(r, s)
    /\ Keep(IF latch.age <= Stale THEN latch ELSE NoLatch)
\* Mutants: the latch is dated by the fuse instead of by its event; a look at the
\* empty room hides the number and keeps it.
Recount_Redates(r) ==
    \/ Vacant
    \/ /\ occupied' /\ Told(r)
       /\ Keep([count |-> r[Teller(r)].count, age |-> 0])
    \/ Emptied(r) /\ Keep(NoLatch)
    \/ Uncounted(r)
Recount_Hides(r) ==
    \/ Vacant
    \/ Counted(r)
    \/ Emptied(r) /\ latch' = latch /\ count' = None
    \/ Uncounted(r)
Recount(r) ==
    \/ Vacant
    \/ Counted(r)
    \/ Emptied(r) /\ Keep(NoLatch)
    \/ Uncounted(r)

Fuse(r) ==
    /\ Debounce(Evidence(r))
    /\ Recount(r)

-----------------------------------------------------------------------------
(* Actions.                                                                 *)

\* What a sensor may say: an absence has confidence 0.0 (the wire convention), and
\* only a counting sensor that sees somebody gives a number.
Reports(s) ==
    {r \in [age : Arrival, presence : BOOLEAN, conf : Level \cup {0}, count : Count \cup {None}] :
        /\ (r.conf > 0) = r.presence
        /\ r.count # None => r.presence /\ s \in Counting}

\* update: the reading takes its sensor's slot, whatever was there.
Update(s) ==
    \E r \in Reports(s) :
        /\ latest' = [latest EXCEPT ![s] = r]
        /\ Fuse(latest')
        /\ seen' = IF r.presence THEN Least(seen, r.age) ELSE seen
        /\ counted' = IF r.count # None THEN Least(counted, r.age) ELSE counted
        /\ UNCHANGED due

\* update with a timestamp nobody can parse: not stored, the room still fused.
Reject ==
    /\ Fuse(latest)
    /\ UNCHANGED <<latest, due, seen, counted>>

\* The periodic re-fuse of the room.
Refuse ==
    /\ Fuse(latest)
    /\ due' = 0
    /\ UNCHANGED <<latest, seen, counted>>

\* A dead reading stays in its slot and never weighs anything again.
Older(r) == IF r.age + 1 >= Stale THEN Unheard ELSE [r EXCEPT !.age = @ + 1]

\* Time goes by, never past the next re-fuse.
Pass ==
    /\ due < Interval
    /\ due' = due + 1
    /\ latest' = [s \in Sensor |-> Older(latest[s])]
    /\ pending' = IF pending = None THEN None ELSE pending + 1
    /\ latch' = [latch EXCEPT !.age = Least(@ + 1, Stale + 1)]
    /\ quiet' = Least(quiet + 1, Vacate)
    /\ seen' = Least(seen + 1, FadesBy + 1)
    /\ counted' = Least(counted + 1, ExpiresBy + 1)
    /\ UNCHANGED <<occupied, count>>

Next ==
    \/ \E s \in Sensor : Update(s)
    \/ Reject
    \/ Refuse
    \/ Pass

Spec == Init /\ [][Next]_vars

-----------------------------------------------------------------------------
(* Properties.                                                              *)

\* A room turns vacant only after vacate_s in which no fuse found a person: the
\* dwell of _debounce_occupancy starts over at every sign of one.
VacatesSlowly == [][occupied /\ ~occupied' => quiet = Vacate]_vars

\* No room freezes: whatever its sensors did last, it reads occupied no longer
\* than the staleness window, the dwell and two re-fuses after the newest
\* reading that saw anybody (_refuse_once).
RoomsFade == occupied => seen <= FadesBy

\* A number outlives the newest reading that counted anybody by stale_s and a
\* re-fuse at most, although the latch is refreshed by readings that age.
CountsExpire == count # None => counted <= ExpiresBy

\* Once the count is unknown only a reading that counts brings a number back: a
\* look at the empty room releases the latch, it does not hide it.
NeverResurfaces == [][count = None /\ count' # None => Told(latest')]_vars

=============================================================================
