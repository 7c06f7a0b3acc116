------------------------------ MODULE Routines ------------------------------
(***************************************************************************)
(* Routines: "when THIS happens, do THAT" (routines.py), fed by the        *)
(* trackers of away.py and person_presence.py and run by app.py.           *)
(*                                                                         *)
(* A trigger is either an edge of the house or of a room, matched while a  *)
(* frame is published, or a time of day, matched by a tick.  What matched  *)
(* runs later, on worker threads, and is marked as fired when it has run:  *)
(* the mark may meet another day, another definition of the routine, or a  *)
(* process that is no longer there.                                        *)
(*                                                                         *)
(* All time triggers share one time of the day; a day is early before it   *)
(* and late after it.  Edges of persons and devices are dispatched like    *)
(* those of rooms and are left out.                                        *)
(***************************************************************************)
EXTENDS Naturals

CONSTANTS
    Routine, Room,
    Shape,      \* trigger and condition a user may give a routine
    Nobody,     \* no routine, no room
    Grace,      \* away_grace
    MaxDay,     \* bound: days
    MaxEdges,   \* bound: edge runs of a routine under way
    MaxFaults   \* bound: restarts and failed marks

ASSUME RoutinesAssumption ==
    /\ Nobody \notin Routine \cup Room
    /\ Grace \in Nat \ {0} /\ MaxDay \in Nat \ {0}
    /\ MaxEdges \in Nat /\ MaxFaults \in Nat
    /\ Shape \subseteq [kind : {"schedule", "away by", "left", "arrived", "empty", "still"},
                        room : Room \cup {Nobody}, away : BOOLEAN]

Day == 1 .. MaxDay
Unborn == [kind |-> "unborn", room |-> Nobody, away |-> FALSE]
Gone == [kind |-> "gone", room |-> Nobody, away |-> FALSE]

VARIABLES
    day, late,    \* the wall clock
    def,          \* the row: its trigger and condition,
    enabled,      \*   its switch,
    lastFired,    \*   and the day of its last_fired, 0 for none
    firedDay,     \* RoutinesEngine._fired_day
    latched,      \* RoutinesEngine._stillness_latched
    rooms,        \* what the last frame said of each room
    house,        \* AwayMonitor._house
    vacant,       \* AwayMonitor._vacant_streak
    warm,         \* _routines_warm
    sensing,      \* the master switch of the sources
    pass,         \* what the tick matched and still has to run, or runs
    edge,         \* runs that edges dispatched: how many wait, how many run
    acted,        \* history: runs begun for a day's time trigger
    cut,          \* history: runs begun for a day and never marked
    borrowed,     \* history: days marked by a run that was not theirs
    episode,      \* history: rooms whose stillness a routine has answered
    faults

clock == <<day, late>>
row == <<def, enabled, lastFired>>
engine == <<firedDay, latched>>
trackers == <<rooms, house, vacant, warm>>
history == <<acted, cut, borrowed, episode>>
vars == <<clock, row, engine, trackers, sensing, pass, edge, history, faults>>

NoPass == [todo |-> {}, acting |-> Nobody, day |-> 0]
NoRun == [queued |-> 0, acting |-> 0]

TypeOK ==
    /\ day \in Day /\ late \in BOOLEAN
    /\ def \in [Routine -> Shape \cup {Unborn, Gone}]
    /\ enabled \in [Routine -> BOOLEAN]
    /\ lastFired \in [Routine -> 0 .. MaxDay] /\ firedDay \in [Routine -> 0 .. MaxDay]
    /\ latched \in [Routine -> Room \cup {Nobody}]
    /\ rooms \in [Room -> {"none", "in", "out"}] /\ house \in {"none", "home", "away"}
    /\ vacant \in 0 .. Grace /\ warm \in BOOLEAN /\ sensing \in BOOLEAN
    /\ pass \in [todo : SUBSET Routine, acting : Routine \cup {Nobody}, day : 0 .. MaxDay]
    /\ edge \in [Routine -> [queued : 0 .. MaxEdges, acting : 0 .. MaxEdges]]
    /\ acted \in [Routine -> [Day -> Nat]]
    /\ cut \in SUBSET (Routine \X Day) /\ borrowed \in SUBSET (Routine \X Day)
    /\ episode \in [Routine -> SUBSET Room]
    /\ faults \in 0 .. MaxFaults

Init ==
    /\ day = 1 /\ late = FALSE
    /\ def = [r \in Routine |-> Unborn] /\ enabled = [r \in Routine |-> FALSE]
    /\ lastFired = [r \in Routine |-> 0] /\ firedDay = [r \in Routine |-> 0]
    /\ latched = [r \in Routine |-> Nobody]
    /\ rooms = [m \in Room |-> "none"] /\ house = "none" /\ vacant = 0
    /\ warm = FALSE /\ sensing = TRUE
    /\ pass = NoPass /\ edge = [r \in Routine |-> NoRun]
    /\ acted = [r \in Routine |-> [d \in Day |-> 0]]
    /\ cut = {} /\ borrowed = {} /\ episode = [r \in Routine |-> {}]
    /\ faults = 0

-----------------------------------------------------------------------------
(* The store, as the API drives it.  An id is never used twice.             *)

Exists(r) == def[r] \in Shape

Add(r, s, on) ==
    /\ def[r] = Unborn
    /\ def' = [def EXCEPT ![r] = s] /\ enabled' = [enabled EXCEPT ![r] = on]
    /\ UNCHANGED lastFired

\* A new trigger keeps the row's switch and its last_fired.
Update(r, s) ==
    /\ Exists(r)
    /\ def' = [def EXCEPT ![r] = s]
    /\ UNCHANGED <<enabled, lastFired>>

SetEnabled(r, on) ==
    /\ Exists(r)
    /\ enabled' = [enabled EXCEPT ![r] = on]
    /\ UNCHANGED <<def, lastFired>>

Delete(r) ==
    /\ Exists(r)
    /\ def' = [def EXCEPT ![r] = Gone]
    /\ UNCHANGED <<enabled, lastFired>>

UserEdits ==
    /\ \E r \in Routine :
          \/ \E s \in Shape : Update(r, s) \/ \E on \in BOOLEAN : Add(r, s, on)
          \/ \E on \in BOOLEAN : SetEnabled(r, on)
          \/ Delete(r)
    /\ UNCHANGED <<clock, engine, trackers, sensing, pass, edge, history, faults>>

-----------------------------------------------------------------------------
(* Matching.                                                                *)

\* _condition_ok: unknown, hence not met, while the house cannot sense.
ConditionOk(r, home) == def[r].away => sensing /\ home = "away"

Armed(r, home) == Exists(r) /\ enabled[r] /\ ConditionOk(r, home)

\* tick, but for _once.
Due(r) ==
    /\ late /\ Armed(r, house)
    /\ \/ def[r].kind = "schedule"
       \/ (def[r].kind = "away by" /\ sensing /\ house = "away")

\* _once: the memory of this process, then the row.
Once_InMemory(r) == firedDay[r] # day   \* mutant: the row is not asked
Once(r) == firedDay[r] # day /\ lastFired[r] # day

Asked_First == {r \in Routine : Exists(r) /\ enabled[r] /\ late}   \* mutant: before the condition
Asked == {r \in Routine : Due(r)}

\* _routines_tick: it awaits what it matched, so one pass at a time.
Tick ==
    /\ pass = NoPass
    /\ LET matched == {r \in Asked : Due(r) /\ Once(r)}
       IN  pass' = IF matched = {} THEN NoPass
                   ELSE [todo |-> matched, acting |-> Nobody, day |-> day]
    /\ firedDay' = [r \in Routine |-> IF r \in Asked THEN day ELSE firedDay[r]]
    /\ UNCHANGED <<clock, row, latched, trackers, sensing, edge, history, faults>>

-----------------------------------------------------------------------------
(* Frames.                                                                  *)

\* AwayMonitor.handle
Count(streak) == IF streak < Grace THEN streak + 1 ELSE streak
HouseSees ==
    IF \E m \in Room : rooms'[m] = "in"
    THEN vacant' = 0 /\ house' = "home"
    ELSE vacant' = Count(vacant) /\ house' = (IF vacant' >= Grace THEN "away" ELSE house)

\* The edges of a frame of room m: none at the first determination.
HouseEdge(kind) ==
    /\ house # "none" /\ house' # house
    /\ kind = (IF house' = "home" THEN "arrived" ELSE "left")
Emptied(m) == rooms[m] = "in" /\ rooms'[m] = "out"

Edged(m) ==
    {r \in Routine : /\ Armed(r, house')
                     /\ \/ HouseEdge(def[r].kind)
                        \/ (def[r].kind = "empty" /\ def[r].room = m /\ Emptied(m))}

\* on_stillness: once per episode, and an elapsed of 0 ends the episode.
Rearm_Any(m) == {r \in Routine : latched[r] # Nobody}    \* mutant: whatever room it is
Rearm(m) == {r \in Routine : latched[r] = m}
StillIn(m) ==
    {r \in Routine : /\ Armed(r, house') /\ def[r].kind = "still" /\ def[r].room = m
                     /\ latched[r] = Nobody}

\* One frame: the house, the room, then the stillness of the room.
Frame(m, o, elapsed) ==
    LET still == IF warm /\ elapsed = "long" THEN StillIn(m) ELSE {}
        fired == still \cup (IF warm THEN Edged(m) ELSE {})
        over == IF warm /\ elapsed = "zero" THEN Rearm(m) ELSE {}
    IN  /\ o = "in" => sensing \/ rooms[m] = "in"
        /\ elapsed = "long" => o = "in"
        /\ rooms' = [rooms EXCEPT ![m] = o]
        /\ HouseSees
        /\ latched' = [r \in Routine |-> IF r \in over THEN Nobody
                                         ELSE IF r \in still THEN m ELSE latched[r]]
        /\ \A r \in fired : edge[r].queued < MaxEdges
        /\ edge' = [r \in Routine |-> IF r \in fired THEN [edge[r] EXCEPT !.queued = @ + 1]
                                      ELSE edge[r]]
        /\ episode' = [r \in Routine |-> IF r \in still THEN episode[r] \cup {m}
                                         ELSE IF elapsed = "zero" THEN episode[r] \ {m}
                                         ELSE episode[r]]
        /\ UNCHANGED <<clock, row, firedDay, warm, sensing, pass, acted, cut, borrowed, faults>>

-----------------------------------------------------------------------------
(* Running: _run_routines, on worker threads, from the rows as matched.     *)

Fault == faults < MaxFaults /\ faults' = faults + 1

\* mark_fired, with the date the run ended on; nothing for a row that is gone.
Mark(r, for) ==
    /\ lastFired' = IF Exists(r) THEN [lastFired EXCEPT ![r] = day] ELSE lastFired
    /\ borrowed' = IF for = day THEN borrowed ELSE borrowed \cup {<<r, day>>}
    /\ UNCHANGED <<cut, faults>>

MarkFails(r, for) ==
    /\ Fault
    /\ cut' = IF for = 0 THEN cut ELSE cut \cup {<<r, for>>}
    /\ UNCHANGED <<lastFired, borrowed>>

PassActs(r) ==
    /\ pass.acting = Nobody /\ r \in pass.todo
    /\ pass' = [pass EXCEPT !.todo = @ \ {r}, !.acting = r]
    /\ acted' = [acted EXCEPT ![r][pass.day] = @ + 1]
    /\ UNCHANGED <<clock, row, engine, trackers, sensing, edge, cut, borrowed, episode, faults>>

PassMarks(r) ==
    /\ pass.acting = r /\ r # Nobody
    /\ Mark(r, pass.day) \/ MarkFails(r, pass.day)
    /\ pass' = IF pass.todo = {} THEN NoPass ELSE [pass EXCEPT !.acting = Nobody]
    /\ UNCHANGED <<clock, def, enabled, engine, trackers, sensing, edge, acted, episode>>

EdgeActs(r) ==
    /\ edge[r].queued > 0 /\ edge[r].acting < MaxEdges
    /\ edge' = [edge EXCEPT ![r] = [queued |-> @.queued - 1, acting |-> @.acting + 1]]
    /\ UNCHANGED <<clock, row, engine, trackers, sensing, pass, history, faults>>

EdgeMarks(r) ==
    /\ edge[r].acting > 0
    /\ Mark(r, 0) \/ MarkFails(r, 0)
    /\ edge' = [edge EXCEPT ![r].acting = @ - 1]
    /\ UNCHANGED <<clock, def, enabled, engine, trackers, sensing, pass, acted, episode>>

-----------------------------------------------------------------------------
(* The clock, the switches, and the end of the process.                     *)

Pass ==
    /\ IF late THEN day < MaxDay /\ day' = day + 1 /\ late' = FALSE
               ELSE late' = TRUE /\ UNCHANGED day
    /\ UNCHANGED <<row, engine, trackers, sensing, pass, edge, history, faults>>

\* The warm-up timer goes off; the operator stops or starts the sources.
Switch ==
    /\ \/ ~warm /\ warm' = TRUE /\ UNCHANGED sensing
       \/ sensing' = ~sensing /\ UNCHANGED warm
    /\ UNCHANGED <<clock, row, engine, rooms, house, vacant, pass, edge, history, faults>>

\* A stop cancels the loop and every run, a crash does the same to them.
Restart ==
    /\ Fault
    /\ firedDay' = [r \in Routine |-> 0] /\ latched' = [r \in Routine |-> Nobody]
    /\ rooms' = [m \in Room |-> "none"] /\ house' = "none" /\ vacant' = 0
    /\ warm' = FALSE /\ sensing' = TRUE
    /\ pass' = NoPass /\ edge' = [r \in Routine |-> NoRun]
    /\ cut' = IF pass.acting = Nobody THEN cut ELSE cut \cup {<<pass.acting, pass.day>>}
    /\ episode' = [r \in Routine |-> {}]
    /\ UNCHANGED <<clock, row, acted, borrowed>>

-----------------------------------------------------------------------------
Frames == \E m \in Room, o \in {"in", "out"}, e \in {"zero", "short", "long"} : Frame(m, o, e)
Runs == \E r \in Routine : PassActs(r) \/ PassMarks(r) \/ EdgeActs(r) \/ EdgeMarks(r)

Next == UserEdits \/ Tick \/ Frames \/ Runs \/ Pass \/ Switch \/ Restart

Spec == Init /\ [][Next]_vars

-----------------------------------------------------------------------------
(* A time trigger acts at most once a day, however often the Core restarts, *)
(* unless the process died, or the write failed, between the run and its    *)
(* mark: then it acts again after the restart.                              *)
OnceADay == \A r \in Routine, d \in Day : acted[r][d] <= 1 \/ <<r, d>> \in cut

(* Once the time of the day is past, no routine whose trigger and condition *)
(* hold is left behind: the next tick matches it, or it is about to act or  *)
(* has acted today, unless a run that ended today without being today's has *)
(* taken the day's mark.                                                    *)
NoDaySkipped ==
    \A r \in Routine :
        Due(r) => \/ Once(r) \/ acted[r][day] > 0
                  \/ (r \in pass.todo /\ pass.day = day)
                  \/ <<r, day>> \in borrowed

(* However long a room stays still, a routine answers once, until somebody  *)
(* moves there, whatever other rooms do and however the routine is edited.  *)
StillOnce ==
    [][\A r \in Routine, m \in Room :
          latched'[r] = m /\ latched[r] # m => m \notin episode[r]]_vars

(* "Never assert nobody home when the house can't sense" (routines.py).  It *)
(* does: with the sources stopped the rooms fade, the house is away, and a  *)
(* routine that waits for the last one to leave is dispatched.              *)
NobodyHomeIsSensed ==
    [][\A r \in Routine :
          def[r].kind = "left" /\ edge'[r].queued > edge[r].queued => sensing]_vars
=============================================================================
