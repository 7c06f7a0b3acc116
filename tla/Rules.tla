-------------------------------- MODULE Rules --------------------------------
(***************************************************************************)
(* What a home automation is told of one room: RulesEngine (rules.py)      *)
(* behind its queue of the Hub (hub.py), in front of a broker that may be  *)
(* down or behind the egress switch (mqtt_publisher.py, app.py).           *)
(*                                                                         *)
(* Three clocks that know nothing of each other decide whether a room whose*)
(* camera died is announced as unknown or as vacated: fusion lets a reading*)
(* fade, the supervisor notices that a source is silent, and the engine    *)
(* asks for coverage at most once in an interval.                          *)
(*                                                                         *)
(* The room has one sensor.  A frame is what it says of the room and how it*)
(* came by it: "out" was seen empty, "faded" is empty because nobody has   *)
(* looked for too long.  The code sees no difference between the two.      *)
(***************************************************************************)
EXTENDS Naturals, Sequences

CONSTANTS
    Size,        \* Hub._MAX_QUEUE
    Interval,    \* coverage_interval_s, in re-fuse ticks
    Heartbeat,   \* the cadence the source declared, in ticks
    Fade,        \* ticks until fusion lets a reading go
    MaxFailures  \* bound: pulls of the coverage provider that raise

\* The defaults: 10 s, 30 s and 90 s.
ASSUME RulesAssumption ==
    /\ Size \in Nat \ {0} /\ Interval \in Nat \ {0}
    /\ Heartbeat \in Nat /\ Fade \in Nat /\ MaxFailures \in Nat
    /\ Heartbeat + Interval <= Fade

VARIABLES
    running,  \* the supervisor has the source running
    silent,   \* ticks since it started or last reported
    occ,      \* fusion's state of the room
    quiet,    \* ticks since the last report
    queue,    \* the engine's queue at the Hub
    cov,      \* _room_coverage[room]
    age,      \* ticks since the last pull of coverage
    seen,     \* _last_seen_occupied[room]
    last,     \* _last[room]
    told,     \* the last edge event that reached the broker
    missed,   \* history: the last edge event met a closed link
    posted,   \* _last_availability[room]
    link,     \* the egress switch is on and the broker answers
    topic,    \* the broker's retained state of the room
    avail,    \* the broker's retained availability
    failures,
    excuse    \* history: since the fade began the sensor came back, or a pull failed

room == <<running, silent, occ, quiet>>
rulesEngine == <<cov, age, seen, last, told, missed, posted>>
broker == <<topic, avail>>
rulesVars == <<room, queue, rulesEngine, link, broker, failures, excuse>>

Seen == {"in", "out", "faded"}
Edge == {"none", "occupied", "vacant"}
Coverage == {"unknown", "watched", "blind"}
Availability == {"none", "online", "offline"}

RulesTypeOK ==
    /\ running \in BOOLEAN /\ link \in BOOLEAN /\ excuse \in BOOLEAN /\ missed \in BOOLEAN
    /\ silent \in 0 .. Heartbeat + 1 /\ quiet \in 0 .. Fade /\ age \in 0 .. Interval
    /\ occ \in Seen \cup {"none"} /\ seen \in BOOLEAN
    /\ queue \in Seq(Seen) /\ Len(queue) <= Size
    /\ cov \in Coverage /\ last \in Edge /\ told \in Edge
    /\ posted \in Availability /\ avail \in Availability
    /\ topic \in Seen \cup {"none", "unknown"}
    /\ failures \in 0 .. MaxFailures

RulesInit ==
    /\ running = TRUE /\ silent = 0 /\ occ = "none" /\ quiet = 0
    /\ queue = <<>>
    /\ cov = "unknown" /\ age = Interval /\ seen = FALSE
    /\ last = "none" /\ told = "none" /\ missed = FALSE /\ posted = "none"
    /\ link = TRUE /\ topic = "none" /\ avail = "none"
    /\ failures = 0 /\ excuse = FALSE

-----------------------------------------------------------------------------
(* The room, its sensor and the clock.                                      *)

\* Hub.publish_nowait: a full queue loses its oldest frame.
Publish(f) ==
    queue' = Append(IF Len(queue) = Size THEN Tail(queue) ELSE queue, f)

\* health_from_source_state, over observe_silence.
Observing == running /\ silent <= Heartbeat

Report(v) ==
    /\ running /\ v \in {"in", "out"}
    /\ occ' = v /\ quiet' = 0 /\ silent' = 0
    /\ Publish(v)
    /\ excuse' = \E i \in DOMAIN queue : queue[i] = "faded"
    /\ UNCHANGED <<running, rulesEngine, link, broker, failures>>

\* The source ends, crashes or is switched off.
Fail ==
    /\ running /\ running' = FALSE
    /\ UNCHANGED <<silent, occ, quiet, queue, rulesEngine, link, broker, failures, excuse>>

\* on_start: running from now on, before it has read anything.
Start ==
    /\ ~running /\ running' = TRUE /\ silent' = 0
    /\ excuse' = TRUE
    /\ UNCHANGED <<occ, quiet, queue, rulesEngine, link, broker, failures>>

Later(clock, cap) == IF clock < cap THEN clock + 1 ELSE clock

\* The re-fuse tick ages the room and publishes it again.
RefuseTick ==
    /\ silent' = Later(silent, Heartbeat + 1)
    /\ quiet' = Later(quiet, Fade)
    /\ age' = Later(age, Interval)
    /\ occ' = IF occ = "in" /\ quiet' = Fade THEN "faded" ELSE occ
    /\ IF occ = "none" THEN UNCHANGED queue ELSE Publish(occ')
    /\ UNCHANGED <<running, cov, seen, last, told, missed, posted, link, broker, failures, excuse>>

-----------------------------------------------------------------------------
(* The engine.                                                              *)

\* _publish through the egress switch and paho: what cannot be sent now is dropped.
Sent(old, new) == IF link THEN new ELSE old

Available_ByLast == cov' # "blind" \/ last = "occupied"  \* mutant: the edge tracker's memory
Available == cov' # "blind" \/ seen'

\* The retained state, unknown for a room nobody watches: sent for every frame.
PostState_OnChange(f) ==    \* mutant: sent when occupancy changes
    topic' = IF seen' # seen THEN Sent(topic, IF Available THEN f ELSE "unknown") ELSE topic
PostState(f) == topic' = Sent(topic, IF Available THEN f ELSE "unknown")

\* _publish_availability, on a change.
PostAvailability ==
    LET word == IF Available THEN "online" ELSE "offline"
    IN  IF cov' # "unknown" /\ posted # word
        THEN posted' = word /\ avail' = Sent(avail, word)
        ELSE UNCHANGED <<posted, avail>>

\* _refresh_coverage: a pull that raises keeps what was known, for a whole interval.
Pull(raises) ==
    IF age < Interval
    THEN ~raises /\ UNCHANGED <<cov, age, failures, excuse>>
    ELSE /\ age' = 0
         /\ IF raises
            THEN /\ failures < MaxFailures /\ failures' = failures + 1
                 /\ excuse' = TRUE /\ UNCHANGED cov
            ELSE /\ cov' = IF Observing THEN "watched" ELSE "blind"
                 /\ UNCHANGED <<failures, excuse>>

\* The edge event goes through the same link and is not retained; `_last` is set
\* whether it was sent or not.  (app.py passes no on_edge.)
Announce(now) == told' = Sent(told, now) /\ missed' = ~link

\* The edge: none from a blind room, none from the first frame.
Flip_Blindly(now) ==        \* mutant: a blind room's frames move the edge tracker
    /\ last' = now
    /\ IF Available /\ last \notin {"none", now} THEN Announce(now) ELSE UNCHANGED <<told, missed>>
Flip(now) ==
    IF Available
    THEN /\ last' = now
         /\ IF last \notin {"none", now} THEN Announce(now) ELSE UNCHANGED <<told, missed>>
    ELSE UNCHANGED <<last, told, missed>>

\* handle
Handle(raises) ==
    /\ queue # <<>> /\ queue' = Tail(queue)
    /\ LET f == Head(queue)
       IN  /\ seen' = (f = "in")
           /\ Pull(raises)
           /\ PostState(f)
           /\ PostAvailability
           /\ Flip(IF f = "in" THEN "occupied" ELSE "vacant")
    /\ UNCHANGED <<room, link>>

\* handle, of another room's frame: coverage is pulled for every room.
HandleOther(raises) ==
    /\ age = Interval
    /\ Pull(raises) /\ UNCHANGED seen
    /\ IF raises THEN UNCHANGED <<posted, avail>> ELSE PostAvailability
    /\ UNCHANGED <<room, queue, last, told, missed, link, topic>>

Toggle ==
    /\ link' = ~link
    /\ UNCHANGED <<room, queue, rulesEngine, broker, failures, excuse>>

-----------------------------------------------------------------------------
RulesNext ==
    \/ \E v \in {"in", "out"} : Report(v)
    \/ Fail \/ Start \/ RefuseTick \/ Toggle
    \/ \E raises \in BOOLEAN : Handle(raises) \/ HandleOther(raises)

RulesSpec == RulesInit /\ [][RulesNext]_rulesVars

\* _refuse_loop ticks for ever and run() takes what is queued.  Sensors, the operator's
\* switch and the broker owe nothing.
FairRulesSpec ==
    /\ RulesSpec
    /\ WF_rulesVars(RefuseTick)
    /\ WF_rulesVars(\E raises \in BOOLEAN : Handle(raises))

-----------------------------------------------------------------------------
\* The engine finds the room left, whether or not the link lets the event through.
Leaves == last = "occupied" /\ last' = "vacant"

(* A room that merely faded is not taken as left, unless its sensor came    *)
(* back before the fade was handled, or coverage could not be read: a source*)
(* that died or fell silent is seen as such before its reading fades.       *)
FadingIsNoDeparture ==
    [][Leaves => Head(queue) = "out" \/ excuse']_rulesVars

(* "A dead camera must never look like somebody leaving" (rules.py).  It    *)
(* does: each new attempt of the supervisor reads as a sensor that watches, *)
(* before it has seen anything.                                             *)
DeadSensorNobodyLeaves == [][Leaves => Head(queue) = "out"]_rulesVars

(* Once the room, its sensor and the link settle, the retained state of the *)
(* room settles on what they say, whatever was dropped before: unknown for a*)
(* room nobody watches.                                                     *)
TopicSettles ==
    \A v \in Seen, watched \in BOOLEAN :
        <>[](link /\ occ = v /\ Observing = watched)
            => <>[](topic = IF watched \/ v = "in" THEN v ELSE "unknown")

(* A departure that no frame announced, because the room was blind or the   *)
(* queue lost it, is announced once the sensor watches an empty room: what  *)
(* was told last is no longer that somebody is in, unless the event itself  *)
(* met a closed link.                                                       *)
DepartureIsTold ==
    <>[](occ = "out" /\ Observing) => <>[](told # "occupied" \/ missed)

(* The same of a link that stays open in the end.  It does not hold: the     *)
(* event is sent once, and one that met a closed link is never sent again.   *)
EveryDepartureIsTold ==
    <>[](link /\ occ = "out" /\ Observing) => <>[](told # "occupied")

(* The retained availability settles too.  It does not: it is sent on a     *)
(* change only, and a change that meets a closed link is never sent again.  *)
AvailabilitySettles ==
    \A watched \in BOOLEAN :
        <>[](link /\ occ = "out" /\ Observing = watched)
            => <>[](avail = IF watched THEN "online" ELSE "offline")
=============================================================================
