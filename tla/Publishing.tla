----------------------------- MODULE Publishing -----------------------------
(***************************************************************************)
(* How one room's state leaves the Core: _ingest, _refuse_once and _publish*)
(* (app.py), with the two tables they write on worker threads, room_states *)
(* (storage.py) and the occupancy log (occupancy_log.py).                  *)
(*                                                                         *)
(* Every sensor source has a task of its own that ingests one event at a   *)
(* time, and the re-fuse tick is one more publisher.  Each holds the state *)
(* fusion gave it across up to two awaits, so publishers overtake each     *)
(* other; `latest`, which every screen reads and the hub is fed from, is   *)
(* set after both.                                                         *)
(*                                                                         *)
(* Rooms share nothing here but the locks of the two tables, so the module *)
(* follows one.  A value is what a state says of the room; its time stamp  *)
(* is `seq`, which counts the values fusion went through.                  *)
(***************************************************************************)
EXTENDS Naturals, FiniteSets

CONSTANTS
    Source,     \* the tasks that ingest events of this room
    Tick,       \* the re-fuse tick
    Value,      \* what a state can say
    Class,      \* Value -> its occupied and confidence, all the tick compares
    Empty,      \* the value a room fades to
    NoValue,
    MaxSeq,     \* bound: values fusion goes through
    MaxFaults   \* bound: writes that fail, and restarts

ASSUME PublishingAssumption ==
    /\ Tick \notin Source
    /\ Empty \in Value /\ NoValue \notin Value
    /\ MaxSeq \in Nat /\ MaxFaults \in Nat

Publisher == Source \cup {Tick}
State == [val : Value, seq : 1 .. MaxSeq]
Nothing == [val |-> NoValue, seq |-> 0]
Row == State \cup {Nothing}

VARIABLES
    fused,    \* what fusion says of the room
    latest,   \* latest[room]
    pub,      \* each publisher: where in _publish, with which state
    stored,   \* the newest room_states row, by its ts
    log,      \* the rows of the occupancy log
    last,     \* OccupancyLog._last[room], and whose claim it is
    past,     \* history: every state fusion has reached
    faults

vars == <<fused, latest, pub, stored, log, last, past, faults>>

(* storing, writing: the worker thread has the row; stored, written: it is  *)
(* done and the loop has not resumed the publisher.  A publisher that was   *)
(* cancelled leaves its thread to finish alone.                             *)
Stage == {"idle", "storing", "stored", "writing", "written"}
Claims == [row : Row, by : Publisher]
Idle == [at |-> "idle", state |-> Nothing, prev |-> [row |-> Nothing, by |-> Tick],
         cancelled |-> FALSE]

Unclaimed == [row |-> Nothing, by |-> Tick]

TypeOK ==
    /\ fused \in Row /\ latest \in Row /\ stored \in Row
    /\ pub \in [Publisher -> [at : Stage, state : Row, prev : Claims, cancelled : BOOLEAN]]
    /\ log \in SUBSET Row
    /\ last \in Claims
    /\ past \in SUBSET State
    /\ faults \in 0 .. MaxFaults

Init ==
    /\ fused = Nothing /\ latest = Nothing /\ stored = Nothing
    /\ pub = [p \in Publisher |-> Idle]
    /\ log = {} /\ last = Unclaimed
    /\ past = {} /\ faults = 0

\* The row readers take for the latest: they order by ts.
Newest(rows) ==
    IF rows = {} THEN Nothing ELSE CHOOSE r \in rows : \A q \in rows : q.seq <= r.seq

-----------------------------------------------------------------------------
(* The steps of _publish that run on the loop.                              *)

\* latest[room] = d, the trackers, the hub: one turn of the loop.
Show(p, rs) ==
    /\ latest' = rs
    /\ pub' = [pub EXCEPT ![p] = Idle]

\* OccupancyLog.claim, on the loop, and the write it may call for.
Claim(p, rs) ==
    IF last.row.val = rs.val
    THEN Show(p, rs) /\ UNCHANGED last
    ELSE /\ last' = [row |-> rs, by |-> p]
         /\ pub' = [pub EXCEPT ![p] =
                       [at |-> "writing", state |-> rs, prev |-> last, cancelled |-> FALSE]]
         /\ UNCHANGED latest

\* _publish up to its first await.
Publish(p, rs, persist) ==
    IF persist
    THEN /\ pub' = [pub EXCEPT ![p] = [Idle EXCEPT !.at = "storing", !.state = rs]]
         /\ UNCHANGED <<latest, last>>
    ELSE Claim(p, rs)

\* Fusion takes an event, or ages: the state keeps its stamp while its value stands.
Fuse(v) ==
    /\ v # fused.val => Cardinality(past) < MaxSeq
    /\ fused' = IF v = fused.val THEN fused
                ELSE [val |-> v, seq |-> Cardinality(past) + 1]
    /\ past' = past \cup {fused'}

Ingest(p, v) ==
    /\ pub[p].at = "idle"
    /\ Fuse(v)
    /\ Publish(p, fused', latest.val # v)
    /\ UNCHANGED <<stored, log, faults>>

\* _refuse_once: persist on a change of class, show in any case.
Refuse_OnChange(v) ==       \* mutant: nothing published while the class stands
    /\ pub[Tick].at = "idle" /\ fused # Nothing
    /\ Fuse(v)
    /\ IF latest = Nothing \/ Class[latest.val] # Class[v]
       THEN Publish(Tick, fused', TRUE)
       ELSE UNCHANGED <<latest, pub, last>>
    /\ UNCHANGED <<stored, log, faults>>
Refuse(v) ==
    /\ pub[Tick].at = "idle" /\ fused # Nothing
    /\ Fuse(v)
    /\ Publish(Tick, fused', latest = Nothing \/ Class[latest.val] # Class[v])
    /\ UNCHANGED <<stored, log, faults>>

Resume(p) ==
    /\ pub[p].at \in {"stored", "written"}
    /\ IF pub[p].at = "stored" THEN Claim(p, pub[p].state)
       ELSE Show(p, pub[p].state) /\ UNCHANGED last
    /\ UNCHANGED <<fused, stored, log, past, faults>>

\* A source is switched off while it waits; what its thread began, it finishes.
Cancel(p) ==
    /\ p \in Source /\ pub[p].at # "idle" /\ ~pub[p].cancelled
    /\ pub' = [pub EXCEPT ![p] = IF @.at \in {"stored", "written"} THEN Idle
                                 ELSE [@ EXCEPT !.cancelled = TRUE]]
    /\ UNCHANGED <<fused, latest, stored, log, last, past, faults>>

-----------------------------------------------------------------------------
(* The worker threads.                                                      *)

ThreadEnds(p, next) ==
    pub' = [pub EXCEPT ![p] = IF @.cancelled THEN Idle ELSE [@ EXCEPT !.at = next]]

StoreRow(p) ==
    /\ pub[p].at = "storing"
    /\ stored' = IF stored.seq <= pub[p].state.seq THEN pub[p].state ELSE stored
    /\ ThreadEnds(p, "stored")
    /\ UNCHANGED <<fused, latest, log, last, past, faults>>

WriteRow(p) ==
    /\ pub[p].at = "writing"
    /\ log' = log \cup {pub[p].state}
    /\ ThreadEnds(p, "written")
    /\ UNCHANGED <<fused, latest, stored, last, past, faults>>

Fault == faults < MaxFaults /\ faults' = faults + 1

\* insert_state raises: the publisher gives up, and the next one compares anew.
StoreFails(p) ==
    /\ pub[p].at = "storing" /\ Fault
    /\ pub' = [pub EXCEPT ![p] = Idle]
    /\ UNCHANGED <<fused, latest, stored, log, last, past>>

\* OccupancyLog.write raises: the previous last row is put back unless something newer
\* was claimed.
PutBack_Never(p) == last    \* mutant: the claim of a row that was never written stands
PutBack(p) == IF last.by = p /\ last.row = pub[p].state THEN pub[p].prev ELSE last

WriteFails(p) ==
    /\ pub[p].at = "writing" /\ Fault
    /\ last' = PutBack(p)
    /\ pub' = [pub EXCEPT ![p] = Idle]
    /\ UNCHANGED <<fused, latest, stored, log, past>>

\* The Core restarts: the log survives and warms _last, the rest starts afresh.
Restart ==
    /\ Fault
    /\ fused' = Nothing /\ latest' = Nothing
    /\ pub' = [p \in Publisher |-> Idle]
    /\ last' = [row |-> Newest(log), by |-> Tick]
    /\ UNCHANGED <<stored, log, past>>

-----------------------------------------------------------------------------
Thread(p) == StoreRow(p) \/ WriteRow(p)

Next ==
    \/ \E p \in Source : Cancel(p) \/ \E v \in Value : Ingest(p, v)
    \/ \E v \in {fused.val, Empty} : v # NoValue /\ Refuse(v)
    \/ \E p \in Publisher : Resume(p) \/ Thread(p) \/ StoreFails(p) \/ WriteFails(p)
    \/ Restart

Spec == Init /\ [][Next]_vars

\* The loop comes back to a publisher whose thread is done, the threads run, and
\* _refuse_loop ticks for ever.  Sensors owe nothing.
Fairness ==
    /\ \A p \in Publisher : WF_vars(Resume(p)) /\ WF_vars(Thread(p))
    /\ WF_vars(Refuse(fused.val))

FairSpec == Spec /\ Fairness

-----------------------------------------------------------------------------
(* A screen, an API or the hub reads `latest`, and it keeps the promise of a*)
(* Board: it shows states fusion reached, and once fusion settles, the one  *)
(* it settled on, whichever publisher came last, was cancelled or failed.   *)
Screen == INSTANCE Board WITH truth <- fused, past <- past, shown <- latest

ScreenIsABoard == Screen!Spec

(* What the log believes it last wrote is written, or still being written:  *)
(* otherwise a reading equal to it would be dropped as "unchanged" and the  *)
(* log would never say so.                                                  *)
LastIsLogged ==
    last.row # Nothing =>
        \/ last.row \in log
        \/ \E p \in Publisher : pub[p].at = "writing" /\ pub[p].state = last.row

(* With nothing in flight, a log whose last row says what fusion says shows *)
(* it to its readers, who order by ts.  If it does not, no tick repairs it: *)
(* claim takes every later reading for unchanged.                           *)
TimelineIsCurrent ==
    (\A p \in Publisher : pub[p].at = "idle") /\ last.row.val = fused.val
        => Newest(log).val = fused.val

(* With nothing in flight and the screen showing what fusion says, the      *)
(* newest row of room_states says it too: the change gate compares with     *)
(* `latest` and has nothing more to write.                                  *)
HistoryIsCurrent ==
    (\A p \in Publisher : pub[p].at = "idle") /\ latest = fused /\ latest # Nothing
        => stored.val = fused.val
=============================================================================
