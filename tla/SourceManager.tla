---------------------------- MODULE SourceManager ----------------------------
(***************************************************************************)
(* The life of the sensor sources: SourceManager (sourcemanager.py) creates*)
(* and cancels one asyncio task per source, `supervised`                   *)
(* (provider_runtime.py) is the loop each task runs, and SourceSupervisor  *)
(* keeps the health that screens, coverage and agents read.                *)
(*                                                                         *)
(* Everything runs on one event loop.  A request keeps the loop until it   *)
(* awaits, and the only await of the manager is in _kill, which waits for  *)
(* the task it cancelled; whatever other request arrives meanwhile runs    *)
(* then.                                                                   *)
(***************************************************************************)
EXTENDS Naturals, FiniteSets

CONSTANTS
    Name,         \* source names
    Handler,      \* requests that may be in flight together
    FastAttempts, \* FAST_ATTEMPTS: failures before a source counts as failed
    Overlap       \* may a request arrive while another one awaits?

ASSUME SourceAssumption ==
    /\ FastAttempts \in Nat \ {0}
    /\ Overlap \in BOOLEAN
    /\ "no" \notin Name
    /\ "nobody" \notin Handler

(***************************************************************************)
(* A task is named by its source and a slot.  A request in flight waits for*)
(* at most one cancelled task, so one slot more than there are requests is *)
(* always enough.                                                          *)
(***************************************************************************)
Slot == Handler \cup {"spare"}
Task == Name \X Slot
NoTask == <<"no", "task">>
Nobody == "nobody"
NoName == "no name"

VARIABLES
    running,     \* _running
    registered,  \* names in _factories (and in _enabled)
    enabled,     \* _enabled
    tasks,       \* _tasks: Name -> Task, or NoTask when absent
    task,        \* every task: where its coroutine is, and whether it was cancelled
    health,      \* the supervisor's row for each name
    req,         \* the request each handler is serving
    loop         \* the handler that has the event loop, or Nobody

vars == <<running, registered, enabled, tasks, task, health, req, loop>>

State == {"stopped", "running", "retrying", "failed", "completed"}
Health == {r \in [known : BOOLEAN, state : State, failures : 0 .. FastAttempts] :
              /\ r.state = "stopped" => r.failures = 0
              /\ r.state \in {"retrying", "completed"} => r.failures # 0
              /\ r.state = "failed" => r.failures = FastAttempts}
Blank(known) == [known |-> known, state |-> "stopped", failures |-> 0]
NoHealth == Blank(FALSE)

(* new: created, never scheduled; events: inside the source's generator;    *)
(* unwinding: the generator's own clean-up after a cancel; closing: in      *)
(* aclose(); backoff: sleeping before the next attempt.                     *)
Stage == {"new", "events", "unwinding", "closing", "backoff", "done"}
Ended == [at |-> "done", cancelled |-> FALSE]
Fresh == [at |-> "new", cancelled |-> FALSE]

Op == {"idle", "stop", "off", "restart", "unregister", "reregister_off", "reregister_on"}
NoReq == [op |-> "idle", name |-> NoName, todo |-> {}, wait |-> NoTask]

TypeOK ==
    /\ running \in BOOLEAN
    /\ registered \in SUBSET Name
    /\ enabled \in [Name -> BOOLEAN]
    /\ tasks \in [Name -> Task \cup {NoTask}]
    /\ task \in [Task -> [at : Stage, cancelled : BOOLEAN]]
    /\ health \in [Name -> Health]
    /\ req \in [Handler -> [op : Op, name : Name \cup {NoName}, todo : SUBSET Name,
                            wait : Task \cup {NoTask}]]
    /\ loop \in Handler \cup {Nobody}

Init ==
    /\ running = FALSE
    /\ registered = {}
    /\ enabled = [n \in Name |-> FALSE]
    /\ tasks = [n \in Name |-> NoTask]
    /\ task = [t \in Task |-> Ended]
    /\ health = [n \in Name |-> NoHealth]
    /\ req = [h \in Handler |-> NoReq]
    /\ loop = Nobody

Alive(t) == task[t].at # "done"
ShouldRun(n) == running /\ n \in registered /\ enabled[n]

-----------------------------------------------------------------------------
(* _spawn: a task for every name of S that has none yet. *)

Free(t) == ~Alive(t) /\ \A h \in Handler : req[h].wait # t
NewTask(n) == <<n, CHOOSE s \in Slot : Free(<<n, s>>)>>
Missing(S) == {n \in S : tasks[n] = NoTask}

Spawn(S) ==
    /\ \A n \in Missing(S) : \E s \in Slot : Free(<<n, s>>)
    /\ tasks' = [n \in Name |-> IF n \in Missing(S) THEN NewTask(n) ELSE tasks[n]]
    /\ task' = [t \in Task |->
                   IF t[1] \in Missing(S) /\ t = NewTask(t[1]) THEN Fresh ELSE task[t]]

NoSpawn == UNCHANGED <<tasks, task>>

-----------------------------------------------------------------------------
(* SourceSupervisor's callbacks; a forgotten name has no row to write to.   *)

Ensured(n) == [health EXCEPT ![n] = IF @.known THEN @ ELSE Blank(TRUE)]
OnStart(n) == [health EXCEPT ![n] =
                  [known |-> TRUE, state |-> "running",
                   failures |-> IF @.known THEN @.failures ELSE 0]]
OnStop_KeepsState(n) == [health EXCEPT ![n].failures = 0]   \* mutant
OnStop(n) == [health EXCEPT ![n] =
                 IF @.known THEN Blank(TRUE) ELSE @]

\* The counter saturates where the code stops telling values apart.
Count(f) == IF f < FastAttempts THEN f + 1 ELSE f
OnFailure(n, newOutage) ==
    LET f == Count(IF newOutage THEN 0 ELSE health[n].failures)
    IN  [health EXCEPT ![n] =
            IF @.known
            THEN [@ EXCEPT !.failures = f,
                           !.state = IF f >= FastAttempts THEN "failed" ELSE "retrying"]
            ELSE @]
OnCompleted(n) ==
    [health EXCEPT ![n] =
        IF @.known
        THEN [@ EXCEPT !.failures = Count(health[n].failures), !.state = "completed"]
        ELSE @]

-----------------------------------------------------------------------------
(* Requests that never await. *)

Idle == \A h \in Handler : req[h].op = "idle"
Arrives == loop = Nobody /\ (Overlap \/ Idle)
Atomic == Arrives /\ UNCHANGED <<req, loop>>

\* add_camera, _ensure_ble_source and _register_ha_presence_source: a name not in
\* the roster yet.
Register(n, on) ==
    /\ Atomic
    /\ n \notin registered
    /\ registered' = registered \cup {n}
    /\ enabled' = [enabled EXCEPT ![n] = on]
    /\ health' = Ensured(n)
    /\ IF on /\ running THEN Spawn({n}) ELSE NoSpawn
    /\ UNCHANGED running

Start ==
    /\ Atomic
    /\ running' = TRUE
    /\ Spawn({n \in registered : enabled[n]})
    /\ UNCHANGED <<registered, enabled, health>>

Enable(n) ==
    /\ Atomic
    /\ n \in registered
    /\ enabled' = [enabled EXCEPT ![n] = TRUE]
    /\ IF running THEN Spawn({n}) ELSE NoSpawn
    /\ UNCHANGED <<running, registered, health>>

-----------------------------------------------------------------------------
(* Requests that kill: the request takes the loop, kills the names in todo  *)
(* one by one, and finishes.                                                *)

Begin(h, op, n, todo) ==
    /\ Arrives /\ req[h].op = "idle"
    /\ req' = [req EXCEPT ![h] = [op |-> op, name |-> n, todo |-> todo, wait |-> NoTask]]
    /\ loop' = h
    /\ UNCHANGED <<registered, tasks, task, health>>

Stop(h) ==
    /\ Begin(h, "stop", NoName, {n \in Name : tasks[n] # NoTask})
    /\ running' = FALSE
    /\ UNCHANGED enabled

Disable_Lazy(h, n) ==   \* mutant: the switch is flipped, the task is left to notice
    /\ n \in registered
    /\ Begin(h, "off", n, {})
    /\ enabled' = [enabled EXCEPT ![n] = FALSE]
    /\ UNCHANGED running

Disable(h, n) ==
    /\ n \in registered
    /\ Begin(h, "off", n, {n})
    /\ enabled' = [enabled EXCEPT ![n] = FALSE]
    /\ UNCHANGED running

Restart(h, n) ==
    /\ n \in registered
    /\ Begin(h, "restart", n, {n})
    /\ UNCHANGED <<running, enabled>>

\* unregister, alone (delete_camera) or followed by a register (re-calibration
\* and rebind boot the camera off, a calibration walk boots it on).
Unregister(h, n, op) ==
    /\ n \in registered
    /\ op \in {"unregister", "reregister_off", "reregister_on"}
    /\ Begin(h, op, n, {n})
    /\ UNCHANGED <<running, enabled>>

\* _kill up to its await; with no task there is nothing to wait for.
Kill(h, n) ==
    /\ loop = h /\ n \in req[h].todo
    /\ IF tasks[n] = NoTask
       THEN /\ health' = OnStop(n)
            /\ req' = [req EXCEPT ![h].todo = @ \ {n}]
            /\ UNCHANGED <<tasks, task, loop>>
       ELSE /\ tasks' = [tasks EXCEPT ![n] = NoTask]
            /\ task' = [task EXCEPT ![tasks[n]].cancelled = TRUE]
            /\ req' = [req EXCEPT ![h].wait = tasks[n]]
            /\ loop' = Nobody
            /\ UNCHANGED health
    /\ UNCHANGED <<running, registered, enabled>>

Unwaited_Impatient(h) == TRUE   \* mutant: the kill does not wait for the teardown
Unwaited(h) == ~Alive(req[h].wait)

\* _kill after its await: the task has ended (the 5 s timeout only cancels it again,
\* and waits on).
Killed(h) ==
    /\ loop = Nobody /\ req[h].wait # NoTask
    /\ Unwaited(h)
    /\ health' = OnStop(req[h].wait[1])
    /\ req' = [req EXCEPT ![h].wait = NoTask, ![h].todo = @ \ {req[h].wait[1]}]
    /\ loop' = h
    /\ UNCHANGED <<running, registered, enabled, tasks, task>>

(* What a request does once everything it had to kill is dead.             *)

Ready(h, ops) ==
    /\ loop = h /\ req[h].todo = {} /\ req[h].op \in ops
    /\ req' = [req EXCEPT ![h] = NoReq]
    /\ loop' = Nobody
    /\ UNCHANGED running

Finish(h) ==
    /\ Ready(h, {"stop", "off"})
    /\ UNCHANGED <<registered, enabled, tasks, task, health>>

Wanted(n) == running /\ enabled[n]

FinishRestart(h, n) ==
    /\ Ready(h, {"restart"})
    /\ req[h].name = n
    /\ IF Wanted(n) THEN Spawn({n}) ELSE NoSpawn
    /\ UNCHANGED <<registered, enabled, health>>

\* unregister's pops and forget, and for a reregister the register that follows at
\* once (the factory is a new one; enabled is what the caller boots the camera with).
FinishUnregister(h, n) ==
    LET op == req[h].op
        again == op # "unregister"
        on == op = "reregister_on"
    IN  /\ Ready(h, {"unregister", "reregister_off", "reregister_on"})
        /\ req[h].name = n
        /\ registered' = IF again THEN registered \cup {n} ELSE registered \ {n}
        /\ enabled' = [enabled EXCEPT ![n] = on]
        /\ health' = [health EXCEPT ![n] = Blank(again)]
        /\ IF on /\ running THEN Spawn({n}) ELSE NoSpawn

-----------------------------------------------------------------------------
(* The task: _run around supervised.                                        *)

Turn == loop = Nobody /\ UNCHANGED <<running, registered, enabled, req, loop>>
At(t, stage) == task[t].at = stage /\ ~task[t].cancelled
CancelledAt(t, stage) == task[t].at = stage /\ task[t].cancelled
Move(t, stage) == task' = [task EXCEPT ![t].at = stage] /\ UNCHANGED tasks

\* _run's finally: only the current task takes itself off the roster.
Popped_Any(t) == [tasks EXCEPT ![t[1]] = NoTask]   \* mutant: pops whoever is there
Popped_Never(t) == tasks   \* mutant: the dead task stays in _tasks
Popped(t) == [n \in Name |-> IF tasks[n] = t THEN NoTask ELSE tasks[n]]
Exit(t) == task' = [task EXCEPT ![t] = Ended] /\ tasks' = Popped(t)

LoopHead(t) ==
    IF ShouldRun(t[1])
    THEN Move(t, "events") /\ health' = OnStart(t[1])
    ELSE Exit(t) /\ health' = OnStop(t[1])

\* A task that finds its factory gone dies of a KeyError.
First(t) ==
    /\ Turn /\ At(t, "new")
    /\ IF t[1] \in registered THEN LoopHead(t) ELSE Exit(t) /\ UNCHANGED health

Wake(t) == Turn /\ At(t, "backoff") /\ LoopHead(t)

\* An event HEALTHY_RUN_S or more after the start ends the outage.
LongRun(t) ==
    /\ Turn /\ At(t, "events")
    /\ health' = [health EXCEPT ![t[1]].failures = 0]
    /\ UNCHANGED <<tasks, task>>

\* The source, its factory or the event handler raises.
Fail(t) ==
    /\ Turn /\ At(t, "events")
    /\ \E newOutage \in BOOLEAN : health' = OnFailure(t[1], newOutage)
    /\ Move(t, "closing")

\* After the attempt: leave the loop, or sleep before the next one.
Rest_GivesUp(t, row) == Exit(t) /\ health' = row   \* mutant: one failure is the end
Rest(t, row) ==
    IF ShouldRun(t[1])
    THEN Move(t, "backoff") /\ health' = row
    ELSE Exit(t) /\ health' = OnStop(t[1])

Closed(t) == Turn /\ At(t, "closing") /\ Rest(t, health)

\* The generator ends by itself; there is nothing to close.
Complete(t) == Turn /\ At(t, "events") /\ Rest(t, OnCompleted(t[1]))

\* CancelledError reaches the task: thrown into the generator, which may take time
\* over its own clean-up, or into on_event, and then the generator is closed.
CancelRunning(t) ==
    /\ Turn /\ CancelledAt(t, "events")
    /\ \/ Move(t, "unwinding") /\ UNCHANGED health
       \/ Move(t, "closing") /\ health' = OnStop(t[1])

CancelUnwound(t) ==
    /\ Turn /\ CancelledAt(t, "unwinding")
    /\ Exit(t) /\ health' = OnStop(t[1])

CancelElsewhere(t) ==
    /\ Turn /\ \E stage \in {"new", "closing", "backoff"} : CancelledAt(t, stage)
    /\ Exit(t) /\ UNCHANGED health

-----------------------------------------------------------------------------
Request ==
    \/ Start
    \/ \E n \in Name : Enable(n) \/ \E on \in BOOLEAN : Register(n, on)
    \/ \E h \in Handler : Stop(h)
    \/ \E h \in Handler, n \in Name :
          Disable(h, n) \/ Restart(h, n) \/ \E op \in Op : Unregister(h, n, op)

Serve(h) ==
    \/ Killed(h) \/ Finish(h)
    \/ \E n \in Name : Kill(h, n) \/ FinishRestart(h, n) \/ FinishUnregister(h, n)

Cancel(t) == CancelRunning(t) \/ CancelUnwound(t) \/ CancelElsewhere(t)
Source(t) == LongRun(t) \/ Fail(t) \/ Complete(t)

Next ==
    \/ Request
    \/ \E h \in Handler : Serve(h)
    \/ \E t \in Task : First(t) \/ Wake(t) \/ Closed(t) \/ Cancel(t) \/ Source(t)

\* Requests and what a source does are free.  The loop serves what is ready, and a
\* task just created is scheduled before any request that arrives after it.
Fairness ==
    /\ \A h \in Handler : WF_vars(Serve(h))
    /\ \A t \in Task : /\ SF_vars(First(t))
                       /\ WF_vars(Wake(t)) /\ WF_vars(Closed(t)) /\ WF_vars(Cancel(t))

Spec == Init /\ [][Next]_vars
FairSpec == Spec /\ Fairness

-----------------------------------------------------------------------------
(* A running coroutine that was not cancelled is the one _tasks names.  Any *)
(* other would feed events for ever: nothing but _tasks can reach a task to *)
(* cancel it, and two could have been created for one source.               *)
NoLeakedTask == \A t \in Task : Alive(t) /\ ~task[t].cancelled => tasks[t[1]] = t

(* What _tasks names is running and not condemned: `active` is true of it,  *)
(* and a spawn that finds it there rightly creates nothing.                 *)
CurrentIsLive ==
    \A n \in Name : tasks[n] # NoTask =>
        tasks[n][1] = n /\ Alive(tasks[n]) /\ ~task[tasks[n]].cancelled

(* No source is open twice: a second reader of a camera or a serial port    *)
(* starts only after the first, told to stop, has finished its clean-up.    *)
Holding(t) == At(t, "events") \/ task[t].at \in {"unwinding", "closing"}
AtMostOneInstance == \A n \in Name : Cardinality({t \in Task : t[1] = n /\ Holding(t)}) <= 1

(* With no request in flight, a source that is switched off, or gone from   *)
(* the roster, or whose manager is stopped, is not running.                 *)
OffIsDead ==
    Idle => \A t \in Task : task[t].at \in {"new", "done"} \/ ShouldRun(t[1])

(* The supervisor says "running" of a source of the roster exactly while    *)
(* its generator runs.  healthy_sources, coverage and the screens ask       *)
(* nothing else.                                                            *)
Runs(t) == task[t].at \in {"events", "unwinding"}
HealthIsHonest ==
    \A n \in registered :
        health[n].state = "running" <=> \E t \in Task : t[1] = n /\ Runs(t)

(* An enabled source is tried again after every failure, or is switched     *)
(* off: no sequence of crashes, clean ends and restarts leaves it for dead. *)
Producing(n) == tasks[n] # NoTask /\ task[tasks[n]].at = "events"
Recovers == \A n \in Name : ShouldRun(n) ~> Producing(n) \/ ~ShouldRun(n)
=============================================================================
