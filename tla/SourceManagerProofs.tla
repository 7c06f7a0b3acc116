------------------------- MODULE SourceManagerProofs -------------------------
(***************************************************************************)
(* Theorems about SourceManager: for every set of sources, any number of   *)
(* requests in flight and any interleaving of them, the task table and the *)
(* tasks agree, and every health row is a possible one; and for as long as *)
(* no request overtook another, one instance of a source is open at most,  *)
(* what is off is dead and the health row tells the truth.                 *)
(***************************************************************************)
EXTENDS SourceManagerInTurn, FiniteSetTheorems, TLAPS

\* What the task table promises; it needs nothing of the other variables.
TableOK ==
    /\ tasks \in [Name -> Task \cup {NoTask}]
    /\ task \in [Task -> [at : Stage, cancelled : BOOLEAN]]
    /\ NoLeakedTask
    /\ CurrentIsLive

\* A live attempt has no fault on record, because only it could have recorded one.
Attended ==
    \A t \in Task : At(t, "events") => health[t[1]].state \in {"running", "stopped"}

IInv == TypeOK /\ NoLeakedTask /\ CurrentIsLive /\ Attended

-----------------------------------------------------------------------------
LEMMA NoTaskIsNone == NoTask \notin Task
    BY SourceAssumption DEF NoTask, Task

LEMMA TaskParts ==
    ASSUME NEW t \in Task
    PROVE  /\ t = <<t[1], t[2]>> /\ t[1] \in Name /\ t[2] \in Slot
           /\ t # NoTask
    BY NoTaskIsNone DEF Task

-----------------------------------------------------------------------------
(* The four things a step does to the table.                                *)

LEMMA SpawnKeepsTable ==
    ASSUME TableOK, NEW S \in SUBSET Name, Spawn(S)
    PROVE  /\ TableOK'
           /\ \A t \in Task : At(t, "events")' => At(t, "events")
<1> USE DEF TableOK
<1> DEFINE New == Missing(S)
<1>1. New \subseteq Name /\ \A n \in New : tasks[n] = NoTask
    BY DEF Missing
<1>2. ASSUME NEW n \in New
      PROVE  NewTask(n) \in Task /\ NewTask(n)[1] = n /\ ~Alive(NewTask(n))
  <2>1. \E s \in Slot : Free(<<n, s>>)
      BY DEF Spawn
  <2>2. PICK s \in Slot : NewTask(n) = <<n, s>> /\ Free(<<n, s>>)
      BY <2>1 DEF NewTask
  <2> QED BY <1>1, <2>2 DEF Task, Free
<1>3. tasks' = [n \in Name |-> IF n \in New THEN NewTask(n) ELSE tasks[n]]
    BY DEF Spawn
<1>4. \A t \in Task : task'[t] = IF t[1] \in New /\ t = NewTask(t[1]) THEN Fresh ELSE task[t]
    BY DEF Spawn
<1>5. Fresh \in [at : Stage, cancelled : BOOLEAN] /\ Fresh.at = "new" /\ ~Fresh.cancelled
    BY DEF Fresh, Stage
<1> HIDE DEF New
<1>6. tasks' \in [Name -> Task \cup {NoTask}]
    BY <1>2, <1>3
<1>7. task' \in [Task -> [at : Stage, cancelled : BOOLEAN]]
    BY <1>5 DEF Spawn
<1>8. NoLeakedTask'
  <2> SUFFICES ASSUME NEW t \in Task, Alive(t)', ~task'[t].cancelled
               PROVE  tasks'[t[1]] = t
      BY DEF NoLeakedTask
  <2>1. CASE t[1] \in New /\ t = NewTask(t[1])
      BY <2>1, <1>3, TaskParts
  <2>2. CASE ~(t[1] \in New /\ t = NewTask(t[1]))
    <3>1. tasks[t[1]] = t
        BY <2>2, <1>4 DEF NoLeakedTask, Alive
    <3>2. t[1] \in Name /\ t[1] \notin New
        BY <3>1, <1>1, TaskParts
    <3> QED BY <3>1, <3>2, <1>3
  <2> QED BY <2>1, <2>2
<1>9. CurrentIsLive'
  <2> SUFFICES ASSUME NEW n \in Name, tasks'[n] # NoTask
               PROVE  /\ tasks'[n][1] = n /\ Alive(tasks[n])'
                      /\ ~task'[tasks'[n]].cancelled
      BY DEF CurrentIsLive, Alive
  <2>1. CASE n \in New
      BY <2>1, <1>2, <1>3, <1>4, <1>5 DEF Alive
  <2>2. CASE n \notin New
    <3>1. /\ tasks'[n] = tasks[n] /\ tasks[n] \in Task
          /\ tasks[n][1] = n /\ Alive(tasks[n]) /\ ~task[tasks[n]].cancelled
        BY <2>2, <1>3 DEF CurrentIsLive
    <3>2. task'[tasks[n]] = task[tasks[n]]
        BY <2>2, <3>1, <1>4
    <3> QED BY <3>1, <3>2 DEF Alive
  <2> QED BY <2>1, <2>2
<1>10. \A t \in Task : At(t, "events")' => At(t, "events")
    BY <1>4, <1>5 DEF At
<1> QED BY <1>6, <1>7, <1>8, <1>9, <1>10

LEMMA MoveKeepsTable ==
    ASSUME TableOK, NEW t \in Task, Alive(t),
           NEW stage \in Stage \ {"done"}, Move(t, stage)
    PROVE  /\ TableOK'
           /\ \A u \in Task : At(u, "events")' =>
                 IF u = t THEN stage = "events" ELSE At(u, "events")
<1> USE DEF TableOK
<1>1. tasks' = tasks /\ task' = [task EXCEPT ![t].at = stage]
    BY DEF Move
<1>2. task' \in [Task -> [at : Stage, cancelled : BOOLEAN]]
    BY <1>1
<1>3. \A u \in Task : /\ task'[u].cancelled = task[u].cancelled
                      /\ Alive(u)' = Alive(u)
                      /\ task'[u].at = IF u = t THEN stage ELSE task[u].at
    BY <1>1 DEF Alive
<1>4. NoLeakedTask'
    BY <1>1, <1>3 DEF NoLeakedTask
<1>5. CurrentIsLive'
    BY <1>1, <1>3 DEF CurrentIsLive, Alive
<1> QED BY <1>1, <1>2, <1>3, <1>4, <1>5 DEF At

LEMMA ExitKeepsTable ==
    ASSUME TableOK, NEW t \in Task, Exit(t)
    PROVE  /\ TableOK'
           /\ \A u \in Task : At(u, "events")' => u # t /\ At(u, "events")
<1> USE DEF TableOK
<1>1. /\ task' = [task EXCEPT ![t] = Ended]
      /\ tasks' = [n \in Name |-> IF tasks[n] = t THEN NoTask ELSE tasks[n]]
    BY DEF Exit, Popped
<1>2. Ended \in [at : Stage, cancelled : BOOLEAN] /\ Ended.at = "done"
    BY DEF Ended, Stage
<1>3. /\ task' \in [Task -> [at : Stage, cancelled : BOOLEAN]]
      /\ tasks' \in [Name -> Task \cup {NoTask}]
    BY <1>1, <1>2
<1>4. ~Alive(t)' /\ \A u \in Task : u # t => task'[u] = task[u]
    BY <1>1, <1>2 DEF Alive
<1>5. NoLeakedTask'
  <2> SUFFICES ASSUME NEW u \in Task, Alive(u)', ~task'[u].cancelled
               PROVE  tasks'[u[1]] = u
      BY DEF NoLeakedTask
  <2>1. u # t /\ tasks[u[1]] = u
      BY <1>4 DEF NoLeakedTask, Alive
  <2> QED BY <2>1, <1>1, TaskParts
<1>6. CurrentIsLive'
    BY <1>1, <1>4 DEF CurrentIsLive, Alive
<1>7. \A u \in Task : At(u, "events")' => u # t /\ At(u, "events")
    BY <1>4 DEF At, Alive
<1> QED BY <1>3, <1>5, <1>6, <1>7

\* What a kill does to the table: the current task is condemned and taken off it.
LEMMA CondemnKeepsTable ==
    ASSUME TableOK, NEW n \in Name, tasks[n] # NoTask,
           tasks' = [tasks EXCEPT ![n] = NoTask],
           task' = [task EXCEPT ![tasks[n]].cancelled = TRUE]
    PROVE  /\ TableOK'
           /\ \A u \in Task : At(u, "events")' => At(u, "events")
<1> USE DEF TableOK
<1>1. tasks[n] \in Task /\ tasks[n][1] = n
    BY DEF CurrentIsLive
<1>2. /\ task' \in [Task -> [at : Stage, cancelled : BOOLEAN]]
      /\ tasks' \in [Name -> Task \cup {NoTask}]
    BY <1>1
<1>3. /\ task'[tasks[n]].cancelled
      /\ \A u \in Task : task'[u].at = task[u].at
      /\ \A u \in Task : u # tasks[n] => task'[u] = task[u]
    BY <1>1
<1>4. NoLeakedTask'
  <2> SUFFICES ASSUME NEW u \in Task, Alive(u)', ~task'[u].cancelled
               PROVE  tasks'[u[1]] = u
      BY DEF NoLeakedTask
  <2>1. u # tasks[n] /\ tasks[u[1]] = u
      BY <1>3 DEF NoLeakedTask, Alive
  <2>2. u[1] # n /\ u[1] \in Name
      BY <2>1, TaskParts
  <2> QED BY <2>1, <2>2
<1>5. CurrentIsLive'
  <2> SUFFICES ASSUME NEW m \in Name, tasks'[m] # NoTask
               PROVE  /\ tasks'[m][1] = m /\ Alive(tasks[m])'
                      /\ ~task'[tasks'[m]].cancelled
      BY DEF CurrentIsLive, Alive
  <2>1. m # n /\ tasks'[m] = tasks[m] /\ tasks[m] # NoTask
      BY DEF NoLeakedTask
  <2>2. /\ tasks[m] \in Task /\ tasks[m][1] = m /\ Alive(tasks[m])
        /\ ~task[tasks[m]].cancelled
      BY <2>1 DEF CurrentIsLive
  <2>3. task'[tasks[m]] = task[tasks[m]]
      BY <2>1, <2>2, <1>1, <1>3
  <2> QED BY <2>1, <2>2, <2>3 DEF Alive
<1>6. \A u \in Task : At(u, "events")' => At(u, "events")
    BY <1>3 DEF At
<1> QED BY <1>2, <1>4, <1>5, <1>6

-----------------------------------------------------------------------------
(* The supervisor's callbacks write one row, and write a possible one.      *)

LEMMA CountBounds ==
    ASSUME NEW f \in 0 .. FastAttempts
    PROVE  /\ Count(f) \in 1 .. FastAttempts
           /\ Count(f) >= FastAttempts => Count(f) = FastAttempts
    BY SourceAssumption DEF Count

LEMMA RowWrite ==
    ASSUME health \in [Name -> Health], NEW n \in Name, NEW r \in Health
    PROVE  /\ [health EXCEPT ![n] = r] \in [Name -> Health]
           /\ \A m \in Name : [health EXCEPT ![n] = r][m] = IF m = n THEN r ELSE health[m]
    OBVIOUS

LEMMA BlankRow ==
    ASSUME NEW known \in BOOLEAN
    PROVE  Blank(known) \in Health /\ Blank(known).state = "stopped"
    BY SourceAssumption DEF Blank, Health, State

\* A callback that may only stop the row, or leave it.
LEMMA StopRow ==
    ASSUME health \in [Name -> Health], NEW n \in Name
    PROVE  /\ OnStop(n) \in [Name -> Health]
           /\ \A m \in Name : OnStop(n)[m] = health[m] \/ OnStop(n)[m].state = "stopped"
<1> DEFINE r == IF health[n].known THEN Blank(TRUE) ELSE health[n]
<1>1. r \in Health /\ (r = health[n] \/ r.state = "stopped")
    BY BlankRow
<1>2. OnStop(n) = [health EXCEPT ![n] = r]
    BY DEF OnStop
<1> HIDE DEF r
<1> QED BY <1>1, <1>2, RowWrite

LEMMA EnsuredRow ==
    ASSUME health \in [Name -> Health], NEW n \in Name
    PROVE  /\ Ensured(n) \in [Name -> Health]
           /\ \A m \in Name : Ensured(n)[m] = health[m] \/ Ensured(n)[m].state = "stopped"
<1> DEFINE r == IF health[n].known THEN health[n] ELSE Blank(TRUE)
<1>1. r \in Health /\ (r = health[n] \/ r.state = "stopped")
    BY BlankRow
<1>2. Ensured(n) = [health EXCEPT ![n] = r]
    BY DEF Ensured
<1> HIDE DEF r
<1> QED BY <1>1, <1>2, RowWrite

LEMMA StartRow ==
    ASSUME health \in [Name -> Health], NEW n \in Name
    PROVE  /\ OnStart(n) \in [Name -> Health]
           /\ OnStart(n)[n].state = "running"
           /\ \A m \in Name : m # n => OnStart(n)[m] = health[m]
<1> DEFINE r == [known |-> TRUE, state |-> "running",
                 failures |-> IF health[n].known THEN health[n].failures ELSE 0]
<1>1. r \in Health /\ r.state = "running"
    BY SourceAssumption DEF Health, State
<1>2. OnStart(n) = [health EXCEPT ![n] = r]
    BY DEF OnStart
<1> HIDE DEF r
<1> QED BY <1>1, <1>2, RowWrite

LEMMA FailureRow ==
    ASSUME health \in [Name -> Health], NEW n \in Name, NEW newOutage \in BOOLEAN
    PROVE  /\ OnFailure(n, newOutage) \in [Name -> Health]
           /\ \A m \in Name : m # n => OnFailure(n, newOutage)[m] = health[m]
<1> DEFINE f == Count(IF newOutage THEN 0 ELSE health[n].failures)
           r == IF health[n].known
                THEN [health[n] EXCEPT !.failures = f,
                                       !.state = IF f >= FastAttempts THEN "failed" ELSE "retrying"]
                ELSE health[n]
<1>1. f \in 1 .. FastAttempts /\ (f >= FastAttempts => f = FastAttempts)
    BY CountBounds, SourceAssumption DEF Health
<1>2. OnFailure(n, newOutage) = [health EXCEPT ![n] = r]
    BY DEF OnFailure
<1> HIDE DEF f
<1>3. CASE health[n].known
  <2> DEFINE st == IF f >= FastAttempts THEN "failed" ELSE "retrying"
  <2>1. st \in State /\ st # "stopped" /\ (st = "failed" => f = FastAttempts)
      BY <1>1 DEF State
  <2>2. r = [known |-> health[n].known, state |-> st, failures |-> f]
      BY <1>3 DEF Health
  <2> HIDE DEF st, r
  <2>3. r \in Health
      BY <1>1, <2>1, <2>2, SourceAssumption DEF Health
  <2> QED BY <2>3, <1>2, RowWrite
<1>4. CASE ~health[n].known
    BY <1>2, <1>4, RowWrite
<1> QED BY <1>3, <1>4

LEMMA CompletedRow ==
    ASSUME health \in [Name -> Health], NEW n \in Name
    PROVE  /\ OnCompleted(n) \in [Name -> Health]
           /\ \A m \in Name : m # n => OnCompleted(n)[m] = health[m]
<1> DEFINE f == Count(health[n].failures)
           r == IF health[n].known
                THEN [health[n] EXCEPT !.failures = f, !.state = "completed"]
                ELSE health[n]
<1>1. f \in 1 .. FastAttempts
    BY CountBounds DEF Health
<1>2. OnCompleted(n) = [health EXCEPT ![n] = r]
    BY DEF OnCompleted
<1> HIDE DEF f
<1>3. CASE health[n].known
  <2> DEFINE st == "completed"
  <2>1. st \in State /\ st # "stopped" /\ (st = "failed" => f = FastAttempts)
      BY <1>1 DEF State
  <2>2. r = [known |-> health[n].known, state |-> st, failures |-> f]
      BY <1>3 DEF Health
  <2> HIDE DEF st, r
  <2>3. r \in Health
      BY <1>1, <2>1, <2>2, SourceAssumption DEF Health
  <2> QED BY <2>3, <1>2, RowWrite
<1>4. CASE ~health[n].known
    BY <1>2, <1>4, RowWrite
<1> QED BY <1>3, <1>4

-----------------------------------------------------------------------------
(* One lemma per group of actions; each shows the table, the health rows    *)
(* and the requests apart.                                                  *)

\* The part of TypeOK that is about requests.
RequestsOK ==
    /\ running \in BOOLEAN
    /\ registered \in SUBSET Name
    /\ enabled \in [Name -> BOOLEAN]
    /\ req \in [Handler -> [op : Op, name : Name \cup {NoName}, todo : SUBSET Name,
                            wait : Task \cup {NoTask}]]
    /\ loop \in Handler \cup {Nobody}

LEMMA IInvParts ==
    /\ IInv <=> RequestsOK /\ TableOK /\ health \in [Name -> Health] /\ Attended
    /\ IInv' <=> (RequestsOK /\ TableOK /\ health \in [Name -> Health] /\ Attended)'
    BY DEF IInv, TypeOK, RequestsOK, TableOK

\* Rows that only stop or start do no harm to attempts that were attended before.
LEMMA AttendedKept ==
    ASSUME Attended,
           \A t \in Task : At(t, "events")' => At(t, "events"),
           \A m \in Name : health'[m] = health[m] \/ health'[m].state \in {"running", "stopped"}
    PROVE  Attended'
<1> SUFFICES ASSUME NEW t \in Task, At(t, "events")'
             PROVE  health'[t[1]].state \in {"running", "stopped"}
    BY DEF Attended
<1> QED BY TaskParts DEF Attended

LEMMA InitIInv == Init => IInv
<1> SUFFICES ASSUME Init PROVE IInv
    OBVIOUS
<1> USE DEF Init
<1>1. RequestsOK
  <2>1. NoReq \in [op : Op, name : Name \cup {NoName}, todo : SUBSET Name,
                   wait : Task \cup {NoTask}]
      BY DEF NoReq, Op
  <2> QED BY <2>1 DEF RequestsOK
<1>2. TableOK
  <2>1. Ended \in [at : Stage, cancelled : BOOLEAN] /\ Ended.at = "done"
      BY DEF Ended, Stage
  <2> QED BY <2>1 DEF TableOK, NoLeakedTask, CurrentIsLive, Alive
<1>3. health \in [Name -> Health]
    BY BlankRow DEF NoHealth
<1>4. Attended
    BY DEF Attended, At, Ended
<1> QED BY <1>1, <1>2, <1>3, <1>4, IInvParts

\* A request that spawns, or not, and at most ensures a row.
LEMMA SpawningStep ==
    ASSUME IInv, NEW S \in SUBSET Name, Spawn(S) \/ NoSpawn, RequestsOK',
           health' \in [Name -> Health],
           \A m \in Name : health'[m] = health[m] \/ health'[m].state = "stopped"
    PROVE  IInv'
<1>1. TableOK /\ Attended
    BY IInvParts
<1>2. TableOK' /\ \A t \in Task : At(t, "events")' => At(t, "events")
  <2>1. CASE Spawn(S)
      BY <2>1, <1>1, SpawnKeepsTable
  <2>2. CASE NoSpawn
      BY <2>2, <1>1 DEF NoSpawn, TableOK, NoLeakedTask, CurrentIsLive, Alive, At
  <2> QED BY <2>1, <2>2
<1>3. Attended'
    BY <1>1, <1>2, AttendedKept
<1> QED BY <1>2, <1>3, IInvParts

LEMMA RequestStep ==
    ASSUME IInv, Request
    PROVE  IInv'
<1>1. RequestsOK /\ health \in [Name -> Health] /\ tasks \in [Name -> Task \cup {NoTask}]
    BY IInvParts DEF TableOK
<1>2. CASE Start
  <2>1. RequestsOK'
      BY <1>1, <1>2 DEF Start, Atomic, RequestsOK
  <2>2. Spawn({n \in registered : enabled[n]}) /\ health' = health
      BY <1>2 DEF Start
  <2>3. {n \in registered : enabled[n]} \in SUBSET Name
      BY <1>1 DEF RequestsOK
  <2> QED BY <1>1, <2>1, <2>2, <2>3, SpawningStep
<1>3. ASSUME NEW n \in Name, Enable(n) PROVE IInv'
  <2>1. RequestsOK'
      BY <1>1, <1>3 DEF Enable, Atomic, RequestsOK
  <2>2. (Spawn({n}) \/ NoSpawn) /\ health' = health
      BY <1>3 DEF Enable
  <2> QED BY <1>1, <2>1, <2>2, SpawningStep
<1>4. ASSUME NEW n \in Name, NEW on \in BOOLEAN, Register(n, on) PROVE IInv'
  <2>1. RequestsOK'
      BY <1>1, <1>4 DEF Register, Atomic, RequestsOK
  <2>2. (Spawn({n}) \/ NoSpawn) /\ health' = Ensured(n)
      BY <1>4 DEF Register
  <2> QED BY <1>1, <2>1, <2>2, EnsuredRow, SpawningStep
<1>5. ASSUME NEW h \in Handler, NEW n \in Name \cup {NoName}, NEW op \in Op,
             NEW todo \in SUBSET Name, Begin(h, op, n, todo),
             running' \in BOOLEAN, enabled' \in [Name -> BOOLEAN]
      PROVE  IInv'
  <2>1. RequestsOK'
    <3>1. req' = [req EXCEPT ![h] = [op |-> op, name |-> n, todo |-> todo, wait |-> NoTask]]
        BY <1>5 DEF Begin
    <3> QED BY <1>1, <1>5, <3>1 DEF Begin, RequestsOK
  <2>2. NoSpawn /\ health' = health
      BY <1>5 DEF Begin, NoSpawn
  <2> QED BY <1>1, <2>1, <2>2, SpawningStep
<1>6. ASSUME NEW h \in Handler, Stop(h) PROVE IInv'
  <2>1. {n \in Name : tasks[n] # NoTask} \in SUBSET Name /\ "stop" \in Op
      BY DEF Op
  <2> QED BY <1>1, <1>5, <1>6, <2>1 DEF Stop, RequestsOK
<1>7. ASSUME NEW h \in Handler, NEW n \in Name, Disable(h, n) PROVE IInv'
    BY <1>1, <1>5, <1>7 DEF Disable, RequestsOK, Op
<1>8. ASSUME NEW h \in Handler, NEW n \in Name, Restart(h, n) PROVE IInv'
    BY <1>1, <1>5, <1>8 DEF Restart, RequestsOK, Op
<1>9. ASSUME NEW h \in Handler, NEW n \in Name, NEW op \in Op, Unregister(h, n, op)
      PROVE  IInv'
    BY <1>1, <1>5, <1>9 DEF Unregister, RequestsOK
<1> QED BY <1>2, <1>3, <1>4, <1>6, <1>7, <1>8, <1>9 DEF Request

LEMMA ServeStep ==
    ASSUME IInv, NEW h \in Handler, Serve(h)
    PROVE  IInv'
<1>1. /\ RequestsOK /\ TableOK /\ Attended
      /\ health \in [Name -> Health] /\ tasks \in [Name -> Task \cup {NoTask}]
    BY IInvParts DEF TableOK
<1>2. req[h].todo \in SUBSET Name /\ req[h].wait \in Task \cup {NoTask}
    BY <1>1 DEF RequestsOK
<1>3. CASE Killed(h)
  <2>1. req[h].wait[1] \in Name
      BY <1>2, <1>3, TaskParts DEF Killed
  <2>2. RequestsOK'
    <3>1. req' = [req EXCEPT ![h].wait = NoTask, ![h].todo = @ \ {req[h].wait[1]}]
        BY <1>3 DEF Killed
    <3>2. req' \in [Handler -> [op : Op, name : Name \cup {NoName}, todo : SUBSET Name,
                                wait : Task \cup {NoTask}]]
      <4> DEFINE R == [op : Op, name : Name \cup {NoName}, todo : SUBSET Name,
                       wait : Task \cup {NoTask}]
                 after == [req[h] EXCEPT !.wait = NoTask, !.todo = @ \ {req[h].wait[1]}]
      <4>1. req \in [Handler -> R]
          BY <1>1 DEF RequestsOK
      <4>2. after \in R
          BY <4>1
      <4>3. req' = [req EXCEPT ![h] = after]
          BY <3>1, <4>1
      <4> HIDE DEF R, after
      <4>4. req' \in [Handler -> R]
          BY <4>1, <4>2, <4>3
      <4> QED BY <4>4 DEF R
    <3> QED BY <1>1, <1>3, <3>2 DEF Killed, RequestsOK
  <2>3. NoSpawn /\ health' = OnStop(req[h].wait[1])
      BY <1>3 DEF Killed, NoSpawn
  <2> QED BY <1>1, <2>1, <2>2, <2>3, StopRow, SpawningStep
<1>4. NoReq \in [op : Op, name : Name \cup {NoName}, todo : SUBSET Name,
                 wait : Task \cup {NoTask}]
    BY DEF NoReq, Op
<1>5. CASE Finish(h)
  <2>1. RequestsOK'
      BY <1>1, <1>4, <1>5 DEF Finish, Ready, RequestsOK
  <2>2. NoSpawn /\ health' = health
      BY <1>5 DEF Finish, NoSpawn
  <2> QED BY <1>1, <2>1, <2>2, SpawningStep
<1>6. ASSUME NEW n \in Name, FinishRestart(h, n) PROVE IInv'
  <2>1. RequestsOK'
      BY <1>1, <1>4, <1>6 DEF FinishRestart, Ready, RequestsOK
  <2>2. (Spawn({n}) \/ NoSpawn) /\ health' = health
      BY <1>6 DEF FinishRestart
  <2> QED BY <1>1, <2>1, <2>2, SpawningStep
<1>7. ASSUME NEW n \in Name, FinishUnregister(h, n) PROVE IInv'
  <2> DEFINE again == req[h].op # "unregister"
             on == req[h].op = "reregister_on"
  <2>1. /\ Ready(h, {"unregister", "reregister_off", "reregister_on"})
        /\ registered' = IF again THEN registered \cup {n} ELSE registered \ {n}
        /\ enabled' = [enabled EXCEPT ![n] = on]
        /\ health' = [health EXCEPT ![n] = Blank(again)]
        /\ Spawn({n}) \/ NoSpawn
      BY <1>7 DEF FinishUnregister
  <2>2. again \in BOOLEAN /\ on \in BOOLEAN
      OBVIOUS
  <2> HIDE DEF again, on
  <2>3. RequestsOK'
      BY <1>1, <1>4, <2>1, <2>2 DEF Ready, RequestsOK
  <2>4. Blank(again) \in Health /\ Blank(again).state = "stopped"
      BY <2>2, BlankRow
  <2>5. /\ health' \in [Name -> Health]
        /\ \A m \in Name : health'[m] = health[m] \/ health'[m].state = "stopped"
      BY <1>1, <2>1, <2>4, RowWrite
  <2> QED BY <2>1, <2>3, <2>5, SpawningStep
<1>8. ASSUME NEW n \in Name, Kill(h, n) PROVE IInv'
  <2>1. CASE tasks[n] = NoTask
    <3>1. NoSpawn /\ health' = OnStop(n)
        BY <1>8, <2>1 DEF Kill, NoSpawn
    <3>2. RequestsOK'
        BY <1>1, <1>2, <1>8, <2>1 DEF Kill, RequestsOK
    <3> QED BY <1>1, <3>1, <3>2, StopRow, SpawningStep
  <2>2. CASE tasks[n] # NoTask
    <3>1. RequestsOK'
        BY <1>1, <1>8, <2>2 DEF Kill, RequestsOK
    <3>2. /\ tasks' = [tasks EXCEPT ![n] = NoTask]
          /\ task' = [task EXCEPT ![tasks[n]].cancelled = TRUE]
          /\ health' = health
        BY <1>8, <2>2 DEF Kill
    <3>3. TableOK' /\ \A u \in Task : At(u, "events")' => At(u, "events")
        BY <1>1, <2>2, <3>2, CondemnKeepsTable
    <3>4. Attended'
        BY <1>1, <3>2, <3>3, AttendedKept
    <3> QED BY <1>1, <3>1, <3>2, <3>3, <3>4, IInvParts
  <2> QED BY <2>1, <2>2
<1> QED BY <1>3, <1>5, <1>6, <1>7, <1>8 DEF Serve

-----------------------------------------------------------------------------
(* The steps of a task.                                                     *)

LEMMA RequestsKept ==
    ASSUME RequestsOK, Turn
    PROVE  RequestsOK'
    BY DEF RequestsOK, Turn

\* A name has at most one attempt that was not told to stop.
LEMMA OneAttempt ==
    ASSUME TableOK, NEW t \in Task, NEW u \in Task, At(t, "events"), At(u, "events"), u # t
    PROVE  u[1] # t[1]
    BY DEF TableOK, NoLeakedTask, Alive, At

\* The task leaves its attempt, with or without leaving the loop.
LEMMA LeavingStep ==
    ASSUME IInv, Turn, NEW t \in Task, Alive(t),
           Exit(t) \/ \E stage \in Stage \ {"events", "done"} : Move(t, stage),
           health' \in [Name -> Health],
           \A m \in Name : \/ health'[m] = health[m]
                          \/ health'[m].state \in {"running", "stopped"}
                          \/ (m = t[1] /\ At(t, "events"))
    PROVE  IInv'
<1>1. RequestsOK /\ TableOK /\ Attended
    BY IInvParts
<1>2. TableOK' /\ \A u \in Task : At(u, "events")' => u # t /\ At(u, "events")
    BY <1>1, ExitKeepsTable, MoveKeepsTable
<1>3. Attended'
  <2> SUFFICES ASSUME NEW u \in Task, At(u, "events")'
               PROVE  health'[u[1]].state \in {"running", "stopped"}
      BY DEF Attended
  <2>1. u # t /\ At(u, "events") /\ u[1] \in Name
      BY <1>2, TaskParts
  <2>2. ~(u[1] = t[1] /\ At(t, "events"))
      BY <1>1, <2>1, OneAttempt
  <2> QED BY <1>1, <2>1, <2>2 DEF Attended
<1> QED BY <1>1, <1>2, <1>3, RequestsKept, IInvParts

LEMMA LoopHeadStep ==
    ASSUME IInv, Turn, NEW t \in Task, Alive(t), LoopHead(t)
    PROVE  IInv'
<1>1. RequestsOK /\ TableOK /\ Attended /\ health \in [Name -> Health]
    BY IInvParts
<1>2. t[1] \in Name
    BY TaskParts
<1>3. CASE ShouldRun(t[1])
  <2>1. Move(t, "events") /\ health' = OnStart(t[1])
      BY <1>3 DEF LoopHead
  <2>2. "events" \in Stage \ {"done"}
      BY DEF Stage
  <2>3. TableOK' /\ \A u \in Task : At(u, "events")' => u = t \/ At(u, "events")
      BY <1>1, <2>1, <2>2, MoveKeepsTable
  <2>4. Attended'
    <3> SUFFICES ASSUME NEW u \in Task, At(u, "events")'
                 PROVE  health'[u[1]].state \in {"running", "stopped"}
        BY DEF Attended
    <3> QED BY <1>1, <1>2, <2>1, <2>3, StartRow, TaskParts DEF Attended
  <2> QED BY <1>1, <1>2, <2>1, <2>3, <2>4, StartRow, RequestsKept, IInvParts
<1>4. CASE ~ShouldRun(t[1])
  <2>1. Exit(t) /\ health' = OnStop(t[1])
      BY <1>4 DEF LoopHead
  <2> QED BY <1>1, <1>2, <2>1, StopRow, LeavingStep
<1> QED BY <1>3, <1>4

\* The tail of the loop, for a row that differs only where the attempt ended.
LEMMA RestStep ==
    ASSUME IInv, Turn, NEW t \in Task, Alive(t),
           NEW row \in [Name -> Health], Rest(t, row),
           \A m \in Name : row[m] = health[m] \/ (m = t[1] /\ At(t, "events"))
    PROVE  IInv'
<1>1. health \in [Name -> Health] /\ t[1] \in Name
    BY IInvParts, TaskParts
<1>2. CASE ShouldRun(t[1])
  <2>1. Move(t, "backoff") /\ health' = row
      BY <1>2 DEF Rest
  <2>2. "backoff" \in Stage \ {"events", "done"}
      BY DEF Stage
  <2> QED BY <2>1, <2>2, LeavingStep
<1>3. CASE ~ShouldRun(t[1])
  <2>1. Exit(t) /\ health' = OnStop(t[1])
      BY <1>3 DEF Rest
  <2> QED BY <1>1, <2>1, StopRow, LeavingStep
<1> QED BY <1>2, <1>3

LEMMA TaskStep ==
    ASSUME IInv, NEW t \in Task,
           First(t) \/ Wake(t) \/ Closed(t) \/ Cancel(t) \/ Source(t)
    PROVE  IInv'
<1>1. /\ RequestsOK /\ TableOK /\ Attended /\ health \in [Name -> Health]
      /\ t[1] \in Name
    BY IInvParts, TaskParts
<1>2. {"unwinding", "closing"} \subseteq Stage \ {"events", "done"}
    BY DEF Stage
<1>3. CASE First(t)
  <2>1. Turn /\ Alive(t) /\ (LoopHead(t) \/ (Exit(t) /\ health' = health))
      BY <1>3 DEF First, At, Alive
  <2> QED BY <1>1, <2>1, LoopHeadStep, LeavingStep
<1>4. CASE Wake(t)
    BY <1>4, LoopHeadStep DEF Wake, At, Alive
<1>5. CASE Closed(t)
    BY <1>1, <1>5, RestStep DEF Closed, At, Alive
<1>6. CASE LongRun(t)
  <2> DEFINE r == [health[t[1]] EXCEPT !.failures = 0]
  <2>1. /\ Turn /\ health' = [health EXCEPT ![t[1]] = r]
        /\ UNCHANGED <<tasks, task>>
      BY <1>6 DEF LongRun
  <2>2. health[t[1]].state \in {"running", "stopped"}
      BY <1>1, <1>6 DEF LongRun, Attended
  <2>3. r \in Health /\ r.state = health[t[1]].state
      BY <1>1, <2>2, SourceAssumption DEF Health
  <2> HIDE DEF r
  <2>4. TableOK' /\ \A u \in Task : At(u, "events")' => At(u, "events")
      BY <1>1, <2>1 DEF TableOK, NoLeakedTask, CurrentIsLive, Alive, At
  <2>5. /\ health' \in [Name -> Health]
        /\ \A m \in Name : health'[m].state = health[m].state
      BY <1>1, <2>1, <2>3, RowWrite
  <2>6. Attended'
      BY <1>1, <2>4, <2>5, TaskParts DEF Attended
  <2> QED BY <1>1, <2>1, <2>4, <2>5, <2>6, RequestsKept, IInvParts
<1>7. CASE Fail(t)
  <2>1. PICK newOutage \in BOOLEAN : health' = OnFailure(t[1], newOutage)
      BY <1>7 DEF Fail
  <2>2. Turn /\ Alive(t) /\ At(t, "events") /\ Move(t, "closing")
      BY <1>7 DEF Fail, At, Alive
  <2>3. /\ health' \in [Name -> Health]
        /\ \A m \in Name : health'[m] = health[m] \/ (m = t[1] /\ At(t, "events"))
      BY <1>1, <2>1, <2>2, FailureRow
  <2> QED BY <1>2, <2>2, <2>3, LeavingStep
<1>8. CASE Complete(t)
  <2>1. Turn /\ Alive(t) /\ At(t, "events") /\ Rest(t, OnCompleted(t[1]))
      BY <1>8 DEF Complete, At, Alive
  <2>2. /\ OnCompleted(t[1]) \in [Name -> Health]
        /\ \A m \in Name : OnCompleted(t[1])[m] = health[m] \/ (m = t[1] /\ At(t, "events"))
      BY <1>1, <2>1, CompletedRow
  <2> QED BY <2>1, <2>2, RestStep
<1>9. CASE CancelRunning(t)
  <2>1. Turn /\ Alive(t)
      BY <1>9 DEF CancelRunning, CancelledAt, Alive
  <2>2. \/ Move(t, "unwinding") /\ health' = health
        \/ Move(t, "closing") /\ health' = OnStop(t[1])
      BY <1>9 DEF CancelRunning
  <2> QED BY <1>1, <1>2, <2>1, <2>2, StopRow, LeavingStep
<1>10. CASE CancelUnwound(t)
  <2>1. Turn /\ Alive(t) /\ Exit(t) /\ health' = OnStop(t[1])
      BY <1>10 DEF CancelUnwound, CancelledAt, Alive
  <2> QED BY <1>1, <2>1, StopRow, LeavingStep
<1>11. CASE CancelElsewhere(t)
  <2>1. Turn /\ Alive(t) /\ Exit(t) /\ health' = health
      BY <1>11 DEF CancelElsewhere, CancelledAt, Alive
  <2> QED BY <1>1, <2>1, LeavingStep
<1> QED BY <1>3, <1>4, <1>5, <1>6, <1>7, <1>8, <1>9, <1>10, <1>11 DEF Cancel, Source

LEMMA Inductive == IInv /\ [Next]_vars => IInv'
<1> SUFFICES ASSUME IInv, [Next]_vars PROVE IInv'
    OBVIOUS
<1>1. CASE UNCHANGED vars
    BY <1>1 DEF vars, IInv, TypeOK, NoLeakedTask, CurrentIsLive, Attended, Alive, At
<1>2. CASE Next
    BY <1>2, RequestStep, ServeStep, TaskStep DEF Next
<1> QED BY <1>1, <1>2

LEMMA Invariance == Spec => []IInv
<1> QED BY InitIInv, Inductive, PTL DEF Spec

-----------------------------------------------------------------------------
(* Every variable keeps its type, and every health row is one the           *)
(* supervisor means: a stopped source has no failures on record, a failed   *)
(* one has used up its fast attempts.                                       *)
THEOREM TypeCorrect == Spec => []TypeOK
<1>1. IInv => TypeOK
    BY DEF IInv
<1> QED BY <1>1, Invariance, PTL

(* _kill, _spawn and _run's finally together never lose a live task: one    *)
(* that runs and was not told to stop is the one the manager can cancel,    *)
(* however many requests are suspended in their kills.                      *)
THEOREM NothingLeaks == Spec => []NoLeakedTask
<1>1. IInv => NoLeakedTask
    BY DEF IInv
<1> QED BY <1>1, Invariance, PTL

(* "active" is never a lie: what _tasks names is alive and not condemned,   *)
(* so a spawn that finds a task there is right to create none.              *)
THEOREM TableIsLive == Spec => []CurrentIsLive
<1>1. IInv => CurrentIsLive
    BY DEF IInv
<1> QED BY <1>1, Invariance, PTL

-----------------------------------------------------------------------------
(* Requests one after another.  Six facts hold together until a request    *)
(* overtakes another; none of them holds afterwards.                        *)

Busy(h) == req[h].op # "idle"
Doomed(n) == \E h \in Handler : n \in req[h].todo
Runner(n) == \E t \in Task : t[1] = n /\ Runs(t)
Removing == {"unregister", "reregister_off", "reregister_on"}

\* One request has the manager, and waits for a task it took off the table.
OneByOne ==
    /\ \A g, h \in Handler : Busy(g) /\ Busy(h) => g = h
    /\ \A h \in Handler : ~Busy(h) => req[h].todo = {} /\ req[h].wait = NoTask
    /\ loop # Nobody => Busy(loop) /\ req[loop].wait = NoTask
    /\ \A h \in Handler : req[h].wait # NoTask =>
          req[h].wait[1] \in req[h].todo /\ tasks[req[h].wait[1]] = NoTask

\* A task is on the table or is being waited for: it has no twin.
Placed ==
    \A t \in Task : Alive(t) =>
        /\ t[1] \in registered
        /\ tasks[t[1]] = t \/ \E h \in Handler : req[h].wait = t

\* What has begun is wanted, or is about to be killed.
WantedOrDoomed ==
    \A t \in Task : task[t].at \notin {"new", "done"} => ShouldRun(t[1]) \/ Doomed(t[1])

\* A removal whose kill is over finds nothing alive.
Emptied ==
    \A h \in Handler : req[h].op \in Removing /\ req[h].name \notin req[h].todo =>
        \A t \in Task : t[1] = req[h].name => ~Alive(t)

\* The row, of any name, says "running" while the generator runs.
Told ==
    \A n \in Name :
        /\ health[n].state = "running" <=> Runner(n)
        /\ n \in registered => health[n].known

\* What is being restarted stays on the roster.
Rostered == \A h \in Handler : req[h].op = "restart" => req[h].name \in registered

TurnInv == OneByOne /\ Placed /\ WantedOrDoomed /\ Emptied /\ Told /\ Rostered

LEMMA NoTwins ==
    ASSUME OneByOne, Placed, NEW t \in Task, NEW u \in Task, Alive(t), Alive(u), t[1] = u[1]
    PROVE  t = u
<1>1. CASE \E h \in Handler : req[h].wait = t
    BY <1>1, TaskParts DEF OneByOne, Placed
<1>2. CASE \E h \in Handler : req[h].wait = u
    BY <1>2, TaskParts DEF OneByOne, Placed
<1> QED BY <1>1, <1>2 DEF Placed

\* With nothing to wait for, the table has every live task.
LEMMA OnTheTable ==
    ASSUME Placed, \A h \in Handler : req[h].wait = NoTask, NEW t \in Task, Alive(t)
    PROVE  tasks[t[1]] = t /\ t[1] \in registered
BY TaskParts DEF Placed

LEMMA NoneInFlight ==
    ASSUME OneByOne, Idle
    PROVE  /\ \A h \in Handler : ~Busy(h) /\ req[h].todo = {} /\ req[h].wait = NoTask
           /\ \A n \in Name : ~Doomed(n)
BY DEF OneByOne, Idle, Busy, Doomed

\* A spawn only makes tasks that have not begun.
LEMMA SpawnOnlyAdds ==
    ASSUME IInv, NEW S \in SUBSET Name, Spawn(S) \/ NoSpawn
    PROVE  \A t \in Task :
               \/ task'[t] = task[t] /\ (tasks[t[1]] = t => tasks'[t[1]] = t)
               \/ ~Alive(t) /\ task'[t].at = "new" /\ t[1] \in S /\ tasks'[t[1]] = t
<1>1. CASE NoSpawn
    BY <1>1 DEF NoSpawn
<1>2. CASE Spawn(S)
  <2> TAKE t \in Task
  <2>1. t # NoTask /\ t[1] \in Name
      BY TaskParts
  <2>2. /\ tasks'[t[1]] = IF t[1] \in Missing(S) THEN NewTask(t[1]) ELSE tasks[t[1]]
        /\ task'[t] = IF t[1] \in Missing(S) /\ t = NewTask(t[1]) THEN Fresh ELSE task[t]
      BY <1>2, <2>1 DEF Spawn
  <2>3. CASE t[1] \in Missing(S) /\ t = NewTask(t[1])
    <3>1. \E s \in Slot : Free(<<t[1], s>>)
        BY <1>2, <2>3 DEF Spawn
    <3>2. ~Alive(t)
        BY <2>3, <3>1 DEF NewTask, Free
    <3> QED BY <2>2, <2>3, <3>2 DEF Fresh, Missing
  <2>4. CASE ~(t[1] \in Missing(S) /\ t = NewTask(t[1]))
      BY <2>1, <2>2, <2>4 DEF Missing
  <2> QED BY <2>3, <2>4
<1> QED BY <1>1, <1>2

\* Nothing is in flight afterwards: a request that spawns at most, alone or as the
\* end of one that killed.
LEMMA NoneLeftStep ==
    ASSUME IInv, TurnInv, NEW S \in SUBSET Name, Spawn(S) \/ NoSpawn, S \subseteq registered',
           \A h \in Handler : /\ req[h].wait = NoTask
                              /\ req'[h].op = "idle" /\ req'[h].todo = {} /\ req'[h].wait = NoTask,
           loop' = Nobody,
           \A t \in Task : Alive(t) => t[1] \in registered',
           \A t \in Task : task[t].at \notin {"new", "done"} => ShouldRun(t[1])',
           \A n \in Name : \/ health'[n].state = "running" <=> health[n].state = "running"
                           \/ health'[n].state # "running" /\ \A t \in Task : t[1] = n => ~Alive(t),
           \A n \in Name : n \in registered' => health'[n].known
    PROVE  TurnInv'
<1>1. OneByOne /\ Placed /\ Told
    BY DEF TurnInv
<1>2. \A t \in Task :
          \/ task'[t] = task[t] /\ (tasks[t[1]] = t => tasks'[t[1]] = t)
          \/ ~Alive(t) /\ task'[t].at = "new" /\ t[1] \in S /\ tasks'[t[1]] = t
    BY SpawnOnlyAdds
<1>3. OneByOne'
    BY DEF OneByOne, Busy
<1>4. Placed'
  <2> SUFFICES ASSUME NEW t \in Task, Alive(t)' PROVE t[1] \in registered' /\ tasks'[t[1]] = t
      BY DEF Placed
  <2>1. CASE task'[t] = task[t] /\ (tasks[t[1]] = t => tasks'[t[1]] = t)
    <3>1. Alive(t)
        BY <2>1 DEF Alive
    <3> QED BY <1>1, <2>1, <3>1, OnTheTable
  <2>2. CASE t[1] \in S /\ tasks'[t[1]] = t
      BY <2>2
  <2> QED BY <1>2, <2>1, <2>2
<1>5. WantedOrDoomed'
    BY <1>2 DEF WantedOrDoomed
<1>6. Emptied'
    BY DEF Emptied, Removing
<1>7. \A t \in Task : Runs(t)' = Runs(t)
    BY <1>2 DEF Runs, Alive
<1>8. Told'
  <2> SUFFICES ASSUME NEW n \in Name PROVE health'[n].state = "running" <=> Runner(n)'
      BY DEF Told
  <2>1. Runner(n)' = Runner(n) /\ (health[n].state = "running" <=> Runner(n))
      BY <1>1, <1>7 DEF Told, Runner
  <2>2. (\A t \in Task : t[1] = n => ~Alive(t)) => ~Runner(n)
      BY DEF Runner, Runs, Alive
  <2> QED BY <2>1, <2>2
<1>9. Rostered'
    BY DEF Rostered
<1> QED BY <1>3, <1>4, <1>5, <1>6, <1>8, <1>9 DEF TurnInv

\* The first step of a request that kills.
LEMMA BeginTurn ==
    ASSUME IInv, TurnInv, Idle, NEW h \in Handler, NEW op \in Op \ {"idle"}, NEW n, NEW todo,
           Begin(h, op, n, todo), op \in Removing => n \in todo, op = "restart" => n \in registered,
           \A t \in Task : task[t].at \notin {"new", "done"} => ShouldRun(t[1])' \/ t[1] \in todo
    PROVE  TurnInv'
<1>1. /\ OneByOne /\ Placed /\ WantedOrDoomed /\ Told
      /\ \A g \in Handler : ~Busy(g) /\ req[g].todo = {} /\ req[g].wait = NoTask
      /\ req \in [Handler -> [op : Op, name : Name \cup {NoName}, todo : SUBSET Name,
                              wait : Task \cup {NoTask}]]
    BY NoneInFlight DEF TurnInv, IInv, TypeOK
<1>2. /\ req'[h].op = op /\ req'[h].name = n /\ req'[h].todo = todo /\ req'[h].wait = NoTask
      /\ \A g \in Handler : g # h => req'[g] = req[g]
      /\ loop' = h /\ UNCHANGED <<registered, tasks, task, health>>
    BY <1>1 DEF Begin
<1>3. OneByOne'
    BY <1>1, <1>2 DEF OneByOne, Busy
<1>4. Placed'
    BY <1>1, <1>2, OnTheTable DEF Placed, Alive
<1>5. WantedOrDoomed'
    BY <1>2 DEF WantedOrDoomed, Doomed
<1>6. Emptied'
    BY <1>1, <1>2 DEF Emptied, Busy, Removing
<1>7. Told'
    BY <1>1, <1>2 DEF Told, Runner, Runs
<1>8. Rostered'
    BY <1>1, <1>2 DEF Rostered, Busy
<1> QED BY <1>3, <1>4, <1>5, <1>6, <1>7, <1>8 DEF TurnInv

\* In turn, what has begun is wanted, and all that lives is on the roster.
LEMMA InTurnFacts ==
    ASSUME IInv, TurnInv, Idle
    PROVE  /\ \A t \in Task : Alive(t) => tasks[t[1]] = t /\ t[1] \in registered
           /\ \A t \in Task : task[t].at \notin {"new", "done"} => ShouldRun(t[1])
           /\ \A h \in Handler : req[h].wait = NoTask /\ req[h].op = "idle" /\ req[h].todo = {}
           /\ \A n \in Name : health[n].known \/ n \notin registered
BY NoneInFlight, OnTheTable, TaskParts DEF TurnInv, WantedOrDoomed, Told, Busy

LEMMA RequestTurn ==
    ASSUME IInv, TurnInv, Idle, Request
    PROVE  TurnInv'
<1>1. /\ \A t \in Task : Alive(t) => tasks[t[1]] = t /\ t[1] \in registered
      /\ \A t \in Task : task[t].at \notin {"new", "done"} => ShouldRun(t[1])
      /\ \A h \in Handler : req[h].wait = NoTask /\ req[h].op = "idle" /\ req[h].todo = {}
      /\ \A n \in Name : health[n].known \/ n \notin registered
    BY InTurnFacts
<1>2. health \in [Name -> Health] /\ registered \in SUBSET Name /\ enabled \in [Name -> BOOLEAN]
    BY DEF IInv, TypeOK
<1>3. \A t \in Task : task[t].at \notin {"new", "done"} => Alive(t) /\ t[1] \in Name
    BY TaskParts DEF Alive
<1>4. CASE Start
  <2>1. /\ loop' = Nobody /\ req' = req /\ registered' = registered /\ enabled' = enabled /\ running'
        /\ health' = health /\ Spawn({n \in registered : enabled[n]})
      BY <1>4 DEF Start, Atomic, Arrives
  <2>2. {n \in registered : enabled[n]} \in SUBSET Name
      BY <1>2
  <2>3. \A t \in Task : task[t].at \notin {"new", "done"} => ShouldRun(t[1])'
      BY <1>1, <2>1 DEF ShouldRun
  <2> QED BY <1>1, <2>1, <2>2, <2>3, NoneLeftStep
<1>5. ASSUME NEW n \in Name, Enable(n) PROVE TurnInv'
  <2>1. /\ loop' = Nobody /\ req' = req /\ registered' = registered /\ n \in registered
        /\ enabled' = [enabled EXCEPT ![n] = TRUE] /\ running' = running
        /\ health' = health /\ (Spawn({n}) \/ NoSpawn)
      BY <1>5 DEF Enable, Atomic, Arrives
  <2>2. \A t \in Task : task[t].at \notin {"new", "done"} => ShouldRun(t[1])'
      BY <1>1, <1>2, <1>3, <2>1 DEF ShouldRun
  <2> QED BY <1>1, <2>1, <2>2, NoneLeftStep
<1>6. ASSUME NEW n \in Name, NEW on \in BOOLEAN, Register(n, on) PROVE TurnInv'
  <2>1. /\ loop' = Nobody /\ req' = req /\ registered' = registered \cup {n} /\ n \notin registered
        /\ enabled' = [enabled EXCEPT ![n] = on] /\ running' = running
        /\ health' = Ensured(n) /\ (Spawn({n}) \/ NoSpawn)
      BY <1>6 DEF Register, Atomic, Arrives
  <2>2. \A t \in Task : task[t].at \notin {"new", "done"} => ShouldRun(t[1])'
      BY <1>1, <1>2, <1>3, <2>1 DEF ShouldRun
  <2>3. \A m \in Name : /\ health'[m].known \/ (m # n /\ health'[m] = health[m])
                        /\ health'[m] = health[m] \/ (m = n /\ health'[m].state # "running")
    <3>1. Blank(TRUE).known /\ Blank(TRUE).state # "running"
        BY DEF Blank
    <3>2. health' = [health EXCEPT ![n] = IF health[n].known THEN health[n] ELSE Blank(TRUE)]
        BY <2>1 DEF Ensured
    <3> QED BY <1>2, <3>1, <3>2
  <2>4. \A t \in Task : t[1] = n => ~Alive(t)
      BY <1>1, <2>1
  <2> QED BY <1>1, <2>1, <2>2, <2>3, <2>4, NoneLeftStep
<1>7. ASSUME NEW h \in Handler, Stop(h) PROVE TurnInv'
  <2> DEFINE todo == {n \in Name : tasks[n] # NoTask}
  <2>1. \A t \in Task : task[t].at \notin {"new", "done"} => t[1] \in todo
      BY <1>1, <1>3, TaskParts
  <2>2. Begin(h, "stop", NoName, todo) /\ "stop" \in Op \ {"idle"} /\ "stop" \notin Removing
      BY <1>7 DEF Stop, Op, Removing
  <2> HIDE DEF todo
  <2> QED BY <2>1, <2>2, BeginTurn
<1>8. ASSUME NEW h \in Handler, NEW n \in Name, Disable(h, n) PROVE TurnInv'
  <2>1. /\ Begin(h, "off", n, {n}) /\ "off" \in Op \ {"idle"} /\ "off" \notin Removing
        /\ enabled' = [enabled EXCEPT ![n] = FALSE] /\ running' = running /\ registered' = registered
      BY <1>8 DEF Disable, Begin, Op, Removing
  <2>2. \A t \in Task : task[t].at \notin {"new", "done"} => ShouldRun(t[1])' \/ t[1] \in {n}
      BY <1>1, <1>2, <1>3, <2>1 DEF ShouldRun
  <2> QED BY <2>1, <2>2, BeginTurn
<1>9. ASSUME NEW h \in Handler, NEW n \in Name, NEW op \in Op, Restart(h, n) \/ Unregister(h, n, op)
      PROVE  TurnInv'
  <2>1. /\ n \in registered
        /\ \E o \in Op \ {"idle"} : Begin(h, o, n, {n}) /\ UNCHANGED <<running, enabled, registered>>
      BY <1>9 DEF Restart, Unregister, Begin, Op
  <2>2. \A t \in Task : task[t].at \notin {"new", "done"} => ShouldRun(t[1])' \/ t[1] \in {n}
      BY <1>1, <2>1 DEF ShouldRun
  <2> QED BY <2>1, <2>2, BeginTurn
<1>10. "restart" \in Op
    BY DEF Op
<1> QED BY <1>4, <1>5, <1>6, <1>7, <1>8, <1>9, <1>10 DEF Request

\* A row written by on_stop does not say "running" unless it did and was not known.
LEMMA StopIsNotRunning ==
    ASSUME health \in [Name -> Health], NEW n \in Name
    PROVE  /\ \A m \in Name : m # n => OnStop(n)[m] = health[m]
           /\ OnStop(n)[n].known = health[n].known
           /\ health[n].known => OnStop(n)[n].state = "stopped"
           /\ ~health[n].known => OnStop(n)[n] = health[n]
<1>1. Blank(TRUE).known /\ Blank(TRUE).state = "stopped"
    BY DEF Blank
<1>2. OnStop(n) = [health EXCEPT ![n] = IF health[n].known THEN Blank(TRUE) ELSE health[n]]
    BY DEF OnStop
<1>3. health[n].known \in BOOLEAN
    BY DEF Health
<1> QED BY <1>1, <1>2, <1>3

\* What the request that has the loop knows.
LEMMA HasTheLoop ==
    ASSUME IInv, TurnInv, NEW h \in Handler, loop = h
    PROVE  /\ Busy(h) /\ req[h].wait = NoTask
           /\ \A g \in Handler : /\ req[g].wait = NoTask
                                 /\ g # h => ~Busy(g) /\ req[g].todo = {}
           /\ \A t \in Task : Alive(t) => tasks[t[1]] = t /\ t[1] \in registered
           /\ \A n \in Name : Doomed(n) => n \in req[h].todo
<1>1. loop # Nobody /\ OneByOne /\ Placed
    BY SourceAssumption DEF Nobody, TurnInv
<1>2. Busy(h) /\ req[h].wait = NoTask
    BY <1>1 DEF OneByOne
<1>3. \A g \in Handler : /\ req[g].wait = NoTask
                         /\ g # h => ~Busy(g) /\ req[g].todo = {}
    BY <1>1, <1>2 DEF OneByOne
<1>4. \A t \in Task : Alive(t) => tasks[t[1]] = t /\ t[1] \in registered
    BY <1>1, <1>3, OnTheTable
<1>5. \A n \in Name : Doomed(n) => n \in req[h].todo
    BY <1>3 DEF Doomed
<1> QED BY <1>2, <1>3, <1>4, <1>5

\* One name of a request is dead: its row is stopped and it leaves todo.
LEMMA NameIsDead ==
    ASSUME IInv, TurnInv, NEW h \in Handler, Busy(h), NEW n \in Name, n \in req[h].todo,
           \A g \in Handler : g # h => ~Busy(g) /\ req[g].todo = {} /\ req[g].wait = NoTask,
           \A t \in Task : t[1] = n => ~Alive(t),
           \A t \in Task : Alive(t) => tasks[t[1]] = t /\ t[1] \in registered,
           health' = OnStop(n), loop' = h, UNCHANGED <<running, registered, enabled, tasks, task>>,
           req'[h].op = req[h].op, req'[h].name = req[h].name,
           req'[h].todo = req[h].todo \ {n}, req'[h].wait = NoTask,
           \A g \in Handler : g # h => req'[g] = req[g]
    PROVE  TurnInv'
<1>1. OneByOne /\ Placed /\ WantedOrDoomed /\ Emptied /\ Told /\ health \in [Name -> Health]
    BY DEF TurnInv, IInv, TypeOK
<1>2. OneByOne'
    BY <1>1 DEF OneByOne, Busy
<1>3. Placed'
    BY DEF Placed, Alive
<1>4. WantedOrDoomed'
  <2> SUFFICES ASSUME NEW t \in Task, task[t].at \notin {"new", "done"}, ~ShouldRun(t[1])
               PROVE  t[1] \in req'[h].todo
      BY DEF WantedOrDoomed, Doomed, ShouldRun
  <2>1. Alive(t) /\ t[1] # n
      BY DEF Alive
  <2>2. t[1] \in req[h].todo
      BY <1>1 DEF WantedOrDoomed, Doomed
  <2> QED BY <2>1, <2>2
<1>5. Emptied'
  <2>1. \A t \in Task : Alive(t)' = Alive(t)
      BY DEF Alive
  <2> QED BY <1>1, <2>1 DEF Emptied, Busy, Removing
<1>6. Told'
  <2>1. \A m \in Name : Runner(m)' = Runner(m)
      BY DEF Runner, Runs
  <2>2. ~Runner(n)
      BY DEF Runner, Runs, Alive
  <2> QED BY <1>1, <2>1, <2>2, StopIsNotRunning DEF Told
<1>7. Rostered'
    BY DEF Rostered, TurnInv
<1> QED BY <1>2, <1>3, <1>4, <1>5, <1>6, <1>7 DEF TurnInv

LEMMA KillTurn ==
    ASSUME IInv, TurnInv, NEW h \in Handler, NEW n \in Name, Kill(h, n)
    PROVE  TurnInv'
<1>1. /\ OneByOne /\ Placed /\ WantedOrDoomed /\ Emptied /\ Told /\ health \in [Name -> Health]
      /\ req \in [Handler -> [op : Op, name : Name \cup {NoName}, todo : SUBSET Name,
                              wait : Task \cup {NoTask}]]
      /\ tasks \in [Name -> Task \cup {NoTask}] /\ task \in [Task -> [at : Stage, cancelled : BOOLEAN]]
    BY DEF TurnInv, IInv, TypeOK
<1>2. loop = h /\ n \in req[h].todo /\ UNCHANGED <<running, registered, enabled>>
    BY DEF Kill
<1>3. /\ Busy(h) /\ req[h].wait = NoTask
      /\ \A g \in Handler : /\ req[g].wait = NoTask
                            /\ g # h => ~Busy(g) /\ req[g].todo = {}
      /\ \A t \in Task : Alive(t) => tasks[t[1]] = t /\ t[1] \in registered
    BY <1>2, HasTheLoop
<1>4. CASE tasks[n] = NoTask
  <2>1. /\ health' = OnStop(n) /\ req' = [req EXCEPT ![h].todo = @ \ {n}]
        /\ UNCHANGED <<tasks, task, loop>>
      BY <1>4 DEF Kill
  <2>2. \A t \in Task : t[1] = n => ~Alive(t)
      BY <1>3, <1>4, TaskParts
  <2>3. /\ req'[h].op = req[h].op /\ req'[h].name = req[h].name
        /\ req'[h].todo = req[h].todo \ {n} /\ req'[h].wait = NoTask
        /\ \A g \in Handler : g # h => req'[g] = req[g]
      BY <1>1, <1>3, <2>1
  <2> QED BY <1>2, <1>3, <2>1, <2>2, <2>3, NameIsDead
<1>5. CASE tasks[n] # NoTask
  <2>1. /\ tasks' = [tasks EXCEPT ![n] = NoTask]
        /\ task' = [task EXCEPT ![tasks[n]].cancelled = TRUE]
        /\ req' = [req EXCEPT ![h].wait = tasks[n]]
        /\ loop' = Nobody /\ UNCHANGED health
      BY <1>5 DEF Kill
  <2>2. tasks[n] \in Task /\ tasks[n][1] = n
      BY <1>1, <1>5 DEF IInv, CurrentIsLive
  <2>3. /\ req'[h].op = req[h].op /\ req'[h].name = req[h].name
        /\ req'[h].todo = req[h].todo /\ req'[h].wait = tasks[n]
        /\ \A g \in Handler : g # h => req'[g] = req[g]
      BY <1>1, <2>1
  <2>4. \A t \in Task : task'[t].at = task[t].at
      BY <1>1, <2>1, <2>2
  <2>5. OneByOne'
      BY <1>1, <1>2, <1>3, <2>1, <2>2, <2>3 DEF OneByOne, Busy
  <2>6. Placed'
    <3> SUFFICES ASSUME NEW t \in Task, Alive(t)
                 PROVE  t[1] \in registered /\ (tasks'[t[1]] = t \/ req'[h].wait = t)
        BY <1>2, <2>4 DEF Placed, Alive
    <3>1. tasks[t[1]] = t /\ t[1] \in registered /\ t[1] \in Name
        BY <1>3, TaskParts
    <3> QED BY <1>1, <2>1, <2>3, <3>1
  <2>7. WantedOrDoomed'
      BY <1>1, <1>2, <2>3, <2>4 DEF WantedOrDoomed, Doomed, ShouldRun
  <2>8. Emptied'
      BY <1>1, <2>3, <2>4 DEF Emptied, Alive
  <2>9. Told'
      BY <1>1, <1>2, <2>1, <2>4 DEF Told, Runner, Runs
  <2>10. Rostered'
      BY <1>2, <2>3 DEF Rostered, TurnInv
  <2> QED BY <2>5, <2>6, <2>7, <2>8, <2>9, <2>10 DEF TurnInv
<1> QED BY <1>4, <1>5

LEMMA KilledTurn ==
    ASSUME IInv, TurnInv, NEW h \in Handler, Killed(h)
    PROVE  TurnInv'
<1>1. /\ OneByOne /\ Placed
      /\ req \in [Handler -> [op : Op, name : Name \cup {NoName}, todo : SUBSET Name,
                              wait : Task \cup {NoTask}]]
    BY DEF TurnInv, IInv, TypeOK
<1> DEFINE n == req[h].wait[1]
<1>2. /\ req[h].wait # NoTask /\ ~Alive(req[h].wait)
      /\ health' = OnStop(n) /\ loop' = h
      /\ req' = [req EXCEPT ![h].wait = NoTask, ![h].todo = @ \ {n}]
      /\ UNCHANGED <<running, registered, enabled, tasks, task>>
    BY DEF Killed, Unwaited
<1>3. req[h].wait \in Task /\ n \in Name
    BY <1>1, <1>2, TaskParts
<1>4. /\ Busy(h) /\ n \in req[h].todo /\ tasks[n] = NoTask
      /\ \A g \in Handler : g # h => ~Busy(g) /\ req[g].todo = {} /\ req[g].wait = NoTask
    BY <1>1, <1>2 DEF OneByOne
<1>5. \A t \in Task : Alive(t) => tasks[t[1]] = t /\ t[1] \in registered
    BY <1>1, <1>2, <1>4 DEF Placed
<1>6. \A t \in Task : t[1] = n => ~Alive(t)
    BY <1>4, <1>5, TaskParts
<1>7. /\ req'[h].op = req[h].op /\ req'[h].name = req[h].name
      /\ req'[h].todo = req[h].todo \ {n} /\ req'[h].wait = NoTask
      /\ \A g \in Handler : g # h => req'[g] = req[g]
    BY <1>1, <1>2
<1>8. /\ health' = OnStop(n) /\ loop' = h
      /\ UNCHANGED <<running, registered, enabled, tasks, task>>
    BY <1>2
<1> HIDE DEF n
<1> QED BY <1>3, <1>4, <1>5, <1>6, <1>7, <1>8, NameIsDead

\* A request whose kills are over.
LEMMA FinishTurn ==
    ASSUME IInv, TurnInv, NEW h \in Handler,
           Finish(h) \/ \E n \in Name : FinishRestart(h, n) \/ FinishUnregister(h, n)
    PROVE  TurnInv'
<1>1. /\ Emptied /\ WantedOrDoomed /\ Told /\ health \in [Name -> Health]
      /\ registered \in SUBSET Name /\ enabled \in [Name -> BOOLEAN]
      /\ req \in [Handler -> [op : Op, name : Name \cup {NoName}, todo : SUBSET Name,
                              wait : Task \cup {NoTask}]]
    BY DEF TurnInv, IInv, TypeOK
<1>2. /\ loop = h /\ req[h].todo = {} /\ req' = [req EXCEPT ![h] = NoReq]
      /\ loop' = Nobody /\ UNCHANGED running
    BY DEF Finish, FinishRestart, FinishUnregister, Ready
<1>3. /\ \A g \in Handler : /\ req[g].wait = NoTask
                            /\ g # h => ~Busy(g) /\ req[g].todo = {}
      /\ \A t \in Task : Alive(t) => t[1] \in registered
      /\ \A n \in Name : ~Doomed(n)
    BY <1>2, HasTheLoop
<1>4. \A g \in Handler : req'[g].op = "idle" /\ req'[g].todo = {} /\ req'[g].wait = NoTask
    BY <1>1, <1>2, <1>3 DEF NoReq, Busy
<1>5. \A t \in Task : task[t].at \notin {"new", "done"} => ShouldRun(t[1]) /\ Alive(t) /\ t[1] \in Name
    BY <1>1, <1>3, TaskParts DEF WantedOrDoomed, Alive
<1>6. \A n \in Name : n \in registered => health[n].known
    BY <1>1 DEF Told
<1>7. CASE Finish(h)
  <2>1. UNCHANGED <<registered, enabled, health>> /\ NoSpawn /\ {} \subseteq registered' /\ {} \in SUBSET Name
      BY <1>7 DEF Finish, NoSpawn
  <2>2. \A t \in Task : task[t].at \notin {"new", "done"} => ShouldRun(t[1])'
      BY <1>2, <1>5, <2>1 DEF ShouldRun
  <2> QED BY <1>2, <1>3, <1>4, <1>6, <2>1, <2>2, NoneLeftStep
<1>8. ASSUME NEW n \in Name, FinishRestart(h, n) PROVE TurnInv'
  <2>1. /\ UNCHANGED <<registered, enabled, health>>
        /\ Spawn({n}) \/ NoSpawn
        /\ req[h].op = "restart" /\ req[h].name = n
      BY <1>8 DEF FinishRestart, Ready
  <2>2. \A t \in Task : task[t].at \notin {"new", "done"} => ShouldRun(t[1])'
      BY <1>2, <1>5, <2>1 DEF ShouldRun
  <2>3. n \in registered'
      BY <2>1 DEF Rostered, TurnInv
  <2> QED BY <1>2, <1>3, <1>4, <1>6, <2>1, <2>2, <2>3, NoneLeftStep
<1>9. ASSUME NEW n \in Name, FinishUnregister(h, n) PROVE TurnInv'
  <2> DEFINE again == req[h].op # "unregister"
             on == req[h].op = "reregister_on"
  <2>1. /\ req[h].op \in Removing /\ req[h].name = n
        /\ registered' = IF again THEN registered \cup {n} ELSE registered \ {n}
        /\ enabled' = [enabled EXCEPT ![n] = on]
        /\ health' = [health EXCEPT ![n] = Blank(again)]
        /\ IF on /\ running THEN Spawn({n}) ELSE NoSpawn
        /\ on => again
      BY <1>9 DEF FinishUnregister, Ready, Removing
  <2>2. \A t \in Task : t[1] = n => ~Alive(t)
      BY <1>1, <1>2, <2>1 DEF Emptied
  <2>3. Blank(again).known = again /\ Blank(again).state # "running"
      BY DEF Blank
  <2> HIDE DEF again, on
  <2>4. \A m \in Name : IF m = n THEN health'[m].state # "running" /\ health'[m].known = again
                        ELSE health'[m] = health[m]
      BY <1>1, <2>1, <2>3
  <2>5. \A m \in Name : m \in registered' => health'[m].known
      BY <1>6, <2>1, <2>4
  <2>6. \A t \in Task : Alive(t) => t[1] \in registered'
      BY <1>3, <2>1, <2>2
  <2>7. \A t \in Task : task[t].at \notin {"new", "done"} => ShouldRun(t[1])'
    <3> SUFFICES ASSUME NEW t \in Task, task[t].at \notin {"new", "done"} PROVE ShouldRun(t[1])'
        OBVIOUS
    <3>1. ShouldRun(t[1]) /\ t[1] # n /\ t[1] \in Name /\ t[1] \in registered'
        BY <1>5, <2>2, <2>6
    <3> QED BY <1>1, <1>2, <2>1, <3>1 DEF ShouldRun
  <2>8. \A m \in Name : \/ health'[m].state = "running" <=> health[m].state = "running"
                        \/ health'[m].state # "running" /\ \A t \in Task : t[1] = m => ~Alive(t)
      BY <2>2, <2>4
  <2>9. CASE on /\ running
      BY <1>2, <1>3, <1>4, <2>1, <2>5, <2>6, <2>7, <2>8, <2>9, NoneLeftStep
  <2>10. CASE ~(on /\ running)
    <3>1. NoSpawn /\ {} \in SUBSET Name /\ {} \subseteq registered'
        BY <2>1, <2>10
    <3> QED BY <1>2, <1>3, <1>4, <2>5, <2>6, <2>7, <2>8, <3>1, NoneLeftStep
  <2> QED BY <2>9, <2>10
<1> QED BY <1>7, <1>8, <1>9

-----------------------------------------------------------------------------
\* A task moves on or ends, and the row of its source says what it does then.
LEMMA TaskMovesTurn ==
    ASSUME IInv, TurnInv, Turn, NEW t \in Task, Alive(t),
           NEW stage \in Stage, Move(t, stage) \/ (Exit(t) /\ stage = "done"),
           stage \notin {"new", "done"} => ShouldRun(t[1]) \/ task[t].at # "new",
           health' \in [Name -> Health],
           \A m \in Name : m # t[1] => health'[m] = health[m],
           health[t[1]].known => health'[t[1]].known,
           health[t[1]].known =>
              (health'[t[1]].state = "running" <=> stage \in {"events", "unwinding"})
    PROVE  TurnInv'
<1>1. /\ OneByOne /\ Placed /\ WantedOrDoomed /\ Emptied /\ Told /\ Rostered
      /\ tasks \in [Name -> Task \cup {NoTask}] /\ task \in [Task -> [at : Stage, cancelled : BOOLEAN]]
      /\ t[1] \in Name /\ t # NoTask
    BY TaskParts DEF TurnInv, IInv, TypeOK
<1>2. UNCHANGED <<running, registered, enabled, req, loop>>
    BY DEF Turn
<1>3. task'[t].at = stage /\ \A u \in Task : u # t => task'[u] = task[u]
    BY <1>1 DEF Move, Exit, Ended
<1>4. /\ \A n \in Name : tasks'[n] = tasks[n] \/ (tasks[n] = t /\ tasks'[n] = NoTask /\ stage = "done")
      /\ \A n \in Name : tasks[n] = NoTask => tasks'[n] = NoTask
    BY <1>1 DEF Move, Exit, Popped
<1>5. OneByOne'
  <2>1. \A h \in Handler : req[h].wait # NoTask => req[h].wait[1] \in Name
      BY TaskParts DEF IInv, TypeOK
  <2> QED BY <1>1, <1>2, <1>4, <2>1 DEF OneByOne, Busy
<1>6. \A u \in Task : Alive(u)' => Alive(u) /\ (u = t => stage # "done")
    BY <1>3 DEF Alive
<1>7. Placed'
  <2> SUFFICES ASSUME NEW u \in Task, Alive(u)'
               PROVE  u[1] \in registered /\ (tasks'[u[1]] = u \/ \E h \in Handler : req[h].wait = u)
      BY <1>2 DEF Placed
  <2>1. Alive(u) /\ u[1] \in Name /\ u # NoTask
      BY <1>6, TaskParts
  <2> QED BY <1>1, <1>4, <1>6, <2>1 DEF Placed
<1>8. WantedOrDoomed'
    BY <1>1, <1>2, <1>3 DEF WantedOrDoomed, Doomed, ShouldRun, Alive
<1>9. Emptied'
    BY <1>1, <1>2, <1>6 DEF Emptied
<1>10. Told'
  <2> SUFFICES ASSUME NEW n \in Name
               PROVE  /\ health'[n].state = "running" <=> Runner(n)'
                      /\ n \in registered => health'[n].known
      BY <1>2 DEF Told
  <2>1. CASE n # t[1]
    <3>1. Runner(n)' = Runner(n)
        BY <1>3, <2>1 DEF Runner, Runs
    <3> QED BY <1>1, <2>1, <3>1 DEF Told
  <2>2. CASE n = t[1]
    <3>1. health[n].known
        BY <1>1, <2>2 DEF Told, Placed
    <3>2. \A u \in Task : u[1] = n /\ u # t => ~Alive(u)
        BY <1>1, <2>2, NoTwins
    <3>3. Runner(n)' <=> stage \in {"events", "unwinding"}
        BY <1>1, <1>3, <2>2, <3>2 DEF Runner, Runs, Alive
    <3> QED BY <2>2, <3>1, <3>3
  <2> QED BY <2>1, <2>2
<1>11. Rostered'
    BY <1>1, <1>2 DEF Rostered
<1> QED BY <1>5, <1>7, <1>8, <1>9, <1>10, <1>11 DEF TurnInv

LEMMA LoopHeadTurn ==
    ASSUME IInv, TurnInv, Turn, NEW t \in Task, Alive(t), LoopHead(t)
    PROVE  TurnInv'
<1>1. health \in [Name -> Health] /\ t[1] \in Name
    BY TaskParts DEF IInv, TypeOK
<1>2. CASE ShouldRun(t[1])
  <2>1. Move(t, "events") /\ health' = OnStart(t[1]) /\ "events" \in Stage
      BY <1>2 DEF LoopHead, Stage
  <2>2. health'[t[1]].known
      BY <1>1, <2>1 DEF OnStart
  <2> QED BY <1>1, <1>2, <2>1, <2>2, StartRow, TaskMovesTurn
<1>3. CASE ~ShouldRun(t[1])
  <2>1. Exit(t) /\ health' = OnStop(t[1]) /\ "done" \in Stage
      BY <1>3 DEF LoopHead, Stage
  <2> QED BY <1>1, <2>1, StopRow, StopIsNotRunning, TaskMovesTurn
<1> QED BY <1>2, <1>3

\* The tail of the loop, for a row that does not say "running" any more.
LEMMA RestTurn ==
    ASSUME IInv, TurnInv, Turn, NEW t \in Task, task[t].at \notin {"new", "done"},
           NEW row \in [Name -> Health], Rest(t, row),
           \A m \in Name : m # t[1] => row[m] = health[m],
           health[t[1]].known => row[t[1]].known /\ row[t[1]].state # "running"
    PROVE  TurnInv'
<1>1. health \in [Name -> Health] /\ t[1] \in Name /\ Alive(t)
    BY TaskParts DEF IInv, TypeOK, Alive
<1>2. CASE ShouldRun(t[1])
  <2>1. Move(t, "backoff") /\ health' = row /\ "backoff" \in Stage
      BY <1>2 DEF Rest, Stage
  <2> QED BY <1>1, <1>2, <2>1, TaskMovesTurn
<1>3. CASE ~ShouldRun(t[1])
  <2>1. Exit(t) /\ health' = OnStop(t[1]) /\ "done" \in Stage
      BY <1>3 DEF Rest, Stage
  <2> QED BY <1>1, <2>1, StopRow, StopIsNotRunning, TaskMovesTurn
<1> QED BY <1>2, <1>3

LEMMA TaskTurn ==
    ASSUME IInv, TurnInv, NEW t \in Task,
           First(t) \/ Wake(t) \/ Closed(t) \/ Cancel(t) \/ Source(t)
    PROVE  TurnInv'
<1>1. /\ health \in [Name -> Health] /\ t[1] \in Name /\ Told /\ Placed /\ OneByOne
      /\ {"events", "unwinding", "closing", "done"} \subseteq Stage
    BY TaskParts DEF IInv, TypeOK, TurnInv, Stage
\* No twin of a task runs, and it is on the roster.
<1>2. Alive(t) => /\ health[t[1]].known
                  /\ health[t[1]].state = "running" <=> Runs(t)
  <2> SUFFICES ASSUME Alive(t) PROVE health[t[1]].known /\ (Runner(t[1]) <=> Runs(t))
      BY <1>1 DEF Told
  <2>1. \A u \in Task : u[1] = t[1] /\ Runs(u) => u = t
      BY <1>1, NoTwins DEF Runs, Alive
  <2> QED BY <1>1, <2>1 DEF Runner, Told, Placed
<1>3. CASE First(t)
  <2>1. Turn /\ Alive(t) /\ t[1] \in registered
      BY <1>1, <1>3 DEF First, At, Alive, Placed
  <2> QED BY <1>3, <2>1, LoopHeadTurn DEF First
<1>4. CASE Wake(t)
    BY <1>4, LoopHeadTurn DEF Wake, At, Alive
<1>5. CASE Closed(t)
  <2>1. Turn /\ task[t].at = "closing" /\ Rest(t, health) /\ ~Runs(t) /\ Alive(t)
      BY <1>5 DEF Closed, At, Runs, Alive
  <2> QED BY <1>1, <1>2, <2>1, RestTurn
<1>6. CASE LongRun(t)
  <2>1. /\ health' = [health EXCEPT ![t[1]].failures = 0]
        /\ UNCHANGED <<running, registered, enabled, req, loop, tasks, task>>
      BY <1>6 DEF LongRun, Turn
  <2>2. \A m \in Name : health'[m].state = health[m].state /\ health'[m].known = health[m].known
      BY <1>1, <2>1 DEF Health
  <2> QED BY <2>1, <2>2 DEF TurnInv, OneByOne, Placed, WantedOrDoomed, Emptied, Told, Rostered,
         Busy, Alive, ShouldRun, Doomed, Runner, Runs
<1>7. CASE Fail(t)
  <2>1. PICK newOutage \in BOOLEAN : health' = OnFailure(t[1], newOutage)
      BY <1>7 DEF Fail
  <2>2. Turn /\ task[t].at = "events" /\ Alive(t) /\ Move(t, "closing")
      BY <1>7 DEF Fail, At, Alive
  <2>3. health[t[1]].known => health'[t[1]].known /\ health'[t[1]].state \in {"failed", "retrying"}
      BY <1>1, <2>1 DEF OnFailure, Health
  <2>4. health' \in [Name -> Health] /\ \A m \in Name : m # t[1] => health'[m] = health[m]
      BY <1>1, <2>1, FailureRow
  <2> QED BY <1>1, <2>2, <2>3, <2>4, TaskMovesTurn
<1>8. CASE Complete(t)
  <2>1. Turn /\ task[t].at = "events" /\ Rest(t, OnCompleted(t[1]))
      BY <1>8 DEF Complete, At
  <2>2. health[t[1]].known => OnCompleted(t[1])[t[1]].known /\ OnCompleted(t[1])[t[1]].state = "completed"
      BY <1>1 DEF OnCompleted, Health
  <2>3. /\ OnCompleted(t[1]) \in [Name -> Health]
        /\ \A m \in Name : m # t[1] => OnCompleted(t[1])[m] = health[m]
      BY <1>1, CompletedRow
  <2> QED BY <2>1, <2>2, <2>3, RestTurn
<1>9. CASE CancelRunning(t)
  <2>1. Turn /\ task[t].at = "events" /\ Alive(t) /\ Runs(t)
      BY <1>9 DEF CancelRunning, CancelledAt, Alive, Runs
  <2>2. CASE Move(t, "unwinding") /\ health' = health
      BY <1>1, <1>2, <2>1, <2>2, TaskMovesTurn
  <2>3. CASE Move(t, "closing") /\ health' = OnStop(t[1])
      BY <1>1, <2>1, <2>3, StopRow, StopIsNotRunning, TaskMovesTurn
  <2> QED BY <1>9, <2>2, <2>3 DEF CancelRunning
<1>10. CASE CancelUnwound(t)
  <2>1. Turn /\ Alive(t) /\ Exit(t) /\ health' = OnStop(t[1])
      BY <1>10 DEF CancelUnwound, CancelledAt, Alive
  <2> QED BY <1>1, <2>1, StopRow, StopIsNotRunning, TaskMovesTurn
<1>11. CASE CancelElsewhere(t)
  <2>1. Turn /\ Alive(t) /\ ~Runs(t) /\ Exit(t) /\ health' = health
      BY <1>11 DEF CancelElsewhere, CancelledAt, Alive, Runs
  <2> QED BY <1>1, <1>2, <2>1, TaskMovesTurn
<1> QED BY <1>3, <1>4, <1>5, <1>6, <1>7, <1>8, <1>9, <1>10, <1>11 DEF Cancel, Source

LEMMA TurnInitial == Init => TurnInv
<1> SUFFICES ASSUME Init PROVE TurnInv
    OBVIOUS
<1>1. /\ \A h \in Handler : req[h] = NoReq
      /\ \A t \in Task : task[t].at = "done"
      /\ \A n \in Name : health[n] = NoHealth
      /\ registered = {} /\ loop = Nobody
    BY DEF Init, Ended
<1>2. NoReq.op = "idle" /\ NoReq.todo = {} /\ NoReq.wait = NoTask /\ NoHealth.state = "stopped"
    BY DEF NoReq, NoHealth, Blank
<1>3. \A t \in Task : ~Alive(t) /\ ~Runs(t)
    BY <1>1 DEF Alive, Runs
<1>4. OneByOne
    BY <1>1, <1>2 DEF OneByOne, Busy
<1>5. Placed /\ WantedOrDoomed /\ Emptied
    BY <1>1, <1>2, <1>3 DEF Placed, WantedOrDoomed, Emptied, Removing
<1>6. Told /\ Rostered
    BY <1>1, <1>2, <1>3 DEF Told, Runner, Rostered
<1> QED BY <1>4, <1>5, <1>6 DEF TurnInv

LEMMA TurnInductive ==
    IInv /\ (~raced => TurnInv) /\ [TurnNext]_turnVars => (~raced => TurnInv)'
<1> SUFFICES ASSUME IInv, ~raced => TurnInv, [TurnNext]_turnVars, ~raced' PROVE TurnInv'
    OBVIOUS
<1>1. CASE UNCHANGED turnVars
  <2>1. TurnInv /\ UNCHANGED <<running, registered, enabled, tasks, task, health, req, loop>>
      BY <1>1 DEF turnVars, vars
  <2> QED BY <2>1 DEF TurnInv, OneByOne, Placed, WantedOrDoomed, Emptied, Told, Rostered,
         Busy, Alive, ShouldRun, Doomed, Runner, Runs
<1>2. CASE Request /\ raced' = (raced \/ ~Idle)
    BY <1>2, RequestTurn
<1>3. CASE Progress /\ UNCHANGED raced
    BY <1>3, KillTurn, KilledTurn, FinishTurn, TaskTurn DEF Progress, Serve
<1> QED BY <1>1, <1>2, <1>3 DEF TurnNext

LEMMA TurnInvariance == TurnSpec => [](IInv /\ (~raced => TurnInv))
<1>1. TurnInit => IInv /\ (~raced => TurnInv)
    BY InitIInv, TurnInitial DEF TurnInit
<1>2. IInv /\ [TurnNext]_turnVars => IInv'
  <2>1. [TurnNext]_turnVars => [Next]_vars
      BY DEF TurnNext, Progress, Next, turnVars
  <2> QED BY <2>1, Inductive
<1> QED BY <1>1, <1>2, TurnInductive, PTL DEF TurnSpec

(* Requests one after another never open a source twice: the second reader  *)
(* of a camera or a serial port starts when the first has cleaned up (_kill *)
(* waits, restart and register spawn after it).                             *)
THEOREM OneReaderInTurn == TurnSpec => []OneInstanceInTurn
<1>1. IInv /\ (~raced => TurnInv) => OneInstanceInTurn
  <2> SUFFICES ASSUME TurnInv, NEW n \in Name
               PROVE  Cardinality({t \in Task : t[1] = n /\ Holding(t)}) <= 1
      BY DEF OneInstanceInTurn, AtMostOneInstance
  <2> DEFINE H == {t \in Task : t[1] = n /\ Holding(t)}
  <2>1. \A t, u \in H : t = u
      BY NoTwins DEF TurnInv, Holding, At, Alive
  <2> HIDE DEF H
  <2>2. H = {} \/ \E t : H = {t}
      BY <2>1
  <2>3. Cardinality({}) = 0 /\ \A t : Cardinality({t}) = 1
      BY FS_EmptySet, FS_Singleton
  <2>4. Cardinality(H) = 0 \/ Cardinality(H) = 1
      BY <2>2, <2>3, Zenon
  <2>5. Cardinality(H) <= 1
      BY <2>4
  <2> QED BY <2>5 DEF H
<1> QED BY <1>1, TurnInvariance, PTL

(* When no request is in flight, whatever is off, unregistered or stopped is *)
(* dead, and not merely condemned.                                           *)
THEOREM OffIsDeadForGood == TurnSpec => []OffIsDeadInTurn
<1>1. IInv /\ (~raced => TurnInv) => OffIsDeadInTurn
    BY NoneInFlight, TaskParts DEF TurnInv, WantedOrDoomed, OffIsDeadInTurn, OffIsDead
<1> QED BY <1>1, TurnInvariance, PTL

(* The row of every source on the roster says "running" exactly while its    *)
(* generator runs, in every step of a kill too.                              *)
THEOREM RowsTellTheTruth == TurnSpec => []HonestInTurn
<1>1. IInv /\ (~raced => TurnInv) => HonestInTurn
    BY DEF IInv, TypeOK, TurnInv, Told, Runner, HonestInTurn, HealthIsHonest
<1> QED BY <1>1, TurnInvariance, PTL
=============================================================================
