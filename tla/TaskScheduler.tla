--------------------------- MODULE TaskScheduler ---------------------------
(***************************************************************************)
(* The scheduler of the user's tasks (src/task_scheduler.py), the event    *)
(* bus that triggers tasks (src/event_bus.py) and the gate that lets       *)
(* foreground work go first (src/interactive_gate.py).                     *)
(*                                                                         *)
(* Every run is a coroutine of its own.  The actions below are the         *)
(* stretches of code between two points where a coroutine is suspended;    *)
(* _executing_lock is never held across such a point, so that its critical *)
(* sections are parts of actions.  A stretch that the model cuts in two    *)
(* keeps the loop: no other coroutine moves while loop # NoRun.            *)
(*                                                                         *)
(* next_run is abstracted to what the code asks about it: NULL ("never"),  *)
(* the next occurrence of the schedule ("next"), a retry in a minute or    *)
(* fifteen ("soon"), or a moment that has passed ("due").                  *)
(***************************************************************************)
EXTENDS Integers, Sequences

CONSTANTS Tasks,
          Kinds,        \* the trigger types tasks may have
          NeedsSlot,    \* the tasks _task_needs_model_slot() is true of
          AdminOnly,    \* the tasks whose action needs an administrator
          Then,         \* then_task_id
          Threshold,    \* trigger_count, of every event task
          MaxRuns,      \* bound: runs of a task alive together
          MaxAsks,      \* bound: manual runs, stops, pauses and resumes
          MaxEvents,    \* bound: events
          MaxCrashes,   \* bound: server crashes
          MaxFaults,    \* bound: steps that meet an unexpected exception
          NoTask, NoRun \* model values

Runs  == Tasks \X (1..MaxRuns)
Of(r) == r[1]

ASSUME TaskSchedulerAssumption ==
  /\ Kinds \subseteq {"cron", "once", "event"}
  /\ NeedsSlot \subseteq Tasks /\ AdminOnly \subseteq Tasks
  /\ NoTask \notin Tasks /\ NoRun \notin Runs
  /\ Then \in [Tasks -> Tasks \cup {NoTask}]
  /\ Threshold \in Nat \ {0} /\ MaxRuns \in Nat \ {0}
  /\ MaxAsks \in Nat /\ MaxEvents \in Nat /\ MaxCrashes \in Nat /\ MaxFaults \in Nat

VARIABLES
  status,     \* task.status
  due,        \* task.next_run
  passed,     \* a "once" task's scheduled_date has passed
  counter,    \* task.trigger_counter
  trigger,    \* task.trigger_type: "cron", "once" or "event"
  executing,  \* _executing
  handle,     \* _task_handles
  chained,    \* tasks whose _run_chained() has not begun
  pc,         \* where a run's coroutine is
  row,        \* the status in the run's TaskRun row
  forced,     \* run_task_now(force=True)
  cancel,     \* who cancelled the coroutine (its handle, or its
              \* foreground monitor); not delivered yet
  res,        \* what a run that is settling came to
  readNull,   \* the run's database session last read a next_run that was NULL
  begun,      \* runs in the order of started_at
  slot,       \* the run that holds _run_semaphore
  loop,       \* the run that keeps the event loop
  foreground, \* has_foreground_activity()
  up,         \* the server is running
  asks, events, crashes, faults,
  owed,       \* history: triggered, and no run has started or failed to since
  stopped,    \* history: stop_task() took the task out of _executing
  failed      \* history: runs that ended with an exception before their start, or
              \* whose end could not be written

taskVars == <<status, due, passed, counter, trigger>>
runVars  == <<pc, row, forced, cancel, res, readNull, begun>>
memVars  == <<executing, handle, chained, slot, loop>>
envVars  == <<foreground, up, asks, events, crashes, faults>>
histVars == <<owed, stopped, failed>>
vars     == <<taskVars, runVars, memVars, envVars, histVars>>

Live(r)    == pc[r] # "idle"
Started(r) == pc[r] \in {"run", "settle"}
Active(s)  == s \in {"queued", "running"}
RunsOf(t)  == {t} \X (1..MaxRuns)
Idle       == up /\ loop = NoRun

\* The run's number is free for another run of its task; where there is no other,
\* a row that nobody will ever end is forgotten.
Room(t)  == \E r \in RunsOf(t) : ~Live(r)
Fresh(t) == CHOOSE r \in RunsOf(t) :
              /\ ~Live(r)
              /\ Active(row[r]) => \A q \in RunsOf(t) : Live(q) \/ Active(row[q])

\* The step meets an exception: a query, a commit or a check fails.
Fault == faults < MaxFaults /\ faults' = faults + 1

\* A run is in begun once.
Position(s, r) == CHOOSE i \in 1..Len(s) : s[i] = r
Without(s, r)  == IF \E i \in 1..Len(s) : s[i] = r
                    THEN SubSeq(s, 1, Position(s, r) - 1)
                           \o SubSeq(s, Position(s, r) + 1, Len(s))
                    ELSE s

\* compute_next_run(after=now).
Occurrence(t) == IF trigger[t] = "once" /\ passed[t] THEN "never" ELSE "next"

\* What a run's end does to next_run: only schedule triggers have a next one.
AfterRun(t) == IF trigger[t] = "event" THEN "never" ELSE Occurrence(t)

\* The session writes a column only if its value differs from the one it read.
Written(r, v) == IF v = "never" /\ readNull[r] THEN due[Of(r)] ELSE v

\* The trigger fires: while no run of the task has started ("yes"), or late.
Owe(t) == IF \E r \in RunsOf(t) : Started(r) THEN "late" ELSE "yes"

Init ==
  /\ status = [t \in Tasks |-> "active"] /\ trigger \in [Tasks -> Kinds]
  /\ due = [t \in Tasks |-> IF trigger[t] = "event" THEN "never" ELSE "next"]
  /\ passed = [t \in Tasks |-> FALSE] /\ counter = [t \in Tasks |-> 0]
  /\ executing = {} /\ handle = [t \in Tasks |-> NoRun] /\ chained = {}
  /\ pc = [r \in Runs |-> "idle"] /\ row = [r \in Runs |-> "absent"]
  /\ forced = [r \in Runs |-> FALSE] /\ cancel = [r \in Runs |-> "no"]
  /\ res = [r \in Runs |-> "none"] /\ readNull = [r \in Runs |-> FALSE]
  /\ begun = <<>> /\ slot = NoRun /\ loop = NoRun
  /\ foreground = FALSE /\ up = TRUE /\ asks = 0 /\ events = 0 /\ crashes = 0
  /\ faults = 0 /\ failed = {}
  /\ owed = [t \in Tasks |-> "no"] /\ stopped = [t \in Tasks |-> FALSE]

-----------------------------------------------------------------------------
(* Triggers and dispatch. *)

\* Time passes; an occurrence that passes while the task is active is owed.
Clock(t) ==
  /\ due[t] \in {"next", "soon"}
  /\ due' = [due EXCEPT ![t] = "due"]
  /\ IF due[t] = "next"
       THEN /\ passed' = [passed EXCEPT ![t] = trigger[t] = "once"]
            /\ owed' = IF status[t] = "active" THEN [owed EXCEPT ![t] = Owe(t)]
                                               ELSE owed
       ELSE UNCHANGED <<passed, owed>>
  /\ UNCHANGED <<status, counter, trigger, runVars, memVars, envVars, stopped, failed>>

\* asyncio.create_task(self._execute_task(t)), for all tasks of a set.
Create(ts, isForced) ==
  /\ \A t \in ts : Room(t)
  /\ pc' = [r \in Runs |-> IF \E t \in ts : r = Fresh(t) THEN "created" ELSE pc[r]]
  /\ forced' = [r \in Runs |-> IF \E t \in ts : r = Fresh(t) THEN isForced
                                                             ELSE forced[r]]
  /\ row' = [r \in Runs |-> IF \E t \in ts : r = Fresh(t) THEN "absent" ELSE row[r]]
  /\ UNCHANGED <<cancel, res, readNull, begun>>

\* Mutated form: without looking at _executing.
DueAnyhow == {t \in Tasks : status[t] = "active" /\ due[t] = "due"}
DueTasks == {t \in Tasks : status[t] = "active" /\ due[t] = "due" /\ t \notin executing}

\* _check_due_tasks().
CheckDueTasks ==
  /\ Idle /\ DueTasks # {}
  /\ IF foreground
       THEN /\ due' = [t \in Tasks |-> IF t \in DueTasks THEN "soon" ELSE due[t]]
            /\ UNCHANGED <<executing, runVars>>
       ELSE /\ Create(DueTasks, FALSE)
            /\ executing' = executing \cup DueTasks
            /\ UNCHANGED due
  /\ UNCHANGED <<status, passed, counter, trigger, handle, chained, slot, loop, envVars, histVars>>

\* run_task_now(): from the user, a webhook or a tool.
RunTaskNow(t) ==
  /\ Idle /\ asks < MaxAsks /\ t \notin executing
  /\ Create({t}, FALSE)
  /\ executing' = executing \cup {t}
  /\ asks' = asks + 1
  /\ UNCHANGED <<taskVars, handle, chained, slot, loop, foreground, up, events, crashes,
                 faults, histVars>>

ForceRun(t) ==
  /\ Idle /\ asks < MaxAsks
  /\ Create({t}, TRUE)
  /\ asks' = asks + 1
  /\ UNCHANGED <<taskVars, memVars, foreground, up, events, crashes, faults, histVars>>

\* Mutated form: the counter must have passed the threshold.
CountPassed(t) == counter[t] >= Threshold
CountReached(t) == counter[t] + 1 >= Threshold

\* Mutated form: the trigger is left to the run.
TriggerUnsaved(t) == due[t]
\* _handle_event() saves the trigger before it asks for the run.
TriggerSaved(t) == "due"

HandleEvent(t) ==
  /\ Idle /\ events < MaxEvents
  /\ trigger[t] = "event" /\ status[t] = "active"
  /\ events' = events + 1
  /\ IF CountReached(t)
       THEN /\ counter' = [counter EXCEPT ![t] = 0]
            /\ due' = [due EXCEPT ![t] = TriggerSaved(t)]
            /\ owed' = [owed EXCEPT ![t] = Owe(t)]
            /\ IF t \in executing
                 THEN UNCHANGED <<executing, runVars>>
                 ELSE Create({t}, FALSE) /\ executing' = executing \cup {t}
       ELSE /\ counter' = [counter EXCEPT ![t] = @ + 1]
            /\ UNCHANGED <<due, owed, executing, runVars>>
  /\ UNCHANGED <<status, passed, trigger, handle, chained, slot, loop, foreground, up,
                 asks, crashes, faults, stopped, failed>>

-----------------------------------------------------------------------------
(* _execute_task(). *)

NoWaiters == \A r \in Runs : pc[r] # "line"

\* Mutated form: a coroutine does not look whether the slot is taken.
SlotOpenAnyhow == TRUE
SlotOpen == slot = NoRun /\ NoWaiters

\* The semaphore, if it is needed.
Admit(r) ==
  IF forced'[r] \/ Of(r) \notin NeedsSlot
    THEN pc' = [pc EXCEPT ![r] = "enter"] /\ loop' = r /\ UNCHANGED slot
    ELSE IF SlotOpen
      THEN pc' = [pc EXCEPT ![r] = "enter"] /\ loop' = r /\ slot' = r
      ELSE pc' = [pc EXCEPT ![r] = "line"] /\ UNCHANGED <<loop, slot>>

\* _task_needs_model_slot() raises; a forced run does not ask.
CannotAdmit(r) ==
  /\ ~forced'[r]
  /\ pc' = [pc EXCEPT ![r] = "failing"] /\ loop' = r /\ UNCHANGED slot

\* The handle and the queued row; without the row the run goes on.
BeginAs(r) ==
  /\ handle' = [handle EXCEPT ![Of(r)] = r]
  /\ begun' = Append(Without(begun, r), r)
  /\ failed' = failed \ {r}
  /\ \E entered \in {"queued", "absent"} :
       /\ row' = [row EXCEPT ![r] = entered]
       /\ \/ Admit(r) /\ IF entered = "queued" THEN UNCHANGED faults ELSE Fault
          \/ CannotAdmit(r) /\ Fault

Begin(r) ==
  /\ Idle /\ pc[r] = "created"
  /\ UNCHANGED forced
  /\ BeginAs(r)
  /\ UNCHANGED <<taskVars, executing, chained, cancel, res, readNull, foreground, up, asks,
                 events, crashes, owed, stopped>>

\* _run_chained() goes straight on into _execute_task().
RunChained(t) ==
  /\ Idle /\ t \in chained
  /\ chained' = chained \ {t}
  /\ IF t \in executing
       THEN UNCHANGED <<executing, handle, slot, loop, runVars, faults, failed>>
       ELSE /\ Room(t)
            /\ executing' = executing \cup {t}
            /\ forced' = [forced EXCEPT ![Fresh(t)] = FALSE]
            /\ BeginAs(Fresh(t))
            /\ UNCHANGED <<cancel, res, readNull>>
  /\ UNCHANGED <<taskVars, foreground, up, asks, events, crashes, owed, stopped>>

\* The semaphore is first come, first served.
FirstInLine(r) ==
  /\ pc[r] = "line"
  /\ \A i, k \in DOMAIN begun :
       begun[i] = r /\ pc[begun[k]] = "line" => i <= k

AcquireSlot(r) ==
  /\ Idle /\ FirstInLine(r) /\ slot = NoRun /\ cancel[r] = "no"
  /\ slot' = r /\ loop' = r
  /\ pc' = [pc EXCEPT ![r] = "enter"]
  /\ UNCHANGED <<taskVars, executing, handle, chained, row, forced, cancel, res, readNull,
                 begun, envVars, histVars>>

\* The finally blocks: leave _task_handles, _executing and the semaphore.
\* Mutated form: membership is left to the caller.
Released(r) == executing
Release(r) == IF forced[r] THEN executing ELSE executing \ {Of(r)}

Leave(r) ==
  /\ pc' = [pc EXCEPT ![r] = "idle"]
  /\ cancel' = [cancel EXCEPT ![r] = "no"]
  /\ res' = [res EXCEPT ![r] = "none"]
  /\ readNull' = [readNull EXCEPT ![r] = FALSE]
  /\ forced' = [forced EXCEPT ![r] = FALSE]
  /\ begun' = IF Active(row'[r]) THEN begun ELSE Without(begun, r)
  /\ handle' = [handle EXCEPT ![Of(r)] = IF @ = r THEN NoRun ELSE @]
  /\ executing' = Release(r)
  /\ slot' = IF slot = r THEN NoRun ELSE slot
  /\ loop' = NoRun

-----------------------------------------------------------------------------
(* _execute_task_locked(). *)

\* The run starts: its row is set to running whatever it says.
Start(r) ==
  /\ row' = [row EXCEPT ![r] = "running"]
  /\ pc' = [pc EXCEPT ![r] = "run"]
  /\ begun' = Append(Without(begun, r), r)
  /\ readNull' = [readNull EXCEPT ![r] = due[Of(r)] = "never"]
  /\ owed' = [owed EXCEPT ![Of(r)] = "no"]
  /\ loop' = NoRun
  /\ UNCHANGED <<taskVars, executing, handle, chained, forced, cancel, res, slot, envVars,
                 stopped, failed>>

\* The task was paused or completed while the run was queued.
SkipInactive(r) ==
  /\ loop = r /\ pc[r] = "enter" /\ status[Of(r)] # "active"
  /\ row' = [row EXCEPT ![r] = IF @ = "queued" THEN "skipped" ELSE @]
  /\ Leave(r)
  /\ UNCHANGED <<taskVars, chained, envVars, histVars>>

\* The owner is no administrator any more.
RefuseNonAdmin(r) ==
  /\ loop = r /\ pc[r] = "enter" /\ status[Of(r)] = "active" /\ Of(r) \in AdminOnly
  /\ row' = [row EXCEPT ![r] = "error"]
  /\ status' = [status EXCEPT ![Of(r)] = "paused"]
  /\ due' = [due EXCEPT ![Of(r)] = "never"]
  /\ Leave(r)
  /\ UNCHANGED <<passed, counter, trigger, chained, envVars, histVars>>

\* wait_for_interactive_quiet(); a forced run does not wait.
EnterGate(r) ==
  /\ loop = r /\ pc[r] = "enter" /\ status[Of(r)] = "active" /\ ~forced[r]
  /\ pc' = [pc EXCEPT ![r] = "gate"]
  /\ loop' = NoRun
  /\ UNCHANGED <<taskVars, executing, handle, chained, row, forced, cancel, res, readNull,
                 begun, slot, envVars, histVars>>

StartForced(r) ==
  /\ loop = r /\ pc[r] = "enter" /\ status[Of(r)] = "active" /\ forced[r]
  /\ Start(r)

PassGate(r) ==
  /\ Idle /\ pc[r] = "gate" /\ ~foreground /\ cancel[r] = "no"
  /\ Start(r)

\* What the handler of an exception leaves behind.  It records the error of a run
\* that had started and advances a schedule; its own commit fails, and a fresh
\* session aborts the row and puts a schedule off; or nothing can be written.
ErrorRecorded(r) ==
  /\ row' = [row EXCEPT ![r] = IF @ \in {"running", "success"} THEN "error" ELSE @]
  /\ due' = [due EXCEPT ![Of(r)] = IF trigger[Of(r)] = "event" THEN @
                                   ELSE Occurrence(Of(r))]

Aborted(s) == IF Active(s) THEN "aborted" ELSE s

ErrorRecovered(r) ==
  /\ row' = [row EXCEPT ![r] = Aborted(@)]
  /\ due' = [due EXCEPT ![Of(r)] = IF trigger[Of(r)] = "event" THEN @ ELSE "soon"]

ErrorLost == UNCHANGED <<row, due>>

\* An exception before the row says running: at a check, a query or a commit.
\* The handler leaves a queued row as it is, and gives up a schedule's occurrence.
Raise(r) ==
  /\ \/ loop = r /\ pc[r] = "enter"
     \/ Idle /\ pc[r] = "gate" /\ ~foreground /\ cancel[r] = "no"
  /\ Fault
  /\ failed' = failed \cup {r}
  /\ \/ /\ ErrorRecorded(r)
        /\ owed' = IF trigger[Of(r)] = "event" THEN owed ELSE [owed EXCEPT ![Of(r)] = "no"]
     \/ (ErrorRecovered(r) \/ ErrorLost) /\ UNCHANGED owed
  /\ Leave(r)
  /\ UNCHANGED <<status, passed, counter, trigger, chained, foreground, up, asks, events,
                 crashes, stopped>>

\* The exception of _task_needs_model_slot() has no handler.
Abandon(r) ==
  /\ loop = r /\ pc[r] = "failing"
  /\ failed' = failed \cup {r}
  /\ UNCHANGED row
  /\ Leave(r)
  /\ UNCHANGED <<taskVars, chained, envVars, owed, stopped>>

\* The task's work or the delivery of its result commits the run's session: what
\* was assigned so far is written, and the columns are read again.
Commit(r) ==
  /\ Idle /\ pc[r] = "run" /\ cancel[r] = "no"
  /\ row' = [row EXCEPT ![r] = "success"] \/ UNCHANGED row
  /\ readNull' = [readNull EXCEPT ![r] = due[Of(r)] = "never"]
  /\ <<row', readNull'>> # <<row, readNull>>
  /\ UNCHANGED <<taskVars, memVars, pc, forced, cancel, res, begun, envVars, histVars>>

\* The work is done: a result, an error result or an exception, recorded when the
\* foreground monitor is gone.  A forced run has none and goes straight on.  After
\* a failed commit the session refuses every query, the handler's too ("broken").
\* An exception on the way to the commit of the result is as one of the work.
Return(r) ==
  /\ Idle /\ pc[r] = "run" /\ cancel[r] = "no"
  /\ pc' = [pc EXCEPT ![r] = "settle"]
  /\ \E v \in {"success", "error", "raised", "broken"} :
       /\ v = "error" => row[r] # "success"
       /\ IF v = "broken" THEN Fault ELSE UNCHANGED faults
       /\ res' = [res EXCEPT ![r] = v]
  /\ loop' = IF forced[r] THEN r ELSE NoRun
  /\ UNCHANGED <<taskVars, executing, handle, chained, slot, row, forced, cancel, readNull,
                 begun, foreground, up, asks, events, crashes, histVars>>

\* TaskNoop and TaskDeferred are recorded before the monitor is gone; if that fails
\* it is an exception like those of Return.
GiveUp(r) ==
  /\ Idle /\ pc[r] = "run" /\ cancel[r] = "no" /\ row[r] # "success"
  /\ pc' = [pc EXCEPT ![r] = "settle"]
  /\ res' = [res EXCEPT ![r] = "recorded"]
  /\ loop' = IF forced[r] THEN r ELSE NoRun
  /\ \/ /\ row' = [row EXCEPT ![r] = "skipped"]
        /\ due' = [due EXCEPT ![Of(r)] = Written(r, AfterRun(Of(r)))]
     \/ /\ row' = [row EXCEPT ![r] = "absent"]
        /\ due' = [due EXCEPT ![Of(r)] = "soon"]
  /\ UNCHANGED <<status, passed, counter, trigger, executing, handle, chained, slot, forced, cancel,
                 readNull, begun, envVars, histVars>>

\* A CancelledError arrives while the work is done.  The row is aborted and
\* next_run advances; only a run that the foreground monitor hit is put off.
AfterCancel(r) == IF cancel[r] = "monitor" THEN "soon" ELSE Written(r, AfterRun(Of(r)))

Interrupt(r) ==
  /\ Idle /\ pc[r] = "run" /\ cancel[r] # "no"
  /\ pc' = [pc EXCEPT ![r] = "settle"]
  /\ loop' = IF forced[r] \/ cancel[r] = "monitor" THEN r ELSE NoRun
  /\ \/ /\ row' = [row EXCEPT ![r] = "aborted"]
        /\ due' = [due EXCEPT ![Of(r)] = AfterCancel(r)]
        /\ res' = [res EXCEPT ![r] = "recorded"]
        /\ UNCHANGED faults
     \/ /\ \E v \in {"raised", "broken"} : res' = [res EXCEPT ![r] = v]
        /\ Fault /\ UNCHANGED <<row, due>>
  /\ UNCHANGED <<status, passed, counter, trigger, executing, handle, chained, slot, forced, cancel,
                 readNull, begun, foreground, up, asks, events, crashes, histVars>>

\* It arrives before the run started: mark the row, and put an overdue task off.
\* Either may fail, which is only logged.
\* Mutated form: next_run of an overdue task is cleared.
DroppedIfDue(t) == IF status[t] = "active" /\ due[t] = "due" THEN "never" ELSE due[t]
DeferredIfDue(t) == IF status[t] = "active" /\ due[t] = "due" THEN "soon" ELSE due[t]

RowMarked(r) == Aborted(row[r])

CancelQueued(r) ==
  /\ Idle /\ pc[r] \in {"line", "gate"} /\ cancel[r] # "no"
  /\ \E marked, deferred \in BOOLEAN :
       /\ row' = IF marked THEN [row EXCEPT ![r] = RowMarked(r)] ELSE row
       /\ due' = IF deferred THEN [due EXCEPT ![Of(r)] = DeferredIfDue(Of(r))] ELSE due
       /\ failed' = IF marked THEN failed ELSE failed \cup {r}
       /\ IF marked /\ deferred THEN UNCHANGED faults ELSE Fault
  /\ Leave(r)
  /\ UNCHANGED <<status, passed, counter, trigger, chained, foreground, up, asks, events,
                 crashes, owed, stopped>>

\* _has_chain_cycle(): ten links further the chain has not ended.
HasChainCycle(t) ==
  LET link[n \in 0..10] ==
        IF n = 0 THEN t
        ELSE IF link[n - 1] = NoTask THEN NoTask ELSE Then[link[n - 1]]
  IN  link[10] # NoTask

Chains(t) == Then[t] # NoTask /\ ~HasChainCycle(Then[t])

\* The monitor is gone; a cancellation that came while waiting for it is lost.
Settled(r) == pc[r] = "settle" /\ up /\ loop \in {NoRun, r}

\* The result is recorded, the next occurrence computed, the chained task started.
\* An exception between the commit and the chain makes the recorded run an error,
\* unless that cannot be written.
Complete(r) ==
  /\ Settled(r) /\ res[r] \in {"success", "error"}
  /\ status' = [status EXCEPT ![Of(r)] =
                  IF trigger[Of(r)] = "once" /\ passed[Of(r)] THEN "completed" ELSE @]
  /\ \/ /\ row' = [row EXCEPT ![r] = res[r]]
        /\ due' = [due EXCEPT ![Of(r)] = Written(r, AfterRun(Of(r)))]
        /\ chained' = IF res[r] = "success" /\ Chains(Of(r))
                        THEN chained \cup {Then[Of(r)]} ELSE chained
        /\ UNCHANGED faults
     \/ /\ Fault /\ UNCHANGED chained
        /\ \E s \in {<<"error", AfterRun(Of(r))>>, <<res[r], "soon">>,
                     <<res[r], Written(r, AfterRun(Of(r)))>>} :
             /\ row' = [row EXCEPT ![r] = s[1]]
             /\ due' = [due EXCEPT ![Of(r)] = IF trigger[Of(r)] = "event"
                                               THEN Written(r, "never") ELSE s[2]]
  /\ Leave(r)
  /\ UNCHANGED <<passed, counter, trigger, foreground, up, asks, events, crashes, histVars>>

\* The exception path: only schedule triggers are advanced.
RecordError(r) ==
  /\ Settled(r) /\ res[r] = "raised"
  /\ \/ ErrorRecorded(r) /\ UNCHANGED <<faults, failed>>
     \/ (ErrorRecovered(r) \/ ErrorLost) /\ Fault /\ failed' = failed \cup {r}
  /\ Leave(r)
  /\ UNCHANGED <<status, passed, counter, trigger, chained, foreground, up, asks, events,
                 crashes, owed, stopped>>

\* What the run came to is recorded already, or cannot be.
Depart(r) ==
  /\ Settled(r) /\ res[r] \in {"recorded", "broken"}
  /\ failed' = IF res[r] = "broken" THEN failed \cup {r} ELSE failed
  /\ UNCHANGED row
  /\ Leave(r)
  /\ UNCHANGED <<taskVars, chained, envVars, owed, stopped>>

-----------------------------------------------------------------------------
(* Stopping. *)

\* _mark_run_aborted(t): the queued or running row that started last.
Newest(t) == {r \in RunsOf(t) :
                /\ Active(row[r])
                /\ \A i, k \in DOMAIN begun :
                     begun[i] = r /\ begun[k] \in RunsOf(t) /\ Active(row[begun[k]])
                       => k <= i}

\* The handles of ts are cancelled and their newest rows marked; a mark that fails
\* is only logged.
CancelTasks(ts) ==
  /\ cancel' = [r \in Runs |-> IF Of(r) \in ts /\ handle[Of(r)] = r /\ cancel[r] = "no"
                                 THEN "handle" ELSE cancel[r]]
  /\ \E marked \in SUBSET ts :
       /\ row' = [r \in Runs |-> IF Of(r) \in marked /\ r \in Newest(Of(r))
                                   THEN "aborted" ELSE row[r]]
       /\ IF marked = ts THEN UNCHANGED faults ELSE Fault

\* stop_task(): the task leaves _executing before its coroutine has ended.
StopTask(t) ==
  /\ Idle /\ asks < MaxAsks
  /\ handle[t] # NoRun \/ t \in executing \/ Newest(t) # {}
  /\ CancelTasks({t})
  /\ executing' = executing \ {t}
  /\ asks' = asks + 1
  /\ stopped' = [stopped EXCEPT ![t] = @ \/ t \in executing]
  /\ UNCHANGED <<taskVars, handle, chained, slot, loop, pc, forced, res, readNull, begun,
                 foreground, up, events, crashes, owed, failed>>

\* stop_background_tasks_for_foreground(), at every request and heartbeat.
StopBackground ==
  /\ Idle /\ foreground /\ executing # {}
  /\ CancelTasks(executing)
  /\ <<cancel', row'>> # <<cancel, row>>
  /\ UNCHANGED <<taskVars, memVars, pc, forced, res, readNull, begun, foreground, up, asks,
                 events, crashes, histVars>>

\* The monitor of a run that has started polls has_foreground_activity().
MonitorHits(r) ==
  /\ Idle /\ pc[r] = "run" /\ ~forced[r] /\ foreground /\ cancel[r] # "monitor"
  /\ cancel' = [cancel EXCEPT ![r] = "monitor"]
  /\ UNCHANGED <<taskVars, memVars, pc, row, forced, res, readNull, begun, envVars, histVars>>

Pause(t) ==
  /\ Idle /\ asks < MaxAsks /\ status[t] = "active"
  /\ status' = [status EXCEPT ![t] = "paused"]
  /\ asks' = asks + 1
  /\ UNCHANGED <<due, passed, counter, trigger, memVars, runVars, foreground, up, events, crashes,
                 faults, histVars>>

\* The user starts the schedule anew: what was owed is forgotten.
Resume(t) ==
  /\ Idle /\ asks < MaxAsks /\ status[t] # "active"
  /\ status' = [status EXCEPT ![t] = "active"]
  /\ due' = [due EXCEPT ![t] = IF trigger[t] = "event" THEN @ ELSE Occurrence(t)]
  /\ owed' = [owed EXCEPT ![t] = "no"]
  /\ asks' = asks + 1
  /\ UNCHANGED <<passed, counter, trigger, memVars, runVars, foreground, up, events, crashes,
                 faults, stopped, failed>>

-----------------------------------------------------------------------------
(* The user's presence, and the server. *)

Foreground ==
  /\ Idle /\ foreground' = ~foreground
  /\ UNCHANGED <<taskVars, memVars, runVars, up, asks, events, crashes, faults, histVars>>

\* Everything but the database is lost.
Crash ==
  /\ up /\ crashes < MaxCrashes
  /\ up' = FALSE /\ foreground' = FALSE /\ crashes' = crashes + 1
  /\ executing' = {} /\ handle' = [t \in Tasks |-> NoRun] /\ chained' = {}
  /\ slot' = NoRun /\ loop' = NoRun
  /\ pc' = [r \in Runs |-> "idle"] /\ forced' = [r \in Runs |-> FALSE]
  /\ cancel' = [r \in Runs |-> "no"] /\ res' = [r \in Runs |-> "none"]
  /\ readNull' = [r \in Runs |-> FALSE]
  /\ UNCHANGED <<taskVars, row, begun, asks, events, faults, histVars>>

\* start(): rows left over are aborted, overdue tasks put off.  Either may fail,
\* which is only logged.
\* Mutated form: only running rows are looked for.
StaleRunning(s) == IF s = "running" THEN "aborted" ELSE s
StaleCleared(s) == Aborted(s)

Restart ==
  /\ ~up /\ up' = TRUE
  /\ \E cleared, deferred \in BOOLEAN :
       /\ row' = IF cleared THEN [r \in Runs |-> StaleCleared(row[r])] ELSE row
       /\ failed' = IF cleared THEN {} ELSE {r \in Runs : Active(row[r])}
       /\ begun' = IF cleared THEN <<>> ELSE begun
       /\ due' = IF deferred THEN [t \in Tasks |-> DeferredIfDue(t)] ELSE due
       /\ IF cleared /\ deferred THEN UNCHANGED faults ELSE Fault
  /\ UNCHANGED <<status, passed, counter, trigger, memVars, pc, forced, cancel, res, readNull,
                 foreground, asks, events, crashes, owed, stopped>>

-----------------------------------------------------------------------------
TaskStep(t) == \/ Clock(t) \/ HandleEvent(t) \/ RunChained(t)
               \/ RunTaskNow(t) \/ ForceRun(t) \/ StopTask(t) \/ Pause(t) \/ Resume(t)

\* A coroutine's own steps.
RunStep(r) == \/ Begin(r) \/ AcquireSlot(r) \/ Abandon(r) \/ Raise(r)
              \/ SkipInactive(r) \/ RefuseNonAdmin(r) \/ EnterGate(r) \/ StartForced(r)
              \/ PassGate(r) \/ Return(r) \/ GiveUp(r) \/ Interrupt(r) \/ CancelQueued(r)
              \/ Complete(r) \/ RecordError(r) \/ Depart(r)

Next == \/ \E t \in Tasks : TaskStep(t)
        \/ \E r \in Runs : RunStep(r) \/ Commit(r) \/ MonitorHits(r)
        \/ CheckDueTasks \/ StopBackground \/ Foreground \/ Crash \/ Restart

Spec == Init /\ [][Next]_vars

\* Time passes, and a run's work ends.  What is ready to go on does so although
\* others take the loop again and again (strong fairness): asyncio's ready queue
\* and its semaphores are first come, first served.
Fairness ==
  /\ SF_vars(CheckDueTasks) /\ WF_vars(Restart)
  /\ \A t \in Tasks : WF_vars(Clock(t)) /\ SF_vars(RunChained(t))
  /\ \A r \in Runs : SF_vars(RunStep(r))

FairSpec == Spec /\ Fairness

-----------------------------------------------------------------------------
(* Properties. *)

\* Every variable keeps its type (src/task_scheduler.py:345-364).
TypeOK ==
  /\ status \in [Tasks -> {"active", "paused", "completed"}]
  /\ due \in [Tasks -> {"never", "due", "soon", "next"}]
  /\ trigger \in [Tasks -> Kinds]
  /\ passed \in [Tasks -> BOOLEAN] /\ counter \in [Tasks -> 0..(Threshold - 1)]
  /\ executing \in SUBSET Tasks /\ chained \in SUBSET Tasks
  /\ handle \in [Tasks -> Runs \cup {NoRun}]
  /\ pc \in [Runs -> {"idle", "created", "failing", "line", "enter", "gate", "run", "settle"}]
  /\ row \in [Runs -> {"absent", "queued", "running", "success", "error", "skipped", "aborted"}]
  /\ forced \in [Runs -> BOOLEAN]
  /\ cancel \in [Runs -> {"no", "handle", "monitor"}]
  /\ res \in [Runs -> {"none", "success", "error", "raised", "broken", "recorded"}]
  /\ readNull \in [Runs -> BOOLEAN]
  /\ begun \in Seq(Runs)
  /\ slot \in Runs \cup {NoRun} /\ loop \in Runs \cup {NoRun}
  /\ foreground \in BOOLEAN /\ up \in BOOLEAN
  /\ asks \in 0..MaxAsks /\ events \in 0..MaxEvents /\ crashes \in 0..MaxCrashes
  /\ faults \in 0..MaxFaults /\ failed \in SUBSET Runs
  /\ owed \in [Tasks -> {"no", "yes", "late"}] /\ stopped \in [Tasks -> BOOLEAN]

\* The runs that use the model do so one at a time, except those the user forces
\* (src/task_scheduler.py:773-779).  The slot is never lost: who has it is past the
\* semaphore and will give it back, and where runs wait for it there is one whose
\* turn it is, also while waiters and the holder are being cancelled.
PastSlot == {"enter", "gate", "run", "settle"}
OneModelRun ==
  /\ \A r, q \in {x \in Runs : Of(x) \in NeedsSlot /\ ~forced[x]} :
       pc[r] \in PastSlot /\ pc[q] \in PastSlot => r = q
  /\ slot # NoRun => pc[slot] \in PastSlot /\ ~forced[slot]
  /\ (\E r \in Runs : pc[r] = "line") => \E r \in Runs : FirstInLine(r)

\* While the server is up, a row says queued or running only while its coroutine
\* lives, however runs end, are cancelled, or the server died: no phantom runs
\* (src/task_scheduler.py:456-478, 781-783, 829-838).  Phantoms are left by runs that
\* met an exception before they started, and where the write that should have ended
\* the row failed; by nothing else.
NoPhantomRows == up => \A r \in Runs : Active(row[r]) => Live(r) \/ r \in failed

\* A task in _executing has a run that will take it out again: a leaked membership
\* would keep the task from ever being dispatched (src/task_scheduler.py:786-792).
MembershipIsHeld ==
  \A t \in executing : \E r \in RunsOf(t) : Live(r) /\ ~forced[r]

\* Only stop_task(), which takes the task out of _executing while its coroutine is
\* still there, lets a task be dispatched twice (src/task_scheduler.py:2283-2285).
DoubleOnlyAfterStop ==
  \A t \in Tasks : stopped[t] \/
    \A r, q \in RunsOf(t) : Live(r) /\ ~forced[r] /\ Live(q) /\ ~forced[q] => r = q

\* A trigger no run has answered yet, by its start or by giving a schedule's
\* occurrence up when it met an exception, keeps its task due, across crashes,
\* cancelled queues, failed writes and foreground deferrals
\* (src/event_bus.py:99-105, src/task_scheduler.py:483-508, 794-812, 1122-1130).
TriggerKept ==
  \A t \in Tasks : owed[t] = "yes" /\ status[t] = "active" => due[t] \in {"due", "soon"}

\* Every trigger is answered so in the end, unless the task is paused or the user
\* never leaves (src/task_scheduler.py:673-735).
TriggerAnswered ==
  \A t \in Tasks :
    <>[](~foreground) => (owed[t] = "yes" ~> owed[t] # "yes" \/ status[t] # "active")
=============================================================================
