------------------------------- MODULE BgJobs -------------------------------
(***************************************************************************)
(* Detached background jobs (src/bg_jobs.py) and the monitor that tells    *)
(* the agent about their results (src/bg_monitor.py).                      *)
(*                                                                         *)
(* Three parties: the job's processes, which run beside the server and     *)
(* survive it; the server's event loop, where the agent's tools launch,    *)
(* inspect and kill jobs and the monitor polls them; and the JSON store,   *)
(* which survives the server too.  The store's functions are synchronous:  *)
(* no other code of the server runs inside refresh(), but the processes    *)
(* do, so that refresh() is a sequence of steps here.                      *)
(***************************************************************************)
EXTENDS Integers

CONSTANTS Jobs, Sessions,
          SessionOf,    \* the session a job is launched in
          MaxCrashes,   \* bound: server crashes
          NoJob         \* model value

ASSUME BgJobsAssumption == /\ SessionOf \in [Jobs -> Sessions]
                           /\ MaxCrashes \in Nat
                           /\ NoJob \notin Jobs

VARIABLES
  proc,     \* the job's process; "closing": the exit file exists, still empty
  code,     \* the exit status of the user's command
  store,    \* the JSON store
  overdue,  \* now - started_at > max_runtime_s
  expired,  \* now - ended_at > _RETENTION_S
  caller,   \* who is inside launch()/refresh()/kill(); "none": the loop is free
  target,   \* the job a kill or a launch is about
  snap,     \* refresh()'s dict of records
  todo,     \* refresh()'s records not looked at yet
  cur,      \* refresh()'s current record
  probe,    \* what refresh() asks next about it
  mon,      \* where the monitor's loop is
  pending,  \* the rest of the list the monitor iterates over
  curjob,   \* the job whose follow-up is running
  up,       \* the server is running
  crashes,
  exists,   \* the chat sessions in the database
  turn,     \* agent_runs.is_active(session): a live turn is running
  told      \* follow-up messages saved for the job

procVars == <<proc, code, overdue, expired>>
scanVars == <<caller, target, snap, todo, cur, probe>>
monVars  == <<mon, pending, curjob>>
envVars  == <<up, crashes, exists, turn>>
vars     == <<procVars, store, scanVars, monVars, envVars, told>>

NoCode == -2
Absent == [status |-> "absent", exit |-> NoCode, how |-> "", followed |-> FALSE]
Fresh  == [status |-> "running", exit |-> NoCode, how |-> "", followed |-> FALSE]

Record == [status : {"absent", "running", "done", "failed"}, exit : -2..1,
           how : {"", "exit", "timeout", "died", "killed"}, followed : BOOLEAN]

ExitFile(j) == proc[j] \in {"closing", "exited"}
Alive(j)    == proc[j] \in {"running", "closing"}
Finished(r) == r.status \in {"done", "failed"}
Free        == up /\ caller = "none" /\ mon # "post"

\* The agent of session s is at work: in a live turn or in a follow-up.
AgentAt(s) == turn[s] \/ (mon = "agent" /\ SessionOf[curjob] = s)

Init ==
  /\ proc = [j \in Jobs |-> "none"] /\ code \in [Jobs -> {0, 1}]
  /\ store = [j \in Jobs |-> Absent]
  /\ overdue = [j \in Jobs |-> FALSE] /\ expired = [j \in Jobs |-> FALSE]
  /\ caller = "none" /\ target = NoJob /\ snap = store /\ todo = {}
  /\ cur = NoJob /\ probe = "exists"
  /\ mon = "sleep" /\ pending = {} /\ curjob = NoJob
  /\ up = TRUE /\ crashes = 0
  /\ exists = [s \in Sessions |-> TRUE] /\ turn = [s \in Sessions |-> FALSE]
  /\ told = [j \in Jobs |-> 0]

-----------------------------------------------------------------------------
(* The processes and the clock. *)

\* The user's command ends: the wrapper's redirection creates the exit file ...
Exit(j) == /\ proc[j] = "running"
           /\ proc' = [proc EXCEPT ![j] = "closing"]
           /\ UNCHANGED <<code, overdue, expired>>

\* ... and echo fills it.
WriteCode(j) == /\ proc[j] = "closing"
                /\ proc' = [proc EXCEPT ![j] = "exited"]
                /\ UNCHANGED <<code, overdue, expired>>

\* The process group is killed from outside (out of memory, reboot).
Vanish(j) == /\ proc[j] = "running"
             /\ proc' = [proc EXCEPT ![j] = "vanished"]
             /\ UNCHANGED <<code, overdue, expired>>

RunOver(j) == /\ store[j].status = "running" /\ ~overdue[j]
              /\ overdue' = [overdue EXCEPT ![j] = TRUE]
              /\ UNCHANGED <<proc, code, expired>>

Expire(j) == /\ Finished(store[j]) /\ ~expired[j]
             /\ expired' = [expired EXCEPT ![j] = TRUE]
             /\ UNCHANGED <<proc, code, overdue>>

Environment == /\ \E j \in Jobs : \/ Exit(j) \/ WriteCode(j) \/ Vanish(j)
                                  \/ RunOver(j) \/ Expire(j)
               /\ UNCHANGED <<store, scanVars, monVars, envVars, told>>

-----------------------------------------------------------------------------
(* refresh(). *)

Running(st) == {j \in Jobs : st[j].status = "running"}
\* Mutated form: finished records are reconciled again.
RunningOrNot(st) == {j \in Jobs : st[j].status # "absent"}
ToReconcile(st) == Running(st)

BeginScan(who, j) ==
  /\ caller' = who /\ target' = j
  /\ snap' = store /\ todo' = ToReconcile(store)
  /\ cur' = NoJob /\ probe' = "exists"

Next1(j) == cur' = NoJob /\ probe' = "exists" /\ todo' = todo \ {j}

\* Give record j of the snapshot its outcome and go on to the next record.
Settle(j, status, exit, how) ==
  /\ snap' = [snap EXCEPT ![j] = [@ EXCEPT !.status = status, !.exit = exit,
                                           !.how = how]]
  /\ Next1(j)

\* What is read from an existing exit file: an empty one counts as 1.
\* Mutated form: anything unexpected is passed on.
ReadAnything(j) == IF proc[j] = "exited" THEN code[j] ELSE 255
ReadCode(j) == IF proc[j] = "exited" THEN code[j] ELSE 1

\* Mutated form: a stuck job is not reaped.
NeverOverdue(j) == FALSE
Overdue(j) == overdue[j]

PickRecord(j) ==
  /\ caller # "none" /\ cur = NoJob /\ j \in todo
  /\ cur' = j
  /\ UNCHANGED <<procVars, store, caller, target, snap, todo, probe, monVars,
                 envVars, told>>

\* First question: is there an exit file?  If not, is the job overdue?
ProbeExit ==
  /\ caller # "none" /\ cur # NoJob /\ probe = "exists"
  /\ \/ /\ ExitFile(cur)
        /\ Settle(cur, IF ReadCode(cur) = 0 THEN "done" ELSE "failed",
                  ReadCode(cur), "exit")
        /\ UNCHANGED proc
     \/ /\ ~ExitFile(cur) /\ Overdue(cur)
        /\ proc' = [proc EXCEPT ![cur] = "vanished"]
        /\ Settle(cur, "failed", -1, "timeout")
     \/ /\ ~ExitFile(cur) /\ ~Overdue(cur)
        /\ probe' = "alive"
        /\ UNCHANGED <<proc, snap, todo, cur>>
  /\ UNCHANGED <<code, overdue, expired, store, caller, target, monVars,
                 envVars, told>>

\* Second question: is the process alive?
ProbeAlive ==
  /\ caller # "none" /\ cur # NoJob /\ probe = "alive"
  /\ IF Alive(cur) THEN Next1(cur)
                   ELSE probe' = "recheck" /\ UNCHANGED <<todo, cur>>
  /\ UNCHANGED <<procVars, store, caller, target, snap, monVars, envVars, told>>

\* Mutated form: the exit file is not looked for again.
GoneForGood(j) == TRUE
StillNoExit(j) == ~ExitFile(j)

\* Third question: did the exit file appear in the meantime?
Recheck ==
  /\ caller # "none" /\ cur # NoJob /\ probe = "recheck"
  /\ IF StillNoExit(cur) THEN Settle(cur, "failed", -1, "died")
                         ELSE Next1(cur) /\ UNCHANGED snap
  /\ UNCHANGED <<procVars, store, caller, target, monVars, envVars, told>>

\* _prune: finished jobs that were followed up and kept long enough.
\* Mutated form: without looking at followed_up.
OldEnough(r, j) == Finished(r) /\ expired[j]
Stale(r, j) == r.followed /\ Finished(r) /\ expired[j]

Pruned(st) == [j \in Jobs |-> IF Stale(st[j], j) THEN Absent ELSE st[j]]

\* The end of refresh(): prune, save, and go on in the caller.
EndScan ==
  /\ caller \in {"monitor", "list", "kill"} /\ cur = NoJob /\ todo = {}
  /\ store' = Pruned(snap)
  /\ snap' = Pruned(snap)
  /\ caller' = IF caller = "kill" /\ store'[target].status = "running"
                 THEN "killing" ELSE "none"
  /\ IF caller = "monitor"
       THEN /\ mon' = "next"
            /\ pending' = {j \in Jobs : Finished(store'[j]) /\ ~store'[j].followed}
       ELSE UNCHANGED <<mon, pending>>
  /\ UNCHANGED <<procVars, target, todo, cur, probe, curjob, envVars, told>>

-----------------------------------------------------------------------------
(* The agent's tools. *)

\* launch(): start the process ...
Launch(j) ==
  /\ Free /\ proc[j] = "none" /\ AgentAt(SessionOf[j])
  /\ proc' = [proc EXCEPT ![j] = "running"]
  /\ caller' = "launching" /\ target' = j
  /\ UNCHANGED <<code, overdue, expired, store, snap, todo, cur, probe, monVars,
                 envVars, told>>

\* ... then add its record to the store, loaded again for it.
RecordLaunch ==
  /\ caller = "launching"
  /\ store' = [store EXCEPT ![target] = Fresh]
  /\ caller' = "none"
  /\ UNCHANGED <<procVars, target, snap, todo, cur, probe, monVars, envVars, told>>

\* manage_bg_jobs list and output: only a refresh().
ListJobs(s) ==
  /\ Free /\ AgentAt(s)
  /\ BeginScan("list", NoJob)
  /\ UNCHANGED <<procVars, store, monVars, envVars, told>>

\* manage_bg_jobs kill: get() first, which refreshes; kill() if still running.
RequestKill(j) ==
  /\ Free /\ AgentAt(SessionOf[j]) /\ store[j].status # "absent"
  /\ BeginScan("kill", j)
  /\ UNCHANGED <<procVars, store, monVars, envVars, told>>

\* Mutated form: kill() leaves followed_up alone.
KilledUnmarked(r) == [r EXCEPT !.status = "failed", !.exit = -1, !.how = "killed"]
Killed(r) == [r EXCEPT !.status = "failed", !.exit = -1, !.how = "killed",
                       !.followed = TRUE]

\* kill(): the store is loaded again, the process may have ended meanwhile.
Kill ==
  /\ caller = "killing"
  /\ proc' = [proc EXCEPT ![target] = IF @ = "running" THEN "vanished" ELSE @]
  /\ store' = [store EXCEPT ![target] = Killed(@)]
  /\ caller' = "none"
  /\ UNCHANGED <<code, overdue, expired, target, snap, todo, cur, probe,
                 monVars, envVars, told>>

-----------------------------------------------------------------------------
(* The monitor. *)

\* Every POLL_INTERVAL_S: pending_followups(), which refreshes.
Tick ==
  /\ Free /\ mon = "sleep"
  /\ BeginScan("monitor", NoJob)
  /\ UNCHANGED <<procVars, store, monVars, envVars, told>>

\* _run_followup up to the agent.  A deleted session makes get_session() raise,
\* a busy one is deferred: both leave followed_up FALSE.
SkipFollowup(j) ==
  /\ Free /\ mon = "next" /\ j \in pending
  /\ ~exists[SessionOf[j]] \/ turn[SessionOf[j]]
  /\ pending' = pending \ {j}
  /\ UNCHANGED <<procVars, store, scanVars, mon, curjob, envVars, told>>

BeginFollowup(j) ==
  /\ Free /\ mon = "next" /\ j \in pending
  /\ exists[SessionOf[j]] /\ ~turn[SessionOf[j]]
  /\ pending' = pending \ {j} /\ curjob' = j /\ mon' = "agent"
  /\ UNCHANGED <<procVars, store, scanVars, envVars, told>>

\* The headless agent run returns and its answer is saved into the session.
EndFollowup ==
  /\ Free /\ mon = "agent" /\ exists[SessionOf[curjob]]
  /\ told' = [told EXCEPT ![curjob] = @ + 1]
  /\ mon' = "post"
  /\ UNCHANGED <<procVars, store, scanVars, pending, curjob, envVars>>

\* The agent run, or saving its answer, raises: "will retry".
FailFollowup ==
  /\ Free /\ mon = "agent"
  /\ mon' = "next" /\ curjob' = NoJob
  /\ UNCHANGED <<procVars, store, scanVars, pending, envVars, told>>

\* mark_followed_up(), in the same stretch of code as saving the answer.
\* Mutated form: only successful jobs are marked.
MarkedIfDone(r) == [r EXCEPT !.followed = @ \/ r.status = "done"]
Marked(r) == IF r.status = "absent" THEN r ELSE [r EXCEPT !.followed = TRUE]

Mark ==
  /\ up /\ mon = "post"
  /\ store' = [store EXCEPT ![curjob] = Marked(@)]
  /\ mon' = "next" /\ curjob' = NoJob
  /\ UNCHANGED <<procVars, scanVars, pending, envVars, told>>

Sleep ==
  /\ Free /\ mon = "next" /\ pending = {}
  /\ mon' = "sleep"
  /\ UNCHANGED <<procVars, store, scanVars, pending, curjob, envVars, told>>

-----------------------------------------------------------------------------
(* Chat sessions and the server. *)

StartTurn(s) ==
  /\ Free /\ exists[s] /\ ~turn[s]
  /\ turn' = [turn EXCEPT ![s] = TRUE]
  /\ UNCHANGED <<procVars, store, scanVars, monVars, up, crashes, exists, told>>

EndTurn(s) ==
  /\ Free /\ turn[s]
  /\ turn' = [turn EXCEPT ![s] = FALSE]
  /\ UNCHANGED <<procVars, store, scanVars, monVars, up, crashes, exists, told>>

DeleteSession(s) ==
  /\ Free /\ exists[s]
  /\ exists' = [exists EXCEPT ![s] = FALSE]
  /\ UNCHANGED <<procVars, store, scanVars, monVars, up, crashes, turn, told>>

\* The server dies anywhere, also between two steps of refresh() and between
\* saving an answer and marking the job; a dict that was not saved is lost.
Crash ==
  /\ up /\ crashes < MaxCrashes
  /\ up' = FALSE /\ crashes' = crashes + 1
  /\ caller' = "none" /\ target' = NoJob /\ todo' = {} /\ cur' = NoJob
  /\ probe' = "exists" /\ snap' = store
  /\ mon' = "sleep" /\ pending' = {} /\ curjob' = NoJob
  /\ turn' = [s \in Sessions |-> FALSE]
  /\ UNCHANGED <<procVars, store, exists, told>>

Restart == /\ ~up /\ up' = TRUE
           /\ UNCHANGED <<procVars, store, scanVars, monVars, crashes, exists,
                          turn, told>>

Scan    == (\E j \in Jobs : PickRecord(j)) \/ ProbeExit \/ ProbeAlive \/ Recheck
             \/ EndScan \/ Kill \/ RecordLaunch
Tools   == \E j \in Jobs : Launch(j) \/ RequestKill(j)
Monitor == \/ Tick \/ EndFollowup \/ FailFollowup \/ Mark \/ Sleep
           \/ \E j \in Jobs : SkipFollowup(j) \/ BeginFollowup(j)
Chat    == \E s \in Sessions : \/ StartTurn(s) \/ EndTurn(s) \/ DeleteSession(s)
                               \/ ListJobs(s)

Next == Environment \/ Scan \/ Tools \/ Monitor \/ Chat \/ Crash \/ Restart

Spec == Init /\ [][Next]_vars

\* The loop runs what is ready and the wrapper finishes writing; a job may hang,
\* but the clock runs.  An agent run that is retried again and again succeeds in
\* the end (strong fairness).  Nothing is assumed about users.
Fairness ==
  /\ WF_vars(Scan) /\ WF_vars(Restart) /\ WF_vars(Mark)
  /\ WF_vars(Tick) /\ WF_vars(Sleep) /\ SF_vars(EndFollowup)
  /\ \A j \in Jobs :
       /\ WF_vars(BeginFollowup(j)) /\ WF_vars(SkipFollowup(j))
       /\ WF_vars((WriteCode(j) \/ RunOver(j))
                    /\ UNCHANGED <<store, scanVars, monVars, envVars, told>>)

FairSpec == Spec /\ Fairness

-----------------------------------------------------------------------------
(* Properties. *)

\* Every variable keeps its type (bg_jobs.py:119-140).
TypeOK ==
  /\ proc \in [Jobs -> {"none", "running", "closing", "exited", "vanished"}]
  /\ code \in [Jobs -> {0, 1}]
  /\ store \in [Jobs -> Record] /\ snap \in [Jobs -> Record]
  /\ overdue \in [Jobs -> BOOLEAN] /\ expired \in [Jobs -> BOOLEAN]
  /\ caller \in {"none", "monitor", "list", "kill", "killing", "launching"}
  /\ target \in Jobs \cup {NoJob} /\ cur \in Jobs \cup {NoJob}
  /\ todo \in SUBSET Jobs /\ probe \in {"exists", "alive", "recheck"}
  /\ mon \in {"sleep", "next", "agent", "post"}
  /\ pending \in SUBSET Jobs /\ curjob \in Jobs \cup {NoJob}
  /\ up \in BOOLEAN /\ crashes \in 0..MaxCrashes
  /\ exists \in [Sessions -> BOOLEAN] /\ turn \in [Sessions -> BOOLEAN]
  /\ told \in [Jobs -> Nat]

\* A job is reported done only if its command exited with 0, and reported dead
\* only if it will never write an exit status, although refresh() looks at the
\* exit file, the process and the file again at three different moments
\* (bg_jobs.py:182-208).
ReportsAreTrue ==
  \A j \in Jobs :
    /\ store[j].status = "done" => proc[j] = "exited" /\ code[j] = 0
    /\ store[j].how = "died" => proc[j] = "vanished"

\* The outcome of a finished job never changes, whoever refreshes, kills or marks
\* it later (bg_jobs.py:180-181, 255-258).
OutcomeIsFinal ==
  [][\A j \in Jobs :
       Finished(store[j]) =>
         \/ store'[j] = Absent
         \/ /\ store'[j].status = store[j].status
            /\ store'[j].exit = store[j].exit /\ store'[j].how = store[j].how]_vars

\* The agent is re-invoked successfully for a job at most once, and once more for
\* every crash (bg_monitor.py:5-8, 149-155); for a job it killed, never
\* (bg_jobs.py:252-253).
ToldOnce ==
  \A j \in Jobs : /\ told[j] <= 1 + crashes
                  /\ store[j].how = "killed" => told[j] = 0

\* A record is dropped only after the agent was told its outcome, or killed the
\* job: no save of an older dict loses a launch or a result, whatever the server
\* did between loading and saving (bg_jobs.py:136-139, 157-170, 229-233).
NothingDroppedUnheard ==
  [][\A j \in Jobs :
       store[j] # Absent /\ store'[j] = Absent
         => told[j] > 0 \/ store[j].how = "killed"]_vars

\* "completion -> agent re-invocation must never silently no-op": every recorded
\* job, hung, dead or finished, crash or not, is eventually followed up, provided
\* its session is not deleted and does not stay busy with live turns, at which
\* the follow-up is deferred (bg_monitor.py:4-8, 109-117).
EventuallyHeard ==
  \A j \in Jobs :
    <>[](~turn[SessionOf[j]]) =>
      (store[j].status # "absent"
         ~> store[j].followed \/ store[j] = Absent \/ ~exists[SessionOf[j]])

\* How far the announcement of job j is, read off the store and the monitor.
NotRecorded(j) == proc[j] = "none" \/ (caller = "launching" /\ target = j)
AnswerSaved(j) == mon = "post" /\ curjob = j

Phase(j) ==
  CASE store[j].status = "absent" /\ NotRecorded(j)  -> "new"
    [] store[j].status = "absent" /\ ~NotRecorded(j) -> "gone"
    [] store[j].status = "running"                   -> "running"
    [] Finished(store[j]) /\ store[j].followed       -> "closed"
    [] Finished(store[j]) /\ ~store[j].followed      ->
         IF AnswerSaved(j) THEN "announced" ELSE "due"

Delivery == INSTANCE BgDelivery WITH phase <- [j \in Jobs |-> Phase(j)]

\* The jobs implement at-least-once delivery: whatever the processes, refresh(),
\* the tools and the monitor do, each recorded job goes from running to due, to
\* announced, to closed, and only a crash takes a step back or loses a launch
\* (bg_jobs.py:214-266, bg_monitor.py:4-8, 149-155).
ImplementsDelivery == Delivery!DSpec
=============================================================================
