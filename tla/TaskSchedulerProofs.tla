------------------------ MODULE TaskSchedulerProofs ------------------------
(***************************************************************************)
(* Theorems about TaskScheduler, for any set of tasks, any chaining, any   *)
(* threshold and any number of runs, events, requests, crashes and faults. *)
(***************************************************************************)
EXTENDS TaskScheduler, SequenceTheorems, WellFoundedInduction, TLAPS

\* A run is of one task, and NoRun of none.
LEMMA RunFacts ==
  /\ NoRun \notin Runs
  /\ \A r \in Runs : Of(r) \in Tasks /\ r \in RunsOf(Of(r))
  /\ \A t \in Tasks : \A r \in RunsOf(t) : r \in Runs /\ Of(r) = t
BY TaskSchedulerAssumption DEF Runs, Of, RunsOf

\* A task with room has a number for another run.
LEMMA FreshFacts ==
  ASSUME NEW t \in Tasks, Room(t)
  PROVE  /\ Fresh(t) \in RunsOf(t) /\ Fresh(t) \in Runs /\ Of(Fresh(t)) = t
         /\ ~Live(Fresh(t))
<1>1. \E r \in RunsOf(t) :
        ~Live(r) /\ (Active(row[r]) => \A q \in RunsOf(t) : Live(q) \/ Active(row[q]))
  <2>1. CASE \E r \in RunsOf(t) : ~Live(r) /\ ~Active(row[r]) BY <2>1
  <2>2. CASE ~(\E r \in RunsOf(t) : ~Live(r) /\ ~Active(row[r])) BY <2>2 DEF Room
  <2> QED BY <2>1, <2>2
<1>2. Fresh(t) \in RunsOf(t) /\ ~Live(Fresh(t)) BY <1>1 DEF Fresh
<1> QED BY <1>2, RunFacts

LEMMA WithoutType ==
  ASSUME NEW s \in Seq(Runs), NEW r
  PROVE  Without(s, r) \in Seq(Runs)
<1>1. CASE \E i \in 1..Len(s) : s[i] = r
  <2> DEFINE i == Position(s, r)
  <2>1. i \in 1..Len(s) BY <1>1 DEF Position
  <2>2. /\ SubSeq(s, 1, i - 1) \in Seq(Runs)
        /\ SubSeq(s, i + 1, Len(s)) \in Seq(Runs)
    <3> HIDE DEF i
    <3> QED BY <2>1
  <2> QED BY <1>1, <2>2 DEF Without
<1>2. CASE ~(\E i \in 1..Len(s) : s[i] = r) BY <1>2 DEF Without
<1> QED BY <1>1, <1>2

-----------------------------------------------------------------------------
(* Types. *)

\* TypeOK, by the groups of variables that actions change together.
TypeTasks ==
  /\ status \in [Tasks -> {"active", "paused", "completed"}]
  /\ due \in [Tasks -> {"never", "due", "soon", "next"}]
  /\ trigger \in [Tasks -> Kinds]
  /\ passed \in [Tasks -> BOOLEAN] /\ counter \in [Tasks -> 0..(Threshold - 1)]

TypeRuns ==
  /\ pc \in [Runs -> {"idle", "created", "failing", "line", "enter", "gate", "run", "settle"}]
  /\ row \in [Runs -> {"absent", "queued", "running", "success", "error", "skipped", "aborted"}]
  /\ forced \in [Runs -> BOOLEAN]
  /\ cancel \in [Runs -> {"no", "handle", "monitor"}]
  /\ res \in [Runs -> {"none", "success", "error", "raised", "broken", "recorded"}]
  /\ readNull \in [Runs -> BOOLEAN]
  /\ begun \in Seq(Runs)

TypeMem ==
  /\ executing \in SUBSET Tasks /\ chained \in SUBSET Tasks
  /\ handle \in [Tasks -> Runs \cup {NoRun}]
  /\ slot \in Runs \cup {NoRun} /\ loop \in Runs \cup {NoRun}

TypeEnv ==
  /\ foreground \in BOOLEAN /\ up \in BOOLEAN
  /\ asks \in 0..MaxAsks /\ events \in 0..MaxEvents /\ crashes \in 0..MaxCrashes
  /\ faults \in 0..MaxFaults /\ failed \in SUBSET Runs
  /\ owed \in [Tasks -> {"no", "yes", "late"}] /\ stopped \in [Tasks -> BOOLEAN]

LEMMA TypeGroups == TypeOK <=> TypeTasks /\ TypeRuns /\ TypeMem /\ TypeEnv
BY DEF TypeOK, TypeTasks, TypeRuns, TypeMem, TypeEnv

LEMMA TypeGroupsNext == TypeTasks' /\ TypeRuns' /\ TypeMem' /\ TypeEnv' => TypeOK'
BY DEF TypeOK, TypeTasks, TypeRuns, TypeMem, TypeEnv

LEMMA TypeInit == Init => TypeOK
<1> SUFFICES ASSUME Init PROVE TypeOK OBVIOUS
<1>1. TypeTasks
  <2>1. status \in [Tasks -> {"active", "paused", "completed"}]
    BY DEF Init
  <2>2. due \in [Tasks -> {"never", "due", "soon", "next"}] BY DEF Init
  <2>3. trigger \in [Tasks -> Kinds] BY DEF Init
  <2>4. passed \in [Tasks -> BOOLEAN] BY DEF Init
  <2>5. counter \in [Tasks -> 0..(Threshold - 1)]
    BY TaskSchedulerAssumption DEF Init
  <2> QED BY <2>1, <2>2, <2>3, <2>4, <2>5 DEF TypeTasks
<1>2. TypeRuns
  <2>1. forced \in [Runs -> BOOLEAN] /\ readNull \in [Runs -> BOOLEAN]
    BY DEF Init
  <2> QED BY <2>1 DEF Init, TypeRuns
<1>3. TypeMem BY DEF Init, TypeMem
<1>4. TypeEnv
  <2>1. /\ owed \in [Tasks -> {"no", "yes", "late"}]
        /\ stopped \in [Tasks -> BOOLEAN]
    BY DEF Init
  <2>2. /\ asks \in 0..MaxAsks /\ events \in 0..MaxEvents /\ crashes \in 0..MaxCrashes
        /\ faults \in 0..MaxFaults
    BY TaskSchedulerAssumption DEF Init
  <2> QED BY <2>1, <2>2 DEF Init, TypeEnv
<1> QED BY <1>1, <1>2, <1>3, <1>4, TypeGroups

LEMMA CreateType ==
  ASSUME TypeRuns, NEW ts, NEW b \in BOOLEAN, Create(ts, b)
  PROVE  TypeRuns'
<1>1. pc' \in [Runs -> {"idle", "created", "failing", "line", "enter", "gate", "run", "settle"}]
  BY DEF TypeRuns, Create
<1>2. forced' \in [Runs -> BOOLEAN] BY Zenon DEF TypeRuns, Create
<1>3. row' \in [Runs -> {"absent", "queued", "running", "success", "error", "skipped",
                          "aborted"}]
  BY DEF TypeRuns, Create
<1>4. UNCHANGED <<cancel, res, readNull, begun>> BY DEF Create
<1> QED BY <1>1, <1>2, <1>3, <1>4 DEF TypeRuns

\* The exceptions are counted.
LEMMA FaultType ==
  ASSUME TypeEnv, Fault \/ UNCHANGED faults
  PROVE  faults' \in 0..MaxFaults
BY TaskSchedulerAssumption DEF TypeEnv, Fault

LEMMA BeginAsFaults ==
  ASSUME NEW r \in Runs, BeginAs(r)
  PROVE  Fault \/ UNCHANGED faults
BY DEF BeginAs

LEMMA BeginAsType ==
  ASSUME TypeRuns, TypeMem, TypeEnv, NEW r \in Runs, BeginAs(r)
  PROVE  /\ pc' \in [Runs -> {"idle", "created", "failing", "line", "enter", "gate", "run",
                              "settle"}]
         /\ row' \in [Runs -> {"absent", "queued", "running", "success", "error",
                               "skipped", "aborted"}]
         /\ begun' \in Seq(Runs)
         /\ handle' \in [Tasks -> Runs \cup {NoRun}]
         /\ slot' \in Runs \cup {NoRun} /\ loop' \in Runs \cup {NoRun}
         /\ faults' \in 0..MaxFaults /\ failed' \in SUBSET Runs
<1>0. Admit(r) \/ CannotAdmit(r) BY DEF BeginAs
<1>1. pc' \in [Runs -> {"idle", "created", "failing", "line", "enter", "gate", "run", "settle"}]
  BY <1>0 DEF Admit, CannotAdmit, TypeRuns
<1>2. row' \in [Runs -> {"absent", "queued", "running", "success", "error",
                         "skipped", "aborted"}]
  BY DEF BeginAs, TypeRuns
<1>3. begun' \in Seq(Runs)
  <2>1. Without(begun, r) \in Seq(Runs) BY WithoutType DEF TypeRuns
  <2> QED BY <2>1 DEF BeginAs
<1>4. handle' \in [Tasks -> Runs \cup {NoRun}] BY DEF BeginAs, TypeMem
<1>5. slot' \in Runs \cup {NoRun} /\ loop' \in Runs \cup {NoRun}
  BY <1>0 DEF Admit, CannotAdmit, TypeMem
<1>6. faults' \in 0..MaxFaults BY BeginAsFaults, FaultType
<1>7. failed' \in SUBSET Runs BY DEF BeginAs, TypeEnv
<1> QED BY <1>1, <1>2, <1>3, <1>4, <1>5, <1>6, <1>7

LEMMA StartType ==
  ASSUME TypeOK, NEW r \in Runs, Start(r)
  PROVE  TypeOK'
<1> USE DEF TypeOK
<1>1. TypeRuns'
  <2>1. /\ pc' \in [Runs -> {"idle", "created", "failing", "line", "enter", "gate", "run", "settle"}]
        /\ row' \in [Runs -> {"absent", "queued", "running", "success", "error",
                              "skipped", "aborted"}]
    BY DEF Start
  <2>2. readNull' \in [Runs -> BOOLEAN] BY Zenon DEF Start
  <2>3. begun' \in Seq(Runs)
    <3>1. Without(begun, r) \in Seq(Runs) BY WithoutType
    <3> QED BY <3>1 DEF Start
  <2> QED BY <2>1, <2>2, <2>3 DEF Start, TypeRuns
<1>2. owed' \in [Tasks -> {"no", "yes", "late"}] BY DEF Start
<1>3. TypeTasks' BY DEF Start, TypeTasks, taskVars
<1>4. TypeMem' BY DEF Start, TypeMem
<1>5. TypeEnv' BY <1>2 DEF Start, TypeEnv, envVars
<1> HIDE DEF TypeOK
<1> QED BY <1>1, <1>3, <1>4, <1>5, TypeGroupsNext

LEMMA DueType ==
  ASSUME TypeTasks, NEW r \in Runs
  PROVE  /\ AfterRun(Of(r)) \in {"never", "next"}
         /\ Occurrence(Of(r)) \in {"never", "next"}
         /\ AfterCancel(r) \in {"never", "due", "soon", "next"}
         /\ \A v \in {"never", "next"} :
              Written(r, v) \in {"never", "due", "soon", "next"}
<1>1. Of(r) \in Tasks BY RunFacts
<1>2. /\ AfterRun(Of(r)) \in {"never", "next"}
      /\ Occurrence(Of(r)) \in {"never", "next"}
  BY DEF AfterRun, Occurrence
<1>3. \A v \in {"never", "next"} : Written(r, v) \in {"never", "due", "soon", "next"}
  BY <1>1 DEF Written, TypeTasks
<1> QED BY <1>2, <1>3 DEF AfterCancel

LEMMA TypeTaskStep ==
  ASSUME TypeOK, NEW t \in Tasks, TaskStep(t)
  PROVE  TypeOK'
<1> USE TaskSchedulerAssumption
<1>0. TypeTasks /\ TypeRuns /\ TypeMem /\ TypeEnv BY TypeGroups
<1>1. CASE Clock(t)
  <2>1. passed' \in [Tasks -> BOOLEAN] BY <1>0, <1>1, Zenon DEF Clock, TypeTasks
  <2>2. due' \in [Tasks -> {"never", "due", "soon", "next"}]
    BY <1>0, <1>1 DEF Clock, TypeTasks
  <2>3. owed' \in [Tasks -> {"no", "yes", "late"}]
    BY <1>0, <1>1 DEF Clock, TypeEnv, Owe
  <2>4. TypeTasks' BY <1>0, <1>1, <2>1, <2>2 DEF Clock, TypeTasks
  <2>5. TypeRuns' /\ TypeMem'
    BY <1>0, <1>1 DEF Clock, runVars, memVars, TypeRuns, TypeMem
  <2>6. TypeEnv' BY <1>0, <1>1, <2>3 DEF Clock, envVars, TypeEnv
  <2> QED BY <2>4, <2>5, <2>6, TypeGroupsNext
<1>2. CASE HandleEvent(t)
  <2>1. TypeTasks'
    <3>1. counter' \in [Tasks -> 0..(Threshold - 1)]
      <4>1. CASE CountReached(t) BY <1>0, <1>2, <4>1 DEF HandleEvent, TypeTasks
      <4>2. CASE ~CountReached(t)
        <5>1. counter[t] + 1 \in 0..(Threshold - 1)
          BY <1>0, <4>2 DEF CountReached, TypeTasks
        <5> QED BY <1>0, <1>2, <4>2, <5>1 DEF HandleEvent, TypeTasks
      <4> QED BY <4>1, <4>2
    <3>2. due' \in [Tasks -> {"never", "due", "soon", "next"}]
      BY <1>0, <1>2 DEF HandleEvent, TypeTasks, TriggerSaved
    <3> QED BY <1>0, <1>2, <3>1, <3>2 DEF HandleEvent, TypeTasks
  <2>2. TypeRuns'
    <3>1. UNCHANGED runVars \/ Create({t}, FALSE) BY <1>2 DEF HandleEvent
    <3>2. CASE UNCHANGED runVars BY <1>0, <3>2 DEF runVars, TypeRuns
    <3> QED BY <1>0, <3>1, <3>2, CreateType
  <2>3. TypeMem' BY <1>0, <1>2 DEF HandleEvent, TypeMem
  <2>4. TypeEnv'
    <3>1. owed' \in [Tasks -> {"no", "yes", "late"}]
      BY <1>0, <1>2 DEF HandleEvent, TypeEnv, Owe
    <3>2. events' \in 0..MaxEvents BY <1>0, <1>2 DEF HandleEvent, TypeEnv
    <3> QED BY <1>0, <1>2, <3>1, <3>2 DEF HandleEvent, TypeEnv
  <2> QED BY <2>1, <2>2, <2>3, <2>4, TypeGroupsNext
<1>3. CASE RunChained(t)
  <2>1. TypeTasks' BY <1>0, <1>3 DEF RunChained, taskVars, TypeTasks
  <2>2. UNCHANGED <<foreground, up, asks, events, crashes, owed, stopped>>
    BY <1>3 DEF RunChained
  <2>3. TypeRuns' /\ TypeMem' /\ TypeEnv'
    <3>1. CASE t \in executing
      BY <1>0, <1>3, <2>2, <3>1 DEF RunChained, runVars, TypeRuns, TypeMem, TypeEnv
    <3>2. CASE t \notin executing
      <4>1. Fresh(t) \in Runs /\ BeginAs(Fresh(t))
        BY <1>3, <3>2, FreshFacts DEF RunChained
      <4>2. forced' \in [Runs -> BOOLEAN]
        BY <1>0, <1>3, <3>2, ZenonT(60) DEF RunChained, TypeRuns
      <4>3. executing' \in SUBSET Tasks /\ chained' \in SUBSET Tasks
        BY <1>0, <1>3, <3>2 DEF RunChained, TypeMem
      <4>4. UNCHANGED <<cancel, res, readNull>> BY <1>3, <3>2 DEF RunChained
      <4>5. TypeRuns' BY <1>0, <4>1, <4>2, <4>4, BeginAsType DEF TypeRuns
      <4>6. TypeMem' BY <1>0, <4>1, <4>3, BeginAsType DEF TypeMem
      <4>7. TypeEnv' BY <1>0, <2>2, <4>1, BeginAsType DEF TypeEnv
      <4> QED BY <4>5, <4>6, <4>7
    <3> QED BY <3>1, <3>2
  <2> QED BY <2>1, <2>3, TypeGroupsNext
<1>4. CASE RunTaskNow(t)
  <2>1. TypeRuns' BY <1>0, <1>4, CreateType DEF RunTaskNow
  <2>2. TypeTasks' BY <1>0, <1>4 DEF RunTaskNow, taskVars, TypeTasks
  <2>3. TypeMem' BY <1>0, <1>4 DEF RunTaskNow, TypeMem
  <2>4. TypeEnv' BY <1>0, <1>4 DEF RunTaskNow, histVars, TypeEnv
  <2> QED BY <2>1, <2>2, <2>3, <2>4, TypeGroupsNext
<1>5. CASE ForceRun(t)
  <2>1. TypeRuns' BY <1>0, <1>5, CreateType DEF ForceRun
  <2>2. TypeTasks' BY <1>0, <1>5 DEF ForceRun, taskVars, TypeTasks
  <2>3. TypeMem' BY <1>0, <1>5 DEF ForceRun, memVars, TypeMem
  <2>4. TypeEnv' BY <1>0, <1>5 DEF ForceRun, histVars, TypeEnv
  <2> QED BY <2>1, <2>2, <2>3, <2>4, TypeGroupsNext
<1>6. CASE StopTask(t)
  <2>1. cancel' \in [Runs -> {"no", "handle", "monitor"}]
    BY <1>0, <1>6 DEF StopTask, CancelTasks, TypeRuns
  <2>2. row' \in [Runs -> {"absent", "queued", "running", "success", "error",
                           "skipped", "aborted"}]
    BY <1>0, <1>6 DEF StopTask, CancelTasks, TypeRuns
  <2>3. stopped' \in [Tasks -> BOOLEAN] BY <1>0, <1>6, Zenon DEF StopTask, TypeEnv
  <2>4. TypeRuns' BY <1>0, <1>6, <2>1, <2>2 DEF StopTask, TypeRuns
  <2>5. TypeTasks' BY <1>0, <1>6 DEF StopTask, taskVars, TypeTasks
  <2>6. TypeMem' BY <1>0, <1>6 DEF StopTask, TypeMem
  <2>7. TypeEnv'
    <3>1. faults' \in 0..MaxFaults
      BY <1>0, <1>6, FaultType DEF StopTask, CancelTasks
    <3> QED BY <1>0, <1>6, <2>3, <3>1 DEF StopTask, TypeEnv
  <2> QED BY <2>4, <2>5, <2>6, <2>7, TypeGroupsNext
<1>7. CASE Pause(t) \/ Resume(t)
  <2>1. TypeTasks'
    <3>1. due' \in [Tasks -> {"never", "due", "soon", "next"}]
      BY <1>0, <1>7 DEF Pause, Resume, TypeTasks, Occurrence
    <3> QED BY <1>0, <1>7, <3>1 DEF Pause, Resume, TypeTasks
  <2>2. TypeRuns' /\ TypeMem'
    BY <1>0, <1>7 DEF Pause, Resume, memVars, runVars, TypeRuns, TypeMem
  <2>3. TypeEnv'
    <3>1. owed' \in [Tasks -> {"no", "yes", "late"}]
      BY <1>0, <1>7 DEF Pause, Resume, histVars, TypeEnv
    <3> QED BY <1>0, <1>7, <3>1 DEF Pause, Resume, histVars, TypeEnv
  <2> QED BY <2>1, <2>2, <2>3, TypeGroupsNext
<1> QED BY <1>1, <1>2, <1>3, <1>4, <1>5, <1>6, <1>7 DEF TaskStep

\* The steps at which a run's coroutine ends.
Ending(r) == \/ SkipInactive(r) \/ RefuseNonAdmin(r) \/ CancelQueued(r)
             \/ Raise(r) \/ Abandon(r)
             \/ Complete(r) \/ RecordError(r) \/ Depart(r)

\* What the error path writes.
LEMMA ErrorType ==
  ASSUME TypeTasks, TypeRuns, NEW r \in Runs, ErrorRecorded(r) \/ ErrorRecovered(r) \/ ErrorLost
  PROVE  /\ row' \in [Runs -> {"absent", "queued", "running", "success", "error",
                               "skipped", "aborted"}]
         /\ due' \in [Tasks -> {"never", "due", "soon", "next"}]
<1>1. Of(r) \in Tasks /\ Occurrence(Of(r)) \in {"never", "next"} BY RunFacts, DueType
<1>2. CASE ErrorRecorded(r) BY <1>1, <1>2 DEF ErrorRecorded, TypeTasks, TypeRuns
<1>3. CASE ErrorRecovered(r) BY <1>3 DEF ErrorRecovered, Aborted, TypeTasks, TypeRuns
<1>4. CASE ErrorLost BY <1>4 DEF ErrorLost, TypeTasks, TypeRuns
<1> QED BY <1>2, <1>3, <1>4

\* What an ending writes beside what Leave does.
LEMMA EndingWrites ==
  ASSUME NEW r \in Runs, Ending(r)
  PROVE  /\ Leave(r) /\ (Fault \/ UNCHANGED faults)
         /\ failed' \in {failed, failed \cup {r}}
         /\ owed' \in {owed, [owed EXCEPT ![Of(r)] = "no"]}
         /\ UNCHANGED <<passed, counter, trigger, foreground, up, asks, events, crashes,
                        stopped>>
<1>1. CASE SkipInactive(r) \/ RefuseNonAdmin(r)
  BY <1>1 DEF SkipInactive, RefuseNonAdmin, taskVars, envVars, histVars
<1>2. CASE CancelQueued(r) BY <1>2 DEF CancelQueued
<1>3. CASE Raise(r) BY <1>3 DEF Raise
<1>4. CASE Abandon(r) \/ Depart(r) BY <1>4 DEF Abandon, Depart, taskVars, envVars
<1>5. CASE Complete(r) BY <1>5 DEF Complete, histVars
<1>6. CASE RecordError(r) BY <1>6 DEF RecordError
<1> QED BY <1>1, <1>2, <1>3, <1>4, <1>5, <1>6 DEF Ending

LEMMA TypeEnding ==
  ASSUME TypeOK, NEW r \in Runs, Ending(r)
  PROVE  TypeOK'
<1>0. TypeTasks /\ TypeRuns /\ TypeMem /\ TypeEnv /\ Of(r) \in Tasks
  BY TypeGroups, RunFacts
<1>1. Leave(r) BY EndingWrites
<1>2. /\ row' \in [Runs -> {"absent", "queued", "running", "success", "error",
                            "skipped", "aborted"}]
      /\ due' \in [Tasks -> {"never", "due", "soon", "next"}]
      /\ status' \in [Tasks -> {"active", "paused", "completed"}]
      /\ chained' \in SUBSET Tasks
  <2>1. CASE SkipInactive(r) \/ RefuseNonAdmin(r) \/ Depart(r) \/ Abandon(r)
    BY <1>0, <2>1 DEF SkipInactive, RefuseNonAdmin, Depart, Abandon, taskVars,
                      TypeRuns, TypeTasks, TypeMem
  <2>2. CASE CancelQueued(r)
    BY <1>0, <2>2 DEF CancelQueued, RowMarked, Aborted, DeferredIfDue, TypeRuns,
                      TypeTasks, TypeMem
  <2>3. CASE Raise(r) \/ RecordError(r)
    <3>1. ErrorRecorded(r) \/ ErrorRecovered(r) \/ ErrorLost
      BY <2>3 DEF Raise, RecordError
    <3>2. UNCHANGED <<status, chained>> BY <2>3 DEF Raise, RecordError
    <3> QED BY <1>0, <3>1, <3>2, ErrorType DEF TypeTasks, TypeMem
  <2>4. CASE Complete(r)
    <3>1. Chains(Of(r)) => Then[Of(r)] \in Tasks
      BY <1>0, TaskSchedulerAssumption DEF Chains
    <3>2. chained' \in SUBSET Tasks BY <1>0, <2>4, <3>1 DEF Complete, TypeMem
    <3>3. res[r] \in {"success", "error"} BY <2>4 DEF Complete
    <3>4. row' \in [Runs -> {"absent", "queued", "running", "success", "error",
                             "skipped", "aborted"}]
      BY <1>0, <2>4, <3>3 DEF Complete, TypeRuns
    <3>5. \E d \in {"never", "due", "soon", "next"} : due' = [due EXCEPT ![Of(r)] = d]
      BY <1>0, <2>4, DueType DEF Complete
    <3>6. status' \in [Tasks -> {"active", "paused", "completed"}]
      BY <1>0, <2>4 DEF Complete, TypeTasks
    <3> QED BY <1>0, <3>2, <3>4, <3>5, <3>6 DEF TypeTasks
  <2> QED BY <2>1, <2>2, <2>3, <2>4 DEF Ending
<1>3. TypeRuns' /\ TypeMem'
  <2>1. /\ pc' \in [Runs -> {"idle", "created", "failing", "line", "enter", "gate", "run",
                             "settle"}]
        /\ cancel' \in [Runs -> {"no", "handle", "monitor"}]
        /\ res' \in [Runs -> {"none", "success", "error", "raised", "broken", "recorded"}]
    BY <1>0, <1>1 DEF Leave, TypeRuns
  <2>2. readNull' \in [Runs -> BOOLEAN] /\ forced' \in [Runs -> BOOLEAN]
    BY <1>0, <1>1, Zenon DEF Leave, TypeRuns
  <2>3. begun' \in Seq(Runs) BY <1>0, <1>1, WithoutType DEF Leave, TypeRuns
  <2>4. handle' \in [Tasks -> Runs \cup {NoRun}] BY <1>0, <1>1 DEF Leave, TypeMem
  <2>5. /\ executing' \in SUBSET Tasks
        /\ slot' \in Runs \cup {NoRun} /\ loop' \in Runs \cup {NoRun}
    BY <1>0, <1>1 DEF Leave, Release, TypeMem
  <2> QED BY <1>2, <2>1, <2>2, <2>3, <2>4, <2>5 DEF TypeRuns, TypeMem
<1>4. TypeTasks' BY <1>0, <1>2, EndingWrites DEF TypeTasks
<1>5. TypeEnv'
  <2>1. faults' \in 0..MaxFaults BY <1>0, EndingWrites, FaultType
  <2>2. failed' \in SUBSET Runs BY <1>0, EndingWrites DEF TypeEnv
  <2>3. owed' \in [Tasks -> {"no", "yes", "late"}] BY <1>0, EndingWrites DEF TypeEnv
  <2> QED BY <1>0, <2>1, <2>2, <2>3, EndingWrites DEF TypeEnv
<1> QED BY <1>3, <1>4, <1>5, TypeGroupsNext

LEMMA TypeRunStep ==
  ASSUME TypeOK, NEW r \in Runs, RunStep(r) \/ Commit(r) \/ MonitorHits(r)
  PROVE  TypeOK'
<1>0. TypeTasks /\ TypeRuns /\ TypeMem /\ TypeEnv /\ Of(r) \in Tasks
  BY TypeGroups, RunFacts
<1>1. CASE Begin(r)
  <2>1. TypeRuns' /\ TypeMem' /\ TypeEnv'
    BY <1>0, <1>1, BeginAsType DEF Begin, TypeRuns, TypeMem, TypeEnv
  <2>2. TypeTasks' BY <1>0, <1>1 DEF Begin, taskVars, TypeTasks
  <2> QED BY <2>1, <2>2, TypeGroupsNext
<1>2. CASE AcquireSlot(r) \/ EnterGate(r)
  <2>1. TypeRuns' /\ TypeMem'
    BY <1>0, <1>2 DEF AcquireSlot, EnterGate, TypeRuns, TypeMem
  <2>2. TypeTasks' /\ TypeEnv'
    BY <1>0, <1>2 DEF AcquireSlot, EnterGate, taskVars, envVars, histVars,
                      TypeTasks, TypeEnv
  <2> QED BY <2>1, <2>2, TypeGroupsNext
<1>3. CASE StartForced(r) \/ PassGate(r)
  BY <1>3, StartType DEF StartForced, PassGate
<1>4. CASE Ending(r) BY <1>4, TypeEnding
<1>5. CASE Return(r) \/ GiveUp(r) \/ Interrupt(r)
  <2>1. /\ pc' \in [Runs -> {"idle", "created", "failing", "line", "enter", "gate", "run", "settle"}]
        /\ row' \in [Runs -> {"absent", "queued", "running", "success", "error",
                              "skipped", "aborted"}]
        /\ res' \in [Runs -> {"none", "success", "error", "raised", "broken", "recorded"}]
        /\ UNCHANGED <<forced, cancel, readNull, begun>>
    BY <1>0, <1>5 DEF Return, GiveUp, Interrupt, TypeRuns
  <2>2. TypeRuns' BY <1>0, <2>1 DEF TypeRuns
  <2>3. TypeMem' BY <1>0, <1>5 DEF Return, GiveUp, Interrupt, TypeMem
  <2>4. due' \in [Tasks -> {"never", "due", "soon", "next"}]
    BY <1>0, <1>5, DueType DEF Return, GiveUp, Interrupt, taskVars, TypeTasks
  <2>5. TypeTasks'
    BY <1>0, <1>5, <2>4 DEF Return, GiveUp, Interrupt, taskVars, TypeTasks
  <2>6. /\ Fault \/ UNCHANGED faults
        /\ UNCHANGED <<foreground, up, asks, events, crashes, owed, stopped, failed>>
    BY <1>5 DEF Return, GiveUp, Interrupt, envVars, histVars
  <2>7. TypeEnv' BY <1>0, <2>6, FaultType DEF TypeEnv
  <2> QED BY <2>2, <2>3, <2>5, <2>7, TypeGroupsNext
<1>6. CASE Commit(r) \/ MonitorHits(r)
  <2>1. readNull' \in [Runs -> BOOLEAN]
    <3>1. CASE Commit(r)
      <4>1. readNull' = [readNull EXCEPT ![r] = due[Of(r)] = "never"]
        BY <3>1 DEF Commit
      <4> QED BY <1>0, <4>1, Zenon DEF TypeRuns
    <3>2. CASE MonitorHits(r) BY <1>0, <3>2 DEF MonitorHits, TypeRuns
    <3> QED BY <1>6, <3>1, <3>2
  <2>2. TypeRuns' BY <1>0, <1>6, <2>1 DEF Commit, MonitorHits, TypeRuns
  <2>3. TypeTasks' /\ TypeMem' /\ TypeEnv'
    BY <1>0, <1>6 DEF Commit, MonitorHits, taskVars, memVars, envVars, histVars,
                      TypeTasks, TypeMem, TypeEnv
  <2> QED BY <2>2, <2>3, TypeGroupsNext
<1> QED BY <1>1, <1>2, <1>3, <1>4, <1>5, <1>6 DEF RunStep, Ending

LEMMA TypeOther ==
  ASSUME TypeOK, \/ CheckDueTasks \/ StopBackground \/ Foreground \/ Crash
                 \/ Restart \/ UNCHANGED vars
  PROVE  TypeOK'
<1>0. TypeTasks /\ TypeRuns /\ TypeMem /\ TypeEnv
  BY TypeGroups
<1>1. CASE CheckDueTasks
  <2>1. TypeRuns'
    <3>1. UNCHANGED runVars \/ Create(DueTasks, FALSE) BY <1>1 DEF CheckDueTasks
    <3>2. CASE UNCHANGED runVars BY <1>0, <3>2 DEF runVars, TypeRuns
    <3> QED BY <1>0, <3>1, <3>2, CreateType
  <2>2. TypeMem' BY <1>0, <1>1 DEF CheckDueTasks, DueTasks, TypeMem
  <2>3. TypeTasks' BY <1>0, <1>1 DEF CheckDueTasks, TypeTasks
  <2>4. TypeEnv' BY <1>0, <1>1 DEF CheckDueTasks, envVars, histVars, TypeEnv
  <2> QED BY <2>1, <2>2, <2>3, <2>4, TypeGroupsNext
<1>2. CASE StopBackground
  <2>1. TypeRuns' BY <1>0, <1>2 DEF StopBackground, CancelTasks, TypeRuns
  <2>2. TypeTasks' /\ TypeMem'
    BY <1>0, <1>2 DEF StopBackground, taskVars, memVars, TypeTasks, TypeMem
  <2>3. /\ Fault \/ UNCHANGED faults
        /\ UNCHANGED <<foreground, up, asks, events, crashes, owed, stopped, failed>>
    BY <1>2 DEF StopBackground, CancelTasks, histVars
  <2>4. TypeEnv' BY <1>0, <2>3, FaultType DEF TypeEnv
  <2> QED BY <2>1, <2>2, <2>4, TypeGroupsNext
<1>3. CASE Foreground
  <2>1. TypeTasks' /\ TypeMem' /\ TypeRuns'
    BY <1>0, <1>3 DEF Foreground, taskVars, memVars, runVars, TypeTasks,
                      TypeMem, TypeRuns
  <2>2. TypeEnv' BY <1>0, <1>3, Zenon DEF Foreground, histVars, TypeEnv
  <2> QED BY <2>1, <2>2, TypeGroupsNext
<1>4. CASE Crash
  <2>1. TypeTasks' BY <1>0, <1>4 DEF Crash, taskVars, TypeTasks
  <2>2. TypeMem' BY <1>0, <1>4 DEF Crash, TypeMem
  <2>3. TypeRuns'
    <3>1. forced' \in [Runs -> BOOLEAN] /\ readNull' \in [Runs -> BOOLEAN]
      BY <1>4 DEF Crash
    <3> QED BY <1>0, <1>4, <3>1 DEF Crash, TypeRuns
  <2>4. TypeEnv'
    <3>1. crashes' \in 0..MaxCrashes
      BY <1>0, <1>4, TaskSchedulerAssumption DEF Crash, TypeEnv
    <3> QED BY <1>0, <1>4, <3>1 DEF Crash, histVars, TypeEnv
  <2> QED BY <2>1, <2>2, <2>3, <2>4, TypeGroupsNext
<1>5. CASE Restart
  <2>1. TypeTasks' BY <1>0, <1>5 DEF Restart, DeferredIfDue, TypeTasks
  <2>2. TypeRuns'
    BY <1>0, <1>5 DEF Restart, StaleCleared, Aborted, TypeRuns
  <2>3. TypeMem' BY <1>0, <1>5 DEF Restart, memVars, TypeMem
  <2>4. TypeEnv'
    <3>1. Fault \/ UNCHANGED faults BY <1>5 DEF Restart
    <3>2. failed' \in SUBSET Runs BY <1>5 DEF Restart
    <3> QED BY <1>0, <1>5, <3>1, <3>2, FaultType DEF Restart, TypeEnv
  <2> QED BY <2>1, <2>2, <2>3, <2>4, TypeGroupsNext
<1>6. CASE UNCHANGED vars
  BY <1>6 DEF vars, taskVars, runVars, memVars, envVars, histVars, TypeOK
<1> QED BY <1>1, <1>2, <1>3, <1>4, <1>5, <1>6

\* Every reachable state of the scheduler is well typed.
THEOREM TypeCorrect == Spec => []TypeOK
<1>1. TypeOK /\ [Next]_vars => TypeOK'
  BY TypeTaskStep, TypeRunStep, TypeOther DEF Next
<1> QED BY <1>1, TypeInit, PTL DEF Spec

-----------------------------------------------------------------------------
(* What the actions do to the runs. *)

\* How a coroutine begins.
LEMMA BeginFrame ==
  ASSUME TypeOK, NEW r \in Runs, BeginAs(r)
  PROVE  /\ pc'[r] \in {"enter", "line", "failing"} /\ row'[r] \in {"queued", "absent"}
         /\ \A q \in Runs : q # r => pc'[q] = pc[q] /\ row'[q] = row[q]
         /\ failed' = failed \ {r} /\ begun' = Append(Without(begun, r), r)
         /\ slot' = slot \/ (slot = NoRun /\ slot' = r /\ pc'[r] = "enter")
         /\ pc'[r] = "line" => Of(r) \in NeedsSlot /\ ~forced'[r]
         /\ pc'[r] = "enter" => slot' = r \/ forced'[r] \/ Of(r) \notin NeedsSlot
         /\ slot' # slot => Of(r) \in NeedsSlot /\ ~forced'[r]
<1>1. /\ failed' = failed \ {r} /\ begun' = Append(Without(begun, r), r)
      /\ \E s \in {"queued", "absent"} : row' = [row EXCEPT ![r] = s]
      /\ Admit(r) \/ CannotAdmit(r)
  BY DEF BeginAs
<1>2. row'[r] \in {"queued", "absent"} /\ \A q \in Runs : q # r => row'[q] = row[q]
  BY <1>1 DEF TypeOK
<1>3. CASE Admit(r) BY <1>1, <1>2, <1>3 DEF Admit, SlotOpen, TypeOK
<1>4. CASE CannotAdmit(r) BY <1>1, <1>2, <1>4 DEF CannotAdmit, TypeOK
<1> QED BY <1>1, <1>3, <1>4

LEMMA EndingFrame ==
  ASSUME TypeOK, NEW r \in Runs, Ending(r)
  PROVE  /\ Leave(r) /\ pc'[r] = "idle" /\ ~forced'[r] /\ pc[r] # "idle"
         /\ \A q \in Runs : q # r => /\ pc'[q] = pc[q] /\ row'[q] = row[q]
                                     /\ res'[q] = res[q] /\ forced'[q] = forced[q]
         /\ failed' \in {failed, failed \cup {r}}
         /\ UNCHANGED <<up, stopped>>
<1>1. Leave(r) /\ UNCHANGED <<up, stopped>> /\ failed' \in {failed, failed \cup {r}}
  BY EndingWrites
<1>2. pc[r] # "idle"
  BY DEF Ending, SkipInactive, RefuseNonAdmin, CancelQueued, Raise, Abandon, Complete,
         RecordError, Depart, Settled
<1>3. /\ pc'[r] = "idle" /\ ~forced'[r]
      /\ \A q \in Runs : q # r => pc'[q] = pc[q] /\ res'[q] = res[q] /\ forced'[q] = forced[q]
  BY <1>1 DEF Leave, TypeOK
<1>4. \E s : row' = [row EXCEPT ![r] = s]
  <2>1. CASE SkipInactive(r) \/ RefuseNonAdmin(r)
    BY <2>1 DEF SkipInactive, RefuseNonAdmin
  <2>2. CASE CancelQueued(r)
    <3>1. row' = row \/ row' = [row EXCEPT ![r] = RowMarked(r)] BY <2>2 DEF CancelQueued
    <3>2. row' = row => row' = [row EXCEPT ![r] = row[r]] BY DEF TypeOK
    <3> QED BY <3>1, <3>2
  <2>3. CASE Raise(r) \/ RecordError(r)
    <3>1. ErrorRecorded(r) \/ ErrorRecovered(r) \/ row' = row
      BY <2>3 DEF Raise, RecordError, ErrorLost
    <3>2. row' = row => row' = [row EXCEPT ![r] = row[r]] BY DEF TypeOK
    <3> QED BY <3>1, <3>2 DEF ErrorRecorded, ErrorRecovered
  <2>4. CASE Abandon(r) \/ Depart(r)
    <3>1. row' = row BY <2>4 DEF Abandon, Depart
    <3>2. row' = [row EXCEPT ![r] = row[r]] BY <3>1 DEF TypeOK
    <3> QED BY <3>2
  <2>5. CASE Complete(r) BY <2>5 DEF Complete
  <2> QED BY <2>1, <2>2, <2>3, <2>4, <2>5 DEF Ending
<1>5. \A q \in Runs : q # r => row'[q] = row[q] BY <1>4 DEF TypeOK
<1> QED BY <1>1, <1>2, <1>3, <1>5

\* A coroutine's own step leaves the other runs alone.
LEMMA RunFrame ==
  ASSUME TypeOK, NEW r \in Runs, RunStep(r) \/ Commit(r) \/ MonitorHits(r)
  PROVE  \A q \in Runs : q # r => /\ pc'[q] = pc[q] /\ row'[q] = row[q]
                                  /\ res'[q] = res[q] /\ forced'[q] = forced[q]
<1>1. CASE Ending(r) BY <1>1, EndingFrame
<1>2. CASE Begin(r) BY <1>2, BeginFrame DEF Begin
<1>3. CASE \/ AcquireSlot(r) \/ EnterGate(r) \/ StartForced(r) \/ PassGate(r)
           \/ Return(r) \/ GiveUp(r) \/ Interrupt(r) \/ Commit(r) \/ MonitorHits(r)
  BY <1>3 DEF TypeOK, AcquireSlot, EnterGate, StartForced, PassGate, Start, Return,
              GiveUp, Interrupt, Commit, MonitorHits
<1> QED BY <1>1, <1>2, <1>3 DEF RunStep, Ending

\* New coroutines take numbers that no live run has.
LEMMA CreateFrame ==
  ASSUME TypeOK, NEW ts \in SUBSET Tasks, NEW b, Create(ts, b)
  PROVE  /\ \A r \in Runs :
              \/ pc'[r] = pc[r] /\ forced'[r] = forced[r] /\ r # Fresh(Of(r))
              \/ pc'[r] = pc[r] /\ forced'[r] = forced[r] /\ Of(r) \notin ts
              \/ /\ r = Fresh(Of(r)) /\ Of(r) \in ts
                 /\ pc[r] = "idle" /\ pc'[r] = "created" /\ forced'[r] = b
         /\ \A r \in Runs : \/ pc'[r] = pc[r] /\ row'[r] = row[r]
                            \/ pc[r] = "idle" /\ pc'[r] = "created" /\ row'[r] = "absent"
         /\ \A t \in ts : Fresh(t) \in RunsOf(t) /\ ~Live(Fresh(t))
         /\ UNCHANGED res
<1>1. \A t \in ts : Room(t) BY DEF Create
<1>2. \A t \in ts : Fresh(t) \in RunsOf(t) /\ Of(Fresh(t)) = t /\ ~Live(Fresh(t))
  BY <1>1, FreshFacts
<1>3. ASSUME NEW r \in Runs
      PROVE  /\ pc'[r] = IF \E t \in ts : r = Fresh(t) THEN "created" ELSE pc[r]
             /\ forced'[r] = IF \E t \in ts : r = Fresh(t) THEN b ELSE forced[r]
             /\ row'[r] = IF \E t \in ts : r = Fresh(t) THEN "absent" ELSE row[r]
  BY DEF Create
<1>4. ASSUME NEW r \in Runs
      PROVE  /\ \/ pc'[r] = pc[r] /\ forced'[r] = forced[r] /\ r # Fresh(Of(r))
                \/ pc'[r] = pc[r] /\ forced'[r] = forced[r] /\ Of(r) \notin ts
                \/ /\ r = Fresh(Of(r)) /\ Of(r) \in ts
                   /\ pc[r] = "idle" /\ pc'[r] = "created" /\ forced'[r] = b
             /\ \/ pc'[r] = pc[r] /\ row'[r] = row[r]
                \/ pc[r] = "idle" /\ pc'[r] = "created" /\ row'[r] = "absent"
  <2>1. CASE r = Fresh(Of(r)) /\ Of(r) \in ts
    BY <1>2, <1>3, <2>1 DEF Live
  <2>2. CASE ~(r = Fresh(Of(r)) /\ Of(r) \in ts)
    <3>1. ~(\E t \in ts : r = Fresh(t)) BY <1>2, <2>2
    <3> QED BY <1>3, <2>2, <3>1
  <2> QED BY <2>1, <2>2
<1> QED BY <1>2, <1>4 DEF Create

-----------------------------------------------------------------------------
(* No phantom runs. *)

\* What a run's row may say, by where its coroutine is and what it came to.
RowFits(where, what, result) ==
  /\ where = "created" => ~Active(what)
  /\ where \in {"failing", "line", "enter", "gate"} => what # "running"
  /\ where \in {"run", "settle"} => what # "queued"
  /\ where = "settle" /\ result = "recorded" => ~Active(what)

\* A row without a coroutine is over, unless an exception kept it from being ended.
RowInv ==
  /\ up => \A r \in Runs : /\ RowFits(pc[r], row[r], res[r])
                           /\ pc[r] = "idle" /\ Active(row[r]) => r \in failed
  /\ ~up => \A r \in Runs : pc[r] = "idle"

LEMMA RowInit == Init => RowInv
BY DEF Init, RowInv, RowFits, Active

LEMMA RowLocal ==
  ASSUME RowInv, NEW r \in Runs, up, up',
         \A q \in Runs : q # r => /\ pc'[q] = pc[q] /\ row'[q] = row[q] /\ res'[q] = res[q]
                                  /\ q \in failed => q \in failed',
         RowFits(pc'[r], row'[r], res'[r]),
         pc'[r] = "idle" /\ Active(row'[r]) => r \in failed'
  PROVE  RowInv'
<1>1. ASSUME NEW q \in Runs, q # r
      PROVE  /\ RowFits(pc'[q], row'[q], res'[q])
             /\ pc'[q] = "idle" /\ Active(row'[q]) => q \in failed'
  <2>1. /\ RowFits(pc[q], row[q], res[q])
        /\ pc[q] = "idle" /\ Active(row[q]) => q \in failed
    BY Zenon DEF RowInv
  <2> QED BY <1>1, <2>1
<1> QED BY <1>1, Zenon DEF RowInv

\* Rows may only be marked aborted, and coroutines created where there is none.
LEMMA RowMarkedOnly ==
  ASSUME RowInv, up, up', UNCHANGED <<res, failed>>,
         \A r \in Runs : \/ pc'[r] = pc[r] /\ row'[r] \in {row[r], "aborted"}
                         \/ pc[r] = "idle" /\ pc'[r] = "created" /\ row'[r] = "absent"
  PROVE  RowInv'
<1> SUFFICES ASSUME NEW r \in Runs
             PROVE  /\ RowFits(pc'[r], row'[r], res'[r])
                    /\ pc'[r] = "idle" /\ Active(row'[r]) => r \in failed'
  BY DEF RowInv
<1>1. /\ RowFits(pc[r], row[r], res[r])
      /\ pc[r] = "idle" /\ Active(row[r]) => r \in failed
  BY Zenon DEF RowInv
<1>2. CASE pc'[r] = pc[r] /\ row'[r] \in {row[r], "aborted"}
  BY <1>1, <1>2 DEF RowFits, Active
<1>3. CASE pc[r] = "idle" /\ pc'[r] = "created" /\ row'[r] = "absent"
  BY <1>3 DEF RowFits, Active
<1> QED BY <1>2, <1>3

LEMMA RowEnding ==
  ASSUME TypeOK, RowInv, NEW r \in Runs, Ending(r)
  PROVE  RowInv'
<1>1. /\ pc'[r] = "idle" /\ pc[r] # "idle" /\ up' = up
      /\ \A q \in Runs : q # r => pc'[q] = pc[q] /\ row'[q] = row[q] /\ res'[q] = res[q]
      /\ failed' \in {failed, failed \cup {r}}
  BY EndingFrame
<1>2. up /\ RowFits(pc[r], row[r], res[r]) BY <1>1, Zenon DEF RowInv
<1>3. ~Active(row'[r]) \/ r \in failed'
  <2>1. CASE SkipInactive(r)
    BY <1>2, <2>1 DEF SkipInactive, RowFits, Active, TypeOK
  <2>2. CASE RefuseNonAdmin(r)
    BY <2>2 DEF RefuseNonAdmin, Active, TypeOK
  <2>3. CASE CancelQueued(r)
    BY <2>3 DEF CancelQueued, RowMarked, Aborted, Active, TypeOK
  <2>4. CASE Complete(r)
    <3>1. row'[r] \in {"success", "error"} BY <2>4 DEF Complete, TypeOK
    <3> QED BY <3>1 DEF Active
  <2>5. CASE RecordError(r)
    <3>1. ErrorRecorded(r) \/ r \in failed' BY <2>5 DEF RecordError
    <3>2. pc[r] = "settle" BY <2>5 DEF RecordError, Settled
    <3> QED BY <1>2, <3>1, <3>2 DEF ErrorRecorded, RowFits, Active, TypeOK
  <2>6. CASE Depart(r)
    BY <1>2, <2>6 DEF Depart, Settled, RowFits, Active
  <2>7. CASE Raise(r) \/ Abandon(r) BY <2>7 DEF Raise, Abandon
  <2> QED BY <2>1, <2>2, <2>3, <2>4, <2>5, <2>6, <2>7 DEF Ending
<1>4. RowFits(pc'[r], row'[r], res'[r]) BY <1>1 DEF RowFits
<1> QED BY <1>1, <1>2, <1>3, <1>4, RowLocal

LEMMA RowBegin ==
  ASSUME TypeOK, RowInv, up, up', NEW r \in Runs, BeginAs(r), UNCHANGED res
  PROVE  RowInv'
<1>1. /\ pc'[r] \in {"enter", "line", "failing"} /\ row'[r] \in {"queued", "absent"}
      /\ \A q \in Runs : q # r => pc'[q] = pc[q] /\ row'[q] = row[q]
      /\ failed' = failed \ {r}
  BY BeginFrame
<1>2. RowFits(pc'[r], row'[r], res'[r]) /\ pc'[r] # "idle" BY <1>1 DEF RowFits
<1> QED BY <1>1, <1>2, RowLocal

LEMMA RowRunStep ==
  ASSUME TypeOK, RowInv, NEW r \in Runs, RunStep(r) \/ Commit(r) \/ MonitorHits(r)
  PROVE  RowInv'
<1>1. \A q \in Runs : q # r => pc'[q] = pc[q] /\ row'[q] = row[q] /\ res'[q] = res[q]
  BY RunFrame
<1>2. CASE Ending(r) BY <1>2, RowEnding
<1>3. CASE Begin(r)
  <2>1. up /\ up' /\ BeginAs(r) /\ UNCHANGED res BY <1>3 DEF Begin, Idle
  <2> QED BY <2>1, RowBegin
<1>4. CASE ~Ending(r) /\ ~Begin(r)
  <2>1. pc[r] # "idle" /\ up' = up /\ failed' = failed
    BY <1>4 DEF RunStep, Ending, AcquireSlot, FirstInLine, EnterGate,
                StartForced, PassGate, Start, Return, GiveUp, Interrupt, Commit,
                MonitorHits, envVars, histVars
  <2>2. up /\ RowFits(pc[r], row[r], res[r]) BY <2>1, Zenon DEF RowInv
  <2>3. RowFits(pc'[r], row'[r], res'[r]) /\ pc'[r] # "idle"
    <3>1. CASE AcquireSlot(r) \/ EnterGate(r)
      BY <2>2, <3>1 DEF AcquireSlot, FirstInLine, EnterGate, RowFits, TypeOK
    <3>2. CASE StartForced(r) \/ PassGate(r)
      BY <3>2 DEF StartForced, PassGate, Start, RowFits, TypeOK
    <3>3. CASE Return(r)
      BY <2>2, <3>3 DEF Return, RowFits, Active, TypeOK
    <3>4. CASE GiveUp(r)
      BY <2>2, <3>4 DEF GiveUp, RowFits, Active, TypeOK
    <3>5. CASE Interrupt(r)
      BY <2>2, <3>5 DEF Interrupt, RowFits, Active, TypeOK
    <3>6. CASE Commit(r) \/ MonitorHits(r)
      BY <2>2, <3>6 DEF Commit, MonitorHits, RowFits, TypeOK
    <3> QED BY <1>4, <3>1, <3>2, <3>3, <3>4, <3>5, <3>6 DEF RunStep, Ending
  <2> QED BY <1>1, <2>1, <2>2, <2>3, RowLocal
<1> QED BY <1>2, <1>3, <1>4

LEMMA RowCancels ==
  ASSUME RowInv, up, up', UNCHANGED <<pc, res, failed>>, NEW ts, CancelTasks(ts)
  PROVE  RowInv'
<1>1. \A r \in Runs : row'[r] \in {row[r], "aborted"} BY DEF CancelTasks
<1> QED BY <1>1, RowMarkedOnly

LEMMA RowTaskStep ==
  ASSUME TypeOK, RowInv, NEW t \in Tasks, TaskStep(t)
  PROVE  RowInv'
<1>1. CASE Clock(t) \/ Pause(t) \/ Resume(t)
  BY <1>1 DEF Clock, Pause, Resume, runVars, envVars, histVars, RowInv
<1>2. CASE StopTask(t)
  BY <1>2, RowCancels DEF StopTask, Idle
<1>3. CASE RunChained(t)
  <2>1. up /\ up' BY <1>3 DEF RunChained, Idle
  <2>2. CASE t \in executing BY <1>3, <2>1, <2>2 DEF RunChained, runVars, RowInv
  <2>3. CASE t \notin executing
    <3>1. Fresh(t) \in Runs /\ BeginAs(Fresh(t)) /\ UNCHANGED res
      BY <1>3, <2>3, FreshFacts DEF RunChained
    <3> QED BY <2>1, <3>1, RowBegin
  <2> QED BY <2>2, <2>3
<1>4. CASE RunTaskNow(t) \/ ForceRun(t) \/ HandleEvent(t)
  <2>1. up /\ up' /\ failed' = failed
    <3>1. CASE RunTaskNow(t) BY <3>1 DEF RunTaskNow, Idle, histVars
    <3>2. CASE ForceRun(t) BY <3>2 DEF ForceRun, Idle, histVars
    <3>3. CASE HandleEvent(t) BY <3>3 DEF HandleEvent, Idle
    <3> QED BY <1>4, <3>1, <3>2, <3>3
  <2>2. CASE UNCHANGED runVars BY <2>1, <2>2 DEF runVars, RowInv
  <2>3. CASE ~UNCHANGED runVars
    <3>1. PICK b : Create({t}, b)
      BY <1>4, <2>3 DEF RunTaskNow, ForceRun, HandleEvent
    <3>2. /\ \A r \in Runs : \/ pc'[r] = pc[r] /\ row'[r] = row[r]
                             \/ pc[r] = "idle" /\ pc'[r] = "created" /\ row'[r] = "absent"
          /\ UNCHANGED res
      BY <3>1, CreateFrame
    <3> QED BY <2>1, <3>2, RowMarkedOnly
  <2> QED BY <2>2, <2>3
<1> QED BY <1>1, <1>2, <1>3, <1>4 DEF TaskStep

LEMMA RowOther ==
  ASSUME TypeOK, RowInv, \/ CheckDueTasks \/ StopBackground \/ Foreground
                         \/ Crash \/ Restart \/ UNCHANGED vars
  PROVE  RowInv'
<1>1. CASE CheckDueTasks
  <2>1. up /\ up' /\ failed' = failed BY <1>1 DEF CheckDueTasks, Idle, envVars, histVars
  <2>2. CASE UNCHANGED runVars BY <2>1, <2>2 DEF runVars, RowInv
  <2>3. CASE ~UNCHANGED runVars
    <3>1. Create(DueTasks, FALSE) BY <1>1, <2>3 DEF CheckDueTasks
    <3>2. DueTasks \in SUBSET Tasks BY DEF DueTasks
    <3>3. /\ \A r \in Runs : \/ pc'[r] = pc[r] /\ row'[r] = row[r]
                             \/ pc[r] = "idle" /\ pc'[r] = "created" /\ row'[r] = "absent"
          /\ UNCHANGED res
      BY <3>1, <3>2, CreateFrame
    <3> QED BY <2>1, <3>3, RowMarkedOnly
  <2> QED BY <2>2, <2>3
<1>2. CASE StopBackground
  BY <1>2, RowCancels DEF StopBackground, Idle, histVars
<1>3. CASE Foreground \/ UNCHANGED vars
  BY <1>3 DEF Foreground, vars, runVars, envVars, histVars, RowInv
<1>4. CASE Crash BY <1>4 DEF Crash, RowInv
<1>5. CASE Restart
  <2>1. up' /\ UNCHANGED <<pc, res>> /\ \A r \in Runs : pc[r] = "idle"
    BY <1>5 DEF Restart, RowInv
  <2>2. \A r \in Runs : Active(row'[r]) => r \in failed'
    BY <1>5 DEF Restart, StaleCleared, Aborted, Active
  <2> QED BY <2>1, <2>2 DEF RowInv, RowFits
<1> QED BY <1>1, <1>2, <1>3, <1>4, <1>5

LEMMA RowInvariant == Spec => []RowInv
<1>1. TypeOK /\ RowInv /\ [Next]_vars => RowInv'
  BY RowTaskStep, RowRunStep, RowOther DEF Next
<1> QED BY <1>1, RowInit, TypeCorrect, PTL DEF Spec

\* While the server is up, a row that says queued or running belongs to a live
\* coroutine, or to one that an exception ended before it started or could write.
THEOREM NoPhantoms == Spec => []NoPhantomRows
<1>1. RowInv => NoPhantomRows BY Zenon DEF RowInv, NoPhantomRows, Live
<1> QED BY <1>1, RowInvariant, PTL

-----------------------------------------------------------------------------
(* The model slot. *)

\* Past the semaphore, on the slot's account.
Holding(r) == /\ Of(r) \in NeedsSlot /\ ~forced[r]
              /\ pc[r] \in PastSlot

SlotInv == \A r \in Runs : Holding(r) => slot = r

LEMMA SlotInit == Init => SlotInv
BY DEF Init, SlotInv, Holding, PastSlot

\* Only run r moves.  If it holds the slot afterwards, it has it; others that held
\* it keep it.
LEMMA SlotLocal ==
  ASSUME SlotInv, NEW r \in Runs,
         \A q \in Runs : q # r => pc'[q] = pc[q] /\ forced'[q] = forced[q],
         Holding(r)' => slot' = r,
         \A q \in Runs : q # r /\ Holding(q) => slot' = slot
  PROVE  SlotInv'
BY DEF SlotInv, Holding, PastSlot

\* No run gets past the semaphore.
LEMMA SlotKept ==
  ASSUME SlotInv, UNCHANGED slot, \A r \in Runs : Holding(r)' => Holding(r)
  PROVE  SlotInv'
BY DEF SlotInv

\* A coroutine begins: it takes the slot only if nobody has it.
LEMMA SlotBegin ==
  ASSUME TypeOK, SlotInv, NEW r \in Runs, BeginAs(r),
         \A q \in Runs : q # r => forced'[q] = forced[q]
  PROVE  SlotInv'
<1>1. \A q \in Runs : q # r => pc'[q] = pc[q] BY BeginFrame
<1>2. Holding(r)' => slot' = r BY BeginFrame DEF Holding, PastSlot
<1>3. slot' = slot \/ slot = NoRun BY BeginFrame
<1>4. \A q \in Runs : Holding(q) => slot = q BY DEF SlotInv
<1>5. \A q \in Runs : q # r /\ Holding(q) => slot' = slot
  BY <1>3, <1>4, RunFacts
<1> QED BY <1>1, <1>2, <1>5, SlotLocal

LEMMA SlotRunStep ==
  ASSUME TypeOK, SlotInv, NEW r \in Runs, RunStep(r) \/ Commit(r) \/ MonitorHits(r)
  PROVE  SlotInv'
<1>1. \A q \in Runs : q # r => pc'[q] = pc[q] /\ forced'[q] = forced[q]
  BY RunFrame
<1>2. CASE Ending(r)
  <2>1. Leave(r) /\ pc'[r] = "idle" BY <1>2, EndingFrame
  <2>2. ~Holding(r)' BY <2>1 DEF Holding, PastSlot
  <2>3. \A q \in Runs : q # r /\ Holding(q) => slot' = slot
    BY <2>1 DEF Leave, SlotInv
  <2> QED BY <1>1, <2>2, <2>3, SlotLocal
<1>3. CASE Begin(r) BY <1>1, <1>3, SlotBegin DEF Begin
<1>4. CASE AcquireSlot(r)
  <2>1. slot = NoRun /\ slot' = r BY <1>4 DEF AcquireSlot
  <2>2. \A q \in Runs : ~Holding(q) BY <2>1, RunFacts DEF SlotInv
  <2> QED BY <1>1, <2>1, <2>2, SlotLocal
<1>5. CASE \/ EnterGate(r) \/ StartForced(r) \/ PassGate(r) \/ Return(r)
           \/ GiveUp(r) \/ Interrupt(r) \/ Commit(r) \/ MonitorHits(r)
  <2>1. UNCHANGED slot /\ forced'[r] = forced[r]
    BY <1>5 DEF EnterGate, StartForced, PassGate, Start, Return, GiveUp,
                Interrupt, Commit, MonitorHits, memVars
  <2>2. Holding(r)' => Holding(r)
    BY <1>5, <2>1 DEF EnterGate, StartForced, PassGate, Start, Return, GiveUp,
                      Interrupt, Commit, MonitorHits, Holding, PastSlot, TypeOK
  <2>3. \A q \in Runs : Holding(q)' => Holding(q)
    BY <1>1, <2>2 DEF Holding, PastSlot
  <2> QED BY <2>1, <2>3, SlotKept
<1> QED BY <1>2, <1>3, <1>4, <1>5 DEF RunStep, Ending

LEMMA SlotCreate ==
  ASSUME TypeOK, SlotInv, NEW ts \in SUBSET Tasks, NEW b, Create(ts, b),
         UNCHANGED slot
  PROVE  SlotInv'
<1>1. \A r \in Runs : Holding(r)' => Holding(r)
  BY CreateFrame DEF Holding, PastSlot
<1> QED BY <1>1, SlotKept

LEMMA SlotTaskStep ==
  ASSUME TypeOK, SlotInv, NEW t \in Tasks, TaskStep(t)
  PROVE  SlotInv'
<1>1. CASE UNCHANGED <<slot, pc, forced>> BY <1>1, SlotKept DEF Holding, PastSlot
<1>2. CASE RunChained(t) /\ t \notin executing
  <2>1. Fresh(t) \in Runs /\ BeginAs(Fresh(t))
    BY <1>2, FreshFacts DEF RunChained
  <2>2. \A q \in Runs : q # Fresh(t) => forced'[q] = forced[q]
    BY <1>2 DEF RunChained, TypeOK
  <2> QED BY <2>1, <2>2, SlotBegin
<1>3. ASSUME NEW b, Create({t}, b), UNCHANGED slot PROVE SlotInv'
  BY <1>3, SlotCreate
<1>4. CASE RunTaskNow(t) \/ ForceRun(t) \/ HandleEvent(t)
  BY <1>1, <1>3, <1>4 DEF RunTaskNow, ForceRun, HandleEvent, memVars, runVars
<1>5. CASE Clock(t) \/ Pause(t) \/ Resume(t) \/ StopTask(t)
           \/ (RunChained(t) /\ t \in executing)
  BY <1>1, <1>5 DEF Clock, Pause, Resume, StopTask, RunChained, runVars, memVars
<1> QED BY <1>2, <1>4, <1>5 DEF TaskStep

LEMMA SlotOther ==
  ASSUME TypeOK, SlotInv, \/ CheckDueTasks \/ StopBackground \/ Foreground
                          \/ Crash \/ Restart \/ UNCHANGED vars
  PROVE  SlotInv'
<1>1. CASE UNCHANGED <<slot, pc, forced>> BY <1>1, SlotKept DEF Holding, PastSlot
<1>2. CASE CheckDueTasks
  <2>1. UNCHANGED slot /\ DueTasks \in SUBSET Tasks
    BY <1>2 DEF CheckDueTasks, DueTasks
  <2>2. CASE UNCHANGED runVars BY <1>1, <2>1, <2>2 DEF runVars
  <2>3. CASE Create(DueTasks, FALSE) BY <2>1, <2>3, SlotCreate
  <2> QED BY <1>2, <2>2, <2>3 DEF CheckDueTasks
<1>3. CASE Crash BY <1>3 DEF Crash, SlotInv, Holding, PastSlot
<1>4. CASE StopBackground \/ Foreground \/ Restart \/ UNCHANGED vars
  BY <1>1, <1>4 DEF StopBackground, Foreground, Restart, vars, runVars, memVars
<1> QED BY <1>2, <1>3, <1>4

\* Who has the slot uses it; who waits for it needs it.
OwnerInv ==
  /\ slot # NoRun => Holding(slot)
  /\ \A r \in Runs : pc[r] = "line" => Of(r) \in NeedsSlot /\ ~forced[r]

\* Runs that are not new, or wait, keep what they are.
LEMMA OwnerKept ==
  ASSUME TypeOK, OwnerInv, UNCHANGED slot,
         \A r \in Runs : slot = r /\ Holding(r) => Holding(r)',
         \A r \in Runs : pc'[r] = "line" => pc[r] = "line" /\ forced'[r] = forced[r]
  PROVE  OwnerInv'
BY DEF OwnerInv, TypeOK

LEMMA OwnerBegin ==
  ASSUME TypeOK, OwnerInv, NEW r \in Runs, BeginAs(r), pc[r] \in {"idle", "created"},
         \A q \in Runs : q # r => forced'[q] = forced[q]
  PROVE  OwnerInv'
<1>1. \A q \in Runs : q # r => pc'[q] = pc[q] BY BeginFrame
<1>2. pc'[r] = "line" => Of(r) \in NeedsSlot /\ ~forced'[r] BY BeginFrame
<1>3. CASE slot' = slot
  <2>1. slot # NoRun => slot \in Runs /\ slot # r
    BY DEF OwnerInv, Holding, PastSlot, TypeOK
  <2> QED BY <1>1, <1>2, <1>3, <2>1 DEF OwnerInv, Holding
<1>4. CASE slot' # slot
  <2>1. slot' = r /\ ~forced'[r] /\ Of(r) \in NeedsSlot /\ pc'[r] = "enter"
    BY <1>4, BeginFrame
  <2> QED BY <1>1, <1>2, <2>1 DEF OwnerInv, Holding, PastSlot
<1> QED BY <1>3, <1>4

LEMMA OwnerRunStep ==
  ASSUME TypeOK, OwnerInv, NEW r \in Runs, RunStep(r) \/ Commit(r) \/ MonitorHits(r)
  PROVE  OwnerInv'
<1>0. slot # NoRun => slot \in Runs BY DEF TypeOK
<1>1. \A q \in Runs : q # r => pc'[q] = pc[q] /\ forced'[q] = forced[q] BY RunFrame
<1>2. CASE Ending(r)
  <2>1. slot' = IF slot = r THEN NoRun ELSE slot BY <1>2, EndingFrame DEF Leave
  <2>2. pc'[r] # "line" BY <1>2, EndingFrame
  <2> QED BY <1>0, <1>1, <2>1, <2>2 DEF OwnerInv, Holding
<1>3. CASE Begin(r) BY <1>1, <1>3, OwnerBegin DEF Begin
<1>4. CASE AcquireSlot(r)
  <2>1. slot' = r /\ pc'[r] = "enter" /\ pc[r] = "line" /\ forced' = forced
    BY <1>4 DEF AcquireSlot, FirstInLine, TypeOK
  <2> QED BY <1>1, <2>1 DEF OwnerInv, Holding, PastSlot
<1>5. CASE \/ EnterGate(r) \/ StartForced(r) \/ PassGate(r) \/ Return(r)
           \/ GiveUp(r) \/ Interrupt(r) \/ Commit(r) \/ MonitorHits(r)
  <2>1. UNCHANGED slot /\ forced'[r] = forced[r]
    BY <1>5 DEF EnterGate, StartForced, PassGate, Start, Return, GiveUp,
                Interrupt, Commit, MonitorHits, memVars
  <2>2. (Holding(r) => Holding(r)') /\ pc'[r] # "line"
    BY <1>5, <2>1 DEF EnterGate, StartForced, PassGate, Start, Return, GiveUp,
                      Interrupt, Commit, MonitorHits, Holding, PastSlot, TypeOK
  <2>3. \A q \in Runs : slot = q /\ Holding(q) => Holding(q)' BY <1>1, <2>2 DEF Holding
  <2> QED BY <1>1, <2>1, <2>2, <2>3, OwnerKept
<1> QED BY <1>2, <1>3, <1>4, <1>5 DEF RunStep, Ending

LEMMA OwnerCreate ==
  ASSUME TypeOK, OwnerInv, NEW ts \in SUBSET Tasks, NEW b, Create(ts, b), UNCHANGED slot
  PROVE  OwnerInv'
<1>1. \A r \in Runs : slot = r /\ Holding(r) => Holding(r)'
  BY CreateFrame DEF Holding, PastSlot
<1>2. \A r \in Runs : pc'[r] = "line" => pc[r] = "line" /\ forced'[r] = forced[r]
  BY CreateFrame
<1> QED BY <1>1, <1>2, OwnerKept

LEMMA OwnerTaskStep ==
  ASSUME TypeOK, OwnerInv, NEW t \in Tasks, TaskStep(t)
  PROVE  OwnerInv'
<1>1. CASE UNCHANGED <<slot, pc, forced>> BY <1>1, OwnerKept DEF Holding
<1>2. CASE RunChained(t) /\ t \notin executing
  <2>1. Fresh(t) \in Runs /\ BeginAs(Fresh(t)) /\ pc[Fresh(t)] = "idle"
    BY <1>2, FreshFacts DEF RunChained, Live
  <2>2. \A q \in Runs : q # Fresh(t) => forced'[q] = forced[q]
    BY <1>2 DEF RunChained, TypeOK
  <2> QED BY <2>1, <2>2, OwnerBegin
<1>3. ASSUME NEW b, Create({t}, b), UNCHANGED slot PROVE OwnerInv'
  BY <1>3, OwnerCreate
<1>4. CASE RunTaskNow(t) \/ ForceRun(t) \/ HandleEvent(t)
  BY <1>1, <1>3, <1>4 DEF RunTaskNow, ForceRun, HandleEvent, memVars, runVars
<1>5. CASE Clock(t) \/ Pause(t) \/ Resume(t) \/ StopTask(t)
           \/ (RunChained(t) /\ t \in executing)
  BY <1>1, <1>5 DEF Clock, Pause, Resume, StopTask, RunChained, runVars, memVars
<1> QED BY <1>2, <1>4, <1>5 DEF TaskStep

LEMMA OwnerOther ==
  ASSUME TypeOK, OwnerInv, \/ CheckDueTasks \/ StopBackground \/ Foreground
                           \/ Crash \/ Restart \/ UNCHANGED vars
  PROVE  OwnerInv'
<1>1. CASE UNCHANGED <<slot, pc, forced>> BY <1>1, OwnerKept DEF Holding
<1>2. CASE CheckDueTasks
  <2>1. UNCHANGED slot /\ DueTasks \in SUBSET Tasks
    BY <1>2 DEF CheckDueTasks, DueTasks
  <2>2. CASE UNCHANGED runVars BY <1>1, <2>1, <2>2 DEF runVars
  <2>3. CASE Create(DueTasks, FALSE) BY <2>1, <2>3, OwnerCreate
  <2> QED BY <1>2, <2>2, <2>3 DEF CheckDueTasks
<1>3. CASE Crash BY <1>3 DEF Crash, OwnerInv
<1>4. CASE StopBackground \/ Foreground \/ Restart \/ UNCHANGED vars
  BY <1>1, <1>4 DEF StopBackground, Foreground, Restart, vars, runVars, memVars
<1> QED BY <1>2, <1>3, <1>4

\* In a list of runs; each is in it once.
In(s, r) == \E i \in DOMAIN s : s[i] = r
Once(s)  == \A i, j \in DOMAIN s : s[i] = s[j] => i = j

LEMMA AppendFacts ==
  ASSUME NEW s \in Seq(Runs), Once(s), NEW r \in Runs, ~In(s, r)
  PROVE  Once(Append(s, r)) /\ \A q \in Runs : In(Append(s, r), q) <=> In(s, q) \/ q = r
<1>1. PICK a : a = Append(s, r) OBVIOUS
<1>2. /\ DOMAIN a = 1 .. Len(s) + 1 /\ Len(s) \in Nat /\ DOMAIN s = 1 .. Len(s)
      /\ \A i \in 1 .. Len(s) : a[i] = s[i]
      /\ a[Len(s) + 1] = r
  BY <1>1
<1>3. \A i \in DOMAIN a : i \in DOMAIN s \/ i = Len(s) + 1 BY <1>2
<1>4. Once(a) BY <1>2, <1>3 DEF Once, In
<1>5. \A q \in Runs : In(a, q) => In(s, q) \/ q = r BY <1>2, <1>3 DEF In
<1>6. \A q \in Runs : In(s, q) => In(a, q)
  <2>1. \A i \in DOMAIN s : i \in DOMAIN a /\ a[i] = s[i] BY <1>2
  <2> QED BY <2>1 DEF In
<1>7. In(a, r) BY <1>2 DEF In
<1> QED BY <1>1, <1>4, <1>5, <1>6, <1>7

LEMMA WithoutFacts ==
  ASSUME NEW s \in Seq(Runs), Once(s), NEW r \in Runs
  PROVE  /\ Without(s, r) \in Seq(Runs) /\ Once(Without(s, r))
         /\ \A q \in Runs : In(Without(s, r), q) <=> In(s, q) /\ q # r
<1>0. Len(s) \in Nat /\ DOMAIN s = 1 .. Len(s) OBVIOUS
<1>1. CASE \E i \in 1..Len(s) : s[i] = r
  <2>1. PICK p \in 1..Len(s) : p = Position(s, r) /\ s[p] = r BY <1>1 DEF Position
  <2>2. PICK w : w = SubSeq(s, 1, p - 1) \o SubSeq(s, p + 1, Len(s)) OBVIOUS
  <2>3. Without(s, r) = w BY <1>1, <2>1, <2>2 DEF Without
  <2>4. PICK b : b = SubSeq(s, 1, p - 1) OBVIOUS
  <2>5. PICK c : c = SubSeq(s, p + 1, Len(s)) OBVIOUS
  <2>6. b \in Seq(Runs) /\ Len(b) = p - 1 /\ \A i \in 1 .. p - 1 : b[i] = s[i]
    BY <1>0, <2>1, <2>4
  <2>7. /\ c \in Seq(Runs) /\ Len(c) = Len(s) - p
        /\ \A i \in 1 .. Len(s) - p : c[i] = s[p + i]
    BY <1>0, <2>1, <2>5
  <2>8. /\ w \in Seq(Runs) /\ DOMAIN w = 1 .. Len(s) - 1
        /\ \A i \in 1 .. Len(s) - 1 : w[i] = IF i < p THEN s[i] ELSE s[i + 1]
    <3>1. w = b \o c BY <2>2, <2>4, <2>5
    <3>2. /\ w \in Seq(Runs) /\ Len(w) = Len(b) + Len(c)
          /\ \A i \in 1 .. Len(b) + Len(c) : w[i] = IF i <= Len(b) THEN b[i] ELSE c[i - Len(b)]
      BY <2>6, <2>7, <3>1, ConcatProperties
    <3>3. Len(b) + Len(c) = Len(s) - 1 BY <1>0, <2>1, <2>6, <2>7
    <3>4. ASSUME NEW i \in 1 .. Len(s) - 1, i < p PROVE w[i] = s[i]
      BY <1>0, <2>1, <2>6, <3>2, <3>3, <3>4
    <3>5. ASSUME NEW i \in 1 .. Len(s) - 1, ~(i < p) PROVE w[i] = s[i + 1]
      <4>1. i - (p - 1) \in 1 .. Len(s) - p /\ p + (i - (p - 1)) = i + 1 BY <1>0, <2>1, <3>5
      <4>2. w[i] = c[i - (p - 1)] BY <1>0, <2>1, <2>6, <3>2, <3>3, <3>5
      <4> QED BY <2>7, <4>1, <4>2
    <3> QED BY <3>2, <3>3, <3>4, <3>5
  <2>9. Once(w)
    <3> SUFFICES ASSUME NEW i \in DOMAIN w, NEW j \in DOMAIN w, w[i] = w[j] PROVE i = j
      BY DEF Once
    <3>1. \A x \in 1 .. Len(s), y \in 1 .. Len(s) : s[x] = s[y] => x = y BY <1>0 DEF Once
    <3> QED BY <1>0, <2>1, <2>8, <3>1
  <2>10. \A q \in Runs : In(w, q) => In(s, q) /\ q # r
    <3> SUFFICES ASSUME NEW i \in DOMAIN w PROVE In(s, w[i]) /\ w[i] # r BY DEF In
    <3>1. PICK x \in 1 .. Len(s) : w[i] = s[x] /\ x # p BY <1>0, <2>1, <2>8
    <3> QED BY <1>0, <2>1, <3>1 DEF In, Once
  <2>11. \A q \in Runs : In(s, q) /\ q # r => In(w, q)
    <3> SUFFICES ASSUME NEW x \in DOMAIN s, s[x] # r PROVE In(w, s[x]) BY DEF In
    <3>1. CASE x < p
      <4>1. x \in DOMAIN w /\ w[x] = s[x] BY <1>0, <2>1, <2>8, <3>1
      <4> QED BY <4>1 DEF In
    <3>2. CASE x > p
      <4>1. x - 1 \in DOMAIN w /\ w[x - 1] = s[(x - 1) + 1] /\ (x - 1) + 1 = x
        BY <1>0, <2>1, <2>8, <3>2
      <4> QED BY <4>1 DEF In
    <3> QED BY <1>0, <2>1, <3>1, <3>2
  <2> QED BY <2>3, <2>8, <2>9, <2>10, <2>11
<1>2. CASE ~(\E i \in 1..Len(s) : s[i] = r) BY <1>0, <1>2 DEF Without, In
<1> QED BY <1>1, <1>2

\* The runs that began, in the order of their start: all that are not over, and those
\* whose rows do not say that they are.
BegunInv ==
  /\ Once(begun)
  /\ \A r \in Runs : pc[r] \notin {"idle", "created"} => In(begun, r)

LEMMA BegunKept ==
  ASSUME BegunInv, UNCHANGED begun,
         \A r \in Runs : pc[r] \in {"idle", "created"} => pc'[r] \in {"idle", "created"}
  PROVE  BegunInv'
BY DEF BegunInv, In, Once

\* A run is moved to the end.
LEMMA BegunLast ==
  ASSUME TypeOK, BegunInv, NEW r \in Runs, begun' = Append(Without(begun, r), r),
         \A q \in Runs : q # r => pc'[q] = pc[q]
  PROVE  BegunInv'
<1>1. /\ begun \in Seq(Runs) /\ Once(begun)
      /\ \A q \in Runs : pc[q] \notin {"idle", "created"} => In(begun, q)
  BY DEF BegunInv, TypeOK
<1>2. /\ Without(begun, r) \in Seq(Runs) /\ Once(Without(begun, r))
      /\ \A q \in Runs : In(Without(begun, r), q) <=> In(begun, q) /\ q # r
  BY <1>1, WithoutFacts
<1>3. ~In(Without(begun, r), r) BY <1>2
<1>4. /\ Once(begun')
      /\ \A q \in Runs : In(begun', q) <=> In(Without(begun, r), q) \/ q = r
  BY <1>2, <1>3, AppendFacts
<1>5. \A q \in Runs : pc'[q] \notin {"idle", "created"} => In(begun', q)
  BY <1>1, <1>2, <1>4
<1> QED BY <1>4, <1>5 DEF BegunInv, In, Once

LEMMA BegunBegin ==
  ASSUME TypeOK, BegunInv, NEW r \in Runs, BeginAs(r)
  PROVE  BegunInv'
BY BeginFrame, BegunLast

LEMMA BegunRunStep ==
  ASSUME TypeOK, BegunInv, NEW r \in Runs, RunStep(r) \/ Commit(r) \/ MonitorHits(r)
  PROVE  BegunInv'
<1>1. \A q \in Runs : q # r => pc'[q] = pc[q] BY RunFrame
<1>2. CASE Ending(r)
  <2>1. begun' \in {begun, Without(begun, r)} /\ pc'[r] = "idle"
    BY <1>2, EndingFrame DEF Leave
  <2>2. CASE UNCHANGED begun BY <1>1, <2>1, <2>2, BegunKept
  <2>3. CASE begun' = Without(begun, r)
    <3>1. begun \in Seq(Runs) /\ Once(begun) BY DEF BegunInv, TypeOK
    <3>2. /\ Once(begun')
          /\ \A q \in Runs : In(begun', q) <=> In(begun, q) /\ q # r
      BY <2>3, <3>1, WithoutFacts
    <3> QED BY <1>1, <2>1, <3>2 DEF BegunInv, In, Once
  <2> QED BY <2>1, <2>2, <2>3
<1>3. CASE Begin(r) BY <1>3, BegunBegin DEF Begin
<1>4. CASE StartForced(r) \/ PassGate(r)
  <2>1. begun' = Append(Without(begun, r), r) BY <1>4 DEF StartForced, PassGate, Start
  <2> QED BY <1>1, <2>1, BegunLast
<1>5. CASE \/ AcquireSlot(r) \/ EnterGate(r) \/ Return(r)
           \/ GiveUp(r) \/ Interrupt(r) \/ Commit(r) \/ MonitorHits(r)
  <2>1. UNCHANGED begun /\ pc[r] \notin {"idle", "created"}
    BY <1>5 DEF AcquireSlot, FirstInLine, EnterGate, Return, GiveUp, Interrupt, Commit,
                MonitorHits
  <2> QED BY <1>1, <2>1, BegunKept
<1> QED BY <1>2, <1>3, <1>4, <1>5 DEF RunStep, Ending

LEMMA BegunCreate ==
  ASSUME TypeOK, BegunInv, NEW ts \in SUBSET Tasks, NEW b, Create(ts, b)
  PROVE  BegunInv'
<1>1. UNCHANGED begun BY DEF Create
<1>2. \A r \in Runs : pc[r] \in {"idle", "created"} => pc'[r] \in {"idle", "created"}
  BY CreateFrame
<1> QED BY <1>1, <1>2, BegunKept

LEMMA BegunTaskStep ==
  ASSUME TypeOK, BegunInv, NEW t \in Tasks, TaskStep(t)
  PROVE  BegunInv'
<1>1. CASE UNCHANGED <<begun, pc>> BY <1>1, BegunKept
<1>2. CASE RunChained(t) /\ t \notin executing
  <2>1. Fresh(t) \in Runs /\ BeginAs(Fresh(t)) BY <1>2, FreshFacts DEF RunChained
  <2> QED BY <2>1, BegunBegin
<1>3. ASSUME NEW b, Create({t}, b) PROVE BegunInv' BY <1>3, BegunCreate
<1>4. CASE RunTaskNow(t) \/ ForceRun(t) \/ HandleEvent(t)
  BY <1>1, <1>3, <1>4 DEF RunTaskNow, ForceRun, HandleEvent, runVars
<1>5. CASE Clock(t) \/ Pause(t) \/ Resume(t) \/ StopTask(t)
           \/ (RunChained(t) /\ t \in executing)
  BY <1>1, <1>5 DEF Clock, Pause, Resume, StopTask, RunChained, runVars
<1> QED BY <1>2, <1>4, <1>5 DEF TaskStep

\* While the server is down there are no runs.
LEMMA BegunOther ==
  ASSUME TypeOK, BegunInv, RowInv, \/ CheckDueTasks \/ StopBackground \/ Foreground
                                   \/ Crash \/ Restart \/ UNCHANGED vars
  PROVE  BegunInv'
<1>1. CASE UNCHANGED <<begun, pc>> BY <1>1, BegunKept
<1>2. CASE CheckDueTasks
  <2>1. DueTasks \in SUBSET Tasks BY DEF DueTasks
  <2>2. CASE UNCHANGED runVars BY <1>1, <2>2 DEF runVars
  <2>3. CASE Create(DueTasks, FALSE) BY <2>1, <2>3, BegunCreate
  <2> QED BY <1>2, <2>2, <2>3 DEF CheckDueTasks
<1>3. CASE Crash BY <1>3 DEF Crash, BegunInv, Once, In
<1>4. CASE StopBackground \/ Foreground \/ UNCHANGED vars
  BY <1>1, <1>4 DEF StopBackground, Foreground, vars, runVars
<1>5. CASE Restart
  <2>1. /\ begun' \in {begun, <<>>} /\ UNCHANGED pc
        /\ \A r \in Runs : pc[r] = "idle"
    BY <1>5 DEF Restart, RowInv
  <2> QED BY <2>1 DEF BegunInv, Once, In
<1> QED BY <1>2, <1>3, <1>4, <1>5

\* A set of numbers that is not empty has a least one.
LEMMA LeastOf ==
  ASSUME NEW T, T \subseteq Nat, T # {}
  PROVE  \E i \in T : \A k \in T : i <= k
<1>1. PICK i \in T : \A k \in T : ~ (<<k, i>> \in OpToRel(<, Nat))
  BY NatLessThanWellFounded, WFMin
<1>2. ASSUME NEW k \in T PROVE i <= k
  <2>1. k \in Nat /\ i \in Nat /\ <<k, i>> \in Nat \X Nat OBVIOUS
  <2>2. k < i => <<k, i>> \in OpToRel(<, Nat) BY <2>1 DEF OpToRel
  <2>3. ~(k < i) BY <1>1, <2>2
  <2> QED BY <2>1, <2>3
<1> QED BY <1>2

\* Of the runs that wait one began first.
LEMMA LineHasFirst ==
  ASSUME TypeOK, BegunInv, NEW w \in Runs, pc[w] = "line"
  PROVE  \E r \in Runs : FirstInLine(r)
<1> DEFINE T == {i \in DOMAIN begun : pc[begun[i]] = "line"}
<1>1. begun \in Seq(Runs) /\ DOMAIN begun \subseteq Nat /\ Once(begun) BY DEF TypeOK, BegunInv
<1>2. T \subseteq Nat /\ T # {} BY <1>1 DEF BegunInv, In
<1>3. PICK i \in T : \A k \in T : i <= k
  <2> HIDE DEF T
  <2> QED BY <1>2, LeastOf
<1>4. begun[i] \in Runs /\ pc[begun[i]] = "line" BY <1>1
<1>5. FirstInLine(begun[i])
  <2>1. \A j \in DOMAIN begun : begun[j] = begun[i] => j = i BY <1>1, <1>3 DEF Once
  <2> QED BY <1>3, <1>4, <2>1 DEF FirstInLine
<1> HIDE DEF T
<1> QED BY <1>4, <1>5

\* The runs that use the model do so one at a time, except those the user forces; the
\* slot is never lost, and of the runs that wait for it one is first.
THEOREM OneAtATime == Spec => []OneModelRun
<1>1. TypeOK /\ SlotInv /\ [Next]_vars => SlotInv'
  BY SlotTaskStep, SlotRunStep, SlotOther DEF Next
<1>2. TypeOK /\ OwnerInv /\ [Next]_vars => OwnerInv'
  BY OwnerTaskStep, OwnerRunStep, OwnerOther DEF Next
<1>3. TypeOK /\ RowInv /\ BegunInv /\ [Next]_vars => BegunInv'
  BY BegunTaskStep, BegunRunStep, BegunOther DEF Next
<1>4. Init => OwnerInv /\ BegunInv
  BY DEF Init, OwnerInv, BegunInv, In, Once
<1>5. TypeOK /\ SlotInv /\ OwnerInv /\ BegunInv => OneModelRun
  <2> SUFFICES ASSUME TypeOK, SlotInv, OwnerInv, BegunInv PROVE OneModelRun OBVIOUS
  <2>1. \A r, q \in {x \in Runs : Of(x) \in NeedsSlot /\ ~forced[x]} :
          pc[r] \in PastSlot /\ pc[q] \in PastSlot => r = q
    BY DEF SlotInv, Holding
  <2>2. slot # NoRun => pc[slot] \in PastSlot /\ ~forced[slot] BY DEF OwnerInv, Holding
  <2> QED BY <2>1, <2>2, LineHasFirst DEF OneModelRun
<1> QED BY <1>1, <1>2, <1>3, <1>4, <1>5, SlotInit, RowInvariant, TypeCorrect, PTL DEF Spec

-----------------------------------------------------------------------------
(* Membership of _executing, and double dispatch. *)

\* A coroutine that is to take its task out of _executing.
Dispatched(r) == Live(r) /\ ~forced[r]

\* Before its first stop, a task with a dispatched run is in _executing, which
\* keeps a second run from being dispatched.
DispatchInv ==
  /\ \A t \in executing : \E r \in RunsOf(t) : Dispatched(r)
  /\ \A t \in Tasks : \/ stopped[t]
                      \/ /\ \A r \in RunsOf(t) : Dispatched(r) => t \in executing
                         /\ \A r, q \in RunsOf(t) : Dispatched(r) /\ Dispatched(q) => r = q

LEMMA DispatchInit == Init => DispatchInv
BY RunFacts DEF Init, DispatchInv, Dispatched, Live

LEMMA DispatchKept ==
  ASSUME DispatchInv, UNCHANGED <<executing, stopped>>,
         \A r \in Runs : Dispatched(r)' <=> Dispatched(r),
         executing \subseteq Tasks
  PROVE  DispatchInv'
BY RunFacts DEF DispatchInv

\* New runs of tasks that were not in _executing.
LEMMA DispatchNew ==
  ASSUME DispatchInv, executing \subseteq Tasks, NEW ts \in SUBSET Tasks,
         ts \cap executing = {}, executing' = executing \cup ts, UNCHANGED stopped,
         NEW F, \A t \in ts : F[t] \in RunsOf(t),
         \A r \in Runs : Dispatched(r)' <=> Dispatched(r) \/ (Of(r) \in ts /\ r = F[Of(r)])
  PROVE  DispatchInv'
<1>1. ASSUME NEW t \in executing' PROVE \E r \in RunsOf(t) : Dispatched(r)'
  <2>1. CASE t \in ts BY <2>1, RunFacts
  <2>2. CASE t \in executing
    <3>1. PICK r \in RunsOf(t) : Dispatched(r) BY <2>2 DEF DispatchInv
    <3> QED BY <2>2, <3>1, RunFacts
  <2> QED BY <1>1, <2>1, <2>2
<1>2. ASSUME NEW t \in Tasks, ~stopped'[t]
      PROVE  /\ \A r \in RunsOf(t) : Dispatched(r)' => t \in executing'
             /\ \A r, q \in RunsOf(t) : Dispatched(r)' /\ Dispatched(q)' => r = q
  <2>1. CASE t \in ts
    <3>1. \A r \in RunsOf(t) : ~Dispatched(r) BY <1>2, <2>1 DEF DispatchInv
    <3> QED BY <2>1, <3>1, RunFacts
  <2>2. CASE t \notin ts BY <1>2, <2>2, RunFacts DEF DispatchInv
  <2> QED BY <2>1, <2>2
<1> QED BY <1>1, <1>2 DEF DispatchInv

LEMMA DispatchCreate ==
  ASSUME TypeOK, DispatchInv, NEW ts \in SUBSET Tasks, Create(ts, FALSE),
         ts \cap executing = {}, executing' = executing \cup ts, UNCHANGED stopped
  PROVE  DispatchInv'
<1>1. executing \subseteq Tasks BY DEF TypeOK
<1>2. \A t \in ts : Fresh(t) \in RunsOf(t) BY CreateFrame
<1>3. ASSUME NEW r \in Runs
      PROVE  Dispatched(r)' <=> Dispatched(r) \/ (Of(r) \in ts /\ r = Fresh(Of(r)))
  <2>1. \/ pc'[r] = pc[r] /\ forced'[r] = forced[r] /\ r # Fresh(Of(r))
        \/ pc'[r] = pc[r] /\ forced'[r] = forced[r] /\ Of(r) \notin ts
        \/ /\ r = Fresh(Of(r)) /\ Of(r) \in ts
           /\ pc[r] = "idle" /\ pc'[r] = "created" /\ forced'[r] = FALSE
    BY CreateFrame, ZenonT(60)
  <2> QED BY <2>1 DEF Dispatched, Live
<1>4. PICK F : F = [t \in ts |-> Fresh(t)] OBVIOUS
<1>5. /\ \A t \in ts : F[t] \in RunsOf(t)
      /\ \A r \in Runs : Dispatched(r)' <=> Dispatched(r) \/ (Of(r) \in ts /\ r = F[Of(r)])
  BY <1>2, <1>3, <1>4
<1> QED BY <1>1, <1>5, DispatchNew

LEMMA DispatchRunStep ==
  ASSUME TypeOK, DispatchInv, NEW r \in Runs,
         RunStep(r) \/ Commit(r) \/ MonitorHits(r)
  PROVE  DispatchInv'
<1>0. executing \subseteq Tasks BY DEF TypeOK
<1>1. \A q \in Runs : q # r => pc'[q] = pc[q] /\ forced'[q] = forced[q]
  BY RunFrame
<1>2. CASE Ending(r)
  <2>1. /\ Leave(r) /\ ~Dispatched(r)' /\ UNCHANGED stopped /\ Live(r)
    BY <1>2, EndingFrame DEF Dispatched, Live
  <2>2. \A q \in Runs : q # r => (Dispatched(q)' <=> Dispatched(q))
    BY <1>1 DEF Dispatched, Live
  <2>3. executing' = IF forced[r] THEN executing ELSE executing \ {Of(r)}
    BY <2>1 DEF Leave, Release
  <2>4. ASSUME NEW t \in executing' PROVE \E q \in RunsOf(t) : Dispatched(q)'
    <3>1. PICK q \in RunsOf(t) : Dispatched(q) BY <2>3, <2>4 DEF DispatchInv
    <3>2. t \in Tasks /\ q \in Runs /\ Of(q) = t BY <1>0, <2>3, <2>4, RunFacts
    <3>3. q # r BY <2>3, <2>4, <3>1, <3>2 DEF Dispatched
    <3> QED BY <2>2, <3>1, <3>2, <3>3
  <2>5. ASSUME NEW t \in Tasks, ~stopped'[t]
        PROVE  /\ \A q \in RunsOf(t) : Dispatched(q)' => t \in executing'
               /\ \A x, q \in RunsOf(t) : Dispatched(x)' /\ Dispatched(q)' => x = q
    <3>1. \A q \in RunsOf(t) : Dispatched(q)' => Dispatched(q) /\ q # r
      BY <2>1, <2>2, RunFacts
    <3>2. ~stopped[t] BY <2>1, <2>5
    <3>3. ASSUME NEW q \in RunsOf(t), Dispatched(q)' PROVE t \in executing'
      <4>1. t \in executing /\ Dispatched(q) /\ q # r
        BY <3>1, <3>2, <3>3 DEF DispatchInv
      <4>2. CASE forced[r] BY <2>3, <4>1, <4>2
      <4>3. CASE ~forced[r]
        <5>1. Dispatched(r) BY <2>1, <4>3 DEF Dispatched
        <5>2. Of(r) # t BY <3>2, <4>1, <5>1, RunFacts DEF DispatchInv
        <5> QED BY <2>3, <4>1, <5>2
      <4> QED BY <4>2, <4>3
    <3> QED BY <3>1, <3>2, <3>3 DEF DispatchInv
  <2> QED BY <2>4, <2>5 DEF DispatchInv
<1>3. CASE ~Ending(r)
  <2>1. UNCHANGED <<executing, stopped>> /\ forced'[r] = forced[r]
    BY <1>3 DEF RunStep, Ending, Begin, AcquireSlot, EnterGate, StartForced,
                PassGate, Start, Return, GiveUp, Interrupt, Commit, MonitorHits,
                memVars, histVars
  <2>2. Live(r)' /\ Live(r)
    <3>1. CASE Begin(r)
      <4>1. BeginAs(r) /\ pc[r] = "created" BY <3>1 DEF Begin
      <4>2. pc'[r] \in {"enter", "line", "failing"} BY <4>1, BeginFrame
      <4> QED BY <4>1, <4>2 DEF Live
    <3>2. CASE ~Begin(r)
      BY <1>3, <3>2 DEF RunStep, Ending, AcquireSlot, FirstInLine, EnterGate,
                        StartForced, PassGate, Start, Return, GiveUp, Interrupt, Commit,
                        MonitorHits, Live, TypeOK
    <3> QED BY <3>1, <3>2
  <2>3. \A q \in Runs : Dispatched(q)' <=> Dispatched(q)
    BY <1>1, <2>1, <2>2 DEF Dispatched, Live
  <2> QED BY <1>0, <2>1, <2>3, DispatchKept
<1> QED BY <1>2, <1>3

LEMMA DispatchTaskStep ==
  ASSUME TypeOK, DispatchInv, NEW t \in Tasks, TaskStep(t)
  PROVE  DispatchInv'
<1>0. executing \subseteq Tasks BY DEF TypeOK
<1>1. ASSUME UNCHANGED <<executing, stopped, pc, forced>> PROVE DispatchInv'
  BY <1>0, <1>1, DispatchKept DEF Dispatched, Live
<1>2. CASE Clock(t) \/ Pause(t) \/ Resume(t)
  BY <1>1, <1>2 DEF Clock, Pause, Resume, runVars, memVars, histVars
<1>3. CASE RunChained(t)
  <2>1. CASE t \in executing
    BY <1>1, <1>3, <2>1 DEF RunChained, runVars, histVars
  <2>2. CASE t \notin executing
    <3>1. /\ Fresh(t) \in RunsOf(t) /\ Fresh(t) \in Runs /\ ~Live(Fresh(t))
          /\ BeginAs(Fresh(t)) /\ executing' = executing \cup {t}
          /\ forced' = [forced EXCEPT ![Fresh(t)] = FALSE] /\ UNCHANGED stopped
      BY <1>3, <2>2, FreshFacts DEF RunChained, histVars
    <3>2. /\ pc'[Fresh(t)] # "idle" /\ ~forced'[Fresh(t)]
          /\ \A q \in Runs : q # Fresh(t) => pc'[q] = pc[q] /\ forced'[q] = forced[q]
      <4>1. /\ pc'[Fresh(t)] \in {"enter", "line", "failing"}
            /\ \A q \in Runs : q # Fresh(t) => pc'[q] = pc[q]
        BY <3>1, BeginFrame
      <4> QED BY <3>1, <4>1 DEF TypeOK
    <3>3. PICK F : F = [x \in {t} |-> Fresh(t)] OBVIOUS
    <3>4. \A r \in Runs : Dispatched(r)' <=> Dispatched(r) \/ (Of(r) \in {t} /\ r = F[Of(r)])
      BY <3>1, <3>2, <3>3, FreshFacts, RunFacts DEF Dispatched, Live
    <3>5. \A x \in {t} : F[x] \in RunsOf(x) BY <3>1, <3>3
    <3>6. {t} \in SUBSET Tasks /\ {t} \cap executing = {} BY <2>2
    <3> DEFINE ts == {t}
    <3> HIDE DEF ts
    <3>7. /\ ts \in SUBSET Tasks /\ ts \cap executing = {}
          /\ executing' = executing \cup ts /\ \A x \in ts : F[x] \in RunsOf(x)
          /\ \A r \in Runs : Dispatched(r)' <=> Dispatched(r) \/ (Of(r) \in ts /\ r = F[Of(r)])
      BY <3>1, <3>4, <3>5, <3>6 DEF ts
    <3> QED BY <1>0, <3>1, <3>7, DispatchNew
  <2> QED BY <2>1, <2>2
<1>4. CASE RunTaskNow(t)
  <2>1. /\ Create({t}, FALSE) /\ {t} \cap executing = {}
        /\ executing' = executing \cup {t} /\ UNCHANGED stopped
    BY <1>4 DEF RunTaskNow, histVars
  <2> QED BY <2>1, DispatchCreate
<1>5. CASE HandleEvent(t)
  <2>1. UNCHANGED stopped BY <1>5 DEF HandleEvent
  <2>2. CASE UNCHANGED <<executing, runVars>> BY <1>1, <2>1, <2>2 DEF runVars
  <2>3. CASE ~UNCHANGED <<executing, runVars>>
    <3>1. /\ Create({t}, FALSE) /\ {t} \cap executing = {}
          /\ executing' = executing \cup {t}
      BY <1>5, <2>3 DEF HandleEvent
    <3> QED BY <2>1, <3>1, DispatchCreate
  <2> QED BY <2>2, <2>3
<1>6. CASE ForceRun(t)
  <2>1. Create({t}, TRUE) /\ UNCHANGED <<executing, stopped>>
    BY <1>6 DEF ForceRun, memVars, histVars
  <2>2. ASSUME NEW r \in Runs PROVE Dispatched(r)' <=> Dispatched(r)
    <3>1. \/ pc'[r] = pc[r] /\ forced'[r] = forced[r]
          \/ pc[r] = "idle" /\ forced'[r] = TRUE
      BY <2>1, CreateFrame
    <3> QED BY <3>1 DEF Dispatched, Live
  <2> QED BY <1>0, <2>1, <2>2, DispatchKept
<1>7. CASE StopTask(t)
  <2>1. /\ executing' = executing \ {t} /\ UNCHANGED <<pc, forced>>
        /\ stopped' = [stopped EXCEPT ![t] = @ \/ t \in executing]
    BY <1>7 DEF StopTask
  <2>2. \A x \in Tasks : ~stopped'[x] => ~stopped[x] /\ (x \in executing => x # t)
    BY <2>1 DEF TypeOK
  <2>3. \A r : Dispatched(r)' <=> Dispatched(r) BY <2>1 DEF Dispatched, Live
  <2>4. ASSUME NEW x \in Tasks, ~stopped'[x]
        PROVE  /\ \A q \in RunsOf(x) : Dispatched(q)' => x \in executing'
               /\ \A y, q \in RunsOf(x) : Dispatched(y)' /\ Dispatched(q)' => y = q
    BY <2>1, <2>2, <2>3, <2>4 DEF DispatchInv
  <2> QED BY <2>1, <2>3, <2>4 DEF DispatchInv
<1> QED BY <1>2, <1>3, <1>4, <1>5, <1>6, <1>7 DEF TaskStep

LEMMA DispatchOther ==
  ASSUME TypeOK, DispatchInv, \/ CheckDueTasks \/ StopBackground \/ Foreground
                              \/ Crash \/ Restart \/ UNCHANGED vars
  PROVE  DispatchInv'
<1>0. executing \subseteq Tasks BY DEF TypeOK
<1>1. ASSUME UNCHANGED <<executing, stopped, pc, forced>> PROVE DispatchInv'
  BY <1>0, <1>1, DispatchKept DEF Dispatched, Live
<1>2. CASE CheckDueTasks
  <2>1. /\ UNCHANGED stopped /\ DueTasks \in SUBSET Tasks
        /\ DueTasks \cap executing = {}
    BY <1>2 DEF CheckDueTasks, DueTasks, histVars
  <2>2. CASE UNCHANGED <<executing, runVars>> BY <1>1, <2>1, <2>2 DEF runVars
  <2>3. CASE Create(DueTasks, FALSE) /\ executing' = executing \cup DueTasks
    BY <2>1, <2>3, DispatchCreate
  <2> QED BY <1>2, <2>2, <2>3 DEF CheckDueTasks
<1>3. CASE Crash
  <2>1. /\ executing' = {} /\ \A r \in Runs : ~Dispatched(r)'
    BY <1>3 DEF Crash, Dispatched, Live
  <2> QED BY <2>1, RunFacts DEF DispatchInv
<1>4. CASE StopBackground \/ Foreground \/ Restart \/ UNCHANGED vars
  BY <1>1, <1>4 DEF StopBackground, Foreground, Restart, vars, runVars, memVars, histVars
<1> QED BY <1>2, <1>3, <1>4

LEMMA DispatchInvariant == Spec => []DispatchInv
<1>1. TypeOK /\ DispatchInv /\ [Next]_vars => DispatchInv'
  BY DispatchTaskStep, DispatchRunStep, DispatchOther DEF Next
<1> QED BY <1>1, DispatchInit, TypeCorrect, PTL DEF Spec

\* A task in _executing has a run that will take it out again.
THEOREM MembershipHeld == Spec => []MembershipIsHeld
<1>1. DispatchInv => MembershipIsHeld
  BY DEF DispatchInv, MembershipIsHeld, Dispatched
<1> QED BY <1>1, DispatchInvariant, PTL

\* Two dispatched runs of a task live together only after a stop_task().
THEOREM NoDoubleBeforeStop == Spec => []DoubleOnlyAfterStop
<1>1. DispatchInv => DoubleOnlyAfterStop
  BY DEF DispatchInv, DoubleOnlyAfterStop, Dispatched
<1> QED BY <1>1, DispatchInvariant, PTL

-----------------------------------------------------------------------------
(* Triggers are kept. *)

\* A trigger that no run has answered: no run of the task is at work, and an
\* active task is due.
Waits(t) == /\ \A r \in RunsOf(t) : ~Started(r)
            /\ status[t] = "active" => due[t] \in {"due", "soon"}

OwedInv == \A t \in Tasks : owed[t] = "yes" => Waits(t)

LEMMA OwedInit == Init => OwedInv
BY DEF Init, OwedInv

\* No run starts; a task that is owed a run stays due while it stays active.
LEMMA OwedKept ==
  ASSUME OwedInv, \A r \in Runs : Started(r)' => Started(r),
         \A t \in Tasks : owed'[t] = "yes" => owed[t] = "yes",
         \A t \in Tasks : owed'[t] = "yes" =>
           \/ status'[t] # "active"
           \/ status'[t] = status[t] /\ due'[t] = due[t]
           \/ due'[t] \in {"due", "soon"}
  PROVE  OwedInv'
BY RunFacts DEF OwedInv, Waits

LEMMA OwedStart ==
  ASSUME TypeOK, OwedInv, NEW r \in Runs, Start(r)
  PROVE  OwedInv'
<1>1. /\ Of(r) \in Tasks /\ owed' = [owed EXCEPT ![Of(r)] = "no"]
      /\ UNCHANGED <<status, due>> /\ pc' = [pc EXCEPT ![r] = "run"]
  BY RunFacts DEF Start, taskVars
<1> SUFFICES ASSUME NEW t \in Tasks, owed'[t] = "yes" PROVE Waits(t)'
  BY DEF OwedInv
<1>2. t # Of(r) /\ owed[t] = "yes" BY <1>1 DEF TypeOK
<1>3. Waits(t) BY <1>2 DEF OwedInv
<1>4. \A q \in RunsOf(t) : q # r /\ q \in Runs BY <1>2, RunFacts
<1>5. \A q \in RunsOf(t) : pc'[q] = pc[q] BY <1>1, <1>4 DEF TypeOK
<1> QED BY <1>1, <1>3, <1>5 DEF Waits, Started

LEMMA OwedRunStep ==
  ASSUME TypeOK, OwedInv, NEW r \in Runs, RunStep(r) \/ Commit(r) \/ MonitorHits(r)
  PROVE  OwedInv'
<1>0. Of(r) \in Tasks /\ r \in RunsOf(Of(r)) BY RunFacts
<1>1. \A q \in Runs : q # r => pc'[q] = pc[q] BY RunFrame
<1>2. CASE StartForced(r) \/ PassGate(r)
  BY <1>2, OwedStart DEF StartForced, PassGate
<1>3. CASE ~(StartForced(r) \/ PassGate(r))
  <2>1. owed' \in {owed, [owed EXCEPT ![Of(r)] = "no"]}
    <3>1. CASE Ending(r) BY <3>1, EndingWrites
    <3>2. CASE ~Ending(r)
      BY <1>3, <3>2 DEF RunStep, Ending, Begin, AcquireSlot, EnterGate, Return, GiveUp,
                        Interrupt, Commit, MonitorHits, histVars
    <3> QED BY <3>1, <3>2
  <2>2. \A t \in Tasks : owed'[t] = "yes" => owed[t] = "yes" BY <2>1 DEF TypeOK
  <2>3. Started(r)' => Started(r)
    <3>1. CASE Ending(r)
      <4>1. pc'[r] = "idle" BY <3>1, EndingFrame
      <4> QED BY <4>1 DEF Started
    <3>2. CASE Begin(r)
      <4>1. pc'[r] \in {"enter", "line", "failing"} BY <3>2, BeginFrame DEF Begin
      <4> QED BY <4>1 DEF Started
    <3>3. CASE ~Ending(r) /\ ~Begin(r)
      BY <1>3, <3>3 DEF RunStep, Ending, AcquireSlot, EnterGate, Return, GiveUp,
                        Interrupt, Commit, MonitorHits, Started, TypeOK
    <3> QED BY <3>1, <3>2, <3>3
  <2>4. \A q \in Runs : Started(q)' => Started(q) BY <1>1, <2>3 DEF Started
  <2>5. ASSUME NEW t \in Tasks, owed'[t] = "yes"
        PROVE  \/ status'[t] # "active"
               \/ status'[t] = status[t] /\ due'[t] = due[t]
               \/ due'[t] \in {"due", "soon"}
    <3>1. CASE \/ Begin(r) \/ AcquireSlot(r) \/ SkipInactive(r) \/ EnterGate(r)
               \/ Return(r) \/ Depart(r) \/ Abandon(r) \/ Commit(r) \/ MonitorHits(r)
      BY <3>1 DEF Begin, AcquireSlot, SkipInactive, EnterGate, Return, Depart,
                  Abandon, Commit, MonitorHits, taskVars
    <3>2. CASE RefuseNonAdmin(r)
      BY <1>0, <3>2 DEF RefuseNonAdmin, TypeOK
    <3>3. CASE CancelQueued(r)
      <4>1. status' = status /\ due' \in {due, [due EXCEPT ![Of(r)] = DeferredIfDue(Of(r))]}
        BY <3>3 DEF CancelQueued
      <4> QED BY <1>0, <4>1 DEF DeferredIfDue, TypeOK
    <3>4. CASE Raise(r)
      <4>1. /\ status' = status
            /\ \/ /\ ErrorRecorded(r)
                  /\ owed' = IF trigger[Of(r)] = "event" THEN owed
                                                        ELSE [owed EXCEPT ![Of(r)] = "no"]
               \/ ErrorRecovered(r) \/ ErrorLost
        BY <3>4 DEF Raise
      <4>2. CASE t = Of(r)
        <5>1. CASE ErrorRecorded(r) /\ trigger[t] = "event"
          BY <1>0, <4>1, <4>2, <5>1 DEF ErrorRecorded, TypeOK
        <5>2. CASE ErrorRecovered(r)
          BY <1>0, <4>1, <4>2, <5>2 DEF ErrorRecovered, TypeOK
        <5>3. CASE ErrorLost BY <4>1, <5>3 DEF ErrorLost
        <5>4. trigger[t] # "event" /\ owed' = [owed EXCEPT ![t] = "no"] => FALSE
          BY <2>5 DEF TypeOK
        <5> QED BY <4>1, <4>2, <5>1, <5>2, <5>3, <5>4
      <4>3. CASE t # Of(r)
        BY <4>1, <4>3 DEF ErrorRecorded, ErrorRecovered, ErrorLost, TypeOK
      <4> QED BY <4>2, <4>3
    <3>5. CASE GiveUp(r) \/ Interrupt(r) \/ Complete(r) \/ RecordError(r)
      <4>1. Started(r)
        BY <3>5 DEF GiveUp, Interrupt, Complete, RecordError, Settled, Started
      <4>2. t # Of(r) BY <1>0, <2>2, <2>5, <4>1 DEF OwedInv, Waits
      <4>3. /\ \E d : due' = [due EXCEPT ![Of(r)] = d]
            /\ \E s : status' = [status EXCEPT ![Of(r)] = s]
        <5>1. due = [due EXCEPT ![Of(r)] = due[Of(r)]] BY DEF TypeOK
        <5>2. status = [status EXCEPT ![Of(r)] = status[Of(r)]] BY DEF TypeOK
        <5>3. CASE GiveUp(r) \/ Interrupt(r) BY <3>5, <5>1, <5>2, <5>3 DEF GiveUp, Interrupt
        <5>4. CASE Complete(r) BY <5>4 DEF Complete
        <5>5. CASE RecordError(r)
          BY <5>1, <5>2, <5>5 DEF RecordError, ErrorRecorded, ErrorRecovered, ErrorLost
        <5> QED BY <3>5, <5>3, <5>4, <5>5
      <4> QED BY <4>2, <4>3 DEF TypeOK
    <3> QED BY <1>3, <3>1, <3>2, <3>3, <3>4, <3>5 DEF RunStep
  <2> QED BY <2>2, <2>4, <2>5, OwedKept
<1> QED BY <1>2, <1>3

LEMMA OwedTaskStep ==
  ASSUME TypeOK, OwedInv, NEW t \in Tasks, TaskStep(t)
  PROVE  OwedInv'
<1>1. CASE Clock(t)
  <2>1. /\ UNCHANGED <<pc, status>> /\ due' = [due EXCEPT ![t] = "due"]
        /\ owed' = owed \/ owed' = [owed EXCEPT ![t] = Owe(t)]
    BY <1>1 DEF Clock, runVars
  <2>2. ASSUME NEW x \in Tasks, owed'[x] = "yes" PROVE Waits(x)'
    <3>1. CASE owed'[x] = owed[x]
      <4>1. Waits(x) BY <2>2, <3>1 DEF OwedInv
      <4> QED BY <2>1, <4>1 DEF Waits, Started, TypeOK
    <3>2. CASE owed'[x] # owed[x]
      <4>1. x = t /\ Owe(t) = "yes" BY <2>1, <2>2, <3>2 DEF TypeOK
      <4>2. \A r \in RunsOf(t) : ~Started(r) BY <4>1 DEF Owe
      <4> QED BY <2>1, <4>1, <4>2 DEF Waits, Started, TypeOK
    <3> QED BY <3>1, <3>2
  <2> QED BY <2>2 DEF OwedInv
<1>2. CASE HandleEvent(t)
  <2>1. \A r \in Runs : Started(r)' => Started(r)
    <3>1. UNCHANGED runVars \/ Create({t}, FALSE) BY <1>2 DEF HandleEvent
    <3>2. CASE UNCHANGED runVars BY <3>2 DEF runVars, Started
    <3>3. CASE Create({t}, FALSE) BY <3>3, CreateFrame DEF Started
    <3> QED BY <3>1, <3>2, <3>3
  <2>2. UNCHANGED status BY <1>2 DEF HandleEvent
  <2>3. CASE UNCHANGED <<due, owed>> BY <2>1, <2>2, <2>3, OwedKept
  <2>4. CASE ~UNCHANGED <<due, owed>>
    <3>1. /\ due' = [due EXCEPT ![t] = "due"] /\ owed' = [owed EXCEPT ![t] = Owe(t)]
      BY <1>2, <2>4 DEF HandleEvent, TriggerSaved
    <3>2. ASSUME NEW x \in Tasks, owed'[x] = "yes" PROVE Waits(x)'
      <4>1. CASE x = t
        <5>1. \A r \in RunsOf(t) : ~Started(r) BY <3>1, <3>2, <4>1 DEF Owe, TypeOK
        <5>2. \A r \in RunsOf(t) : ~Started(r)' BY <2>1, <5>1, RunFacts
        <5> QED BY <3>1, <4>1, <5>2 DEF Waits, TypeOK
      <4>2. CASE x # t
        <5>1. Waits(x) BY <3>1, <3>2, <4>2 DEF OwedInv, TypeOK
        <5>2. \A r \in RunsOf(x) : ~Started(r)' BY <2>1, <5>1, RunFacts DEF Waits
        <5> QED BY <2>2, <3>1, <4>2, <5>1, <5>2 DEF Waits, TypeOK
      <4> QED BY <4>1, <4>2
    <3> QED BY <3>2 DEF OwedInv
  <2> QED BY <2>3, <2>4
<1>3. CASE RunTaskNow(t) \/ ForceRun(t)
  <2>1. (\E b : Create({t}, b)) /\ UNCHANGED <<owed, status, due>>
    BY <1>3 DEF RunTaskNow, ForceRun, taskVars, histVars
  <2>2. \A r \in Runs : Started(r)' => Started(r)
    BY <2>1, CreateFrame DEF Started
  <2> QED BY <2>1, <2>2, OwedKept
<1>4. CASE RunChained(t)
  <2>1. UNCHANGED <<owed, status, due>> BY <1>4 DEF RunChained, taskVars, histVars
  <2>2. \A r \in Runs : Started(r)' => Started(r)
    <3>1. CASE UNCHANGED runVars BY <3>1 DEF runVars, Started
    <3>2. CASE ~UNCHANGED runVars
      <4>1. Fresh(t) \in Runs /\ BeginAs(Fresh(t))
        BY <1>4, <3>2, FreshFacts DEF RunChained
      <4>2. /\ pc'[Fresh(t)] \in {"enter", "line", "failing"}
            /\ \A q \in Runs : q # Fresh(t) => pc'[q] = pc[q]
        BY <4>1, BeginFrame
      <4> QED BY <4>2 DEF Started
    <3> QED BY <3>1, <3>2
  <2> QED BY <2>1, <2>2, OwedKept
<1>5. CASE StopTask(t) \/ Pause(t)
  BY <1>5, OwedKept DEF StopTask, Pause, taskVars, runVars, histVars, Started, TypeOK
<1>6. CASE Resume(t)
  <2>1. /\ owed' = [owed EXCEPT ![t] = "no"] /\ UNCHANGED pc
        /\ \A x \in Tasks : x # t => status'[x] = status[x] /\ due'[x] = due[x]
    BY <1>6 DEF Resume, runVars, TypeOK
  <2> QED BY <2>1 DEF OwedInv, Waits, Started, TypeOK
<1> QED BY <1>1, <1>2, <1>3, <1>4, <1>5, <1>6 DEF TaskStep

LEMMA OwedOther ==
  ASSUME TypeOK, OwedInv, \/ CheckDueTasks \/ StopBackground \/ Foreground
                          \/ Crash \/ Restart \/ UNCHANGED vars
  PROVE  OwedInv'
<1>1. CASE CheckDueTasks
  <2>1. UNCHANGED <<owed, status>> /\ DueTasks \in SUBSET Tasks
    BY <1>1 DEF CheckDueTasks, histVars, DueTasks
  <2>2. \A x \in Tasks : due'[x] = due[x] \/ due'[x] \in {"due", "soon"}
    BY <1>1 DEF CheckDueTasks
  <2>3. \A r \in Runs : Started(r)' => Started(r)
    <3>1. CASE UNCHANGED runVars BY <3>1 DEF runVars, Started
    <3>2. CASE Create(DueTasks, FALSE)
      BY <2>1, <3>2, CreateFrame DEF Started
    <3> QED BY <1>1, <3>1, <3>2 DEF CheckDueTasks
  <2> QED BY <2>1, <2>2, <2>3, OwedKept
<1>2. CASE StopBackground \/ Foreground \/ UNCHANGED vars
  BY <1>2, OwedKept DEF StopBackground, Foreground, vars, taskVars, runVars,
                        histVars, Started
<1>3. CASE Crash
  <2>1. UNCHANGED <<owed, status, due>> /\ \A r \in Runs : ~Started(r)'
    BY <1>3 DEF Crash, taskVars, histVars, Started
  <2> QED BY <2>1, OwedKept
<1>4. CASE Restart
  <2>1. UNCHANGED <<owed, status, pc>> BY <1>4 DEF Restart, histVars
  <2>2. \A x \in Tasks : due'[x] = due[x] \/ due'[x] = "soon"
    BY <1>4 DEF Restart, DeferredIfDue
  <2> QED BY <2>1, <2>2, OwedKept DEF Started
<1> QED BY <1>1, <1>2, <1>3, <1>4

\* A trigger that no run has answered keeps its task due.
THEOREM TriggersKept == Spec => []TriggerKept
<1>1. TypeOK /\ OwedInv /\ [Next]_vars => OwedInv'
  BY OwedTaskStep, OwedRunStep, OwedOther DEF Next
<1>2. OwedInv => TriggerKept BY DEF OwedInv, Waits, TriggerKept
<1> QED BY <1>1, <1>2, OwedInit, TypeCorrect, PTL DEF Spec
=============================================================================
