---------------------------- MODULE BgJobsProofs ----------------------------
(***************************************************************************)
(* Theorems about BgJobs, for any number of jobs, sessions and crashes:    *)
(* type correctness, and the safety properties of the store and of the     *)
(* follow-ups, from one inductive invariant.                               *)
(*                                                                         *)
(* The argument: refresh() works on a dict that it loaded at its start and *)
(* saves at its end.  That is right only because nothing else writes the   *)
(* store in between (DictInv: the dict differs from the store only in      *)
(* outcomes that refresh() itself has found), because only one flow of     *)
(* control at a time is about to mark or kill (MonInv), and because a      *)
(* record that is finished and not followed up cannot change but by being  *)
(* marked (ToldInv).                                                       *)
(***************************************************************************)
EXTENDS BgJobs, TLAPS

Scanning == caller \in {"monitor", "list", "kill"}

\* What refresh() does to the record of a job that was running: an outcome that
\* agrees with the job's process.
Reconciled(j) ==
  /\ store[j].status = "running" /\ j \notin todo
  /\ Finished(snap[j]) /\ snap[j].how # "killed" /\ snap[j].followed = FALSE

Truthful(r, j) ==
  /\ r.status = "done" => proc[j] = "exited" /\ code[j] = 0
  /\ r.how = "died" => proc[j] = "vanished"

\* The scan's dict and the store.
DictInv ==
  Scanning => \A j \in Jobs : /\ snap[j] = store[j] \/ Reconciled(j)
                              /\ Truthful(snap[j], j)
                              /\ j \in todo => store[j].status = "running"

\* Where the scan is, and what its callers go on to do.
CallerInv ==
  /\ ~Scanning => todo = {}
  /\ cur = NoJob => probe = "exists"
  /\ cur # NoJob => Scanning /\ cur \in todo
  /\ cur # NoJob /\ probe = "recheck" => proc[cur] \in {"exited", "vanished"}
  /\ caller = "monitor" => mon = "sleep"
  /\ caller # "none" => mon # "post"
  /\ caller \in {"kill", "killing", "launching"} => target \in Jobs
  /\ caller = "killing" => store[target].status = "running"
  /\ caller = "launching" => /\ store[target] = Absent /\ told[target] = 0
                             /\ proc[target] # "none"

\* A job that was never launched left no trace, and the outcomes are true.
StoreInv ==
  \A j \in Jobs : /\ proc[j] = "none" => store[j] = Absent /\ told[j] = 0
                  /\ Truthful(store[j], j)

\* A job the monitor is about to follow up.
Unheard(j) == Finished(store[j]) /\ ~store[j].followed

MonInv ==
  /\ mon \in {"agent", "post"} => curjob \in Jobs /\ curjob \notin pending /\ Unheard(curjob)
  /\ mon = "post" => told[curjob] > 0
  /\ \A j \in pending : Unheard(j)

\* How often the agent was told of a job.
ToldInv ==
  \A j \in Jobs :
    /\ told[j] <= crashes + 1
    /\ told[j] > crashes => \/ store[j].followed \/ store[j] = Absent
                            \/ mon = "post" /\ curjob = j
    /\ store[j].status = "running" => told[j] = 0 /\ ~store[j].followed
    /\ store[j].how = "killed" => told[j] = 0 /\ store[j].followed
    /\ store[j].followed => /\ Finished(store[j])
                            /\ told[j] > 0 \/ store[j].how = "killed"

BgInv == TypeOK /\ DictInv /\ CallerInv /\ StoreInv /\ MonInv /\ ToldInv

-----------------------------------------------------------------------------
(* Type correctness. *)

LEMMA RecordFacts == Absent \in Record /\ Fresh \in Record
BY DEF Absent, Fresh, Record, NoCode

\* The record of a finished job is a record.
LEMMA OutcomeRecord ==
  ASSUME NEW r \in Record, NEW st \in {"done", "failed"}, NEW e \in -2..1,
         NEW h \in {"exit", "timeout", "died", "killed"}
  PROVE  [r EXCEPT !.status = st, !.exit = e, !.how = h] \in Record
<1>1. [r EXCEPT !.status = st] \in Record BY DEF Record
<1>2. \A q \in Record : [q EXCEPT !.exit = e] \in Record BY DEF Record
<1>3. \A q \in Record : [q EXCEPT !.how = h] \in Record BY DEF Record
<1> QED BY <1>1, <1>2, <1>3

LEMMA KilledRecord ==
  ASSUME NEW r \in Record
  PROVE  Killed(r) \in Record
<1>1. \A q \in Record : [q EXCEPT !.status = "failed"] \in Record BY DEF Record
<1>2. \A q \in Record : [q EXCEPT !.exit = -1] \in Record
  <2>1. \A q \in Record, e \in -2..1 : [q EXCEPT !.exit = e] \in Record BY DEF Record
  <2>2. -1 \in -2..1 OBVIOUS
  <2> QED BY <2>1, <2>2
<1>3. \A q \in Record : [q EXCEPT !.how = "killed"] \in Record BY DEF Record
<1>4. \A q \in Record : [q EXCEPT !.followed = TRUE] \in Record BY DEF Record
<1> QED BY <1>1, <1>2, <1>3, <1>4 DEF Killed

LEMMA FollowedRecord ==
  ASSUME NEW r \in Record
  PROVE  [r EXCEPT !.followed = TRUE] \in Record
BY DEF Record

LEMMA TypeInit == Init => TypeOK
BY BgJobsAssumption, RecordFacts DEF Init, TypeOK

\* Giving a record of the dict an outcome keeps the dict typed.
LEMMA SettleType ==
  ASSUME TypeOK, NEW j \in Jobs, NEW st \in {"done", "failed"}, NEW e \in -2..1,
         NEW h \in {"exit", "timeout", "died"}, Settle(j, st, e, h)
  PROVE  snap' \in [Jobs -> Record] /\ cur' = NoJob /\ probe' = "exists"
           /\ todo' \in SUBSET Jobs
<1>1. [snap[j] EXCEPT !.status = st, !.exit = e, !.how = h] \in Record
  BY OutcomeRecord DEF TypeOK
<1> QED BY <1>1 DEF TypeOK, Settle, Next1

LEMMA PrunedType ==
  ASSUME NEW st \in [Jobs -> Record]
  PROVE  Pruned(st) \in [Jobs -> Record]
BY RecordFacts DEF Pruned

LEMMA TypeScan ==
  ASSUME TypeOK, Scan
  PROVE  TypeOK'
<1>1. ASSUME NEW j \in Jobs, PickRecord(j) PROVE TypeOK'
  BY <1>1 DEF TypeOK, PickRecord, procVars, monVars, envVars
<1>2. CASE ProbeExit
  <2>1. cur \in Jobs BY <1>2 DEF TypeOK, ProbeExit
  <2>2. CASE ExitFile(cur)
    <3>1. ReadCode(cur) \in {0, 1} BY <2>1 DEF TypeOK, ReadCode
    <3>2. Settle(cur, IF ReadCode(cur) = 0 THEN "done" ELSE "failed",
                 ReadCode(cur), "exit")
      BY <1>2, <2>2 DEF ProbeExit
    <3>3. (IF ReadCode(cur) = 0 THEN "done" ELSE "failed") \in {"done", "failed"}
      OBVIOUS
    <3>4. ReadCode(cur) \in -2..1 BY <3>1
    <3>5. proc' = proc BY <1>2, <2>2 DEF ProbeExit
    <3> HIDE DEF ReadCode
    <3>6. /\ snap' \in [Jobs -> Record] /\ cur' = NoJob /\ probe' = "exists"
          /\ todo' \in SUBSET Jobs
      BY <3>2, <3>3, <3>4, <2>1, SettleType
    <3> QED BY <1>2, <3>5, <3>6 DEF TypeOK, ProbeExit, monVars, envVars
  <2>3. CASE ~ExitFile(cur) /\ Overdue(cur)
    <3>1. Settle(cur, "failed", -1, "timeout") BY <1>2, <2>3 DEF ProbeExit
    <3>2. /\ snap' \in [Jobs -> Record] /\ cur' = NoJob /\ probe' = "exists"
          /\ todo' \in SUBSET Jobs
      BY <3>1, <2>1, SettleType
    <3>3. proc' = [proc EXCEPT ![cur] = "vanished"] BY <1>2, <2>3 DEF ProbeExit
    <3> QED BY <1>2, <3>2, <3>3 DEF TypeOK, ProbeExit, monVars, envVars
  <2>4. CASE ~ExitFile(cur) /\ ~Overdue(cur)
    BY <1>2, <2>4 DEF TypeOK, ProbeExit, monVars, envVars
  <2> QED BY <2>2, <2>3, <2>4
<1>3. CASE ProbeAlive
  BY <1>3 DEF TypeOK, ProbeAlive, Next1, procVars, monVars, envVars
<1>4. CASE Recheck
  <2>1. cur \in Jobs BY <1>4 DEF TypeOK, Recheck
  <2>2. CASE StillNoExit(cur)
    <3>1. Settle(cur, "failed", -1, "died") BY <1>4, <2>2 DEF Recheck
    <3>2. /\ snap' \in [Jobs -> Record] /\ cur' = NoJob /\ probe' = "exists"
          /\ todo' \in SUBSET Jobs
      BY <3>1, <2>1, SettleType
    <3> QED BY <1>4, <3>2 DEF TypeOK, Recheck, procVars, monVars, envVars
  <2>3. CASE ~StillNoExit(cur)
    BY <1>4, <2>3 DEF TypeOK, Recheck, Next1, procVars, monVars, envVars
  <2> QED BY <2>2, <2>3
<1>5. CASE EndScan
  <2>1. store' \in [Jobs -> Record] /\ snap' \in [Jobs -> Record]
    BY <1>5, PrunedType DEF TypeOK, EndScan
  <2> QED BY <1>5, <2>1 DEF TypeOK, EndScan, procVars, envVars
<1>6. CASE Kill
  <2>1. ASSUME target \in Jobs PROVE Killed(store[target]) \in Record
    BY <2>1, KilledRecord DEF TypeOK
  <2>2. store' \in [Jobs -> Record] BY <1>6, <2>1 DEF TypeOK, Kill
  <2>3. proc' \in [Jobs -> {"none", "running", "closing", "exited", "vanished"}]
    BY <1>6 DEF TypeOK, Kill
  <2> QED BY <1>6, <2>2, <2>3 DEF TypeOK, Kill, monVars, envVars
<1>7. CASE RecordLaunch
  BY <1>7, RecordFacts DEF TypeOK, RecordLaunch, procVars, monVars, envVars
<1> QED BY <1>1, <1>2, <1>3, <1>4, <1>5, <1>6, <1>7 DEF Scan

LEMMA TypeTools ==
  ASSUME TypeOK, Tools
  PROVE  TypeOK'
<1>1. ASSUME NEW j \in Jobs, Launch(j) PROVE TypeOK'
  BY <1>1 DEF TypeOK, Launch, monVars, envVars
<1>2. ASSUME NEW j \in Jobs, RequestKill(j) PROVE TypeOK'
  BY <1>2 DEF TypeOK, RequestKill, BeginScan, ToReconcile, Running, procVars, monVars, envVars
<1> QED BY <1>1, <1>2 DEF Tools

LEMMA TypeMonitor ==
  ASSUME TypeOK, Monitor
  PROVE  TypeOK'
<1>1. CASE Tick
  BY <1>1 DEF TypeOK, Tick, BeginScan, ToReconcile, Running, procVars, monVars, envVars
<1>2. CASE EndFollowup
  <2>1. told' \in [Jobs -> Nat]
    <3>1. CASE curjob \in Jobs BY <1>2, <3>1 DEF TypeOK, EndFollowup
    <3>2. CASE curjob \notin Jobs BY <1>2, <3>2 DEF TypeOK, EndFollowup
    <3> QED BY <3>1, <3>2
  <2> QED BY <1>2, <2>1 DEF TypeOK, EndFollowup, procVars, scanVars, envVars
<1>3. CASE FailFollowup
  BY <1>3 DEF TypeOK, FailFollowup, procVars, scanVars, envVars
<1>4. CASE Mark
  <2>1. ASSUME curjob \in Jobs PROVE Marked(store[curjob]) \in Record
    BY <2>1, FollowedRecord DEF TypeOK, Marked
  <2>2. store' \in [Jobs -> Record] BY <1>4, <2>1 DEF TypeOK, Mark
  <2> QED BY <1>4, <2>2 DEF TypeOK, Mark, procVars, scanVars, envVars
<1>5. CASE Sleep
  BY <1>5 DEF TypeOK, Sleep, procVars, scanVars, envVars
<1>6. ASSUME NEW j \in Jobs, SkipFollowup(j) \/ BeginFollowup(j) PROVE TypeOK'
  BY <1>6 DEF TypeOK, SkipFollowup, BeginFollowup, procVars, scanVars, envVars
<1> QED BY <1>1, <1>2, <1>3, <1>4, <1>5, <1>6 DEF Monitor

LEMMA TypeStep == TypeOK /\ [Next]_vars => TypeOK'
<1> SUFFICES ASSUME TypeOK, [Next]_vars PROVE TypeOK'
  OBVIOUS
<1> USE BgJobsAssumption
<1>1. CASE Environment
  <2>1. PICK j \in Jobs : Exit(j) \/ WriteCode(j) \/ Vanish(j) \/ RunOver(j) \/ Expire(j)
    BY <1>1 DEF Environment
  <2>2. proc' \in [Jobs -> {"none", "running", "closing", "exited", "vanished"}]
    BY <2>1 DEF TypeOK, Exit, WriteCode, Vanish, RunOver, Expire
  <2>3. overdue' \in [Jobs -> BOOLEAN] /\ expired' \in [Jobs -> BOOLEAN] /\ code' = code
    BY <2>1, Zenon DEF TypeOK, Exit, WriteCode, Vanish, RunOver, Expire
  <2> QED BY <1>1, <2>2, <2>3 DEF TypeOK, Environment, scanVars, monVars, envVars
<1>2. CASE Scan BY <1>2, TypeScan
<1>3. CASE Tools BY <1>3, TypeTools
<1>4. CASE Monitor BY <1>4, TypeMonitor
<1>5. ASSUME NEW s \in Sessions,
             StartTurn(s) \/ EndTurn(s) \/ DeleteSession(s) \/ ListJobs(s)
      PROVE  TypeOK'
  BY <1>5, ZenonT(60) DEF TypeOK, StartTurn, EndTurn, DeleteSession, ListJobs, BeginScan, ToReconcile,
              Running, procVars, scanVars, monVars, envVars
<1>6. CASE Crash
  <2>1. crashes' \in 0..MaxCrashes BY <1>6 DEF TypeOK, Crash
  <2>2. up' \in BOOLEAN /\ turn' \in [Sessions -> BOOLEAN] BY <1>6, Zenon DEF Crash
  <2> QED BY <1>6, <2>1, <2>2 DEF TypeOK, Crash, procVars
<1>7. CASE Restart
  BY <1>7 DEF TypeOK, Restart, procVars, scanVars, monVars
<1>8. CASE UNCHANGED vars
  BY <1>8 DEF TypeOK, vars, procVars, scanVars, monVars, envVars
<1> QED BY <1>1, <1>2, <1>3, <1>4, <1>5, <1>6, <1>7, <1>8 DEF Next, Chat

\* Every reachable state of the job store, the monitor and the processes is well
\* typed (src/bg_jobs.py:119-140).
THEOREM TypeCorrect == Spec => []TypeOK
BY TypeInit, TypeStep, PTL DEF Spec

-----------------------------------------------------------------------------
(* The inductive invariant. *)

LEMMA AbsentFacts ==
  /\ Absent.status = "absent" /\ Absent.how = "" /\ Absent.followed = FALSE
  /\ ~Finished(Absent)
BY DEF Absent, Finished

LEMMA BgInit == Init => BgInv
<1> SUFFICES ASSUME Init PROVE BgInv
  OBVIOUS
<1>1. TypeOK BY TypeInit
<1>2. DictInv /\ CallerInv
  BY BgJobsAssumption DEF Init, DictInv, CallerInv, Scanning
<1>3. StoreInv BY DEF Init, StoreInv, Truthful, Absent
<1>4. MonInv BY DEF Init, MonInv
<1>5. ToldInv
  <2>1. crashes = 0 /\ \A j \in Jobs : store[j] = Absent /\ told[j] = 0 BY DEF Init
  <2>2. 0 <= 0 + 1 /\ ~(0 > 0) OBVIOUS
  <2> QED BY <2>1, <2>2, AbsentFacts, Zenon DEF ToldInv
<1> QED BY <1>1, <1>2, <1>3, <1>4, <1>5 DEF BgInv

\* The processes: only a launch takes a job out of "none", and an exited or dead
\* process stays so.
Onward == /\ \A j \in Jobs : /\ proc'[j] = "none" <=> proc[j] = "none"
                             /\ proc[j] \in {"exited", "vanished"} => proc'[j] = proc[j]
          /\ code' = code

\* A step of the processes alone keeps the invariant.
LEMMA OnwardKeeps ==
  ASSUME BgInv, Onward, UNCHANGED <<store, scanVars, monVars, envVars, told>>
  PROVE  DictInv' /\ CallerInv' /\ StoreInv' /\ MonInv' /\ ToldInv'
<1> USE DEF BgInv, Onward
<1>1. \A r, j : j \in Jobs /\ Truthful(r, j) => Truthful(r, j)'
  BY DEF Truthful
<1>2. DictInv' /\ CallerInv'
  BY <1>1 DEF DictInv, CallerInv, Scanning, Reconciled, scanVars, monVars, TypeOK
<1>3. StoreInv' BY <1>1 DEF StoreInv
<1>4. MonInv' BY DEF MonInv, Unheard, monVars
<1>5. ToldInv' BY DEF ToldInv, envVars, monVars
<1> QED BY <1>2, <1>3, <1>4, <1>5

LEMMA BgEnvironment ==
  ASSUME BgInv, Environment
  PROVE  DictInv' /\ CallerInv' /\ StoreInv' /\ MonInv' /\ ToldInv'
<1>1. PICK j \in Jobs : Exit(j) \/ WriteCode(j) \/ Vanish(j) \/ RunOver(j) \/ Expire(j)
  BY DEF Environment
<1>2. Onward
  BY <1>1 DEF BgInv, TypeOK, Onward, Exit, WriteCode, Vanish, RunOver, Expire
<1> QED BY <1>2, OnwardKeeps DEF Environment

\* The start of a scan.
LEMMA BgBeginScan ==
  ASSUME BgInv, NEW who \in {"monitor", "list", "kill"}, NEW j, BeginScan(who, j),
         caller = "none", mon # "post", who = "monitor" => mon = "sleep",
         who = "kill" => j \in Jobs,
         UNCHANGED <<procVars, store, monVars, envVars, told>>
  PROVE  DictInv' /\ CallerInv' /\ StoreInv' /\ MonInv' /\ ToldInv'
<1> USE DEF BgInv, BeginScan, procVars, monVars, envVars
<1>1. \A r, i : Truthful(r, i) <=> Truthful(r, i)' BY DEF Truthful
<1>2. DictInv'
  <2>1. \A i \in Jobs : /\ snap'[i] = store'[i] /\ Truthful(snap[i], i)'
                        /\ i \in todo' => store'[i].status = "running"
    BY <1>1 DEF StoreInv, ToReconcile, Running
  <2> QED BY <2>1 DEF DictInv, Truthful
<1>3. CallerInv'
  <2>1. /\ cur' = NoJob /\ probe' = "exists" /\ caller' = who /\ target' = j /\ mon' = mon
        /\ who \notin {"none", "killing", "launching"}
    OBVIOUS
  <2> QED BY <2>1 DEF CallerInv, Scanning
<1>4. StoreInv' BY <1>1 DEF StoreInv
<1>5. MonInv' BY DEF MonInv, Unheard
<1>6. ToldInv' BY DEF ToldInv
<1> QED BY <1>2, <1>3, <1>4, <1>5, <1>6

\* A record of the dict gets its outcome.
LEMMA SettleKeeps ==
  ASSUME BgInv, NEW j \in Jobs, NEW st \in {"done", "failed"}, NEW e,
         NEW h \in {"exit", "timeout", "died"}, Settle(j, st, e, h),
         Scanning, cur = j, j \in todo, Onward,
         st = "done" => proc'[j] = "exited" /\ code[j] = 0,
         h = "died" => proc'[j] = "vanished",
         UNCHANGED <<store, caller, target, monVars, envVars, told>>
  PROVE  DictInv' /\ CallerInv' /\ StoreInv' /\ MonInv' /\ ToldInv'
<1> USE DEF BgInv, monVars, envVars
<1>1. \A r, i : i \in Jobs /\ Truthful(r, i) => Truthful(r, i)'
  BY DEF Truthful, Onward
<1>2. store[j].status = "running" /\ store[j].followed = FALSE
  BY DEF DictInv, ToldInv, TypeOK, Record
<1>3. snap[j] = store[j] BY DEF DictInv, Reconciled
<1>4. /\ snap'[j].status = st /\ snap'[j].how = h
      /\ snap'[j].followed = snap[j].followed
  <2> DEFINE q == [snap[j] EXCEPT !.status = st, !.exit = e, !.how = h]
  <2>1. snap'[j] = q BY DEF Settle, TypeOK
  <2>2. snap[j] \in Record BY DEF TypeOK
  <2>3. q.status = st /\ q.how = h /\ q.followed = snap[j].followed
    BY <2>2 DEF Record
  <2> QED BY <2>1, <2>3
<1>5. \A i \in Jobs : i # j => snap'[i] = snap[i] BY DEF Settle, TypeOK
<1>6. todo' = todo \ {j} /\ cur' = NoJob /\ probe' = "exists" BY DEF Settle, Next1
<1>7. Truthful(snap[j], j)' BY <1>4 DEF Truthful, Onward
<1>8. Reconciled(j)' BY <1>2, <1>3, <1>4, <1>6 DEF Reconciled, Finished
<1>9. \A i \in Jobs : /\ snap'[i] = store'[i] \/ Reconciled(i)'
                      /\ Truthful(snap[i], i)'
                      /\ i \in todo' => store'[i].status = "running"
  BY <1>1, <1>5, <1>6, <1>7, <1>8 DEF DictInv, Reconciled
<1>10. DictInv'
  BY <1>9 DEF DictInv, Truthful, Reconciled, Finished
<1>11. CallerInv'
  BY <1>6 DEF CallerInv, Scanning
<1>12. StoreInv' BY <1>1 DEF StoreInv, Onward
<1>13. MonInv' BY DEF MonInv, Unheard
<1>14. ToldInv' BY DEF ToldInv
<1> QED BY <1>10, <1>11, <1>12, <1>13, <1>14

\* The scan goes on without finding anything new.
LEMMA ScanGoesOn ==
  ASSUME BgInv, Scanning, todo' \subseteq todo,
         IF cur' = NoJob THEN probe' = "exists" ELSE cur' \in todo',
         cur' # NoJob /\ probe' = "recheck" => proc[cur'] \in {"exited", "vanished"},
         UNCHANGED <<procVars, store, snap, caller, target, monVars, envVars, told>>
  PROVE  DictInv' /\ CallerInv' /\ StoreInv' /\ MonInv' /\ ToldInv'
<1> USE DEF BgInv, procVars, monVars, envVars
<1>1. DictInv' BY DEF DictInv, Reconciled, Truthful
<1>2. CallerInv' BY DEF CallerInv, Scanning
<1>3. StoreInv' BY DEF StoreInv, Truthful
<1>4. MonInv' BY DEF MonInv, Unheard
<1>5. ToldInv' BY DEF ToldInv
<1> QED BY <1>1, <1>2, <1>3, <1>4, <1>5

\* A record of the dict about to be saved: dropped only if it was followed up.
LEMMA PrunedFacts ==
  ASSUME NEW st \in [Jobs -> Record], NEW j \in Jobs
  PROVE  \/ Pruned(st)[j] = st[j]
         \/ Pruned(st)[j] = Absent /\ st[j].followed /\ Finished(st[j])
BY DEF Pruned, Stale

\* The end of a scan: the dict is saved.
LEMMA BgEndScan ==
  ASSUME BgInv, EndScan
  PROVE  DictInv' /\ CallerInv' /\ StoreInv' /\ MonInv' /\ ToldInv'
<1> USE DEF BgInv
<1>1. TypeOK /\ Scanning BY DEF EndScan, Scanning
<1>2. \A j \in Jobs : \/ store'[j] = snap[j]
                      \/ store'[j] = Absent /\ snap[j].followed /\ Finished(snap[j])
  BY <1>1, PrunedFacts DEF EndScan, TypeOK
<1>3. \A j \in Jobs : \/ snap[j] = store[j]
                      \/ /\ store[j].status = "running" /\ Finished(snap[j])
                         /\ snap[j].how # "killed" /\ snap[j].followed = FALSE
  BY <1>1 DEF DictInv, Reconciled
<1>4. \A j \in Jobs : Truthful(store'[j], j)
  <2>1. \A j \in Jobs : Truthful(Absent, j) BY DEF Truthful, Absent
  <2> QED BY <1>1, <1>2, <2>1 DEF DictInv
<1>5. /\ caller' \in {"none", "killing"} /\ cur' = NoJob /\ UNCHANGED <<proc, code, told, crashes>>
      /\ target' = target /\ curjob' = curjob /\ todo' = {} /\ probe' = probe /\ cur = NoJob
  BY DEF EndScan, procVars, envVars
<1>6. DictInv' BY <1>5 DEF DictInv, Scanning
<1>7. CallerInv'
  <2>1. caller' = "killing" => caller = "kill" /\ store'[target].status = "running"
    BY DEF EndScan
  <2>2. caller' # "none" => mon' = mon /\ mon # "post"
    BY <1>1, <2>1 DEF EndScan, CallerInv, Scanning
  <2> QED BY <1>5, <2>1, <2>2 DEF CallerInv
<1>8. StoreInv'
  <2>1. \A j \in Jobs : proc'[j] = "none" => store'[j] = Absent /\ told'[j] = 0
    <3> SUFFICES ASSUME NEW j \in Jobs, proc'[j] = "none"
                 PROVE  store'[j] = Absent /\ told'[j] = 0
      OBVIOUS
    <3>1. store[j] = Absent /\ told[j] = 0 BY <1>5 DEF StoreInv
    <3>2. store'[j] = Absent BY <1>2, <1>3, <3>1, AbsentFacts
    <3> QED BY <1>5, <3>1, <3>2
  <2> QED BY <1>4, <1>5, <2>1 DEF StoreInv, Truthful
<1>9. \A j \in Jobs : Unheard(j) => Unheard(j)'
  BY <1>2, <1>3 DEF Unheard, Finished
<1>10. MonInv'
  <2>1. CASE caller = "monitor"
    BY <2>1 DEF EndScan, MonInv, Unheard
  <2>2. CASE caller # "monitor"
    BY <1>1, <1>5, <1>9, <2>2 DEF EndScan, MonInv, TypeOK, Unheard, Finished
  <2> QED BY <2>1, <2>2
<1>11. ToldInv'
  <2>1. mon # "post" BY <1>1 DEF CallerInv, Scanning
  <2> SUFFICES ASSUME NEW j \in Jobs
               PROVE  /\ told[j] <= crashes + 1
                      /\ told[j] > crashes => store'[j].followed \/ store'[j] = Absent
                      /\ store'[j].status = "running" => told[j] = 0 /\ ~store'[j].followed
                      /\ store'[j].how = "killed" => told[j] = 0 /\ store'[j].followed
                      /\ store'[j].followed => /\ Finished(store'[j])
                                               /\ told[j] > 0 \/ store'[j].how = "killed"
    BY <1>5 DEF ToldInv, Finished
  <2>2. CASE store'[j] = Absent
    <3>1. told[j] <= crashes + 1 BY DEF ToldInv
    <3> QED BY <2>2, <3>1, AbsentFacts, Zenon
  <2>3. CASE store'[j] = store[j]
    BY <2>1, <2>3 DEF ToldInv
  <2>4. CASE store[j].status = "running" /\ store'[j] = snap[j] /\ Finished(snap[j])
               /\ snap[j].how # "killed" /\ snap[j].followed = FALSE
    BY <1>1, <2>4 DEF ToldInv, Finished, TypeOK
  <2> QED BY <1>2, <1>3, <2>2, <2>3, <2>4
<1> QED BY <1>6, <1>7, <1>8, <1>10, <1>11

\* kill(): a running job, of which the agent was not told, is failed and followed up.
LEMMA BgKill ==
  ASSUME BgInv, Kill
  PROVE  DictInv' /\ CallerInv' /\ StoreInv' /\ MonInv' /\ ToldInv'
<1> USE DEF BgInv
<1>1. /\ target \in Jobs /\ mon # "post" /\ store[target].status = "running"
      /\ caller' = "none" /\ cur' = cur /\ cur = NoJob /\ todo' = {} /\ probe' = probe
  BY DEF Kill, CallerInv, Scanning
<1>2. \A j \in Jobs : j # target => store'[j] = store[j] /\ proc'[j] = proc[j]
  BY <1>1 DEF Kill, TypeOK
<1>3. /\ store'[target].status = "failed" /\ store'[target].how = "killed"
      /\ store'[target].followed = TRUE
  <2>1. store'[target] = Killed(store[target]) BY <1>1 DEF Kill, TypeOK
  <2>2. store[target] \in Record BY <1>1 DEF TypeOK
  <2> QED BY <2>1, <2>2 DEF Killed, Record
<1>4. proc'[target] # "none"
  BY <1>1, AbsentFacts DEF Kill, StoreInv, TypeOK
<1>5. told[target] = 0 /\ UNCHANGED <<code, told, crashes, mon, pending, curjob>>
  BY <1>1 DEF Kill, ToldInv, monVars, envVars
<1>6. DictInv' BY <1>1 DEF DictInv, Scanning
<1>7. CallerInv' BY <1>1 DEF CallerInv
<1>8. StoreInv'
  <2> SUFFICES ASSUME NEW j \in Jobs
               PROVE  /\ proc'[j] = "none" => store'[j] = Absent /\ told'[j] = 0
                      /\ Truthful(store[j], j)'
    BY DEF StoreInv, Truthful
  <2>1. CASE j = target BY <1>3, <1>4, <2>1 DEF Truthful
  <2>2. CASE j # target BY <1>2, <1>5, <2>2 DEF StoreInv, Truthful
  <2> QED BY <2>1, <2>2
<1>9. MonInv'
  <2>1. \A j \in Jobs : Unheard(j) => j # target BY <1>1 DEF Unheard, Finished
  <2> QED BY <1>1, <1>2, <1>5, <2>1 DEF MonInv, Unheard, TypeOK, Finished
<1>10. ToldInv'
  <2> SUFFICES ASSUME NEW j \in Jobs
               PROVE  /\ told[j] <= crashes + 1
                      /\ told[j] > crashes => store'[j].followed \/ store'[j] = Absent
                      /\ store'[j].status = "running" => told[j] = 0 /\ ~store'[j].followed
                      /\ store'[j].how = "killed" => told[j] = 0 /\ store'[j].followed
                      /\ store'[j].followed => /\ Finished(store'[j])
                                               /\ told[j] > 0 \/ store'[j].how = "killed"
    BY <1>5 DEF ToldInv, Finished
  <2>1. CASE j = target
    <3>1. told[j] <= crashes + 1 BY DEF ToldInv
    <3> QED BY <1>3, <1>5, <2>1, <3>1 DEF Finished
  <2>2. CASE j # target BY <1>1, <1>2, <2>2 DEF ToldInv
  <2> QED BY <2>1, <2>2
<1> QED BY <1>6, <1>7, <1>8, <1>9, <1>10

\* The record of a launch is new: nothing was known of the job.
LEMMA BgRecordLaunch ==
  ASSUME BgInv, RecordLaunch
  PROVE  DictInv' /\ CallerInv' /\ StoreInv' /\ MonInv' /\ ToldInv'
<1> USE DEF BgInv
<1>1. /\ target \in Jobs /\ mon # "post" /\ store[target] = Absent /\ told[target] = 0
      /\ proc[target] # "none" /\ caller' = "none" /\ cur' = cur /\ cur = NoJob
      /\ todo' = {} /\ probe' = probe
  BY DEF RecordLaunch, CallerInv, Scanning
<1>2. /\ \A j \in Jobs : j # target => store'[j] = store[j]
      /\ store'[target] = Fresh
  BY <1>1 DEF RecordLaunch, TypeOK
<1>3. UNCHANGED <<proc, code, told, crashes, mon, pending, curjob>>
  BY DEF RecordLaunch, procVars, monVars, envVars
<1>4. Fresh.status = "running" /\ Fresh.how = "" /\ Fresh.followed = FALSE
  BY DEF Fresh
<1>5. DictInv' BY <1>1 DEF DictInv, Scanning
<1>6. CallerInv' BY <1>1 DEF CallerInv
<1>7. StoreInv'
  <2> SUFFICES ASSUME NEW j \in Jobs
               PROVE  /\ proc'[j] = "none" => store'[j] = Absent /\ told'[j] = 0
                      /\ Truthful(store[j], j)'
    BY DEF StoreInv, Truthful
  <2>1. CASE j = target BY <1>1, <1>2, <1>3, <1>4, <2>1 DEF Truthful
  <2>2. CASE j # target BY <1>2, <1>3, <2>2 DEF StoreInv, Truthful
  <2> QED BY <2>1, <2>2
<1>8. MonInv'
  <2>1. \A j \in Jobs : Unheard(j) => j # target BY <1>1, AbsentFacts DEF Unheard
  <2> QED BY <1>1, <1>2, <1>3, <2>1 DEF MonInv, Unheard, TypeOK, Finished
<1>9. ToldInv'
  <2> SUFFICES ASSUME NEW j \in Jobs
               PROVE  /\ told[j] <= crashes + 1
                      /\ told[j] > crashes => store'[j].followed \/ store'[j] = Absent
                      /\ store'[j].status = "running" => told[j] = 0 /\ ~store'[j].followed
                      /\ store'[j].how = "killed" => told[j] = 0 /\ store'[j].followed
                      /\ store'[j].followed => /\ Finished(store'[j])
                                               /\ told[j] > 0 \/ store'[j].how = "killed"
    BY <1>3 DEF ToldInv, Finished
  <2>1. CASE j = target
    <3>1. told[j] <= crashes + 1 /\ ~(told[j] > crashes)
      BY <1>1, <2>1, BgJobsAssumption DEF ToldInv, TypeOK
    <3> QED BY <1>1, <1>2, <1>4, <2>1, <3>1, Zenon
  <2>2. CASE j # target BY <1>1, <1>2, <2>2 DEF ToldInv
  <2> QED BY <2>1, <2>2
<1> QED BY <1>5, <1>6, <1>7, <1>8, <1>9

LEMMA BgScan ==
  ASSUME BgInv, Scan
  PROVE  DictInv' /\ CallerInv' /\ StoreInv' /\ MonInv' /\ ToldInv'
<1> USE DEF BgInv
<1>1. ASSUME NEW j \in Jobs, PickRecord(j)
      PROVE  DictInv' /\ CallerInv' /\ StoreInv' /\ MonInv' /\ ToldInv'
  <2>1. Scanning /\ probe = "exists"
    BY <1>1 DEF PickRecord, CallerInv
  <2> QED BY <1>1, <2>1, ScanGoesOn DEF PickRecord
<1>2. CASE ProbeExit
  <2>1. cur \in Jobs /\ Scanning /\ cur \in todo /\ store[cur].status = "running"
    BY <1>2 DEF ProbeExit, CallerInv, DictInv, TypeOK
  <2>2. CASE ExitFile(cur)
    <3> DEFINE st == IF ReadCode(cur) = 0 THEN "done" ELSE "failed"
    <3>1. Settle(cur, st, ReadCode(cur), "exit") /\ proc' = proc
      BY <1>2, <2>2 DEF ProbeExit
    <3>2. st \in {"done", "failed"} OBVIOUS
    <3>3. st = "done" => proc'[cur] = "exited" /\ code[cur] = 0
      BY <3>1 DEF ReadCode
    <3>4. Onward /\ UNCHANGED <<store, caller, target, monVars, envVars, told>>
      BY <1>2, <3>1 DEF ProbeExit, Onward
    <3> HIDE DEF st
    <3> QED BY <2>1, <3>1, <3>2, <3>3, <3>4, SettleKeeps
  <2>3. CASE ~ExitFile(cur) /\ Overdue(cur)
    <3>1. Settle(cur, "failed", -1, "timeout") BY <1>2, <2>3 DEF ProbeExit
    <3>2. proc[cur] # "none" BY <2>1, AbsentFacts DEF StoreInv
    <3>3. Onward /\ UNCHANGED <<store, caller, target, monVars, envVars, told>>
      BY <1>2, <2>1, <2>3, <3>2 DEF ProbeExit, Onward, ExitFile, TypeOK
    <3> QED BY <2>1, <3>1, <3>3, SettleKeeps
  <2>4. CASE ~ExitFile(cur) /\ ~Overdue(cur)
    <3>1. /\ probe' = "alive" /\ cur # NoJob
          /\ UNCHANGED <<procVars, store, snap, todo, cur, caller, target, monVars, envVars,
                         told>>
      BY <1>2, <2>4 DEF ProbeExit, procVars
    <3> QED BY <2>1, <3>1, ScanGoesOn
  <2> QED BY <2>2, <2>3, <2>4
<1>3. CASE ProbeAlive
  <2>1. cur \in Jobs /\ Scanning /\ cur \in todo /\ store[cur].status = "running"
    BY <1>3 DEF ProbeAlive, CallerInv, DictInv, TypeOK
  <2>2. proc[cur] # "none" BY <2>1, AbsentFacts DEF StoreInv
  <2>3. CASE Alive(cur)
    BY <1>3, <2>1, <2>3, ScanGoesOn DEF ProbeAlive, Next1
  <2>4. CASE ~Alive(cur)
    <3>1. proc[cur] \in {"exited", "vanished"} BY <2>1, <2>2, <2>4 DEF Alive, TypeOK
    <3> QED BY <1>3, <2>1, <2>4, <3>1, ScanGoesOn DEF ProbeAlive
  <2> QED BY <2>3, <2>4
<1>4. CASE Recheck
  <2>1. cur \in Jobs /\ Scanning /\ cur \in todo /\ proc[cur] \in {"exited", "vanished"}
    BY <1>4 DEF Recheck, CallerInv, TypeOK
  <2>2. CASE StillNoExit(cur)
    <3>1. Settle(cur, "failed", -1, "died") BY <1>4, <2>2 DEF Recheck
    <3>2. proc'[cur] = "vanished"
      BY <1>4, <2>1, <2>2 DEF Recheck, StillNoExit, ExitFile, procVars
    <3>3. Onward /\ UNCHANGED <<store, caller, target, monVars, envVars, told>>
      BY <1>4 DEF Recheck, Onward, procVars
    <3> QED BY <2>1, <3>1, <3>2, <3>3, SettleKeeps
  <2>3. CASE ~StillNoExit(cur)
    BY <1>4, <2>1, <2>3, ScanGoesOn DEF Recheck, Next1
  <2> QED BY <2>2, <2>3
<1> QED BY <1>1, <1>2, <1>3, <1>4, BgEndScan, BgKill, BgRecordLaunch DEF Scan

-----------------------------------------------------------------------------
(* The other steps. *)

LEMMA BgTools ==
  ASSUME BgInv, Tools
  PROVE  DictInv' /\ CallerInv' /\ StoreInv' /\ MonInv' /\ ToldInv'
<1> USE DEF BgInv
<1>1. ASSUME NEW j \in Jobs, Launch(j)
      PROVE  DictInv' /\ CallerInv' /\ StoreInv' /\ MonInv' /\ ToldInv'
  <2>1. /\ caller = "none" /\ mon # "post" /\ proc[j] = "none"
        /\ store[j] = Absent /\ told[j] = 0 /\ cur = NoJob /\ todo = {}
    BY <1>1 DEF Launch, Free, StoreInv, CallerInv, Scanning
  <2>2. /\ proc'[j] = "running" /\ \A i \in Jobs : i # j => proc'[i] = proc[i]
        /\ caller' = "launching" /\ target' = j
        /\ UNCHANGED <<code, store, snap, todo, cur, probe, mon, pending, curjob, crashes, told>>
    BY <1>1 DEF Launch, TypeOK, monVars, envVars
  <2>3. DictInv' BY <2>2 DEF DictInv, Scanning
  <2>4. CallerInv' BY <2>1, <2>2 DEF CallerInv, Scanning
  <2>5. StoreInv' BY <2>1, <2>2, AbsentFacts DEF StoreInv, Truthful
  <2>6. MonInv' BY <2>2 DEF MonInv, Unheard
  <2>7. ToldInv' BY <2>2 DEF ToldInv
  <2> QED BY <2>3, <2>4, <2>5, <2>6, <2>7
<1>2. ASSUME NEW j \in Jobs, RequestKill(j)
      PROVE  DictInv' /\ CallerInv' /\ StoreInv' /\ MonInv' /\ ToldInv'
  BY <1>2, BgBeginScan DEF RequestKill, Free
<1> QED BY <1>1, <1>2 DEF Tools

\* A step that leaves the processes, the store and the scan alone.
LEMMA CalmKeeps ==
  ASSUME BgInv, caller = "none", UNCHANGED <<procVars, store, scanVars>>
  PROVE  DictInv' /\ CallerInv' /\ (UNCHANGED told => StoreInv')
<1> USE DEF BgInv, procVars, scanVars
<1>1. DictInv' BY DEF DictInv, Scanning
<1>2. CallerInv' BY DEF CallerInv, Scanning
<1>3. UNCHANGED told => StoreInv' BY DEF StoreInv, Truthful
<1> QED BY <1>1, <1>2, <1>3

\* The agent was told of a finished job that had not been followed up.
LEMMA BgEndFollowup ==
  ASSUME BgInv, EndFollowup
  PROVE  DictInv' /\ CallerInv' /\ StoreInv' /\ MonInv' /\ ToldInv'
<1> USE DEF BgInv
<1>1. /\ caller = "none" /\ mon = "agent" /\ mon' = "post" /\ curjob \in Jobs
      /\ curjob \notin pending /\ Unheard(curjob)
      /\ UNCHANGED <<procVars, store, scanVars, pending, curjob, crashes>>
  BY DEF EndFollowup, Free, MonInv, envVars
<1>2. /\ told'[curjob] = told[curjob] + 1
      /\ \A j \in Jobs : j # curjob => told'[j] = told[j]
      /\ \A j \in Jobs : told[j] \in Nat
      /\ crashes \in Nat
  BY <1>1, BgJobsAssumption DEF EndFollowup, TypeOK
<1>3. /\ store[curjob] # Absent /\ store[curjob].status # "running"
      /\ store[curjob].how # "killed" /\ ~store[curjob].followed
  BY <1>1, AbsentFacts DEF Unheard, Finished, ToldInv
<1>4. DictInv' BY <1>1 DEF DictInv, Scanning, scanVars
<1>5. CallerInv' BY <1>1 DEF CallerInv, Scanning, scanVars
<1>6. StoreInv'
  BY <1>1, <1>2, <1>3 DEF StoreInv, Truthful, procVars
<1>7. MonInv' BY <1>1, <1>2 DEF MonInv, Unheard
<1>8. ToldInv'
  <2>1. told[curjob] <= crashes
    <3>1. ~(told[curjob] > crashes) BY <1>1, <1>3 DEF ToldInv
    <3> QED BY <1>1, <1>2, <3>1
  <2> SUFFICES ASSUME NEW j \in Jobs
               PROVE  /\ told'[j] <= crashes + 1
                      /\ told'[j] > crashes => \/ store[j].followed \/ store[j] = Absent
                                               \/ curjob = j
                      /\ store[j].status = "running" => told'[j] = 0 /\ ~store[j].followed
                      /\ store[j].how = "killed" => told'[j] = 0 /\ store[j].followed
                      /\ store[j].followed => /\ Finished(store[j])
                                              /\ told'[j] > 0 \/ store[j].how = "killed"
    BY <1>1 DEF ToldInv, Finished
  <2>2. CASE j = curjob
    <3>1. told'[j] <= crashes + 1 BY <1>1, <1>2, <2>1, <2>2
    <3> QED BY <1>3, <2>2, <3>1, Zenon
  <2>3. CASE j # curjob BY <1>1, <1>2, <2>3 DEF ToldInv
  <2> QED BY <2>2, <2>3
<1> QED BY <1>4, <1>5, <1>6, <1>7, <1>8

\* A job the agent was told of is marked.
LEMMA BgMark ==
  ASSUME BgInv, Mark
  PROVE  DictInv' /\ CallerInv' /\ StoreInv' /\ MonInv' /\ ToldInv'
<1> USE DEF BgInv
<1>1. /\ mon = "post" /\ mon' = "next" /\ caller = "none" /\ curjob \in Jobs
      /\ curjob \notin pending /\ Unheard(curjob) /\ told[curjob] > 0
      /\ UNCHANGED <<proc, code, scanVars, pending, crashes, told>>
  BY DEF Mark, MonInv, CallerInv, procVars, envVars
<1>2. \A j \in Jobs : j # curjob => store'[j] = store[j]
  BY <1>1 DEF Mark, TypeOK
<1>3. /\ store'[curjob].status = store[curjob].status
      /\ store'[curjob].how = store[curjob].how
      /\ store'[curjob].followed = TRUE
  <2>1. store[curjob] \in Record /\ store[curjob].status # "absent"
    BY <1>1 DEF TypeOK, Unheard, Finished
  <2>2. store'[curjob] = [store[curjob] EXCEPT !.followed = TRUE]
    BY <1>1, <2>1 DEF Mark, Marked, TypeOK
  <2> QED BY <2>1, <2>2 DEF Record
<1>4. /\ store[curjob].how # "killed" /\ Finished(store[curjob])
      /\ store[curjob].status # "running" /\ proc[curjob] # "none"
  BY <1>1, AbsentFacts DEF Unheard, Finished, ToldInv, StoreInv
<1>5. DictInv' BY <1>1 DEF DictInv, Scanning, scanVars
<1>6. CallerInv' BY <1>1 DEF CallerInv, Scanning, scanVars
<1>7. StoreInv'
  <2> SUFFICES ASSUME NEW j \in Jobs
               PROVE  /\ proc'[j] = "none" => store'[j] = Absent /\ told'[j] = 0
                      /\ Truthful(store[j], j)'
    BY DEF StoreInv, Truthful
  <2>1. CASE j = curjob BY <1>1, <1>3, <1>4, <2>1 DEF StoreInv, Truthful
  <2>2. CASE j # curjob BY <1>1, <1>2, <2>2 DEF StoreInv, Truthful
  <2> QED BY <2>1, <2>2
<1>8. MonInv' BY <1>1, <1>2 DEF MonInv, Unheard, TypeOK, Finished
<1>9. ToldInv'
  <2> SUFFICES ASSUME NEW j \in Jobs
               PROVE  /\ told[j] <= crashes + 1
                      /\ told[j] > crashes => store'[j].followed \/ store'[j] = Absent
                      /\ store'[j].status = "running" => told[j] = 0 /\ ~store'[j].followed
                      /\ store'[j].how = "killed" => told[j] = 0 /\ store'[j].followed
                      /\ store'[j].followed => /\ Finished(store'[j])
                                               /\ told[j] > 0 \/ store'[j].how = "killed"
    BY <1>1 DEF ToldInv, Finished
  <2>1. CASE j = curjob
    <3>1. told[j] <= crashes + 1 BY DEF ToldInv
    <3> QED BY <1>1, <1>3, <1>4, <2>1, <3>1 DEF Finished
  <2>2. CASE j # curjob BY <1>1, <1>2, <2>2 DEF ToldInv
  <2> QED BY <2>1, <2>2
<1> QED BY <1>5, <1>6, <1>7, <1>8, <1>9

LEMMA BgMonitor ==
  ASSUME BgInv, Monitor
  PROVE  DictInv' /\ CallerInv' /\ StoreInv' /\ MonInv' /\ ToldInv'
<1> USE DEF BgInv
<1>1. CASE Tick BY <1>1, BgBeginScan DEF Tick, Free
<1>2. CASE EndFollowup BY <1>2, BgEndFollowup
<1>3. CASE FailFollowup
  <2>1. caller = "none" /\ mon' = "next" /\ pending' = pending /\ mon = "agent"
        /\ UNCHANGED <<procVars, store, scanVars, crashes, told>>
    BY <1>3 DEF FailFollowup, Free, envVars
  <2>2. MonInv' BY <2>1 DEF MonInv, Unheard
  <2>3. ToldInv' BY <2>1 DEF ToldInv
  <2> QED BY <2>1, <2>2, <2>3, CalmKeeps
<1>4. CASE Mark BY <1>4, BgMark
<1>5. CASE Sleep
  <2>1. caller = "none" /\ mon' = "sleep" /\ pending' = pending /\ mon = "next"
        /\ UNCHANGED <<procVars, store, scanVars, crashes, told>>
    BY <1>5 DEF Sleep, Free, envVars
  <2>2. MonInv' BY <2>1 DEF MonInv, Unheard
  <2>3. ToldInv' BY <2>1 DEF ToldInv
  <2> QED BY <2>1, <2>2, <2>3, CalmKeeps
<1>6. ASSUME NEW j \in Jobs, SkipFollowup(j)
      PROVE  DictInv' /\ CallerInv' /\ StoreInv' /\ MonInv' /\ ToldInv'
  <2>1. caller = "none" /\ mon' = "next" /\ pending' \subseteq pending /\ mon = "next"
        /\ UNCHANGED <<procVars, store, scanVars, crashes, told>>
    BY <1>6 DEF SkipFollowup, Free, envVars
  <2>2. MonInv' BY <2>1 DEF MonInv, Unheard
  <2>3. ToldInv' BY <2>1 DEF ToldInv
  <2> QED BY <2>1, <2>2, <2>3, CalmKeeps
<1>7. ASSUME NEW j \in Jobs, BeginFollowup(j)
      PROVE  DictInv' /\ CallerInv' /\ StoreInv' /\ MonInv' /\ ToldInv'
  <2>1. /\ caller = "none" /\ mon' = "agent" /\ mon = "next"
        /\ j \in pending /\ pending' = pending \ {j} /\ curjob' = j
        /\ UNCHANGED <<procVars, store, scanVars, crashes, told>>
    BY <1>7 DEF BeginFollowup, Free, envVars
  <2>2. MonInv' BY <2>1 DEF MonInv, Unheard
  <2>3. ToldInv' BY <2>1 DEF ToldInv
  <2> QED BY <2>1, <2>2, <2>3, CalmKeeps
<1> QED BY <1>1, <1>2, <1>3, <1>4, <1>5, <1>6, <1>7 DEF Monitor

LEMMA BgChat ==
  ASSUME BgInv, Chat
  PROVE  DictInv' /\ CallerInv' /\ StoreInv' /\ MonInv' /\ ToldInv'
<1> USE DEF BgInv
<1>1. ASSUME NEW s \in Sessions, StartTurn(s) \/ EndTurn(s) \/ DeleteSession(s)
      PROVE  DictInv' /\ CallerInv' /\ StoreInv' /\ MonInv' /\ ToldInv'
  <2>1. caller = "none" /\ UNCHANGED <<procVars, store, scanVars, monVars, crashes, told>>
    BY <1>1 DEF StartTurn, EndTurn, DeleteSession, Free
  <2>2. MonInv' BY <2>1 DEF MonInv, Unheard, monVars
  <2>3. ToldInv' BY <2>1 DEF ToldInv, monVars
  <2> QED BY <2>1, <2>2, <2>3, CalmKeeps
<1>2. ASSUME NEW s \in Sessions, ListJobs(s)
      PROVE  DictInv' /\ CallerInv' /\ StoreInv' /\ MonInv' /\ ToldInv'
  BY <1>2, BgBeginScan DEF ListJobs, Free
<1> QED BY <1>1, <1>2 DEF Chat

\* A crash forgives one announcement that was not marked.
LEMMA BgCrash ==
  ASSUME BgInv, Crash
  PROVE  DictInv' /\ CallerInv' /\ StoreInv' /\ MonInv' /\ ToldInv'
<1> USE DEF BgInv, Crash
<1>1. DictInv' BY DEF DictInv, Scanning
<1>2. CallerInv' BY DEF CallerInv, Scanning
<1>3. StoreInv' BY DEF StoreInv, Truthful, procVars
<1>4. MonInv' BY DEF MonInv
<1>5. ToldInv'
  <2>1. \A j \in Jobs : told[j] \in Nat /\ crashes \in Nat BY BgJobsAssumption DEF TypeOK
  <2>2. \A j \in Jobs : told'[j] <= crashes' /\ told'[j] = told[j]
    BY <2>1 DEF ToldInv
  <2>3. \A j \in Jobs : told'[j] <= crashes' + 1 /\ ~(told'[j] > crashes')
    BY <2>1, <2>2
  <2> QED BY <2>2, <2>3 DEF ToldInv
<1> QED BY <1>1, <1>2, <1>3, <1>4, <1>5

LEMMA BgStep == BgInv /\ [Next]_vars => BgInv'
<1> SUFFICES ASSUME BgInv, [Next]_vars PROVE BgInv'
  OBVIOUS
<1>1. TypeOK' BY TypeStep DEF BgInv
<1>2. CASE Restart \/ UNCHANGED vars
  <2>1. UNCHANGED <<procVars, store, scanVars, monVars, crashes, told>>
    BY <1>2 DEF Restart, vars, envVars
  <2>2. DictInv' /\ CallerInv'
    BY <2>1 DEF BgInv, DictInv, CallerInv, Scanning, Reconciled, Truthful, procVars, scanVars,
                monVars
  <2>3. StoreInv' /\ MonInv' /\ ToldInv'
    BY <2>1 DEF BgInv, StoreInv, MonInv, ToldInv, Truthful, Unheard, procVars, monVars
  <2> QED BY <1>1, <2>2, <2>3 DEF BgInv
<1> QED BY <1>1, <1>2, BgEnvironment, BgScan, BgTools, BgMonitor, BgChat, BgCrash
    DEF Next, BgInv

THEOREM BgInvariant == Spec => []BgInv
BY BgInit, BgStep, PTL DEF Spec

-----------------------------------------------------------------------------
(* The properties. *)

\* A job is reported done only if its command exited with 0, and reported dead only
\* if it never writes an exit status (src/bg_jobs.py:182-208).
THEOREM ReportsCorrect == Spec => []ReportsAreTrue
<1>1. BgInv => ReportsAreTrue BY DEF BgInv, StoreInv, Truthful, ReportsAreTrue
<1> QED BY <1>1, BgInvariant, PTL

\* The agent is told of a job at most once, and once more for every crash
\* (src/bg_monitor.py:5-8, 149-155); of a job it killed, never (src/bg_jobs.py:252-253).
THEOREM ToldOnceCorrect == Spec => []ToldOnce
<1>1. BgInv => ToldOnce
  <2> SUFFICES ASSUME BgInv, NEW j \in Jobs
               PROVE  told[j] <= 1 + crashes /\ (store[j].how = "killed" => told[j] = 0)
    BY DEF ToldOnce
  <2>1. crashes \in Nat /\ told[j] \in Nat BY BgJobsAssumption DEF BgInv, TypeOK
  <2>2. told[j] <= crashes + 1 BY DEF BgInv, ToldInv
  <2>3. store[j].how = "killed" => told[j] = 0 BY DEF BgInv, ToldInv
  <2> QED BY <2>1, <2>2, <2>3
<1> QED BY <1>1, BgInvariant, PTL

\* The steps that write the store.
LEMMA StoreSteps ==
  ASSUME [Next]_vars
  PROVE  EndScan \/ Kill \/ RecordLaunch \/ Mark \/ UNCHANGED store
<1>1. Environment => UNCHANGED store BY DEF Environment
<1>2. Scan => EndScan \/ Kill \/ RecordLaunch \/ UNCHANGED store
  BY DEF Scan, PickRecord, ProbeExit, ProbeAlive, Recheck
<1>3. Tools => UNCHANGED store BY DEF Tools, Launch, RequestKill
<1>4. Monitor => Mark \/ UNCHANGED store
  BY DEF Monitor, Tick, EndFollowup, FailFollowup, Sleep, SkipFollowup, BeginFollowup
<1>5. Chat => UNCHANGED store
  BY DEF Chat, StartTurn, EndTurn, DeleteSession, ListJobs
<1>6. Crash \/ Restart => UNCHANGED store BY DEF Crash, Restart
<1>7. UNCHANGED vars => UNCHANGED store BY DEF vars
<1> QED BY <1>1, <1>2, <1>3, <1>4, <1>5, <1>6, <1>7 DEF Next

\* What a step does to the record of a finished job: nothing, mark it, or drop it
\* after it was followed up.
LEMMA FinishedStep ==
  ASSUME BgInv, [Next]_vars, NEW j \in Jobs, Finished(store[j])
  PROVE  \/ store'[j] = store[j]
         \/ /\ store'[j].status = store[j].status /\ store'[j].how = store[j].how
            /\ store'[j].exit = store[j].exit /\ store'[j] # Absent
         \/ store'[j] = Absent /\ store[j].followed
<1> USE DEF BgInv
<1>1. CASE EndScan
  <2>1. Scanning BY <1>1 DEF EndScan, Scanning
  <2>2. snap[j] = store[j] BY <2>1 DEF DictInv, Reconciled, Finished
  <2> QED BY <1>1, <2>2, PrunedFacts DEF EndScan, TypeOK
<1>2. CASE Kill
  BY <1>2 DEF Kill, CallerInv, Finished, TypeOK
<1>3. CASE RecordLaunch
  BY <1>3, AbsentFacts DEF RecordLaunch, CallerInv, TypeOK
<1>4. CASE Mark
  <2>1. CASE curjob = j
    <3>1. store[j] \in Record /\ store[j].status # "absent"
      BY DEF TypeOK, Finished
    <3>2. store'[j] = [store[j] EXCEPT !.followed = TRUE]
      BY <1>4, <2>1, <3>1 DEF Mark, Marked, TypeOK
    <3>3. /\ store'[j].status = store[j].status /\ store'[j].how = store[j].how
          /\ store'[j].exit = store[j].exit
      BY <3>1, <3>2 DEF Record
    <3> QED BY <3>1, <3>3, AbsentFacts
  <2>2. CASE curjob # j BY <1>4, <2>2 DEF Mark, TypeOK
  <2> QED BY <2>1, <2>2
<1>5. CASE UNCHANGED store BY <1>5
<1> QED BY <1>1, <1>2, <1>3, <1>4, <1>5, StoreSteps

\* The outcome of a finished job never changes (src/bg_jobs.py:180-181, 255-258).
THEOREM OutcomeCorrect == Spec => OutcomeIsFinal
<1> DEFINE Final == \A j \in Jobs :
              Finished(store[j]) =>
                \/ store'[j] = Absent
                \/ /\ store'[j].status = store[j].status
                   /\ store'[j].exit = store[j].exit /\ store'[j].how = store[j].how
<1>1. BgInv /\ [Next]_vars => [Final]_vars BY FinishedStep, Zenon
<1>2. Spec => [][Final]_vars BY <1>1, BgInvariant, PTL DEF Spec
<1> QED BY <1>2 DEF OutcomeIsFinal

\* A record is dropped only after its job was followed up.
LEMMA DropStep ==
  ASSUME BgInv, [Next]_vars, NEW j \in Jobs, store[j] # Absent, store'[j] = Absent
  PROVE  store[j].followed
<1> USE DEF BgInv
<1>1. CASE EndScan
  <2>1. Scanning BY <1>1 DEF EndScan, Scanning
  <2>2. snap[j] = store[j] \/ (Finished(snap[j]) /\ snap[j].followed = FALSE)
    BY <2>1 DEF DictInv, Reconciled
  <2>3. store'[j] = snap[j] \/ snap[j].followed
    BY <1>1, PrunedFacts DEF EndScan, TypeOK
  <2> QED BY <2>2, <2>3, AbsentFacts
<1>2. CASE Kill
  <2>1. target = j BY <1>2 DEF Kill, CallerInv, TypeOK
  <2>2. store'[j] = Killed(store[j]) /\ store[j] \in Record
    BY <1>2, <2>1 DEF Kill, TypeOK
  <2>3. store'[j].status = "failed" BY <2>2 DEF Killed, Record
  <2> QED BY <2>3, AbsentFacts
<1>3. CASE RecordLaunch
  BY <1>3, AbsentFacts DEF RecordLaunch, CallerInv, TypeOK, Fresh
<1>4. CASE Mark
  <2>1. Unheard(curjob) /\ curjob \in Jobs BY <1>4 DEF Mark, MonInv
  <2>2. curjob = j BY <1>4, <2>1 DEF Mark, TypeOK
  <2> QED BY <2>1, <2>2, FinishedStep, <1>4 DEF Unheard
<1>5. CASE UNCHANGED store BY <1>5
<1> QED BY <1>1, <1>2, <1>3, <1>4, <1>5, StoreSteps

\* A record is dropped only after the agent was told its outcome, or killed the job
\* (src/bg_jobs.py:136-139, 157-170, 229-233).
THEOREM DroppedCorrect == Spec => NothingDroppedUnheard
<1> DEFINE Heard == \A j \in Jobs :
              store[j] # Absent /\ store'[j] = Absent
                => told[j] > 0 \/ store[j].how = "killed"
<1>1. BgInv /\ [Next]_vars => [Heard]_vars
  <2> SUFFICES ASSUME BgInv, [Next]_vars, NEW j \in Jobs,
                      store[j] # Absent, store'[j] = Absent
               PROVE  told[j] > 0 \/ store[j].how = "killed"
    OBVIOUS
  <2>1. store[j].followed BY DropStep
  <2> QED BY <2>1 DEF BgInv, ToldInv
<1>2. Spec => [][Heard]_vars BY <1>1, BgInvariant, PTL DEF Spec
<1> QED BY <1>2 DEF NothingDroppedUnheard

-----------------------------------------------------------------------------
(* BgJobs implements the delivery of BgDelivery. *)

PhaseMap == [j \in Jobs |-> Phase(j)]

\* The five phases that a typed store can show.
LEMMA PhaseFacts ==
  ASSUME TypeOK, NEW j \in Jobs
  PROVE  /\ Phase(j) \in Delivery!Phases
         /\ store[j].status = "absent" => Phase(j) = IF NotRecorded(j) THEN "new" ELSE "gone"
         /\ store[j].status = "running" => Phase(j) = "running"
         /\ Finished(store[j]) /\ store[j].followed => Phase(j) = "closed"
         /\ Finished(store[j]) /\ ~store[j].followed
              => Phase(j) = IF AnswerSaved(j) THEN "announced" ELSE "due"
<1>1. store[j] \in Record BY DEF TypeOK
<1>2. store[j].status \in {"absent", "running", "done", "failed"} /\ store[j].followed \in BOOLEAN
  BY <1>1 DEF Record
<1> QED BY <1>2 DEF Phase, Finished, Delivery!Phases

\* The same of the next state.
LEMMA PhaseFactsNext ==
  ASSUME TypeOK', NEW j \in Jobs
  PROVE  /\ Phase(j)' \in Delivery!Phases
         /\ store'[j].status = "absent" => Phase(j)' = IF NotRecorded(j)' THEN "new" ELSE "gone"
         /\ store'[j].status = "running" => Phase(j)' = "running"
         /\ Finished(store'[j]) /\ store'[j].followed => Phase(j)' = "closed"
         /\ Finished(store'[j]) /\ ~store'[j].followed
              => Phase(j)' = IF AnswerSaved(j)' THEN "announced" ELSE "due"
<1>1. store'[j] \in Record BY DEF TypeOK
<1>2. store'[j].status \in {"absent", "running", "done", "failed"} /\ store'[j].followed \in BOOLEAN
  BY <1>1 DEF Record
<1> QED BY <1>2 DEF Phase, Finished, Delivery!Phases

\* A job's phase changes only with its record, its launch or the acknowledgement.
LEMMA SamePhase ==
  ASSUME TypeOK, TypeOK', NEW j \in Jobs, store'[j] = store[j],
         store[j].status = "absent" => NotRecorded(j)' = NotRecorded(j),
         AnswerSaved(j)' = AnswerSaved(j)
  PROVE  Phase(j)' = Phase(j)
<1>1. store[j] \in Record BY DEF TypeOK
<1>2. store[j].status \in {"absent", "running", "done", "failed"} /\ store[j].followed \in BOOLEAN
  BY <1>1 DEF Record
<1> QED BY <1>2, PhaseFacts, PhaseFactsNext DEF Finished

LEMMA Stutter ==
  ASSUME TypeOK, TypeOK', UNCHANGED <<store, told, crashes>>,
         \A j \in Jobs : /\ store[j].status = "absent" => NotRecorded(j)' = NotRecorded(j)
                         /\ AnswerSaved(j)' = AnswerSaved(j)
  PROVE  UNCHANGED Delivery!dvars
<1>1. \A j \in Jobs : Phase(j)' = Phase(j) BY SamePhase
<1> QED BY <1>1 DEF Delivery!dvars

LEMMA EnvironmentStutters ==
  ASSUME BgInv, TypeOK', Environment
  PROVE  UNCHANGED Delivery!dvars
<1>1. \A j \in Jobs : (proc'[j] = "none") = (proc[j] = "none")
  <2> SUFFICES ASSUME NEW k \in Jobs,
                      Exit(k) \/ WriteCode(k) \/ Vanish(k) \/ RunOver(k) \/ Expire(k)
               PROVE  \A j \in Jobs : (proc'[j] = "none") = (proc[j] = "none")
    BY DEF Environment
  <2> QED BY DEF BgInv, TypeOK, Exit, WriteCode, Vanish, RunOver, Expire
<1>2. UNCHANGED <<store, told, crashes, caller, target, mon, curjob>>
  BY DEF Environment, scanVars, monVars, envVars
<1>3. \A j \in Jobs : /\ NotRecorded(j)' = NotRecorded(j)
                      /\ AnswerSaved(j)' = AnswerSaved(j)
  BY <1>1, <1>2 DEF NotRecorded, AnswerSaved
<1> QED BY <1>2, <1>3, Stutter DEF BgInv

\* The scan's questions change no phase: a process that is reaped has a record.
LEMMA ProbesStutter ==
  ASSUME BgInv, TypeOK', (\E j \in Jobs : PickRecord(j)) \/ ProbeExit \/ ProbeAlive \/ Recheck
  PROVE  UNCHANGED Delivery!dvars
<1>1. /\ UNCHANGED <<store, told, crashes, caller, target, mon, curjob>>
      /\ caller # "none"
  BY DEF PickRecord, ProbeExit, ProbeAlive, Recheck, monVars, envVars
<1>2. proc' = proc \/ (/\ cur \in Jobs /\ store[cur].status = "running"
                      /\ proc' = [proc EXCEPT ![cur] = "vanished"])
  BY DEF PickRecord, ProbeExit, ProbeAlive, Recheck, procVars, BgInv, CallerInv, DictInv, TypeOK
<1>3. \A j \in Jobs : store[j].status = "absent" => proc'[j] = proc[j]
  BY <1>2 DEF BgInv, TypeOK
<1>4. \A j \in Jobs : /\ store[j].status = "absent" => NotRecorded(j)' = NotRecorded(j)
                      /\ AnswerSaved(j)' = AnswerSaved(j)
  BY <1>1, <1>3 DEF NotRecorded, AnswerSaved
<1> QED BY <1>1, <1>4, Stutter DEF BgInv

\* The end of a scan is one look at the jobs.
LEMMA EndScanPolls ==
  ASSUME BgInv, TypeOK', EndScan
  PROVE  Delivery!Poll
<1> USE DEF BgInv
<1>1. Scanning /\ caller # "launching" /\ caller' # "launching" /\ mon # "post" /\ mon' # "post"
  BY DEF EndScan, Scanning, CallerInv, TypeOK
<1>2. UNCHANGED <<told, crashes, proc>> BY DEF EndScan, procVars, envVars
<1>3. ASSUME NEW j \in Jobs
      PROVE  \/ Phase(j)' = Phase(j)
             \/ Phase(j) = "running" /\ Phase(j)' = "due"
             \/ Phase(j) = "closed" /\ Phase(j)' = "gone"
  <2>1. /\ NotRecorded(j)' = NotRecorded(j) /\ ~AnswerSaved(j) /\ ~AnswerSaved(j)'
        /\ AnswerSaved(j)' = AnswerSaved(j)
    BY <1>1, <1>2 DEF NotRecorded, AnswerSaved
  <2>2. store'[j] = IF Stale(snap[j], j) THEN Absent ELSE snap[j]
    BY DEF EndScan, Pruned, TypeOK
  <2>3. CASE snap[j] = store[j]
    <3>1. CASE Stale(snap[j], j)
      <4>1. Phase(j) = "closed" BY <2>3, <3>1, PhaseFacts DEF Stale
      <4>2. NotRecorded(j)' = FALSE
        BY <2>1, <2>3, <3>1, <1>1, AbsentFacts DEF NotRecorded, StoreInv, Stale
      <4>3. Phase(j)' = "gone" BY <2>2, <3>1, <4>2, AbsentFacts, PhaseFactsNext
      <4> QED BY <4>1, <4>3
    <3>2. CASE ~Stale(snap[j], j)
      BY <2>1, <2>2, <2>3, <3>2, SamePhase
    <3> QED BY <3>1, <3>2
  <2>4. CASE Reconciled(j)
    <3>1. Phase(j) = "running" BY <2>4, PhaseFacts DEF Reconciled
    <3>2. store'[j] = snap[j] BY <2>2, <2>4 DEF Reconciled, Stale
    <3>3. Phase(j)' = "due" BY <2>1, <2>4, <3>2, PhaseFactsNext DEF Reconciled
    <3> QED BY <3>1, <3>3
  <2>5. snap[j] = store[j] \/ Reconciled(j) BY <1>1 DEF DictInv
  <2> QED BY <2>3, <2>4, <2>5
<1>4. \A j \in Jobs : Phase(j)' \in Delivery!Phases BY PhaseFactsNext
<1> QED BY <1>2, <1>3, <1>4 DEF Delivery!Poll

\* A step that changes the phase of one job only.
LEMMA MovesOne ==
  ASSUME NEW k \in Jobs, NEW from, NEW to, Phase(k) \in from, Phase(k)' = to,
         \A j \in Jobs \ {k} : Phase(j)' = Phase(j)
  PROVE  Delivery!Moves(k, from, to)
BY DEF Delivery!Moves

LEMMA KillCancels ==
  ASSUME BgInv, TypeOK', Kill
  PROVE  \E j \in Jobs : Delivery!Cancel(j)
<1> USE DEF BgInv
<1>0. PICK k \in Jobs : k = target BY DEF Kill, CallerInv
<1>1. /\ store[k].status = "running" /\ caller = "killing"
      /\ caller' = "none" /\ mon # "post" /\ mon' = mon
      /\ store' = [store EXCEPT ![k] = Killed(@)]
      /\ UNCHANGED <<told, crashes>>
  BY <1>0 DEF Kill, CallerInv, monVars, envVars
<1>2. Phase(k) = "running" BY <1>1, PhaseFacts
<1>3. Phase(k)' = "closed"
  <2>1. store'[k] = Killed(store[k]) /\ store[k] \in Record BY <1>1 DEF TypeOK
  <2>2. store'[k].status = "failed" /\ store'[k].followed = TRUE
    BY <2>1 DEF Killed, Record
  <2> QED BY <1>1, <2>2, PhaseFactsNext DEF Finished
<1>4. ASSUME NEW j \in Jobs \ {k} PROVE Phase(j)' = Phase(j)
  <2>1. store'[j] = store[j] /\ proc'[j] = proc[j] BY <1>0, <1>1 DEF Kill, TypeOK
  <2>2. NotRecorded(j)' = NotRecorded(j) /\ AnswerSaved(j)' = AnswerSaved(j)
    BY <1>1, <2>1 DEF NotRecorded, AnswerSaved
  <2> QED BY <2>1, <2>2, SamePhase
<1>5. Delivery!Moves(k, {"running"}, "closed") BY <1>2, <1>3, <1>4, MovesOne
<1> QED BY <1>1, <1>5 DEF Delivery!Cancel

LEMMA RecordLaunchTracks ==
  ASSUME BgInv, TypeOK', RecordLaunch
  PROVE  \E j \in Jobs : Delivery!Track(j)
<1> USE DEF BgInv
<1>0. PICK k \in Jobs : k = target BY DEF RecordLaunch, CallerInv
<1>1. /\ store[k] = Absent /\ caller = "launching"
      /\ caller' = "none" /\ mon # "post" /\ mon' = mon
      /\ store' = [store EXCEPT ![k] = Fresh]
      /\ UNCHANGED <<told, crashes, proc>>
  BY <1>0 DEF RecordLaunch, CallerInv, monVars, envVars, procVars
<1>2. Phase(k) = "new" BY <1>0, <1>1, AbsentFacts, PhaseFacts DEF NotRecorded
<1>3. Phase(k)' = "running"
  <2>1. store'[k].status = "running" BY <1>1 DEF TypeOK, Fresh
  <2> QED BY <1>1, <2>1, PhaseFactsNext
<1>4. ASSUME NEW j \in Jobs \ {k} PROVE Phase(j)' = Phase(j)
  <2>1. store'[j] = store[j] BY <1>1 DEF TypeOK
  <2>2. NotRecorded(j)' = NotRecorded(j) /\ AnswerSaved(j)' = AnswerSaved(j)
    BY <1>0, <1>1 DEF NotRecorded, AnswerSaved
  <2> QED BY <2>1, <2>2, SamePhase
<1>5. Delivery!Moves(k, {"new"}, "running") BY <1>2, <1>3, <1>4, MovesOne
<1> QED BY <1>1, <1>5 DEF Delivery!Track

LEMMA ToolsStutter ==
  ASSUME BgInv, TypeOK', Tools
  PROVE  UNCHANGED Delivery!dvars
<1> USE DEF BgInv
<1>1. ASSUME NEW k \in Jobs, Launch(k) PROVE UNCHANGED Delivery!dvars
  <2>1. UNCHANGED <<store, told, crashes, mon, curjob>> /\ caller = "none"
        /\ caller' = "launching" /\ target' = k
        /\ proc' = [proc EXCEPT ![k] = "running"] /\ proc[k] = "none"
    BY <1>1 DEF Launch, Free, monVars, envVars
  <2>2. \A j \in Jobs : /\ NotRecorded(j)' = NotRecorded(j)
                        /\ AnswerSaved(j)' = AnswerSaved(j)
    BY <2>1 DEF NotRecorded, AnswerSaved, TypeOK
  <2> QED BY <2>1, <2>2, Stutter
<1>2. ASSUME NEW k \in Jobs, RequestKill(k) PROVE UNCHANGED Delivery!dvars
  <2>1. UNCHANGED <<store, told, crashes, mon, curjob, proc>> /\ caller = "none"
        /\ caller' = "kill"
    BY <1>2 DEF RequestKill, BeginScan, Free, monVars, envVars, procVars
  <2>2. \A j \in Jobs : /\ NotRecorded(j)' = NotRecorded(j)
                        /\ AnswerSaved(j)' = AnswerSaved(j)
    BY <2>1 DEF NotRecorded, AnswerSaved
  <2> QED BY <2>1, <2>2, Stutter
<1> QED BY <1>1, <1>2 DEF Tools

\* Everything else the loop does without touching store, told and crashes.
LEMMA IdleStutters ==
  ASSUME BgInv, TypeOK', Chat \/ Restart \/ Tick \/ FailFollowup \/ Sleep
                           \/ \E j \in Jobs : SkipFollowup(j) \/ BeginFollowup(j)
  PROVE  UNCHANGED Delivery!dvars
<1>1. UNCHANGED <<store, told, crashes, proc>>
  BY DEF Chat, StartTurn, EndTurn, DeleteSession, ListJobs, Restart, Tick, FailFollowup, Sleep,
         SkipFollowup, BeginFollowup, procVars, envVars
<1>2. (UNCHANGED <<caller, target>>) \/ (caller # "launching" /\ caller' # "launching")
  BY DEF Chat, StartTurn, EndTurn, DeleteSession, ListJobs, Restart, Tick, FailFollowup, Sleep,
         SkipFollowup, BeginFollowup, BeginScan, Free, scanVars
<1>3. (UNCHANGED <<mon, curjob>>) \/ (mon # "post" /\ mon' # "post")
  BY DEF Chat, StartTurn, EndTurn, DeleteSession, ListJobs, Restart, Tick, FailFollowup, Sleep,
         SkipFollowup, BeginFollowup, monVars
<1>4. \A j \in Jobs : /\ NotRecorded(j)' = NotRecorded(j)
                      /\ AnswerSaved(j)' = AnswerSaved(j)
  BY <1>1, <1>2, <1>3 DEF NotRecorded, AnswerSaved
<1> QED BY <1>1, <1>4, Stutter DEF BgInv

LEMMA EndFollowupAnnounces ==
  ASSUME BgInv, TypeOK', EndFollowup
  PROVE  \E j \in Jobs : Delivery!Announce(j)
<1> USE DEF BgInv
<1>0. PICK k \in Jobs : k = curjob BY DEF EndFollowup, MonInv
<1>1. /\ mon = "agent" /\ mon' = "post" /\ curjob' = curjob
      /\ told' = [told EXCEPT ![k] = @ + 1]
      /\ UNCHANGED <<store, crashes, proc, caller, target>>
  BY <1>0 DEF EndFollowup, procVars, scanVars, envVars
<1>2. Unheard(k) BY <1>0, <1>1 DEF MonInv
<1>3. Phase(k) = "due" /\ Phase(k)' = "announced"
  BY <1>0, <1>1, <1>2, PhaseFacts, PhaseFactsNext DEF Unheard, AnswerSaved
<1>4. ASSUME NEW j \in Jobs \ {k} PROVE Phase(j)' = Phase(j)
  <2>1. NotRecorded(j)' = NotRecorded(j) /\ AnswerSaved(j)' = AnswerSaved(j)
    BY <1>0, <1>1 DEF NotRecorded, AnswerSaved
  <2> QED BY <1>1, <2>1, SamePhase
<1>5. Delivery!Moves(k, {"due"}, "announced") BY <1>3, <1>4, MovesOne
<1> QED BY <1>1, <1>5 DEF Delivery!Announce

LEMMA MarkCloses ==
  ASSUME BgInv, TypeOK', Mark
  PROVE  \E j \in Jobs : Delivery!Close(j)
<1> USE DEF BgInv
<1>0. PICK k \in Jobs : k = curjob BY DEF Mark, MonInv
<1>1. /\ mon = "post" /\ mon' = "next"
      /\ store' = [store EXCEPT ![k] = Marked(@)]
      /\ UNCHANGED <<told, crashes, proc, caller, target>>
  BY <1>0 DEF Mark, procVars, scanVars, envVars
<1>2. Unheard(k) BY <1>0, <1>1 DEF MonInv
<1>3. Phase(k) = "announced" BY <1>0, <1>1, <1>2, PhaseFacts DEF Unheard, AnswerSaved
<1>4. Phase(k)' = "closed"
  <2>1. store'[k] = [store[k] EXCEPT !.followed = TRUE] /\ store[k] \in Record
    BY <1>1, <1>2 DEF TypeOK, Marked, Unheard, Finished
  <2>2. store'[k].status = store[k].status /\ store'[k].followed = TRUE BY <2>1 DEF Record
  <2> QED BY <1>2, <2>2, PhaseFactsNext DEF Unheard, Finished
<1>5. ASSUME NEW j \in Jobs \ {k} PROVE Phase(j)' = Phase(j)
  <2>1. store'[j] = store[j] BY <1>1 DEF TypeOK
  <2>2. NotRecorded(j)' = NotRecorded(j) /\ AnswerSaved(j)' = AnswerSaved(j)
    BY <1>0, <1>1 DEF NotRecorded, AnswerSaved
  <2> QED BY <2>1, <2>2, SamePhase
<1>6. Delivery!Moves(k, {"announced"}, "closed") BY <1>3, <1>4, <1>5, MovesOne
<1> QED BY <1>1, <1>6 DEF Delivery!Close

\* A crash takes back an acknowledgement and loses a launch, nothing else.
LEMMA CrashLapses ==
  ASSUME BgInv, TypeOK', Crash
  PROVE  Delivery!Lapse
<1> USE DEF BgInv
<1>1. /\ caller' = "none" /\ mon' = "sleep" /\ crashes' = crashes + 1
      /\ UNCHANGED <<store, told, proc>>
  BY DEF Crash, procVars
<1>2. ASSUME NEW j \in Jobs
      PROVE  \/ Phase(j) # "announced" /\ Phase(j)' = Phase(j)
             \/ Phase(j) = "announced" /\ Phase(j)' = "due"
             \/ Phase(j) = "new" /\ Phase(j)' = "gone"
  <2>1. store[j] \in Record BY DEF TypeOK
  <2>2. store[j].status \in {"absent", "running", "done", "failed"} /\ store[j].followed \in BOOLEAN
    BY <2>1 DEF Record
  <2>3. ~AnswerSaved(j)' /\ (NotRecorded(j)' => NotRecorded(j))
    BY <1>1 DEF AnswerSaved, NotRecorded
  <2> QED BY <1>1, <2>2, <2>3, PhaseFacts, PhaseFactsNext DEF Finished
<1>3. \A j \in Jobs : Phase(j)' \in Delivery!Phases BY PhaseFactsNext
<1> QED BY <1>1, <1>2, <1>3 DEF Delivery!Lapse

LEMMA DeliveryInit == Init => Delivery!DInit
<1> SUFFICES ASSUME Init PROVE Delivery!DInit
  OBVIOUS
<1>1. TypeOK BY TypeInit
<1>2. \A j \in Jobs : Phase(j) = "new"
  BY <1>1, PhaseFacts DEF Init, Absent, NotRecorded
<1> QED BY <1>2 DEF Init, Delivery!DInit

LEMMA DeliveryStep ==
  ASSUME BgInv, BgInv', [Next]_vars
  PROVE  [Delivery!DNext]_Delivery!dvars
<1>1. TypeOK' BY DEF BgInv
<1>2. UNCHANGED vars => UNCHANGED Delivery!dvars
  BY DEF vars, procVars, scanVars, monVars, envVars, Delivery!dvars, Phase, NotRecorded, AnswerSaved
<1>3. Environment \/ Tools => UNCHANGED Delivery!dvars
  BY <1>1, EnvironmentStutters, ToolsStutter
<1>4. Scan => [Delivery!DNext]_Delivery!dvars
  BY <1>1, ProbesStutter, EndScanPolls, KillCancels, RecordLaunchTracks DEF Scan, Delivery!DNext
<1>5. Monitor \/ Chat \/ Restart => [Delivery!DNext]_Delivery!dvars
  BY <1>1, IdleStutters, EndFollowupAnnounces, MarkCloses DEF Monitor, Delivery!DNext
<1>6. Crash => Delivery!DNext BY <1>1, CrashLapses DEF Delivery!DNext
<1> QED BY <1>2, <1>3, <1>4, <1>5, <1>6 DEF Next

\* The jobs implement at-least-once delivery (src/bg_jobs.py:214-266,
\* src/bg_monitor.py:4-8, 149-155).
THEOREM DeliveryImplemented == Spec => ImplementsDelivery
<1>1. Spec => Delivery!DInit BY DeliveryInit DEF Spec
<1>2. Spec => [][Delivery!DNext]_Delivery!dvars BY BgInvariant, DeliveryStep, PTL DEF Spec
<1> QED BY <1>1, <1>2 DEF ImplementsDelivery, Delivery!DSpec
=============================================================================
