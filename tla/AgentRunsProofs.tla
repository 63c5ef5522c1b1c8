--------------------------- MODULE AgentRunsProofs ---------------------------
(***************************************************************************)
(* Theorems about AgentRuns, for any number of runs, connections and       *)
(* events.                                                                 *)
(***************************************************************************)
EXTENDS AgentRuns, TLAPS

LEMMA RunsFacts == /\ Runs \subseteq 0..MaxRuns
                   /\ Runs \subseteq Nat \ {0}
                   /\ \A x \in 0..MaxRuns : x # NoRun => x \in Runs
BY AgentRunsAssumption DEF Runs, NoRun

\* Fanning out items keeps the queues typed.
LEMMA FanOutType ==
  ASSUME TypeOK, NEW r, NEW items \in Seq(Int), FanOut(r, items)
  PROVE  queue' \in [Subs -> Seq(Int)]
BY DEF TypeOK, FanOut

LEMMA SentinelType == <<End>> \in Seq(Int)
BY DEF End

LEMMA ArmEvictType ==
  ASSUME TypeOK, NEW r, ArmEvict(r)
  PROVE  timer' \in [Runs -> BOOLEAN]
BY Zenon DEF TypeOK, ArmEvict

LEMMA AppendType ==
  ASSUME NEW S, NEW q \in Seq(S), NEW e \in S
  PROVE  Append(q, e) \in Seq(S)
OBVIOUS

\* The state is well typed initially.
LEMMA TypeInit == Init => TypeOK
BY AgentRunsAssumption DEF Init, TypeOK, Runs, NoRun, Status, Phase, Conn

LEMMA TypeHandlers ==
  ASSUME TypeOK, NEW s \in Subs, Start(s) \/ Resume(s)
  PROVE  TypeOK'
<1> USE AgentRunsAssumption
<1>1. CASE Start(s)
  <2> DEFINE r == started + 1
  <2>1. r \in Runs BY <1>1 DEF TypeOK, Start, Runs
  <2>2. Predecessor(reg) \in 0..MaxRuns BY DEF TypeOK, Predecessor, NoRun
  <2>3. started' \in 0..MaxRuns /\ reg' \in 0..MaxRuns
    BY <1>1, <2>1 DEF Start, Runs
  <2>4. phase' \in [Runs -> Phase] BY <1>1, <2>1 DEF TypeOK, Start, Phase
  <2>5. prev' \in [Runs -> 0..MaxRuns] BY <1>1, <2>1, <2>2 DEF TypeOK, Start
  <2>6. header' \in [Subs -> 0..MaxRuns] BY <1>1, <2>1, RunsFacts DEF TypeOK, Start
  <2>7. conn' \in [Subs -> Conn] BY <1>1 DEF TypeOK, Start, Conn
  <2>8. timer' \in [Runs -> BOOLEAN] BY <1>1, Zenon DEF TypeOK, Start
  <2>9. cancelled' \in [Runs -> BOOLEAN]
    BY <1>1, Zenon DEF TypeOK, Start, CancelPredecessor
  <2>10. status' \in [Runs -> Status] /\ queue' \in [Subs -> Seq(Int)]
    BY <1>1, FanOutType, SentinelType DEF TypeOK, Start, Terminalize, Status
  <2> QED BY <1>1, <2>3, <2>4, <2>5, <2>6, <2>7, <2>8, <2>9, <2>10
      DEF TypeOK, Start
<1>2. CASE Resume(s)
  BY <1>2 DEF TypeOK, Resume, runVars, Conn
<1> QED BY <1>1, <1>2

LEMMA TypeDrain ==
  ASSUME TypeOK, NEW r \in Runs, Stop(r) \/ DrainSteps(r) \/ Evict(r)
  PROVE  TypeOK'
<1> USE AgentRunsAssumption
<1>1. CASE Stop(r) BY <1>1, Zenon DEF TypeOK, Stop, subVars
<1>2. CASE Begin(r) BY <1>2 DEF TypeOK, Begin, subVars, Phase
<1>3. CASE WaitOver(r) BY <1>3 DEF TypeOK, WaitOver, subVars, Phase
<1>4. CASE Emit(r)
  <2>1. buffered' \in [Runs -> Nat] BY <1>4 DEF TypeOK, Emit
  <2>2. saves' \in Seq(Runs)
    <3>1. saves' = saves \/ saves' = Append(saves, r) BY <1>4 DEF Emit
    <3>2. saves \in Seq(Runs) BY DEF TypeOK
    <3>3. Append(saves, r) \in Seq(Runs) BY <3>2, AppendType
    <3> QED BY <3>1, <3>2, <3>3
  <2>3. answered' \in [Runs -> BOOLEAN] BY <1>4, Zenon DEF TypeOK, Emit
  <2>4. queue' \in [Subs -> Seq(Int)]
    <3>1. <<buffered[r]>> \in Seq(Int) BY DEF TypeOK
    <3> QED BY <1>4, <3>1, FanOutType DEF Emit
  <2> QED BY <1>4, <2>1, <2>2, <2>3, <2>4 DEF TypeOK, Emit
<1>5. CASE Complete(r)
  <2>1. status' \in [Runs -> Status] BY <1>5 DEF TypeOK, Complete, Status
  <2>2. phase' \in [Runs -> Phase] BY <1>5 DEF TypeOK, Complete, EndTask, Phase
  <2> QED BY <1>5, <2>1, <2>2, FanOutType, SentinelType, ArmEvictType
      DEF TypeOK, Complete, EndTask
<1>6. CASE Fail(r)
  <2>1. status' \in [Runs -> Status] BY <1>6 DEF TypeOK, Fail, Status
  <2>2. phase' \in [Runs -> Phase] BY <1>6 DEF TypeOK, Fail, EndTask, Phase
  <2>3. buffered' \in [Runs -> Nat] BY <1>6 DEF TypeOK, Fail
  <2>4. ErrorTrailer(r) \o <<End>> \in Seq(Int)
    BY DEF TypeOK, ErrorTrailer, End
  <2> QED BY <1>6, <2>1, <2>2, <2>3, <2>4, FanOutType, ArmEvictType
      DEF TypeOK, Fail, EndTask
<1>7. CASE DropUnbegun(r)
  <2>1. phase' \in [Runs -> Phase] BY <1>7 DEF TypeOK, DropUnbegun, Phase
  <2>2. cancelled' \in [Runs -> BOOLEAN] BY <1>7, Zenon DEF TypeOK, DropUnbegun
  <2> QED BY <1>7, <2>1, <2>2 DEF TypeOK, DropUnbegun, Lapse, subVars
<1>8. CASE CancelWaiting(r)
  <2>1. phase' \in [Runs -> Phase] BY <1>8 DEF TypeOK, CancelWaiting, EndTask, Phase
  <2>2. cancelled' \in [Runs -> BOOLEAN] BY <1>8, Zenon DEF TypeOK, CancelWaiting
  <2>3. status' \in [Runs -> Status] BY <1>8 DEF TypeOK, CancelWaiting, Status
  <2>4. timer' \in [Runs -> BOOLEAN]
    BY <1>8, ArmEvictType DEF TypeOK, CancelWaiting, EndTask
  <2> QED BY <1>8, <2>1, <2>2, <2>3, <2>4, FanOutType, SentinelType
      DEF TypeOK, CancelWaiting
<1>9. CASE CancelStreaming(r)
  <2>1. phase' \in [Runs -> Phase] BY <1>9 DEF TypeOK, CancelStreaming, Phase
  <2>2. cancelled' \in [Runs -> BOOLEAN] BY <1>9, Zenon DEF TypeOK, CancelStreaming
  <2> QED BY <1>9, <2>1, <2>2 DEF TypeOK, CancelStreaming, subVars
<1>10. CASE Unwound(r)
  <2>1. status' \in [Runs -> Status] BY <1>10 DEF TypeOK, Unwound, Status
  <2>2. phase' \in [Runs -> Phase] BY <1>10 DEF TypeOK, Unwound, EndTask, Phase
  <2>3. saves' \in Seq(Runs)
    <3>1. saves' = saves \/ saves' = Append(saves, r) BY <1>10 DEF Unwound
    <3>2. saves \in Seq(Runs) BY DEF TypeOK
    <3>3. Append(saves, r) \in Seq(Runs) BY <3>2, AppendType
    <3> QED BY <3>1, <3>2, <3>3
  <2> QED BY <1>10, <2>1, <2>2, <2>3, FanOutType, SentinelType, ArmEvictType
      DEF TypeOK, Unwound, EndTask
<1>11. CASE ShieldOver(r)
  <2>1. phase' \in [Runs -> Phase] BY <1>11 DEF TypeOK, ShieldOver, EndTask, Phase
  <2> QED BY <1>11, <2>1, ArmEvictType DEF TypeOK, ShieldOver, EndTask, subVars
<1>12. CASE CancelShielding(r)
  <2>1. phase' \in [Runs -> Phase] BY <1>12 DEF TypeOK, CancelShielding, EndTask, Phase
  <2>2. cancelled' \in [Runs -> BOOLEAN] BY <1>12, Zenon DEF TypeOK, CancelShielding
  <2> QED BY <1>12, <2>1, <2>2, ArmEvictType
      DEF TypeOK, CancelShielding, EndTask, Lapse, subVars
<1>13. CASE Evict(r)
  <2>1. timer' \in [Runs -> BOOLEAN] BY <1>13, Zenon DEF TypeOK, Evict
  <2>2. reg' \in 0..MaxRuns /\ lapsed' \in SUBSET Runs
    BY <1>13 DEF TypeOK, Evict, NoRun
  <2> QED BY <1>13, <2>1, <2>2 DEF TypeOK, Evict, subVars
<1> QED BY <1>1, <1>2, <1>3, <1>4, <1>5, <1>6, <1>7, <1>8, <1>9, <1>10, <1>11,
           <1>12, <1>13 DEF DrainSteps, CancelSteps

LEMMA DetachType ==
  ASSUME TypeOK, NEW s \in Subs, Detach(s)
  PROVE  TypeOK'
<1> USE AgentRunsAssumption
<1>1. timer' \in [Runs -> BOOLEAN]
  BY ArmEvictType DEF TypeOK, Detach, RearmOnLeave
<1>2. queue' \in [Subs -> Seq(Int)] BY DEF TypeOK, Detach
<1>3. got' \in [Subs -> Seq((0..MaxRuns) \X Int)] BY DEF TypeOK, Detach
<1>4. conn' \in [Subs -> Conn] BY DEF TypeOK, Detach, Conn
<1> QED BY <1>1, <1>2, <1>3, <1>4, SMTT(30) DEF TypeOK, Detach, NoRun

LEMMA YieldType ==
  ASSUME TypeOK, NEW s \in Subs, NEW i \in Nat, Yield(s, i)
  PROVE  /\ got' \in [Subs -> Seq((0..MaxRuns) \X Int)]
         /\ next' \in [Subs -> Nat]
BY SMTT(30) DEF TypeOK, Yield

LEMMA TypeBody ==
  ASSUME TypeOK, NEW s \in Subs, PollEnd(s) \/ BodySteps(s) \/ Disconnect(s)
  PROVE  TypeOK'
<1> USE AgentRunsAssumption
<1>1. CASE PollEnd(s) BY <1>1 DEF TypeOK, PollEnd, runVars, Conn
<1>2. CASE Attach(s)
  <2>1. timer' \in [Runs -> BOOLEAN] BY <1>2, Zenon DEF TypeOK, Attach
  <2> QED BY <1>2, <2>1 DEF TypeOK, Attach, Conn
<1>3. CASE Replay(s) BY <1>3, YieldType DEF TypeOK, Replay, runVars
<1>4. CASE GoLive(s) BY <1>4 DEF TypeOK, GoLive, runVars, Conn
<1>5. CASE GetEvent(s)
  <2>1. queue[s] \in Seq(Int) /\ queue[s] # << >> BY <1>5 DEF TypeOK, GetEvent
  <2>2. Head(queue[s]) \in Int /\ Tail(queue[s]) \in Seq(Int) BY <2>1
  <2>3. queue' \in [Subs -> Seq(Int)] BY <1>5, <2>2 DEF TypeOK, GetEvent
  <2>4. /\ got' \in [Subs -> Seq((0..MaxRuns) \X Int)]
        /\ next' \in [Subs -> Nat]
    <3>1. CASE Unseen(s, Head(queue[s]))
      <4>1. Head(queue[s]) \in Nat BY <2>2, <3>1 DEF TypeOK, Unseen
      <4> QED BY <1>5, <3>1, <4>1, YieldType DEF GetEvent
    <3>2. CASE ~Unseen(s, Head(queue[s])) BY <1>5, <3>2 DEF TypeOK, GetEvent
    <3> QED BY <3>1, <3>2
  <2> QED BY <1>5, <2>3, <2>4 DEF TypeOK, GetEvent, runVars
<1>6. CASE GetEnd(s)
  <2>1. queue[s] \in Seq(Int) /\ queue[s] # << >> BY <1>6 DEF TypeOK, GetEnd
  <2>2. queue' \in [Subs -> Seq(Int)] BY <1>6, <2>1 DEF TypeOK, GetEnd
  <2> QED BY <1>6, <2>2 DEF TypeOK, GetEnd, runVars, Conn
<1>7. CASE Flush(s) BY <1>7, YieldType DEF TypeOK, Flush, runVars
<1>8. CASE Close(s) BY <1>8, DetachType DEF Close
<1>9. CASE Disconnect(s)
  <2>1. CASE Detach(s) BY <2>1, DetachType
  <2>2. CASE ~Detach(s)
    <3>1. /\ conn' = [conn EXCEPT ![s] = "idle"]
          /\ header' = [header EXCEPT ![s] = NoRun]
          /\ UNCHANGED <<runVars, srun, queue, next, got>>
      BY <1>9, <2>2 DEF Disconnect
    <3> QED BY <3>1, SMTT(30) DEF TypeOK, runVars, Conn, NoRun
  <2> QED BY <2>1, <2>2
<1> QED BY <1>1, <1>2, <1>3, <1>4, <1>5, <1>6, <1>7, <1>8, <1>9 DEF BodySteps

\* Every reachable state of the run manager is well typed.
THEOREM TypeCorrect == Spec => []TypeOK
<1>1. TypeOK /\ [Next]_vars => TypeOK'
  <2> SUFFICES ASSUME TypeOK, [Next]_vars PROVE TypeOK' OBVIOUS
  <2>1. CASE UNCHANGED vars BY <2>1 DEF TypeOK, vars, runVars, subVars
  <2>2. CASE Next BY <2>2, TypeHandlers, TypeDrain, TypeBody DEF Next
  <2> QED BY <2>1, <2>2
<1> QED BY <1>1, TypeInit, PTL DEF Spec

-----------------------------------------------------------------------------
(* One run at a time reports itself running. *)

\* OneRunning, with the facts it rests on: only the latest run is registered,
\* and a task that ends without passing through _drain's handlers was made
\* terminal before.
RegInv ==
  /\ reg \in {NoRun, started}
  /\ \A r \in Runs : phase[r] = "unborn" <=> r > started
  /\ \A r \in Runs : phase[r] = "unborn" => ~cancelled[r]
  /\ \A r \in Runs : phase[r] = "created" /\ cancelled[r] => status[r] # "running"
  /\ \A r \in Runs : phase[r] = "shielding" => status[r] # "running"
  /\ OneRunning

LEMMA RegInvInit == Init => RegInv
BY AgentRunsAssumption DEF Init, RegInv, OneRunning, Runs, NoRun

LEMMA RegInvStart ==
  ASSUME TypeOK, RegInv, NEW s \in Subs, Start(s)
  PROVE  RegInv'
<1> USE AgentRunsAssumption DEF NoRun
<1> DEFINE r == started + 1
           p == reg
<1>1. /\ r \in Runs /\ phase[r] = "unborn" /\ ~cancelled[r]
      /\ started \in Nat
  BY DEF TypeOK, RegInv, Start, Runs
<1>2. /\ started' = r /\ reg' = r
      /\ phase' = [phase EXCEPT ![r] = "created"]
      /\ CancelPredecessor(p) /\ Terminalize(p)
  BY DEF Start
<1>3. p # NoRun => p \in Runs /\ p = started /\ p # r
  BY <1>1 DEF TypeOK, RegInv, Runs
<1>4. \A q \in Runs : q # p => status'[q] = status[q] /\ cancelled'[q] = cancelled[q]
  BY <1>2 DEF TypeOK, CancelPredecessor, Terminalize
<1>5. p # NoRun => status'[p] # "running"
  <2>1. CASE InFlight(p) /\ status[p] = "running"
    BY <1>2, <1>3, <2>1 DEF TypeOK, Terminalize
  <2>2. CASE p # NoRun /\ ~InFlight(p)
    BY <1>2, <1>3, <2>2, <1>1 DEF TypeOK, Terminalize, RegInv, OneRunning
  <2>3. CASE status[p] # "running" BY <1>2, <2>3 DEF Terminalize
  <2> QED BY <2>1, <2>2, <2>3 DEF InFlight
<1>6. \A q \in Runs : q # r => phase'[q] = phase[q] BY <1>1, <1>2 DEF TypeOK
<1>7. phase'[r] = "created" BY <1>1, <1>2 DEF TypeOK
<1>8. ~cancelled'[r] BY <1>1, <1>3, <1>4 DEF Runs
<1>9. \A q \in Runs : phase'[q] = "unborn" <=> q > started'
  BY <1>1, <1>2, <1>6, <1>7 DEF RegInv, Runs
<1>10. \A q \in Runs : phase'[q] = "unborn" => ~cancelled'[q]
  BY <1>1, <1>3, <1>4, <1>6, <1>7 DEF RegInv, Runs
<1>11. \A q \in Runs : phase'[q] = "created" /\ cancelled'[q] => status'[q] # "running"
  BY <1>4, <1>5, <1>6, <1>8 DEF RegInv, Runs
<1>12. \A q \in Runs : phase'[q] = "shielding" => status'[q] # "running"
  BY <1>4, <1>5, <1>6, <1>7 DEF RegInv, Runs
<1>13. OneRunning'
  <2> SUFFICES ASSUME NEW q \in 1..started', status'[q] = "running"
               PROVE  reg' = q /\ InFlight(q)'
    BY DEF OneRunning
  <2>1. q \in Runs BY <1>1, <1>2 DEF Runs
  <2>2. q # p BY <1>5, <2>1 DEF Runs
  <2>3. q = r BY <1>1, <1>2, <1>4, <2>1, <2>2 DEF RegInv, OneRunning
  <2> QED BY <1>2, <1>7, <2>3, <1>1 DEF InFlight
<1> QED BY <1>2, <1>9, <1>10, <1>11, <1>12, <1>13 DEF RegInv

\* A step of r's own task or eviction only moves r, and keeps the registration
\* or drops that of a terminal run.
LEMMA RegInvLocal ==
  ASSUME TypeOK, RegInv, NEW r \in Runs, started' = started,
         reg' = reg \/ (reg' = NoRun /\ status[reg] # "running"),
         phase' \in [Runs -> Phase], cancelled' \in [Runs -> BOOLEAN],
         \A q \in Runs : q # r => /\ phase'[q] = phase[q]
                                  /\ status'[q] = status[q]
                                  /\ cancelled'[q] = cancelled[q],
         phase[r] # "unborn", phase'[r] # "unborn",
         status'[r] = "running" => /\ status[r] = "running"
                                   /\ phase'[r] \notin {"finished", "shielding"}
                                   /\ ~(phase'[r] = "created" /\ cancelled'[r])
  PROVE  RegInv'
<1> USE AgentRunsAssumption DEF NoRun
<1>1. reg' \in {NoRun, started'} BY DEF RegInv
<1>2. \A q \in Runs : phase'[q] = "unborn" <=> q > started' BY DEF RegInv
<1>3. \A q \in Runs : phase'[q] = "unborn" => ~cancelled'[q] BY DEF RegInv
<1>4. \A q \in Runs : phase'[q] = "created" /\ cancelled'[q] => status'[q] # "running"
  BY DEF RegInv
<1>5. \A q \in Runs : phase'[q] = "shielding" => status'[q] # "running"
  BY DEF RegInv
<1>6. OneRunning'
  <2> SUFFICES ASSUME NEW q \in 1..started, status'[q] = "running"
               PROVE  reg' = q /\ InFlight(q)'
    BY DEF OneRunning
  <2>1. q \in Runs /\ status[q] = "running" BY SMTT(30) DEF TypeOK, Runs
  <2>2. reg = q /\ InFlight(q) BY <2>1 DEF RegInv, OneRunning
  <2>3. reg' = q BY <2>1, <2>2
  <2>4. phase'[q] # "finished" BY <2>1, <2>2 DEF InFlight
  <2> QED BY <2>1, <2>3, <2>4 DEF InFlight, Runs
<1> QED BY <1>1, <1>2, <1>3, <1>4, <1>5, <1>6 DEF RegInv

LEMMA RegInvDrain ==
  ASSUME TypeOK, TypeOK', RegInv, NEW r \in Runs,
         Stop(r) \/ DrainSteps(r) \/ Evict(r)
  PROVE  RegInv'
<1> USE AgentRunsAssumption DEF NoRun, TypeOK, EndTask
<1>1. CASE Stop(r) \/ DrainSteps(r)
  <2>1. started' = started /\ reg' = reg
    BY <1>1 DEF Stop, DrainSteps, CancelSteps, Begin, WaitOver, Emit, Complete,
                Fail, Unwound, ShieldOver, DropUnbegun, CancelWaiting,
                CancelStreaming, CancelShielding
  <2>2. phase[r] # "unborn" /\ phase'[r] # "unborn"
    <3>1. CASE Stop(r)
      <4>1. ~(r > started) BY <3>1 DEF Stop, RegInv, Runs
      <4> QED BY <3>1, <4>1 DEF Stop, RegInv
    <3>2. CASE DrainSteps(r)
      BY <3>2 DEF DrainSteps, CancelSteps, Begin, WaitOver, Emit, Complete,
                Fail, Unwound, ShieldOver, DropUnbegun, CancelWaiting,
                CancelStreaming, CancelShielding, FirstCreated, CanSave
    <3> QED BY <1>1, <3>1, <3>2
  <2>3. \A q \in Runs : q # r => /\ phase'[q] = phase[q]
                                 /\ status'[q] = status[q]
                                 /\ cancelled'[q] = cancelled[q]
    BY <1>1, ZenonT(60) DEF Stop, DrainSteps, CancelSteps, Begin, WaitOver, Emit, Complete,
                Fail, Unwound, ShieldOver, DropUnbegun, CancelWaiting,
                CancelStreaming, CancelShielding
  <2>4. status'[r] = "running" => /\ status[r] = "running"
                                  /\ phase'[r] \notin {"finished", "shielding"}
                                  /\ ~(phase'[r] = "created" /\ cancelled'[r])
    <3>1. CASE Stop(r) BY <3>1 DEF Stop, RegInv
    <3>2. CASE Begin(r) \/ WaitOver(r) \/ Emit(r) \/ CancelStreaming(r)
      BY <3>2 DEF Begin, WaitOver, Emit, CancelStreaming, CanSave
    <3>3. CASE Complete(r) \/ Fail(r) \/ Unwound(r) \/ CancelWaiting(r)
      BY <3>3 DEF Complete, Fail, Unwound, CancelWaiting
    <3>4. CASE DropUnbegun(r) \/ ShieldOver(r) \/ CancelShielding(r)
      BY <3>4 DEF DropUnbegun, ShieldOver, CancelShielding, RegInv, FirstCreated
    <3> QED BY <1>1, <3>1, <3>2, <3>3, <3>4 DEF DrainSteps, CancelSteps
  <2> QED BY <2>1, <2>2, <2>3, <2>4, RegInvLocal
<1>2. CASE Evict(r)
  <2>1. /\ started' = started
        /\ reg' = reg \/ (reg' = NoRun /\ status[reg] # "running")
        /\ UNCHANGED <<phase, status, cancelled>>
    BY <1>2 DEF Evict, Evictable
  <2> QED BY <2>1, Zenon DEF RegInv, OneRunning, InFlight
<1> QED BY <1>1, <1>2

LEMMA RegInvFrame ==
  ASSUME RegInv, UNCHANGED <<started, reg, status, phase, cancelled>>
  PROVE  RegInv'
BY DEF RegInv, OneRunning, InFlight

LEMMA BodyFrame ==
  ASSUME NEW s \in Subs,
         Resume(s) \/ PollEnd(s) \/ BodySteps(s) \/ Disconnect(s)
  PROVE  UNCHANGED <<started, reg, status, phase, cancelled, prev, buffered,
                     answered, saves, lapsed>>
BY DEF Resume, PollEnd, BodySteps, Attach, Replay, GoLive, GetEvent, GetEnd,
       Flush, Close, Disconnect, Detach, runVars

LEMMA RegInvInvariant == Spec => []RegInv
<1>1. TypeOK /\ TypeOK' /\ RegInv /\ [Next]_vars => RegInv'
  <2> SUFFICES ASSUME TypeOK, TypeOK', RegInv, [Next]_vars PROVE RegInv' OBVIOUS
  <2>1. CASE UNCHANGED vars BY <2>1, RegInvFrame DEF vars, runVars
  <2>2. ASSUME NEW r \in Runs, Stop(r) \/ DrainSteps(r) \/ Evict(r) PROVE RegInv'
    BY <2>2, RegInvDrain
  <2>3. ASSUME NEW s \in Subs, Start(s) PROVE RegInv' BY <2>3, RegInvStart
  <2>4. ASSUME NEW s \in Subs,
               Resume(s) \/ PollEnd(s) \/ BodySteps(s) \/ Disconnect(s)
        PROVE  RegInv'
    BY <2>4, BodyFrame, RegInvFrame
  <2> QED BY <2>1, <2>2, <2>3, <2>4 DEF Next
<1> QED BY <1>1, RegInvInit, TypeCorrect, PTL DEF Spec

\* At most one run reports itself running; it is the registered one and its task
\* is alive.
THEOREM OneRunningCorrect == Spec => []OneRunning
<1>1. RegInv => OneRunning BY DEF RegInv
<1> QED BY <1>1, RegInvInvariant, PTL

-----------------------------------------------------------------------------
(* The save barrier. *)

\* BarrierUnlessLapsed, for every run that has passed its barrier, also one that
\* finished without lapsing.
Passed(q) == CanSave(q) \/ (phase[q] = "finished" /\ q \notin lapsed)

BarrierInv ==
  /\ reg = NoRun /\ started > 0 => phase[started] = "finished" \/ started \in lapsed
  /\ \A q \in 1..started : prev[q] \in {NoRun, q - 1}
  /\ \A q \in 2..started :
       prev[q] = NoRun => phase[q - 1] = "finished" \/ (q - 1) \in lapsed
  /\ \A p, q \in 1..started :
       p < q /\ Passed(q) => \/ phase[p] = "finished"
                             \/ \E k \in p..(q - 1) : k \in lapsed
LEMMA BarrierInvInit == Init => BarrierInv
BY AgentRunsAssumption DEF Init, BarrierInv, NoRun

LEMMA BarrierStart ==
  ASSUME TypeOK, RegInv, BarrierInv, NEW s \in Subs, Start(s)
  PROVE  BarrierInv'
<1> USE AgentRunsAssumption DEF NoRun
<1> DEFINE r == started + 1
<1>1. /\ r \in Runs /\ started \in Nat
      /\ started' = r /\ reg' = r /\ lapsed' = lapsed
      /\ phase' = [phase EXCEPT ![r] = "created"]
      /\ prev' = [prev EXCEPT ![r] = Predecessor(reg)]
  BY DEF TypeOK, Start, Runs
<1>2. /\ phase'[r] = "created" /\ prev'[r] = Predecessor(reg)
      /\ \A q \in 1..started : /\ q \in Runs /\ q # r
                               /\ phase'[q] = phase[q] /\ prev'[q] = prev[q]
  BY <1>1 DEF TypeOK, Runs
<1>3. Predecessor(reg) \in {NoRun, started}
  BY DEF RegInv, Predecessor
<1>4. started > 0 /\ Predecessor(reg) = NoRun
        => phase[started] = "finished" \/ started \in lapsed
  BY DEF BarrierInv, RegInv, Predecessor, InFlight
<1>5. \A q \in 1..started' : prev'[q] \in {NoRun, q - 1}
  <2> TAKE q \in 1..started'
  <2>1. CASE q = r BY <2>1, <1>1, <1>2, <1>3
  <2>2. CASE q # r BY <2>2, <1>1, <1>2 DEF BarrierInv
  <2> QED BY <2>1, <2>2
<1>6. \A q \in 2..started' :
        prev'[q] = NoRun => phase'[q - 1] = "finished" \/ (q - 1) \in lapsed'
  <2> TAKE q \in 2..started'
  <2>1. CASE q = r BY <2>1, <1>1, <1>2, <1>4
  <2>2. CASE q # r BY <2>2, <1>1, <1>2 DEF BarrierInv
  <2> QED BY <2>1, <2>2
<1>7. ASSUME NEW p \in 1..started', NEW q \in 1..started', p < q, Passed(q)'
      PROVE  phase'[p] = "finished" \/ \E k \in p..(q - 1) : k \in lapsed'
  <2>1. q # r BY <1>2, <1>7 DEF Passed, CanSave
  <2>2. p \in 1..started /\ q \in 1..started BY <2>1, <1>1, <1>7
  <2>3. Passed(q) BY <1>1, <1>2, <2>2, <1>7 DEF Passed, CanSave
  <2> QED BY <1>1, <1>2, <1>7, <2>2, <2>3 DEF BarrierInv
<1>8. reg' # NoRun BY <1>1
<1> QED BY <1>5, <1>6, <1>7, <1>8 DEF BarrierInv

\* A step of r's own task, or its eviction, keeps the barrier if r passes only
\* once its predecessor's task is over.
LEMMA BarrierLocal ==
  ASSUME TypeOK, RegInv, BarrierInv, NEW r \in Runs,
         started' = started, prev' = prev, lapsed \subseteq lapsed',
         \A q \in Runs : q # r => phase'[q] = phase[q],
         phase[r] = "finished" => phase'[r] = "finished",
         Passed(r)' => Passed(r) \/ ~InFlight(prev[r]),
         reg' = reg \/ (reg' = NoRun /\ (InFlight(reg) => reg \in lapsed'))
  PROVE  BarrierInv'
<1> USE AgentRunsAssumption DEF NoRun
<1>1. /\ started \in Nat
      /\ \A q \in 1..started : q \in Runs
      /\ \A q \in 1..started : phase[q] = "finished" => phase'[q] = "finished"
  BY DEF TypeOK, Runs
<1>2. reg' = NoRun /\ started > 0
        => phase'[started] = "finished" \/ started \in lapsed'
  BY <1>1 DEF BarrierInv, RegInv, InFlight
<1>3. \A q \in 1..started : prev'[q] \in {NoRun, q - 1} BY DEF BarrierInv
<1>4. \A q \in 2..started :
        prev'[q] = NoRun => phase'[q - 1] = "finished" \/ (q - 1) \in lapsed'
  BY <1>1 DEF BarrierInv
<1>5. ASSUME NEW p \in 1..started, NEW q \in 1..started, p < q, Passed(q)',
             \A k \in p..(q - 1) : k \notin lapsed'
      PROVE  phase'[p] = "finished"
  <2>1. \A k \in p..(q - 1) : k \notin lapsed BY <1>5
  <2>2. CASE Passed(q) BY <1>1, <1>5, <2>1, <2>2 DEF BarrierInv
  <2>3. CASE ~Passed(q)
    <3>1. q = r /\ ~InFlight(prev[q])
      BY <1>1, <1>5, <2>3 DEF Passed, CanSave
    <3>2. q \in 2..started /\ (q - 1) \in 1..started /\ (q - 1) \in p..(q - 1)
      BY <1>1, <1>5
    <3>3. phase[q - 1] = "finished"
      BY <2>1, <3>1, <3>2 DEF BarrierInv, InFlight
    <3>4. Passed(q - 1) BY <2>1, <3>2, <3>3 DEF Passed
    <3>5. p # q - 1 => phase[p] = "finished"
      <4> SUFFICES ASSUME p # q - 1 PROVE phase[p] = "finished" OBVIOUS
      <4>1. p < q - 1 BY <1>5, <1>1
      <4>2. \A k \in p..((q - 1) - 1) : k \notin lapsed BY <2>1, <1>1
      <4> QED BY <3>2, <3>4, <4>1, <4>2 DEF BarrierInv
    <3> QED BY <1>1, <3>3, <3>5
  <2> QED BY <2>2, <2>3
<1> QED BY <1>2, <1>3, <1>4, <1>5 DEF BarrierInv

LEMMA BarrierDrain ==
  ASSUME TypeOK, RegInv, BarrierInv, NEW r \in Runs,
         Stop(r) \/ DrainSteps(r) \/ Evict(r)
  PROVE  BarrierInv'
<1> USE DEF TypeOK, EndTask
<1>1. CASE Stop(r) \/ DrainSteps(r)
  <2> USE DEF Stop, DrainSteps, CancelSteps, Begin, WaitOver, Emit, Complete,
              Fail, Unwound, ShieldOver, DropUnbegun, CancelWaiting,
              CancelStreaming, CancelShielding, FirstCreated, CanSave
  <2>1. started' = started /\ reg' = reg /\ prev' = prev BY <1>1
  <2>2. \A q \in Runs : q # r => phase'[q] = phase[q] BY <1>1
  <2>3. phase[r] = "finished" => phase'[r] = "finished" BY <1>1
  <2>4. lapsed \subseteq lapsed' BY <1>1 DEF Lapse
  <2>5. Passed(r)' => Passed(r) \/ ~InFlight(prev[r])
    <3>1. CASE CanSave(r) BY <3>1 DEF Passed
    <3>2. CASE Stop(r) BY <3>2 DEF Passed
    <3>3. CASE Begin(r) BY <3>3 DEF Passed, Held
    <3>4. CASE WaitOver(r) \/ ShieldOver(r) BY <3>4 DEF Held
    <3>5. CASE DropUnbegun(r) \/ CancelShielding(r)
      BY <3>5 DEF Passed, Lapse
    <3>6. CASE CancelWaiting(r) BY <3>6 DEF Passed, Held
    <3> QED BY <1>1, <3>1, <3>2, <3>3, <3>4, <3>5, <3>6
  <2> QED BY <2>1, <2>2, <2>3, <2>4, <2>5, BarrierLocal
<1>2. CASE Evict(r)
  <2>1. /\ started' = started /\ prev' = prev /\ phase' = phase
        /\ lapsed \subseteq lapsed'
        /\ reg' = reg \/ (reg' = NoRun /\ (InFlight(reg) => reg \in lapsed'))
    BY <1>2 DEF Evict, Evictable
  <2>2. Passed(r)' => Passed(r) BY <2>1 DEF Passed, CanSave
  <2> QED BY <2>1, <2>2, BarrierLocal
<1> QED BY <1>1, <1>2

LEMMA BarrierFrame ==
  ASSUME BarrierInv, UNCHANGED <<started, reg, phase, prev, lapsed>>
  PROVE  BarrierInv'
BY DEF BarrierInv, Passed, CanSave

LEMMA BarrierInvariant == Spec => []BarrierInv
<1>1. TypeOK /\ RegInv /\ BarrierInv /\ [Next]_vars => BarrierInv'
  <2> SUFFICES ASSUME TypeOK, RegInv, BarrierInv, [Next]_vars
               PROVE  BarrierInv'
    OBVIOUS
  <2>1. CASE UNCHANGED vars BY <2>1, BarrierFrame DEF vars, runVars
  <2>2. ASSUME NEW r \in Runs, Stop(r) \/ DrainSteps(r) \/ Evict(r)
        PROVE  BarrierInv'
    BY <2>2, BarrierDrain
  <2>3. ASSUME NEW s \in Subs, Start(s) PROVE BarrierInv'
    BY <2>3, BarrierStart
  <2>4. ASSUME NEW s \in Subs,
               Resume(s) \/ PollEnd(s) \/ BodySteps(s) \/ Disconnect(s)
        PROVE  BarrierInv'
    BY <2>4, BodyFrame, BarrierFrame
  <2> QED BY <2>1, <2>2, <2>3, <2>4 DEF Next
<1> QED BY <1>1, BarrierInvInit, TypeCorrect, RegInvInvariant, PTL DEF Spec

\* A stream is open only while every earlier run's task is over, except behind a
\* run that lapsed.
THEOREM BarrierCorrect == Spec => []BarrierUnlessLapsed
<1>1. BarrierInv => BarrierUnlessLapsed
  BY DEF BarrierInv, BarrierUnlessLapsed, Passed
<1> QED BY <1>1, BarrierInvariant, PTL

-----------------------------------------------------------------------------
(* Answers land in turn order. *)

\* A run that saved something is in its stream or over.
SavesOpen ==
  /\ \A i \in 1..Len(saves) : CanSave(saves[i]) \/ phase[saves[i]] = "finished"
  /\ SavesInTurnOrder

LEMMA SavesOpenInit == Init => SavesOpen
BY DEF Init, SavesOpen, SavesInTurnOrder

\* Nothing is saved, and no open or finished run leaves its stream unfinished.
LEMMA SavesOpenKept ==
  ASSUME TypeOK, SavesOpen, saves' = saves, lapsed \subseteq lapsed',
         \A q \in Runs : CanSave(q) \/ phase[q] = "finished"
                           => CanSave(q)' \/ phase'[q] = "finished"
  PROVE  SavesOpen'
<1>1. \A i \in 1..Len(saves) : saves[i] \in Runs BY DEF TypeOK
<1>2. \A i \in 1..Len(saves') :
        CanSave(saves[i])' \/ phase'[saves'[i]] = "finished"
  BY <1>1 DEF SavesOpen
<1>3. SavesInTurnOrder' BY DEF SavesOpen, SavesInTurnOrder
<1> QED BY <1>2, <1>3 DEF SavesOpen, CanSave

\* An open run saves: every run that saved before it is older, or it is itself.
LEMMA SavesOpenAppend ==
  ASSUME TypeOK, RegInv, BarrierInv, SavesOpen, NEW r \in Runs, CanSave(r),
         saves' = Append(saves, r), lapsed' = lapsed,
         phase'[r] = phase[r] \/ phase'[r] = "finished",
         \A q \in Runs : q # r => phase'[q] = phase[q]
  PROVE  SavesOpen'
<1>1. \A i \in 1..Len(saves) : saves[i] \in Runs BY DEF TypeOK
<1>2. saves \in Seq(Runs) BY DEF TypeOK
<1>3. /\ Len(saves') = Len(saves) + 1
      /\ saves'[Len(saves) + 1] = r
      /\ \A i \in 1..Len(saves) : saves'[i] = saves[i]
      /\ Len(saves) \in Nat
  BY <1>2
<1>4. ASSUME NEW i \in 1..Len(saves')
      PROVE  phase'[saves'[i]] \in {"streaming", "unwinding", "finished"}
  <2>1. CASE i = Len(saves) + 1 BY <2>1, <1>3 DEF CanSave
  <2>2. CASE i # Len(saves) + 1
    <3>1. i \in 1..Len(saves) BY <2>2, <1>3
    <3>2. phase[saves[i]] \in {"streaming", "unwinding", "finished"}
      BY <3>1 DEF SavesOpen, CanSave
    <3> QED BY <3>1, <3>2, <1>1, <1>3 DEF CanSave
  <2> QED BY <2>1, <2>2
<1>5. ASSUME lapsed = {}, NEW i \in 1..Len(saves) PROVE saves[i] <= r
  <2>1. /\ saves[i] \in Runs
        /\ phase[saves[i]] \in {"streaming", "unwinding", "finished"}
    BY <1>1 DEF SavesOpen, CanSave
  <2>2. Passed(saves[i]) BY <1>5, <2>1 DEF Passed, CanSave
  <2>3. started \in Nat /\ saves[i] \in 1..started /\ r \in 1..started
    <3>1. started \in Nat BY AgentRunsAssumption DEF TypeOK
    <3>2. ~(saves[i] > started) /\ ~(r > started)
      BY <2>1 DEF RegInv, CanSave
    <3> QED BY <3>1, <3>2, <2>1 DEF Runs
  <2>4. ~(r < saves[i]) BY <1>5, <2>2, <2>3 DEF BarrierInv, CanSave
  <2> QED BY <2>3, <2>4
<1>6. SavesInTurnOrder'
  <2> SUFFICES ASSUME lapsed' = {}, NEW i \in 1..Len(saves'),
                      NEW j \in 1..Len(saves'), i < j
               PROVE  saves'[i] <= saves'[j]
    BY DEF SavesInTurnOrder
  <2>1. i \in 1..Len(saves) BY <1>3
  <2>2. CASE j = Len(saves) + 1 BY <1>3, <1>5, <2>1, <2>2
  <2>3. CASE j # Len(saves) + 1
    BY <1>3, <2>1, <2>3 DEF SavesOpen, SavesInTurnOrder
  <2> QED BY <2>2, <2>3
<1> QED BY <1>4, <1>6 DEF SavesOpen, CanSave

LEMMA SavesOpenDrain ==
  ASSUME TypeOK, RegInv, BarrierInv, SavesOpen, NEW r \in Runs,
         Stop(r) \/ DrainSteps(r) \/ Evict(r)
  PROVE  SavesOpen'
<1> USE DEF TypeOK, EndTask
<1>1. CASE saves' = saves
  <2>1. lapsed \subseteq lapsed'
    BY DEF Stop, DrainSteps, CancelSteps, Begin, WaitOver, Emit, Complete,
           Fail, Unwound, ShieldOver, DropUnbegun, CancelWaiting,
           CancelStreaming, CancelShielding, Evict, Lapse
  <2>2. \A q \in Runs : CanSave(q) \/ phase[q] = "finished"
                          => CanSave(q)' \/ phase'[q] = "finished"
    BY DEF Stop, DrainSteps, CancelSteps, Begin, WaitOver, Emit, Complete,
           Fail, Unwound, ShieldOver, DropUnbegun, CancelWaiting,
           CancelStreaming, CancelShielding, Evict, FirstCreated, CanSave
  <2> QED BY <1>1, <2>1, <2>2, SavesOpenKept
<1>2. CASE saves' # saves
  <2>1. Emit(r) \/ Unwound(r)
    BY <1>2 DEF Stop, DrainSteps, CancelSteps, Begin, WaitOver, Complete,
           Fail, ShieldOver, DropUnbegun, CancelWaiting,
           CancelStreaming, CancelShielding, Evict
  <2>2. /\ CanSave(r) /\ saves' = Append(saves, r) /\ lapsed' = lapsed
        /\ phase'[r] = phase[r] \/ phase'[r] = "finished"
        /\ \A q \in Runs : q # r => phase'[q] = phase[q]
    BY <1>2, <2>1 DEF Emit, Unwound, CanSave
  <2> QED BY <2>2, SavesOpenAppend
<1> QED BY <1>1, <1>2

LEMMA SavesOpenStart ==
  ASSUME TypeOK, RegInv, SavesOpen, NEW s \in Subs, Start(s)
  PROVE  SavesOpen'
<1>1. started + 1 \in Runs /\ phase[started + 1] = "unborn"
  BY AgentRunsAssumption DEF TypeOK, RegInv, Start, Runs
<1>2. \A q \in Runs : q # started + 1 => phase'[q] = phase[q]
  BY DEF TypeOK, Start
<1>3. saves' = saves /\ lapsed' = lapsed BY DEF Start
<1>4. \A q \in Runs : CanSave(q) \/ phase[q] = "finished"
                        => CanSave(q)' \/ phase'[q] = "finished"
  BY <1>1, <1>2 DEF CanSave
<1> QED BY <1>3, <1>4, SavesOpenKept

LEMMA SavesOpenFrame ==
  ASSUME SavesOpen, UNCHANGED <<phase, saves, lapsed>>
  PROVE  SavesOpen'
BY DEF SavesOpen, SavesInTurnOrder, CanSave

\* As long as no task lapsed, answers are saved in the order of their turns.
THEOREM SavesCorrect == Spec => []SavesInTurnOrder
<1>1. TypeOK /\ RegInv /\ BarrierInv /\ SavesOpen /\ [Next]_vars => SavesOpen'
  <2> SUFFICES ASSUME TypeOK, RegInv, BarrierInv, SavesOpen, [Next]_vars
               PROVE  SavesOpen'
    OBVIOUS
  <2>1. CASE UNCHANGED vars BY <2>1, SavesOpenFrame DEF vars, runVars
  <2>2. ASSUME NEW r \in Runs, Stop(r) \/ DrainSteps(r) \/ Evict(r)
        PROVE  SavesOpen'
    BY <2>2, SavesOpenDrain
  <2>3. ASSUME NEW s \in Subs, Start(s) PROVE SavesOpen'
    BY <2>3, SavesOpenStart
  <2>4. ASSUME NEW s \in Subs,
               Resume(s) \/ PollEnd(s) \/ BodySteps(s) \/ Disconnect(s)
        PROVE  SavesOpen'
    BY <2>4, BodyFrame, SavesOpenFrame
  <2> QED BY <2>1, <2>2, <2>3, <2>4 DEF Next
<1>2. SavesOpen => SavesInTurnOrder BY DEF SavesOpen
<1> QED BY <1>1, <1>2, SavesOpenInit, TypeCorrect, RegInvInvariant,
           BarrierInvariant, PTL DEF Spec

-----------------------------------------------------------------------------
(* What a connection receives. *)

\* A queue holds, between sentinels, the run's events in order, up to the last
\* one that was published.
GoodQueue(q, b) ==
  /\ \A i \in 1..Len(q) : q[i] = End \/ q[i] \in 0..(b - 1)
  /\ \A i \in 1..(Len(q) - 1) :
       q[i] # End /\ q[i + 1] # End => q[i + 1] = q[i] + 1
  /\ q # <<>> /\ q[Len(q)] # End => q[Len(q)] = b - 1

\* A reader that waits for its queue has everything that is not in the queue.
NoGap(q, n, b) == /\ q = <<>> => n >= b
                  /\ q # <<>> /\ q[1] # End => q[1] <= n

\* The first n events of run h.
Stream(h, n) == [i \in 1..n |-> <<h, i - 1>>]

Reading(s) ==
  /\ srun[s] = header[s] /\ srun[s] \in Runs
  /\ next[s] <= buffered[srun[s]]
  /\ GoodQueue(queue[s], buffered[srun[s]])
  /\ conn[s] = "live" => NoGap(queue[s], next[s], buffered[srun[s]])
  /\ got[s] = Stream(srun[s], next[s])

NotReading(s) ==
  /\ queue[s] = <<>> /\ next[s] = 0 /\ got[s] = <<>>
  /\ conn[s] = "bound" => header[s] \in Runs

ReadInv == \A s \in Subs : IF conn[s] \in Attached THEN Reading(s)
                                                   ELSE NotReading(s)

LEMMA GoodEmpty == ASSUME NEW b \in Nat PROVE GoodQueue(<<>>, b)
BY DEF GoodQueue

LEMMA GoodEnd ==
  ASSUME NEW q \in Seq(Int), NEW b \in Nat, GoodQueue(q, b)
  PROVE  GoodQueue(q \o <<End>>, b)
<1> DEFINE w == q \o <<End>>
<1>1. /\ Len(w) = Len(q) + 1 /\ Len(q) \in Nat
      /\ \A i \in 1..Len(q) : w[i] = q[i]
      /\ w[Len(q) + 1] = End
  BY DEF End
<1> HIDE DEF w
<1>2. ASSUME NEW i \in 1..Len(w) PROVE w[i] = End \/ w[i] \in 0..(b - 1)
  <2>1. CASE i = Len(q) + 1 BY <1>1, <2>1
  <2>2. CASE i # Len(q) + 1 BY <1>1, <2>2 DEF GoodQueue
  <2> QED BY <2>1, <2>2
<1>3. ASSUME NEW i \in 1..(Len(w) - 1), w[i] # End, w[i + 1] # End
      PROVE  w[i + 1] = w[i] + 1
  <2>1. i \in 1..(Len(q) - 1) BY <1>1, <1>3
  <2>2. w[i] = q[i] /\ w[i + 1] = q[i + 1] BY <1>1, <2>1
  <2> QED BY <1>3, <2>1, <2>2 DEF GoodQueue
<1>4. w[Len(w)] = End BY <1>1
<1>5. GoodQueue(w, b) BY <1>2, <1>3, <1>4 DEF GoodQueue
<1> QED BY <1>5 DEF w

LEMMA GoodEvent ==
  ASSUME NEW q \in Seq(Int), NEW b \in Nat, GoodQueue(q, b)
  PROVE  GoodQueue(q \o <<b>>, b + 1)
<1> DEFINE w == q \o <<b>>
<1>1. /\ Len(w) = Len(q) + 1 /\ Len(q) \in Nat
      /\ \A i \in 1..Len(q) : w[i] = q[i]
      /\ w[Len(q) + 1] = b
  OBVIOUS
<1>2. \A i \in 1..Len(q) : q[i] \in Int OBVIOUS
<1> HIDE DEF w
<1>3. \A i \in 1..Len(w) : w[i] = End \/ w[i] \in 0..b
  BY <1>1, <1>2, SMTT(30) DEF GoodQueue, End
<1>4. ASSUME NEW i \in 1..(Len(w) - 1), w[i] # End, w[i + 1] # End
      PROVE  w[i + 1] = w[i] + 1
  <2>1. CASE i = Len(q)
    <3>1. q # <<>> /\ q[Len(q)] # End BY <1>1, <1>4, <2>1
    <3>2. q[Len(q)] = b - 1 BY <3>1 DEF GoodQueue
    <3> QED BY <1>1, <1>4, <2>1, <3>2
  <2>2. CASE i # Len(q) BY <1>1, <1>4, <2>2 DEF GoodQueue
  <2> QED BY <2>1, <2>2
<1>5. w[Len(w)] = (b + 1) - 1 BY <1>1
<1>6. GoodQueue(w, b + 1) BY <1>3, <1>4, <1>5 DEF GoodQueue
<1> QED BY <1>6 DEF w

LEMMA GoodTail ==
  ASSUME NEW q \in Seq(Int), NEW b \in Nat, GoodQueue(q, b), q # <<>>
  PROVE  GoodQueue(Tail(q), b)
<1> DEFINE w == Tail(q)
<1>1. /\ Len(w) = Len(q) - 1 /\ Len(q) \in Nat \ {0}
      /\ \A i \in 1..Len(w) : w[i] = q[i + 1]
      /\ w \in Seq(Int)
  OBVIOUS
<1>2. w # <<>> => Len(w) # 0 BY <1>1
<1> HIDE DEF w
<1>3. ASSUME NEW i \in 1..Len(w) PROVE w[i] = End \/ w[i] \in 0..(b - 1)
  <2>1. i + 1 \in 1..Len(q) /\ w[i] = q[i + 1] BY <1>1
  <2>2. q[i + 1] = End \/ q[i + 1] \in 0..(b - 1) BY <2>1 DEF GoodQueue
  <2> QED BY <2>1, <2>2
<1>4. ASSUME NEW i \in 1..(Len(w) - 1), w[i] # End, w[i + 1] # End
      PROVE  w[i + 1] = w[i] + 1
  <2>1. i + 1 \in 1..(Len(q) - 1) BY <1>1
  <2>2. w[i] = q[i + 1] /\ w[i + 1] = q[(i + 1) + 1] BY <1>1
  <2> QED BY <1>4, <2>1, <2>2 DEF GoodQueue
<1>5. w # <<>> /\ w[Len(w)] # End => w[Len(w)] = b - 1
  BY <1>1, <1>2 DEF GoodQueue
<1> QED BY <1>3, <1>4, <1>5 DEF GoodQueue, w

LEMMA LastItem ==
  ASSUME NEW q \in Seq(Int), q # <<>>, Tail(q) = <<>>
  PROVE  q[Len(q)] = q[1]
<1>1. Len(q) \in Nat /\ Len(q) # 0 /\ Len(Tail(q)) = Len(q) - 1 OBVIOUS
<1>2. Len(Tail(q)) = 0
  <2>1. Len(<<>>) = 0 OBVIOUS
  <2> QED BY <2>1
<1>3. Len(q) = 1
  BY <1>1, <1>2
<1> QED BY <1>3

LEMMA StreamStep ==
  ASSUME NEW h \in Runs, NEW n \in Nat
  PROVE  Append(Stream(h, n), <<h, n>>) = Stream(h, n + 1)
<1> DEFINE a == Stream(h, n)
           c == Stream(h, n + 1)
<1>1. a \in Seq(Runs \X Int) /\ Len(a) = n BY DEF Stream
<1>2. c \in Seq(Runs \X Int) /\ Len(c) = n + 1 BY DEF Stream
<1>3. /\ Append(a, <<h, n>>) \in Seq(Runs \X Int)
      /\ Len(Append(a, <<h, n>>)) = n + 1
  BY <1>1
<1>4. ASSUME NEW i \in 1..(n + 1) PROVE Append(a, <<h, n>>)[i] = c[i]
  <2>1. CASE i = n + 1 BY <1>1, <2>1 DEF Stream
  <2>2. CASE i # n + 1
    <3>1. Append(a, <<h, n>>)[i] = a[i] BY <1>1, <2>2
    <3>2. i \in 1..n BY <2>2
    <3> QED BY <3>1, <3>2 DEF Stream
  <2> QED BY <2>1, <2>2
<1> HIDE DEF a, c
<1>5. Append(a, <<h, n>>) = c BY <1>2, <1>3, <1>4
<1> QED BY <1>5 DEF a, c

LEMMA StreamEmpty == ASSUME NEW h PROVE Stream(h, 0) = <<>>
BY DEF Stream

LEMMA ReadInvInit == Init => ReadInv
BY DEF Init, ReadInv, NotReading, Attached

\* A connection is left alone, or it is idle and gets bound to a run.
Rebound(s) == \/ conn'[s] = conn[s] /\ header'[s] = header[s]
              \/ conn[s] = "idle" /\ conn'[s] = "bound" /\ header'[s] \in Runs

LEMMA ReadInvKept ==
  ASSUME ReadInv, UNCHANGED <<srun, next, got, queue, buffered>>,
         \A s \in Subs : Rebound(s)
  PROVE  ReadInv'
BY DEF ReadInv, Rebound, Reading, NotReading, Attached

\* The publication of one or more items to the readers of r.
LEMMA ReadInvFan ==
  ASSUME TypeOK, ReadInv, NEW r \in Runs, NEW items \in Seq(Int), FanOut(r, items),
         UNCHANGED <<srun, next, got>>, \A s \in Subs : Rebound(s),
         NEW c \in Nat, buffered' = [buffered EXCEPT ![r] = c], buffered[r] <= c,
         items # <<>>, items[1] \in {End, buffered[r]},
         \A q \in Seq(Int) : GoodQueue(q, buffered[r]) => GoodQueue(q \o items, c)
  PROVE  ReadInv'
<1> SUFFICES ASSUME NEW s \in Subs
             PROVE  IF conn'[s] \in Attached THEN Reading(s)' ELSE NotReading(s)'
  BY DEF ReadInv
<1>1. /\ srun'[s] = srun[s] /\ next'[s] = next[s] /\ got'[s] = got[s]
      /\ queue[s] \in Seq(Int) /\ Rebound(s) /\ next[s] \in Nat
      /\ buffered[r] \in Nat /\ buffered'[r] = c
      /\ \A x \in Runs : x # r => buffered'[x] = buffered[x]
  BY DEF TypeOK
<1>2. queue'[s] = IF s \in Subscribers(r) THEN queue[s] \o items ELSE queue[s]
  BY DEF FanOut
<1>3. CASE conn[s] \notin Attached
  BY <1>1, <1>2, <1>3
     DEF ReadInv, Rebound, Reading, NotReading, Attached, Subscribers
<1>4. CASE conn[s] \in Attached /\ srun[s] # r
  <2>1. conn'[s] = conn[s] /\ header'[s] = header[s]
    BY <1>1, <1>4 DEF Rebound, Attached
  <2>2. queue'[s] = queue[s] BY <1>2, <1>4 DEF Subscribers
  <2>3. Reading(s) BY <1>4 DEF ReadInv
  <2>4. buffered'[srun[s]] = buffered[srun[s]] BY <1>1, <1>4, <2>3 DEF Reading
  <2>5. Reading(s)' BY <1>1, <2>1, <2>2, <2>3, <2>4 DEF Reading
  <2> QED BY <1>4, <2>1, <2>5
<1>5. CASE conn[s] \in Attached /\ srun[s] = r
  <2>1. conn'[s] = conn[s] /\ header'[s] = header[s]
    BY <1>1, <1>5 DEF Rebound, Attached
  <2>2. queue'[s] = queue[s] \o items BY <1>2, <1>5 DEF Subscribers
  <2>3. Reading(s) BY <1>5 DEF ReadInv
  <2>4. GoodQueue(queue'[s], c) BY <1>1, <1>5, <2>2, <2>3 DEF Reading
  <2>5. NoGap(queue[s], next[s], buffered[r]) => NoGap(queue'[s], next[s], c)
    <3>1. queue'[s] # <<>> BY <1>1, <2>2
    <3>2. CASE queue[s] = <<>>
      <4>1. queue'[s][1] = items[1] BY <2>2, <3>2
      <4> QED BY <1>1, <3>1, <3>2, <4>1 DEF NoGap
    <3>3. CASE queue[s] # <<>>
      <4>1. queue'[s][1] = queue[s][1] BY <1>1, <2>2, <3>3
      <4> QED BY <3>1, <3>3, <4>1 DEF NoGap
    <3> QED BY <3>2, <3>3
  <2>6. next[s] <= c BY <1>1, <1>5, <2>3 DEF Reading
  <2>7. Reading(s)' BY <1>1, <1>5, <2>1, <2>3, <2>4, <2>5, <2>6 DEF Reading
  <2> QED BY <1>5, <2>1, <2>7
<1> QED BY <1>3, <1>4, <1>5

\* Publishing the sentinel.
LEMMA ReadInvEnd ==
  ASSUME TypeOK, ReadInv, NEW r \in Runs, FanOut(r, <<End>>),
         UNCHANGED <<srun, next, got, buffered>>, \A s \in Subs : Rebound(s)
  PROVE  ReadInv'
<1>1. buffered[r] \in Nat /\ buffered' = [buffered EXCEPT ![r] = buffered[r]]
  BY DEF TypeOK
<1>2. <<End>> \in Seq(Int) /\ <<End>> # <<>> /\ <<End>>[1] = End BY DEF End
<1>3. \A q \in Seq(Int) :
        GoodQueue(q, buffered[r]) => GoodQueue(q \o <<End>>, buffered[r])
  BY <1>1, GoodEnd
<1>4. buffered[r] <= buffered[r] BY <1>1
<1> QED BY <1>1, <1>2, <1>3, <1>4, ReadInvFan

LEMMA ReadInvDrain ==
  ASSUME TypeOK, ReadInv, NEW r \in Runs, Stop(r) \/ DrainSteps(r) \/ Evict(r)
  PROVE  ReadInv'
<1>1. /\ UNCHANGED <<srun, next, got>>
      /\ \A s \in Subs : Rebound(s)
  BY DEF Stop, DrainSteps, CancelSteps, Begin, WaitOver, Emit, Complete, Fail,
         Unwound, ShieldOver, DropUnbegun, CancelWaiting, CancelStreaming,
         CancelShielding, Evict, subVars, Rebound
<1>2. buffered[r] \in Nat BY DEF TypeOK
<1>3. CASE Stop(r) \/ Begin(r) \/ WaitOver(r) \/ DropUnbegun(r)
           \/ CancelStreaming(r) \/ ShieldOver(r) \/ CancelShielding(r) \/ Evict(r)
  <2>1. UNCHANGED <<queue, buffered>>
    BY <1>3 DEF Stop, Begin, WaitOver, ShieldOver, DropUnbegun, CancelStreaming,
                CancelShielding, Evict, subVars
  <2> QED BY <1>1, <2>1, ReadInvKept
<1>4. CASE Complete(r) \/ CancelWaiting(r) \/ Unwound(r)
  <2>1. FanOut(r, <<End>>) /\ UNCHANGED buffered
    BY <1>4 DEF Complete, CancelWaiting, Unwound
  <2> QED BY <1>1, <2>1, ReadInvEnd
<1>5. CASE Emit(r)
  <2>1. /\ FanOut(r, <<buffered[r]>>)
        /\ buffered' = [buffered EXCEPT ![r] = buffered[r] + 1]
    BY <1>5 DEF Emit
  <2>2. \A q \in Seq(Int) : GoodQueue(q, buffered[r])
                              => GoodQueue(q \o <<buffered[r]>>, buffered[r] + 1)
    BY <1>2, GoodEvent
  <2>3. /\ <<buffered[r]>> \in Seq(Int) /\ <<buffered[r]>> # <<>>
        /\ <<buffered[r]>>[1] = buffered[r]
        /\ buffered[r] + 1 \in Nat /\ buffered[r] <= buffered[r] + 1
    BY <1>2
  <2> QED BY <1>1, <2>1, <2>2, <2>3, ReadInvFan
<1>6. CASE Fail(r)
  <2> DEFINE items == ErrorTrailer(r) \o <<End>>
  <2>1. /\ FanOut(r, items)
        /\ buffered' = [buffered EXCEPT ![r] = buffered[r] + 2]
    BY <1>6 DEF Fail
  <2>2. /\ items \in Seq(Int) /\ items # <<>> /\ items[1] = buffered[r]
        /\ buffered[r] + 2 \in Nat /\ buffered[r] <= buffered[r] + 2
    BY <1>2 DEF ErrorTrailer, End
  <2>3. ASSUME NEW q \in Seq(Int), GoodQueue(q, buffered[r])
        PROVE  GoodQueue(q \o items, buffered[r] + 2)
    <3> DEFINE q1 == q \o <<buffered[r]>>
               q2 == q1 \o <<buffered[r] + 1>>
    <3>1. q1 \in Seq(Int) /\ GoodQueue(q1, buffered[r] + 1)
      BY <1>2, <2>3, GoodEvent
    <3>2. q2 \in Seq(Int) /\ GoodQueue(q2, (buffered[r] + 1) + 1)
      <4> HIDE DEF q1
      <4> QED BY <1>2, <3>1, GoodEvent
    <3>3. GoodQueue(q2 \o <<End>>, (buffered[r] + 1) + 1)
      <4> HIDE DEF q2
      <4> QED BY <1>2, <3>2, GoodEnd, SMTT(30)
    <3>4. q \o items = q2 \o <<End>> BY <1>2 DEF ErrorTrailer, End
    <3>5. (buffered[r] + 1) + 1 = buffered[r] + 2 BY <1>2
    <3> QED BY <3>3, <3>4, <3>5
  <2> HIDE DEF items
  <2> QED BY <1>1, <2>1, <2>2, <2>3, ReadInvFan
<1> QED BY <1>3, <1>4, <1>5, <1>6 DEF DrainSteps, CancelSteps

LEMMA ReadInvStart ==
  ASSUME TypeOK, RegInv, ReadInv, NEW s \in Subs, Start(s) \/ Resume(s)
  PROVE  ReadInv'
<1>1. UNCHANGED <<srun, next, got, buffered>>
  BY DEF Start, Resume, runVars
<1>2. \A t \in Subs : Rebound(t)
  <2>1. CASE Start(s)
    <3>1. started + 1 \in Runs
      BY <2>1, AgentRunsAssumption DEF TypeOK, Start, Runs
    <3> QED BY <2>1, <3>1 DEF Start, Rebound, TypeOK
  <2>2. CASE Resume(s)
    <3>1. reg \in Runs BY <2>2, RunsFacts DEF Resume, IsActive, TypeOK
    <3> QED BY <2>2, <3>1 DEF Resume, Rebound, TypeOK
  <2> QED BY <2>1, <2>2
<1>3. CASE UNCHANGED queue BY <1>1, <1>2, <1>3, ReadInvKept
<1>4. CASE ~UNCHANGED queue
  <2>1. reg \in Runs /\ FanOut(reg, <<End>>)
    BY <1>4, RunsFacts DEF Start, Resume, Terminalize, InFlight, TypeOK
  <2> QED BY <1>1, <1>2, <2>1, ReadInvEnd
<1> QED BY <1>3, <1>4

\* Only connection s moves.
Alone(s) == \A t \in Subs : t # s =>
  /\ conn'[t] = conn[t] /\ header'[t] = header[t] /\ srun'[t] = srun[t]
  /\ queue'[t] = queue[t] /\ next'[t] = next[t] /\ got'[t] = got[t]

LEMMA ReadInvAlone ==
  ASSUME ReadInv, NEW s \in Subs, Alone(s), UNCHANGED buffered,
         IF conn'[s] \in Attached THEN Reading(s)' ELSE NotReading(s)'
  PROVE  ReadInv'
<1> SUFFICES ASSUME NEW t \in Subs
             PROVE  IF conn'[t] \in Attached THEN Reading(t)' ELSE NotReading(t)'
  BY DEF ReadInv
<1>1. CASE t # s BY <1>1 DEF ReadInv, Alone, Reading, NotReading
<1> QED BY <1>1

LEMMA ReadInvYield ==
  ASSUME TypeOK, NEW s \in Subs, Reading(s), next[s] < buffered[srun[s]],
         Yield(s, next[s])
  PROVE  /\ next'[s] = next[s] + 1
         /\ next'[s] <= buffered[srun[s]]
         /\ got'[s] = Stream(srun[s], next'[s])
<1>1. /\ next[s] \in Nat /\ srun[s] \in Runs /\ buffered[srun[s]] \in Nat
      /\ got[s] = Stream(srun[s], next[s])
  BY DEF TypeOK, Reading
<1>2. /\ next'[s] = next[s] + 1
      /\ got'[s] = Append(got[s], <<srun[s], next[s]>>)
  BY DEF Yield, TypeOK
<1>3. got'[s] = Stream(srun[s], next[s] + 1) BY <1>1, <1>2, StreamStep
<1>4. next[s] + 1 <= buffered[srun[s]] BY <1>1
<1> QED BY <1>2, <1>3, <1>4

LEMMA ReadInvBody ==
  ASSUME TypeOK, ReadInv, NEW s \in Subs,
         PollEnd(s) \/ BodySteps(s) \/ Disconnect(s)
  PROVE  ReadInv'
<1> USE DEF Attached
<1>0. UNCHANGED buffered BY BodyFrame
<1>1. Alone(s)
  BY SMTT(30) DEF PollEnd, BodySteps, Disconnect, Attach, Replay, GoLive, GetEvent,
         GetEnd, Flush, Close, Detach, Yield, runVars, Alone, TypeOK
<1>2. /\ next[s] \in Nat /\ queue[s] \in Seq(Int)
      /\ \A x \in Runs : buffered[x] \in Nat
  BY DEF TypeOK
<1>3. CASE Detach(s) \/ (Disconnect(s) /\ conn[s] = "bound")
  <2>1. NotReading(s)' /\ conn'[s] \notin Attached
    BY <1>3 DEF Detach, Disconnect, NotReading, TypeOK, ReadInv
  <2> QED BY <1>0, <1>1, <2>1, ReadInvAlone
<1>4. CASE Attach(s)
  <2>1. /\ NotReading(s) /\ header[s] \in Runs
    BY <1>4 DEF ReadInv, Attach, NotReading
  <2>2. /\ conn'[s] = "replay" /\ srun'[s] = header[s]
        /\ UNCHANGED <<header, queue, next, got>>
    BY <1>4 DEF Attach, TypeOK
  <2>3. GoodQueue(<<>>, buffered[header[s]]) BY <1>2, <2>1, GoodEmpty
  <2>4. got[s] = Stream(header[s], 0) BY <2>1, StreamEmpty DEF NotReading
  <2>5. Reading(s)'
    BY <1>0, <1>2, <2>1, <2>2, <2>3, <2>4 DEF Reading, NotReading
  <2> QED BY <1>0, <1>1, <2>2, <2>5, ReadInvAlone
<1>5. CASE Replay(s) \/ Flush(s)
  <2>1. Reading(s) BY <1>5 DEF ReadInv, Replay, Flush
  <2>2. /\ Yield(s, next[s]) /\ next[s] < buffered[srun[s]]
        /\ UNCHANGED <<header, conn, srun, queue>> /\ conn[s] \in {"replay", "flush"}
    BY <1>5 DEF Replay, Flush
  <2>3. Reading(s)' BY <1>0, <2>1, <2>2, ReadInvYield DEF Reading
  <2> QED BY <1>0, <1>1, <2>2, <2>3, ReadInvAlone
<1>6. CASE GoLive(s)
  <2>1. Reading(s) BY <1>6 DEF ReadInv, GoLive
  <2>2. /\ conn'[s] = "live" /\ CaughtUp(s)
        /\ UNCHANGED <<header, srun, queue, next, got>>
    BY <1>6 DEF GoLive, TypeOK
  <2>3. NoGap(queue[s], next[s], buffered[srun[s]])
    <3>1. CASE queue[s] = <<>> BY <2>2, <3>1 DEF NoGap, CaughtUp
    <3>2. CASE queue[s] # <<>> /\ queue[s][1] # End
      <4>1. 1 \in 1..Len(queue[s]) BY <1>2, <3>2
      <4>2. queue[s][1] \in 0..(buffered[srun[s]] - 1)
        BY <2>1, <3>2, <4>1 DEF Reading, GoodQueue
      <4> QED BY <1>2, <2>1, <2>2, <3>2, <4>2 DEF NoGap, CaughtUp, Reading
    <3>3. CASE queue[s] # <<>> /\ queue[s][1] = End BY <3>3 DEF NoGap
    <3> QED BY <3>1, <3>2, <3>3
  <2>4. Reading(s)' BY <1>0, <2>1, <2>2, <2>3 DEF Reading
  <2> QED BY <1>0, <1>1, <2>2, <2>4, ReadInvAlone
<1>7. CASE GetEnd(s) \/ PollEnd(s)
  <2>1. Reading(s) BY <1>7 DEF ReadInv, GetEnd, PollEnd
  <2>2. /\ conn'[s] = "flush" /\ UNCHANGED <<header, srun, next, got>>
        /\ queue'[s] = queue[s] \/ (queue[s] # <<>> /\ queue'[s] = Tail(queue[s]))
    BY <1>7 DEF GetEnd, PollEnd, TypeOK
  <2>3. GoodQueue(queue'[s], buffered[srun[s]])
    BY <1>2, <2>1, <2>2, GoodTail DEF Reading
  <2>4. Reading(s)' BY <1>0, <2>1, <2>2, <2>3 DEF Reading
  <2> QED BY <1>0, <1>1, <2>2, <2>4, ReadInvAlone
<1>8. CASE GetEvent(s)
  <2> DEFINE q == queue[s]
             b == buffered[srun[s]]
  <2>1. Reading(s) /\ conn[s] = "live" BY <1>8 DEF ReadInv, GetEvent
  <2>2. /\ q # <<>> /\ Head(q) = q[1] /\ q[1] # End
        /\ UNCHANGED <<header, conn, srun>> /\ queue'[s] = Tail(q)
    BY <1>2, <1>8 DEF GetEvent, TypeOK
  <2>3. b \in Nat /\ GoodQueue(q, b) /\ NoGap(q, next[s], b)
    BY <1>2, <2>1 DEF Reading
  <2>4. q[1] \in 0..(b - 1) /\ q[1] <= next[s]
    <3>1. 1 \in 1..Len(q) BY <1>2, <2>2
    <3> QED BY <2>2, <2>3, <3>1 DEF GoodQueue, NoGap
  <2>5. /\ next'[s] = IF q[1] = next[s] THEN next[s] + 1 ELSE next[s]
        /\ next'[s] <= b
        /\ got'[s] = Stream(srun[s], next'[s])
    <3>1. CASE q[1] = next[s]
      <4>1. Yield(s, next[s]) BY <1>2, <1>8, <2>2, <3>1 DEF GetEvent, Unseen
      <4>2. next[s] < b BY <1>2, <2>3, <2>4, <3>1
      <4> QED BY <2>1, <3>1, <4>1, <4>2, ReadInvYield
    <3>2. CASE q[1] # next[s]
      <4>1. UNCHANGED <<next, got>>
        BY <1>2, <1>8, <2>2, <2>4, <3>2 DEF GetEvent, Unseen
      <4> QED BY <2>1, <3>2, <4>1 DEF Reading
    <3> QED BY <3>1, <3>2
  <2>6. GoodQueue(Tail(q), b) BY <1>2, <2>2, <2>3, GoodTail
  <2>7. NoGap(Tail(q), next'[s], b)
    <3>1. next'[s] \in Nat /\ next'[s] >= q[1] + 1
      BY <1>2, <2>4, <2>5
    <3>2. CASE Tail(q) = <<>>
      <4>1. q[Len(q)] = q[1]
        <5>1. q \in Seq(Int) /\ q # <<>> /\ Tail(q) = <<>> BY <1>2, <2>2, <3>2
        <5> HIDE DEF q
        <5> QED BY <5>1, LastItem
      <4>2. q[1] = b - 1 BY <2>2, <2>3, <4>1 DEF GoodQueue
      <4> QED BY <2>3, <3>1, <3>2, <4>2 DEF NoGap
    <3>3. CASE Tail(q) # <<>> /\ Tail(q)[1] # End
      <4>1. Tail(q)[1] = q[2] /\ Len(q) \in Nat /\ Len(q) > 1
        BY <1>2, <2>2, <3>3, SMTT(30)
      <4>2. 1 \in 1..(Len(q) - 1) /\ q[1 + 1] = q[2] BY <4>1
      <4>3. q[2] = q[1] + 1 BY <2>2, <2>3, <3>3, <4>1, <4>2 DEF GoodQueue
      <4> QED BY <3>1, <3>3, <4>1, <4>3 DEF NoGap
    <3>4. CASE Tail(q) # <<>> /\ Tail(q)[1] = End BY <3>4 DEF NoGap
    <3> QED BY <3>2, <3>3, <3>4
  <2>8. Reading(s)'
    <3>1. buffered'[srun'[s]] = b BY <1>0, <2>2
    <3> HIDE DEF q, b
    <3> QED BY <2>1, <2>2, <2>5, <2>6, <2>7, <3>1 DEF Reading
  <2> QED BY <1>0, <1>1, <2>1, <2>2, <2>8, ReadInvAlone
<1> QED BY <1>3, <1>4, <1>5, <1>6, <1>7, <1>8 DEF BodySteps, Close, Disconnect

LEMMA ReadInvInvariant == Spec => []ReadInv
<1>1. TypeOK /\ RegInv /\ ReadInv /\ [Next]_vars => ReadInv'
  <2> SUFFICES ASSUME TypeOK, RegInv, ReadInv, [Next]_vars PROVE ReadInv'
    OBVIOUS
  <2>1. CASE UNCHANGED vars
    BY <2>1 DEF vars, runVars, subVars, ReadInv, Reading, NotReading
  <2>2. ASSUME NEW r \in Runs, Stop(r) \/ DrainSteps(r) \/ Evict(r)
        PROVE  ReadInv'
    BY <2>2, ReadInvDrain
  <2>3. ASSUME NEW s \in Subs, Start(s) \/ Resume(s) PROVE ReadInv'
    BY <2>3, ReadInvStart
  <2>4. ASSUME NEW s \in Subs, PollEnd(s) \/ BodySteps(s) \/ Disconnect(s)
        PROVE  ReadInv'
    BY <2>4, ReadInvBody
  <2> QED BY <2>1, <2>2, <2>3, <2>4 DEF Next
<1> QED BY <1>1, ReadInvInit, TypeCorrect, RegInvInvariant, PTL DEF Spec

\* What a client has received is a prefix of the stream of the run its response
\* headers named, with nothing missing, repeated or out of order.
THEOREM ReplayCorrect == Spec => []ReplayExact
<1>1. ReadInv => ReplayExact BY DEF ReadInv, Reading, ReplayExact, Stream
<1> QED BY <1>1, ReadInvInvariant, PTL

\* A generator that returns by itself from a run that is done has delivered the
\* whole stream.
THEOREM DeliveryCorrect == Spec => WholeStreamDelivered
<1>1. ASSUME TypeOK, ReadInv, NEW s \in Subs, Close(s)
      PROVE  Len(got[s]) = buffered[srun[s]]
  <2>1. Reading(s) /\ next[s] >= buffered[srun[s]]
    BY <1>1 DEF ReadInv, Close, Attached, CaughtUp
  <2>2. /\ next[s] \in Nat /\ buffered[srun[s]] \in Nat
        /\ got[s] = Stream(srun[s], next[s])
    BY <1>1, <2>1 DEF TypeOK, Reading
  <2>3. next[s] = buffered[srun[s]] BY <2>1, <2>2 DEF Reading
  <2> QED BY <2>2, <2>3 DEF Stream
<1>2. TypeOK /\ ReadInv /\ [Next]_vars
        => [\A s \in Subs : Close(s) /\ status[srun[s]] = "done"
                              => Len(got[s]) = buffered[srun[s]]]_vars
  BY <1>1
<1> QED BY <1>2, TypeCorrect, ReadInvInvariant, PTL DEF Spec, WholeStreamDelivered

-----------------------------------------------------------------------------
(* Nobody waits in vain. *)

\* Task r is on its way out.
Leaving(r) == cancelled[r] \/ phase[r] \in {"unwinding", "shielding"}

\* Whoever is somebody's predecessor and still in flight is leaving; this is kept
\* also for tasks that are over themselves.
LeaveInv == \A r \in Runs : /\ prev[r] < r
                            /\ InFlight(prev[r]) => Leaving(prev[r])

LEMMA LeaveInvInit == Init => LeaveInv
BY DEF Init, LeaveInv, InFlight, NoRun, Runs

LEMMA LeaveInvStart ==
  ASSUME TypeOK, RegInv, LeaveInv, NEW s \in Subs, Start(s)
  PROVE  LeaveInv'
<1> USE AgentRunsAssumption DEF NoRun
<1> DEFINE r == started + 1
           p == reg
<1>1. /\ r \in Runs /\ phase[r] = "unborn" /\ ~cancelled[r] /\ started \in Nat
  BY DEF TypeOK, RegInv, Start, Runs
<1>2. /\ phase' = [phase EXCEPT ![r] = "created"]
      /\ prev' = [prev EXCEPT ![r] = Predecessor(p)]
      /\ CancelPredecessor(p)
  BY DEF Start
<1>3. p # NoRun => p \in Runs /\ p = started /\ p # r
  BY <1>1 DEF TypeOK, RegInv, Runs
<1>4. \A q \in Runs : cancelled[q] => cancelled'[q]
  BY <1>2 DEF CancelPredecessor
<1>5. \A q \in Runs : q # r => phase'[q] = phase[q] /\ prev'[q] = prev[q]
  BY <1>2 DEF TypeOK
<1>6. prev'[r] = Predecessor(p) BY <1>1, <1>2 DEF TypeOK
<1> SUFFICES ASSUME NEW q \in Runs
             PROVE  prev'[q] < q /\ (InFlight(prev[q])' => Leaving(prev[q])')
  BY DEF LeaveInv
<1>7. CASE q = r
  <2>1. Predecessor(p) = NoRun \/ (Predecessor(p) = p /\ p # NoRun /\ InFlight(p))
    BY DEF Predecessor, InFlight
  <2>2. CASE Predecessor(p) = NoRun BY <1>1, <1>6, <1>7, <2>2 DEF InFlight
  <2>3. CASE Predecessor(p) = p /\ p # NoRun /\ InFlight(p)
    <3>1. cancelled'[p] BY <1>2, <1>3, <2>3 DEF CancelPredecessor
    <3> QED BY <1>1, <1>3, <1>6, <1>7, <2>3, <3>1 DEF Leaving
  <2> QED BY <2>1, <2>2, <2>3
<1>8. CASE q # r
  <2>1. prev'[q] = prev[q] /\ prev[q] < q BY <1>5, <1>8 DEF LeaveInv
  <2>2. ASSUME InFlight(prev[q])' PROVE Leaving(prev[q])'
    <3>1. prev[q] \in Runs BY <2>1, <2>2, RunsFacts DEF InFlight, TypeOK
    <3>2. prev[q] # r
      <4>1. prev[q] = r => InFlight(prev[q]) /\ ~Leaving(prev[q])
        BY <1>1, <3>1 DEF InFlight, Leaving, Runs
      <4> QED BY <4>1 DEF LeaveInv
    <3>3. phase'[prev[q]] = phase[prev[q]] BY <1>5, <3>1, <3>2
    <3>4. Leaving(prev[q]) BY <2>1, <2>2, <3>3 DEF LeaveInv, InFlight
    <3> QED BY <1>4, <2>1, <3>1, <3>3, <3>4 DEF Leaving
  <2> QED BY <2>1, <2>2
<1> QED BY <1>7, <1>8

\* A task that is leaving goes on leaving until it is over.
LEMMA LeaveInvDrain ==
  ASSUME TypeOK, LeaveInv, NEW r \in Runs, Stop(r) \/ DrainSteps(r) \/ Evict(r)
  PROVE  LeaveInv'
<1> USE DEF Stop, DrainSteps, CancelSteps, Begin, WaitOver, Emit, Complete, Fail,
            Unwound, ShieldOver, DropUnbegun, CancelWaiting, CancelStreaming,
            CancelShielding, Evict, FirstCreated, CanSave, EndTask
<1>1. prev' = prev OBVIOUS
<1>2. \A q \in Runs : q # r => phase'[q] = phase[q] /\ cancelled'[q] = cancelled[q]
  BY DEF TypeOK
<1>3. phase[r] = "finished" => phase'[r] = "finished" BY DEF TypeOK
<1>4. Leaving(r) /\ phase'[r] # "finished" => Leaving(r)'
  BY DEF TypeOK, Leaving
<1>5. \A q \in Runs : prev[q] # NoRun => prev[q] \in Runs
  BY RunsFacts DEF TypeOK
<1> QED BY <1>1, <1>2, <1>3, <1>4, <1>5 DEF LeaveInv, Leaving, InFlight

\* The sentinel is in the queue.
HasEnd(q) == \E i \in 1..Len(q) : q[i] = End

EndInv == \A s \in Subs :
            conn[s] = "live" /\ status[srun[s]] # "running" => HasEnd(queue[s])

LEMMA EndConcat ==
  ASSUME NEW q \in Seq(Int), NEW items \in Seq(Int), HasEnd(q) \/ HasEnd(items)
  PROVE  HasEnd(q \o items)
<1>1. CASE HasEnd(q)
  <2>1. PICK i \in 1..Len(q) : q[i] = End BY <1>1 DEF HasEnd
  <2>2. i \in 1..Len(q \o items) /\ (q \o items)[i] = End BY <2>1
  <2> QED BY <2>2 DEF HasEnd
<1>2. CASE HasEnd(items)
  <2>1. PICK i \in 1..Len(items) : items[i] = End BY <1>2 DEF HasEnd
  <2>2. /\ Len(q) + i \in 1..Len(q \o items)
        /\ (q \o items)[Len(q) + i] = End
    BY <2>1
  <2> QED BY <2>2 DEF HasEnd
<1> QED BY <1>1, <1>2

LEMMA EndTail ==
  ASSUME NEW q \in Seq(Int), q # <<>>, Head(q) # End, HasEnd(q)
  PROVE  HasEnd(Tail(q))
<1>1. PICK i \in 1..Len(q) : q[i] = End BY DEF HasEnd
<1>2. i # 1 BY <1>1
<1>3. i - 1 \in 1..Len(Tail(q)) /\ Tail(q)[i - 1] = q[i] BY <1>1, <1>2
<1> QED BY <1>1, <1>3 DEF HasEnd

\* A live reader was live on the same run before, its queue keeps the sentinel, and
\* it has it when the status of the run changed; or its run is running.
StillLive(s) ==
  conn'[s] = "live" =>
    \/ status'[srun'[s]] = "running"
    \/ /\ conn[s] = "live" /\ srun'[s] = srun[s]
       /\ HasEnd(queue[s]) => HasEnd(queue'[s])
       /\ status'[srun[s]] = status[srun[s]] \/ HasEnd(queue'[s])

LEMMA EndInvKept ==
  ASSUME EndInv, \A s \in Subs : StillLive(s)
  PROVE  EndInv'
<1> SUFFICES ASSUME NEW s \in Subs, conn'[s] = "live", status'[srun'[s]] # "running"
             PROVE  HasEnd(queue'[s])
  BY DEF EndInv, HasEnd
<1> QED BY DEF EndInv, StillLive

\* Publishing keeps the sentinel, or brings it.
LEMMA EndInvFan ==
  ASSUME TypeOK, ReadInv, EndInv, NEW r \in Runs, NEW items \in Seq(Int),
         FanOut(r, items), UNCHANGED srun,
         \A s \in Subs : conn'[s] = "live" => conn[s] = "live",
         \A q \in Runs : q # r => status'[q] = status[q],
         status'[r] = status[r] \/ HasEnd(items)
  PROVE  EndInv'
<1> SUFFICES ASSUME NEW s \in Subs, conn'[s] = "live" PROVE StillLive(s)
  BY EndInvKept DEF StillLive
<1>1. conn[s] = "live" /\ srun'[s] = srun[s] /\ queue[s] \in Seq(Int)
  BY DEF TypeOK
<1>2. srun[s] \in Runs BY <1>1 DEF ReadInv, Reading, Attached
<1>3. queue'[s] = IF srun[s] = r THEN queue[s] \o items ELSE queue[s]
  BY <1>1 DEF FanOut, Subscribers, Attached
<1>4. HasEnd(queue[s]) => HasEnd(queue'[s]) BY <1>1, <1>3, EndConcat
<1>5. status'[srun[s]] = status[srun[s]] \/ HasEnd(queue'[s])
  BY <1>1, <1>2, <1>3, EndConcat
<1> QED BY <1>1, <1>4, <1>5 DEF StillLive

LEMMA EndInvDrain ==
  ASSUME TypeOK, ReadInv, EndInv, NEW r \in Runs,
         Stop(r) \/ DrainSteps(r) \/ Evict(r)
  PROVE  EndInv'
<1>1. UNCHANGED <<conn, srun>>
  BY DEF Stop, DrainSteps, CancelSteps, Begin, WaitOver, Emit, Complete, Fail,
         Unwound, ShieldOver, DropUnbegun, CancelWaiting, CancelStreaming,
         CancelShielding, Evict, subVars
<1>2. CASE Stop(r) \/ Begin(r) \/ WaitOver(r) \/ DropUnbegun(r)
           \/ CancelStreaming(r) \/ ShieldOver(r) \/ CancelShielding(r) \/ Evict(r)
  <2>1. UNCHANGED <<status, queue>>
    BY <1>2 DEF Stop, Begin, WaitOver, ShieldOver, DropUnbegun, CancelStreaming,
                CancelShielding, Evict, subVars
  <2> QED BY <1>1, <2>1 DEF EndInv, HasEnd
<1>3. \A q \in Runs : q # r => status'[q] = status[q]
  BY DEF Stop, DrainSteps, CancelSteps, Begin, WaitOver, Emit, Complete, Fail,
         Unwound, ShieldOver, DropUnbegun, CancelWaiting, CancelStreaming,
         CancelShielding, Evict, TypeOK
<1>4. <<End>> \in Seq(Int) /\ HasEnd(<<End>>) BY DEF HasEnd, End
<1>5. CASE Complete(r) \/ CancelWaiting(r) \/ Unwound(r)
  <2>1. FanOut(r, <<End>>) BY <1>5 DEF Complete, CancelWaiting, Unwound
  <2> QED BY <1>1, <1>3, <1>4, <2>1, EndInvFan
<1>6. CASE Emit(r)
  <2>1. /\ FanOut(r, <<buffered[r]>>) /\ status' = status
        /\ <<buffered[r]>> \in Seq(Int)
    BY <1>6 DEF Emit, TypeOK
  <2> QED BY <1>1, <1>3, <2>1, EndInvFan
<1>7. CASE Fail(r)
  <2>1. FanOut(r, ErrorTrailer(r) \o <<End>>) BY <1>7 DEF Fail
  <2>2. ErrorTrailer(r) \in Seq(Int) BY DEF ErrorTrailer, TypeOK
  <2>3. HasEnd(ErrorTrailer(r) \o <<End>>) BY <1>4, <2>2, EndConcat
  <2>4. ErrorTrailer(r) \o <<End>> \in Seq(Int) BY <1>4, <2>2
  <2> QED BY <1>1, <1>3, <2>1, <2>3, <2>4, EndInvFan
<1> QED BY <1>2, <1>5, <1>6, <1>7 DEF DrainSteps, CancelSteps

LEMMA EndInvStart ==
  ASSUME TypeOK, ReadInv, EndInv, NEW s \in Subs, Start(s) \/ Resume(s)
  PROVE  EndInv'
<1>1. /\ UNCHANGED srun
      /\ \A t \in Subs : conn'[t] = "live" => conn[t] = "live"
  BY DEF Start, Resume, TypeOK
<1>2. CASE UNCHANGED <<status, queue>>
  BY <1>1, <1>2 DEF EndInv, HasEnd
<1>3. CASE ~UNCHANGED <<status, queue>>
  <2>1. /\ reg \in Runs /\ FanOut(reg, <<End>>)
        /\ \A q \in Runs : q # reg => status'[q] = status[q]
    BY <1>3, RunsFacts DEF Start, Resume, Terminalize, InFlight, TypeOK, runVars
  <2>2. <<End>> \in Seq(Int) /\ HasEnd(<<End>>) BY DEF HasEnd, End
  <2> QED BY <1>1, <2>1, <2>2, EndInvFan
<1> QED BY <1>2, <1>3

LEMMA EndInvBody ==
  ASSUME TypeOK, EndInv, NEW s \in Subs, PollEnd(s) \/ BodySteps(s) \/ Disconnect(s)
  PROVE  EndInv'
<1>1. status' = status BY BodyFrame
<1>2. Alone(s)
  BY SMTT(30) DEF PollEnd, BodySteps, Disconnect, Attach, Replay, GoLive, GetEvent,
         GetEnd, Flush, Close, Detach, Yield, runVars, Alone, TypeOK
<1>3. \A t \in Subs : t # s => StillLive(t) BY <1>1, <1>2 DEF StillLive, Alone
<1>4. StillLive(s)
  <2>1. CASE GoLive(s) BY <2>1 DEF GoLive, StillLive, runVars
  <2>2. CASE GetEvent(s)
    <3>1. /\ queue[s] \in Seq(Int) /\ queue[s] # <<>> /\ Head(queue[s]) # End
          /\ queue'[s] = Tail(queue[s]) /\ UNCHANGED <<conn, srun>>
          /\ conn[s] = "live"
      BY <2>2 DEF GetEvent, TypeOK
    <3> QED BY <1>1, <3>1, EndTail DEF StillLive
  <2>3. CASE ~GoLive(s) /\ ~GetEvent(s)
    <3>1. conn'[s] # "live"
      BY <2>3 DEF PollEnd, BodySteps, Disconnect, Attach, Replay, GetEnd, Flush,
                  Close, Detach, TypeOK
    <3> QED BY <3>1 DEF StillLive
  <2> QED BY <2>1, <2>2, <2>3
<1> QED BY <1>3, <1>4, EndInvKept

LEMMA WaitInvariant == Spec => [](LeaveInv /\ EndInv)
<1> DEFINE WaitInv == LeaveInv /\ EndInv
<1>1. Init => WaitInv BY LeaveInvInit DEF Init, EndInv
<1>2. TypeOK /\ RegInv /\ ReadInv /\ WaitInv /\ [Next]_vars => WaitInv'
  <2> SUFFICES ASSUME TypeOK, RegInv, ReadInv, LeaveInv, EndInv, [Next]_vars
               PROVE  LeaveInv' /\ EndInv'
    OBVIOUS
  <2>1. CASE UNCHANGED vars
    BY <2>1 DEF vars, runVars, subVars, LeaveInv, Leaving, InFlight, EndInv, HasEnd
  <2>2. ASSUME NEW r \in Runs, Stop(r) \/ DrainSteps(r) \/ Evict(r)
        PROVE  LeaveInv' /\ EndInv'
    BY <2>2, LeaveInvDrain, EndInvDrain
  <2>3. ASSUME NEW s \in Subs, Start(s) PROVE LeaveInv' /\ EndInv'
    BY <2>3, LeaveInvStart, EndInvStart
  <2>4. ASSUME NEW s \in Subs,
               Resume(s) \/ PollEnd(s) \/ BodySteps(s) \/ Disconnect(s)
        PROVE  LeaveInv' /\ EndInv'
    BY <2>4, BodyFrame, EndInvStart, EndInvBody DEF LeaveInv, Leaving, InFlight
  <2> QED BY <2>1, <2>2, <2>3, <2>4 DEF Next
<1> QED BY <1>1, <1>2, TypeCorrect, RegInvInvariant, ReadInvInvariant, PTL DEF Spec

\* A task only ever waits for an older one that is on its way out, and a reader of
\* a run that is over has the sentinel coming.
THEOREM WaitsEnd == Spec => []NobodyWaitsInVain
<1>1. LeaveInv /\ EndInv => NobodyWaitsInVain
  BY DEF LeaveInv, Leaving, EndInv, HasEnd, NobodyWaitsInVain
<1> QED BY <1>1, WaitInvariant, PTL
-----------------------------------------------------------------------------
(* The runs implement RunTurns. *)

\* A task that is not over and was not cancelled has not been made terminal, and a
\* connection without a response follows nothing.
FreshInv ==
  /\ \A r \in Runs : /\ ~cancelled[r]
                     /\ phase[r] \in {"unborn", "created", "waiting", "streaming"}
                     => status[r] = "running"
  /\ \A s \in Subs : header[s] = NoRun <=> conn[s] = "idle"

LEMMA FreshInit == Init => FreshInv
BY DEF Init, FreshInv

LEMMA FreshStart ==
  ASSUME TypeOK, RegInv, FreshInv, NEW s \in Subs, Start(s)
  PROVE  FreshInv'
<1>1. started + 1 \in Runs /\ started + 1 # NoRun /\ reg \in 0..MaxRuns
  BY AgentRunsAssumption DEF Start, TypeOK, Runs, NoRun
<1>2. phase[started + 1] = "unborn" BY <1>1 DEF RegInv, TypeOK, Runs
<1>3. ASSUME NEW r \in Runs, ~cancelled'[r],
             phase'[r] \in {"unborn", "created", "waiting", "streaming"}
      PROVE  status'[r] = "running"
  <2>1. ~cancelled[r] /\ ~(r = reg /\ InFlight(reg))
    BY <1>3 DEF Start, CancelPredecessor, TypeOK
  <2>2. status'[r] = status[r]
    BY <2>1 DEF Start, Terminalize, TypeOK
  <2>3. phase[r] \in {"unborn", "created", "waiting", "streaming"}
    BY <1>2, <1>3 DEF Start, TypeOK
  <2> QED BY <2>1, <2>2, <2>3 DEF FreshInv
<1>4. ASSUME NEW t \in Subs PROVE header'[t] = NoRun <=> conn'[t] = "idle"
  BY <1>1 DEF FreshInv, Start, TypeOK
<1> QED BY <1>3, <1>4 DEF FreshInv

LEMMA FreshDrain ==
  ASSUME TypeOK, RegInv, FreshInv, NEW r \in Runs, Stop(r) \/ DrainSteps(r) \/ Evict(r)
  PROVE  FreshInv'
<1>1. UNCHANGED <<header, conn>>
  BY DEF Stop, DrainSteps, CancelSteps, Begin, WaitOver, Emit, Complete, Fail,
         Unwound, ShieldOver, DropUnbegun, CancelWaiting, CancelStreaming,
         CancelShielding, Evict, subVars
<1>2. \A q \in Runs : q # r => UNCHANGED <<status[q], phase[q], cancelled[q]>>
  BY DEF Stop, DrainSteps, CancelSteps, Begin, WaitOver, Emit, Complete, Fail,
         Unwound, ShieldOver, DropUnbegun, CancelWaiting, CancelStreaming,
         CancelShielding, Evict, EndTask, TypeOK
<1>3. \/ cancelled'[r]
      \/ phase'[r] \notin {"unborn", "created", "waiting", "streaming"}
      \/ /\ UNCHANGED <<status[r], cancelled[r]>>
         /\ phase[r] \in {"unborn", "created", "waiting", "streaming"}
  <2>1. CASE Stop(r) BY <2>1 DEF Stop, TypeOK
  <2>2. CASE Begin(r) \/ WaitOver(r) \/ Emit(r) \/ Evict(r)
    BY <2>2 DEF Begin, FirstCreated, WaitOver, Emit, Evict, TypeOK
  <2>3. CASE Complete(r) \/ Fail(r) \/ Unwound(r) \/ ShieldOver(r)
    BY <2>3 DEF Complete, Fail, Unwound, ShieldOver, EndTask, TypeOK
  <2>4. CASE DropUnbegun(r) \/ CancelWaiting(r) \/ CancelStreaming(r) \/ CancelShielding(r)
    BY <2>4 DEF DropUnbegun, CancelWaiting, CancelStreaming, CancelShielding, EndTask, TypeOK
  <2> QED BY <2>1, <2>2, <2>3, <2>4 DEF DrainSteps, CancelSteps
<1> QED BY <1>1, <1>2, <1>3 DEF FreshInv

LEMMA FreshBody ==
  ASSUME TypeOK, FreshInv, NEW s \in Subs,
         Resume(s) \/ PollEnd(s) \/ BodySteps(s) \/ Disconnect(s)
  PROVE  FreshInv'
<1>1. UNCHANGED <<status, phase, cancelled>> BY BodyFrame
<1>2. \A t \in Subs : t # s => UNCHANGED <<header[t], conn[t]>>
  BY DEF Resume, PollEnd, BodySteps, Attach, Replay, GoLive, GetEvent, GetEnd,
         Flush, Close, Disconnect, Detach, TypeOK
<1>3. header'[s] = NoRun <=> conn'[s] = "idle"
  <2>1. CASE Resume(s)
    BY <2>1 DEF Resume, IsActive, TypeOK
  <2>2. CASE PollEnd(s) \/ BodySteps(s)
    BY <2>2 DEF PollEnd, BodySteps, Attach, Replay, GoLive, GetEvent, GetEnd,
                Flush, Close, Detach, TypeOK, FreshInv
  <2>3. CASE Disconnect(s) BY <2>3 DEF Disconnect, Detach, TypeOK
  <2> QED BY <2>1, <2>2, <2>3
<1> QED BY <1>1, <1>2, <1>3 DEF FreshInv

\* What a step of the runs may rely on.
TurnInv == TypeOK /\ RegInv /\ BarrierInv /\ ReadInv /\ LeaveInv /\ FreshInv

LEMMA TurnInvariant == Spec => []TurnInv
<1>1. TypeOK /\ RegInv /\ FreshInv /\ [Next]_vars => FreshInv'
  <2> SUFFICES ASSUME TypeOK, RegInv, FreshInv, [Next]_vars PROVE FreshInv' OBVIOUS
  <2>1. CASE UNCHANGED vars BY <2>1 DEF vars, runVars, subVars, FreshInv
  <2>2. ASSUME NEW r \in Runs, Stop(r) \/ DrainSteps(r) \/ Evict(r) PROVE FreshInv'
    BY <2>2, FreshDrain
  <2>3. ASSUME NEW s \in Subs, Start(s) PROVE FreshInv' BY <2>3, FreshStart
  <2>4. ASSUME NEW s \in Subs,
               Resume(s) \/ PollEnd(s) \/ BodySteps(s) \/ Disconnect(s)
        PROVE  FreshInv'
    BY <2>4, FreshBody
  <2> QED BY <2>1, <2>2, <2>3, <2>4 DEF Next
<1> QED BY <1>1, FreshInit, TypeCorrect, RegInvInvariant, BarrierInvariant,
           ReadInvInvariant, WaitInvariant, PTL DEF Spec, TurnInv

\* The run that is reported is the latest one; its task is alive.
LEMMA LiveFacts ==
  ASSUME TypeOK, RegInv
  PROVE  /\ LiveRun \in 0..started /\ started \in Nat
         /\ LiveRun # NoRun => /\ LiveRun = started /\ LiveRun \in Runs
                               /\ LiveRun \notin OverRuns
         /\ \A r \in Runs : r <= started => (LiveRun = r <=> status[r] = "running")
<1>1. started \in 0..MaxRuns /\ reg \in {0, started} /\ MaxRuns \in Nat
  BY AgentRunsAssumption DEF TypeOK, RegInv, NoRun
<1>2. \A r \in 1..started : status[r] = "running" => reg = r /\ InFlight(r)
  BY DEF RegInv, OneRunning
<1>3. \A r \in 1..started : r \in Runs BY <1>1 DEF Runs
<1>4. LiveRun # NoRun => LiveRun = started /\ started \in 1..started /\ status[started] = "running"
  BY <1>1 DEF LiveRun, IsActive, NoRun
<1>5. \A r \in Runs : r <= started => r \in 1..started /\ r # NoRun BY <1>1 DEF Runs, NoRun
<1>6. ASSUME NEW r \in Runs, r <= started PROVE LiveRun = r <=> status[r] = "running"
  <2>1. status[r] = "running" => LiveRun = r
    BY <1>2, <1>5, <1>6 DEF LiveRun, IsActive
  <2>2. LiveRun = r => status[r] = "running"
    BY <1>5, <1>6 DEF LiveRun, IsActive
  <2> QED BY <2>1, <2>2
<1>7. LiveRun # NoRun => LiveRun \notin OverRuns
  BY <1>2, <1>4 DEF OverRuns, InFlight
<1>8. LiveRun \in 0..started BY <1>1 DEF LiveRun, NoRun
<1> QED BY <1>1, <1>3, <1>4, <1>6, <1>7, <1>8

\* A run with an open stream may write.
LEMMA MayWriteFact ==
  ASSUME TypeOK, BarrierInv, NEW r \in Runs, r <= started, CanSave(r)
  PROVE  Turn!MayWrite(r)
<1>1. started \in 0..MaxRuns /\ MaxRuns \in Nat BY AgentRunsAssumption DEF TypeOK
<1>2. SUFFICES ASSUME lapsed = {}, NEW p \in 1..(r - 1) PROVE p \in OverRuns
  BY DEF Turn!MayWrite
<1>3. p \in 1..started /\ r \in 1..started /\ p < r /\ p \in Runs BY <1>1 DEF Runs
<1>4. phase[p] = "finished" \/ \E k \in p..(r - 1) : k \in lapsed
  BY <1>3 DEF BarrierInv, Passed
<1> QED BY <1>2, <1>3, <1>4 DEF OverRuns

\* A task that ends is a turn that is over.
LEMMA FinishStep ==
  ASSUME TurnInv, NEW r \in Runs, phase[r] \notin {"unborn", "finished"},
         phase' = [phase EXCEPT ![r] = "finished"],
         UNCHANGED <<started, reg, header, got>>,
         \A q \in Runs : q # r => status'[q] = status[q],
         status'[r] # "running",
         \/ UNCHANGED <<buffered, saves>>
         \/ /\ CanSave(r)
            /\ buffered' = [buffered EXCEPT ![r] = @ + 2] /\ UNCHANGED saves
         \/ CanSave(r) /\ saves' = Append(saves, r) /\ UNCHANGED buffered,
         UNCHANGED lapsed \/ Lapse(r)
  PROVE  Turn!Finish(r)
<1>1. TypeOK /\ RegInv /\ BarrierInv /\ LeaveInv BY DEF TurnInv
<1>2. r <= started /\ r \in 1..started /\ r \notin OverRuns /\ r # NoRun
  BY <1>1, AgentRunsAssumption DEF RegInv, TypeOK, Runs, OverRuns, NoRun
<1>3. OverRuns' = OverRuns \cup {r} BY <1>1 DEF OverRuns, TypeOK
<1>4. LiveRun' = IF LiveRun = r THEN NoRun ELSE LiveRun
  <2>1. reg = r => LiveRun' = NoRun BY DEF LiveRun, IsActive
  <2>2. reg = NoRun => LiveRun' = NoRun /\ LiveRun = NoRun BY DEF LiveRun, IsActive
  <2>3. reg \in Runs /\ reg # r => LiveRun' = LiveRun /\ LiveRun # r
    BY <1>2 DEF LiveRun, IsActive
  <2>4. reg \in Runs \cup {NoRun} BY <1>1 DEF TypeOK, Runs, NoRun
  <2>5. LiveRun \in {reg, NoRun} BY DEF LiveRun
  <2> QED BY <1>2, <2>1, <2>2, <2>3, <2>4, <2>5
<1>5. CanSave(r) => Turn!MayWrite(r) BY <1>1, <1>2, MayWriteFact
<1>6. \/ (lapsed = {})' = (lapsed = {})
      \/ \E u \in Runs : u < r /\ Turn!CutOff(u)
  <2>1. CASE UNCHANGED lapsed BY <2>1
  <2>2. CASE Lapse(r) /\ InFlight(prev[r])
    <3>1. (lapsed = {})' = FALSE BY <2>2 DEF Lapse
    <3>2. prev[r] \in Runs /\ prev[r] < r /\ prev[r] \in 1..started
      <4>1. prev[r] \in 0..MaxRuns /\ prev[r] # NoRun /\ prev[r] < r
        BY <1>1, <2>2 DEF LeaveInv, InFlight, TypeOK
      <4>2. started \in Nat /\ MaxRuns \in Nat /\ r \in Nat
        BY <1>1, AgentRunsAssumption DEF TypeOK, Runs
      <4> QED BY <1>2, <4>1, <4>2 DEF Runs, NoRun
    <3>3. prev[r] \notin OverRuns BY <2>2 DEF InFlight, OverRuns
    <3> QED BY <3>1, <3>2, <3>3 DEF Turn!CutOff
  <2>3. CASE Lapse(r) /\ ~InFlight(prev[r]) BY <2>3 DEF Lapse
  <2> QED BY <2>1, <2>2, <2>3
<1> QED BY <1>2, <1>3, <1>4, <1>5, <1>6 DEF Turn!Finish, NoRun

LEMMA TurnInit == Init => Turn!TInit
BY DEF Init, Turn!TInit, LiveRun, IsActive, OverRuns, NoRun

\* What a step leaves alone that moves no turn.
Silent == UNCHANGED <<started, reg, status, OverRuns, buffered, saves, lapsed, header, got>>

LEMMA SilentStep == ASSUME Silent PROVE UNCHANGED Turn!tvars
BY DEF Silent, Turn!tvars, LiveRun, IsActive

LEMMA StartTurn ==
  ASSUME TurnInv, NEW s \in Subs, Start(s) \/ Resume(s)
  PROVE  Turn!TNext
<1>1. TypeOK /\ RegInv /\ FreshInv /\ ReadInv BY DEF TurnInv
<1>2. conn[s] = "idle" /\ header[s] = 0 BY <1>1 DEF Start, Resume, FreshInv, NoRun
<1>3. CASE Start(s)
  <2>1. started + 1 \in Runs /\ reg \in {0, started} /\ started \in Nat
    BY <1>1, <1>3, AgentRunsAssumption DEF Start, TypeOK, Runs, RegInv, NoRun
  <2>2. status[started + 1] = "running"
    BY <1>1, <2>1 DEF RegInv, FreshInv, Runs
  <2>3. status'[started + 1] = "running"
    <3>1. reg # started + 1 BY <2>1
    <3>2. status' = status \/ status' = [status EXCEPT ![reg] = "stopped"]
      BY <1>3 DEF Start, Terminalize
    <3> QED BY <1>1, <2>1, <2>2, <3>1, <3>2 DEF TypeOK
  <2>4. LiveRun' = started + 1
    BY <1>3, <2>1, <2>3 DEF Start, LiveRun, IsActive, NoRun
  <2>5. OverRuns' = OverRuns
    <3>1. phase[started + 1] # "finished" BY <1>1, <2>1 DEF RegInv, Runs
    <3>2. \A r \in Runs : phase'[r] = "finished" <=> phase[r] = "finished"
      BY <1>1, <1>3, <3>1 DEF Start, TypeOK
    <3> QED BY <3>2 DEF OverRuns
  <2>6. Turn!Send(s) BY <1>2, <1>3, <2>1, <2>4, <2>5 DEF Start, Turn!Send
  <2> QED BY <2>6 DEF Turn!TNext
<1>4. CASE Resume(s)
  <2>1. LiveRun = reg /\ reg # 0 BY <1>4 DEF Resume, LiveRun, IsActive, NoRun
  <2>2. LiveRun' = LiveRun /\ OverRuns' = OverRuns
    BY <1>4 DEF Resume, LiveRun, IsActive, OverRuns, runVars
  <2>3. Turn!Follow(s) BY <1>2, <1>4, <2>1, <2>2 DEF Resume, runVars, Turn!Follow
  <2> QED BY <2>3 DEF Turn!TNext
<1> QED BY <1>3, <1>4

LEMMA EmitTurn ==
  ASSUME TurnInv, NEW r \in Runs, Emit(r)
  PROVE  Turn!Write
<1>1. TypeOK /\ RegInv /\ BarrierInv /\ FreshInv BY DEF TurnInv
<1>2. CanSave(r) /\ status[r] = "running" BY <1>1 DEF Emit, CanSave, FreshInv
<1>3. r <= started /\ r # 0
  BY <1>1, AgentRunsAssumption DEF Emit, RegInv, TypeOK, Runs
<1>4. LiveRun = r /\ LiveRun \notin OverRuns BY <1>1, <1>2, <1>3, LiveFacts DEF NoRun
<1>5. Turn!MayWrite(r) BY <1>1, <1>2, <1>3, MayWriteFact
<1>6. UNCHANGED <<LiveRun, OverRuns>> BY DEF Emit, LiveRun, IsActive, OverRuns
<1> QED BY <1>3, <1>4, <1>5, <1>6 DEF Emit, Turn!Write

LEMMA DrainTurn ==
  ASSUME TurnInv, NEW r \in Runs, Stop(r) \/ DrainSteps(r) \/ Evict(r)
  PROVE  Turn!TNext \/ UNCHANGED Turn!tvars
<1>1. TypeOK /\ RegInv /\ FreshInv BY DEF TurnInv
<1>2. CASE Stop(r) \/ CancelStreaming(r) \/ Begin(r) \/ WaitOver(r)
  <2>1. \A q \in Runs : phase'[q] = "finished" <=> phase[q] = "finished"
    BY <1>1, <1>2 DEF Stop, CancelStreaming, CanSave, Begin, FirstCreated, WaitOver, TypeOK
  <2>2. Silent
    BY <1>2, <2>1 DEF Stop, CancelStreaming, Begin, WaitOver, Silent, OverRuns, subVars
  <2> QED BY <2>2, SilentStep
<1>3. CASE Emit(r) BY <1>3, EmitTurn DEF Turn!TNext
<1>4. CASE Complete(r)
  <2>1. status'[r] # "running" BY <1>1, <1>4 DEF Complete, TypeOK
  <2>2. phase[r] = "streaming" /\ phase' = [phase EXCEPT ![r] = "finished"]
        /\ (\A q \in Runs : q # r => status'[q] = status[q])
        /\ UNCHANGED <<started, reg, buffered, saves, lapsed, header, got>>
    BY <1>1, <1>4 DEF Complete, EndTask, TypeOK
  <2>3. Turn!Finish(r) BY <2>1, <2>2, FinishStep
  <2> QED BY <2>3 DEF Turn!TNext
<1>5. CASE Fail(r)
  <2>1. status'[r] # "running" BY <1>1, <1>5 DEF Fail, TypeOK
  <2>2. CanSave(r) /\ phase[r] \notin {"unborn", "finished"}
        /\ phase' = [phase EXCEPT ![r] = "finished"]
        /\ (\A q \in Runs : q # r => status'[q] = status[q])
        /\ buffered' = [buffered EXCEPT ![r] = @ + 2]
        /\ UNCHANGED <<started, reg, saves, lapsed, header, got>>
    BY <1>1, <1>5 DEF Fail, EndTask, CanSave, TypeOK
  <2>3. Turn!Finish(r) BY <2>1, <2>2, FinishStep
  <2> QED BY <2>3 DEF Turn!TNext
<1>6. CASE DropUnbegun(r)
  <2>1. status'[r] # "running" BY <1>1, <1>6 DEF DropUnbegun, FirstCreated, RegInv
  <2>2. phase[r] = "created" /\ phase' = [phase EXCEPT ![r] = "finished"]
        /\ status' = status /\ Lapse(r)
        /\ UNCHANGED <<started, reg, buffered, saves, header, got>>
    BY <1>6 DEF DropUnbegun, FirstCreated, subVars
  <2>3. Turn!Finish(r) BY <2>1, <2>2, FinishStep
  <2> QED BY <2>3 DEF Turn!TNext
<1>7. CASE CancelWaiting(r)
  <2>1. status'[r] = "stopped" /\ (\A q \in Runs : q # r => status'[q] = status[q])
        /\ phase[r] = "waiting"
        /\ UNCHANGED <<started, reg, buffered, saves, lapsed, header, got>>
    BY <1>1, <1>7 DEF CancelWaiting, TypeOK
  <2>2. CASE Held(r)
    <3>1. OverRuns' = OverRuns
      <4>1. \A q \in Runs : phase'[q] = "finished" <=> phase[q] = "finished"
        BY <1>1, <1>7, <2>1, <2>2 DEF CancelWaiting, TypeOK
      <4> QED BY <4>1 DEF OverRuns
    <3>2. LiveRun' = LiveRun \/ (LiveRun # 0 /\ LiveRun' = 0)
      BY <1>1, <2>1 DEF LiveRun, IsActive, NoRun, TypeOK, Runs
    <3>3. CASE LiveRun' = LiveRun BY <2>1, <3>1, <3>3 DEF Turn!tvars
    <3>4. CASE LiveRun # 0 /\ LiveRun' = 0
      <4>1. Turn!Halt BY <2>1, <3>1, <3>4 DEF Turn!Halt
      <4> QED BY <4>1 DEF Turn!TNext
    <3> QED BY <3>2, <3>3, <3>4
  <2>3. CASE ~Held(r)
    <3>1. phase' = [phase EXCEPT ![r] = "finished"]
      BY <1>7, <2>3 DEF CancelWaiting, EndTask
    <3>2. Turn!Finish(r) BY <2>1, <3>1, FinishStep
    <3> QED BY <3>2 DEF Turn!TNext
  <2> QED BY <2>2, <2>3
<1>8. CASE Unwound(r)
  <2>1. status'[r] = "stopped" /\ (\A q \in Runs : q # r => status'[q] = status[q])
        /\ phase[r] = "unwinding" /\ CanSave(r)
        /\ phase' = [phase EXCEPT ![r] = "finished"]
        /\ (UNCHANGED saves \/ saves' = Append(saves, r))
        /\ UNCHANGED <<started, reg, buffered, lapsed, header, got>>
    BY <1>1, <1>8 DEF Unwound, EndTask, CanSave, TypeOK
  <2>2. Turn!Finish(r) BY <2>1, FinishStep
  <2> QED BY <2>2 DEF Turn!TNext
<1>9. CASE ShieldOver(r) \/ CancelShielding(r)
  <2>1. status'[r] # "running" /\ status' = status
        /\ phase[r] = "shielding" /\ phase' = [phase EXCEPT ![r] = "finished"]
        /\ (UNCHANGED lapsed \/ Lapse(r))
        /\ UNCHANGED <<started, reg, buffered, saves, header, got>>
    BY <1>1, <1>9 DEF ShieldOver, CancelShielding, EndTask, RegInv, subVars
  <2>2. Turn!Finish(r) BY <2>1, FinishStep
  <2> QED BY <2>2 DEF Turn!TNext
<1>10. CASE Evict(r)
  <2>1. UNCHANGED <<started, status, phase, buffered, saves, header, got>>
    BY <1>10 DEF Evict, subVars
  <2>2. OverRuns' = OverRuns BY <2>1 DEF OverRuns
  <2>3. CASE Evictable(r)
    <3>1. LiveRun = 0 /\ LiveRun' = 0
      BY <1>10, <2>3 DEF Evict, Evictable, LiveRun, IsActive, NoRun
    <3>2. CASE InFlight(r)
      <4>1. (lapsed = {})' = FALSE BY <1>10, <2>3, <3>2 DEF Evict
      <4>2. r \in 1..started /\ r \notin OverRuns
        BY <1>1, <2>3, <3>2, AgentRunsAssumption
           DEF Evictable, RegInv, InFlight, OverRuns, TypeOK, Runs, NoRun
      <4>3. Turn!Forget BY <2>1, <2>2, <3>1, <4>1, <4>2 DEF Turn!Forget, Turn!CutOff
      <4> QED BY <4>3 DEF Turn!TNext
    <3>3. CASE ~InFlight(r)
      <4>1. lapsed' = lapsed BY <1>10, <2>3, <3>3 DEF Evict
      <4> QED BY <2>1, <2>2, <3>1, <4>1 DEF Turn!tvars
    <3> QED BY <3>2, <3>3
  <2>4. CASE ~Evictable(r)
    <3>1. Silent BY <1>10, <2>1, <2>2, <2>4 DEF Evict, Silent
    <3> QED BY <3>1, SilentStep
  <2> QED BY <2>3, <2>4
<1> QED BY <1>2, <1>3, <1>4, <1>5, <1>6, <1>7, <1>8, <1>9, <1>10 DEF DrainSteps, CancelSteps

LEMMA BodyTurn ==
  ASSUME TurnInv, NEW s \in Subs, PollEnd(s) \/ BodySteps(s) \/ Disconnect(s)
  PROVE  Turn!TNext \/ UNCHANGED Turn!tvars
<1>1. TypeOK /\ ReadInv /\ FreshInv BY DEF TurnInv
<1>2. UNCHANGED <<started, reg, status, phase, buffered, saves, lapsed>> BY BodyFrame
<1>3. UNCHANGED <<LiveRun, OverRuns>> BY <1>2 DEF LiveRun, IsActive, OverRuns
<1>4. CASE PollEnd(s) \/ Attach(s) \/ GoLive(s) \/ GetEnd(s)
           \/ (GetEvent(s) /\ ~Unseen(s, Head(queue[s])))
  <2>1. UNCHANGED <<header, got>>
    BY <1>4 DEF PollEnd, Attach, GoLive, GetEnd, GetEvent
  <2> QED BY <1>2, <1>3, <2>1 DEF Turn!tvars
<1>5. CASE Replay(s) \/ Flush(s) \/ (GetEvent(s) /\ Unseen(s, Head(queue[s])))
  <2>1. conn[s] \in Attached BY <1>5 DEF Replay, Flush, GetEvent, Attached
  <2>2. Reading(s) /\ header[s] # 0 BY <1>1, <2>1 DEF ReadInv, FreshInv, Attached, NoRun
  <2>3. Len(got[s]) = next[s] BY <1>1, <2>2 DEF Reading, Stream, TypeOK
  <2>4. UNCHANGED header /\ (Yield(s, next[s]) /\ next[s] < buffered[srun[s]])
    <3>1. CASE Replay(s) \/ Flush(s) BY <3>1 DEF Replay, Flush
    <3>2. CASE GetEvent(s) /\ Unseen(s, Head(queue[s]))
      <4>1. queue[s] \in Seq(Int) /\ queue[s] # <<>> /\ next[s] \in Nat
            /\ buffered[srun[s]] \in Nat /\ queue[s][1] # End /\ queue[s][1] >= next[s]
        BY <1>1, <2>2, <3>2 DEF GetEvent, Unseen, TypeOK, Reading
      <4>2. queue[s][1] \in 0..(buffered[srun[s]] - 1)
        BY <2>2, <4>1 DEF Reading, GoodQueue
      <4>3. queue[s][1] <= next[s]
        BY <2>2, <3>2, <4>1 DEF Reading, NoGap, GetEvent
      <4>4. Head(queue[s]) = next[s] BY <4>1, <4>2, <4>3
      <4> QED BY <3>2, <4>1, <4>2, <4>4 DEF GetEvent
    <3> QED BY <1>5, <3>1, <3>2
  <2>5. Turn!Read(s)
    BY <1>1, <1>2, <1>3, <2>2, <2>3, <2>4 DEF Turn!Read, Yield, Reading, TypeOK
  <2> QED BY <2>5 DEF Turn!TNext
<1>6. CASE Close(s) \/ Disconnect(s)
  <2>1. header[s] # 0 BY <1>1, <1>6 DEF Close, Disconnect, FreshInv, Attached, NoRun
  <2>2. header' = [header EXCEPT ![s] = 0] /\ got' = [got EXCEPT ![s] = <<>>]
    <3>1. CASE Detach(s) BY <3>1 DEF Detach, NoRun
    <3>2. CASE ~Detach(s)
      <4>1. conn[s] = "bound" /\ header' = [header EXCEPT ![s] = NoRun] /\ got' = got
        BY <1>6, <3>2 DEF Close, Disconnect
      <4>2. got[s] = <<>> BY <1>1, <4>1 DEF ReadInv, NotReading, Attached
      <4> QED BY <1>1, <4>1, <4>2 DEF NoRun, TypeOK
    <3> QED BY <3>1, <3>2
  <2>3. Turn!Leave(s) BY <1>2, <1>3, <2>1, <2>2 DEF Turn!Leave
  <2> QED BY <2>3 DEF Turn!TNext
<1> QED BY <1>4, <1>5, <1>6 DEF BodySteps

\* The runs implement the turns of a session: initial states are initial states of
\* RunTurns, every step is one of its steps or leaves its state alone.
THEOREM TurnsImplemented == Spec => ImplementsTurns
<1>1. Init => Turn!TInit BY TurnInit
<1>2. TurnInv /\ [Next]_vars => [Turn!TNext]_(Turn!tvars)
  <2> SUFFICES ASSUME TurnInv, [Next]_vars PROVE Turn!TNext \/ UNCHANGED Turn!tvars
    OBVIOUS
  <2>1. CASE UNCHANGED vars
    <3>1. Silent BY <2>1 DEF vars, runVars, subVars, Silent, OverRuns
    <3> QED BY <3>1, SilentStep
  <2>2. ASSUME NEW r \in Runs, Stop(r) \/ DrainSteps(r) \/ Evict(r)
        PROVE  Turn!TNext \/ UNCHANGED Turn!tvars
    BY <2>2, DrainTurn
  <2>3. ASSUME NEW s \in Subs, Start(s) \/ Resume(s) PROVE Turn!TNext BY <2>3, StartTurn
  <2>4. ASSUME NEW s \in Subs, PollEnd(s) \/ BodySteps(s) \/ Disconnect(s)
        PROVE  Turn!TNext \/ UNCHANGED Turn!tvars
    BY <2>4, BodyTurn
  <2> QED BY <2>1, <2>2, <2>3, <2>4 DEF Next
<1> QED BY <1>1, <1>2, TurnInvariant, PTL DEF Spec, ImplementsTurns, Turn!TSpec
=============================================================================
