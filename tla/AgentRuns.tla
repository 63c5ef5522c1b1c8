------------------------------ MODULE AgentRuns ------------------------------
(***************************************************************************)
(* The detached agent-run manager of src/agent_runs.py, for one chat       *)
(* session, with the three HTTP handlers that drive it (POST /api/chat,    *)
(* GET /api/chat/resume, POST /api/chat/stop).                             *)
(*                                                                         *)
(* A run is a background task (_drain) that pulls the events of one agent  *)
(* stream into a replay buffer and fans them out to the queues of its      *)
(* subscribers.  A second send on the same session replaces the run: the   *)
(* old task is cancelled, and the new one waits for it before it pulls its *)
(* own stream, so that the two runs' saves into the session do not mix.    *)
(*                                                                         *)
(* Everything runs on one event loop, so a step is the code between two    *)
(* suspension points.  Sessions share no state (_RUNS is keyed by session) *)
(* and are modelled one at a time.  Events are identified by their         *)
(* position in the run's stream; their text is abstracted.                 *)
(***************************************************************************)
EXTENDS Integers, Sequences

CONSTANTS MaxRuns,    \* bound: runs started on the session, in order 1..MaxRuns
          MaxEvents,  \* bound: events a stream emits before its error trailer
          Subs        \* the SSE connections (a connection may be used again)

ASSUME AgentRunsAssumption == /\ MaxRuns \in Nat \ {0}
                              /\ MaxEvents \in Nat

Runs  == 1..MaxRuns
NoRun == 0            \* _RUNS has no entry; a run without predecessor
End   == -1           \* the (None, None) sentinel; event positions are >= 0

VARIABLES
  started,    \* how many runs were started
  reg,        \* _RUNS.get(session_id)
  status,     \* run.status
  phase,      \* where the run's _drain task is suspended
  cancelled,  \* task.cancel() was called and not yet thrown into the task
  prev,       \* _drain's prev_task
  buffered,   \* len(run.buffer)
  timer,      \* run.evict_task is pending
  answered,   \* the stream saved its complete answer
  saves,      \* the assistant messages saved into the session, by run, in order
  lapsed,     \* history: runs whose task no longer stands for their predecessors
  header,     \* the run named in the connection's X-psd.ai-Run-Id header
  conn,       \* where the connection's subscribe() generator is
  srun,       \* the run the generator is attached to
  queue,      \* its asyncio.Queue
  next,       \* its next_seq
  got         \* history: the events it has yielded

runVars == <<started, reg, status, phase, cancelled, prev, buffered, timer,
             answered, saves, lapsed>>
subVars == <<header, conn, srun, queue, next, got>>
vars    == <<runVars, subVars>>

Phase  == {"unborn", "created", "waiting", "streaming", "unwinding",
           "shielding", "finished"}
Status == {"running", "done", "error", "stopped"}
Conn   == {"idle", "bound", "replay", "live", "flush"}

Attached  == {"replay", "live", "flush"}
Subscribers(r) == {s \in Subs : conn[s] \in Attached /\ srun[s] = r}

\* The task exists and asyncio does not report it done().
InFlight(r) == r # NoRun /\ phase[r] # "finished"

\* The run's stream is open: its code may still save into the session.
CanSave(r) == phase[r] \in {"streaming", "unwinding"}

IsActive == reg # NoRun /\ status[reg] = "running"

Init ==
  /\ started = 0 /\ reg = NoRun /\ saves = <<>> /\ lapsed = {}
  /\ status    = [r \in Runs |-> "running"]
  /\ phase     = [r \in Runs |-> "unborn"]
  /\ cancelled = [r \in Runs |-> FALSE]
  /\ prev      = [r \in Runs |-> NoRun]
  /\ buffered  = [r \in Runs |-> 0]
  /\ timer     = [r \in Runs |-> FALSE]
  /\ answered  = [r \in Runs |-> FALSE]
  /\ header = [s \in Subs |-> NoRun] /\ conn = [s \in Subs |-> "idle"]
  /\ srun   = [s \in Subs |-> NoRun] /\ queue = [s \in Subs |-> <<>>]
  /\ next   = [s \in Subs |-> 0]     /\ got  = [s \in Subs |-> <<>>]

-----------------------------------------------------------------------------
(* Effects shared by the handlers. *)

\* _publish and _wake_run_subscribers: put items on the queue of every subscriber.
FanOut(r, items) ==
  queue' = [s \in Subs |->
              IF s \in Subscribers(r) THEN queue[s] \o items ELSE queue[s]]

\* _schedule_evict(session, r): only the registered run gets a timer.
ArmEvict(r) == timer' = [timer EXCEPT ![r] = @ \/ reg = r]

\* _drain's finally block: the task ends, its run may be evicted later.
EndTask(r) == /\ phase' = [phase EXCEPT ![r] = "finished"]
              /\ ArmEvict(r)

\* What start() hands the new task as prev_task.
Predecessor(p) == IF InFlight(p) THEN p ELSE NoRun

\* start() cancels the predecessor's task.  Mutated form: it does not.
CancelNothing(p) == UNCHANGED cancelled
CancelPredecessor(p) ==
  cancelled' = [q \in Runs |-> cancelled[q] \/ (q = p /\ InFlight(p))]

\* start() makes a predecessor that may never run its own handlers terminal.
\* Mutated forms: it leaves that to the task; it does not wake the subscribers.
TerminalizeLater(p) == UNCHANGED <<status, queue>>
TerminalizeSilently(p) ==
  /\ status' = [q \in Runs |-> IF q = p /\ InFlight(p) THEN "stopped"
                                                     ELSE status[q]]
  /\ UNCHANGED queue
Terminalize(p) ==
  IF InFlight(p) /\ status[p] = "running"
    THEN /\ status' = [status EXCEPT ![p] = "stopped"]
         /\ FanOut(p, <<End>>)
    ELSE UNCHANGED <<status, queue>>

\* The task of run r has to wait for its predecessor's task.
\* Mutated form: prev_task is forgotten.
HeldByNobody(r) == FALSE
Held(r) == InFlight(prev[r])

\* The task ends while a predecessor is still in flight.
Lapse(r) == lapsed' = IF InFlight(prev[r]) THEN lapsed \cup {r} ELSE lapsed

\* The generic exception handler of _drain publishes two more events.
ErrorTrailer(r) == <<buffered[r], buffered[r] + 1>>

-----------------------------------------------------------------------------
(* The HTTP handlers. *)

\* start() and the response of POST /api/chat, bound to the new run.
Start(s) ==
  LET r == started + 1
      p == reg
  IN /\ started < MaxRuns
     /\ conn[s] = "idle"
     /\ started' = r
     /\ reg' = r
     /\ phase'  = [phase EXCEPT ![r] = "created"]
     /\ prev'   = [prev EXCEPT ![r] = Predecessor(p)]
     /\ header' = [header EXCEPT ![s] = r]
     /\ conn'   = [conn EXCEPT ![s] = "bound"]
     /\ timer'  = [q \in Runs |-> q # p /\ timer[q]]
     /\ CancelPredecessor(p)
     /\ Terminalize(p)
     /\ UNCHANGED <<buffered, answered, saves, lapsed, srun, next, got>>

\* GET /api/chat/resume: a response bound to the active run, or 404.
Resume(s) ==
  /\ conn[s] = "idle"
  /\ IsActive
  /\ header' = [header EXCEPT ![s] = reg]
  /\ conn'   = [conn EXCEPT ![s] = "bound"]
  /\ UNCHANGED <<runVars, srun, queue, next, got>>

\* POST /api/chat/stop with run id r.  A client learns the id from the response
\* headers, which it cannot have before the task took its first step.
Stop(r) ==
  /\ reg = r
  /\ phase[r] \notin {"created", "finished"}
  /\ ~cancelled[r]
  /\ cancelled' = [cancelled EXCEPT ![r] = TRUE]
  /\ UNCHANGED <<started, reg, status, phase, prev, buffered, timer, answered,
                 saves, lapsed, subVars>>

-----------------------------------------------------------------------------
(* The drain task of run r: one action per stretch between two awaits. *)

\* The loop takes new tasks in the order of their creation.
FirstCreated(r) == /\ phase[r] = "created"
                   /\ \A q \in Runs : q < r => phase[q] # "created"

\* The first step of _drain: wait for the predecessor, or open the stream.
Begin(r) ==
  /\ FirstCreated(r) /\ ~cancelled[r]
  /\ phase' = [phase EXCEPT ![r] =
                 IF Held(r) THEN "waiting" ELSE "streaming"]
  /\ UNCHANGED <<started, reg, status, cancelled, prev, buffered, timer,
                 answered, saves, lapsed, subVars>>

\* asyncio.wait({prev_task}) returns.
WaitOver(r) ==
  /\ phase[r] = "waiting" /\ ~cancelled[r]
  /\ ~Held(r)
  /\ phase' = [phase EXCEPT ![r] = "streaming"]
  /\ UNCHANGED <<started, reg, status, cancelled, prev, buffered, timer,
                 answered, saves, lapsed, subVars>>

\* The stream yields an event.  The [DONE] event is yielded right after the
\* complete answer was saved.
Emit(r) ==
  /\ phase[r] = "streaming" /\ ~cancelled[r]
  /\ buffered[r] < MaxEvents /\ ~answered[r]
  /\ FanOut(r, <<buffered[r]>>)
  /\ buffered' = [buffered EXCEPT ![r] = @ + 1]
  /\ \/ UNCHANGED <<answered, saves>>
     \/ /\ answered' = [answered EXCEPT ![r] = TRUE]
        /\ saves' = Append(saves, r)
  /\ UNCHANGED <<started, reg, status, phase, cancelled, prev, timer, lapsed,
                 header, conn, srun, next, got>>

\* The stream ends.
Complete(r) ==
  /\ phase[r] = "streaming" /\ ~cancelled[r]
  /\ status' = [status EXCEPT ![r] = IF @ = "running" THEN "done" ELSE @]
  /\ FanOut(r, <<End>>)
  /\ EndTask(r)
  /\ UNCHANGED <<started, reg, cancelled, prev, buffered, answered, saves,
                 lapsed, header, conn, srun, next, got>>

\* The stream raises, either on its own or, in chat mode, because saving the
\* partial answer of a cancelled stream failed.
Fail(r) ==
  /\ CanSave(r) /\ ~cancelled[r]
  /\ status' = [status EXCEPT ![r] = "error"]
  /\ FanOut(r, ErrorTrailer(r) \o <<End>>)
  /\ buffered' = [buffered EXCEPT ![r] = @ + 2]
  /\ EndTask(r)
  /\ UNCHANGED <<started, reg, cancelled, prev, answered, saves, lapsed,
                 header, conn, srun, next, got>>

\* The task is cancelled before its first step: _drain's body never runs.
DropUnbegun(r) ==
  /\ FirstCreated(r) /\ cancelled[r]
  /\ phase' = [phase EXCEPT ![r] = "finished"]
  /\ cancelled' = [cancelled EXCEPT ![r] = FALSE]
  /\ Lapse(r)
  /\ UNCHANGED <<started, reg, status, prev, buffered, timer, answered, saves,
                 subVars>>

\* CancelledError while waiting for the predecessor.  Nothing was streamed, so
\* there is nothing to save; the task stays alive as long as the predecessor.
CancelWaiting(r) ==
  /\ phase[r] = "waiting" /\ cancelled[r]
  /\ cancelled' = [cancelled EXCEPT ![r] = FALSE]
  /\ status' = [status EXCEPT ![r] = "stopped"]
  /\ FanOut(r, <<End>>)
  /\ IF Held(r)
       THEN phase' = [phase EXCEPT ![r] = "shielding"] /\ UNCHANGED timer
       ELSE EndTask(r)
  /\ UNCHANGED <<started, reg, prev, buffered, answered, saves, lapsed,
                 header, conn, srun, next, got>>

\* CancelledError inside the stream, which unwinds (it closes its upstream
\* connection and its tools, which takes further loop turns).
CancelStreaming(r) ==
  /\ CanSave(r) /\ cancelled[r]
  /\ cancelled' = [cancelled EXCEPT ![r] = FALSE]
  /\ phase' = [phase EXCEPT ![r] = "unwinding"]
  /\ UNCHANGED <<started, reg, status, prev, buffered, timer, answered, saves,
                 lapsed, subVars>>

\* The unwinding stream saves what it has and re-raises; _drain ends "stopped".
Unwound(r) ==
  /\ phase[r] = "unwinding" /\ ~cancelled[r]
  /\ \/ UNCHANGED saves
     \/ buffered[r] > 0 /\ saves' = Append(saves, r)
  /\ status' = [status EXCEPT ![r] = "stopped"]
  /\ FanOut(r, <<End>>)
  /\ EndTask(r)
  /\ UNCHANGED <<started, reg, cancelled, prev, buffered, answered, lapsed,
                 header, conn, srun, next, got>>

\* The shielded predecessor is done.
ShieldOver(r) ==
  /\ phase[r] = "shielding" /\ ~cancelled[r]
  /\ ~Held(r)
  /\ EndTask(r)
  /\ UNCHANGED <<started, reg, status, cancelled, prev, buffered, answered,
                 saves, lapsed, subVars>>

\* A second cancellation ends the shielded wait: the exception is swallowed.
CancelShielding(r) ==
  /\ phase[r] = "shielding" /\ cancelled[r]
  /\ cancelled' = [cancelled EXCEPT ![r] = FALSE]
  /\ EndTask(r)
  /\ Lapse(r)
  /\ UNCHANGED <<started, reg, status, prev, buffered, answered, saves,
                 subVars>>

Evictable(r) == reg = r /\ status[r] # "running" /\ Subscribers(r) = {}

\* The grace period of a terminal run is over.
Evict(r) ==
  /\ timer[r]
  /\ timer' = [timer EXCEPT ![r] = FALSE]
  /\ IF Evictable(r)
       THEN /\ reg' = NoRun
            /\ lapsed' = IF InFlight(r) THEN lapsed \cup {r} ELSE lapsed
       ELSE UNCHANGED <<reg, lapsed>>
  /\ UNCHANGED <<started, status, phase, cancelled, prev, buffered, answered,
                 saves, subVars>>

-----------------------------------------------------------------------------
(* The subscribe() generator of connection s. *)

\* The body starts: register with the bound run before replaying.
Attach(s) ==
  /\ conn[s] = "bound"
  /\ conn' = [conn EXCEPT ![s] = "replay"]
  /\ srun' = [srun EXCEPT ![s] = header[s]]
  /\ timer' = [timer EXCEPT ![header[s]] = FALSE]
  /\ UNCHANGED <<started, reg, status, phase, cancelled, prev, buffered,
                 answered, saves, lapsed, header, queue, next, got>>

\* Mutated form: next_seq is off by two.
YieldBack(s, i) == /\ got'  = [got EXCEPT ![s] = Append(@, <<srun[s], i>>)]
                   /\ next' = [next EXCEPT ![s] = i - 1]
Yield(s, i) == /\ got'  = [got EXCEPT ![s] = Append(@, <<srun[s], i>>)]
               /\ next' = [next EXCEPT ![s] = i + 1]

\* The last subscriber that leaves a terminal run re-arms its eviction.
RearmOnLeave(s) ==
  IF Subscribers(srun[s]) = {s} /\ status[srun[s]] # "running"
    THEN ArmEvict(srun[s]) ELSE UNCHANGED timer

\* subscribe()'s finally block; the connection is free again.
Detach(s) ==
  /\ conn'   = [conn EXCEPT ![s] = "idle"]
  /\ header' = [header EXCEPT ![s] = NoRun]
  /\ srun'   = [srun EXCEPT ![s] = NoRun]
  /\ queue'  = [queue EXCEPT ![s] = <<>>]
  /\ next'   = [next EXCEPT ![s] = 0]
  /\ got'    = [got EXCEPT ![s] = <<>>]
  /\ RearmOnLeave(s)
  /\ UNCHANGED <<started, reg, status, phase, cancelled, prev, buffered,
                 answered, saves, lapsed>>

\* Mutated form: the tail is not flushed.
CaughtUpOrEnding(s) == conn[s] = "flush" \/ next[s] >= buffered[srun[s]]
CaughtUp(s) == next[s] >= buffered[srun[s]]

\* Replay one buffered event.
Replay(s) ==
  /\ conn[s] = "replay" /\ next[s] < buffered[srun[s]]
  /\ Yield(s, next[s])
  /\ UNCHANGED <<runVars, header, conn, srun, queue>>

\* The replay caught up with a run that still streams.
GoLive(s) ==
  /\ conn[s] = "replay" /\ CaughtUp(s)
  /\ status[srun[s]] = "running"
  /\ conn' = [conn EXCEPT ![s] = "live"]
  /\ UNCHANGED <<runVars, header, srun, queue, next, got>>

\* Mutated form: events that were already replayed are not skipped.
UnseenAlways(s, i) == TRUE
Unseen(s, i) == i >= next[s]

\* One item of the queue: an event not yet replayed is yielded.
GetEvent(s) ==
  /\ conn[s] = "live" /\ queue[s] # <<>> /\ Head(queue[s]) # End
  /\ queue' = [queue EXCEPT ![s] = Tail(@)]
  /\ IF Unseen(s, Head(queue[s]))
       THEN Yield(s, Head(queue[s]))
       ELSE UNCHANGED <<next, got>>
  /\ UNCHANGED <<runVars, header, conn, srun>>

\* The sentinel: flush the tail it raced, then close.
GetEnd(s) ==
  /\ conn[s] = "live" /\ queue[s] # <<>> /\ Head(queue[s]) = End
  /\ conn' = [conn EXCEPT ![s] = "flush"]
  /\ queue' = [queue EXCEPT ![s] = Tail(@)]
  /\ UNCHANGED <<runVars, header, srun, next, got>>

\* Ten seconds without an item, and the run is no longer running (while it is,
\* the time-out only sends a heartbeat).
PollEnd(s) ==
  /\ conn[s] = "live" /\ status[srun[s]] # "running"
  /\ conn' = [conn EXCEPT ![s] = "flush"]
  /\ UNCHANGED <<runVars, header, srun, queue, next, got>>

Flush(s) ==
  /\ conn[s] = "flush" /\ next[s] < buffered[srun[s]]
  /\ Yield(s, next[s])
  /\ UNCHANGED <<runVars, header, conn, srun, queue>>

\* The generator returns by itself.
Close(s) ==
  /\ \/ conn[s] = "flush"
     \/ conn[s] = "replay" /\ status[srun[s]] # "running"
  /\ CaughtUp(s)
  /\ Detach(s)

\* The client goes away, before or after the body started.
Disconnect(s) ==
  \/ /\ conn[s] = "bound"
     /\ conn'   = [conn EXCEPT ![s] = "idle"]
     /\ header' = [header EXCEPT ![s] = NoRun]
     /\ UNCHANGED <<runVars, srun, queue, next, got>>
  \/ /\ conn[s] \in Attached
     /\ Detach(s)

-----------------------------------------------------------------------------
CancelSteps(r) == \/ DropUnbegun(r) \/ CancelWaiting(r) \/ CancelStreaming(r)
                  \/ CancelShielding(r)
DrainSteps(r)  == \/ Begin(r) \/ WaitOver(r) \/ Emit(r) \/ Complete(r)
                  \/ Fail(r) \/ Unwound(r) \/ ShieldOver(r) \/ CancelSteps(r)
BodySteps(s)   == \/ Attach(s) \/ Replay(s) \/ GoLive(s) \/ GetEvent(s)
                  \/ GetEnd(s) \/ Flush(s) \/ Close(s)

Next == \/ \E r \in Runs : Stop(r) \/ DrainSteps(r) \/ Evict(r)
        \/ \E s \in Subs : \/ Start(s) \/ Resume(s) \/ PollEnd(s)
                           \/ BodySteps(s) \/ Disconnect(s)

Spec == Init /\ [][Next]_vars

\* The event loop runs every task that is ready, and an unwinding stream comes
\* to an end (strong fairness: however often it is cancelled again, each
\* CancelledError leaves one more of its frames).  Nothing forces a stream to
\* emit, end or fail (a model may hang), and nothing forces a client to send,
\* stop or disconnect.  The ten-second poll is deliberately left without
\* fairness: the sentinel must do.
Fairness ==
  /\ \A r \in Runs : /\ WF_vars(Begin(r) \/ CancelSteps(r))
                     /\ WF_vars(WaitOver(r)) /\ WF_vars(ShieldOver(r))
                     /\ SF_vars(Unwound(r) \/ (phase[r] = "unwinding" /\ Fail(r)))
                     /\ WF_vars(Evict(r))
  /\ \A s \in Subs : WF_vars(BodySteps(s))

FairSpec == Spec /\ Fairness
-----------------------------------------------------------------------------
(* Properties. *)

\* Every variable keeps its type; subscriber queues hold positions or the
\* sentinel (agent_runs.py:26-37, 200-215).
TypeOK ==
  /\ started \in 0..MaxRuns
  /\ reg \in 0..MaxRuns
  /\ status \in [Runs -> Status]
  /\ phase \in [Runs -> Phase]
  /\ cancelled \in [Runs -> BOOLEAN]
  /\ prev \in [Runs -> 0..MaxRuns]
  /\ buffered \in [Runs -> Nat]
  /\ timer \in [Runs -> BOOLEAN]
  /\ answered \in [Runs -> BOOLEAN]
  /\ saves \in Seq(Runs)
  /\ lapsed \in SUBSET Runs
  /\ header \in [Subs -> 0..MaxRuns]
  /\ conn \in [Subs -> Conn]
  /\ srun \in [Subs -> 0..MaxRuns]
  /\ queue \in [Subs -> Seq(Int)]
  /\ next \in [Subs -> Nat]
  /\ got \in [Subs -> Seq((0..MaxRuns) \X Int)]

\* What a client has received is a prefix of the stream of the run its response
\* headers named: no event is missing, repeated, out of order or another run's,
\* however its replay raced publications, replacement and eviction
\* (agent_runs.py:212-249, chat_routes.py:2632-2637).
ReplayExact ==
  \A s \in Subs :
    conn[s] \in Attached =>
      got[s] = [i \in 1..next[s] |-> <<header[s], i - 1>>]

\* At most one run of a session reports itself running, it is the registered
\* one, and its task is alive: /resume, /stop and stream_status, which only look
\* at the registered run, never miss one (agent_runs.py:93-112, 178-197).
OneRunning ==
  \A r \in 1..started :
    status[r] = "running" => reg = r /\ InFlight(r)

\* A stream is only open while every earlier run's task is over, unless a task
\* between the two, or the earlier one itself, has lapsed: ended or been evicted
\* with a predecessor in flight (agent_runs.py:128-156).
BarrierUnlessLapsed ==
  \A p, q \in 1..started :
    p < q /\ CanSave(q) => \/ phase[p] = "finished"
                           \/ \E k \in p..(q - 1) : k \in lapsed

\* Answers land in the session in the order their turns were sent, as long as no
\* task lapsed (agent_runs.py:128-131).
SavesInTurnOrder ==
  lapsed = {} =>
    \A i, j \in 1..Len(saves) : i < j => saves[i] <= saves[j]

\* When the generator returns by itself (not because the client left) from a run
\* that is done, the client has the whole stream, whichever of the sentinel and
\* the ten-second poll ended it (agent_runs.py:226-246).
WholeStreamDelivered ==
  [][\A s \in Subs : Close(s) /\ status[srun[s]] = "done"
                       => Len(got[s]) = buffered[srun[s]]]_vars

\* Whoever waits, waits for something that comes: the task that another task waits
\* for is an older one and on its way out, and a reader that waits for events of a
\* run that is over has the sentinel in its queue, also when that run's task never
\* executed an instruction (agent_runs.py:60-66, 139-156, 182-189).
NobodyWaitsInVain ==
  /\ \A r \in Runs :
       InFlight(r) /\ InFlight(prev[r]) =>
         /\ prev[r] < r
         /\ cancelled[prev[r]] \/ phase[prev[r]] \in {"unwinding", "shielding"}
  /\ \A s \in Subs :
       conn[s] = "live" /\ status[srun[s]] # "running" =>
         \E i \in 1..Len(queue[s]) : queue[s][i] = End

\* Nobody waits for ever: again and again there is a moment at which no task is on
\* its way out, however it was cancelled, waits for its predecessors or unwinds,
\* and at which nobody waits for events of a run that is no longer running, also
\* when its task never executed an instruction (agent_runs.py:60-66, 139-156,
\* 182-189).
NobodyHangs ==
  []<>(/\ \A r \in Runs : InFlight(r) => /\ ~cancelled[r]
                                         /\ phase[r] \notin {"unwinding", "shielding"}
       /\ \A s \in Subs : conn[s] = "live" => status[srun[s]] = "running")

\* The run that /resume and stream_status report, and the runs whose task is over.
LiveRun  == IF IsActive THEN reg ELSE NoRun
OverRuns == {r \in Runs : phase[r] = "finished"}

\* The runs implement the turns of a session: they are written one at a time and, as
\* long as no task lapsed, one after the other; answers are stored in their order;
\* and however replay, publication, replacement and eviction meet, a client reads
\* the log of one run from its first event, each event once (agent_runs.py:61-249).
Turn == INSTANCE RunTurns WITH
  Turns   <- Runs,                     turn   <- started,
  live    <- LiveRun,                  over   <- OverRuns,
  log     <- buffered,                 answers <- saves,
  intact  <- lapsed = {},              Readers <- Subs,
  reader  <- header
ImplementsTurns == Turn!TSpec
=============================================================================
