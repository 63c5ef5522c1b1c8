# A TLA+ verification of psd.ai

The repository is a self-hosted AI assistant: a FastAPI server (`src/psd.ai`) with a browser
front end, a Tauri desktop shell (`src/desktop`), an installer (`src/installer`) and packaging.
What can go wrong in a way a unit test would hardly reach happens in two places. In the server,
mostly on **one asyncio event loop**: many coroutines that interleave at every `await`, a few
in-memory registries that they share (`_RUNS`, `_executing`, `SessionManager.sessions`, the pending
approvals), an SQLite database and JSON files that survive a restart when the registries do not, and
processes that survive the server. And in the chat page of the browser, **one thread** on which
sends, event streams, timers and the user's clicks overtake each other while a dozen variables say
which of them owns the page.

This project models seven components, model-checks them with TLC and proves every safety property
with TLAPS for every size of the system. Paths below are relative to `src/psd.ai`.

## 1. Inventory

### Components modelled

| Component | State | Operations | Interacts with | Hard part | What makes it correct |
|---|---|---|---|---|---|
| Detached agent runs (`src/agent_runs.py`) | `_RUNS` by session, replay buffers, subscriber queues, eviction timers, one task per run | `start`, `_drain`, `subscribe`, `stop`, `is_active`, eviction | chat routes start, resume and stop; a run's stream saves into the transcript; `is_active` gates compaction and background follow-ups | a run is replaced while the old one unwinds; cancellation before the first step, while waiting, twice; replay racing publication; timer racing a reader | clients get exactly the stream their headers named; one running run, the registered one; answers saved in turn order; nobody waits for ever |
| Background jobs (`src/bg_jobs.py`, `src/bg_monitor.py`) | JSON store of records, exit files, processes, the monitor's list | `launch`, `refresh`, `kill`, `pending_followups`, `mark_followed_up`, `_run_followup`, `_prune` | agent tools launch and kill; the monitor runs the agent headlessly and writes the transcript; skips sessions with a live run | processes end between the three questions `refresh` asks; a crash between any two steps; saves of a dict loaded earlier | outcomes are true and final, told once, never dropped unheard, in the end heard |
| Task scheduler (`src/task_scheduler.py`), event bus (`src/event_bus.py`), foreground gate (`src/interactive_gate.py`), task routes | `ScheduledTask` and `TaskRun` rows; `_executing`, `_task_handles`, the model semaphore | tick, manual and forced runs, events, chains, stop, pause, resume, crash and restart | requests of the user cancel and defer runs; events of other components trigger tasks; results go to the transcript | five dispatchers, ten ways for a run to end, cancellation at every suspension point, exceptions at every step, `next_run` written by three parties | no trigger lost, no phantom rows but those of runs that met an exception, no leaked membership, one model run at a time, every trigger answered |
| Session transcript (`core/session_manager.py`, `src/context_compactor.py`, history and session routes, `src/cleanup_service.py`) | `chat_messages` rows, `sessions.message_count`, the cached `Session` and every object a request still holds | get, add, replace, truncate, delete messages, compaction (automatic, manual), delete, clean-up, restart | chat turns (through `AgentRuns`), background follow-ups, task results, slash commands, synchronous routes in threads of the pool | an object kept over awaits while others reload, edit or compact; deletion and loads by threads beside the loop; failed commits; counts that stand for contents | the prompt is the stored transcript; removed stays removed; nothing leaves unsummarised |
| Chat page (`static/js/chat.js`, session switching in `static/js/sessions.js`) | `isStreaming`, `_sendInFlight`, `_activeStreams`, `_streamGenerations`, `_streamRunIds`, `_pendingRunStops`, `_backgroundStreams`, the queue of messages and its timers | submit, commit, preflight, POST, headers, stream, `finally`; Stop, queue and promotion, `selectSession`, `resumeStream`, the stall watchdog, the recovery of a suspended tab | POSTs start and replace runs (`AgentRuns.Start`), Stops name them, re-attachment reads them | a send awaits six things before its POST and is superseded, stopped or left at each; a Stop is pressed before the run has a name; cleanup of one send meets the state of another | POSTs in the order of the sends, Stops hit what the user meant, the registry never outlives a send, the page comes to rest, the queue drains |
| Tool approvals (`src/tool_approvals.py`, `src/tool_approval_scopes.py`, the gate of `src/agent_loop.py`) | the registry of pending approvals, the cards and grants in the transcript | create, supersede, evict, consume, retire, expire; the gate of a run; execution of the sealed call | a run that has seen outside text may not write; the answer to a card is a request of its own that starts a run | card, document and registry change between proposal, answer and execution; answers come twice or too late; restart | a card starts one run at most; the edit meets exactly the text that was shown |
| Documents (`routes/document/document_routes.py`, `src/agent_tools/document_tools.py`) | rows, current text, versions, the process-wide `_active_document_id` | create, autosave with coalescing, checkpoint, restore, delete, detach, tidy, extraction, the agent's edits | editors and agents of several chats work on the same document | a version number does not identify a text; one target for all runs | history only grows; the agent edits the document it was shown |

### Components not modelled

`PROJECT.json` lists every one with its reason. In short:

* next in the plan, because they share state between requests: the document editor of the page
  (`static/js/document.js`), accounts and login sessions (`core/auth.py`), the cookbook serve
  lifecycle (`src/cookbook_serve_lifecycle.py`);
* later: the agent loop's rounds and fallback routes, research jobs, email claims, CalDAV
  versions, uploads against their clean-up, the MCP manager;
* out of reach or without state that a model checker could say something about: model providers,
  web search, retrieval and ranking, hardware estimates, device drivers, the front end outside the
  chat page (rendering, forms and calls of single routes, although it is most of the repository's
  lines), the desktop shell, the installer.

### How the modelled components meet

A chat request opens the transcript (`SessionHistory.Open`), stores the question, builds the prompt
(`Ask`) and starts a detached run (`SessionHistory.Start` is `AgentRuns.Start`). The run's stream
stores the answer (`SessionHistory.Answer` is the save of `AgentRuns.Emit` and `Unwound`). Manual
compaction and the background monitor look at `agent_runs.is_active` (`AgentRuns.IsActive`;
`active` in SessionHistory, `turn` in BgJobs). The monitor's follow-up and a task's result reach
the transcript through `SessionManager.add_message` (`SessionHistory.Post`). The chat page sees of
a run whether it was refused, lives, finished or failed (`ChatClient.Server` is `AgentRuns.Start`,
the end of its stream and `Stop`). A card's answer becomes a run (`ToolApprovals.Respond`, `Begin`),
which edits the documents of `Documents`, the module that ToolApprovals extends. Each module keeps
the others' part as free as the code leaves it.

## 2. Modules

All models share one convention: **an action is the code between two suspension points of one
coroutine**, so that what the code cannot interleave the model does not interleave. Where a stretch
is cut in two for readability, the model keeps others out (`loop` in TaskScheduler, `caller` in
BgJobs). Threads appear where the code hands work to one whose steps can fall between those of the
loop: deletions and loads of a session (`ThreadStep` in SessionHistory).

### AgentRuns: one chat session's runs

| Model | Code |
|---|---|
| `reg`, `started` | `_RUNS.get(session_id)`; runs are numbered in the order of `start()` |
| `status`, `buffered`, `timer`, `prev`, `cancelled` | fields of `_Run`, `evict_task`, `_drain`'s `prev_task`, a pending `task.cancel()` |
| `phase` | where `_drain` is suspended: before its first step, in the wait for its predecessor, in the stream, unwinding it, or in the shielded wait after a cancellation |
| `conn`, `header`, `srun`, `queue`, `next` | one SSE response: the run in its headers, its queue, `next_seq` |
| `Start`, `Resume`, `Stop` | `start()` with `POST /api/chat_stream`, `GET /api/chat/resume`, `POST /api/chat/stop` |
| `Begin` ... `CancelShielding` | the stretches of `_drain`, one for each way in which an `await` returns or raises |
| `Attach` ... `Close`, `Disconnect` | `subscribe()` |
| `saves`, `lapsed`, `got` | history: order of the saves, runs whose task ended or was evicted before its predecessor, what the client received |

Events are positions in their run's stream; their text is left out.

### BgJobs: jobs, store and monitor

`refresh()` is a sequence of steps (`PickRecord`, `ProbeExit`, `ProbeAlive`, `Recheck`, `EndScan`),
because the job's processes run beside it, while no other code of the server does. `proc` tells the
process from its wrapper: `closing` is the moment in which the exit file exists and is empty.
`snap` is the dict `refresh()` works on; `store` is the file. `launch()` is two steps (process,
record), `kill()` is `RequestKill` (the refresh of `get()`) and `Kill`. The monitor is `Tick`,
`SkipFollowup`, `BeginFollowup`, `EndFollowup`/`FailFollowup`, `Mark`, `Sleep`. `Crash` may come
between any two of these. Time is `overdue` (past `max_runtime_s`) and `expired` (past the
retention), which may become true at any moment.

### TaskScheduler: tasks, triggers, runs

A run is a coroutine with a place `pc`: `created`, in the `line` of the semaphore, `enter`
(`_execute_task_locked` up to the gate), `failing` (`_task_needs_model_slot` has raised), at the
`gate`, at work (`run`), in its `finally` block (`settle`). `row` is the status of its `TaskRun`.
`due` is `next_run` reduced to what the code asks of it: NULL, the next occurrence, a retry soon, or
passed. A column that did not change is not written back by the database session (`Written`,
`readNull`, `Commit`): that decides whether a trigger that came during the run survives its end.
`owed` remembers a trigger that no run has started for, and those that came during a run (`late`).

The dispatchers are `CheckDueTasks`, `RunTaskNow`, `ForceRun`, `HandleEvent`, `RunChained`; a run
ends by `SkipInactive`, `RefuseNonAdmin`, `CancelQueued`, or through `Return`, `GiveUp`,
`Interrupt` and then `Complete`, `RecordError`, `Depart`; it is cancelled by `StopTask`,
`StopBackground`, `MonitorHits`.

An unexpected exception (`Fault`: a failed query, check or commit) may meet a run at every step after
its dispatch: at its entry (`Abandon`, a queued row that is not written), before its row says running
(`Raise`), at work and at the commit of its result (`Return`, `GiveUp`, `Interrupt`, `Complete`), in
the handlers of exceptions and cancellations (`ErrorRecovered`, `ErrorLost`, `CancelQueued`), in the
marks that `stop_task` and foreground requests leave (`CancelTasks`) and in `start()`. `failed` is
history: the runs whose row such an exception may have left queued or running.

### SessionHistory: one session's transcript

`store` holds the three copies: `rows`, `column` (`sessions.message_count`), and `hist`, the history
of every `Session` object somebody refers to; `cache` is the object in `SessionManager.sessions`,
`held[t]` the one a turn fetched. `SessionManager`'s methods are functions from store to store
(`Got`, `Loaded`, `Persisted`, `Replaced`, `Truncated`, `Deleted`), so that a handler that calls
several is one action. A message is a number in the order of creation, a summary is one too.
Every transaction may fail to commit (`ok`), with what the code then leaves in memory.
Deletion is two steps, since its route is a thread of the pool: `DeletePop` drops the cached object
while the rows, already deleted under the write lock, are still there for readers; `DeleteCommit`
commits. What reads the session in between caches it again; after the commit only `Post` and
`AutoCompact` still meet that copy (`Known`), the routes answer 404. A rename, an archiving, an
unarchiving and an export that find the history short load it in a thread: `LoadRead` reads the rows,
`LoadInstall` caches them. If the rows have changed in between, or somebody else has loaded them, the
load is *late*; it counts among the faults like a failed commit.
`AutoCompact` computes the split in the prompt's numbering and applies it in the history's, as the
code does; `CompactBegin` and `CompactEnd` are manual compaction before and after its await.

### Transcript: what a session promises

An abstract specification without objects, caches, counts and threads: the transcript is one list.
While no commit has failed and no load came late a turn is prompted with this list as it then is, and
a compaction condenses what the list is when it reads it; a manual one puts a summary in the place of
the first messages it read. After that a run's own copy decides what it condenses.
`SessionHistory.ImplementsTranscript` is Transcript with the list, the prompts and the waiting compaction taken from `store.rows`, `context`
and `compact`; objects, the cache, the count and the holders of objects have no counterpart.

### BgDelivery: what the background jobs promise

An abstract specification: a job is new, running, due, announced, closed or gone; a poll makes ended
jobs due, an announcement is told, a crash loses at most the acknowledgement of an announcement and
a launch that was not recorded. No dict, no processes, no monitor. `BgJobs.ImplementsDelivery` is
BgDelivery with `phase` computed from the store, the scan and the monitor (`Phase`).

### RunTurns: what the detached runs promise

An abstract specification without tasks, cancellations, queues, replays and evictions: the turns of
a session, one of them reported as live, each a log of events; readers that follow a log; the stored
answers. A turn writes only when all earlier ones are over, as long as the session is `intact`: no
turn was cut off while an earlier one was still writing. `AgentRuns.ImplementsTurns` is RunTurns with
`live`, `over` and `intact` computed from the registry, the phases and `lapsed`; the rest are
variables of AgentRuns.

### ChatClient: the chat page

An action is the code between two awaits, a timer callback or an event listener. A *send* is one
call of `handleChatSubmit` past its gate; it stands for its AbortController and for the run its POST
starts. Its `pc` follows the function: `gate` (slash command, key warning), `committed` (waits for a
model switch), `preflight` (uploads, document saves), `posting`, `reading`, `doneSeen`, `done`.

| Model | Code |
|---|---|
| `streaming`, `inFlight`, `currentAbort`, `streamSession`, `watchdog` | the page's globals |
| `latest`, `send[k].gen` | `_streamGenerations`: the newest send of a chat, its generation |
| `active`, `sendState`, `runId`, `pendingStop`, `background`, `terminalSaved`, `resuming` | `_activeStreams`, `_sendStates`, `_streamRunIds`, `_pendingRunStops`, `_backgroundStreams`, `_terminalSavedStreams`, `_resumingStreams` |
| `queue`, `drain`, `promoted`, `submits` | `_queuedAgentRequests`, its two timers, the `setTimeout(0)` of `_setComposerAndSend` |
| `OpenGate`, `StopBranch` | `handleChatSubmit` idle, and while a reply streams |
| `Finally`, `Catch` | the `finally` and `catch` blocks, shared by the ways a send ends |
| `SelectSession`, `SelectSettles`, `PollEnds`, `Reselect` | `selectSession`, `detachCurrentStream`, `checkBackgroundStream` |
| `StatusComes`, `ResumeAnswered`, `ResumeEnds`, `RecoverFires` | `_checkServerStream`, `resumeStream`, `_tryAutoRecover` |
| `ProbeAsks` ... `ProbeHandled`, `TabRecovers` | `_probeStaleLocalStream`, the `visibilitychange` listener |
| `run` | the server's run, as far as the page sees it |

`stopWanted` and `stopsSent` are history: which sends a Stop or a timeout was meant for, which runs
a POST of `/api/chat/stop` has named. Rendering, Markdown, research markers and slash commands
beyond "handled" are left out.

### Documents and ToolApprovals

`Documents` holds the store: every handler runs without an await between reading the row and
committing it, so each is one step. A save of the user within the coalescing window changes the text
of the latest version (`recent`), not its number. `target` is `_active_document_id`.

`ToolApprovals` adds requests, runs and the registry. A run is loaded with one document as it was at
that moment (`view`), is `armed` once it has seen outside text, and `bypass`es the gate when the
user granted the task or the chat. A call that the gate stops is sealed with the view into a card
(`Propose`); `Respond` consumes the card, `Execute` compares the document with the sealed view. The
registry holds `MaxPending` cards, a chat has one at most; an ordinary message retires it, a restart
empties the registry and leaves the cards.

### SealedEdits: what the approvals promise

An abstract specification without requests, runs, a registry and restarts: a document is a history
that anybody may edit; a card is waiting, approved, executed or closed; its edit is a
compare-and-swap, executed in one step on exactly the state it was sealed with, once or never.
`ToolApprovals.ImplementsSealedEdits` is SealedEdits with a card's phase computed from `fate`, the
registry, `done` and whether a request or a run still holds the approval (`Life`, `Carried`).

### MC modules and proofs

`MCAgentRuns`, `MCBgJobs`, `MCTaskScheduler`, `MCSessionHistory`, `MCChatClient` and
`MCToolApprovals` are what TLC runs; they add constants (chains, session assignments, symmetry) and,
where state spaces need it, a `VIEW` that leaves out what nothing reads any more. The modules whose names end in `Proofs` hold the theorems.

In all modules an operator whose comment says "Mutated form" is an error that a programmer could
make in the definition below it. Nothing uses it; put in the place of that definition, it makes the
property that watches it fail. This is how each property was shown to depend on the code.

## 3. Runs

### AgentRuns

* `agent_runs` (2 runs, 2 connections, 1 event and an error trailer, `FairSpec`). `ReplayExact`:
  what a client has received is exactly a prefix of the stream its headers named.
  `WholeStreamDelivered`: all of it, when the generator returns by itself from a run that is done.
  `OneRunning`, `BarrierUnlessLapsed`. `ImplementsTurns`: the runs implement RunTurns; it contains
  that answers are saved in turn order. `NobodyWaitsInVain`: a task
  waits only for an older one that is on its way out, and a reader of a run that is over has the
  sentinel in its queue: the safety core of `NobodyHangs`. Two runs are a run
  and its replacement; one event can be replayed or delivered live, the trailer makes the sentinel
  race it. Longer chains of replacements, for which transitivity of the barrier matters, are covered
  by the proofs, which hold for any number of runs, events and connections.
  `NobodyHangs`: a cancelled task ends, a terminal run is forgotten, subscribers are let go.

Fairness: the loop runs what is ready (weak fairness of the steps that can only be disabled by
happening), and a stream that was cancelled ends (strong fairness: every further `CancelledError`
unwinds at least one frame). No fairness for streams, clients, or the ten-second poll: the sentinel
alone must let subscribers go.

### BgJobs

* `bg_jobs` (2 jobs in one session, 1 crash; jobs are symmetric). `ReportsAreTrue`,
  `ToldOnce` (and a job killed on request is never told), `OutcomeIsFinal`,
  `NothingDroppedUnheard`. Two jobs are needed because one
  `refresh()` writes the records of all; the proofs remove the bound.
* `bg_jobs_live` (1 job, 1 crash, `FairSpec`). `EventuallyHeard`, and `ImplementsDelivery`: the jobs
  implement BgDelivery. Fairness: the loop, the restart, the wrapper's last step or the clock, and an
  agent run that is retried for ever succeeds once (strong fairness). `EventuallyHeard` itself
  assumes that the session does not stay busy and exists.

### TaskScheduler

* `tasks_one` (one task, recurring or triggered by events, whose owner may lose administrator rights;
  2 coroutines alive together, threshold 2, 2 events, 2 requests of the user, 1 crash, 1 exception;
  2 million states). `NoPhantomRows`: a queued or running row has a coroutine, except those of runs that met an
  exception before they started or whose last write failed (see section 5). `MembershipIsHeld`,
  `TriggerKept`, `DoubleOnlyAfterStop`. Two coroutines are what a stop and a new dispatch need; two
  events reach the threshold; one exception at any step is enough to meet every handler, and what
  follows is without one again. Tasks that run once are left to `tasks_live` and to the proofs of
  these invariants, which hold for all trigger types and any bounds.
* `tasks_live` (two tasks that need the model slot, the second chained to the first; one event, one
  crash, one exception, the user comes and goes, `FairSpec`). `OneModelRun`: one run at a time has
  the slot, whoever has it is past the semaphore and will give it back, and of the runs that wait one
  is first; cancelled holders and waiters do not take the slot with them. `TriggerAnswered`. Kinds are "once" and "event":
  a recurring task makes the liveness graph too large, and its steps are those of "once" except that
  `next_run` is computed anew.

Fairness: time passes, the tick comes, a run's work ends (an agent run has a wall-clock limit), and
whatever is ready gets the loop although others take it again and again: asyncio's ready queue and
its semaphore are first come, first served, which strong fairness states. The user is not fair:
`TriggerAnswered` speaks of behaviours in which the user leaves in the end.

### SessionHistory

* `session_history` (1 turn at a time, used again; 4 messages, 1 failed commit or late load, any
  number of restarts; 1.1 million states; a `VIEW` leaves out what no action and no property reads
  any more, such as the contents of a deleted session that nobody has cached). `PromptIsWhole`: as long as no commit failed and no load came late
  since the start, the model is sent the whole stored transcript. `RowsInTurnOrder`.
  `RemovedStaysRemoved`: a removed message is gone from rows and cache; of a deleted session nothing
  is stored again, and only a request that read it before the deletion was committed (`reread`) can
  have cached it again. `LongSessionsKept`. `ImplementsTranscript`: rows, count, cached and held objects implement one
  list; it contains that a manual compaction of a transcript nobody changed drops only messages its
  summary stands for (`ManualSummarisesWhatItDrops`, proved). The thresholds of the code
  (4 conversation messages, 6 and 8 for manual compaction, 20 for the clean-up) are constants,
  scaled to 3, 2, 1 and 2 so that transcripts of at most four messages pass them; the code only
  compares lengths with them. Other requests (posts, edits, compactions, deletion, loads in threads) run against the
  turn. One deletion and one load may be under way together with each other and with everything else.
* `session_auto_compaction` is expected to fail: see section 5. It keeps `maybe_compact`'s own
  threshold of 4.

### ChatClient

* `chat_client` (2 chats, 2 sends, 1 typed text, 1 re-attachment, 1 incident; 440,000 states). An
  incident is what the user or the network does against a send: a switch of chat, a lost connection,
  a refusal, a failed preflight or run, a timeout, a probe, a tab recovery. `RegistryIsLive`: a
  registered stream is a posted send that is not over. `StopHitsNothingNewer`: the run a Stop names
  committed no later than the send the Stop was meant for. `PostsInOrder`: a send never posts after
  one that superseded it. `BusyHasOwner`: a Stop button has a send to stop, a closed gate a submit
  in it. `QueueKeepsDrainer`: no step leaves queued messages without a timer, a submit or a send
  that will look at them; its three exceptions are in section 5. Two sends are what superseding takes; one text suffices since texts only
  flow between box, queue and timers (queued, it can be sent again). Three sends in one chat pass as
  well (8.3 million states, five minutes on four cores), and show one thing more: a send whose
  upload fails after it was stopped releases the gate of its successor, which may then be overtaken
  by a third. That is why generations and not the order of the clicks appear in the properties.
* `chat_client_live` (1 chat, 2 sends, 1 text, 1 incident, `FairSpec`). `PageComesToRest`: every
  send ends and the Stop button goes away, unless it is stuck (section 5). `QueueDrains`: a queue
  that somebody drains becomes empty, with the exceptions of `QueueKeepsDrainer`. A stuck button
  takes three sends, which the liveness graph has no room for; what the two properties rest on
  (`BusyHasOwner`, `QueueKeepsDrainer`) is proved for any number of chats, sends and texts.
* `chat_stop_own_run` is expected to fail: see section 5.

Fairness: timers fire, and what a send waits for settles: the POST by an answer or by its timeout,
the stream by the end of its run. Nothing is assumed of the user, of history and status requests, or
of the watchdog.

### ToolApprovals with Documents

* `tool_approvals` (1 document, 2 texts, 2 chats, 2 cards, a registry of 1, 2 versions, 2 ordinary
  messages, 2 requests under way; texts and chats symmetric; a `VIEW` leaves out
  what is dead in a run that is past the gate; 390 000 states).
  `ShownIsEdited`: the history of the document bears out every approved edit: the text before it is
  the one that was shown. `AnsweredOnce`: a card starts one run at most, and none that was not
  approved, and once its edit was executed nobody is left to execute it again.
  `ImplementsSealedEdits`: the approvals and the document store implement SealedEdits; it contains
  that no step rewrites a version except the user's latest within the window.
  `TypeOK` includes the bound of the registry. Two cards and a registry of one make every creation
  supersede or evict; two chats answer and evict each other's; two versions are an edit on top of
  what was shown. The proofs remove all these bounds.
* `agent_edits_own_document` (two documents) is expected to fail: see section 5.

Where a cfg says `CHECK_DEADLOCK FALSE`, the system may come to rest: all runs or messages that the
bound allows are used up, or the session is deleted.

## 4. Proofs

Everything below holds for every value of the constants that the named assumptions
(`AgentRunsAssumption`, `BgJobsAssumption`, `TaskSchedulerAssumption`, `SessionHistoryAssumption`,
`DocumentsAssumption`, `ApprovalsAssumption`, `ClientAssumption`) allow: any number of runs,
connections, events, jobs, tasks, turns, messages, failed commits, documents, cards, sends, chats and
crashes. TLC evaluates these assumptions in the runs.

* **AgentRunsProofs** proves every safety and action property of `agent_runs`.
  `TypeCorrect`. `OneRunningCorrect`: `OneRunning` is not inductive, since `Start` terminalises only
  the registered run. `RegInv` adds that only the latest run can be registered, that runs not
  started are untouched, and that a task which can end without passing through `_drain`'s handlers
  (cancelled before its first step, or in the shielded wait) was made terminal before.
  `BarrierCorrect`: `BarrierUnlessLapsed` says nothing of a run that has closed its stream, yet the
  next run relies on it. `BarrierInv` extends the claim to every run that finished without lapsing,
  and adds that a run's `prev` is its immediate predecessor or nobody, and nobody only when that
  predecessor is over or has lapsed. `SavesCorrect`: whoever saved has an open stream or is over
  (`SavesOpen`), and the barrier then orders the saves. `ReplayCorrect` and `DeliveryCorrect`: a
  queue holds, between sentinels, consecutive events up to the last one published (`GoodQueue`), and
  a reader that waits has everything that is not in its queue (`NoGap`); together they say that the
  replayed and the live part meet without a gap (`ReadInv`). `WaitsEnd`: a run that
  has been replaced is cancelled or already unwinding (`LeaveInv`), and a run loses the status
  "running" only in a step that gives its readers the sentinel (`EndInv`). `TurnsImplemented`: AgentRuns
  implements RunTurns. All of the above is needed (`TurnInv`), and that a task which is not cancelled
  and not over still reports itself running (`FreshInv`), so that who writes is the live turn; every
  way for a task to end is one abstract step (`FinishStep`), a reader's event is the next one because
  of `ReadInv`, and everything else is a stutter.
* **BgJobsProofs.** One inductive invariant `BgInv`, a conjunction of named parts: the dict
  `refresh()` works on agrees with the store except for what it settled itself (`DictInv`), which is
  why saving it overwrites nothing; what a suspended caller may assume about its target
  (`CallerInv`); a record's outcome and its process (`StoreInv`); the monitor's current job
  (`MonInv`); messages told against `followed`, the job in hand and crashes (`ToldInv`).
  From it `ReportsCorrect`, `ToldOnceCorrect`, the action properties
  `OutcomeCorrect` and `DroppedCorrect`, and the refinement `DeliveryImplemented`: initial states map
  to initial states, and every step of BgJobs is a step of BgDelivery or a stutter
  (`DeliveryStep`, with one lemma per kind of step).
* **TaskSchedulerProofs** proves all safety invariants of the scheduler. `TypeCorrect`.
  `NoPhantoms`: `RowInv` says which statuses a row may have at each place of its coroutine, that a row
  without a coroutine is over unless its run is in `failed`, and that after a crash there are no
  coroutines. `OneAtATime`: who is past the semaphore on its account has
  the slot (`SlotInv`); who has the slot is past the semaphore, alive and not forced, whichever way
  runs are cancelled (`OwnerInv`); `begun` lists every live run that has begun, each once, so that of
  the runs that wait one began first (`BegunInv`, `LineHasFirst`; `WithoutFacts` says what taking a run
  out of a list leaves, `LeastOf` that a set of numbers has a least one). `MembershipHeld` and `NoDoubleBeforeStop` share `DispatchInv`: until its
  first stop a task with a dispatched run is in `_executing`, which keeps a second run away.
  `TriggersKept`: a task that is owed a run has none started and stays due while it is active
  (`OwedInv`); the end of a run reads what an event wrote meanwhile, which is why `Written` matters.
* **SessionHistoryProofs** proves every property of the transcript that the code keeps. Its lemmas on
  lists say what appending, cutting, dropping and concatenating make of a list in turn order (`Good`),
  in particular that what a compaction makes of it (a prefix, the summary, a tail) is in order again
  (`GoodCompacted`); the lemmas on the store say the same of `get_session`, `add_message` and the
  replacing methods. `StoreInv`: every list there is, stored or cached, is in turn order, and a
  deleted session has no rows; this gives `RowsOrdered`.
  `SyncInv`: while no commit failed and no load came late since the start, the cached history is the
  stored transcript or was not read yet (`Whole`), and every turn in progress holds the cached object
  (`InSync`). This is why the length test of `get_session` suffices: it may load a new object only
  when no turn holds the old one. Between the two steps of a deletion a turn may hold the dropped
  object while another is cached, so there only `Whole` holds; it is enough, because no commit
  succeeds in between and no session is left afterwards. `SyncInv` gives `PromptsWhole` and, with the
  exact count it also keeps, `LongKept`. `RemovedGone` needs it to know that the rows a compaction
  writes come from rows; `ThreadInv` says that a deletion under way finds the session, that what a
  thread has read is in turn order, and that a cached copy without its row (`Ghost`) comes from a
  request that read it before. `ManualExact`: a waiting compaction's `older` and
  `recent` cover its base (`CompactInv`), which is the stored transcript unless it was overtaken.
  `TranscriptImplemented`: SessionHistory implements Transcript. Every handler that calls methods of the
  session manager is one step on the list or a stutter (one lemma per action): `StoreInv` makes
  what a cached object persists an append to the stored list, `SyncInv` makes the history a
  compaction or a prompt is taken from the list itself, and `AutoCompactNew` says which stretch an
  automatic compaction replaces, whatever the conversion between its two numberings does to it.
* **ToolApprovalsProofs.** `HistoriesKept`: every step keeps versions (`HistoryStep`).
  `ApprovedEditsBorneOut`: an approved edit goes on top of the shown text, since a document shows its
  latest version (`DocInv`) and `Unchanged` compares number and text; histories keep it from then
  on. `CardsAnsweredOnce`: a card in the registry is unanswered (`CardInv`), and requests and runs
  carry only cards that were used once (`ReqInv`, `RunInv`); an approval has one holder, a request or
  the run that came of it, and none once its edit was executed (`CarryInv`).
  `SealedEditsImplemented`: by these a card is in one phase only (`LifeFacts`). A step that makes,
  approves and executes no card can only close some (`CloseStep`), a step on documents is an edit
  (`UserEdit`, `AddEdit`), and an edit that is executed finds the sealed state (`ExecuteSeals`).
  `TypeCorrect` includes the bound of the
  registry, from the cardinality of what `Enrolled` leaves.
* **ChatClientProofs** and **ChatPageProofs** prove the safety properties of the page. `TypeCorrect`: five actions move
  a text between the box, the queue and the promote timer, so the bound of the queue holds only
  together with a count of the texts in the three places (`TypeBox`). `RegistryLive` is inductive
  with the types: a send's end removes its own registration, and by the property there is no other.
  `PostsOrdered`: the newest send of a chat has committed in it with the largest generation and no
  two of a chat share one (`Generations`); a send that posts is the newest. `StopsExact`: the run a
  chat names belongs to a committed send of that chat (`Runs`), which is not newer than the chat's
  newest, and a Stop is queued only for a send that was to be stopped (`Stops`). `Quiet` says what
  all steps but `Commit` and `Post` have in common; the invariant survives any quiet step.
  `ButtonTruthful`: `BusyHasOwner` is not inductive, because a `finally` block syncs the button from
  the registry: it needs that a registered send is the newest of its chat or was followed only by
  one that never posted (`RegNewest`), and that a send which has not posted is not connected
  (`Unposted`); together `OwnerInv`. `QueueKept` rests on the same invariant: a timer that finds the
  page busy goes away, and it may do so only because whoever keeps the page busy drains the queue
  when it ends. `Steady` is what the steps without a part in this have in common.

Only model-checked: every liveness property (fairness and `ENABLED` are outside what the prover
handles). What a recursive definition computes for every input needs induction over data and stays
with TLC.

## 5. Where the code and its own words disagree

Each of these was met while translating. Runs are kept for three statements of the repository that
the code does not keep; TLC's traces show how.

| Run | Code | Statement |
|---|---|---|
| `session_auto_compaction` | `context_compactor.py:504`: the split is moved by the number of the prompt's system messages, which are not in `session.history`; that many recent messages are deleted without being summarised | `context_compactor.py:419-423`: "session.history INCLUDES the system messages" |
| `chat_stop_own_run` | `chat.js:4974`: the answer of a re-attachment stores its run id although a newer send owns the chat; a Stop then cancels the old run and not the new one | `chat.js:1472`: a Stop "must queue for THIS send, not fire against the old run" |
| `agent_edits_own_document` | `document_tools.py:484`: the target of the tools is one variable of the process, set by any chat's turn and emptied by a closed tab | `agent_loop.py:2488`: "Every request is about THIS document" |

Others, for which the model has the steps but no run is kept. On the server:

* `agent_runs.py:154`: a second cancellation ends the shielded wait, and a task cancelled before its
  first step never waits; the next run streams while the first still unwinds (against `:147-150`,
  "the transitive session-save ordering barrier"; hence `BarrierUnlessLapsed`);
* `chat_routes.py:2283`: a run cancelled between saving its answer and returning saves it again
  (against `:2617-2619`, "exactly once");
* `bg_jobs.py:185`: an exit file that exists but is still empty counts as exit status 1;
* `bg_monitor.py:102`: `get_session` raises for a deleted session, so that its job is retried for
  ever (against `:104-105`, "Consider it handled so we don't retry forever");
* `bg_monitor.py:131`: the follow-up's answer is written into a session that got a live turn
  during the agent run (against `:109`);
* `task_scheduler.py:1037`: the end of a run sets an event task's `next_run` to NULL, also when an
  event came during the run (against `event_bus.py:99-103`, "instead of losing the event");
* `task_scheduler.py:975`: a run cancelled by `stop_background_tasks_for_foreground` takes the branch
  of a user's stop (against `:2296-2297`, "automatic jobs will be deferred by their cancellation
  path");
* `task_scheduler.py:2285`: `stop_task` gives up the membership before the coroutine has ended, so
  that a second run of the task may begin (hence `DoubleOnlyAfterStop`);
* `task_scheduler.py:1122`: an event task whose run raises stays overdue and is dispatched at every
  tick (against `:1119-1120`);
* `task_scheduler.py:1115`: the handler of an exception passes over a row that still says queued: a
  run that raises before the commit of `:878` (a failed commit there or at `:866`, a failing check at
  `:842`) leaves it queued, with nobody to execute it, until the next restart, and `:1122` gives up a schedule's
  occurrence without a record of it (against `:781-783` and `:830-831`, "so the run row doesn't sit as
  'queued' forever"; hence `failed` in `NoPhantomRows`);
* `task_scheduler.py:1114`: after a commit that failed in its flush the session refuses every query
  until it is rolled back; the handler's first query raises, so that the fallback at `:1136` is not
  reached: the row stays running and `next_run` in the past, as the comment at `:1137-1140` fears;
* `task_scheduler.py:870`: a task paused while its run waits at the gate runs all the same;
* `task_scheduler.py:1015`: a stop that arrives while the run waits for its monitor is swallowed;
* `task_scheduler.py:764`: forced and housekeeping runs go beside the model slot;
* `session_routes.py:1001-1075`: manual compaction replaces the transcript with what it read up to a
  minute earlier: messages posted in between are deleted, removed ones come back (`overtaken`);
* `session_manager.py:304-309` with `:436`: after a failed commit, truncation by index can leave a
  cached message without a row at equal lengths, which is never reloaded (`healthy`);
* `session_manager.py:614` with `:619`: the cached session is dropped before the deletion is
  committed; a request on the loop that uses the session in between reads it from the rows that are
  not yet gone and caches it again: a deleted chat stays in memory (against `:609-612`; `reread`);
* `session_manager.py:508-510`: a rename, archiving, unarchiving or export that loads the session does
  so in a thread and caches what it read, however old: messages stored meanwhile are missing in the
  next prompts, removed ones are back, and the stored count follows (`LoadInstall`, `healthy`);
* `task_scheduler.py:2113`: the scheduler caches `_db_to_session` of an empty session, which is None;
* `document_routes.py:1027`: the AI tidy deletes rows it judged before it awaited the model;
* `tool_approvals.py` with `agent_loop.py:5806`: a run's view of the document is not refreshed by its
  own write, so that an edit it proposes afterwards is refused when approved.

In the chat page (`static/js/chat.js`):

* `1667`, `1783`, `1801`: a failed upload or document save releases the send gate without a look at
  the generation: the gate of a newer send opens, which may be sent again or be overtaken;
* `1264` with `1649`: until the box is emptied after the model switch, Enter queues its text again:
  the same message is sent twice;
* `1064`: a queued message goes to whichever chat is open when the queue drains (against `1067`,
  "Queued for after this response");
* `1039`: a second promotion clears the timer of the first, whose text is lost;
* `1094-1100`: a drained message overwrites a draft in the box;
* `1275-1310`: a queued slash command ends in the gate, and nothing drains the rest of the queue;
* `4582` with `651-653`, `4575-4580`: a replacement that fails before its POST, and a third submit
  that ends in the gate, leave the button of the open chat to a superseded send, whose clean-up does
  not sync it (against `4580`, "The replacement syncs when it registers or finishes"): a Stop button
  with nothing to stop, and a queue that nobody drains, until the next switch of chat. One chat and
  three sends are needed (`StuckButton`);
* `1014-1027` with `sessions.js:1858-1885`: a chat that is reloaded between the drain timer and its
  `setTimeout(0)` empties the box: the queued message is lost and the rest of the queue waits;
* `4582`: the clean-up of a send in a background chat synchronises the globals of the open one;
* `4797-4835`: the answer of a probe acts on whatever stream the open chat has by then;
* `4983`: two re-attachments pass the guard before either has taken `_resumingStreams`;
* `4906` with `sessions.js:1858-1885`: `currentSessionId` changes before `detachCurrentStream`, whose
  fall-through aborts by the new id;
* `2099-2139`: a POST refused after its chat was left keeps the background entry "running".

Read in the document editor (`static/js/document.js`), which is not modelled: `7359-7370` with
`10311-10319` saves the previous document's textarea into the one that is restored; `4611-4650`
drops the unsaved text of a background tab that is closed.

## 6. Bounds and abstractions

* Every bound is a constant of its module, named in its comment: `MaxRuns`, `MaxEvents`,
  `MaxCrashes`, `MaxAsks`, `MaxMsgs`, `MaxFaults`, `MaxSystem`, `MaxContext`, `MaxSends`, `MaxTexts`,
  `Resumers`, `MaxIncidents`, `MaxVersions`, `MaxCards`, `MaxTurns`, `MaxRequests`. `MaxPending` and
  `NudgeCap` are values of the code, scaled down for TLC; `MaxPending` is free in the proofs.
* Sessions share no state in AgentRuns, BgJobs and SessionHistory except the event loop, so one
  session (or one session's jobs) is modelled at a time. In ChatClient and ToolApprovals they do,
  and there are two.
* Texts, ids, models, metadata and layouts are left out. Wall-clock time is left out except for what
  the code compares.
* A database transaction commits or fails as a whole; an atomically written file is old or new.
* Synchronous routes run in threads of the pool. In SessionHistory the steps of `delete_session` and
  of a load by `rename`, `archive`, `unarchive` and `export` fall between any two steps of the loop;
  one deletion and one load are under way at a time. The deletions by the agent's tool
  (`session_tools.py:383`), in bulk and by auto-sort call the same `delete_session`; `delete_all_sessions`
  clears the cache after its commit. A `get_session` whose object is dropped between its own statements
  raises `KeyError`, which is a failed request.
* Left out of TaskScheduler: editing and deleting tasks, exceptions in the dispatchers before a run is
  created, `compute_next_run` raising, notifications, the note scanner, date arithmetic, `_cached`. Left out of SessionHistory: editing,
  merging and forking, slash-command messages, what archive and rename write themselves, incognito turns, the ids inside
  the metadata, trimming of the prompt. Left out of BgJobs: process ids and their reuse, errors when
  reading the store. Left out of ChatClient: regeneration and edits, research, approval cards,
  compare mode, the deferred creation of a chat, deletion of a chat, an exception thrown inside the
  send gate. Left out of Documents: an edit of a PDF-backed document (`document_tools.py:523-530`,
  `675-682`) creates a derivative document and makes it the target; here it is a new version of the
  same document. `ToolTarget` falls back to any document, where the code takes the most recently
  updated one, which is more than the code can do. Left out of ToolApprovals: approvals of tools other than document edits, a card answered before its message is saved,
  headless callers, delegated credentials, plan mode.
* Hazards of the code that no property covers, because the code gives no promise that could be
  checked, are the entries of section 5 without a run.

## 7. Plan

Done: AgentRuns, RunTurns, BgJobs, BgDelivery, TaskScheduler, SessionHistory, Transcript, ChatClient, Documents,
ToolApprovals, SealedEdits; AgentRunsProofs, BgJobsProofs, TaskSchedulerProofs, SessionHistoryProofs,
ToolApprovalsProofs, ChatClientProofs, ChatPageProofs.

Left, in this order:

1. **DocEditor**: the page's tabs, textarea, autosave and version panel over Documents.
2. **ChatTurn**: a composition of AgentRuns, SessionHistory and the monitor through `is_active`,
   to state of the whole what each part assumes of the others: answers stored once, in turn order,
   in the transcript that the prompt was built from. RunTurns is what it takes from AgentRuns, Transcript
   what it takes from SessionHistory.
3. **AuthManager** (token snapshots that overtake each other, the last administrator),
   **ServeLifecycle** (tick against the UI's writes), `compute_next_run` as an operator against a
   reference definition over bounded dates, the single flight of `_cached`.

Runs stay on instances that finish within a few minutes; where two questions share a state space they
share a run.
