----------------------------- MODULE ChatClient -----------------------------
(***************************************************************************)
(* The chat page of the browser client (static/js/chat.js and the session  *)
(* switching of static/js/sessions.js): how a typed message becomes one    *)
(* POST of /api/chat_stream and one reader of its event stream, and what   *)
(* Stop, a queued message, a switch of session, a timeout, a watchdog      *)
(* probe, a lost connection and a re-attachment do to it.                  *)
(*                                                                         *)
(* The page is one thread.  An action is the code between two awaits, a    *)
(* timer callback or an event listener; everything the page waits for      *)
(* (the server, the user, a timer) may come between two of them.  A send   *)
(* is one call of handleChatSubmit past its gate; sends are numbered in    *)
(* the order they pass it, which need not be the order in which they       *)
(* commit (gen).  A send stands for its AbortController and for the run    *)
(* its POST starts on the server.  0 is "none".                            *)
(***************************************************************************)
EXTENDS Naturals, Sequences, FiniteSets

CONSTANTS
    Sessions,       \* the chats the user moves between
    FirstSession,   \* the chat that is open when the page has loaded
    MaxSends,       \* bound: submits that pass the gate
    MaxTexts,       \* bound: messages the user types
    Resumers,       \* bound: concurrent calls of _checkServerStream/resumeStream
    MaxIncidents,   \* bound: switches of chat, failures, lost connections, probes
    NudgeCap        \* _AUTO_NUDGE_CAP, 3 in the code

ASSUME ClientAssumption ==
    /\ FirstSession \in Sessions
    /\ {MaxSends, MaxTexts, MaxIncidents, NudgeCap} \subseteq Nat

VARIABLES
    current,        \* currentSessionId of sessions.js
    nav,            \* the chat whose selectSession still loads (its _sessionNavToken is the last)
    streaming,      \* isStreaming: the composer's button is a Stop button
    inFlight,       \* _sendInFlight: a submit is between click and commit
    currentAbort,   \* the send whose controller currentAbort is
    watchdog,       \* the interval of _startStallWatchdog is running
    streamSession,  \* _streamSessionId
    composer,       \* the text in the message box
    typed,          \* bound: texts typed so far
    queue,          \* _queuedAgentRequests
    drain,          \* _queuedDrainTimer is set
    promoted,       \* the text of the pending _queuedPromoteTimer
    submits,        \* handleChatSubmit calls waiting in setTimeout(0) of _setComposerAndSend
    send,           \* the sends
    latest,         \* _streamGenerations: the newest send of each chat
    sendState,      \* _sendStates: the send that Stop addresses in each chat
    active,         \* _activeStreams
    runId,          \* _streamRunIds: the run a Stop in this chat names
    pendingStop,    \* _pendingRunStops: per send "no", "bare" (no controller) or "ctrl"
    background,     \* _backgroundStreams: status of the detached stream of each chat
    terminalSaved,  \* _terminalSavedStreams
    resuming,       \* _resumingStreams
    resumer,        \* calls of _checkServerStream and resumeStream in progress
    recover,        \* chats with a pending timer of _tryAutoRecover
    nudges,         \* _autoNudges
    reselect,       \* chats with a pending deferred selectSession
    polls,          \* chats with a poll of checkBackgroundStream
    probe,          \* the watchdog's fetch of stream_status in progress
    run,            \* the server's run of each send
    stopsSent,      \* the runs named by a POST of /api/chat/stop (forgotten with their send)
    stopWanted,     \* the sends the user stopped, or whose timeout fired (same)
    incidents       \* how much of MaxIncidents is used

pageVars   == <<current, nav, streaming, inFlight, currentAbort, watchdog, streamSession>>
boxVars    == <<composer, typed, queue, drain, promoted, submits>>
sendVars   == <<send, latest, sendState, active>>
stopVars   == <<runId, pendingStop, stopsSent, stopWanted>>
bgVars     == <<background, terminalSaved, polls>>
resumeVars == <<resuming, resumer, recover, nudges, reselect>>
probeVars  == <<probe, incidents>>
vars == <<pageVars, boxVars, sendVars, stopVars, bgVars, resumeVars, probeVars, run>>

Sends == 1 .. MaxSends
Texts == 1 .. MaxTexts

NoSend   == [pc |-> "absent", ses |-> FirstSession, gen |-> 0, text |-> 0, posted |-> FALSE,
             aborted |-> FALSE, spoke |-> FALSE, timedOut |-> FALSE]
NoProbe  == [pc |-> "no", ses |-> FirstSession, snd |-> 0]
NoResume == [pc |-> "no", ses |-> FirstSession, run |-> 0]

Connected == {"posting", "reading", "doneSeen"}
Open      == {"committed", "preflight"} \cup Connected

TypeOK ==
    /\ current \in Sessions /\ nav \in Sessions \cup {0}
    /\ {streaming, inFlight, watchdog, drain} \subseteq BOOLEAN
    /\ currentAbort \in Sends \cup {0} /\ streamSession \in Sessions \cup {0}
    /\ composer \in Texts \cup {0} /\ promoted \in Texts \cup {0}
    /\ typed \in 0 .. MaxTexts
    /\ queue \in Seq(Texts) /\ Len(queue) <= MaxTexts /\ submits \in Nat
    /\ send \in [Sends -> [pc : {"absent", "gate", "released", "done"} \cup Open, ses : Sessions,
                           gen : Nat, text : Texts \cup {0}, posted : BOOLEAN, aborted : BOOLEAN,
                           spoke : BOOLEAN, timedOut : BOOLEAN]]
    /\ {latest, sendState, active, runId} \subseteq [Sessions -> Sends \cup {0}]
    /\ pendingStop \in [Sends -> {"no", "bare", "ctrl"}]
    /\ background \in [Sessions -> {"none", "running", "completed", "error"}]
    /\ {terminalSaved, resuming, recover, reselect, polls} \subseteq SUBSET Sessions
    /\ resumer \in [Resumers -> [pc : {"no", "status", "asked", "reading"},
                                 ses : Sessions, run : Sends \cup {0}]]
    /\ nudges \in 0 .. NudgeCap
    /\ probe \in [pc : {"no", "asked", "404", "live"}, ses : Sessions, snd : Sends \cup {0}]
    /\ run \in [Sends -> {"none", "live", "finished", "failed", "refused"}]
    /\ {stopsSent, stopWanted} \subseteq SUBSET Sends
    /\ incidents \in 0 .. MaxIncidents

Init ==
    /\ current = FirstSession /\ nav = 0 /\ streaming = FALSE /\ inFlight = FALSE
    /\ currentAbort = 0 /\ watchdog = FALSE /\ streamSession = 0
    /\ composer = 0 /\ typed = 0 /\ queue = <<>>
    /\ drain = FALSE /\ promoted = 0 /\ submits = 0
    /\ send = [k \in Sends |-> NoSend]
    /\ latest = [s \in Sessions |-> 0] /\ sendState = latest
    /\ active = latest /\ runId = latest
    /\ pendingStop = [k \in Sends |-> "no"]
    /\ stopsSent = {} /\ stopWanted = {}
    /\ background = [s \in Sessions |-> "none"]
    /\ terminalSaved = {} /\ polls = {}
    /\ resuming = {} /\ resumer = [i \in Resumers |-> NoResume]
    /\ recover = {} /\ nudges = 0 /\ reselect = {}
    /\ probe = NoProbe /\ incidents = 0
    /\ run = [k \in Sends |-> "none"]

-----------------------------------------------------------------------------
(* Helpers.                                                                *)

\* Something fails, or a watchdog acts.
Incident == incidents < MaxIncidents /\ incidents' = incidents + 1

\* _syncForegroundStreamGlobals: the globals follow the entry of the open chat.
Sync(act, cur) ==
    /\ streaming' = (act[cur] # 0)
    /\ currentAbort' = act[cur]

\* hasActiveStream
HasActiveStream(s) ==
    active[s] # 0 \/ streamSession = s \/ background[s] # "none" \/ s \in resuming

\* The send whose controller abortCurrentRequest takes, for the open chat c:
\* that of the chat's send state (null before its POST), else the registered
\* stream's, else currentAbort.
ControllerFor(c) ==
    CASE sendState[c] # 0 -> IF send[sendState[c]].pc \in Connected THEN sendState[c] ELSE 0
      [] sendState[c] = 0 /\ active[c] # 0 -> active[c]
      [] OTHER -> currentAbort

\* AbortController.abort(): nothing once the send is over.
Abort(snd, k) ==
    IF k # 0 /\ snd[k].pc \in Connected THEN [snd EXCEPT ![k].aborted = TRUE] ELSE snd

LiveRun(s) == {k \in Sends : run[k] = "live" /\ send[k].ses = s}

\* Mutated form: the last message is never drained.
DrainTimerNotLast(str, fly, q) == drain \/ (~str /\ ~fly /\ Len(q) > 1)

\* _drainQueuedAgentRequests, called when the globals are `str` and `fly`
\* and the queue is `q`: it only arms the timer.
DrainTimer(str, fly, q) == drain \/ (~str /\ ~fly /\ q # <<>>)

-----------------------------------------------------------------------------
(* The composer and the queue.                                             *)

\* The user types a message; the box is disabled while a submit is in flight.
Type ==
    /\ ~inFlight /\ composer = 0 /\ typed < MaxTexts
    /\ typed' = typed + 1
    /\ composer' = typed'
    /\ UNCHANGED <<pageVars, queue, drain, promoted, submits, sendVars, stopVars, bgVars,
                   resumeVars, probeVars, run>>

\* handleChatSubmit past `if (_sendInFlight) return`: the gate is taken and
\* the text captured; the box keeps it until the preflight.
OpenGate ==
    /\ ~streaming /\ ~inFlight /\ composer # 0
    /\ \E k \in Sends :
          /\ send[k].pc = "absent" /\ \A j \in 1 .. k - 1 : send[j].pc # "absent"
          /\ send' = [send EXCEPT ![k] = [NoSend EXCEPT !.pc = "gate", !.text = composer]]
    /\ inFlight' = TRUE
    /\ UNCHANGED <<current, nav, streaming, currentAbort, watchdog, streamSession,
                   composer, typed, queue, drain, promoted, latest, sendState, active,
                   stopVars, bgVars, resumeVars, probeVars, run>>

\* handleChatSubmit while isStreaming: abortCurrentRequest(true), the exact
\* Stop of _stopExactRun (sent, or queued against the newest send until its
\* header names the run), and the reset of the button.  Only the branch for a
\* reply without text drains the queue at once.
StopBranch(q) ==
    /\ streaming
    /\ LET c == current
           ctrl == ControllerFor(c)
           named == runId[c] # 0
       IN /\ IF named THEN /\ stopsSent' = stopsSent \cup {runId[c]}
                           /\ send' = Abort(send, ctrl)
                           /\ UNCHANGED pendingStop
                      ELSE /\ pendingStop' = [k \in Sends |->
                                IF k # latest[c] THEN pendingStop[k]
                                ELSE IF ctrl # 0 THEN "ctrl"
                                ELSE IF pendingStop[k] = "no" THEN "bare" ELSE pendingStop[k]]
                           /\ UNCHANGED <<stopsSent, send>>
          /\ stopWanted' = stopWanted \cup ({latest[c]} \ {0})
          /\ drain' = IF active[c] # 0 /\ ~send[active[c]].spoke
                      THEN DrainTimer(FALSE, inFlight, q) ELSE drain
    /\ streaming' = FALSE /\ watchdog' = FALSE
    /\ UNCHANGED <<current, nav, inFlight, currentAbort, streamSession, typed,
                   latest, sendState, active, runId, bgVars, resumeVars, probeVars, run>>

\* The user clicks Send, or presses Enter.
UserSend == OpenGate /\ UNCHANGED submits

\* The user clicks the Stop button (the box is empty).
UserStop ==
    /\ composer = 0 /\ StopBranch(queue)
    /\ UNCHANGED <<composer, queue, promoted, submits>>

\* Mutated form: the queued text stays in the box.
UserQueueKeepsText ==
    /\ streaming /\ composer # 0
    /\ queue' = Append(queue, composer)
    /\ UNCHANGED <<pageVars, composer, typed, drain, promoted, submits, sendVars, stopVars,
                   bgVars, resumeVars, probeVars, run>>

\* Enter with a text while a reply streams: queueStreamingComposerRequest.
UserQueue ==
    /\ streaming /\ composer # 0
    /\ queue' = Append(queue, composer) /\ composer' = 0
    /\ UNCHANGED <<pageVars, typed, drain, promoted, submits, sendVars, stopVars, bgVars,
                   resumeVars, probeVars, run>>

\* A click on a queued bubble (_promoteQueuedRequest): idle, the text is sent
\* at once; busy, the box is emptied, the Stop button clicked, and the one
\* promote timer is set to this text.
UserPromote ==
    \E i \in DOMAIN queue :
      LET rest == SubSeq(queue, 1, i - 1) \o SubSeq(queue, i + 1, Len(queue))
      IN /\ queue' = rest
         /\ \/ /\ ~streaming /\ ~inFlight
               /\ composer' = queue[i] /\ submits' = submits + 1
               /\ UNCHANGED <<pageVars, typed, drain, promoted, sendVars, stopVars, bgVars,
                              resumeVars, probeVars, run>>
            \/ /\ streaming /\ StopBranch(rest)
               /\ composer' = 0 /\ promoted' = queue[i] /\ UNCHANGED submits
            \/ /\ ~streaming /\ inFlight
               /\ composer' = 0 /\ promoted' = queue[i]
               /\ UNCHANGED <<pageVars, typed, drain, submits, sendVars, stopVars, bgVars,
                              resumeVars, probeVars, run>>

\* The drain timer: still idle, the head of the queue goes into the box and
\* its submit is scheduled.
DrainFires ==
    /\ drain /\ drain' = FALSE
    /\ IF ~streaming /\ ~inFlight /\ queue # <<>>
       THEN composer' = Head(queue) /\ queue' = Tail(queue) /\ submits' = submits + 1
       ELSE UNCHANGED <<composer, queue, submits>>
    /\ UNCHANGED <<pageVars, typed, promoted, sendVars, stopVars, bgVars, resumeVars,
                   probeVars, run>>

\* trySend of _sendQueuedWhenIdle; while busy it only sets its timer again.
PromoteFires ==
    /\ promoted # 0 /\ ~streaming /\ ~inFlight
    /\ composer' = promoted /\ promoted' = 0 /\ submits' = submits + 1
    /\ UNCHANGED <<pageVars, typed, queue, drain, sendVars, stopVars, bgVars, resumeVars,
                   probeVars, run>>

\* The setTimeout(0) of _setComposerAndSend calls handleChatSubmit, whatever
\* happened since: the submit may find a stream and act as a Stop.
TimerSubmit ==
    /\ submits > 0 /\ submits' = submits - 1
    /\ \/ OpenGate
       \/ StopBranch(queue) /\ UNCHANGED <<composer, queue, promoted>>
       \/ /\ ~streaming /\ (inFlight \/ composer = 0)
          /\ UNCHANGED <<pageVars, composer, typed, queue, drain, promoted, sendVars,
                         stopVars, bgVars, resumeVars, probeVars, run>>

-----------------------------------------------------------------------------
(* One send, from the gate to its finally block.                           *)

\* isStreaming, _sendInFlight and the watchdog, before a finally block.
Page == [str |-> streaming, fly |-> inFlight, wd |-> watchdog]

\* Mutated form: only the newest send removes its registration.
UnregisteredIfNewest(k) ==
    IF active[send[k].ses] = k /\ latest[send[k].ses] = k
    THEN [active EXCEPT ![send[k].ses] = 0] ELSE active

\* A send removes its own registration, never a newer send's.
Unregistered(k) ==
    IF active[send[k].ses] = k THEN [active EXCEPT ![send[k].ses] = 0] ELSE active

\* Mutated form: the button is not reset after the send of the open chat.
ButtonLeft(own, owns, act, str) == IF owns /\ ~own THEN act[current] # 0 ELSE str

\* isStreaming after the finally block: FALSE for the newest send of the open
\* chat, synced for the newest send of another, untouched by a superseded one.
Button(own, owns, act, str) ==
    CASE own           -> FALSE
      [] owns /\ ~own -> act[current] # 0
      [] OTHER         -> str

\* The finally block of send k, with the sends snd, the background map bg and
\* the globals p before it: the send removes its own registration and queued
\* Stop; only the newest send of the chat clears the chat's state and syncs
\* the globals; only in the open, never detached chat does it reset the
\* button.  Then the queue is drained.
Finally(k, snd, bg, p) ==
    LET s    == send[k].ses
        owns == latest[s] = k
        act  == Unregistered(k)
        own  == owns /\ current = s /\ bg[s] = "none"
        str  == Button(own, owns, act, p.str)
    IN /\ active' = act
       /\ send' = [snd EXCEPT ![k] = [@ EXCEPT !.pc = "done", !.aborted = FALSE,
                                     !.spoke = FALSE, !.timedOut = FALSE]]
       /\ pendingStop' = [pendingStop EXCEPT ![k] = "no"]
       /\ streamSession' = IF owns /\ streamSession = s THEN 0 ELSE streamSession
       /\ sendState' = IF owns /\ sendState[s] = k THEN [sendState EXCEPT ![s] = 0] ELSE sendState
       /\ currentAbort' = IF owns THEN act[current] ELSE currentAbort
       /\ streaming' = str
       /\ watchdog' = (p.wd /\ ~own)
       /\ terminalSaved' = IF owns THEN terminalSaved \ {s} ELSE terminalSaved
       /\ background' = bg
       /\ inFlight' = p.fly
       /\ drain' = DrainTimer(str, p.fly, queue)
       /\ stopsSent' = stopsSent \ {k} /\ stopWanted' = stopWanted \ {k}
       /\ UNCHANGED <<current, nav, composer, typed, queue, promoted, submits, latest, runId,
                      polls, resuming, resumer, probe>>

\* A submit that ends in the gate (_releaseSendFlag): a slash command that was
\* handled (the box is emptied), a declined API-key warning (it is not).
ReleaseGate(k) ==
    /\ send[k].pc = "gate"
    /\ send' = [send EXCEPT ![k].pc = "released"]
    /\ inFlight' = FALSE /\ Sync(active, current)
    /\ composer' \in {composer, 0}
    /\ UNCHANGED <<current, nav, watchdog, streamSession, typed, queue, drain, promoted,
                   submits, latest, sendState, active, stopVars, bgVars, resumeVars,
                   probeVars, run>>

\* _streamGenerations: how many sends have committed in chat s.
Generation(s) == IF latest[s] = 0 THEN 0 ELSE send[latest[s]].gen

\* The synchronous commit: the button becomes Stop, the send becomes the
\* newest of the chat that is open NOW, the chat's run identity is dropped and
\* the gate is cleared.
Commit(k) ==
    /\ send[k].pc = "gate"
    /\ send' = [send EXCEPT ![k].pc = "committed", ![k].ses = current,
                            ![k].gen = Generation(current) + 1]
    /\ streaming' = TRUE /\ watchdog' = TRUE /\ inFlight' = FALSE
    /\ latest' = [latest EXCEPT ![current] = k]
    /\ sendState' = [sendState EXCEPT ![current] = k]
    /\ runId' = [runId EXCEPT ![current] = 0]
    /\ streamSession' = current
    /\ UNCHANGED <<current, nav, currentAbort, boxVars, active, pendingStop, stopsSent,
                   stopWanted, bgVars, resumeVars, probeVars, run>>

\* Mutated form: the generation is not looked at again.
SupersededNever(k) == FALSE

\* _streamGenerations names a newer send of the chat.
Superseded(k) == latest[send[k].ses] # k

\* Back from the pending model switch.  A superseded send returns before its
\* try block: no finally runs for it.
StartPreflight(k) ==
    /\ send[k].pc = "committed"
    /\ IF Superseded(k)
       THEN /\ send' = [send EXCEPT ![k].pc = "done"]
            /\ stopWanted' = stopWanted \ {k}
            /\ UNCHANGED <<terminalSaved, nudges, composer>>
       ELSE /\ UNCHANGED stopWanted
            /\ send' = [send EXCEPT ![k].pc = "preflight"]
            /\ terminalSaved' = terminalSaved \ {send[k].ses}
            /\ nudges' = 0 /\ composer' = 0
    /\ UNCHANGED <<pageVars, typed, queue, drain, promoted, submits, latest, sendState,
                   active, runId, pendingStop, stopsSent, background, polls, resuming, resumer, recover, reselect,
                   probeVars, run>>

\* The upload or the document save fails: the button is reset and the flag
\* released without a look at the generation, then the finally block.
FailPreflight(k) ==
    /\ send[k].pc = "preflight"
    /\ Finally(k, send, background,
               [str |-> active[current] # 0, fly |-> FALSE, wd |-> FALSE])
    /\ Incident /\ UNCHANGED <<recover, nudges, reselect, run>>

\* Superseded during the preflight: "[Not sent]", nothing is posted.
DropSuperseded(k) ==
    /\ send[k].pc = "preflight" /\ Superseded(k)
    /\ Finally(k, send, background, Page)
    /\ UNCHANGED <<recover, nudges, reselect, incidents, run>>

\* Mutated form: a superseded send posts all the same.
MayPostAnyway(k) == send[k].pc = "preflight"

\* The preflight is over and the send is still the newest of its chat.
MayPost(k) == send[k].pc = "preflight" /\ latest[send[k].ses] = k

\* The controller is made, the stream registered, the globals synced and the
\* POST issued, in one stretch after the last look at the generation.
Post(k) ==
    /\ MayPost(k)
    /\ send' = [send EXCEPT ![k].pc = "posting", ![k].posted = TRUE]
    /\ active' = [active EXCEPT ![send[k].ses] = k]
    /\ Sync(active', current)
    /\ UNCHANGED <<current, nav, inFlight, watchdog, streamSession, boxVars, latest,
                   sendState, stopVars, bgVars, resumeVars, probeVars, run>>

\* Mutated form: the queued Stop is sent to the chat's current run.
FlushedStopByChat(k) == IF pendingStop[k] # "no" THEN {runId[send[k].ses]} \ {0} ELSE {}

\* _flushPendingRunStop: the Stop queued for a send names that send's run.
FlushedStop(k) == IF pendingStop[k] # "no" THEN {k} ELSE {}

\* The response headers name the run (_rememberStreamRunId): a superseded send
\* does not become the chat's identity but still flushes its own queued Stop.
Headers(k) ==
    /\ send[k].pc = "posting" /\ ~send[k].aborted /\ run[k] \notin {"none", "refused"}
    /\ runId' = IF latest[send[k].ses] = k THEN [runId EXCEPT ![send[k].ses] = k] ELSE runId
    /\ pendingStop' = [pendingStop EXCEPT ![k] = "no"]
    /\ stopsSent' = stopsSent \cup FlushedStop(k)
    /\ send' = [send EXCEPT ![k].pc = "reading", ![k].aborted = pendingStop[k] = "ctrl"]
    /\ UNCHANGED <<pageVars, boxVars, latest, sendState, active, stopWanted, bgVars,
                   resumeVars, probeVars, run>>

\* The server refuses the POST (`!res.ok`): return, finally, no catch.
Refused(k) ==
    /\ send[k].pc = "posting" /\ ~send[k].aborted /\ run[k] = "refused"
    /\ Finally(k, send, background, Page)
    /\ UNCHANGED <<recover, nudges, reselect, incidents, run>>

\* An event line that finds its chat not open marks the stream as background.
Seen(s) == IF current # s /\ background[s] = "none"
           THEN [background EXCEPT ![s] = "running"] ELSE background

\* A text or tool event: the response timeout is cleared.
Delta(k) ==
    /\ send[k].pc = "reading" /\ ~send[k].aborted
    /\ ~send[k].spoke \/ Seen(send[k].ses) # background
    /\ send' = [send EXCEPT ![k].spoke = TRUE]
    /\ background' = Seen(send[k].ses)
    /\ UNCHANGED <<pageVars, boxVars, latest, sendState, active, stopVars, terminalSaved,
                   polls, resumeVars, probeVars, run>>

\* The agent_terminal event: the failed answer is already saved on the server.
Terminal(k) ==
    LET s == send[k].ses IN
    /\ send[k].pc = "reading" /\ ~send[k].aborted /\ run[k] = "failed"
    /\ s \notin terminalSaved
    /\ terminalSaved' = terminalSaved \cup {s}
    /\ background' = IF current # s THEN [background EXCEPT ![s] = "completed"] ELSE background
    /\ send' = [send EXCEPT ![k].spoke = TRUE]
    /\ UNCHANGED <<pageVars, boxVars, latest, sendState, active, stopVars, polls, resumeVars,
                   probeVars, run>>

\* The [DONE] line: in the open chat a background entry is removed, elsewhere
\* it is completed.  The reader still waits for the end of the body.
Done(k) ==
    LET s == send[k].ses IN
    /\ send[k].pc = "reading" /\ ~send[k].aborted /\ run[k] = "finished"
    /\ send' = [send EXCEPT ![k].pc = "doneSeen"]
    /\ background' = CASE current = s -> [background EXCEPT ![s] = "none"]
                       [] OTHER -> [background EXCEPT ![s] = "completed"]
    /\ UNCHANGED <<pageVars, boxVars, latest, sendState, active, stopVars, terminalSaved,
                   polls, resumeVars, probeVars, run>>

\* The body ends after [DONE]: final render and finally.
Close(k) ==
    /\ send[k].pc = "doneSeen" /\ ~send[k].aborted
    /\ Finally(k, send, background, Page)
    /\ UNCHANGED <<recover, nudges, reselect, incidents, run>>

\* The catch block.  A Stop still queued for this send turns the failure into
\* a cancellation.  A stream in the background records how it ended; in the
\* open chat a lost connection schedules a re-attachment (_tryAutoRecover), a
\* terminal error a reload of the saved answer.
Catch(k, recoverable) ==
    LET s   == send[k].ses
        off == send[k].aborted \/ pendingStop[k] # "no"
        isBg == current # s \/ background[s] # "none"
        bg  == IF isBg /\ background[s] # "none"
               THEN [background EXCEPT ![s] =
                       IF background[s] = "completed" \/ s \in terminalSaved
                       THEN "completed" ELSE "error"]
               ELSE background
        again == ~isBg /\ ~off /\ recoverable /\ nudges < NudgeCap
    IN /\ recover' = IF again THEN recover \cup {s} ELSE recover
       /\ nudges' = IF again THEN nudges + 1 ELSE nudges
       /\ reselect' = IF ~isBg /\ ~off /\ ~recoverable /\ send[k].spoke
                      THEN reselect \cup {s} ELSE reselect
       /\ Finally(k, send, bg, Page)
       /\ UNCHANGED run

\* The reader or the fetch rejects: after an abort, on a lost connection (the
\* POST may or may not have reached the server), on the error event of a failed run.
AbortSeen(k)  == /\ send[k].pc \in Connected /\ send[k].aborted
                 /\ Catch(k, TRUE) /\ UNCHANGED incidents
LoseStream(k) == send[k].pc \in Connected /\ ~send[k].aborted /\ Incident /\ Catch(k, TRUE)
ErrorEvent(k) == /\ send[k].pc = "reading" /\ ~send[k].aborted /\ run[k] = "failed"
                 /\ Catch(k, FALSE) /\ UNCHANGED incidents

\* The response timeout: a superseded send is aborted; the newest one stops
\* its run, or queues the Stop until the header comes.
Timeout(k) ==
    /\ send[k].pc \in {"posting", "reading"}
    /\ ~send[k].aborted /\ ~send[k].spoke /\ ~send[k].timedOut
    /\ LET s == send[k].ses
           timed == [send EXCEPT ![k].timedOut = TRUE]
       IN IF latest[s] # k \/ runId[s] # 0
          THEN /\ send' = [timed EXCEPT ![k].aborted = TRUE]
               /\ stopsSent' = IF latest[s] = k THEN stopsSent \cup {runId[s]} ELSE stopsSent
               /\ UNCHANGED pendingStop
          ELSE /\ send' = timed /\ pendingStop' = [pendingStop EXCEPT ![k] = "ctrl"]
               /\ UNCHANGED stopsSent
    /\ stopWanted' = stopWanted \cup {k}
    /\ Incident
    /\ UNCHANGED <<pageVars, boxVars, latest, sendState, active, runId, bgVars, resumeVars,
                   probe, run>>

\* RUN_ID_ABORT_GRACE_MS later no header has come.
GraceEnds(k) ==
    /\ send[k].pc \in Connected /\ send[k].timedOut /\ ~send[k].aborted
    /\ send' = [send EXCEPT ![k].aborted = TRUE]
    /\ UNCHANGED <<pageVars, boxVars, latest, sendState, active, stopVars, bgVars, resumeVars,
                   probeVars, run>>

-----------------------------------------------------------------------------
(* Moving between chats.                                                   *)

\* The synchronous part of selectSession(s).  currentSessionId changes first;
\* then detachCurrentStream is called for the chat that was open: its stream
\* goes to the background, or, when it has none, the call falls through to
\* abortCurrentRequest(), which by now reads the new session id.
SelectSession(s) ==
    LET prev == current
        k    == active[prev]
    IN /\ current' = s /\ nav' = s /\ composer' = 0
       /\ IF k # 0
          THEN /\ background' = [background EXCEPT ![prev] =
                     IF prev \in terminalSaved THEN "completed" ELSE "running"]
               /\ currentAbort' = active[s]
               /\ streamSession' = IF streamSession = prev THEN 0 ELSE streamSession
               /\ streaming' = FALSE /\ watchdog' = FALSE
               /\ UNCHANGED send
          ELSE /\ send' = Abort(send, ControllerFor(s))
               /\ UNCHANGED <<background, currentAbort, streamSession, streaming, watchdog>>

UserSelects(s) ==
    /\ s # current /\ Incident
    /\ SelectSession(s)
    /\ UNCHANGED <<inFlight, typed, queue, drain, promoted, submits, latest, sendState,
                   active, stopVars, terminalSaved, polls, resumeVars, probe, run>>

\* The deferred reloads: after a terminal error, and when a poll or a
\* re-attachment ends; nothing when another chat is open by then.
Reselect(s) ==
    /\ s \in reselect /\ reselect' = reselect \ {s}
    /\ IF current = s
       THEN SelectSession(s)
       ELSE UNCHANGED <<current, nav, composer, background, currentAbort, streamSession,
                        streaming, watchdog, send>>
    /\ UNCHANGED <<inFlight, typed, queue, drain, promoted, submits, latest, sendState,
                   active, stopVars, terminalSaved, polls, resuming, resumer, recover, nudges,
                   probeVars, run>>

\* The history is loaded and this selectSession is still the last: clean up or
\* watch the chat's background stream (checkBackgroundStream), and ask the
\* server for a run to re-attach to (_checkServerStream).
SelectSettles ==
    /\ nav # 0 /\ nav' = 0
    /\ LET s == nav
           bg == IF background[s] = "running" THEN background
                 ELSE [background EXCEPT ![s] = "none"]
           busy == active[s] # 0 \/ streamSession = s \/ bg[s] # "none" \/ s \in resuming
       IN /\ background' = bg
          /\ polls' = IF bg[s] = "running" THEN polls \cup {s} ELSE polls
          /\ \/ /\ ~busy
                /\ \E i \in Resumers :
                     /\ resumer[i].pc = "no"
                     /\ resumer' = [resumer EXCEPT ![i] =
                           [pc |-> "status", ses |-> s, run |-> 0]]
             \/ /\ busy \/ \A i \in Resumers : resumer[i].pc # "no"
                /\ UNCHANGED resumer
    /\ UNCHANGED <<current, streaming, inFlight, currentAbort, watchdog, streamSession,
                   boxVars, sendVars, stopVars, terminalSaved, resuming, recover, nudges,
                   reselect, probeVars, run>>

\* The 500 ms poll of checkBackgroundStream.
PollEnds(s) ==
    /\ s \in polls
    /\ current # s \/ background[s] # "running"
    /\ polls' = polls \ {s}
    /\ IF current = s
       THEN background' = [background EXCEPT ![s] = "none"] /\ reselect' = reselect \cup {s}
       ELSE UNCHANGED <<background, reselect>>
    /\ UNCHANGED <<pageVars, boxVars, sendVars, stopVars, terminalSaved, resuming, resumer,
                   recover, nudges, probeVars, run>>

-----------------------------------------------------------------------------
(* Re-attaching to a run that streams detached on the server.              *)

\* The answer of stream_status: a live run, and still nobody reads it here:
\* resumeStream asks for it.
StatusComes(i) ==
    LET s == resumer[i].ses IN
    /\ resumer[i].pc = "status"
    /\ resumer' = [resumer EXCEPT ![i] =
          IF LiveRun(s) # {} /\ ~HasActiveStream(s)
          THEN [@ EXCEPT !.pc = "asked"] ELSE NoResume]
    /\ UNCHANGED <<pageVars, boxVars, sendVars, stopVars, bgVars, resuming, recover, nudges,
                   reselect, probeVars, run>>

\* The 200 ms timer of _tryAutoRecover: only for the chat that is open.
RecoverFires(s) ==
    /\ s \in recover /\ recover' = recover \ {s}
    /\ IF current = s /\ ~HasActiveStream(s) /\ \E i \in Resumers : resumer[i].pc = "no"
       THEN LET i == CHOOSE j \in Resumers : resumer[j].pc = "no"
            IN resumer' = [resumer EXCEPT ![i] = [pc |-> "asked", ses |-> s, run |-> 0]]
       ELSE UNCHANGED resumer
    /\ UNCHANGED <<pageVars, boxVars, sendVars, stopVars, bgVars, resuming, nudges, reselect,
                   probeVars, run>>

\* The answer of /api/chat/resume.  A live run: its id becomes the chat's run
\* identity and the reader takes the re-attach lock.  None: the caller falls
\* back to a reload.
ResumeAnswered(i) ==
    LET s == resumer[i].ses IN
    /\ resumer[i].pc = "asked"
    /\ \/ \E r \in LiveRun(s) :
             /\ resumer' = [resumer EXCEPT ![i].pc = "reading", ![i].run = r]
             /\ runId' = [runId EXCEPT ![s] = r]
             /\ resuming' = resuming \cup {s}
             /\ UNCHANGED reselect
       \/ /\ LiveRun(s) = {}
          /\ resumer' = [resumer EXCEPT ![i] = NoResume]
          /\ reselect' = reselect \cup {s}
          /\ UNCHANGED <<runId, resuming>>
    /\ UNCHANGED <<pageVars, boxVars, sendVars, pendingStop, stopsSent, stopWanted, bgVars,
                   recover, nudges, probeVars, run>>

\* The replay ends: the chat was left, the run is over (a plain reply is
\* finalised in place, a rich one reloaded), or the connection dropped.
ResumeEnds(i) ==
    LET s == resumer[i].ses IN
    /\ resumer[i].pc = "reading"
    /\ resumer' = [resumer EXCEPT ![i] = NoResume]
    /\ resuming' = resuming \ {s}
    /\ \/ current # s /\ UNCHANGED reselect
       \/ current = s /\ run[resumer[i].run] # "live" /\ UNCHANGED reselect
       \/ current = s /\ reselect' = reselect \cup {s}
    /\ UNCHANGED <<pageVars, boxVars, sendVars, stopVars, bgVars, recover, nudges,
                   probeVars, run>>

-----------------------------------------------------------------------------
(* The stall watchdog and the recovery of a suspended tab.                 *)

\* _probeStaleLocalStream: the open chat's stream was silent; ask the server.
ProbeAsks ==
    /\ watchdog /\ probe.pc = "no" /\ Incident
    /\ active[current] # 0 /\ background[current] = "none"
    /\ probe' = [pc |-> "asked", ses |-> current, snd |-> active[current]]
    /\ UNCHANGED <<pageVars, boxVars, sendVars, stopVars, bgVars, resumeVars, run>>

ProbeAnswered ==
    /\ probe.pc = "asked"
    /\ probe' = [probe EXCEPT !.pc = IF LiveRun(probe.ses) = {} THEN "404" ELSE "live"]
    /\ UNCHANGED <<pageVars, boxVars, sendVars, stopVars, bgVars, resumeVars,
                   incidents, run>>

\* The code after the fetch acts on the stream seen before it.
ProbeHandled ==
    LET s   == probe.ses
        act == [active EXCEPT ![s] = 0]
    IN /\ probe.pc \in {"404", "live"} /\ probe' = NoProbe
       /\ IF probe.pc = "404" /\ active[current] # 0 /\ background[s] = "none"
          THEN /\ send' = Abort(send, probe.snd)
               /\ active' = act
               /\ streaming' = FALSE /\ currentAbort' = act[current]
               /\ inFlight' = FALSE /\ watchdog' = FALSE
               /\ drain' = DrainTimer(FALSE, FALSE, queue)
          ELSE UNCHANGED <<send, active, streaming, currentAbort, inFlight, watchdog, drain>>
       /\ UNCHANGED <<current, nav, streamSession, composer, typed, queue, promoted, submits,
                      latest, sendState, stopVars, bgVars, resumeVars, incidents, run>>

\* The tab became visible again and the open chat's stream is still frozen
\* after the grace period: abort it and reset the page.
TabRecovers ==
    LET k   == active[current]
        act == [active EXCEPT ![current] = 0]
    IN /\ k # 0 /\ Incident
       /\ send' = Abort(send, k)
       /\ active' = act
       /\ streaming' = FALSE /\ currentAbort' = 0 /\ watchdog' = FALSE
       /\ UNCHANGED <<current, nav, inFlight, streamSession, boxVars, latest, sendState,
                      stopVars, bgVars, resumeVars, probe, run>>

-----------------------------------------------------------------------------
(* The server, as the page sees it (src/agent_runs.py, routes/chat_routes.py). *)

\* A POST arrives: its run replaces the chat's live one (agent_runs.start), or
\* it is refused.  A POST whose reader is gone may still arrive.
ServerStarts(k) ==
    /\ send[k].posted /\ run[k] = "none"
    /\ run' = [r \in Sends |-> IF r = k THEN "live"
                               ELSE IF r \in LiveRun(send[k].ses) THEN "finished" ELSE run[r]]
    /\ UNCHANGED <<pageVars, boxVars, sendVars, stopVars, bgVars, resumeVars, probeVars>>

ServerRefuses(k) ==
    /\ send[k].pc = "posting" /\ run[k] = "none"
    /\ run' = [run EXCEPT ![k] = "refused"]
    /\ Incident
    /\ UNCHANGED <<pageVars, boxVars, sendVars, stopVars, bgVars, resumeVars, probe>>

\* A run ends by itself or because a Stop that names it has arrived; the page
\* sees a cancelled run end like a finished one.
ServerEnds(k) ==
    /\ run[k] = "live"
    /\ run' = [run EXCEPT ![k] = "finished"]
    /\ UNCHANGED <<pageVars, boxVars, sendVars, stopVars, bgVars, resumeVars, probeVars>>

\* A run fails while the page reads it.
ServerFails(k) ==
    /\ run[k] = "live" /\ send[k].pc \in Connected
    /\ run' = [run EXCEPT ![k] = "failed"]
    /\ Incident
    /\ UNCHANGED <<pageVars, boxVars, sendVars, stopVars, bgVars, resumeVars, probe>>

-----------------------------------------------------------------------------
User == Type \/ UserSend \/ UserStop \/ UserQueue \/ UserPromote
        \/ \E s \in Sessions : UserSelects(s)

Timers == DrainFires \/ PromoteFires \/ TimerSubmit
          \/ \E s \in Sessions : RecoverFires(s) \/ Reselect(s) \/ PollEnds(s)

\* The code of one send that is due once what it awaits has happened.
Step(k) == ReleaseGate(k) \/ Commit(k) \/ StartPreflight(k) \/ DropSuperseded(k)
           \/ Post(k) \/ Headers(k) \/ Refused(k) \/ Close(k)
           \/ Done(k) \/ ErrorEvent(k) \/ AbortSeen(k) \/ GraceEnds(k)

Server(k) == ServerStarts(k) \/ ServerRefuses(k) \/ ServerEnds(k) \/ ServerFails(k)

Next ==
    \/ User \/ Timers \/ SelectSettles
    \/ \E k \in Sends : Step(k) \/ FailPreflight(k) \/ Delta(k) \/ Terminal(k) \/ LoseStream(k)
                       \/ Timeout(k)
                       \/ Server(k)
    \/ \E i \in Resumers : StatusComes(i) \/ ResumeAnswered(i) \/ ResumeEnds(i)
    \/ ProbeAsks \/ ProbeAnswered \/ ProbeHandled \/ TabRecovers

Spec == Init /\ [][Next]_vars

\* Timers fire and what a send waits for settles: uploads and the model
\* switch, the POST by an answer or by its timeout, the stream by the end of
\* its run.  Nothing is assumed of the user, of the history and status
\* requests or of the watchdog.
Fairness ==
    /\ WF_vars(DrainFires \/ TimerSubmit \/ PromoteFires)
    /\ \A k \in Sends : /\ WF_vars(Step(k))
                        /\ WF_vars(ServerStarts(k) \/ Timeout(k) \/ ServerEnds(k))

FairSpec == Spec /\ Fairness

-----------------------------------------------------------------------------
(* Properties.                                                             *)

\* A registered stream is a posted send that is not over, in its own chat: the
\* registry that Stop, the watchdog and the composer read never outlives a send.
RegistryIsLive ==
    \A s \in Sessions : active[s] # 0 =>
        /\ send[active[s]].ses = s /\ send[active[s]].pc \in Connected

\* A Stop never cancels a reply newer than the one it was meant for: the run it
\* names is of a send that committed no later than a send that was stopped.
StopHitsNothingNewer ==
    [][\A r \in stopsSent' \ stopsSent :
          \E k \in stopWanted' : /\ send[k].ses = send[r].ses
                                 /\ send[r].gen <= send[k].gen]_vars

\* A superseded send never posts, in whatever order sends passed the gate: the
\* server would cancel the newer run in favour of the older one.
PostsInOrder ==
    [][\A j, k \in Sends :
          (~send[j].posted /\ send'[j].posted /\ send[k].posted /\ send[k].ses = send[j].ses)
            => send[k].gen < send[j].gen]_vars

\* The newest send of its chat, not over.
Owner(k) == send[k].pc \in Open /\ latest[send[k].ses] = k

\* The newest send of chat s failed before its POST: it may have replaced one that streams.
NeverPosted(s) == latest[s] # 0 /\ send[latest[s]].pc = "done" /\ ~send[latest[s]].posted

\* The globals tell the truth: the gate is closed only while a submit is in it, and
\* the button is a Stop button only while the newest send of some chat is not over,
\* or after one that ended before its POST (chat.js:651-653, 4575-4580).
BusyHasOwner ==
    /\ inFlight => \E k \in Sends : send[k].pc = "gate"
    /\ streaming => \/ \E k \in Sends : Owner(k)
                    \/ \E s \in Sessions : NeverPosted(s)

\* The exception: a Stop button with nothing to stop.
StuckButton == /\ streaming /\ \A k \in Sends : ~Owner(k)
               /\ \E s \in Sessions : NeverPosted(s)

\* Whatever is stopped, superseded, lost or left, the page comes to rest: every
\* submit ends and the composer's button is a Send button again, unless it is stuck.
AtRest == /\ ~streaming /\ ~inFlight
          /\ \A k \in Sends : send[k].pc \in {"absent", "released", "done"}
PageComesToRest == ~AtRest ~> AtRest \/ StuckButton

\* Somebody will look at the queue again: its timer, a scheduled submit, or a send
\* that passes the gate or ends in a finally block.
HasDrainer == \/ drain \/ submits > 0
              \/ \E k \in Sends : \/ Owner(k)
                                  \/ send[k].pc \in {"gate", "preflight"} \cup Connected

\* No step leaves a queue behind that nobody drains, but these: a submit that ends in
\* the gate, one that finds the box emptied by a reload of the chat, and those after
\* which the button is stuck (chat.js:1089-1102, 4684, sessions.js:1858-1885).
QueueKeepsDrainer ==
    [][queue' # <<>> /\ (queue = <<>> \/ HasDrainer) =>
          \/ HasDrainer' \/ StuckButton \/ StuckButton'
          \/ \E k \in Sends : send[k].pc = "gate" /\ send'[k].pc = "released"
          \/ submits' < submits /\ composer = 0]_vars

\* A queue that somebody drains becomes empty, with the same exceptions (and the one
\* that the bound on sends stops the scheduled submit).
DrainStops == \/ queue = <<>> \/ StuckButton
              \/ \E k \in Sends : send[k].pc = "released"
              \/ submits > 0 /\ (composer = 0 \/ \A k \in Sends : send[k].pc # "absent")
QueueDrains == queue # <<>> /\ HasDrainer ~> DrainStops

\* ------ what comments and messages of the code claim ------

\* "a Stop after this instant must queue for THIS send, not fire against the old run"
StopHitsOwnRun == [][stopsSent' \ stopsSent \subseteq stopWanted']_vars
=============================================================================
