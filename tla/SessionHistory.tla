--------------------------- MODULE SessionHistory ---------------------------
(***************************************************************************)
(* The transcript of one chat session: core/session_manager.py with the    *)
(* requests that use it (routes/chat_routes.py, chat_helpers.py,           *)
(* history/history_routes.py, session_routes.py) and the two compactions   *)
(* (session_routes.py and src/context_compactor.py).                       *)
(*                                                                         *)
(* The transcript exists three times: as chat_messages rows, as the        *)
(* denormalized sessions.message_count, and as the history of a cached     *)
(* Session object.  A chat turn fetches the object once and keeps it over  *)
(* all its awaits, while other requests may edit the session, reload it    *)
(* into a new object, compact it or delete it.                             *)
(*                                                                         *)
(* Messages are numbered in the order of their creation; a summary is a    *)
(* message too.  A step is the code between two awaits; each has at most   *)
(* one database transaction, whose commit may fail (a fault).  Synchronous *)
(* routes run in threads of the pool, beside the event loop: deletion, and *)
(* those that load the session into the cache, take two steps each.        *)
(***************************************************************************)
EXTENDS Integers, Sequences, FiniteSets

CONSTANTS
  Turns,       \* chat turns that may be in progress together
  NoTurn,      \* no turn
  MaxMsgs,     \* bound: messages created
  MaxFaults,   \* bound: failed commits and late loads by threads
  MaxSystem,   \* bound: system messages of a prompt's preface (at least the policy)
  MaxContext,  \* bound: other preface messages (RAG, web, memory: role user)
  MinConvo,    \* maybe_compact: len(convo_msgs) < 4
  MinHistory,  \* compact_session: len(history) < 6
  RecentKeep,  \* compact_session: recent_keep
  KeepLong     \* MIN_MESSAGES_TO_KEEP = 20

ASSUME SessionHistoryAssumption ==
  /\ IsFiniteSet(Turns) /\ NoTurn \notin Turns
  /\ {MaxMsgs, MaxFaults, MaxSystem, MaxContext} \subseteq Nat
  /\ {MinConvo, MinHistory, RecentKeep, KeepLong} \subseteq Nat \ {0}
  /\ RecentKeep < MinHistory

Msgs  == 1..MaxMsgs
NoObj == 0
Objs  == 1..(Cardinality(Turns) + 1)   \* every turn's object and the cached one

VARIABLES
  store,      \* the database and the cache: see Stores
  made,       \* messages created so far
  summaries,  \* those that are summaries (role system)
  phase,      \* where the turn's request is suspended
  held,       \* the Session object it fetched
  context,    \* the session's messages in its prompt, for a compaction
  active,     \* the turn agent_runs.is_active() is about
  compact,    \* the manual compaction waiting for its summary
  faults,
  healthy,    \* history: no commit failed and no thread's load came late
              \* since the server started
  overtaken,  \* history: a manual compaction replaced what it had not read
  removed,    \* history: messages users removed
  deleting,   \* a thread has dropped the cached copy and not yet committed the deletion
  reread,     \* history: a request that read the session before its deletion was
              \* committed has cached it again
  loading,    \* a thread has read the rows and not yet cached them
  loaded      \* these rows

load    == <<loading, loaded>>
threads == <<deleting, reread, load>>
vars == <<store, made, summaries, phase, held, context, active, compact,
          faults, healthy, overtaken, removed, threads>>

Phase == {"idle", "opened", "asked", "running", "saved"}

\* live: the sessions row exists; rows: its chat_messages by timestamp; column:
\* sessions.message_count; cache: self.sessions[id]; hist: each object's history.
Stores == [live : BOOLEAN, rows : Seq(Msgs), column : Nat, cache : Objs \cup {NoObj},
           hist : [Objs -> Seq(Msgs)]]

NoCompaction == [base |-> <<>>, older |-> {}, recent |-> <<>>]
Compacting   == compact # NoCompaction

Elements(s)    == {s[i] : i \in DOMAIN s}
Least(a, b)    == IF a < b THEN a ELSE b
DropAt(s, i)   == IF i \in DOMAIN s THEN SubSeq(s, 1, i - 1) \o SubSeq(s, i + 1, Len(s))
                                    ELSE s

\* create_session
Init ==
  /\ store = [live |-> TRUE, rows |-> <<>>, column |-> 0, cache |-> 1,
              hist |-> [o \in Objs |-> <<>>]]
  /\ made = 0 /\ summaries = {}
  /\ phase   = [t \in Turns |-> "idle"]
  /\ held    = [t \in Turns |-> NoObj]
  /\ context = [t \in Turns |-> <<>>]
  /\ active = NoTurn /\ compact = NoCompaction
  /\ faults = 0 /\ healthy = TRUE /\ overtaken = FALSE
  /\ removed = {}
  /\ deleting = FALSE /\ reread = FALSE
  /\ loading = FALSE /\ loaded = <<>>

-----------------------------------------------------------------------------
(* SessionManager's methods, as functions of the store. *)

HeldBy(T) == {held[t] : t \in T}

\* Objects nobody refers to have an empty history here.
Collected(S, refs) ==
  [S EXCEPT !.hist = [o \in Objs |-> IF o \in refs \cup {S.cache} THEN @[o] ELSE <<>>]]

\* The new Session object takes a number that no turn holds.
Fresh == CHOOSE o \in Objs : o \notin HeldBy(Turns)

\* _load_session_from_db caches the list l, its rows when it runs in one piece.
Installed(S, l) == Collected([S EXCEPT !.cache = Fresh, !.hist[Fresh] = l], HeldBy(Turns))
Loaded(S) == Installed(S, S.rows)

\* get_session's hydration gate.  Mutated form: only what is not cached is loaded.
ShortIfAbsent(S) == S.cache = NoObj
Short(S) == S.cache # NoObj => Len(S.hist[S.cache]) < Len(S.rows)

\* get_session of a session it finds.
Got(S) == IF Short(S) THEN Loaded(S) ELSE S

\* get_session does not raise: a cached session is found without its row, too.
Known == store.live \/ store.cache # NoObj

\* The number _persist_message writes.  Mutated form: without the new message.
CachedBefore(S) == IF S.cache = NoObj THEN 0 ELSE Len(S.rows)
CachedLen(S) == IF S.cache = NoObj THEN 0 ELSE Len(S.hist[S.cache])

\* _persist_message: nothing is stored into a deleted session.
Persisted(S, m, ok) ==
  IF ~S.live THEN [S EXCEPT !.cache = NoObj]
  ELSE IF ok THEN [S EXCEPT !.rows = Append(@, m), !.column = CachedLen(S)]
  ELSE S

\* Session.add_message on object o; SessionManager.add_message on the cached one.
Added(S, o, m, ok) == Persisted([S EXCEPT !.hist[o] = Append(@, m)], m, ok)

\* replace_messages, committed: the history it replaces is the cached object's.
\* Mutated form: the old rows are not deleted.
ReplacedBeside(S, new) == [S EXCEPT !.rows = @ \o new, !.column = Len(new),
                                    !.hist[S.cache] = new]
Replaced(S, new) == [S EXCEPT !.rows = new, !.column = Len(new),
                              !.hist[S.cache] = new]

\* truncate_messages, committed.  Mutated forms: the count is of the deleted rows;
\* only the rows are cut.
TruncatedCountsDeleted(S, k) ==
  LET Cut(s) == SubSeq(s, 1, Least(k, Len(s)))
  IN [S EXCEPT !.rows = Cut(@), !.column = Len(S.rows) - k,
               !.hist[S.cache] = Cut(@)]
TruncatedRowsOnly(S, k) ==
  [S EXCEPT !.rows = SubSeq(@, 1, Least(k, Len(@))),
            !.column = Least(k, Len(S.rows))]
Truncated(S, k) ==
  LET Cut(s) == SubSeq(s, 1, Least(k, Len(s)))
  IN [S EXCEPT !.rows = Cut(@), !.column = Least(k, Len(S.rows)),
               !.hist[S.cache] = Cut(@)]

\* delete_session and cleanup, committed (the rows go by ON DELETE CASCADE).
Deleted(S) == [S EXCEPT !.live = FALSE, !.rows = <<>>, !.column = 0]

\* This step goes well (ok), or its commit fails.  While a deletion holds the
\* database's write lock the commit waits, and fails once the session's row is gone.
Attempt(ok) == /\ ok \/ faults < MaxFaults
               /\ faults' = IF ok THEN faults ELSE faults + 1
               /\ healthy' = (healthy /\ ok)
Commit(ok)  == Attempt(ok) /\ (deleting => ~ok) /\ UNCHANGED threads

\* A new message, made by this step.
New == made + 1
Make == made < MaxMsgs /\ made' = New

-----------------------------------------------------------------------------
(* A chat turn: POST /api/chat_stream and its stream. *)

turnVars == <<phase, held, context, active>>

\* session_manager.get_session; then message preprocessing awaits.
Open(t) ==
  /\ phase[t] = "idle" /\ store.live
  /\ store' = Got(store)
  /\ phase' = [phase EXCEPT ![t] = "opened"]
  /\ held'  = [held EXCEPT ![t] = store'.cache]
  /\ UNCHANGED <<made, summaries, context, active, compact, faults,
                 healthy, overtaken, removed, threads>>

\* add_user_message, and the prompt is built from the object's history.
Ask(t) ==
  /\ phase[t] = "opened" /\ Make
  /\ \E ok \in BOOLEAN : /\ Commit(ok)
                         /\ store' = Added(store, held[t], New, ok)
  /\ context' = [context EXCEPT ![t] = store'.hist[held[t]]]
  /\ phase' = [phase EXCEPT ![t] = "asked"]
  /\ UNCHANGED <<summaries, held, active, compact, overtaken, removed>>

\* agent_runs.start: the run of an earlier turn is no longer the active one, but
\* may still save what it has.
Start(t) ==
  /\ phase[t] = "asked"
  /\ phase' = [phase EXCEPT ![t] = "running"]
  /\ active' = t
  /\ UNCHANGED <<store, made, summaries, held, context, compact, faults,
                 healthy, overtaken, removed, threads>>

\* _update_session_history stops when nothing recent would be left.
TailLeft(effective, h) == effective < Len(h)

\* maybe_compact's plan applied by _update_session_history, before the start (no
\* fallback routes) or once a route answers.  When the session is gone and not
\* cached, replace_messages raises KeyError and the request fails (Leave); of a
\* cached one whose row is gone only the object changes.  The prompt had k system
\* messages and p others before the session's own, and d date messages near its end.
Convo(t)       == {i \in DOMAIN context[t] : context[t][i] \notin summaries}
Split(t, p, d) == (p + Cardinality(Convo(t)) + d) \div 2
Older(t, p, d) ==
  {context[t][i] : i \in {j \in Convo(t) :
     Cardinality({k \in Convo(t) : k <= j}) <= Split(t, p, d) - p}}

AutoCompact(t, k, p, d) ==
  LET prefix    == k + Len(context[t]) - Cardinality(Convo(t))
      effective == prefix + Split(t, p, d)
      h         == store.hist[held[t]]
      new       == SubSeq(h, 1, Least(prefix, Len(h))) \o <<New>>
                     \o SubSeq(h, effective + 1, Len(h))
  IN /\ phase[t] \in {"asked", "running"} /\ context[t] # <<>> /\ Known
     /\ p + Cardinality(Convo(t)) + d >= MinConvo
     /\ TailLeft(effective, h)
     /\ Make
     /\ \E ok \in BOOLEAN :
          /\ Commit(ok)
          /\ store' = IF ok /\ store.live
                        THEN Replaced(Got(store), new)
                        ELSE [Got(store) EXCEPT !.hist[held[t]] = new]
     /\ summaries' = summaries \cup {New}
     /\ context' = [context EXCEPT ![t] = <<>>]
     /\ UNCHANGED <<phase, held, active, compact, overtaken, removed>>

\* The answer, or what there is of it, is saved.
Answer(t) ==
  /\ phase[t] = "running" /\ Make
  /\ \E ok \in BOOLEAN : /\ Commit(ok)
                         /\ store' = Added(store, held[t], New, ok)
  /\ phase' = [phase EXCEPT ![t] = "saved"]
  /\ context' = [context EXCEPT ![t] = <<>>]
  /\ UNCHANGED <<summaries, held, active, compact, overtaken, removed>>

\* The request fails or its stream ends.
Leave(t) ==
  /\ phase[t] # "idle"
  /\ phase'   = [phase EXCEPT ![t] = "idle"]
  /\ held'    = [held EXCEPT ![t] = NoObj]
  /\ context' = [context EXCEPT ![t] = <<>>]
  /\ active'  = IF active = t THEN NoTurn ELSE active
  /\ store'   = Collected(store, HeldBy(Turns \ {t}))
  /\ UNCHANGED <<made, summaries, compact, faults, healthy,
                 overtaken, removed, threads>>

-----------------------------------------------------------------------------
(* Other requests, each one step on the event loop. *)

otherVars == <<summaries, turnVars, compact, overtaken>>

\* SessionManager.add_message: slash commands, background follow-ups, task results.
Post ==
  /\ Known /\ Make
  /\ \E ok \in BOOLEAN :
       /\ Commit(ok)
       /\ store' = LET S == Got(store) IN Added(S, S.cache, New, ok)
  /\ UNCHANGED <<otherVars, removed>>

\* POST /truncate; a failed commit changes nothing.
Truncate(k) ==
  /\ store.live
  /\ \E ok \in BOOLEAN :
       /\ Commit(ok)
       /\ store' = IF ok THEN Truncated(Got(store), k) ELSE Got(store)
  /\ removed' = removed \cup (Elements(store.rows) \ Elements(store'.rows))
  /\ UNCHANGED <<made, otherVars>>

\* What remains of a list without the message x (an id; a list holds it once), or
\* at position x.
Place(s, m)    == CHOOSE i \in DOMAIN s : s[i] = m
Kept(by, x, s) == IF by = "index" THEN DropAt(s, x)
                  ELSE IF x \in Elements(s) THEN DropAt(s, Place(s, x)) ELSE s

\* POST /delete-messages: the history is cut before the commit.
Erase(by, x) ==
  /\ store.live
  /\ \E ok \in BOOLEAN :
       LET S == Got(store)
           M == [S EXCEPT !.hist[S.cache] = Kept(by, x, @)]
       IN /\ Commit(ok)
          /\ store' = IF ok THEN [M EXCEPT !.rows = Kept(by, x, @),
                                           !.column = Len(M.hist[S.cache])]
                            ELSE M
  /\ removed' = removed \cup (Elements(store.rows) \ Elements(store'.rows))
  /\ UNCHANGED <<made, otherVars>>

DeleteById(m)    == m \in Elements(store.rows) /\ Erase("id", m)
DeleteByIndex(i) == i \in DOMAIN store.rows /\ Erase("index", i)

\* The tail a compaction keeps.  Mutated form: one message less.
RecentShort(h) == SubSeq(h, Len(h) - RecentKeep + 2, Len(h))
Recent(h) == SubSeq(h, Len(h) - RecentKeep + 1, Len(h))

\* POST /compact reads the transcript and awaits the summary; it is refused while
\* a run is active.
CompactBegin ==
  LET S == Got(store)
      h == S.hist[S.cache]
  IN /\ ~Compacting /\ store.live /\ active = NoTurn
     /\ Len(h) >= MinHistory
     /\ store' = S
     /\ compact' = [base |-> h, older |-> {h[i] : i \in 1..(Len(h) - RecentKeep)},
                    recent |-> Recent(h)]
     /\ UNCHANGED <<made, summaries, turnVars, faults, healthy, overtaken,
                    removed, threads>>

\* The summary arrives and replaces what the compaction had read.
CompactEnd ==
  LET S == Got(store)
  IN /\ Compacting /\ store.live /\ Make
     /\ \E ok \in BOOLEAN :
          /\ Commit(ok)
          /\ store' = IF ok THEN Replaced(S, <<New>> \o compact.recent) ELSE S
          /\ overtaken' = (overtaken \/ (ok /\ S.hist[S.cache] # compact.base))
     /\ summaries' = summaries \cup {New}
     /\ compact' = NoCompaction
     /\ UNCHANGED <<turnVars, removed>>

\* The summary call fails, or the session is gone when it returns.
CompactFail ==
  /\ Compacting
  /\ compact' = NoCompaction
  /\ UNCHANGED <<store, made, summaries, turnVars, faults, healthy,
                 overtaken, removed, threads>>

\* DELETE /session, in a thread of the pool.  The rows are deleted under the write
\* lock, which hides it from readers, and the cached copy is dropped; one without a
\* row goes, too, and then there is nothing to commit.
DeletePop ==
  /\ Known /\ ~deleting
  /\ store' = [store EXCEPT !.cache = NoObj]
  /\ deleting' = store.live
  /\ UNCHANGED <<made, otherVars, faults, healthy, removed, reread, load>>

\* The commit: what a get_session has cached since the drop stays cached.
DeleteCommit ==
  /\ deleting
  /\ \E ok \in BOOLEAN :
       /\ Attempt(ok)
       /\ store' = IF ok THEN Deleted(store) ELSE store
       /\ reread' = (reread \/ (ok /\ store.cache # NoObj))
  /\ deleting' = FALSE
  /\ UNCHANGED <<made, otherVars, removed, load>>

\* rename, archive, unarchive and export find the session short in the cache: a
\* thread reads it from the database ...
LoadRead ==
  /\ store.live /\ Short(store) /\ ~loading
  /\ loading' = TRUE /\ loaded' = store.rows
  /\ UNCHANGED <<store, made, otherVars, faults, healthy, removed, deleting, reread>>

\* ... and caches what it has read.  That is late if the rows have changed since, or
\* if another request has cached them.
LoadInstall ==
  /\ loading
  /\ Attempt(loaded = store.rows /\ Short(store))
  /\ store' = Installed(store, loaded)
  /\ reread' = (reread \/ ~store.live)
  /\ loading' = FALSE /\ loaded' = <<>>
  /\ UNCHANGED <<made, otherVars, removed, deleting>>

\* cleanup_old_sessions: archived, not accessed for two weeks, and short.
Cleanup ==
  /\ store.live /\ ~Compacting /\ ~deleting
  /\ \A t \in Turns : phase[t] = "idle"
  /\ store.column < KeepLong
  /\ store' = [Deleted(store) EXCEPT !.cache = NoObj]
  /\ UNCHANGED <<made, otherVars, faults, healthy, removed, threads>>

\* The server restarts: load_sessions caches the metadata of recent sessions
\* that have rows; history is read on demand.
Restart ==
  /\ \E o \in IF store.live /\ store.rows # <<>> THEN {NoObj, 1} ELSE {NoObj} :
       store' = [store EXCEPT !.cache = o, !.hist = [q \in Objs |-> <<>>]]
  /\ phase'   = [t \in Turns |-> "idle"]
  /\ held'    = [t \in Turns |-> NoObj]
  /\ context' = [t \in Turns |-> <<>>]
  /\ active' = NoTurn /\ compact' = NoCompaction /\ healthy' = TRUE
  /\ deleting' = FALSE /\ loading' = FALSE /\ loaded' = <<>>
  /\ UNCHANGED <<made, summaries, faults, overtaken, removed, reread>>

-----------------------------------------------------------------------------
TurnStep(t) ==
  \/ Open(t) \/ Ask(t) \/ Start(t) \/ Answer(t) \/ Leave(t)
  \/ \E k \in 1..MaxSystem, p \in 0..MaxContext, d \in 0..1 : AutoCompact(t, k, p, d)

Edit == \/ Post \/ Cleanup
        \/ \E k \in 0..MaxMsgs : Truncate(k)
        \/ \E m \in Msgs : DeleteById(m) \/ DeleteByIndex(m)

ThreadStep == DeletePop \/ DeleteCommit \/ LoadRead \/ LoadInstall

Next == \/ \E t \in Turns : TurnStep(t)
        \/ Edit \/ ThreadStep \/ CompactBegin \/ CompactEnd \/ CompactFail \/ Restart

Spec == Init /\ [][Next]_vars
-----------------------------------------------------------------------------
(* Properties. *)

\* Every variable keeps its type.
TypeOK ==
  /\ store \in Stores
  /\ made \in 0..MaxMsgs
  /\ summaries \subseteq Msgs
  /\ phase \in [Turns -> Phase] /\ held \in [Turns -> Objs \cup {NoObj}]
  /\ context \in [Turns -> Seq(Msgs)]
  /\ active \in Turns \cup {NoTurn}
  /\ compact \in [base : Seq(Msgs), older : SUBSET Msgs, recent : Seq(Msgs)]
  /\ faults \in 0..MaxFaults
  /\ {healthy, overtaken, deleting, reread, loading} \subseteq BOOLEAN
  /\ removed \subseteq Msgs /\ loaded \in Seq(Msgs)

\* As long as no commit failed and no thread's load came late since the server
\* started, the model is sent the whole stored transcript, whichever requests edited,
\* compacted or reloaded the session since the turn fetched it
\* (session_manager.py:421-452).
PromptIsWhole ==
  [][\A t \in Turns : Ask(t) /\ healthy' /\ store.live
                        => context'[t] = store'.rows]_vars

\* The stored messages keep the order in which they were created, and none is
\* stored twice, also after failed commits, reloads and compactions
\* (session_manager.py:244-309, 353-415).
RowsInTurnOrder ==
  \A i, j \in DOMAIN store.rows :
    i < j => \/ store.rows[i] < store.rows[j]
             \/ store.rows[i] \in summaries /\ store.rows[i] # store.rows[j]

\* What the user removed is neither stored nor in the history the next prompts are
\* built from, unless a commit failed, a thread's load came late or a compaction
\* replaced more than it had read (history_routes.py:283-345,
\* session_manager.py:311-351).  Of a deleted session no message is ever stored
\* again: callbacks that outlive it store none and do not bring its cached copy back;
\* only a request that read the session before the deletion was committed does
\* (session_manager.py:249-255, 504-510, 587-629).
RemovedStaysRemoved ==
  /\ ~store.live => store.rows = <<>> /\ (store.cache # NoObj => reread)
  /\ faults = 0 /\ ~overtaken =>
       /\ removed \cap Elements(store.rows) = {}
       /\ store.cache # NoObj => removed \cap Elements(store.hist[store.cache]) = {}

\* The clean-up of old sessions, which looks at the denormalized count only, never
\* deletes a session of KeepLong messages or more, as long as no commit failed and
\* no thread's load came late (cleanup_service.py:104-123).
LongSessionsKept ==
  [][Cleanup /\ faults = 0 => Len(store.rows) < KeepLong]_vars

Dropped == Elements(store.rows) \ Elements(store'.rows)

\* A manual compaction that replaces just what it had read drops only messages its
\* summary stands for (session_routes.py:1001-1075).
ManualSummarisesWhatItDrops ==
  [][CompactEnd /\ ~overtaken' /\ healthy => Dropped \subseteq compact.older]_vars

\* The rows, the count and the histories of cached, held and reloaded objects act as
\* one list: requests meet it as the others left it, whichever object they hold, and
\* only a failed commit or a late load by a thread parts prompt and compactions from
\* it (session_manager.py:244-452,
\* session_routes.py:1001-1075, context_compactor.py:419-470).
OneList == INSTANCE Transcript WITH
  live <- store.live, rows <- store.rows, prompt <- context,
  plan <- compact, intact <- healthy, None <- NoCompaction
ImplementsTranscript == OneList!TSpec

\* As _update_session_history is described (context_compactor.py:419-423), the
\* stored history is made to match the compacted prompt: system messages, summary,
\* recent messages.  So whatever leaves the transcript is in the summary, at least
\* when nothing happened to the transcript since the prompt was built.
AutoSummarisesWhatItDrops ==
  [][\A t \in Turns, k \in 1..MaxSystem, p \in 0..MaxContext, d \in 0..1 :
       AutoCompact(t, k, p, d) /\ context[t] = store.rows =>
         Dropped \subseteq Older(t, p, d)]_vars
=============================================================================
