------------------------------ MODULE RunTurns ------------------------------
(***************************************************************************)
(* What the detached runs promise a chat and its pages, without tasks,     *)
(* cancellations, queues, replays and evictions: the turns of a session    *)
(* are written one at a time, each turn is a log that only grows, and a    *)
(* reader follows one log from its first event.  AgentRuns implements it.  *)
(*                                                                         *)
(* As long as no turn was cut off with an earlier one still being written  *)
(* (intact), a turn writes and stores its answer only when all earlier     *)
(* ones are over; the answers are then stored in the order of the turns.   *)
(***************************************************************************)
EXTENDS Integers, Sequences

CONSTANTS Turns,    \* 1 .. n
          Readers

VARIABLES
  turn,     \* how many turns were sent
  live,     \* the turn that /resume and stream_status report, 0: none
  over,     \* the turns that write nothing more
  log,      \* how many events a turn has written
  answers,  \* the turns whose answers were stored, in this order
  intact,   \* no turn was cut off while an earlier one was being written
  reader,   \* the turn a reader follows, 0: none
  got       \* the events it has received: turn and position

tvars == <<turn, live, over, log, answers, intact, reader, got>>

TInit ==
  /\ turn = 0 /\ live = 0 /\ over = {} /\ answers = <<>> /\ intact = TRUE
  /\ log = [t \in Turns |-> 0]
  /\ reader = [s \in Readers |-> 0] /\ got = [s \in Readers |-> <<>>]

\* Turn t may write: the earlier ones are over.
MayWrite(t) == intact => \A u \in 1..(t - 1) : u \in over

\* A turn is cut off, or forgotten, while turn u is still being written.
CutOff(u) == intact' = FALSE /\ u \in 1..turn /\ u \notin over

\* A new turn replaces the live one.
Send(s) ==
  /\ reader[s] = 0 /\ turn + 1 \in Turns
  /\ turn' = turn + 1 /\ live' = turn'
  /\ reader' = [reader EXCEPT ![s] = turn']
  /\ UNCHANGED <<over, log, answers, intact, got>>

Follow(s) ==
  /\ reader[s] = 0 /\ live # 0
  /\ reader' = [reader EXCEPT ![s] = live]
  /\ UNCHANGED <<turn, live, over, log, answers, intact, got>>

\* The live turn writes an event, the last one with its complete answer.
Write ==
  /\ live # 0 /\ live \notin over /\ MayWrite(live)
  /\ log' = [log EXCEPT ![live] = @ + 1]
  /\ answers' \in {answers, Append(answers, live)}
  /\ UNCHANGED <<turn, live, over, intact, reader, got>>

\* The live turn is stopped while it still waits for an earlier one.
Halt == /\ live # 0 /\ live' = 0
        /\ UNCHANGED <<turn, over, log, answers, intact, reader, got>>

\* Turn t is over: by itself, with an error trailer, or stopped with a part of
\* its answer.
Finish(t) ==
  /\ t \in 1..turn /\ t \notin over
  /\ over' = over \cup {t}
  /\ live' = IF live = t THEN 0 ELSE live
  /\ \/ UNCHANGED <<log, answers>>
     \/ /\ MayWrite(t)
        /\ log' = [log EXCEPT ![t] = @ + 2] /\ UNCHANGED answers
     \/ /\ MayWrite(t)
        /\ answers' = Append(answers, t) /\ UNCHANGED log
  /\ UNCHANGED intact \/ \E u \in Turns : u < t /\ CutOff(u)
  /\ UNCHANGED <<turn, reader, got>>

\* A turn that is still being written is forgotten: the next one will not wait.
Forget == /\ \E u \in Turns : CutOff(u)
          /\ live = 0
          /\ UNCHANGED <<turn, live, over, log, answers, reader, got>>

Read(s) ==
  /\ reader[s] # 0 /\ Len(got[s]) < log[reader[s]]
  /\ got' = [got EXCEPT ![s] = Append(@, <<reader[s], Len(@)>>)]
  /\ UNCHANGED <<turn, live, over, log, answers, intact, reader>>

Leave(s) ==
  /\ reader[s] # 0
  /\ reader' = [reader EXCEPT ![s] = 0]
  /\ got' = [got EXCEPT ![s] = <<>>]
  /\ UNCHANGED <<turn, live, over, log, answers, intact>>

TNext == \/ Write \/ Halt \/ Forget
         \/ \E t \in Turns : Finish(t)
         \/ \E s \in Readers : Send(s) \/ Follow(s) \/ Read(s) \/ Leave(s)

TSpec == TInit /\ [][TNext]_tvars
=============================================================================
