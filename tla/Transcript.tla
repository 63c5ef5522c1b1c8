------------------------------ MODULE Transcript ------------------------------
(***************************************************************************)
(* What the transcript of a session promises, without objects, caches and  *)
(* counts: it is one list.  While nothing has gone wrong (no commit has     *)
(* failed, no thread has cached a list that was read too early), a turn is *)
(* prompted with this list as it then is, and a compaction condenses what  *)
(* the list is when it reads it, although turns keep the copy they fetched *)
(* over all their awaits.  SessionHistory implements it.                   *)
(***************************************************************************)
EXTENDS Naturals, Sequences

CONSTANTS Turns,
          None  \* no compaction waits for its summary

VARIABLES
  live,    \* the session exists
  rows,    \* the list: messages are numbered in the order of their creation
  made,    \* messages created so far
  prompt,  \* what a turn's model was sent, until it is forgotten
  plan,    \* what the waiting compaction has read, condenses and keeps
  intact   \* nothing has gone wrong since the server started

tvars == <<live, rows, made, prompt, plan, intact>>

TInit == /\ live = TRUE /\ rows = <<>> /\ made = 0
         /\ prompt = [t \in Turns |-> <<>>]
         /\ plan = None /\ intact = TRUE

\* This step may go wrong: its commit fails, or it caches an outdated list.
MayFail == intact' \in {intact, FALSE}

\* Prompts may be forgotten.
Forgets == /\ DOMAIN prompt' = Turns
           /\ \A t \in Turns : prompt'[t] \in {prompt[t], <<>>}

\* The list becomes new; or it stays, and the commit has failed.
Becomes(new) == \/ rows' = new  /\ UNCHANGED intact
                \/ rows' = rows /\ intact' = FALSE

\* A message is stored at the end; none is stored into a deleted session.
Says == /\ made' = made + 1
        /\ IF live THEN Becomes(Append(rows, made')) ELSE rows' = rows /\ MayFail

Ask(t) ==
  /\ Says
  /\ prompt' = [prompt EXCEPT ![t] = prompt'[t]]
  /\ intact' /\ live => prompt'[t] = rows'
  /\ UNCHANGED <<live, plan>>

Post == Says /\ Forgets /\ UNCHANGED <<live, plan>>

Prefixes == {SubSeq(rows, 1, n) : n \in 0..Len(rows)}
Without(i) == SubSeq(rows, 1, i - 1) \o SubSeq(rows, i + 1, Len(rows))

\* Everything after a point is removed, or one message.
Remove ==
  /\ live /\ UNCHANGED <<live, made, prompt, plan>>
  /\ \E new \in Prefixes \cup {Without(i) : i \in DOMAIN rows} : Becomes(new)

\* A run condenses its prompt: a stretch from the middle gives way to its summary,
\* the beginning and the end stay.  Once something went wrong the run's own copy decides.
Condense ==
  /\ live /\ made' = made + 1 /\ MayFail /\ Forgets
  /\ intact' => \E i, j \in 1..(Len(rows) - 1) :
                  /\ i <= j
                  /\ rows' = SubSeq(rows, 1, i) \o <<made'>> \o SubSeq(rows, j + 1, Len(rows))
  /\ UNCHANGED <<live, plan>>

\* A compaction on request: reads, awaits the summary, and puts it in the place of
\* the first n messages it had read.
Read ==
  /\ live /\ plan = None
  /\ intact => plan'.base = rows
  /\ \E n \in 1..Len(plan'.base) :
       plan' = [base   |-> plan'.base,
                older  |-> {plan'.base[i] : i \in 1..n},
                recent |-> SubSeq(plan'.base, n + 1, Len(plan'.base))]
  /\ UNCHANGED <<live, rows, made, prompt, intact>>

Summarise ==
  /\ live /\ plan # None /\ plan' = None
  /\ made' = made + 1
  /\ Becomes(<<made'>> \o plan.recent)
  /\ UNCHANGED <<live, prompt>>

Drop == plan' = None /\ UNCHANGED <<live, rows, made, prompt, intact>>

\* For good.
Delete == /\ live' = FALSE /\ rows' = <<>>
          /\ UNCHANGED <<made, prompt, plan, intact>>

Fail   == intact' = FALSE /\ UNCHANGED <<live, rows, made, prompt, plan>>
Forget == UNCHANGED <<live, rows, made, plan, intact>> /\ Forgets

\* The server restarts and reads the list again.
Restart == /\ intact' = TRUE /\ plan' = None
           /\ prompt' = [t \in Turns |-> <<>>]
           /\ UNCHANGED <<live, rows, made>>

TNext == \/ Forget \/ Fail \/ Restart \/ Delete \/ Drop
         \/ Post \/ \E t \in Turns : Ask(t)
         \/ Remove \/ Read \/ Summarise \/ Condense

TSpec == TInit /\ [][TNext]_tvars
=============================================================================
