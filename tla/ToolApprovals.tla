--------------------------- MODULE ToolApprovals ---------------------------
(***************************************************************************)
(* Approvals of agent actions (src/tool_approvals.py), for edits of        *)
(* documents: a run that has seen outside text may not write by itself.    *)
(* Its edit is sealed into a pending approval, with the document, the      *)
(* version and the text it was made for; the turn ends with a card, and    *)
(* the answer to the card comes back as a request of its own.              *)
(*                                                                         *)
(* Between the moments at which the document is loaded, the edit sealed,   *)
(* the card answered and the edit executed the user goes on typing, other  *)
(* chats' agents write, requests overtake each other and the server dies.  *)
(* The registry of pending approvals is in memory; the cards are not.      *)
(***************************************************************************)
EXTENDS Documents, FiniteSets

CONSTANTS Sessions,
          MaxPending,  \* max_pending of the registry
          MaxCards,    \* bound: approvals made
          MaxTurns,    \* bound: ordinary messages
          MaxRequests  \* bound: requests that have no run yet

ASSUME ApprovalsAssumption ==
  /\ MaxPending \in Nat \ {0} /\ MaxCards \in Nat
  /\ MaxTurns \in Nat /\ MaxRequests \in Nat

VARIABLES
  pending,  \* the cards in the registry
  sealed,   \* what a card was made for
  fate,     \* whether a card was made, how it was answered, or that a newer card or
            \* message passed over it
  granted,  \* chats whose rest was approved
  reqs,     \* requests between their arrival and their run
  run,      \* the agent's run in a chat
  turns,
  uses,     \* runs that a card's approval started
  done      \* the cards whose edit was executed

cardVars == <<pending, sealed, fate, uses>>
runVars  == <<reqs, run, granted, done>>
vars == <<docVars, cardVars, runVars, turns>>

\* Cards are numbered in the order of their creation.
Cards == 1..MaxCards
NoCard == 0

\* A document as it was at some moment.
View   == [doc : Docs, shown : Texts, version : 1..MaxVersions]
ViewOf(d) == [doc |-> d, shown |-> content[d], version |-> CountOf(d)]
NoView == [doc |-> NoDoc]
NoSeal == [sess |-> "none", view |-> NoView]
Seal   == [sess : Sessions, text : Texts, view : View]

\* working: the model may call tools.  resuming: an approved edit comes first.
Idle    == [phase |-> "idle"]
\* own: the documents that its prompt showed or that it created.
Run     == [phase : {"working", "resuming"}, view : View \cup {NoView}, own : SUBSET Docs,
            armed : BOOLEAN, bypass : BOOLEAN, card : Cards \cup {NoCard}]
Request == [sess : Sessions, doc : Docs \cup {NoDoc}, armed : BOOLEAN, card : Cards \cup {NoCard}]

At(s, phase) == run[s].phase = phase

Init == /\ DocInit
        /\ pending = {} /\ granted = {} /\ reqs = {}
        /\ sealed = [c \in Cards |-> NoSeal] /\ fate = [c \in Cards |-> "none"]
        /\ run = [s \in Sessions |-> Idle]
        /\ uses = [c \in Cards |-> 0] /\ done = {}
        /\ turns = 0

-----------------------------------------------------------------------------
(* The registry. *)

CardsOf(s) == {c \in pending : sealed[c].sess = s}

Oldest(cs) == {c \in cs : \A e \in cs : c <= e}

\* Mutated form: a full registry grows.
NothingEvicted(c, s) == (pending \ CardsOf(s)) \cup {c}

\* Create: the chat's older card goes, and the oldest of all if the registry is
\* full.
Enrolled(c, s) ==
  LET left == pending \ CardsOf(s)
  IN  {c} \cup (IF Cardinality(left) >= MaxPending THEN left \ Oldest(left) ELSE left)

\* Mutated form: the approval is looked up and stays pending.
Kept(c) == pending
Consumed(c) == pending \ {c}

\* A card that leaves the registry unapproved is forgotten.
Forget(cs) == sealed' = [c \in Cards |-> IF c \in cs THEN NoSeal ELSE sealed[c]]

Expire(c) == /\ c \in pending
             /\ pending' = pending \ {c}
             /\ Forget({c})
             /\ UNCHANGED <<docVars, fate, uses, runVars, turns>>

-----------------------------------------------------------------------------
(* Requests. *)

\* An ordinary message, sent with document d open, or with none.  A card that was
\* waiting is retired and leaves the turn armed.
Send(s, d) ==
  /\ turns < MaxTurns /\ Cardinality(reqs) < MaxRequests
  /\ d # NoDoc => Exists(d)
  /\ turns' = turns + 1
  /\ pending' = pending \ CardsOf(s)
  /\ fate' = [c \in Cards |-> IF c \in CardsOf(s) THEN "passed" ELSE fate[c]]
  /\ Forget(CardsOf(s))
  /\ reqs' = reqs \cup {[sess |-> s, doc |-> d, card |-> NoCard, armed |-> CardsOf(s) # {}]}
  /\ UNCHANGED <<docVars, uses, run, granted, done>>

\* The answer to card c, sent from chat s: from any tab, once or again, and also
\* when the card is long dead.
Respond(c, s, decision) ==
  /\ c \in pending /\ sealed[c].sess = s
  /\ Cardinality(reqs) < MaxRequests
  /\ pending' = Consumed(c)
  /\ fate' = [fate EXCEPT ![c] = decision]
  /\ granted' = IF decision = "approve" THEN granted \cup {s} ELSE granted
  /\ IF decision = "deny"
       THEN Forget({c}) /\ UNCHANGED <<uses, reqs>>
       ELSE /\ uses' = [uses EXCEPT ![c] = @ + 1]
            /\ reqs' = reqs \cup {[sess |-> s, doc |-> sealed[c].view.doc, card |-> c,
                                   armed |-> TRUE]}
            /\ UNCHANGED sealed
  /\ UNCHANGED <<docVars, run, done, turns>>

\* The document is loaded and the run started; it takes the place of the chat's
\* previous run.  If the document is gone or none was open, one of the chat's is
\* taken, or none.  The prompt shows it, and the tools get it as their target, only
\* if the message is about it.
Begin(r, d, about) ==
  /\ r \in reqs
  /\ r.doc # NoDoc /\ Exists(r.doc) => d = r.doc
  /\ d # NoDoc => Exists(d)
  /\ about => d # NoDoc
  /\ reqs' = reqs \ {r}
  /\ target' = IF about THEN d ELSE NoDoc
  /\ run' = [run EXCEPT ![r.sess] =
               [phase |-> IF r.card = NoCard THEN "working" ELSE "resuming",
                view |-> IF d = NoDoc THEN NoView ELSE ViewOf(d),
                own |-> IF about THEN {d} ELSE {},
                armed |-> r.armed, card |-> r.card,
                bypass |-> r.card # NoCard \/ r.sess \in granted]]
  /\ UNCHANGED <<row, content, versions, recent, cardVars, granted, done, turns>>

-----------------------------------------------------------------------------
(* The agent. *)

\* A tool's result brings outside text into the run.
Arm(s) == /\ At(s, "working") /\ ~run[s].armed
          /\ run' = [run EXCEPT ![s].armed = TRUE]
          /\ UNCHANGED <<docVars, cardVars, reqs, granted, done, turns>>

\* A call the gate lets pass edits the document as it is now.
Write(s, d, t) ==
  /\ At(s, "working") /\ (run[s].bypass \/ ~run[s].armed)
  /\ ToolTarget(d) /\ AiWrite(d, t)
  /\ UNCHANGED <<cardVars, runVars, turns>>

Compose(s, d, t) ==
  /\ At(s, "working") /\ (run[s].bypass \/ ~run[s].armed)
  /\ Create(d, t, "ai")
  /\ run' = [run EXCEPT ![s].own = @ \cup {d}]
  /\ UNCHANGED <<cardVars, reqs, granted, done, turns>>

\* A call the gate does not let pass: sealed with the document as the run loaded
\* it.  The card ends the turn.
Propose(s, c, t) ==
  /\ At(s, "working") /\ run[s].armed /\ ~run[s].bypass
  /\ run[s].view # NoView
  /\ fate[c] = "none" /\ (\A e \in 1..(c - 1) : fate[e] # "none")
  /\ pending' = Enrolled(c, s)
  /\ sealed' = [e \in Cards |-> IF e = c THEN [sess |-> s, text |-> t, view |-> run[s].view]
                              ELSE IF e \in pending \ pending' THEN NoSeal ELSE sealed[e]]
  /\ fate' = [e \in Cards |-> IF e = c THEN "made"
                             ELSE IF e \in CardsOf(s) THEN "passed" ELSE fate[e]]
  /\ run' = [run EXCEPT ![s] = Idle]
  /\ UNCHANGED <<docVars, uses, reqs, granted, done, turns>>

\* Mutated form: only the version's number is compared.
SameVersion(v) == Exists(v.doc) /\ CountOf(v.doc) = v.version
Unchanged(v) == Exists(v.doc) /\ ViewOf(v.doc) = v

\* The approved edit, executed or refused; then the run goes on without the gate.
Execute(s) ==
  /\ At(s, "resuming")
  /\ LET c == run[s].card
         v == sealed[c].view
     IN  \/ /\ Unchanged(v)
            /\ AiWrite(v.doc, sealed[c].text)
            /\ done' = done \cup {c}
            /\ UNCHANGED target
         \/ ~Unchanged(v) /\ UNCHANGED <<docVars, done>>
  /\ run' = [run EXCEPT ![s].phase = "working", ![s].card = NoCard]
  /\ UNCHANGED <<cardVars, reqs, granted, turns>>

\* The turn ends, or the user stops it.
EndRun(s) == /\ run[s] # Idle
             /\ run' = [run EXCEPT ![s] = Idle]
             /\ UNCHANGED <<docVars, cardVars, reqs, granted, done, turns>>

-----------------------------------------------------------------------------
\* The registry, the requests and the runs die; documents, cards and the grants in
\* the transcripts do not.
Restart ==
  /\ pending' = {} /\ Forget(pending) /\ reqs' = {} /\ run' = [s \in Sessions |-> Idle]
  /\ target' = NoDoc
  /\ UNCHANGED <<row, content, versions, recent, fate, uses, granted, done, turns>>

Editing == UserStep /\ UNCHANGED <<cardVars, runVars, turns>>

Requests == \/ \E s \in Sessions, d \in Docs \cup {NoDoc} : Send(s, d)
            \/ \E c \in Cards, s \in Sessions, decision \in {"approve", "approve_task", "deny"} :
                 Respond(c, s, decision)
            \/ \E r \in reqs, d \in Docs \cup {NoDoc}, about \in BOOLEAN : Begin(r, d, about)

Agent == \E s \in Sessions :
           \/ Arm(s) \/ Execute(s) \/ EndRun(s)
           \/ \E d \in Docs, t \in Texts : Write(s, d, t) \/ Compose(s, d, t)
           \/ \E c \in Cards, t \in Texts : Propose(s, c, t)

Next == Editing \/ Requests \/ Agent \/ Restart \/ (\E c \in Cards : Expire(c))

Spec == Init /\ [][Next]_vars

-----------------------------------------------------------------------------
(* Properties. *)

\* Every variable keeps its type, a chat has one card waiting at most
\* (tool_approvals.py:399-416) and the registry never grows over its maximum (417-423).
TypeOK ==
  /\ DocTypeOK
  /\ pending \subseteq Cards /\ Cardinality(pending) <= MaxPending
  /\ \A c, e \in pending : sealed[c].sess = sealed[e].sess => c = e
  /\ sealed \in [Cards -> Seal \cup {NoSeal}]
  /\ fate \in [Cards -> {"none", "made", "approve", "approve_task", "deny", "passed"}]
  /\ granted \subseteq Sessions
  /\ reqs \subseteq Request /\ run \in [Sessions -> Run \cup {Idle}]
  /\ uses \in [Cards -> Nat] /\ done \subseteq Cards
  /\ turns \in 0..MaxTurns

\* The history of a document bears out every approved edit: the version before it has
\* the text the card was made for, and the edit follows directly, whatever the user,
\* other agents, restores, coalesced autosaves and deletions did between the turn that
\* proposed the edit and the one that executed it, or do later
\* (document_tools.py:84-110, 508-510).
ShownIsEdited ==
  \A c \in done :
    LET v == sealed[c].view
    IN  /\ v.version < CountOf(v.doc)
        /\ versions[v.doc][v.version].text = v.shown
        /\ versions[v.doc][v.version + 1] = [text |-> sealed[c].text, by |-> "ai"]

\* What the prompt says of the document it shows, "Every request is about THIS
\* document" (agent_loop.py:2488): while a document that a run was shown or has
\* created is there, the run edits no other.  Violated: the target is one for the
\* whole process, and another chat's turn or a closed tab takes it away.
EditsItsOwn ==
  [][\A s \in Sessions, d \in Docs, t \in Texts :
       Write(s, d, t) /\ (\E e \in run[s].own : row[e] = "active") => d \in run[s].own]_vars

\* A request or a run that will execute the edit of card c.
Carried(c) == \/ \E r \in reqs : r.card = c
              \/ \E s \in Sessions : At(s, "resuming") /\ run[s].card = c

\* A card is good for one run, and its edit is executed once: a second answer, from
\* another tab or after a restart, starts none; a card that was denied or passed over
\* starts none; an edit is executed only if its card was approved, and then nobody
\* is left to execute it again (tool_approvals.py:425-513).
AnsweredOnce ==
  \A c \in Cards :
    /\ uses[c] <= 1
    /\ fate[c] \in {"none", "made", "deny", "passed"} => uses[c] = 0
    /\ c \in done => uses[c] = 1 /\ ~Carried(c)

\* How far a card is.
Life(c) == IF fate[c] = "none" THEN "none"
           ELSE IF c \in pending THEN "waiting"
           ELSE IF c \in done THEN "executed"
           ELSE IF Carried(c) THEN "approved" ELSE "closed"

\* The approvals implement sealed edits: however requests, runs, evictions, expiries
\* and restarts meet, a card goes from waiting to approved to executed and never back,
\* its edit is a compare-and-swap on the document, and every other change of a document
\* adds a version or overwrites the user's latest (tool_approvals.py:399-513,
\* document_tools.py:84-110, document_routes.py:660-690).
Sealing == INSTANCE SealedEdits WITH
  history <- versions,
  card    <- [c \in Cards |-> Life(c)],
  seal    <- sealed,
  None    <- NoSeal
ImplementsSealedEdits == Sealing!ESpec
=============================================================================
