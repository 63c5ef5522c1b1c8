----------------------------- MODULE SealedEdits -----------------------------
(***************************************************************************)
(* What the approvals promise for a document, without requests, runs, a    *)
(* registry and restarts: an edit is sealed with the state of the document *)
(* it was made for; once approved it is a compare-and-swap, executed on    *)
(* exactly that state, in one step and once, or never.  In between anybody *)
(* may edit the document.  ToolApprovals implements it.                    *)
(***************************************************************************)
EXTENDS Naturals, Sequences

CONSTANTS Docs, Texts, Cards,
          None  \* no seal

VARIABLES
  history,  \* the versions of a document
  card,     \* how far a card is
  seal      \* what a card was made for; means nothing once it is closed

evars == <<history, card, seal>>

Phases == {"none", "waiting", "approved", "executed", "closed"}

EInit == /\ history = [d \in Docs |-> <<>>]
         /\ card = [c \in Cards |-> "none"]
         /\ seal = [c \in Cards |-> None]

\* A version is added, or the user's latest is overwritten.
Edit(d) ==
  /\ UNCHANGED card /\ UNCHANGED seal
  /\ \/ \E t \in Texts, by \in {"user", "ai"} :
          history' = [history EXCEPT ![d] = Append(@, [text |-> t, by |-> by])]
     \/ /\ history[d] # <<>> /\ history[d][Len(history[d])].by = "user"
        /\ \E t \in Texts : history' = [history EXCEPT ![d][Len(history[d])].text = t]

\* Card c is left alone, or comes to nothing from one of the phases in "from".
Shut(c, from) == \/ card'[c] = card[c] /\ seal'[c] = seal[c]
                 \/ card[c] \in from /\ card'[c] = "closed"

Typed == card' \in [Cards -> Phases] /\ DOMAIN seal' = Cards

\* A card is made; it may take the place of others.
Propose(c) ==
  /\ UNCHANGED history
  /\ card[c] = "none" /\ card'[c] = "waiting" /\ seal'[c] # None
  /\ \A e \in Cards \ {c} : Shut(e, {"waiting"})
  /\ Typed

Approve(c) == /\ card[c] = "waiting"
              /\ card' = [card EXCEPT ![c] = "approved"]
              /\ UNCHANGED <<history, seal>>

\* Denied, expired, passed over, lost in a restart; or approved, and the run that was
\* to execute it ends or finds another state of the document.
Close ==
  /\ UNCHANGED history
  /\ \A c \in Cards : Shut(c, {"waiting", "approved"})
  /\ Typed

\* The edit of card c, on the state it was made for.
Execute(c) ==
  LET v == seal[c].view
      h == history[v.doc]
  IN  /\ card[c] = "approved"
      /\ card' = [card EXCEPT ![c] = "executed"]
      /\ Len(h) = v.version /\ h[v.version].text = v.shown
      /\ history' = [history EXCEPT ![v.doc] = Append(h, [text |-> seal[c].text, by |-> "ai"])]
      /\ UNCHANGED seal

ENext == \/ Close
         \/ \E d \in Docs : Edit(d)
         \/ \E c \in Cards : Propose(c) \/ Approve(c) \/ Execute(c)

ESpec == EInit /\ [][ENext]_evars
=============================================================================
