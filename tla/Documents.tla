----------------------------- MODULE Documents -----------------------------
(***************************************************************************)
(* The document store: a document's current text and its versions          *)
(* (routes/document/document_routes.py, agent_tools/document_tools.py).    *)
(* Every handler runs without an await between reading the row and         *)
(* committing it, so each is one step.                                     *)
(*                                                                         *)
(* Saves of the user within VERSION_COALESCE_SECONDS are folded into the   *)
(* latest version, whose number does not change: neither the number nor    *)
(* the text alone identifies a state of a document.                        *)
(***************************************************************************)
EXTENDS Naturals, Sequences

CONSTANTS Docs, Texts,
          NoDoc,       \* model value
          MaxVersions  \* bound: versions of a document

ASSUME DocumentsAssumption == MaxVersions \in Nat \ {0} /\ NoDoc \notin Docs

VARIABLES
  row,       \* "none" before its creation, "active", "inactive": soft-deleted,
             \* "gone": the row was removed by a tidy
  content,   \* current_content
  versions,  \* version i at position i; version_count is the length
  recent,    \* the latest version is younger than VERSION_COALESCE_SECONDS
  target     \* _active_document_id: the document the tools of every run work on

docVars == <<row, content, versions, recent, target>>

\* "ai": a tool's version, or the text of a PDF; only the user's are folded.
Version == [text : Texts, by : {"user", "ai"}]

Exists(d) == row[d] \in {"active", "inactive"}
Latest(d) == versions[d][Len(versions[d])]
CountOf(d) == Len(versions[d])

DocInit == /\ row = [d \in Docs |-> "none"]
           /\ content = [d \in Docs |-> ""]
           /\ versions = [d \in Docs |-> <<>>]
           /\ recent = [d \in Docs |-> FALSE]
           /\ target = NoDoc

AddVersion(d, t, by) ==
  /\ CountOf(d) < MaxVersions
  /\ versions' = [versions EXCEPT ![d] = Append(@, [text |-> t, by |-> by])]
  /\ content' = [content EXCEPT ![d] = t]
  /\ recent' = [recent EXCEPT ![d] = TRUE]

\* POST /api/document, and the create_document tool, which also sets the target.
Create(d, t, by) ==
  /\ row[d] = "none"
  /\ row' = [row EXCEPT ![d] = "active"]
  /\ AddVersion(d, t, by)
  /\ target' = IF by = "ai" THEN d ELSE target

\* Mutated form: the author of the latest version is not looked at.
AnyAuthorRecent(d) == recent[d]
Coalesces(d) == Latest(d).by = "user" /\ recent[d]

\* PUT: the editor's autosave, or an explicit checkpoint ("force").
Save(d, t, force) ==
  /\ Exists(d)
  /\ content[d] # t \/ force
  /\ \/ /\ Coalesces(d) /\ ~force
        /\ versions' = [versions EXCEPT ![d][CountOf(d)].text = t]
        /\ content' = [content EXCEPT ![d] = t]
        /\ UNCHANGED recent
     \/ /\ ~Coalesces(d) \/ force
        /\ AddVersion(d, t, "user")
  /\ UNCHANGED <<row, target>>

\* POST restore: an old text becomes a new version.
Restore(d, n) ==
  /\ Exists(d) /\ n \in 1..CountOf(d)
  /\ AddVersion(d, versions[d][n].text, "user")
  /\ UNCHANGED <<row, target>>

\* update_document and edit_document of d, once their checks have passed.
AiWrite(d, t) == AddVersion(d, t, "ai") /\ UNCHANGED row

\* What they work on when no approval says which document: the target, or the most
\* recent one if that is gone, which then becomes the target.
ToolTarget(d) == /\ Exists(d) /\ (target # NoDoc /\ Exists(target) => d = target)
                 /\ target' = d

\* clear_active_document: the tab of d was closed, or d deleted.
Cleared(d) == IF target = d THEN NoDoc ELSE target

\* POST extract-pdf-text.
Extract(d, t) == Exists(d) /\ AiWrite(d, t) /\ UNCHANGED target

SoftDelete(d) == /\ row[d] = "active"
                 /\ row' = [row EXCEPT ![d] = "inactive"]
                 /\ target' = Cleared(d)
                 /\ UNCHANGED <<content, versions, recent>>

\* PATCH without a session: the tab was closed, the document kept.
Detach(d) == /\ Exists(d)
             /\ target' = Cleared(d)
             /\ UNCHANGED <<row, content, versions, recent>>

\* POST /api/documents/tidy removes rows it takes for junk.
Tidy(d) == /\ Exists(d)
           /\ row' = [row EXCEPT ![d] = "gone"]
           /\ UNCHANGED <<content, versions, recent, target>>

\* The latest version leaves the window.
Age(d) == /\ Exists(d) /\ recent[d]
          /\ recent' = [recent EXCEPT ![d] = FALSE]
          /\ UNCHANGED <<row, content, versions, target>>

\* What users do with documents.
UserStep ==
  \E d \in Docs :
    \/ \E t \in Texts : Create(d, t, "user") \/ Extract(d, t)
    \/ \E t \in Texts, force \in BOOLEAN : Save(d, t, force)
    \/ \E n \in 1..MaxVersions : Restore(d, n)
    \/ SoftDelete(d) \/ Detach(d) \/ Tidy(d) \/ Age(d)

DocTypeOK ==
  /\ row \in [Docs -> {"none", "active", "inactive", "gone"}]
  /\ content \in [Docs -> Texts \cup {""}]
  /\ target \in Docs \cup {NoDoc}
  /\ versions \in [Docs -> Seq(Version)] /\ recent \in [Docs -> BOOLEAN]
  /\ \A d \in Docs : /\ CountOf(d) <= MaxVersions
                     /\ row[d] = "none" <=> CountOf(d) = 0

\* The history of a document only grows: a version of the AI, and every version but
\* the latest, keeps its text for ever, whatever the editor autosaves or restores,
\* and the document shows its latest version (document_routes.py:660-690).
HistoryKept ==
  [][\A d \in Docs :
       /\ CountOf(d) <= Len(versions'[d])
       /\ \A i \in 1..CountOf(d) :
            \/ /\ versions'[d][i].text = versions[d][i].text
               /\ versions'[d][i].by = versions[d][i].by
            \/ /\ i = CountOf(d) /\ Len(versions'[d]) = i
               /\ versions[d][i].by = "user" /\ versions'[d][i].by = "user"
       /\ versions'[d] # <<>> => content'[d] = versions'[d][Len(versions'[d])].text]_docVars
=============================================================================
