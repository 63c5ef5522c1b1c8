------------------------ MODULE ToolApprovalsProofs ------------------------
(***************************************************************************)
(* Theorems about Documents and ToolApprovals, for any number of documents *)
(* chats, cards, versions and turns.                                       *)
(*                                                                         *)
(* The argument: a document shows its latest version (DocInv), so that a   *)
(* text found unchanged is the text of the version whose number was found  *)
(* unchanged; the history behind a version of an agent never changes       *)
(* (HistoryStep), so that what held when the edit was executed holds for   *)
(* ever; and a card whose approval started a run is no longer in the       *)
(* registry (CardInv), so that it starts no other, and has one holder till *)
(* its edit is executed (CarryInv): a card is in one phase only, and each  *)
(* step moves it as SealedEdits says.                                      *)
(***************************************************************************)
EXTENDS ToolApprovals, FiniteSetTheorems, SequenceTheorems, WellFoundedInduction, TLAPS

\* A document shows its latest version.
DocInv == \A d \in Docs : CountOf(d) > 0 => content[d] = Latest(d).text

\* The body of HistoryKept.
HistoryStep ==
  \A d \in Docs :
    /\ CountOf(d) <= Len(versions'[d])
    /\ \A i \in 1..CountOf(d) :
         \/ /\ versions'[d][i].text = versions[d][i].text
            /\ versions'[d][i].by = versions[d][i].by
         \/ /\ i = CountOf(d) /\ Len(versions'[d]) = i
            /\ versions[d][i].by = "user" /\ versions'[d][i].by = "user"
    /\ versions'[d] # <<>> => content'[d] = versions'[d][Len(versions'[d])].text

\* A card in the registry is unanswered; one whose approval started a run keeps what
\* it was sealed for.
CardInv ==
  \A c \in Cards :
    /\ c \in pending => fate[c] = "made" /\ sealed[c] # NoSeal
    /\ uses[c] = 1 => sealed[c] # NoSeal
    /\ fate[c] = "none" => uses[c] = 0

\* What ShownIsEdited says of one card.
Borne(c) ==
  LET v == sealed[c].view
  IN  /\ v.version < CountOf(v.doc)
      /\ versions[v.doc][v.version].text = v.shown
      /\ versions[v.doc][v.version + 1] = [text |-> sealed[c].text, by |-> "ai"]

\* The types of the cards and of the rest.
CardType ==
  /\ pending \subseteq Cards /\ Cardinality(pending) <= MaxPending
  /\ \A c, e \in pending : sealed[c].sess = sealed[e].sess => c = e
  /\ sealed \in [Cards -> Seal \cup {NoSeal}]
  /\ fate \in [Cards -> {"none", "made", "approve", "approve_task", "deny", "passed"}]
  /\ uses \in [Cards -> Nat]
RestType ==
  /\ granted \subseteq Sessions
  /\ reqs \subseteq Request /\ run \in [Sessions -> Run \cup {Idle}]
  /\ done \subseteq Cards
  /\ turns \in 0..MaxTurns

\* Requests and runs that carry an approval.
ReqInv == \A r \in reqs : r.card # NoCard => uses[r.card] = 1
RunInv == \A s \in Sessions : run[s].phase = "resuming" =>
                                run[s].card \in Cards /\ uses[run[s].card] = 1

\* What AnsweredOnce says without the requests and runs.
UsedOnce ==
  \A c \in Cards :
    /\ uses[c] <= 1
    /\ fate[c] \in {"none", "made", "deny", "passed"} => uses[c] = 0
    /\ c \in done => uses[c] = 1

IInv == TypeOK /\ DocInv /\ CardInv /\ ReqInv /\ RunInv /\ ShownIsEdited /\ UsedOnce

-----------------------------------------------------------------------------
(* Documents. *)

\* A history is a sequence of versions.
LEMMA HistoryType ==
  ASSUME DocTypeOK, NEW d \in Docs
  PROVE  /\ versions[d] \in Seq(Version) /\ Len(versions[d]) \in Nat
         /\ versions[d] # <<>> => Len(versions[d]) > 0
<1>1. versions[d] \in Seq(Version)
  BY DEF DocTypeOK
<1> QED BY <1>1, LenProperties, EmptySeq

\* A new version at the end of a document's history, by any author: types hold, the
\* document shows it, and the history behind it is kept.
LEMMA AddVersionKept ==
  ASSUME DocTypeOK, DocInv,
         NEW d \in Docs, NEW t \in Texts, NEW by \in {"user", "ai"}, AddVersion(d, t, by),
         NEW st \in {"active", "inactive", "gone"}, row' = [row EXCEPT ![d] = st],
         target' \in Docs \cup {NoDoc}
  PROVE  DocTypeOK' /\ DocInv' /\ HistoryStep
<1>0. versions[d] \in Seq(Version) /\ Len(versions[d]) \in Nat
  BY HistoryType
<1>1. /\ versions' = [versions EXCEPT ![d] = Append(versions[d], [text |-> t, by |-> by])]
      /\ content' = [content EXCEPT ![d] = t]
      /\ recent' = [recent EXCEPT ![d] = TRUE]
      /\ Len(versions[d]) < MaxVersions
  BY DEF AddVersion, DocTypeOK, CountOf
<1>2. [text |-> t, by |-> by] \in Version
  BY DEF Version
<1>3. /\ versions'[d] \in Seq(Version)
      /\ Len(versions'[d]) = Len(versions[d]) + 1
      /\ versions'[d][Len(versions'[d])] = [text |-> t, by |-> by]
      /\ \A i \in 1..Len(versions[d]) : versions'[d][i] = versions[d][i]
  <2>1. versions'[d] = Append(versions[d], [text |-> t, by |-> by])
    BY <1>1 DEF DocTypeOK
  <2> QED BY <2>1, <1>0, <1>2, AppendProperties
<1>4. \A e \in Docs \ {d} : /\ versions'[e] = versions[e] /\ content'[e] = content[e]
                            /\ row'[e] = row[e]
  BY <1>1 DEF DocTypeOK
<1>5. DocTypeOK'
  <2>1. /\ row' \in [Docs -> {"none", "active", "inactive", "gone"}]
        /\ content' \in [Docs -> Texts \cup {""}]
        /\ recent' \in [Docs -> BOOLEAN]
    BY <1>1 DEF DocTypeOK
  <2>2. versions' \in [Docs -> Seq(Version)]
    BY <1>1, <1>3 DEF DocTypeOK
  <2>3. row'[d] # "none"
    BY DEF DocTypeOK
  <2>4. ASSUME NEW e \in Docs
        PROVE  Len(versions'[e]) <= MaxVersions /\ (row'[e] = "none" <=> Len(versions'[e]) = 0)
    <3>1. CASE e = d
      BY <1>1, <1>3, <2>3, <3>1, DocumentsAssumption
    <3>2. CASE e # d
      BY <1>4, <3>2 DEF DocTypeOK, CountOf
    <3> QED BY <3>1, <3>2
  <2> QED BY <2>1, <2>2, <2>4 DEF DocTypeOK, CountOf
<1>6. \A e \in Docs : Len(versions'[e]) > 0 => content'[e] = versions'[e][Len(versions'[e])].text
  <2> SUFFICES ASSUME NEW e \in Docs, Len(versions'[e]) > 0
               PROVE  content'[e] = versions'[e][Len(versions'[e])].text
    OBVIOUS
  <2>1. CASE e = d
    <3>1. content'[d] = t
      BY <1>1 DEF DocTypeOK
    <3> QED BY <3>1, <2>1, <1>3
  <2>2. CASE e # d
    BY <2>2, <1>4 DEF DocInv, CountOf, Latest
  <2> QED BY <2>1, <2>2
<1>7. DocInv'
  BY <1>6 DEF DocInv, CountOf, Latest
<1>8. HistoryStep
  <2> SUFFICES ASSUME NEW e \in Docs
               PROVE  /\ Len(versions[e]) <= Len(versions'[e])
                      /\ \A i \in 1..Len(versions[e]) : versions'[e][i] = versions[e][i]
                      /\ versions'[e] # <<>> =>
                           content'[e] = versions'[e][Len(versions'[e])].text
    BY DEF HistoryStep, CountOf
  <2>1. /\ Len(versions[e]) <= Len(versions'[e])
        /\ \A i \in 1..Len(versions[e]) : versions'[e][i] = versions[e][i]
    <3>0. Len(versions[e]) \in Nat
      BY HistoryType
    <3>1. CASE e = d
      BY <1>0, <1>3, <3>1
    <3>2. CASE e # d
      BY <1>4, <3>0, <3>2
    <3> QED BY <3>1, <3>2
  <2>2. versions'[e] # <<>> => Len(versions'[e]) > 0
    <3>1. versions'[e] \in Seq(Version)
      BY <1>5 DEF DocTypeOK
    <3> QED BY <3>1, EmptySeq
  <2> QED BY <2>1, <2>2, <1>6
<1> QED BY <1>5, <1>7, <1>8

\* A step that changes no text.
LEMMA TextsKept ==
  ASSUME DocTypeOK, DocInv, versions' = versions, content' = content, DocTypeOK'
  PROVE  DocInv' /\ HistoryStep
<1>1. DocInv'
  BY DEF DocInv, CountOf, Latest
<1>2. \A e \in Docs : Len(versions[e]) \in Nat /\ (versions[e] # <<>> => Len(versions[e]) > 0)
  BY HistoryType
<1> QED BY <1>1, <1>2 DEF HistoryStep, DocInv, CountOf, Latest

\* A save that is folded into the user's latest version.
LEMMA FoldKept ==
  ASSUME DocTypeOK, DocInv, NEW d \in Docs, NEW t \in Texts, Exists(d), Coalesces(d),
         versions' = [versions EXCEPT ![d][CountOf(d)].text = t],
         content' = [content EXCEPT ![d] = t], UNCHANGED <<recent, row, target>>
  PROVE  DocTypeOK' /\ DocInv' /\ HistoryStep
<1> DEFINE n == Len(versions[d])
           q == versions[d]
           v == [q[n] EXCEPT !.text = t]
<1>1. q \in Seq(Version) /\ n \in Nat /\ n \in 1..n
  <2>1. q \in Seq(Version) /\ n \in Nat
    BY HistoryType
  <2>2. n # 0
    BY DEF DocTypeOK, Exists, CountOf
  <2> QED BY <2>1, <2>2
<1>2. q[n] \in Version
  BY <1>1, ElementOfSeq
<1>3. v \in Version /\ v.text = t /\ v.by = q[n].by /\ q[n].by = "user"
  BY <1>2 DEF Version, Coalesces, Latest
<1>4. versions'[d] = [q EXCEPT ![n] = v]
  BY DEF DocTypeOK, CountOf
<1> HIDE DEF v, q, n
<1>5. /\ versions'[d] \in Seq(Version) /\ Len(versions'[d]) = n
      /\ \A i \in 1..n : versions'[d][i] = IF i = n THEN v ELSE q[i]
  <2>1. Len(q) = n
    BY DEF q, n
  <2>2. n \in 1..Len(q) /\ v \in Version /\ q \in Seq(Version)
    BY <1>1, <1>3, <2>1
  <2>3. /\ [q EXCEPT ![n] = v] \in Seq(Version) /\ Len([q EXCEPT ![n] = v]) = Len(q)
        /\ \A i \in 1..Len(q) : [q EXCEPT ![n] = v][i] = IF i = n THEN v ELSE q[i]
    BY <2>2, ExceptSeq
  <2> QED BY <2>1, <2>3, <1>4
<1>6. \A e \in Docs \ {d} : versions'[e] = versions[e] /\ content'[e] = content[e]
  BY DEF DocTypeOK
<1>7. DocTypeOK'
  <2>1. content' \in [Docs -> Texts \cup {""}]
    BY DEF DocTypeOK
  <2>2. versions' \in [Docs -> Seq(Version)]
    <3>1. versions' = [versions EXCEPT ![d] = versions'[d]]
      BY DEF DocTypeOK
    <3> QED BY <3>1, <1>5 DEF DocTypeOK
  <2>3. \A e \in Docs : Len(versions'[e]) = Len(versions[e])
    BY <1>5, <1>6 DEF n
  <2> QED BY <2>1, <2>2, <2>3 DEF DocTypeOK, CountOf
<1>8. content'[d] = t
  BY DEF DocTypeOK
<1>9. \A e \in Docs : Len(versions'[e]) > 0 =>
                        content'[e] = versions'[e][Len(versions'[e])].text
  BY <1>1, <1>3, <1>5, <1>6, <1>8 DEF DocInv, CountOf, Latest
<1>10. DocInv'
  BY <1>9 DEF DocInv, CountOf, Latest
<1>11. HistoryStep
  <2> SUFFICES ASSUME NEW e \in Docs
               PROVE  /\ Len(versions[e]) <= Len(versions'[e])
                      /\ \A i \in 1..Len(versions[e]) :
                           \/ /\ versions'[e][i].text = versions[e][i].text
                              /\ versions'[e][i].by = versions[e][i].by
                           \/ /\ i = Len(versions[e]) /\ Len(versions'[e]) = i
                              /\ versions[e][i].by = "user" /\ versions'[e][i].by = "user"
                      /\ versions'[e] # <<>> =>
                           content'[e] = versions'[e][Len(versions'[e])].text
    BY DEF HistoryStep, CountOf
  <2>1. versions'[e] # <<>> => Len(versions'[e]) > 0
    <3>1. versions'[e] \in Seq(Version)
      BY <1>7 DEF DocTypeOK
    <3> QED BY <3>1, EmptySeq
  <2>2. Len(versions[e]) \in Nat
    BY HistoryType
  <2>3. CASE e # d
    BY <2>1, <2>2, <2>3, <1>6, <1>9
  <2>4. CASE e = d
    <3>1. versions[e] = q /\ Len(versions[e]) = n
      BY <2>4 DEF q, n
    <3>2. \A i \in 1..n : \/ i # n /\ versions'[e][i] = q[i]
                          \/ i = n /\ versions'[e][i] = v
      BY <1>5, <2>4
    <3>3. Len(versions'[e]) = n /\ n \in Nat
      BY <1>5, <1>1, <2>4
    <3>4. \A i \in 1..n : \/ versions'[e][i].text = q[i].text /\ versions'[e][i].by = q[i].by
                          \/ i = n /\ q[i].by = "user" /\ versions'[e][i].by = "user"
      BY <3>2, <1>3
    <3>5. versions'[e] # <<>> => content'[e] = versions'[e][Len(versions'[e])].text
      BY <2>1, <1>9
    <3> QED BY <3>1, <3>3, <3>4, <3>5
  <2> QED BY <2>3, <2>4
<1> QED BY <1>7, <1>10, <1>11

\* Everything that users do with documents.
LEMMA UserStepKept ==
  ASSUME DocTypeOK, DocInv, UserStep
  PROVE  DocTypeOK' /\ DocInv' /\ HistoryStep
<1>1. PICK d \in Docs :
        \/ \E t \in Texts : Create(d, t, "user") \/ Extract(d, t)
        \/ \E t \in Texts, force \in BOOLEAN : Save(d, t, force)
        \/ \E n \in 1..MaxVersions : Restore(d, n)
        \/ SoftDelete(d) \/ Detach(d) \/ Tidy(d) \/ Age(d)
  BY DEF UserStep
<1>0. /\ row \in [Docs -> {"none", "active", "inactive", "gone"}] /\ target \in Docs \cup {NoDoc}
      /\ row = [row EXCEPT ![d] = row[d]]
  BY DEF DocTypeOK
<1>2. ASSUME NEW t \in Texts, Create(d, t, "user") PROVE DocTypeOK' /\ DocInv' /\ HistoryStep
  <2>1. AddVersion(d, t, "user") /\ row' = [row EXCEPT ![d] = "active"] /\ target' = target
    BY <1>2 DEF Create
  <2> QED BY <2>1, <1>0, AddVersionKept
<1>3. ASSUME NEW t \in Texts, Extract(d, t) PROVE DocTypeOK' /\ DocInv' /\ HistoryStep
  <2>1. /\ AddVersion(d, t, "ai") /\ row' = [row EXCEPT ![d] = row[d]] /\ target' = target
        /\ row[d] \in {"active", "inactive", "gone"}
    BY <1>3, <1>0 DEF Extract, AiWrite, Exists
  <2> QED BY <2>1, <1>0, AddVersionKept
<1>4. ASSUME NEW t \in Texts, NEW force \in BOOLEAN, Save(d, t, force)
      PROVE  DocTypeOK' /\ DocInv' /\ HistoryStep
  <2>1. Exists(d) /\ UNCHANGED <<row, target>>
    BY <1>4 DEF Save
  <2>2. CASE AddVersion(d, t, "user")
    <3>1. row' = [row EXCEPT ![d] = row[d]] /\ row[d] \in {"active", "inactive", "gone"}
      BY <2>1, <1>0 DEF Exists
    <3> QED BY <3>1, <2>1, <2>2, <1>0, AddVersionKept
  <2>3. CASE ~AddVersion(d, t, "user")
    <3>1. /\ Coalesces(d) /\ UNCHANGED recent
          /\ versions' = [versions EXCEPT ![d][CountOf(d)].text = t]
          /\ content' = [content EXCEPT ![d] = t]
      BY <1>4, <2>3 DEF Save
    <3> QED BY <3>1, <2>1, FoldKept
  <2> QED BY <2>2, <2>3
<1>5. ASSUME NEW n \in 1..MaxVersions, Restore(d, n) PROVE DocTypeOK' /\ DocInv' /\ HistoryStep
  <2>1. /\ n \in 1..Len(versions[d]) /\ AddVersion(d, versions[d][n].text, "user")
        /\ row' = [row EXCEPT ![d] = row[d]] /\ target' = target
        /\ row[d] \in {"active", "inactive", "gone"}
    BY <1>5, <1>0 DEF Restore, Exists, CountOf
  <2>2. versions[d][n].text \in Texts
    <3>1. versions[d][n] \in Version
      BY <2>1, HistoryType, ElementOfSeq
    <3> QED BY <3>1 DEF Version
  <2> QED BY <2>1, <2>2, <1>0, AddVersionKept
<1>6. CASE SoftDelete(d) \/ Detach(d) \/ Tidy(d) \/ Age(d)
  <2>1. /\ versions' = versions /\ content' = content
        /\ target' \in Docs \cup {NoDoc}
        /\ recent' \in [Docs -> BOOLEAN]
        /\ \/ row' = row
           \/ row[d] # "none" /\ (\E st2 \in {"inactive", "gone"} : row' = [row EXCEPT ![d] = st2])
    BY <1>6, <1>0 DEF SoftDelete, Detach, Tidy, Age, Cleared, Exists, DocTypeOK
  <2>2. DocTypeOK'
    BY <2>1, <1>0 DEF DocTypeOK, CountOf
  <2> QED BY <2>1, <2>2, TextsKept
<1> QED BY <1>1, <1>2, <1>3, <1>4, <1>5, <1>6

\* A step that leaves the documents alone.
LEMMA DocsStill ==
  ASSUME DocTypeOK, DocInv, UNCHANGED <<row, content, versions, recent>>,
         target' \in Docs \cup {NoDoc}
  PROVE  DocTypeOK' /\ DocInv' /\ HistoryStep
<1>1. DocTypeOK'
  BY DEF DocTypeOK, CountOf
<1> QED BY <1>1, TextsKept

\* A tool's edit of a document that exists.
LEMMA AiWriteKept ==
  ASSUME DocTypeOK, DocInv, NEW d \in Docs, NEW t \in Texts, Exists(d), AiWrite(d, t),
         target' \in Docs \cup {NoDoc}
  PROVE  DocTypeOK' /\ DocInv' /\ HistoryStep
<1>1. /\ AddVersion(d, t, "ai") /\ row' = [row EXCEPT ![d] = row[d]]
      /\ row[d] \in {"active", "inactive", "gone"}
  BY DEF AiWrite, Exists, DocTypeOK
<1> QED BY <1>1, AddVersionKept

\* What a run is shown of a document.
LEMMA ViewType ==
  ASSUME DocTypeOK, DocInv, NEW d \in Docs, Exists(d)
  PROVE  /\ ViewOf(d) \in View /\ ViewOf(d).doc = d
         /\ ViewOf(d).version = Len(versions[d]) /\ ViewOf(d).shown = Latest(d).text
<1>1. versions[d] \in Seq(Version) /\ Len(versions[d]) \in 1..MaxVersions
  <2>1. versions[d] \in Seq(Version) /\ Len(versions[d]) \in Nat
    BY HistoryType
  <2>2. Len(versions[d]) # 0 /\ Len(versions[d]) <= MaxVersions
    BY DEF DocTypeOK, Exists, CountOf
  <2> QED BY <2>1, <2>2, DocumentsAssumption
<1>2. Latest(d) \in Version /\ content[d] = Latest(d).text
  <2>1. Len(versions[d]) \in 1..Len(versions[d])
    BY <1>1
  <2>2. versions[d][Len(versions[d])] \in Version
    BY <1>1, <2>1, ElementOfSeq
  <2> QED BY <1>1, <2>2 DEF Latest, DocInv, CountOf
<1>3. content[d] \in Texts
  BY <1>2 DEF Version
<1> QED BY <1>1, <1>2, <1>3 DEF ViewOf, View, CountOf

-----------------------------------------------------------------------------
(* The registry. *)

\* Among numbered cards there is an oldest one.
LEMMA SomeOldest ==
  ASSUME NEW cs \in SUBSET Cards, cs # {}
  PROVE  \E c \in cs : Oldest(cs) = {c}
<1>1. cs \subseteq Nat
  BY ApprovalsAssumption DEF Cards
<1>2. PICK c \in cs : \A e \in cs : ~(<<e, c>> \in OpToRel(<, Nat))
  BY <1>1, NatLessThanWellFounded, WFMin
<1>3. \A e \in cs : c <= e
  <2> SUFFICES ASSUME NEW e \in cs PROVE c <= e
    OBVIOUS
  <2>1. c \in Nat /\ e \in Nat
    BY <1>1
  <2>2. e < c => <<e, c>> \in OpToRel(<, Nat)
    BY <2>1 DEF OpToRel
  <2>3. ~(e < c)
    BY <1>2, <2>2
  <2> QED BY <2>1, <2>3
<1>4. Oldest(cs) = {c}
  <2>1. c \in Oldest(cs)
    BY <1>3 DEF Oldest
  <2>2. ASSUME NEW e \in Oldest(cs) PROVE e = c
    <3>1. e \in cs /\ e <= c /\ c <= e
      BY <2>2, <1>3 DEF Oldest
    <3>2. e \in Nat /\ c \in Nat
      BY <3>1, <1>1
    <3> QED BY <3>1, <3>2
  <2> QED BY <2>1, <2>2
<1> QED BY <1>4

\* A set of cards is finite.
LEMMA CardsFinite ==
  ASSUME NEW cs \in SUBSET Cards
  PROVE  IsFiniteSet(cs)
<1>1. 1 \in Int /\ MaxCards \in Int
  BY ApprovalsAssumption
<1>2. IsFiniteSet(Cards)
  BY <1>1, FS_Interval DEF Cards
<1> QED BY <1>2, FS_Subset

\* Creating an approval keeps the registry within its maximum.
LEMMA EnrolledBound ==
  ASSUME pending \subseteq Cards, Cardinality(pending) <= MaxPending,
         NEW c \in Cards, NEW s \in Sessions
  PROVE  /\ Enrolled(c, s) \subseteq (pending \ CardsOf(s)) \cup {c}
         /\ c \in Enrolled(c, s) /\ Enrolled(c, s) \subseteq Cards
         /\ Cardinality(Enrolled(c, s)) <= MaxPending
<1> DEFINE left == pending \ CardsOf(s)
           kept == IF Cardinality(left) >= MaxPending THEN left \ Oldest(left) ELSE left
<1>1. Enrolled(c, s) = {c} \cup kept
  BY DEF Enrolled
<1>3. IsFiniteSet(pending) /\ IsFiniteSet(left) /\ Cardinality(left) <= MaxPending
  <2>1. IsFiniteSet(pending)
    BY CardsFinite
  <2>2. IsFiniteSet(left) /\ Cardinality(left) <= Cardinality(pending)
    BY <2>1, FS_Subset
  <2>3. Cardinality(left) \in Nat /\ Cardinality(pending) \in Nat
    BY <2>1, <2>2, FS_CardinalityType
  <2> QED BY <2>1, <2>2, <2>3, ApprovalsAssumption
<1>4. Cardinality(left) \in Nat
  BY <1>3, FS_CardinalityType
<1>5. IsFiniteSet(kept) /\ Cardinality(kept) \in Nat /\ Cardinality(kept) < MaxPending
  <2>1. CASE Cardinality(left) < MaxPending
    <3>1. kept = left
      BY <2>1, <1>4, ApprovalsAssumption
    <3> QED BY <3>1, <2>1, <1>3, <1>4
  <2>2. CASE ~(Cardinality(left) < MaxPending)
    <3>1. Cardinality(left) = MaxPending
      BY <2>2, <1>3, <1>4, ApprovalsAssumption
    <3>2. left # {}
      BY <3>1, FS_EmptySet, ApprovalsAssumption
    <3>3. PICK e \in left : Oldest(left) = {e}
      BY <3>2, SomeOldest
    <3>4. kept = left \ {e}
      BY <3>1, <3>3, ApprovalsAssumption
    <3>5. IsFiniteSet(kept) /\ Cardinality(kept) = Cardinality(left) - 1
      BY <3>4, <1>3, FS_RemoveElement
    <3> QED BY <3>1, <3>5, ApprovalsAssumption
  <2> QED BY <2>1, <2>2
<1> HIDE DEF kept
<1>6. Cardinality(kept \cup {c}) <= MaxPending
  <2>1. Cardinality(kept \cup {c}) = IF c \in kept THEN Cardinality(kept) ELSE Cardinality(kept) + 1
    BY <1>5, FS_AddElement
  <2> QED BY <2>1, <1>5, ApprovalsAssumption
<1>7. kept \subseteq left
  BY DEF kept
<1>8. {c} \cup kept = kept \cup {c}
  OBVIOUS
<1> QED BY <1>1, <1>6, <1>7, <1>8

\* A registry from which cards have gone is within its maximum.
LEMMA FewerCards ==
  ASSUME pending \subseteq Cards, Cardinality(pending) <= MaxPending,
         NEW P \in SUBSET pending
  PROVE  P \subseteq Cards /\ Cardinality(P) <= MaxPending
<1>1. IsFiniteSet(pending)
  BY CardsFinite
<1>2. IsFiniteSet(P) /\ Cardinality(P) <= Cardinality(pending)
  BY <1>1, FS_Subset
<1>3. Cardinality(P) \in Nat /\ Cardinality(pending) \in Nat
  BY <1>1, <1>2, FS_CardinalityType
<1> QED BY <1>2, <1>3, ApprovalsAssumption

-----------------------------------------------------------------------------
(* The inductive invariant. *)

LEMMA InitInv == Init => IInv
<1> SUFFICES ASSUME Init PROVE IInv
  OBVIOUS
<1>1. DocTypeOK /\ DocInv
  <2>1. \A d \in Docs : versions[d] = <<>> /\ Len(versions[d]) = 0
    BY EmptySeq DEF Init, DocInit
  <2>2. versions \in [Docs -> Seq(Version)]
    BY EmptySeq DEF Init, DocInit
  <2>3. row \in [Docs -> {"none", "active", "inactive", "gone"}] /\ (\A d \in Docs : row[d] = "none")
    BY DEF Init, DocInit
  <2>4. content \in [Docs -> Texts \cup {""}] /\ target = NoDoc /\ recent \in [Docs -> BOOLEAN]
    BY DEF Init, DocInit
  <2>5. DocTypeOK
    <3>1. 0 <= MaxVersions
      BY DocumentsAssumption
    <3>2. ASSUME NEW d \in Docs
          PROVE  Len(versions[d]) <= MaxVersions /\ (row[d] = "none" <=> Len(versions[d]) = 0)
      <4>1. Len(versions[d]) = 0 /\ row[d] = "none"
        BY <2>1, <2>3
      <4> QED BY <4>1, <3>1
    <3> QED BY <3>2, <2>2, <2>3, <2>4 DEF DocTypeOK, CountOf
  <2> QED BY <2>1, <2>5 DEF DocInv, CountOf
<1>2. TypeOK
  BY <1>1, FS_EmptySet, ApprovalsAssumption DEF Init, TypeOK
<1>3. CardInv /\ ReqInv /\ RunInv /\ ShownIsEdited /\ UsedOnce
  BY DEF Init, CardInv, ReqInv, RunInv, ShownIsEdited, UsedOnce, Idle
<1> QED BY <1>1, <1>2, <1>3 DEF IInv

\* What the history bears out it goes on to bear out.
LEMMA ShownKept ==
  ASSUME IInv, HistoryStep, DocTypeOK', NEW c \in done, sealed'[c] = sealed[c]
  PROVE  Borne(c)'
<1> SUFFICES LET v == sealed[c].view
             IN  /\ v.version < Len(versions'[v.doc])
                 /\ versions'[v.doc][v.version].text = v.shown
                 /\ versions'[v.doc][v.version + 1] = [text |-> sealed[c].text, by |-> "ai"]
  BY DEF Borne, CountOf
<1> DEFINE v == sealed[c].view
           d == v.doc
           n == v.version
<1>1. sealed[c] \in Seal
  BY DEF IInv, TypeOK, CardInv, UsedOnce
<1>2. d \in Docs /\ n \in 1..MaxVersions
  BY <1>1 DEF Seal, View
<1>3. /\ n < Len(versions[d]) /\ versions[d][n].text = v.shown
      /\ versions[d][n + 1] = [text |-> sealed[c].text, by |-> "ai"]
  BY DEF IInv, ShownIsEdited, CountOf
<1>4. versions'[d] \in Seq(Version) /\ Len(versions'[d]) \in Nat /\ Len(versions[d]) \in Nat
  <2>1. versions'[d] \in Seq(Version)
    BY <1>2 DEF DocTypeOK
  <2>2. DocTypeOK
    BY DEF IInv, TypeOK
  <2> QED BY <2>1, <2>2, <1>2, LenProperties, HistoryType
<1> HIDE DEF v, d, n
<1>5. /\ Len(versions[d]) <= Len(versions'[d])
      /\ \A i \in 1..Len(versions[d]) :
           \/ /\ versions'[d][i].text = versions[d][i].text
              /\ versions'[d][i].by = versions[d][i].by
           \/ i = Len(versions[d]) /\ versions[d][i].by = "user"
  BY <1>2 DEF HistoryStep, CountOf
<1>6. n \in 1..Len(versions[d]) /\ n + 1 \in 1..Len(versions[d]) /\ n # Len(versions[d])
  BY <1>2, <1>3, <1>4, DocumentsAssumption
<1>7. versions'[d][n].text = v.shown
  BY <1>3, <1>5, <1>6
<1>8. /\ versions'[d][n + 1].text = sealed[c].text
      /\ versions'[d][n + 1].by = "ai"
  BY <1>3, <1>5, <1>6
<1>9. versions'[d][n + 1] \in Version
  <2>1. n + 1 \in 1..Len(versions'[d])
    BY <1>4, <1>5, <1>6
  <2> QED BY <2>1, <1>4, ElementOfSeq
<1>10. versions'[d][n + 1] = [text |-> sealed[c].text, by |-> "ai"]
  BY <1>8, <1>9 DEF Version
<1>11. n < Len(versions'[d])
  BY <1>2, <1>3, <1>4, <1>5, DocumentsAssumption
<1> QED BY <1>7, <1>10, <1>11 DEF v, d, n

LEMMA Assemble ==
  ASSUME DocTypeOK', DocInv', CardType', RestType', CardInv', ReqInv', RunInv',
         \A c \in done' : Borne(c)', UsedOnce'
  PROVE  IInv'
BY DEF IInv, TypeOK, CardType, RestType, ShownIsEdited, Borne

\* A card that is waiting was never used.
LEMMA WaitingUnused ==
  ASSUME IInv, NEW c \in pending
  PROVE  c \in Cards /\ uses[c] = 0 /\ c \notin done /\ sealed[c] \in Seal /\ fate[c] = "made"
BY DEF IInv, TypeOK, CardInv, UsedOnce

\* A step that leaves the cards alone.
LEMMA CardsStill ==
  ASSUME IInv, HistoryStep, DocTypeOK', UNCHANGED <<cardVars, done>>
  PROVE  CardType' /\ CardInv' /\ (\A c \in done' : Borne(c)') /\ UsedOnce'
<1>1. CardType' /\ CardInv' /\ UsedOnce'
  BY DEF IInv, TypeOK, CardType, CardInv, UsedOnce, cardVars
<1>2. \A c \in done' : Borne(c)'
  BY ShownKept DEF cardVars
<1> QED BY <1>1, <1>2

\* Cards leave the registry unapproved.
LEMMA CardsGone ==
  ASSUME IInv, HistoryStep, DocTypeOK', NEW D \in SUBSET pending,
         pending' = pending \ D, Forget(D), UNCHANGED <<uses, done>>,
         NEW how \in {"deny", "passed", "made"},
         fate' = [c \in Cards |-> IF c \in D THEN how ELSE fate[c]]
  PROVE  CardType' /\ CardInv' /\ (\A c \in done' : Borne(c)') /\ UsedOnce'
<1>0. \A c \in D : c \in Cards /\ uses[c] = 0 /\ c \notin done
  BY WaitingUnused
<1>1. \A c \in Cards : /\ sealed'[c] = IF c \in D THEN NoSeal ELSE sealed[c]
                       /\ fate'[c] = IF c \in D THEN how ELSE fate[c]
  BY DEF Forget
<1>2. pending' \subseteq Cards /\ Cardinality(pending') <= MaxPending
  BY FewerCards DEF IInv, TypeOK
<1>3. CardType'
  <2>1. sealed' \in [Cards -> Seal \cup {NoSeal}]
    BY DEF Forget, IInv, TypeOK
  <2>2. fate' \in [Cards -> {"none", "made", "approve", "approve_task", "deny", "passed"}]
    BY DEF IInv, TypeOK
  <2>3. ASSUME NEW c \in pending', NEW e \in pending', sealed'[c].sess = sealed'[e].sess
        PROVE  c = e
    <3>1. c \in pending /\ e \in pending /\ sealed[c].sess = sealed[e].sess
      BY <1>1, <1>2, <2>3
    <3> QED BY <3>1 DEF IInv, TypeOK
  <2>4. uses' \in [Cards -> Nat]
    BY DEF IInv, TypeOK
  <2> QED BY <1>2, <2>1, <2>2, <2>3, <2>4 DEF CardType
<1>4. CardInv'
  BY <1>0, <1>1, <1>2 DEF IInv, CardInv
<1>5. \A c \in done' : Borne(c)'
  <2>1. \A c \in done : c \in Cards /\ c \notin D
    BY <1>0 DEF IInv, TypeOK
  <2> QED BY <2>1, <1>1, ShownKept
<1>6. UsedOnce'
  BY <1>0, <1>1 DEF IInv, UsedOnce
<1> QED BY <1>3, <1>4, <1>5, <1>6

-----------------------------------------------------------------------------
(* One lemma per action. *)

LEMMA StillStep == ASSUME IInv, UNCHANGED vars PROVE IInv'
<1> USE DEF vars, docVars, cardVars, runVars
<1>1. /\ DocTypeOK' /\ DocInv'
  BY DEF IInv, TypeOK, DocTypeOK, DocInv, CountOf, Latest
<1>2. CardType' /\ RestType' /\ CardInv' /\ ReqInv' /\ RunInv' /\ UsedOnce'
  BY DEF IInv, TypeOK, CardType, RestType, CardInv, ReqInv, RunInv, UsedOnce
<1>3. \A c \in done' : Borne(c)'
  BY DEF IInv, ShownIsEdited, Borne, CountOf
<1> QED BY <1>1, <1>2, <1>3, Assemble

\* What the requests and runs keep when they are left alone.
LEMMA RestStill ==
  ASSUME IInv, UNCHANGED <<reqs, run, granted, turns>>, done' \subseteq Cards, uses' = uses
  PROVE  RestType' /\ ReqInv' /\ RunInv'
BY DEF IInv, TypeOK, RestType, ReqInv, RunInv

LEMMA EditingStep == ASSUME IInv, Editing PROVE IInv' /\ HistoryStep
<1>1. DocTypeOK' /\ DocInv' /\ HistoryStep
  BY UserStepKept DEF Editing, IInv, TypeOK
<1>2. CardType' /\ CardInv' /\ (\A c \in done' : Borne(c)') /\ UsedOnce'
  BY <1>1, CardsStill DEF Editing, runVars
<1>3. RestType' /\ ReqInv' /\ RunInv'
  BY RestStill DEF Editing, runVars, cardVars, IInv, TypeOK
<1> QED BY <1>1, <1>2, <1>3, Assemble

\* Steps that leave the documents alone.
LEMMA DocsKept ==
  ASSUME IInv, UNCHANGED docVars
  PROVE  DocTypeOK' /\ DocInv' /\ HistoryStep
<1>1. target' \in Docs \cup {NoDoc}
  BY DEF docVars, IInv, TypeOK, DocTypeOK
<1> QED BY <1>1, DocsStill DEF docVars, IInv, TypeOK

LEMMA ExpireStep ==
  ASSUME IInv, NEW c \in Cards, Expire(c) PROVE IInv' /\ HistoryStep
<1>1. DocTypeOK' /\ DocInv' /\ HistoryStep
  BY DocsKept DEF Expire
<1>2. CardType' /\ CardInv' /\ (\A e \in done' : Borne(e)') /\ UsedOnce'
  <2>1. fate[c] = "made" /\ fate \in [Cards -> {"none", "made", "approve", "approve_task", "deny", "passed"}]
    BY DEF Expire, IInv, TypeOK, CardInv
  <2>2. fate' = [e \in Cards |-> IF e \in {c} THEN "made" ELSE fate[e]]
    BY <2>1 DEF Expire
  <2> QED BY <1>1, <2>2, CardsGone DEF Expire, runVars
<1>3. RestType' /\ ReqInv' /\ RunInv'
  BY RestStill DEF Expire, runVars, IInv, TypeOK
<1> QED BY <1>1, <1>2, <1>3, Assemble

LEMMA SendStep ==
  ASSUME IInv, NEW s \in Sessions, NEW d \in Docs \cup {NoDoc}, Send(s, d)
  PROVE  IInv' /\ HistoryStep
<1>1. DocTypeOK' /\ DocInv' /\ HistoryStep
  BY DocsKept DEF Send
<1>2. CardType' /\ CardInv' /\ (\A e \in done' : Borne(e)') /\ UsedOnce'
  <2>1. CardsOf(s) \subseteq pending
    BY DEF CardsOf
  <2>2. /\ pending' = pending \ CardsOf(s) /\ Forget(CardsOf(s)) /\ uses' = uses /\ done' = done
        /\ fate' = [c \in Cards |-> IF c \in CardsOf(s) THEN "passed" ELSE fate[c]]
    BY DEF Send
  <2> QED BY <1>1, <2>1, <2>2, CardsGone
<1>3. RestType' /\ ReqInv' /\ RunInv'
  <2> DEFINE r == [sess |-> s, doc |-> d, card |-> NoCard, armed |-> CardsOf(s) # {}]
  <2>1. r \in Request /\ r.card = NoCard
    BY DEF Request
  <2>2. reqs' = reqs \cup {r} /\ uses' = uses /\ run' = run /\ granted' = granted /\ done' = done
    BY DEF Send
  <2>3. turns' \in 0..MaxTurns
    BY ApprovalsAssumption DEF Send, IInv, TypeOK
  <2> HIDE DEF r
  <2> QED BY <2>1, <2>2, <2>3 DEF IInv, TypeOK, RestType, ReqInv, RunInv
<1> QED BY <1>1, <1>2, <1>3, Assemble

LEMMA RespondStep ==
  ASSUME IInv, NEW c \in Cards, NEW s \in Sessions,
         NEW decision \in {"approve", "approve_task", "deny"}, Respond(c, s, decision)
  PROVE  IInv' /\ HistoryStep
<1>1. DocTypeOK' /\ DocInv' /\ HistoryStep
  BY DocsKept DEF Respond
<1>0. /\ c \in pending /\ uses[c] = 0 /\ c \notin done /\ sealed[c] \in Seal
      /\ pending' = pending \ {c} /\ fate' = [fate EXCEPT ![c] = decision]
      /\ done' = done /\ run' = run /\ turns' = turns
      /\ granted' \in SUBSET Sessions
  BY WaitingUnused DEF Respond, Consumed, IInv, TypeOK
<1>2. CASE decision = "deny"
  <2>1. UNCHANGED <<uses, reqs>> /\ Forget({c})
    BY <1>2 DEF Respond
  <2>2. fate' = [e \in Cards |-> IF e \in {c} THEN "deny" ELSE fate[e]]
    BY <1>0, <1>2 DEF IInv, TypeOK
  <2>3. CardType' /\ CardInv' /\ (\A e \in done' : Borne(e)') /\ UsedOnce'
    BY <1>0, <1>1, <2>1, <2>2, CardsGone, ZenonT(60)
  <2>4. RestType' /\ ReqInv' /\ RunInv'
    BY <1>0, <2>1 DEF IInv, TypeOK, RestType, ReqInv, RunInv
  <2> QED BY <1>1, <2>3, <2>4, Assemble
<1>3. CASE decision # "deny"
  <2> DEFINE r == [sess |-> s, doc |-> sealed[c].view.doc, card |-> c, armed |-> TRUE]
  <2>1. /\ uses' = [uses EXCEPT ![c] = @ + 1] /\ sealed' = sealed
        /\ reqs' = reqs \cup {r}
    BY <1>3 DEF Respond
  <2>2. r \in Request /\ r.card = c
    BY <1>0 DEF Request, Seal, View
  <2> HIDE DEF r
  <2>3. /\ uses' \in [Cards -> Nat] /\ uses'[c] = 1
        /\ \A e \in Cards \ {c} : uses'[e] = uses[e] /\ fate'[e] = fate[e]
        /\ fate'[c] = decision
    BY <1>0, <2>1 DEF IInv, TypeOK
  <2>4. CardType'
    <3>1. pending' \subseteq Cards /\ Cardinality(pending') <= MaxPending
      <4>1. pending' \in SUBSET pending
        BY <1>0
      <4> QED BY <4>1, FewerCards DEF IInv, TypeOK
    <3>2. fate' \in [Cards -> {"none", "made", "approve", "approve_task", "deny", "passed"}]
      BY <1>0 DEF IInv, TypeOK
    <3> QED BY <1>0, <2>1, <2>3, <3>1, <3>2 DEF IInv, TypeOK, CardType
  <2>5. CardInv'
    <3>1. sealed[c] # NoSeal
      BY <1>0 DEF IInv, CardInv
    <3> QED BY <1>0, <1>3, <2>1, <2>3, <3>1 DEF IInv, CardInv
  <2>6. \A e \in done' : Borne(e)'
    BY <1>0, <1>1, <2>1, ShownKept
  <2>7. UsedOnce'
    BY <1>0, <1>3, <2>3 DEF IInv, UsedOnce
  <2>8. RestType'
    BY <1>0, <2>1, <2>2 DEF IInv, TypeOK, RestType
  <2>9. ReqInv' /\ RunInv'
    <3>1. \A e \in Cards : uses[e] = 1 => uses'[e] = 1
      BY <1>0, <2>3
    <3>2. ASSUME NEW q \in reqs, q.card # NoCard PROVE q.card \in Cards
      BY <3>2 DEF IInv, TypeOK, Request
    <3> QED BY <1>0, <2>1, <2>2, <2>3, <3>1, <3>2 DEF IInv, ReqInv, RunInv
  <2> QED BY <1>1, <2>4, <2>5, <2>6, <2>7, <2>8, <2>9, Assemble
<1> QED BY <1>2, <1>3

LEMMA BeginStep ==
  ASSUME IInv, NEW r \in reqs, NEW d \in Docs \cup {NoDoc}, NEW about \in BOOLEAN,
         Begin(r, d, about)
  PROVE  IInv' /\ HistoryStep
<1>1. DocTypeOK' /\ DocInv' /\ HistoryStep
  <2>1. target' \in Docs \cup {NoDoc}
    BY DEF Begin
  <2> QED BY <2>1, DocsStill DEF Begin, IInv, TypeOK
<1>2. CardType' /\ CardInv' /\ (\A e \in done' : Borne(e)') /\ UsedOnce'
  BY <1>1, CardsStill DEF Begin
<1> DEFINE s == r.sess
           phase == IF r.card = NoCard THEN "working" ELSE "resuming"
           view == IF d = NoDoc THEN NoView ELSE ViewOf(d)
           own == IF about THEN {d} ELSE {}
           bypass == r.card # NoCard \/ r.sess \in granted
           new == [phase |-> phase, view |-> view, own |-> own, armed |-> r.armed,
                   card |-> r.card, bypass |-> bypass]
<1>3. s \in Sessions /\ r.card \in Cards \cup {NoCard} /\ r.armed \in BOOLEAN
  BY DEF IInv, TypeOK, Request
<1>4. run' = [run EXCEPT ![s] = new] /\ reqs' = reqs \ {r} /\ UNCHANGED <<granted, turns, done, uses>>
  BY DEF Begin, cardVars
<1>5. view \in View \cup {NoView}
  BY ViewType DEF Begin, IInv, TypeOK
<1>6. own \in SUBSET Docs
  BY DEF Begin
<1>7. phase \in {"working", "resuming"} /\ bypass \in BOOLEAN
  OBVIOUS
<1>8. new.phase = phase /\ new.card = r.card
  OBVIOUS
<1>9. phase = "resuming" => r.card # NoCard
  OBVIOUS
<1> HIDE DEF phase, view, own, bypass
<1>10. new \in Run
  BY <1>3, <1>5, <1>6, <1>7 DEF Run
<1> HIDE DEF new, s
<1>11. RestType'
  BY <1>3, <1>4, <1>10 DEF IInv, TypeOK, RestType
<1>12. ReqInv'
  BY <1>4 DEF IInv, ReqInv
<1>13. RunInv'
  <2>1. r.card # NoCard => r.card \in Cards /\ uses[r.card] = 1
    BY <1>3 DEF IInv, ReqInv
  <2>2. ASSUME NEW x \in Sessions, run'[x].phase = "resuming"
        PROVE  run'[x].card \in Cards /\ uses'[run'[x].card] = 1
    <3>1. CASE x = s
      BY <3>1, <2>1, <2>2, <1>3, <1>4, <1>8, <1>9 DEF IInv, TypeOK
    <3>2. CASE x # s
      BY <3>2, <2>2, <1>4 DEF IInv, TypeOK, RunInv
    <3> QED BY <3>1, <3>2
  <2> QED BY <2>2 DEF RunInv
<1> QED BY <1>1, <1>2, <1>11, <1>12, <1>13, Assemble

\* A step of a run that changes only the run.
LEMMA RunStep ==
  ASSUME IInv, NEW s \in Sessions, NEW new \in Run \cup {Idle}, new.phase # "resuming",
         run' = [run EXCEPT ![s] = new], UNCHANGED <<uses, reqs, granted, turns>>,
         done' \subseteq Cards
  PROVE  RestType' /\ ReqInv' /\ RunInv'
<1>1. RestType' /\ ReqInv'
  BY DEF IInv, TypeOK, RestType, ReqInv
<1>2. ASSUME NEW x \in Sessions, run'[x].phase = "resuming"
      PROVE  run'[x].card \in Cards /\ uses'[run'[x].card] = 1
  <2>1. x # s /\ run'[x] = run[x]
    BY <1>2 DEF IInv, TypeOK
  <2> QED BY <1>2, <2>1 DEF IInv, RunInv
<1> QED BY <1>1, <1>2 DEF RunInv

\* A run that works is no idle one.
LEMMA WorkingType ==
  ASSUME IInv, NEW s \in Sessions, run[s] # Idle
  PROVE  run[s] \in Run /\ run \in [Sessions -> Run \cup {Idle}]
BY DEF IInv, TypeOK

LEMMA ArmStep ==
  ASSUME IInv, NEW s \in Sessions, Arm(s) PROVE IInv' /\ HistoryStep
<1>1. DocTypeOK' /\ DocInv' /\ HistoryStep
  BY DocsKept DEF Arm
<1>2. CardType' /\ CardInv' /\ (\A e \in done' : Borne(e)') /\ UsedOnce'
  BY <1>1, CardsStill DEF Arm
<1>3. RestType' /\ ReqInv' /\ RunInv'
  <2>1. run[s] \in Run /\ run[s].phase = "working"
    BY WorkingType DEF Arm, At, Idle
  <2>2. [run[s] EXCEPT !.armed = TRUE] \in Run /\ [run[s] EXCEPT !.armed = TRUE].phase = "working"
    BY <2>1 DEF Run
  <2>3. run' = [run EXCEPT ![s] = [run[s] EXCEPT !.armed = TRUE]]
    BY DEF Arm
  <2>4. done' \subseteq Cards /\ UNCHANGED <<uses, reqs, granted, turns>>
    BY DEF Arm, cardVars, IInv, TypeOK
  <2> QED BY <2>2, <2>3, <2>4, RunStep
<1> QED BY <1>1, <1>2, <1>3, Assemble

LEMMA WriteStep ==
  ASSUME IInv, NEW s \in Sessions, NEW d \in Docs, NEW t \in Texts, Write(s, d, t)
  PROVE  IInv' /\ HistoryStep
<1>1. DocTypeOK' /\ DocInv' /\ HistoryStep
  <2>1. Exists(d) /\ AiWrite(d, t) /\ target' \in Docs \cup {NoDoc}
    BY DEF Write, ToolTarget
  <2> QED BY <2>1, AiWriteKept DEF IInv, TypeOK
<1>2. CardType' /\ CardInv' /\ (\A e \in done' : Borne(e)') /\ UsedOnce'
  BY <1>1, CardsStill DEF Write, runVars
<1>3. RestType' /\ ReqInv' /\ RunInv'
  BY RestStill DEF Write, runVars, cardVars, IInv, TypeOK
<1> QED BY <1>1, <1>2, <1>3, Assemble

LEMMA ComposeStep ==
  ASSUME IInv, NEW s \in Sessions, NEW d \in Docs, NEW t \in Texts, Compose(s, d, t)
  PROVE  IInv' /\ HistoryStep
<1>1. DocTypeOK' /\ DocInv' /\ HistoryStep
  <2>1. /\ AddVersion(d, t, "ai") /\ row' = [row EXCEPT ![d] = "active"]
        /\ target' \in Docs \cup {NoDoc}
    BY DEF Compose, Create, IInv, TypeOK, DocTypeOK
  <2> QED BY <2>1, AddVersionKept DEF IInv, TypeOK
<1>2. CardType' /\ CardInv' /\ (\A e \in done' : Borne(e)') /\ UsedOnce'
  BY <1>1, CardsStill DEF Compose
<1>3. RestType' /\ ReqInv' /\ RunInv'
  <2> DEFINE new == [run[s] EXCEPT !.own = @ \cup {d}]
  <2>1. run[s] \in Run /\ run[s].phase = "working"
    BY WorkingType DEF Compose, At, Idle
  <2>2. new \in Run /\ new.phase = "working"
    BY <2>1 DEF Run
  <2>3. run' = [run EXCEPT ![s] = new]
    BY DEF Compose
  <2>4. done' \subseteq Cards /\ UNCHANGED <<uses, reqs, granted, turns>>
    BY DEF Compose, cardVars, IInv, TypeOK
  <2> QED BY <2>2, <2>3, <2>4, RunStep
<1> QED BY <1>1, <1>2, <1>3, Assemble

LEMMA EndRunStep ==
  ASSUME IInv, NEW s \in Sessions, EndRun(s) PROVE IInv' /\ HistoryStep
<1>1. DocTypeOK' /\ DocInv' /\ HistoryStep
  BY DocsKept DEF EndRun
<1>2. CardType' /\ CardInv' /\ (\A e \in done' : Borne(e)') /\ UsedOnce'
  BY <1>1, CardsStill DEF EndRun
<1>3. RestType' /\ ReqInv' /\ RunInv'
  <2>1. run' = [run EXCEPT ![s] = Idle] /\ Idle.phase = "idle"
    BY DEF EndRun, Idle
  <2>2. done' \subseteq Cards /\ UNCHANGED <<uses, reqs, granted, turns>>
    BY DEF EndRun, cardVars, IInv, TypeOK
  <2> QED BY <2>1, <2>2, RunStep
<1> QED BY <1>1, <1>2, <1>3, Assemble

LEMMA RestartStep == ASSUME IInv, Restart PROVE IInv' /\ HistoryStep
<1>1. DocTypeOK' /\ DocInv' /\ HistoryStep
  BY DocsStill DEF Restart, IInv, TypeOK
<1>2. CardType' /\ CardInv' /\ (\A e \in done' : Borne(e)') /\ UsedOnce'
  <2>1. \A c \in pending : fate[c] = "made"
    BY WaitingUnused
  <2>2. fate' = [c \in Cards |-> IF c \in pending THEN "made" ELSE fate[c]]
    BY <2>1 DEF Restart, IInv, TypeOK
  <2>3. pending' = pending \ pending /\ Forget(pending) /\ UNCHANGED <<uses, done>>
    BY DEF Restart
  <2> QED BY <1>1, <2>2, <2>3, CardsGone
<1>3. RestType' /\ ReqInv' /\ RunInv'
  BY DEF Restart, IInv, TypeOK, RestType, ReqInv, RunInv, Idle
<1> QED BY <1>1, <1>2, <1>3, Assemble

LEMMA ProposeStep ==
  ASSUME IInv, NEW s \in Sessions, NEW c \in Cards, NEW t \in Texts, Propose(s, c, t)
  PROVE  IInv' /\ HistoryStep
<1>1. DocTypeOK' /\ DocInv' /\ HistoryStep
  BY DocsKept DEF Propose
<1> DEFINE seal == [sess |-> s, text |-> t, view |-> run[s].view]
<1>2. seal \in Seal /\ seal.sess = s /\ seal # NoSeal
  <2>1. run[s] \in Run
    BY WorkingType DEF Propose, At, Idle
  <2>2. run[s].view \in View
    BY <2>1 DEF Propose, Run
  <2>3. seal.view # NoView
    BY DEF Propose
  <2>4. seal # NoSeal
    BY <2>3 DEF NoSeal
  <2> QED BY <2>2, <2>4 DEF Seal
<1> HIDE DEF seal
<1>3. /\ fate[c] = "none" /\ uses[c] = 0 /\ c \notin pending /\ c \notin done
  BY DEF Propose, IInv, UsedOnce, CardInv
<1>4. /\ pending' \subseteq (pending \ CardsOf(s)) \cup {c}
      /\ pending' \subseteq Cards /\ Cardinality(pending') <= MaxPending
  BY EnrolledBound DEF Propose, IInv, TypeOK
<1>5. \A e \in Cards :
        /\ sealed'[e] = IF e = c THEN seal
                        ELSE IF e \in pending \ pending' THEN NoSeal ELSE sealed[e]
        /\ fate'[e] = IF e = c THEN "made" ELSE IF e \in CardsOf(s) THEN "passed" ELSE fate[e]
  BY DEF Propose, seal
<1>6. uses' = uses /\ done' = done /\ reqs' = reqs /\ granted' = granted /\ turns' = turns
  BY DEF Propose
<1>7. \A e \in pending' : \/ e = c
                          \/ /\ e \in pending /\ e # c /\ sealed'[e] = sealed[e]
                             /\ fate'[e] = "made" /\ sealed[e].sess # s
  <2> SUFFICES ASSUME NEW e \in pending', e # c
               PROVE  /\ e \in pending /\ sealed'[e] = sealed[e]
                      /\ fate'[e] = "made" /\ sealed[e].sess # s
    OBVIOUS
  <2>1. e \in pending /\ e \notin CardsOf(s) /\ e \in Cards
    BY <1>4
  <2> QED BY <2>1, <1>5, WaitingUnused DEF CardsOf
<1>8. CardType'
  <2>1. sealed' \in [Cards -> Seal \cup {NoSeal}]
    <3>1. \A e \in Cards : sealed'[e] \in Seal \cup {NoSeal}
      BY <1>2, <1>5 DEF IInv, TypeOK
    <3>2. sealed' = [e \in Cards |-> sealed'[e]]
      BY DEF Propose
    <3> QED BY <3>1, <3>2
  <2>2. fate' \in [Cards -> {"none", "made", "approve", "approve_task", "deny", "passed"}]
    BY DEF Propose, IInv, TypeOK
  <2>3. ASSUME NEW x \in pending', NEW e \in pending', sealed'[x].sess = sealed'[e].sess
        PROVE  x = e
    <3>1. sealed'[c].sess = s
      BY <1>2, <1>5
    <3> QED BY <3>1, <2>3, <1>7 DEF IInv, TypeOK
  <2> QED BY <1>4, <1>6, <2>1, <2>2, <2>3 DEF CardType, IInv, TypeOK
<1>9. CardInv'
  <2> SUFFICES ASSUME NEW e \in Cards
               PROVE  /\ e \in pending' => fate'[e] = "made" /\ sealed'[e] # NoSeal
                      /\ uses[e] = 1 => sealed'[e] # NoSeal
                      /\ fate'[e] = "none" => uses[e] = 0
    BY <1>6 DEF CardInv
  <2>1. e \in pending' => fate'[e] = "made" /\ sealed'[e] # NoSeal
    BY <1>2, <1>5, <1>7 DEF IInv, CardInv
  <2>2. ASSUME uses[e] = 1 PROVE sealed'[e] # NoSeal
    <3>1. e \notin pending /\ e # c
      BY <2>2, <1>3, WaitingUnused
    <3> QED BY <3>1, <2>2, <1>5 DEF IInv, CardInv
  <2>3. fate'[e] = "none" => uses[e] = 0
    BY <1>5 DEF IInv, CardInv
  <2> QED BY <2>1, <2>2, <2>3
<1>10. \A e \in done' : Borne(e)'
  <2>1. \A e \in done : e \in Cards /\ e # c /\ e \notin pending
    BY <1>3, WaitingUnused DEF IInv, TypeOK
  <2> QED BY <2>1, <1>1, <1>5, <1>6, ShownKept
<1>11. UsedOnce'
  <2>1. \A e \in CardsOf(s) : uses[e] = 0
    BY WaitingUnused DEF CardsOf
  <2> QED BY <2>1, <1>3, <1>5, <1>6 DEF IInv, UsedOnce
<1>12. RestType' /\ ReqInv' /\ RunInv'
  <2>1. run' = [run EXCEPT ![s] = Idle] /\ Idle.phase = "idle"
    BY DEF Propose, Idle
  <2>2. done' \subseteq Cards
    BY <1>6 DEF IInv, TypeOK
  <2> QED BY <2>1, <2>2, <1>6, RunStep
<1> QED BY <1>1, <1>8, <1>9, <1>10, <1>11, <1>12, Assemble

\* The document is as it was sealed: what was the latest version is the version that
\* the card was made for, and the edit comes next.
LEMMA EditBorne ==
  ASSUME IInv, NEW c \in Cards, sealed[c] \in Seal, Unchanged(sealed[c].view),
         AiWrite(sealed[c].view.doc, sealed[c].text), sealed'[c] = sealed[c]
  PROVE  Borne(c)'
<1> DEFINE v == sealed[c].view
           d == v.doc
           n == v.version
           e == [text |-> sealed[c].text, by |-> "ai"]
<1>1. d \in Docs /\ n \in 1..MaxVersions /\ sealed[c].text \in Texts /\ e \in Version
  BY DEF Seal, View, Version
<1>2. DocTypeOK /\ DocInv
  BY DEF IInv, TypeOK
<1>3. /\ versions[d] \in Seq(Version) /\ Len(versions[d]) = n
      /\ versions[d][n].text = v.shown
  <2>1. ViewOf(d) = v /\ Exists(d)
    BY DEF Unchanged
  <2>2. ViewOf(d).version = Len(versions[d]) /\ ViewOf(d).shown = Latest(d).text
    BY <1>1, <1>2, <2>1, ViewType
  <2> QED BY <1>1, <1>2, <2>1, <2>2, HistoryType DEF Latest
<1>4. versions'[d] = Append(versions[d], e)
  BY <1>1, <1>2 DEF AiWrite, AddVersion, DocTypeOK
<1> HIDE DEF e, n
<1>5. /\ Len(versions'[d]) = n + 1 /\ versions'[d][n + 1] = e
      /\ \A i \in 1..n : versions'[d][i] = versions[d][i]
  BY <1>1, <1>3, <1>4, AppendProperties, SMTT(30)
<1>6. n \in 1..n /\ n < n + 1
  BY <1>1, DocumentsAssumption
<1>7. versions'[d][n] = versions[d][n]
  BY <1>5, <1>6
<1>8. /\ n < Len(versions'[d])
      /\ versions'[d][n].text = v.shown
      /\ versions'[d][n + 1] = e
  BY <1>3, <1>5, <1>6, <1>7
<1>9. sealed'[c].view = v /\ sealed'[c].text = sealed[c].text
  OBVIOUS
<1>10. LET w == sealed'[c].view
       IN  /\ w.version < Len(versions'[w.doc])
           /\ versions'[w.doc][w.version].text = w.shown
           /\ versions'[w.doc][w.version + 1] = [text |-> sealed'[c].text, by |-> "ai"]
  BY <1>8, <1>9 DEF e, n
<1> QED BY <1>10 DEF Borne, CountOf

LEMMA ExecuteStep ==
  ASSUME IInv, NEW s \in Sessions, Execute(s)
  PROVE  IInv' /\ HistoryStep
<1>0. PICK c \in Cards : c = run[s].card
  BY DEF Execute, At, IInv, RunInv
<1> DEFINE v == sealed[c].view
<1>1. c \in Cards /\ uses[c] = 1 /\ sealed[c] \in Seal /\ run[s] \in Run
  <2>1. run[s].phase = "resuming"
    BY DEF Execute, At
  <2>2. c \in Cards /\ uses[c] = 1
    BY <1>0, <2>1 DEF IInv, RunInv
  <2>3. run[s] # Idle
    BY <2>1 DEF Idle
  <2> QED BY <2>2, <2>3, WorkingType DEF IInv, TypeOK, CardInv
<1>2. UNCHANGED <<cardVars, reqs, granted, turns>>
  BY DEF Execute
<1>3. \/ /\ Unchanged(v) /\ AiWrite(v.doc, sealed[c].text)
         /\ done' = done \cup {c} /\ target' = target
      \/ UNCHANGED <<docVars, done>>
  BY <1>0 DEF Execute
<1>4. DocTypeOK' /\ DocInv' /\ HistoryStep
  <2>1. CASE UNCHANGED docVars
    BY <2>1, DocsKept
  <2>2. CASE Unchanged(v) /\ AiWrite(v.doc, sealed[c].text) /\ target' = target
    <3>1. v.doc \in Docs /\ sealed[c].text \in Texts /\ Exists(v.doc)
      BY <1>1, <2>2 DEF Seal, View, Unchanged
    <3>2. target' \in Docs \cup {NoDoc}
      BY <2>2 DEF IInv, TypeOK, DocTypeOK
    <3> QED BY <2>2, <3>1, <3>2, AiWriteKept DEF IInv, TypeOK
  <2> QED BY <1>3, <2>1, <2>2
<1>5. RestType' /\ ReqInv' /\ RunInv'
  <2> DEFINE new == [run[s] EXCEPT !.phase = "working", !.card = NoCard]
  <2>1. new \in Run /\ new.phase = "working"
    BY <1>1 DEF Run
  <2>2. run' = [run EXCEPT ![s] = new]
    BY <1>1 DEF Execute, Run
  <2>3. done' \subseteq Cards
    BY <1>1, <1>3 DEF IInv, TypeOK
  <2>4. UNCHANGED <<uses, reqs, granted, turns>>
    BY <1>2 DEF cardVars
  <2> HIDE DEF new
  <2> QED BY <2>1, <2>2, <2>3, <2>4, RunStep
<1>6. CardType' /\ CardInv' /\ UsedOnce'
  <2>1. CardType' /\ CardInv'
    BY <1>2 DEF cardVars, IInv, TypeOK, CardType, CardInv
  <2>2. done' = done \/ done' = done \cup {c}
    BY <1>3
  <2> QED BY <1>1, <1>2, <2>1, <2>2 DEF cardVars, IInv, UsedOnce
<1>7. \A e \in done' : Borne(e)'
  <2>1. \A e \in done : Borne(e)'
    BY <1>2, <1>4, ShownKept DEF cardVars
  <2>2. ASSUME c \notin done, c \in done' PROVE Borne(c)'
    <3>1. Unchanged(v) /\ AiWrite(v.doc, sealed[c].text)
      BY <1>3, <2>2
    <3> QED BY <1>1, <1>2, <3>1, EditBorne DEF cardVars
  <2> QED BY <1>3, <2>1, <2>2
<1> QED BY <1>4, <1>5, <1>6, <1>7, Assemble

-----------------------------------------------------------------------------
(* The theorems. *)

LEMMA StepInv == ASSUME IInv, Next PROVE IInv' /\ HistoryStep
<1>1. CASE Editing
  BY <1>1, EditingStep
<1>2. CASE Requests
  BY <1>2, SendStep, RespondStep, BeginStep DEF Requests
<1>3. CASE Agent
  BY <1>3, ArmStep, ExecuteStep, EndRunStep, WriteStep, ComposeStep, ProposeStep DEF Agent
<1>4. CASE Restart
  BY <1>4, RestartStep
<1>5. CASE \E c \in Cards : Expire(c)
  BY <1>5, ExpireStep
<1> QED BY <1>1, <1>2, <1>3, <1>4, <1>5 DEF Next

\* The invariant holds in every state of the specification.
LEMMA Invariance == Spec => []IInv
<1>1. Init => IInv
  BY InitInv
<1>2. IInv /\ [Next]_vars => IInv'
  BY StepInv, StillStep
<1> QED BY <1>1, <1>2, PTL DEF Spec

\* Types, one waiting card per chat and a registry within its maximum, for any number
\* of documents, chats, cards and messages (tool_approvals.py:399-423).
THEOREM TypeCorrect == Spec => []TypeOK
<1>1. IInv => TypeOK
  BY DEF IInv
<1> QED BY <1>1, Invariance, PTL

\* An approved edit is executed on the text it was made for, or not at all, and the
\* document's history shows it for ever (document_tools.py:84-110).
THEOREM ApprovedEditsBorneOut == Spec => []ShownIsEdited
<1>1. IInv => ShownIsEdited
  BY DEF IInv
<1> QED BY <1>1, Invariance, PTL

\* No step takes a version away or rewrites one, except the user's latest
\* (document_routes.py:660-690).
THEOREM HistoriesKept == Spec => HistoryKept
<1>1. IInv /\ [Next]_vars => [HistoryStep]_docVars
  <2>1. ASSUME IInv, Next PROVE HistoryStep
    BY <2>1, StepInv
  <2>2. UNCHANGED vars => UNCHANGED docVars
    BY DEF vars
  <2> QED BY <2>1, <2>2
<1>2. [HistoryStep]_docVars <=>
        [\A d \in Docs :
           /\ CountOf(d) <= Len(versions'[d])
           /\ \A i \in 1..CountOf(d) :
                \/ /\ versions'[d][i].text = versions[d][i].text
                   /\ versions'[d][i].by = versions[d][i].by
                \/ /\ i = CountOf(d) /\ Len(versions'[d]) = i
                   /\ versions[d][i].by = "user" /\ versions'[d][i].by = "user"
           /\ versions'[d] # <<>> => content'[d] = versions'[d][Len(versions'[d])].text]_docVars
  BY DEF HistoryStep
<1> QED BY <1>1, <1>2, Invariance, PTL DEF Spec, HistoryKept

-----------------------------------------------------------------------------
(* An approval has one holder. *)

\* An approved card is held by one request or by the one run that came of it, and by
\* none once its edit was executed.
CarryInv ==
  /\ \A r, q \in reqs : r.card = q.card /\ r.card # NoCard => r = q
  /\ \A s, x \in Sessions :
       At(s, "resuming") /\ At(x, "resuming") /\ run[s].card = run[x].card => s = x
  /\ \A r \in reqs, s \in Sessions : At(s, "resuming") => run[s].card # r.card
  /\ \A c \in done : ~Carried(c)

LEMMA CardsAreNumbered == \A c \in Cards : c # NoCard
BY ApprovalsAssumption DEF Cards, NoCard

\* An approval that somebody holds has been used.
LEMMA CarriedUsed ==
  ASSUME IInv, NEW c \in Cards, Carried(c) PROVE uses[c] = 1
BY CardsAreNumbered DEF IInv, ReqInv, RunInv, Carried, At

\* No request or run takes up an approval.
LEMMA CarryShrinks ==
  ASSUME IInv, CarryInv, done' = done,
         \A r \in reqs' : r \in reqs \/ r.card = NoCard,
         \A s \in Sessions : At(s, "resuming")' =>
                               At(s, "resuming") /\ run'[s].card = run[s].card
  PROVE  CarryInv' /\ \A c \in Cards : Carried(c)' => Carried(c)
<1>1. \A c \in Cards : Carried(c)' => Carried(c)
  BY CardsAreNumbered DEF Carried
<1>2. \A s \in Sessions : At(s, "resuming") => run[s].card # NoCard
  BY CardsAreNumbered DEF IInv, RunInv, At
<1>3. \A c \in done' : ~Carried(c)'
  BY <1>1 DEF CarryInv, IInv, TypeOK
<1>4. \A r, q \in reqs' : r.card = q.card /\ r.card # NoCard => r = q
  BY DEF CarryInv
<1>5. \A s, x \in Sessions : At(s, "resuming")' /\ At(x, "resuming")'
                               /\ run'[s].card = run'[x].card => s = x
  BY DEF CarryInv
<1>6. \A r \in reqs', s \in Sessions : At(s, "resuming")' => run'[s].card # r.card
  BY <1>2 DEF CarryInv
<1> QED BY <1>1, <1>3, <1>4, <1>5, <1>6 DEF CarryInv

\* The approval of a waiting card, which nobody holds, starts one request.
LEMMA ApproveCarry ==
  ASSUME IInv, CarryInv, NEW c \in pending, NEW r, r.card = c,
         reqs' = reqs \cup {r}, run' = run, done' = done
  PROVE  /\ CarryInv' /\ Carried(c)'
         /\ \A e \in Cards \ {c} : Carried(e)' <=> Carried(e)
<1>1. c \in Cards /\ c \notin done /\ ~Carried(c)
  BY WaitingUnused, CarriedUsed
<1>2. \A q \in reqs : q.card # c
  BY <1>1 DEF Carried
<1>3. \A s \in Sessions : At(s, "resuming") => run[s].card # c
  BY <1>1 DEF Carried
<1>4. \A s \in Sessions : At(s, "resuming")' <=> At(s, "resuming")
  BY DEF At
<1>5. Carried(c)' /\ \A e \in Cards \ {c} : Carried(e)' <=> Carried(e)
  BY <1>4 DEF Carried
<1>6. \A e \in done' : ~Carried(e)'
  BY <1>1, <1>5 DEF CarryInv, IInv, TypeOK
<1> QED BY <1>2, <1>3, <1>4, <1>5, <1>6 DEF CarryInv

\* A run takes over the approval of its request.
LEMMA BeginCarry ==
  ASSUME IInv, CarryInv, NEW r \in reqs, NEW d \in Docs \cup {NoDoc}, NEW about \in BOOLEAN,
         Begin(r, d, about)
  PROVE  CarryInv' /\ \A c \in Cards : Carried(c)' => Carried(c)
<1>1. r.sess \in Sessions /\ reqs' = reqs \ {r} /\ done' = done
  BY DEF Begin, IInv, TypeOK, Request
<1>2. At(r.sess, "resuming")' => run'[r.sess].card = r.card /\ r.card # NoCard
  BY <1>1 DEF Begin, At, IInv, TypeOK
<1>3. \A s \in Sessions \ {r.sess} : /\ At(s, "resuming")' <=> At(s, "resuming")
                                     /\ run'[s].card = run[s].card
  <2>1. \A s \in Sessions \ {r.sess} : run'[s] = run[s]
    BY <1>1 DEF Begin, IInv, TypeOK
  <2> QED BY <2>1 DEF At
<1>4. \A c \in Cards : Carried(c)' => Carried(c)
  BY <1>1, <1>2, <1>3 DEF Carried
<1>5. \A c \in done' : ~Carried(c)'
  BY <1>1, <1>4 DEF CarryInv, IInv, TypeOK
<1>6. \A s, x \in Sessions : At(s, "resuming")' /\ At(x, "resuming")'
                               /\ run'[s].card = run'[x].card => s = x
  BY <1>2, <1>3 DEF CarryInv
<1>7. \A q \in reqs', s \in Sessions : At(s, "resuming")' => run'[s].card # q.card
  BY <1>1, <1>2, <1>3 DEF CarryInv
<1> QED BY <1>1, <1>4, <1>5, <1>6, <1>7 DEF CarryInv

\* A run executes or gives up its approval, and nobody is left to do so again.
LEMMA ExecuteCarry ==
  ASSUME IInv, CarryInv, NEW s \in Sessions, Execute(s)
  PROVE  /\ CarryInv' /\ Carried(run[s].card)
         /\ \A c \in Cards : Carried(c)' => Carried(c)
         /\ \A c \in Cards \ {run[s].card} : Carried(c)' <=> Carried(c)
<1>0. PICK c \in Cards : c = run[s].card
  BY DEF Execute, At, IInv, RunInv
<1>1. c \in Cards /\ At(s, "resuming") /\ reqs' = reqs
  BY DEF Execute
<1>2. done' = done \/ done' = done \cup {c}
  BY <1>0 DEF Execute, docVars
<1>3. ~At(s, "resuming")'
  <2>1. run'[s].phase = "working"
    <3>1. run[s] \in Run
      BY <1>1, WorkingType DEF At, Idle
    <3>2. run'[s] = [run[s] EXCEPT !.phase = "working", !.card = NoCard]
      BY DEF Execute, IInv, TypeOK
    <3> QED BY <3>1, <3>2 DEF Run
  <2> QED BY <2>1 DEF At
<1>4. \A x \in Sessions \ {s} : /\ At(x, "resuming")' <=> At(x, "resuming")
                                /\ run'[x].card = run[x].card
  <2>1. \A x \in Sessions \ {s} : run'[x] = run[x]
    BY DEF Execute, IInv, TypeOK
  <2> QED BY <2>1 DEF At
<1>5. Carried(c)
  BY <1>0, <1>1 DEF Carried
<1>6. \A e \in Cards : Carried(e)' => Carried(e)
  BY <1>0, <1>1, <1>3, <1>4 DEF Carried
<1>7. \A e \in Cards \ {c} : Carried(e)' <=> Carried(e)
  BY <1>0, <1>1, <1>3, <1>4 DEF Carried
<1>8. ~Carried(c)'
  <2>1. \A q \in reqs : q.card # c
    BY <1>0, <1>1 DEF CarryInv
  <2>2. \A x \in Sessions \ {s} : At(x, "resuming") => run[x].card # c
    BY <1>0, <1>1 DEF CarryInv
  <2>3. \A x \in Sessions : ~(At(x, "resuming")' /\ run'[x].card = c)
    BY <1>3, <1>4, <2>2
  <2>4. Carried(c)' <=> \/ \E q \in reqs' : q.card = c
                       \/ \E x \in Sessions : At(x, "resuming")' /\ run'[x].card = c
    BY DEF Carried
  <2> QED BY <1>1, <2>1, <2>3, <2>4
<1>9. \A e \in done' : ~Carried(e)'
  <2>1. \A e \in done : e \in Cards /\ ~Carried(e)
    BY DEF CarryInv, IInv, TypeOK
  <2> QED BY <1>2, <1>6, <1>8, <2>1
<1>10. \A x, y \in Sessions : At(x, "resuming")' /\ At(y, "resuming")'
                                /\ run'[x].card = run'[y].card => x = y
  BY <1>3, <1>4 DEF CarryInv
<1>11. \A q \in reqs', x \in Sessions : At(x, "resuming")' => run'[x].card # q.card
  BY <1>1, <1>3, <1>4 DEF CarryInv
<1>12. CarryInv'
  BY <1>1, <1>9, <1>10, <1>11 DEF CarryInv
<1> QED BY <1>0, <1>5, <1>6, <1>7, <1>12

\* A step that changes one run only, which was and is no resuming one.
LEMMA RunsOnly ==
  ASSUME IInv, NEW s \in Sessions,
         \/ Arm(s) \/ EndRun(s)
         \/ \E d \in Docs, t \in Texts : Compose(s, d, t)
         \/ \E c \in Cards, t \in Texts : Propose(s, c, t)
  PROVE  /\ done' = done /\ reqs' = reqs
         /\ ~At(s, "resuming")'
         /\ \A x \in Sessions : At(x, "resuming")' =>
                                  At(x, "resuming") /\ run'[x].card = run[x].card
         /\ At(s, "working") =>
              \A x \in Sessions : At(x, "resuming") =>
                                    At(x, "resuming")' /\ run'[x].card = run[x].card
<1>1. PICK new \in Run \cup {Idle} : run' = [run EXCEPT ![s] = new] /\ new.phase # "resuming"
  <2>1. CASE EndRun(s) \/ \E c \in Cards, t \in Texts : Propose(s, c, t)
    BY <2>1 DEF EndRun, Propose, Idle
  <2>2. CASE Arm(s) \/ \E d \in Docs, t \in Texts : Compose(s, d, t)
    <3>1. run[s] \in Run /\ run[s].phase = "working"
      BY <2>2, WorkingType DEF Arm, Compose, At, Idle
    <3>2. CASE Arm(s)
      <4> DEFINE new == [run[s] EXCEPT !.armed = TRUE]
      <4>1. run' = [run EXCEPT ![s] = new]
        BY <3>2 DEF Arm
      <4>2. new \in Run /\ new.phase = "working"
        BY <3>1 DEF Run
      <4> HIDE DEF new
      <4> QED BY <4>1, <4>2
    <3>3. ASSUME NEW d \in Docs, NEW t \in Texts, Compose(s, d, t)
          PROVE  \E new \in Run : run' = [run EXCEPT ![s] = new] /\ new.phase = "working"
      <4> DEFINE new == [run[s] EXCEPT !.own = run[s].own \cup {d}]
      <4>1. run' = [run EXCEPT ![s] = new]
        BY <3>3 DEF Compose
      <4>2. new \in Run /\ new.phase = "working"
        BY <3>1 DEF Run
      <4> HIDE DEF new
      <4> QED BY <4>1, <4>2
    <3> QED BY <2>2, <3>2, <3>3
  <2> QED BY <2>1, <2>2
<1>2. done' = done /\ reqs' = reqs
  BY DEF Arm, EndRun, Compose, Propose
<1>3. run'[s].phase # "resuming" /\ \A x \in Sessions \ {s} : run'[x] = run[x]
  BY <1>1 DEF IInv, TypeOK
<1>4. At(s, "working") => ~At(s, "resuming")
  BY DEF At
<1> QED BY <1>2, <1>3, <1>4 DEF At

\* No step gives an approval a second holder.
LEMMA CarryStep == ASSUME IInv, CarryInv, [Next]_vars PROVE CarryInv'
<1>1. ASSUME done' = done,
             \A r \in reqs' : r \in reqs \/ r.card = NoCard,
             \A s \in Sessions : At(s, "resuming")' =>
                                   At(s, "resuming") /\ run'[s].card = run[s].card
      PROVE  CarryInv'
  BY <1>1, CarryShrinks
<1>2. CASE Editing \/ UNCHANGED vars \/ (\E c \in Cards : Expire(c))
           \/ (\E s \in Sessions, d \in Docs, t \in Texts : Write(s, d, t))
  BY <1>1, <1>2 DEF Editing, Expire, Write, vars, runVars, At
<1>3. CASE Restart
  BY <1>1, <1>3 DEF Restart, At, Idle
<1>4. ASSUME NEW s \in Sessions, NEW d \in Docs \cup {NoDoc}, Send(s, d) PROVE CarryInv'
  BY <1>1, <1>4 DEF Send, At
<1>5. ASSUME NEW c \in Cards, NEW s \in Sessions,
             NEW decision \in {"approve", "approve_task", "deny"}, Respond(c, s, decision)
      PROVE  CarryInv'
  <2>1. CASE decision = "deny"
    BY <1>1, <1>5, <2>1 DEF Respond, At
  <2>2. CASE decision # "deny"
    <3> DEFINE r == [sess |-> s, doc |-> sealed[c].view.doc, card |-> c, armed |-> TRUE]
    <3>1. c \in pending /\ reqs' = reqs \cup {r} /\ run' = run /\ done' = done /\ r.card = c
      BY <1>5, <2>2 DEF Respond
    <3> HIDE DEF r
    <3> QED BY <3>1, ApproveCarry
  <2> QED BY <2>1, <2>2
<1>6. ASSUME NEW s \in Sessions,
             \/ Arm(s) \/ EndRun(s)
             \/ \E d \in Docs, t \in Texts : Compose(s, d, t)
             \/ \E c \in Cards, t \in Texts : Propose(s, c, t)
      PROVE  CarryInv'
  BY <1>1, <1>6, RunsOnly
<1> QED
  BY <1>2, <1>3, <1>4, <1>5, <1>6, BeginCarry, ExecuteCarry DEF Next, Requests, Agent

LEMMA CarryInvariance == Spec => [](IInv /\ CarryInv)
<1>1. Init => CarryInv
  BY DEF Init, CarryInv, Idle, At
<1>2. IInv /\ CarryInv /\ [Next]_vars => CarryInv'
  BY CarryStep
<1> QED BY <1>1, <1>2, Invariance, PTL DEF Spec

-----------------------------------------------------------------------------
(* The refinement of SealedEdits. *)

\* A card is in one phase only.
LEMMA LifeFacts ==
  ASSUME IInv, CarryInv, NEW c \in Cards
  PROVE  /\ Life(c) = "none" <=> fate[c] = "none"
         /\ Life(c) = "waiting" <=> c \in pending
         /\ Life(c) = "executed" <=> c \in done
         /\ Life(c) = "approved" <=> Carried(c)
<1>1. c \in pending => fate[c] # "none" /\ c \notin done /\ uses[c] # 1
  BY WaitingUnused
<1>2. c \in done => uses[c] = 1 /\ ~Carried(c)
  BY DEF IInv, UsedOnce, CarryInv
<1>3. Carried(c) => uses[c] = 1
  BY CarriedUsed
<1>4. uses[c] = 1 => fate[c] # "none"
  BY DEF IInv, UsedOnce
<1> QED BY <1>1, <1>2, <1>3, <1>4 DEF Life

LEMMA SealTyped == ASSUME IInv' PROVE Sealing!Typed
<1>1. \A c \in Cards : Life(c)' \in Sealing!Phases
  BY DEF Life, Sealing!Phases
<1>2. DOMAIN sealed' = Cards
  BY DEF IInv, TypeOK
<1> QED BY <1>1, <1>2 DEF Sealing!Typed

\* Where nobody's hold on a card changes, its phase depends on the registry alone.
LEMMA LifeSame ==
  ASSUME NEW c \in Cards, fate[c] = "none" <=> fate'[c] = "none",
         c \in pending' <=> c \in pending, c \in done' <=> c \in done,
         Carried(c)' <=> Carried(c)
  PROVE  Life(c)' = Life(c)
BY DEF Life

\* A step that makes no card, approves none and executes none.
LEMMA CloseStep ==
  ASSUME IInv, CarryInv, IInv', UNCHANGED <<versions, done>>,
         \A c \in Cards : /\ fate[c] = "none" <=> fate'[c] = "none"
                          /\ c \in pending' => c \in pending
                          /\ Carried(c)' => Carried(c)
                          /\ sealed'[c] = sealed[c] \/ c \in pending \ pending'
  PROVE  Sealing!Close
<1>1. ASSUME NEW c \in Cards
      PROVE  \/ Life(c)' = Life(c) /\ sealed'[c] = sealed[c]
             \/ Life(c) \in {"waiting", "approved"} /\ Life(c)' = "closed"
  <2>1. CASE c \in pending /\ c \notin pending'
    <3>1. Life(c) = "waiting" /\ fate'[c] # "none" /\ c \notin done' /\ ~Carried(c)
      BY <2>1, WaitingUnused, CarriedUsed
         DEF Life
    <3>2. Life(c)' = "closed"
      BY <2>1, <3>1 DEF Life
    <3> QED BY <3>1, <3>2
  <2>2. CASE c \in pending' <=> c \in pending
    <3>1. sealed'[c] = sealed[c]
      BY <2>2
    <3>2. CASE Carried(c) /\ ~Carried(c)'
      <4>1. Life(c) = "approved"
        BY <3>2, LifeFacts
      <4>2. Life(c)' = "closed"
        BY <2>2, <3>2, <4>1 DEF Life
      <4> QED BY <4>1, <4>2
    <3>3. CASE Carried(c)' <=> Carried(c)
      BY <2>2, <3>1, <3>3, LifeSame
    <3> QED BY <3>2, <3>3
  <2> QED BY <2>1, <2>2
<1>2. \A c \in Cards : Sealing!Shut(c, {"waiting", "approved"})
  BY <1>1 DEF Sealing!Shut
<1>3. Sealing!Typed
  BY SealTyped
<1> QED BY <1>2, <1>3 DEF Sealing!Close

\* A step that leaves the cards and their holders alone.
LEMMA CardsAlone ==
  ASSUME UNCHANGED <<pending, fate, sealed, reqs, done>>,
         \A s \in Sessions : /\ At(s, "resuming")' <=> At(s, "resuming")
                             /\ At(s, "resuming") => run'[s].card = run[s].card
  PROVE  [c \in Cards |-> Life(c)]' = [c \in Cards |-> Life(c)]
<1>1. \A c \in Cards : Carried(c)' <=> Carried(c)
  BY DEF Carried
<1> QED BY <1>1, LifeSame

\* A new version by anybody is an edit.
LEMMA AddEdit ==
  ASSUME NEW d \in Docs, NEW t \in Texts, NEW by \in {"user", "ai"}, AddVersion(d, t, by),
         [c \in Cards |-> Life(c)]' = [c \in Cards |-> Life(c)], sealed' = sealed
  PROVE  Sealing!Edit(d)
BY DEF AddVersion, Sealing!Edit

LEMMA UserEdit ==
  ASSUME IInv, UserStep,
         [c \in Cards |-> Life(c)]' = [c \in Cards |-> Life(c)], sealed' = sealed
  PROVE  (\E d \in Docs : Sealing!Edit(d)) \/ versions' = versions
<1>1. PICK d \in Docs :
        \/ \E t \in Texts : Create(d, t, "user") \/ Extract(d, t)
        \/ \E t \in Texts, force \in BOOLEAN : Save(d, t, force)
        \/ \E n \in 1..MaxVersions : Restore(d, n)
        \/ SoftDelete(d) \/ Detach(d) \/ Tidy(d) \/ Age(d)
  BY DEF UserStep
<1>2. CASE \E t \in Texts : Create(d, t, "user") \/ Extract(d, t)
  BY <1>2, AddEdit DEF Create, Extract, AiWrite
<1>3. ASSUME NEW t \in Texts, NEW force \in BOOLEAN, Save(d, t, force) PROVE Sealing!Edit(d)
  <2>1. CASE AddVersion(d, t, "user")
    BY <2>1, AddEdit
  <2>2. CASE ~AddVersion(d, t, "user")
    <3>1. Exists(d) /\ Latest(d).by = "user"
          /\ versions' = [versions EXCEPT ![d][Len(versions[d])].text = t]
      BY <1>3, <2>2 DEF Save, Coalesces, CountOf
    <3>2. versions[d] # <<>>
      <4>1. Len(versions[d]) # 0
        BY <3>1 DEF IInv, TypeOK, DocTypeOK, Exists, CountOf
      <4> QED BY <4>1
    <3> QED BY <3>1, <3>2 DEF Sealing!Edit, Latest
  <2> QED BY <2>1, <2>2
<1>4. ASSUME NEW n \in 1..MaxVersions, Restore(d, n) PROVE Sealing!Edit(d)
  <2>1. n \in 1..Len(versions[d]) /\ AddVersion(d, versions[d][n].text, "user")
    BY <1>4 DEF Restore, CountOf
  <2>2. versions[d][n].text \in Texts
    <3>1. versions[d][n] \in Version
      BY <2>1, HistoryType, ElementOfSeq DEF IInv, TypeOK
    <3> QED BY <3>1 DEF Version
  <2> QED BY <2>1, <2>2, AddEdit
<1>5. CASE SoftDelete(d) \/ Detach(d) \/ Tidy(d) \/ Age(d)
  BY <1>5 DEF SoftDelete, Detach, Tidy, Age
<1> QED BY <1>1, <1>2, <1>3, <1>4, <1>5

LEMMA ProposeSeals ==
  ASSUME IInv, CarryInv, IInv', NEW s \in Sessions, NEW c \in Cards, NEW t \in Texts,
         Propose(s, c, t)
  PROVE  Sealing!Propose(c)
<1>1. /\ UNCHANGED <<versions, done>>
      /\ \A e \in Cards : Carried(e)' <=> Carried(e)
  <2>1. /\ done' = done /\ reqs' = reqs
        /\ \A x \in Sessions : At(x, "resuming")' =>
                                 At(x, "resuming") /\ run'[x].card = run[x].card
        /\ \A x \in Sessions : At(x, "resuming") =>
                                 At(x, "resuming")' /\ run'[x].card = run[x].card
    <3>1. At(s, "working")
      BY DEF Propose
    <3> QED BY <3>1, RunsOnly
  <2> QED BY <2>1 DEF Propose, docVars, Carried
<1>2. fate[c] = "none" /\ c \in pending' /\ pending' \subseteq (pending \ CardsOf(s)) \cup {c}
  BY EnrolledBound DEF Propose, IInv, TypeOK
<1>3. \A e \in Cards :
        /\ sealed'[e] = IF e = c THEN [sess |-> s, text |-> t, view |-> run[s].view]
                        ELSE IF e \in pending \ pending' THEN NoSeal ELSE sealed[e]
        /\ fate'[e] = IF e = c THEN "made" ELSE IF e \in CardsOf(s) THEN "passed" ELSE fate[e]
  BY DEF Propose
<1>4. Life(c) = "none" /\ Life(c)' = "waiting" /\ sealed'[c] # NoSeal
  <2>1. Life(c)' = "waiting"
    BY <1>2, <1>3 DEF Life
  <2> QED BY <1>2, <2>1 DEF Life, IInv, CardInv
<1>5. ASSUME NEW e \in Cards \ {c} PROVE Sealing!Shut(e, {"waiting"})
  <2>1. CASE e \in pending /\ e \notin pending'
    <3>1. Life(e) = "waiting" /\ fate'[e] # "none" /\ e \notin done' /\ ~Carried(e)'
      BY <1>1, <1>3, <2>1, WaitingUnused, CarriedUsed DEF Life
    <3> QED BY <2>1, <3>1 DEF Life, Sealing!Shut
  <2>2. CASE ~(e \in pending /\ e \notin pending')
    <3>1. (e \in pending' <=> e \in pending) /\ sealed'[e] = sealed[e]
      BY <1>2, <1>3, <2>2
    <3>2. fate'[e] = "none" <=> fate[e] = "none"
      <4>1. \A x \in CardsOf(s) : fate[x] # "none"
        BY WaitingUnused DEF CardsOf
      <4> QED BY <1>3, <4>1
    <3>3. Life(e)' = Life(e)
      BY <1>1, <3>1, <3>2, LifeSame
    <3> QED BY <3>1, <3>3 DEF Sealing!Shut
  <2> QED BY <2>1, <2>2
<1>6. Sealing!Typed
  BY SealTyped
<1> QED BY <1>1, <1>4, <1>5, <1>6 DEF Sealing!Propose

LEMMA RespondSeals ==
  ASSUME IInv, CarryInv, IInv', NEW c \in Cards, NEW s \in Sessions,
         NEW decision \in {"approve", "approve_task", "deny"}, Respond(c, s, decision)
  PROVE  Sealing!Close \/ Sealing!Approve(c)
<1>1. /\ c \in pending /\ pending' = pending \ {c} /\ fate' = [fate EXCEPT ![c] = decision]
      /\ UNCHANGED <<versions, run, done>>
  BY DEF Respond, Consumed, docVars
<1>2. /\ fate[c] = "made" /\ fate'[c] = decision /\ c \notin done
      /\ \A e \in Cards \ {c} : fate'[e] = fate[e]
  BY <1>1, WaitingUnused DEF IInv, TypeOK
<1>3. CASE decision = "deny"
  <2>1. reqs' = reqs /\ \A e \in Cards \ {c} : sealed'[e] = sealed[e]
    BY <1>3 DEF Respond, Forget
  <2>2. \A e \in Cards : Carried(e)' => Carried(e)
    BY <1>1, <2>1 DEF Carried, At
  <2>3. \A e \in Cards : fate[e] = "none" <=> fate'[e] = "none"
    BY <1>2
  <2>4. \A e \in Cards : sealed'[e] = sealed[e] \/ e \in pending \ pending'
    BY <1>1, <2>1
  <2>5. Sealing!Close
    BY <1>1, <2>2, <2>3, <2>4, CloseStep
  <2> QED BY <2>5
<1>4. CASE decision # "deny"
  <2> DEFINE r == [sess |-> s, doc |-> sealed[c].view.doc, card |-> c, armed |-> TRUE]
  <2>1. sealed' = sealed /\ reqs' = reqs \cup {r} /\ r.card = c
    BY <1>4 DEF Respond
  <2> HIDE DEF r
  <2>2. Carried(c)' /\ \A e \in Cards \ {c} : Carried(e)' <=> Carried(e)
    BY <1>1, <2>1, ApproveCarry
  <2>3. Life(c) = "waiting" /\ Life(c)' = "approved"
    <3>1. c \notin pending' /\ c \notin done' /\ fate'[c] # "none"
      BY <1>1, <1>2
    <3> QED BY <1>1, <1>2, <2>2, <3>1 DEF Life
  <2>4. \A e \in Cards \ {c} : Life(e)' = Life(e)
    BY <1>1, <1>2, <2>2, LifeSame
  <2>5. [e \in Cards |-> Life(e)]' = [[e \in Cards |-> Life(e)] EXCEPT ![c] = "approved"]
    BY <2>3, <2>4
  <2> QED BY <1>1, <2>1, <2>3, <2>5 DEF Sealing!Approve
<1> QED BY <1>3, <1>4

\* An edit that is executed finds the state of the document it was sealed with.
LEMMA ExecuteSeals ==
  ASSUME IInv, CarryInv, IInv', NEW s \in Sessions, Execute(s)
  PROVE  Sealing!Close \/ \E c \in Cards : Sealing!Execute(c)
<1>0. PICK c \in Cards : c = run[s].card
  BY DEF Execute, At, IInv, RunInv
<1> DEFINE v == sealed[c].view
<1>1. /\ Carried(c)
      /\ \A e \in Cards : Carried(e)' => Carried(e)
      /\ \A e \in Cards \ {c} : Carried(e)' <=> Carried(e)
  BY <1>0, ExecuteCarry
<1>2. UNCHANGED <<pending, sealed, fate>>
  BY DEF Execute, cardVars
<1>3. CASE ~Unchanged(v)
  <2>1. UNCHANGED <<versions, done>>
    BY <1>0, <1>3 DEF Execute, docVars
  <2>2. Sealing!Close
    BY <1>1, <1>2, <2>1, CloseStep
  <2> QED BY <2>2
<1>4. CASE Unchanged(v)
  <2>1. AiWrite(v.doc, sealed[c].text) /\ done' = done \cup {c}
    BY <1>0, <1>4 DEF Execute
  <2>2. Life(c) = "approved" /\ fate[c] # "none" /\ c \notin pending
    BY <1>1, LifeFacts
  <2>3. Life(c)' = "executed"
    BY <1>2, <2>1, <2>2 DEF Life
  <2>4. \A e \in Cards \ {c} : Life(e)' = Life(e)
    BY <1>1, <1>2, <2>1, LifeSame
  <2>5. [e \in Cards |-> Life(e)]' = [[e \in Cards |-> Life(e)] EXCEPT ![c] = "executed"]
    BY <2>3, <2>4
  <2>6. v.doc \in Docs /\ Exists(v.doc) /\ ViewOf(v.doc) = v
    <3>1. sealed[c] \in Seal
      BY <1>1, CarriedUsed DEF IInv, TypeOK, CardInv
    <3> QED BY <1>4, <3>1 DEF Seal, View, Unchanged
  <2>7. Len(versions[v.doc]) = v.version /\ versions[v.doc][v.version].text = v.shown
    BY <2>6, ViewType DEF IInv, TypeOK, Latest
  <2>8. versions' = [versions EXCEPT ![v.doc] =
                       Append(versions[v.doc], [text |-> sealed[c].text, by |-> "ai"])]
    BY <2>1 DEF AiWrite, AddVersion
  <2>9. Sealing!Execute(c)
    BY <1>2, <2>2, <2>5, <2>7, <2>8 DEF Sealing!Execute
  <2> QED BY <2>9
<1> QED BY <1>3, <1>4

\* The approvals implement sealed edits: a card goes from waiting to approved to
\* executed and never back, and its edit is a compare-and-swap on the document
\* (tool_approvals.py:399-513, document_tools.py:84-110).
THEOREM SealedEditsImplemented == Spec => ImplementsSealedEdits
<1>1. Init => Sealing!EInit
  BY DEF Init, DocInit, Sealing!EInit, Life
<1>2. /\ IInv /\ CarryInv /\ IInv' /\ [Next]_vars => [Sealing!ENext]_(Sealing!evars)
  <2> SUFFICES ASSUME IInv, CarryInv, IInv', [Next]_vars
               PROVE  Sealing!ENext \/ UNCHANGED Sealing!evars
    OBVIOUS
  <2>1. ASSUME UNCHANGED <<versions, done>>,
               \A c \in Cards : /\ fate[c] = "none" <=> fate'[c] = "none"
                                /\ c \in pending' => c \in pending
                                /\ sealed'[c] = sealed[c] \/ c \in pending \ pending',
               \A r \in reqs' : r \in reqs \/ r.card = NoCard,
               \A s \in Sessions : At(s, "resuming")' =>
                                     At(s, "resuming") /\ run'[s].card = run[s].card
        PROVE  Sealing!ENext
    BY <2>1, CarryShrinks, CloseStep DEF Sealing!ENext
  <2>2. ASSUME UNCHANGED <<pending, fate, sealed, reqs, done>>,
               \A s \in Sessions : /\ At(s, "resuming")' <=> At(s, "resuming")
                                   /\ At(s, "resuming") => run'[s].card = run[s].card
        PROVE  [c \in Cards |-> Life(c)]' = [c \in Cards |-> Life(c)]
    BY <2>2, CardsAlone
  <2>3. CASE UNCHANGED vars \/ Editing
    <3>1. UNCHANGED <<pending, fate, sealed, reqs, done, run>>
      BY <2>3 DEF vars, Editing, cardVars, runVars
    <3>2. [c \in Cards |-> Life(c)]' = [c \in Cards |-> Life(c)]
      BY <2>2, <3>1 DEF At
    <3>3. CASE versions' = versions
      BY <3>1, <3>2, <3>3 DEF Sealing!evars
    <3>4. CASE versions' # versions
      <4>1. UserStep
        BY <2>3, <3>4 DEF vars, docVars, Editing
      <4> QED BY <3>1, <3>2, <3>4, <4>1, UserEdit DEF Sealing!ENext
    <3> QED BY <3>3, <3>4
  <2>4. ASSUME NEW c \in Cards, Expire(c) PROVE Sealing!ENext
    <3>1. UNCHANGED <<versions, done, fate, reqs, run>> /\ pending' \subseteq pending
          /\ \A e \in Cards : sealed'[e] = sealed[e] \/ e \in pending \ pending'
      BY <2>4 DEF Expire, Forget, docVars, runVars
    <3> QED BY <2>1, <3>1 DEF At
  <2>5. CASE Restart
    <3>1. UNCHANGED <<versions, done, fate>> /\ pending' = {} /\ reqs' = {}
          /\ \A e \in Cards : sealed'[e] = sealed[e] \/ e \in pending \ pending'
      BY <2>5 DEF Restart, Forget
    <3>2. \A s \in Sessions : ~At(s, "resuming")'
      BY <2>5 DEF Restart, At, Idle
    <3> QED BY <2>1, <3>1, <3>2
  <2>6. ASSUME NEW s \in Sessions, NEW d \in Docs \cup {NoDoc}, Send(s, d)
        PROVE  Sealing!ENext
    <3>1. UNCHANGED <<versions, done, run>> /\ pending' \subseteq pending
          /\ (\A r \in reqs' : r \in reqs \/ r.card = NoCard)
          /\ \A e \in Cards : sealed'[e] = sealed[e] \/ e \in pending \ pending'
      BY <2>6 DEF Send, Forget, docVars, CardsOf
    <3>2. \A e \in Cards : fate[e] = "none" <=> fate'[e] = "none"
      <4>1. \A e \in CardsOf(s) : fate[e] # "none"
        BY WaitingUnused DEF CardsOf
      <4> QED BY <2>6, <4>1 DEF Send
    <3> QED BY <2>1, <3>1, <3>2 DEF At
  <2>7. ASSUME NEW c \in Cards, NEW s \in Sessions,
               NEW decision \in {"approve", "approve_task", "deny"}, Respond(c, s, decision)
        PROVE  Sealing!ENext
    BY <2>7, RespondSeals DEF Sealing!ENext
  <2>8. ASSUME NEW r \in reqs, NEW d \in Docs \cup {NoDoc}, NEW about \in BOOLEAN,
               Begin(r, d, about)
        PROVE  Sealing!ENext
    <3>1. UNCHANGED <<versions, pending, fate, sealed, done>>
      BY <2>8 DEF Begin, cardVars
    <3>2. \A c \in Cards : Carried(c)' => Carried(c)
      BY <2>8, BeginCarry
    <3>3. Sealing!Close
      BY <3>1, <3>2, CloseStep
    <3> QED BY <3>3 DEF Sealing!ENext
  <2>9. ASSUME NEW s \in Sessions, Arm(s) \/ EndRun(s) PROVE Sealing!ENext
    <3>1. UNCHANGED <<versions, pending, fate, sealed>>
      BY <2>9 DEF Arm, EndRun, docVars, cardVars
    <3> QED BY <2>1, <2>9, <3>1, RunsOnly
  <2>10. ASSUME NEW s \in Sessions, NEW d \in Docs, NEW t \in Texts, Write(s, d, t)
         PROVE  Sealing!ENext
    <3>1. UNCHANGED <<pending, fate, sealed, reqs, done, run>>
      BY <2>10 DEF Write, cardVars, runVars
    <3>2. [c \in Cards |-> Life(c)]' = [c \in Cards |-> Life(c)]
      BY <2>2, <3>1 DEF At
    <3> QED BY <2>10, <3>1, <3>2, AddEdit DEF Write, AiWrite, Sealing!ENext
  <2>11. ASSUME NEW s \in Sessions, NEW d \in Docs, NEW t \in Texts, Compose(s, d, t)
         PROVE  Sealing!ENext
    <3>1. UNCHANGED <<pending, fate, sealed, reqs, done>>
      BY <2>11 DEF Compose, cardVars
    <3>2. At(s, "working")
      BY <2>11 DEF Compose
    <3>3. [c \in Cards |-> Life(c)]' = [c \in Cards |-> Life(c)]
      BY <2>2, <2>11, <3>1, <3>2, RunsOnly
    <3> QED BY <2>11, <3>1, <3>3, AddEdit DEF Compose, Create, Sealing!ENext
  <2>12. ASSUME NEW s \in Sessions, NEW c \in Cards, NEW t \in Texts, Propose(s, c, t)
         PROVE  Sealing!ENext
    BY <2>12, ProposeSeals DEF Sealing!ENext
  <2>13. ASSUME NEW s \in Sessions, Execute(s) PROVE Sealing!ENext
    BY <2>13, ExecuteSeals DEF Sealing!ENext
  <2> QED
    BY <2>3, <2>4, <2>5, <2>6, <2>7, <2>8, <2>9, <2>10, <2>11, <2>12, <2>13
       DEF Next, Requests, Agent
<1> QED BY <1>1, <1>2, CarryInvariance, PTL DEF Spec, ImplementsSealedEdits, Sealing!ESpec

\* A card starts one run at most, and none that was not approved; once its edit was
\* executed no request or run is left to execute it again (tool_approvals.py:425-513).
THEOREM CardsAnsweredOnce == Spec => []AnsweredOnce
<1>1. IInv /\ CarryInv => AnsweredOnce
  BY DEF IInv, UsedOnce, CarryInv, AnsweredOnce
<1> QED BY <1>1, CarryInvariance, PTL
=============================================================================
