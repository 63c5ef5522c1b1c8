-------------------------- MODULE ChatClientProofs --------------------------
(***************************************************************************)
(* Theorems about ChatClient, for any number of chats, sends, texts,       *)
(* re-attachments and incidents.                                           *)
(***************************************************************************)
EXTENDS ChatClient, SequenceTheorems, TLAPS

-----------------------------------------------------------------------------
(* Types. *)

\* TypeOK, by the groups of variables that actions change together.
SendPcs  == {"absent", "gate", "released", "done"} \cup Open
SendType == [pc : SendPcs, ses : Sessions, gen : Nat, text : Texts \cup {0}, posted : BOOLEAN,
             aborted : BOOLEAN, spoke : BOOLEAN, timedOut : BOOLEAN]
BgType   == [Sessions -> {"none", "running", "completed", "error"}]

TypePage ==
    /\ current \in Sessions /\ nav \in Sessions \cup {0}
    /\ streaming \in BOOLEAN /\ inFlight \in BOOLEAN /\ watchdog \in BOOLEAN
    /\ currentAbort \in Sends \cup {0} /\ streamSession \in Sessions \cup {0}

\* A text is in one place: the box, the queue or the promote timer.  (A send that
\* has captured it does not give it back.)
One(t) == IF t = 0 THEN 0 ELSE 1
TypeBox ==
    /\ composer \in Texts \cup {0} /\ promoted \in Texts \cup {0}
    /\ typed \in 0 .. MaxTexts /\ drain \in BOOLEAN /\ submits \in Nat
    /\ queue \in Seq(Texts)
    /\ Len(queue) + One(composer) + One(promoted) <= typed

TypeSend ==
    /\ send \in [Sends -> SendType]
    /\ latest \in [Sessions -> Sends \cup {0}] /\ sendState \in [Sessions -> Sends \cup {0}]
    /\ active \in [Sessions -> Sends \cup {0}]

TypeStop ==
    /\ runId \in [Sessions -> Sends \cup {0}]
    /\ pendingStop \in [Sends -> {"no", "bare", "ctrl"}]
    /\ stopsSent \subseteq Sends /\ stopWanted \subseteq Sends

TypeBg ==
    /\ background \in BgType
    /\ terminalSaved \subseteq Sessions /\ polls \subseteq Sessions

TypeResume ==
    /\ resuming \subseteq Sessions /\ recover \subseteq Sessions /\ reselect \subseteq Sessions
    /\ resumer \in [Resumers -> [pc : {"no", "status", "asked", "reading"},
                                 ses : Sessions, run : Sends \cup {0}]]
    /\ nudges \in 0 .. NudgeCap

TypeProbe ==
    /\ probe \in [pc : {"no", "asked", "404", "live"}, ses : Sessions, snd : Sends \cup {0}]
    /\ incidents \in 0 .. MaxIncidents

TypeRun == run \in [Sends -> {"none", "live", "finished", "failed", "refused"}]

Types == /\ TypePage /\ TypeBox /\ TypeSend /\ TypeStop
         /\ TypeBg /\ TypeResume /\ TypeProbe /\ TypeRun

LEMMA TypesSuffice == Types => TypeOK
<1> SUFFICES ASSUME Types PROVE TypeOK OBVIOUS
<1>1. Len(queue) <= MaxTexts
  <2>1. MaxTexts \in Nat BY ClientAssumption
  <2>2. Len(queue) \in Nat BY DEF Types, TypeBox
  <2>3. One(composer) \in Nat /\ One(promoted) \in Nat BY DEF One
  <2> QED BY <2>1, <2>2, <2>3 DEF Types, TypeBox
<1> USE DEF Types
<1>2. /\ current \in Sessions /\ nav \in Sessions \cup {0}
      /\ {streaming, inFlight, watchdog, drain} \subseteq BOOLEAN
      /\ currentAbort \in Sends \cup {0} /\ streamSession \in Sessions \cup {0}
  BY DEF TypePage, TypeBox
<1>3. /\ composer \in Texts \cup {0} /\ promoted \in Texts \cup {0}
      /\ typed \in 0 .. MaxTexts
      /\ queue \in Seq(Texts) /\ submits \in Nat
  BY DEF TypeBox
<1>4. /\ send \in [Sends -> SendType]
      /\ {latest, sendState, active, runId} \subseteq [Sessions -> Sends \cup {0}]
      /\ pendingStop \in [Sends -> {"no", "bare", "ctrl"}]
      /\ {stopsSent, stopWanted} \subseteq SUBSET Sends
  BY DEF TypeSend, TypeStop
<1>5. /\ background \in [Sessions -> {"none", "running", "completed", "error"}]
      /\ {terminalSaved, resuming, recover, reselect, polls} \subseteq SUBSET Sessions
  BY DEF TypeBg, TypeResume, BgType
<1>6. /\ resumer \in [Resumers -> [pc : {"no", "status", "asked", "reading"},
                                   ses : Sessions, run : Sends \cup {0}]]
      /\ nudges \in 0 .. NudgeCap
  BY DEF TypeResume
<1>7. /\ probe \in [pc : {"no", "asked", "404", "live"}, ses : Sessions, snd : Sends \cup {0}]
      /\ run \in [Sends -> {"none", "live", "finished", "failed", "refused"}]
      /\ incidents \in 0 .. MaxIncidents
  BY DEF TypeProbe, TypeRun
<1> HIDE DEF Types
<1>8. [Sends -> SendType] =
        [Sends -> [pc : {"absent", "gate", "released", "done"} \cup Open, ses : Sessions,
                   gen : Nat, text : Texts \cup {0}, posted : BOOLEAN,
                   aborted : BOOLEAN, spoke : BOOLEAN, timedOut : BOOLEAN]]
  BY Zenon DEF SendType, SendPcs
<1> QED BY <1>1, <1>2, <1>3, <1>4, <1>5, <1>6, <1>7, <1>8, ZenonT(60) DEF TypeOK

\* A group that an action leaves alone.
LEMMA Frames ==
  /\ TypePage /\ UNCHANGED pageVars => TypePage'
  /\ TypeBox /\ UNCHANGED boxVars => TypeBox'
  /\ TypeSend /\ UNCHANGED sendVars => TypeSend'
  /\ TypeStop /\ UNCHANGED stopVars => TypeStop'
  /\ TypeBg /\ UNCHANGED bgVars => TypeBg'
  /\ TypeResume /\ UNCHANGED resumeVars => TypeResume'
  /\ TypeProbe /\ UNCHANGED probeVars => TypeProbe'
  /\ TypeRun /\ UNCHANGED run => TypeRun'
<1>1. TypePage /\ UNCHANGED pageVars => TypePage' BY DEF TypePage, pageVars
<1>2. TypeBox /\ UNCHANGED boxVars => TypeBox' BY DEF TypeBox, boxVars
<1>3. TypeSend /\ UNCHANGED sendVars => TypeSend' BY DEF TypeSend, sendVars
<1>4. TypeStop /\ UNCHANGED stopVars => TypeStop' BY DEF TypeStop, stopVars
<1>5. TypeBg /\ UNCHANGED bgVars => TypeBg' BY DEF TypeBg, bgVars
<1>6. TypeResume /\ UNCHANGED resumeVars => TypeResume' BY DEF TypeResume, resumeVars
<1>7. TypeProbe /\ UNCHANGED probeVars => TypeProbe' BY DEF TypeProbe, probeVars
<1>8. TypeRun /\ UNCHANGED run => TypeRun' BY DEF TypeRun
<1> QED BY <1>1, <1>2, <1>3, <1>4, <1>5, <1>6, <1>7, <1>8

LEMMA TypesNext ==
  TypePage' /\ TypeBox' /\ TypeSend' /\ TypeStop'
    /\ TypeBg' /\ TypeResume' /\ TypeProbe' /\ TypeRun' => Types'
BY DEF Types

LEMMA ConstantFacts ==
  /\ MaxSends \in Nat /\ MaxTexts \in Nat /\ MaxIncidents \in Nat /\ NudgeCap \in Nat
  /\ FirstSession \in Sessions /\ 0 \notin Sends /\ 0 \notin Texts
BY ClientAssumption DEF Sends, Texts

LEMMA TypesInit == Init => Types
<1> SUFFICES ASSUME Init PROVE Types OBVIOUS
<1> USE ConstantFacts DEF Init
<1>1. TypePage BY DEF TypePage
<1>2. TypeBox
  <2>1. queue \in Seq(Texts) /\ Len(queue) = 0 OBVIOUS
  <2>2. One(composer) = 0 /\ One(promoted) = 0 BY DEF One
  <2>3. typed \in 0 .. MaxTexts /\ typed = 0 OBVIOUS
  <2>4. drain \in BOOLEAN /\ submits \in Nat OBVIOUS
  <2> QED BY <2>1, <2>2, <2>3, <2>4 DEF TypeBox
<1>3. TypeSend
  <2>1. NoSend \in SendType BY DEF NoSend, SendType, SendPcs
  <2> QED BY <2>1 DEF TypeSend
<1>4. TypeStop BY DEF TypeStop
<1>5. TypeBg BY DEF TypeBg, BgType
<1>6. TypeResume BY DEF TypeResume, NoResume
<1>7. TypeProbe BY DEF TypeProbe, NoProbe
<1>8. TypeRun BY DEF TypeRun
<1> QED BY <1>1, <1>2, <1>3, <1>4, <1>5, <1>6, <1>7, <1>8 DEF Types

LEMMA AbortFacts ==
  ASSUME TypeSend, NEW k \in Sends \cup {0}
  PROVE  /\ Abort(send, k) \in [Sends -> SendType]
         /\ \A j \in Sends : /\ Abort(send, k)[j].pc = send[j].pc
                            /\ Abort(send, k)[j].ses = send[j].ses
                            /\ Abort(send, k)[j].gen = send[j].gen
                            /\ Abort(send, k)[j].posted = send[j].posted
<1>1. CASE k # 0 /\ send[k].pc \in Connected
  BY <1>1, ZenonT(60) DEF TypeSend, Abort, SendType
<1>2. CASE ~(k # 0 /\ send[k].pc \in Connected)
  BY <1>2 DEF TypeSend, Abort
<1> QED BY <1>1, <1>2

LEMMA ControllerType ==
  ASSUME TypePage, TypeSend, NEW c \in Sessions
  PROVE  ControllerFor(c) \in Sends \cup {0}
BY DEF TypePage, TypeSend, ControllerFor

LEMMA DrainTimerType ==
  ASSUME NEW str, NEW fly, NEW q PROVE DrainTimer(str, fly, q) \in BOOLEAN
BY DEF DrainTimer

LEMMA OpenGateTypes ==
  ASSUME Types, OpenGate
  PROVE  /\ TypePage' /\ TypeSend' /\ TypeStop' /\ TypeBg' /\ TypeResume' /\ TypeProbe'
         /\ TypeRun' /\ UNCHANGED <<composer, typed, queue, drain, promoted>>
<1> USE DEF Types
<1>1. TypeStop' /\ TypeBg' /\ TypeResume' /\ TypeProbe' /\ TypeRun'
  BY Frames DEF OpenGate
<1>2. TypePage' BY DEF OpenGate, TypePage
<1>3. TypeSend'
  <2>1. PICK k \in Sends :
          send' = [send EXCEPT ![k] = [NoSend EXCEPT !.pc = "gate", !.text = composer]]
    BY DEF OpenGate
  <2>2. [NoSend EXCEPT !.pc = "gate", !.text = composer] \in SendType
    BY ConstantFacts DEF NoSend, SendType, SendPcs, TypeBox
  <2> QED BY <2>1, <2>2 DEF OpenGate, TypeSend
<1> QED BY <1>1, <1>2, <1>3 DEF OpenGate

LEMMA StopBranchTypes ==
  ASSUME Types, NEW q, StopBranch(q)
  PROVE  /\ TypePage' /\ TypeSend' /\ TypeStop' /\ TypeBg' /\ TypeResume' /\ TypeProbe'
         /\ TypeRun' /\ drain' \in BOOLEAN /\ typed' = typed
<1> USE DEF Types
<1>1. TypeBg' /\ TypeResume' /\ TypeProbe' /\ TypeRun' /\ typed' = typed
  BY Frames DEF StopBranch
<1>2. TypePage' BY DEF StopBranch, TypePage
<1>3. current \in Sessions BY DEF TypePage
<1>4. ControllerFor(current) \in Sends \cup {0} BY <1>3, ControllerType
<1>5. TypeSend'
  <2>1. send' = Abort(send, ControllerFor(current)) \/ send' = send BY DEF StopBranch
  <2> QED BY <1>4, <2>1, AbortFacts DEF StopBranch, TypeSend
<1>6. TypeStop'
  <2>1. pendingStop' \in [Sends -> {"no", "bare", "ctrl"}] BY DEF StopBranch, TypeStop
  <2>2. stopsSent' \subseteq Sends BY <1>3 DEF StopBranch, TypeStop
  <2>3. stopWanted' \subseteq Sends BY <1>3 DEF StopBranch, TypeStop, TypeSend
  <2> QED BY <2>1, <2>2, <2>3 DEF StopBranch, TypeStop
<1>7. drain' \in BOOLEAN
  <2>1. drain' = drain \/ drain' = DrainTimer(FALSE, inFlight, q) BY DEF StopBranch
  <2> QED BY <2>1, DrainTimerType DEF TypeBox
<1> QED BY <1>1, <1>2, <1>5, <1>6, <1>7

\* The end of a send.
LEMMA FinallyTypes ==
  ASSUME Types, NEW k \in Sends, NEW bg \in BgType,
         NEW p \in [str : BOOLEAN, fly : BOOLEAN, wd : BOOLEAN],
         Finally(k, send, bg, p)
  PROVE  TypePage' /\ TypeBox' /\ TypeSend' /\ TypeStop' /\ TypeBg'
<1> USE DEF Types
<1>1. send[k].ses \in Sessions BY DEF TypeSend, SendType
<1>2. Unregistered(k) \in [Sessions -> Sends \cup {0}]
  BY <1>1 DEF Unregistered, TypeSend
<1>3. /\ active' = Unregistered(k)
      /\ \E own, owns \in BOOLEAN :
            streaming' = Button(own, owns, Unregistered(k), p.str)
  BY DEF Finally
<1>4. streaming' \in BOOLEAN
  <2>1. PICK own, owns \in BOOLEAN : streaming' = Button(own, owns, Unregistered(k), p.str)
    BY <1>3
  <2> QED BY <2>1 DEF Button
<1>5. TypePage'
  <2>1. watchdog' \in BOOLEAN /\ inFlight' \in BOOLEAN BY DEF Finally
  <2>2. currentAbort' \in Sends \cup {0} BY <1>2 DEF Finally, TypePage
  <2>3. streamSession' \in Sessions \cup {0} BY DEF Finally, TypePage
  <2> QED BY <1>4, <2>1, <2>2, <2>3 DEF Finally, TypePage
<1>6. TypeBox'
  <2>1. drain' \in BOOLEAN BY DrainTimerType DEF Finally
  <2> QED BY <2>1 DEF Finally, TypeBox
<1>7. TypeSend'
  <2>1. [send[k] EXCEPT !.pc = "done", !.aborted = FALSE, !.spoke = FALSE, !.timedOut = FALSE]
          \in SendType
    BY ZenonT(60) DEF TypeSend, SendType, SendPcs
  <2>2. send' = [send EXCEPT ![k] = [send[k] EXCEPT !.pc = "done", !.aborted = FALSE,
                                                   !.spoke = FALSE, !.timedOut = FALSE]]
    BY DEF Finally, TypeSend
  <2>3. send' \in [Sends -> SendType] BY <2>1, <2>2 DEF TypeSend
  <2>4. sendState' \in [Sessions -> Sends \cup {0}] BY <1>1 DEF Finally, TypeSend
  <2> QED BY <1>2, <1>3, <2>3, <2>4 DEF Finally, TypeSend
<1>8. TypeStop' BY DEF Finally, TypeStop
<1>9. TypeBg' BY DEF Finally, TypeBg
<1> QED BY <1>5, <1>6, <1>7, <1>8, <1>9

LEMMA CutAt ==
  ASSUME NEW s \in Seq(Texts), NEW i \in DOMAIN s
  PROVE  /\ SubSeq(s, 1, i - 1) \o SubSeq(s, i + 1, Len(s)) \in Seq(Texts)
         /\ Len(SubSeq(s, 1, i - 1) \o SubSeq(s, i + 1, Len(s))) = Len(s) - 1
<1>1. i \in 1 .. Len(s) /\ Len(s) \in Nat OBVIOUS
<1>2. PICK a : a = SubSeq(s, 1, i - 1) OBVIOUS
<1>3. PICK b : b = SubSeq(s, i + 1, Len(s)) OBVIOUS
<1>4. a \in Seq(Texts) /\ Len(a) = i - 1 BY <1>1, <1>2
<1>5. b \in Seq(Texts) /\ Len(b) = Len(s) - i BY <1>1, <1>3
<1>6. a \o b \in Seq(Texts) BY <1>4, <1>5, ConcatProperties
<1>7. Len(a \o b) = Len(a) + Len(b) BY <1>4, <1>5, ConcatProperties
<1>8. SubSeq(s, 1, i - 1) \o SubSeq(s, i + 1, Len(s)) = a \o b BY <1>2, <1>3, Zenon
<1>9. Len(a \o b) = Len(s) - 1
  <2> HIDE <1>2, <1>3
  <2> QED BY <1>1, <1>4, <1>5, <1>7
<1> QED BY <1>6, <1>8, <1>9, Zenon

LEMMA TypesBoxStep ==
  ASSUME Types, Type \/ UserSend \/ UserStop \/ UserQueue \/ UserPromote
                \/ DrainFires \/ PromoteFires \/ TimerSubmit
  PROVE  Types'
<1> USE DEF Types
<1>0. /\ One(composer) \in Nat /\ One(promoted) \in Nat /\ One(0) = 0
      /\ \A t \in Texts : One(t) = 1
      /\ Len(queue) \in Nat /\ typed \in Nat
  BY ConstantFacts DEF One, TypeBox
<1>1. CASE Type
  <2>1. TypeBox'
    <3>1. typed + 1 \in Texts /\ typed' \in 0 .. MaxTexts
      BY <1>1, ConstantFacts DEF Type, TypeBox, Texts
    <3>2. composer' \in Texts /\ typed' = typed + 1 /\ composer = 0 BY <1>1, <3>1 DEF Type
    <3>3. One(composer') = 1 /\ One(composer) = 0 BY <1>0, <3>2
    <3>4. UNCHANGED <<queue, drain, promoted, submits>> BY <1>1 DEF Type
    <3>5. Len(queue') + One(composer') + One(promoted') <= typed'
      BY <1>0, <3>2, <3>3, <3>4 DEF TypeBox
    <3> QED BY <3>1, <3>2, <3>4, <3>5 DEF TypeBox
  <2> QED BY <1>1, <2>1, Frames, TypesNext DEF Type
<1>2. CASE UserSend
  <2>1. TypeBox' BY <1>2, OpenGateTypes DEF UserSend, TypeBox
  <2> QED BY <1>2, <2>1, OpenGateTypes, TypesNext DEF UserSend
<1>3. CASE UserStop
  <2>1. TypeBox' BY <1>3, StopBranchTypes DEF UserStop, TypeBox
  <2> QED BY <1>3, <2>1, StopBranchTypes, TypesNext DEF UserStop
<1>4. CASE UserQueue
  <2>1. TypeBox'
    <3>1. composer \in Texts /\ queue \in Seq(Texts) BY <1>4 DEF UserQueue, TypeBox
    <3>2. Append(queue, composer) \in Seq(Texts) /\ Len(Append(queue, composer)) = Len(queue) + 1
      BY <3>1
    <3> QED BY <1>0, <1>4, <3>1, <3>2 DEF UserQueue, TypeBox
  <2> QED BY <1>4, <2>1, Frames, TypesNext DEF UserQueue
<1>5. CASE UserPromote
  <2>1. PICK i \in DOMAIN queue :
          LET rest == SubSeq(queue, 1, i - 1) \o SubSeq(queue, i + 1, Len(queue))
          IN /\ queue' = rest
             /\ \/ /\ ~streaming /\ ~inFlight
                   /\ composer' = queue[i] /\ submits' = submits + 1
                   /\ UNCHANGED <<pageVars, typed, drain, promoted, sendVars, stopVars, bgVars,
                                  resumeVars, probeVars, run>>
                \/ /\ streaming /\ StopBranch(rest)
                   /\ composer' = 0 /\ promoted' = queue[i] /\ UNCHANGED submits
                \/ /\ ~streaming /\ inFlight
                   /\ composer' = 0 /\ promoted' = queue[i]
                   /\ UNCHANGED <<pageVars, typed, drain, submits, sendVars, stopVars, bgVars,
                                  resumeVars, probeVars, run>>
    BY <1>5 DEF UserPromote
  <2> DEFINE rest == SubSeq(queue, 1, i - 1) \o SubSeq(queue, i + 1, Len(queue))
  <2>2. rest \in Seq(Texts) /\ Len(rest) = Len(queue) - 1 /\ queue[i] \in Texts
    BY CutAt, SMTT(30) DEF TypeBox
  <2>3. queue' = rest BY <2>1
  <2> HIDE DEF rest
  <2>4. CASE /\ composer' = queue[i] /\ submits' = submits + 1
             /\ UNCHANGED <<pageVars, typed, drain, promoted, sendVars, stopVars, bgVars,
                            resumeVars, probeVars, run>>
    <3>1. TypeBox' BY <1>0, <2>2, <2>3, <2>4 DEF TypeBox
    <3> QED BY <2>4, <3>1, Frames, TypesNext
  <2>5. CASE /\ StopBranch(rest)
             /\ composer' = 0 /\ promoted' = queue[i] /\ UNCHANGED submits
    <3>1. TypeBox' BY <1>0, <2>2, <2>3, <2>5, StopBranchTypes DEF TypeBox
    <3> QED BY <2>5, <3>1, StopBranchTypes, TypesNext
  <2>6. CASE /\ composer' = 0 /\ promoted' = queue[i]
             /\ UNCHANGED <<pageVars, typed, drain, submits, sendVars, stopVars, bgVars,
                            resumeVars, probeVars, run>>
    <3>1. TypeBox' BY <1>0, <2>2, <2>3, <2>6 DEF TypeBox
    <3> QED BY <2>6, <3>1, Frames, TypesNext
  <2> QED BY <2>1, <2>4, <2>5, <2>6 DEF rest
<1>6. CASE DrainFires
  <2>1. TypeBox'
    <3>1. CASE queue # <<>> /\ queue' # queue
      <4>1. /\ Head(queue) \in Texts /\ Tail(queue) \in Seq(Texts)
            /\ Len(Tail(queue)) = Len(queue) - 1
        BY <3>1 DEF TypeBox
      <4>2. composer' = Head(queue) /\ queue' = Tail(queue) /\ submits' = submits + 1
        BY <1>6, <3>1 DEF DrainFires
      <4>3. drain' = FALSE /\ UNCHANGED <<typed, promoted>> BY <1>6 DEF DrainFires
      <4>4. One(composer') = 1 /\ Len(queue') = Len(queue) - 1 BY <1>0, <4>1, <4>2
      <4>5. Len(queue') + One(composer') + One(promoted') <= typed'
        BY <1>0, <4>3, <4>4 DEF TypeBox
      <4>6. /\ composer' \in Texts \cup {0} /\ promoted' \in Texts \cup {0}
            /\ typed' \in 0 .. MaxTexts /\ submits' \in Nat /\ queue' \in Seq(Texts)
        BY <4>1, <4>2, <4>3 DEF TypeBox
      <4>7. drain' \in BOOLEAN BY <4>3
      <4> QED BY <4>5, <4>6, <4>7 DEF TypeBox
    <3>2. CASE queue = <<>> \/ queue' = queue
      <4>1. UNCHANGED <<composer, queue, submits>>
        <5>1. CASE queue = <<>> BY <1>6, <5>1 DEF DrainFires
        <5>2. CASE queue # <<>> /\ queue' = queue
          <6>1. Len(Tail(queue)) = Len(queue) - 1 BY <5>2 DEF TypeBox
          <6>2. Tail(queue) # queue BY <1>0, <6>1
          <6> QED BY <1>6, <5>2, <6>2 DEF DrainFires
        <5> QED BY <3>2, <5>1, <5>2
      <4> QED BY <1>6, <4>1 DEF DrainFires, TypeBox
    <3> QED BY <3>1, <3>2
  <2> QED BY <1>6, <2>1, Frames, TypesNext DEF DrainFires
<1>7. CASE PromoteFires
  <2>1. TypeBox'
    <3>1. /\ composer' = promoted /\ promoted' = 0 /\ submits' = submits + 1
          /\ UNCHANGED <<typed, queue, drain>>
      BY <1>7 DEF PromoteFires
    <3>2. One(composer') = One(promoted) /\ One(promoted') = 0 BY <1>0, <3>1
    <3>3. Len(queue') + One(composer') + One(promoted') <= typed'
      BY <1>0, <3>1, <3>2 DEF TypeBox
    <3> QED BY <3>1, <3>3 DEF TypeBox
  <2> QED BY <1>7, <2>1, Frames, TypesNext DEF PromoteFires
<1>8. CASE TimerSubmit
  <2>0. submits' \in Nat BY <1>8 DEF TimerSubmit, TypeBox
  <2>1. CASE OpenGate
    <3>1. TypeBox' BY <2>0, <2>1, OpenGateTypes DEF TypeBox
    <3> QED BY <2>1, <3>1, OpenGateTypes, TypesNext
  <2>2. CASE StopBranch(queue) /\ UNCHANGED <<composer, queue, promoted>>
    <3>1. TypeBox' BY <2>0, <2>2, StopBranchTypes DEF TypeBox
    <3> QED BY <2>2, <3>1, StopBranchTypes, TypesNext
  <2>3. CASE UNCHANGED <<pageVars, composer, typed, queue, drain, promoted, sendVars,
                         stopVars, bgVars, resumeVars, probeVars, run>>
    <3>1. TypeBox' BY <2>0, <2>3 DEF TypeBox
    <3> QED BY <2>3, <3>1, Frames, TypesNext
  <2> QED BY <1>8, <2>1, <2>2, <2>3 DEF TimerSubmit
<1> QED BY <1>1, <1>2, <1>3, <1>4, <1>5, <1>6, <1>7, <1>8

\* A step of a send that ends it.
LEMMA EndTypes ==
  ASSUME Types, NEW k \in Sends,
         \/ Finally(k, send, background, Page)
         \/ Finally(k, send, background, [str |-> active[current] # 0, fly |-> FALSE, wd |-> FALSE])
  PROVE  TypePage' /\ TypeBox' /\ TypeSend' /\ TypeStop' /\ TypeBg'
<1>1. background \in BgType BY DEF Types, TypeBg
<1>2. Page \in [str : BOOLEAN, fly : BOOLEAN, wd : BOOLEAN]
  BY Zenon DEF Types, TypePage, Page
<1>3. [str |-> active[current] # 0, fly |-> FALSE, wd |-> FALSE]
        \in [str : BOOLEAN, fly : BOOLEAN, wd : BOOLEAN]
  BY Zenon
<1> QED BY <1>1, <1>2, <1>3, FinallyTypes

LEMMA CatchTypes ==
  ASSUME Types, NEW k \in Sends, NEW b \in BOOLEAN, Catch(k, b)
  PROVE  /\ TypePage' /\ TypeBox' /\ TypeSend' /\ TypeStop' /\ TypeBg' /\ TypeResume'
         /\ probe' = probe /\ TypeRun'
<1> USE DEF Types
<1>1. send[k].ses \in Sessions BY DEF TypeSend, SendType
<1>2. PICK bg \in BgType : Finally(k, send, bg, Page)
  BY <1>1 DEF Catch, TypeBg, BgType
<1>3. Page \in [str : BOOLEAN, fly : BOOLEAN, wd : BOOLEAN]
  BY Zenon DEF TypePage, Page
<1>4. TypePage' /\ TypeBox' /\ TypeSend' /\ TypeStop' /\ TypeBg'
  BY <1>2, <1>3, FinallyTypes
<1>5. TypeResume'
  <2>1. recover' \subseteq Sessions /\ reselect' \subseteq Sessions
    BY <1>1 DEF Catch, TypeResume
  <2>2. nudges' \in 0 .. NudgeCap
    <3>1. nudges' = nudges \/ (nudges < NudgeCap /\ nudges' = nudges + 1) BY DEF Catch
    <3> QED BY <3>1, ConstantFacts DEF TypeResume
  <2>3. UNCHANGED <<resuming, resumer>> BY <1>2 DEF Finally
  <2> QED BY <2>1, <2>2, <2>3 DEF TypeResume
<1>6. probe' = probe BY <1>2 DEF Finally
<1>7. TypeRun' BY Frames DEF Catch
<1> QED BY <1>4, <1>5, <1>6, <1>7

LEMMA IncidentType == ASSUME TypeProbe, Incident PROVE incidents' \in 0 .. MaxIncidents
BY ConstantFacts DEF TypeProbe, Incident

LEMMA ProbeTypes ==
  ASSUME TypeProbe, probe' = probe, Incident \/ incidents' = incidents
  PROVE  TypeProbe'
BY IncidentType DEF TypeProbe

LEMMA TypesSendStep ==
  ASSUME Types, NEW k \in Sends, Step(k) \/ FailPreflight(k)
  PROVE  Types'
<1> USE DEF Types
<1>0. send[k] \in SendType /\ send[k].ses \in Sessions /\ current \in Sessions
  BY DEF TypeSend, SendType, TypePage
<1>1. CASE ReleaseGate(k)
  <2>1. TypeSend' BY <1>1 DEF ReleaseGate, TypeSend, SendType, SendPcs
  <2>2. TypePage'
    <3>1. streaming' \in BOOLEAN BY <1>1, Zenon DEF ReleaseGate, Sync
    <3>2. currentAbort' \in Sends \cup {0} BY <1>0, <1>1 DEF ReleaseGate, Sync, TypeSend
    <3> QED BY <1>1, <3>1, <3>2 DEF ReleaseGate, TypePage
  <2>3. TypeBox'
    <3>1. One(composer') <= One(composer) /\ One(composer) \in Nat /\ One(composer') \in Nat
      BY <1>1 DEF ReleaseGate, One
    <3>2. One(promoted) \in Nat /\ Len(queue) \in Nat /\ typed \in Nat
      BY DEF One, TypeBox
    <3>3. Len(queue) + One(composer') + One(promoted) <= typed
      BY <3>1, <3>2 DEF TypeBox
    <3>4. composer' \in Texts \cup {0} BY <1>1 DEF ReleaseGate, TypeBox
    <3> QED BY <1>1, <3>3, <3>4 DEF ReleaseGate, TypeBox
  <2> QED BY <1>1, <2>1, <2>2, <2>3, Frames, TypesNext DEF ReleaseGate
<1>2. CASE Commit(k)
  <2>1. TypeSend'
    <3>1. Generation(current) \in Nat BY <1>0 DEF Generation, TypeSend, SendType
    <3>g. PICK g \in Nat : g = Generation(current) + 1 BY <3>1
    <3> DEFINE rec == [send[k] EXCEPT !.pc = "committed", !.ses = current, !.gen = g]
    <3>2. rec \in SendType BY <1>0 DEF SendType, SendPcs, Open
    <3>3. send' = [send EXCEPT ![k] = rec] BY <1>2, <3>g DEF Commit, TypeSend
    <3> HIDE DEF rec
    <3>4. send' \in [Sends -> SendType] BY <3>2, <3>3 DEF TypeSend
    <3> QED BY <1>2, <3>4 DEF Commit, TypeSend
  <2>2. TypePage' BY <1>2 DEF Commit, TypePage
  <2>3. TypeStop' BY <1>2 DEF Commit, TypeStop
  <2> QED BY <1>2, <2>1, <2>2, <2>3, Frames, TypesNext DEF Commit
<1>3. CASE StartPreflight(k)
  <2>1. TypeSend' BY <1>3 DEF StartPreflight, TypeSend, SendType, SendPcs, Open
  <2>2. TypeStop' BY <1>3 DEF StartPreflight, TypeStop
  <2>3. TypeBox'
    <3>1. composer' = composer \/ composer' = 0 BY <1>3 DEF StartPreflight
    <3>2. UNCHANGED <<typed, queue, drain, promoted, submits>> BY <1>3 DEF StartPreflight
    <3>3. One(composer') <= One(composer) /\ One(composer) \in Nat /\ One(composer') \in Nat
      BY <3>1 DEF One
    <3>4. One(promoted) \in Nat /\ Len(queue) \in Nat /\ typed \in Nat
      BY DEF One, TypeBox
    <3>5. Len(queue) + One(composer') + One(promoted) <= typed
      BY <3>3, <3>4 DEF TypeBox
    <3> QED BY <3>1, <3>2, <3>5 DEF TypeBox
  <2>4. TypeBg' BY <1>3 DEF StartPreflight, TypeBg
  <2>5. TypeResume' BY <1>3, ConstantFacts DEF StartPreflight, TypeResume
  <2> QED BY <1>3, <2>1, <2>2, <2>3, <2>4, <2>5, Frames, TypesNext DEF StartPreflight
<1>4. CASE DropSuperseded(k) \/ Refused(k) \/ Close(k)
  <2>1. Finally(k, send, background, Page)
    BY <1>4 DEF DropSuperseded, Refused, Close
  <2>2. TypePage' /\ TypeBox' /\ TypeSend' /\ TypeStop' /\ TypeBg' BY <2>1, EndTypes
  <2>3. UNCHANGED <<resuming, resumer, probe>> BY <2>1 DEF Finally
  <2>4. UNCHANGED <<recover, nudges, reselect, incidents, run>>
    BY <1>4 DEF DropSuperseded, Refused, Close
  <2> QED BY <2>2, <2>3, <2>4, Frames, TypesNext DEF resumeVars, probeVars
<1>5. CASE FailPreflight(k)
  <2>1. Finally(k, send, background, [str |-> active[current] # 0, fly |-> FALSE, wd |-> FALSE])
    BY <1>5 DEF FailPreflight
  <2>2. TypePage' /\ TypeBox' /\ TypeSend' /\ TypeStop' /\ TypeBg' BY <2>1, EndTypes
  <2>3. UNCHANGED <<resuming, resumer, probe>> BY <2>1 DEF Finally
  <2>4. UNCHANGED <<recover, nudges, reselect, run>> /\ Incident
    BY <1>5 DEF FailPreflight
  <2>5. TypeProbe' BY <2>3, <2>4, ProbeTypes
  <2> QED BY <2>2, <2>3, <2>4, <2>5, Frames, TypesNext DEF resumeVars
<1>6. CASE Post(k)
  <2>1. TypeSend' BY <1>0, <1>6, ConstantFacts DEF Post, TypeSend, SendType, SendPcs, Open, Connected
  <2>2. TypePage'
    <3>1. streaming' \in BOOLEAN BY <1>6, Zenon DEF Post, Sync
    <3>2. currentAbort' \in Sends \cup {0} BY <1>0, <1>6, <2>1 DEF Post, Sync, TypeSend
    <3> QED BY <1>6, <3>1, <3>2 DEF Post, TypePage
  <2> QED BY <1>6, <2>1, <2>2, Frames, TypesNext DEF Post
<1>7. CASE Headers(k)
  <2>1. TypeSend'
    <3>1. PICK b \in BOOLEAN : b = (pendingStop[k] = "ctrl") BY Zenon
    <3>2. send' = [send EXCEPT ![k].pc = "reading", ![k].aborted = b]
      BY <1>7, <3>1, Zenon DEF Headers
    <3> DEFINE rec == [send[k] EXCEPT !.pc = "reading", !.aborted = b]
    <3>3. rec \in SendType BY <1>0, <3>1 DEF SendType, SendPcs, Open, Connected
    <3>4. send' = [send EXCEPT ![k] = rec] BY <3>2 DEF TypeSend
    <3> HIDE DEF rec
    <3>5. send' \in [Sends -> SendType] BY <3>3, <3>4 DEF TypeSend
    <3> QED BY <1>7, <3>5 DEF Headers, TypeSend
  <2>2. TypeStop' BY <1>0, <1>7 DEF Headers, TypeStop, FlushedStop
  <2> QED BY <1>7, <2>1, <2>2, Frames, TypesNext DEF Headers
<1>8. CASE Done(k)
  <2>1. TypeSend' BY <1>8 DEF Done, TypeSend, SendType, SendPcs, Open, Connected
  <2>2. TypeBg' BY <1>8 DEF Done, TypeBg, BgType
  <2> QED BY <1>8, <2>1, <2>2, Frames, TypesNext DEF Done
<1>9. CASE ErrorEvent(k) \/ AbortSeen(k)
  <2>1. (Catch(k, TRUE) \/ Catch(k, FALSE)) /\ incidents' = incidents
    BY <1>9 DEF ErrorEvent, AbortSeen
  <2> QED BY <2>1, CatchTypes, ProbeTypes, TypesNext
<1>10. CASE GraceEnds(k)
  <2>1. TypeSend' BY <1>10, ZenonT(60) DEF GraceEnds, TypeSend, SendType
  <2> QED BY <1>10, <2>1, Frames, TypesNext DEF GraceEnds
<1> QED BY <1>1, <1>2, <1>3, <1>4, <1>5, <1>6, <1>7, <1>8, <1>9, <1>10 DEF Step

LEMMA TypesReaderStep ==
  ASSUME Types, NEW k \in Sends, Delta(k) \/ Terminal(k) \/ LoseStream(k) \/ Timeout(k)
  PROVE  Types'
<1> USE DEF Types
<1>0. send[k] \in SendType /\ send[k].ses \in Sessions /\ current \in Sessions
  BY DEF TypeSend, SendType, TypePage
<1>1. CASE Delta(k)
  <2>1. TypeSend' BY <1>1, ZenonT(60) DEF Delta, TypeSend, SendType
  <2>2. TypeBg' BY <1>0, <1>1 DEF Delta, Seen, TypeBg, BgType
  <2> QED BY <1>1, <2>1, <2>2, Frames, TypesNext DEF Delta
<1>2. CASE Terminal(k)
  <2>1. TypeSend' BY <1>2, ZenonT(60) DEF Terminal, TypeSend, SendType
  <2>2. TypeBg' BY <1>0, <1>2 DEF Terminal, TypeBg, BgType
  <2> QED BY <1>2, <2>1, <2>2, Frames, TypesNext DEF Terminal
<1>3. CASE LoseStream(k)
  <2>1. Catch(k, TRUE) /\ Incident BY <1>3 DEF LoseStream
  <2> QED BY <2>1, CatchTypes, ProbeTypes, TypesNext
<1>4. CASE Timeout(k)
  <2> DEFINE cut == [send[k] EXCEPT !.timedOut = TRUE, !.aborted = TRUE]
             late == [send[k] EXCEPT !.timedOut = TRUE]
  <2>1. cut \in SendType /\ late \in SendType BY <1>0 DEF SendType
  <2>2. send' = [send EXCEPT ![k] = cut] \/ send' = [send EXCEPT ![k] = late]
    BY <1>4 DEF Timeout, TypeSend
  <2> HIDE DEF cut, late
  <2>3. TypeSend'
    <3>1. send' \in [Sends -> SendType] BY <2>1, <2>2 DEF TypeSend
    <3> QED BY <1>4, <3>1 DEF Timeout, TypeSend
  <2>4. TypeStop'
    <3>1. pendingStop' \in [Sends -> {"no", "bare", "ctrl"}] BY <1>4 DEF Timeout, TypeStop
    <3>2. stopsSent' \subseteq Sends
      <4>1. CASE latest[send[k].ses] # k \/ runId[send[k].ses] # 0
        <5>1. runId[send[k].ses] \in Sends \/ latest[send[k].ses] # k
          BY <1>0, <4>1 DEF TypeStop
        <5>2. stopsSent' = IF latest[send[k].ses] = k THEN stopsSent \cup {runId[send[k].ses]}
                           ELSE stopsSent
          BY <1>4, <4>1 DEF Timeout
        <5> QED BY <5>1, <5>2 DEF TypeStop
      <4>2. CASE ~(latest[send[k].ses] # k \/ runId[send[k].ses] # 0)
        BY <1>4, <4>2 DEF Timeout, TypeStop
      <4> QED BY <4>1, <4>2
    <3>3. stopWanted' \subseteq Sends /\ runId' = runId BY <1>4 DEF Timeout, TypeStop
    <3> QED BY <3>1, <3>2, <3>3 DEF TypeStop
  <2>5. TypeProbe' BY <1>4, ProbeTypes DEF Timeout
  <2> QED BY <1>4, <2>3, <2>4, <2>5, Frames, TypesNext DEF Timeout
<1> QED BY <1>1, <1>2, <1>3, <1>4

LEMMA TypesServer == ASSUME Types, NEW k \in Sends, Server(k) PROVE Types'
<1> USE DEF Types
<1>1. TypeRun' BY DEF Server, ServerStarts, ServerRefuses, ServerEnds, ServerFails, TypeRun
<1>2. TypeProbe'
  <2>1. probe' = probe /\ (Incident \/ incidents' = incidents)
    BY DEF Server, ServerStarts, ServerRefuses, ServerEnds, ServerFails, probeVars
  <2> QED BY <2>1, ProbeTypes
<1>3. UNCHANGED <<pageVars, boxVars, sendVars, stopVars, bgVars, resumeVars>>
  BY DEF Server, ServerStarts, ServerRefuses, ServerEnds, ServerFails
<1> QED BY <1>1, <1>2, <1>3, Frames, TypesNext

LEMMA SelectTypes ==
  ASSUME Types, NEW s \in Sessions, SelectSession(s),
         UNCHANGED <<inFlight, typed, queue, drain, promoted, submits, latest, sendState, active,
                     terminalSaved, polls>>
  PROVE  TypePage' /\ TypeBox' /\ TypeSend' /\ TypeBg'
<1> USE DEF Types
<1>1. TypePage' BY DEF SelectSession, TypePage, TypeSend
<1>2. TypeBox'
  <2>1. composer' = 0 BY DEF SelectSession
  <2>2. One(composer') = 0 /\ One(composer) \in Nat /\ One(promoted) \in Nat BY <2>1 DEF One
  <2>3. Len(queue) \in Nat /\ typed \in Nat BY DEF TypeBox
  <2>4. Len(queue') + One(composer') + One(promoted') <= typed' BY <2>2, <2>3 DEF TypeBox
  <2> QED BY <2>1, <2>4 DEF TypeBox
<1>3. TypeSend'
  <2>1. ControllerFor(s) \in Sends \cup {0} BY ControllerType
  <2>2. send' = send \/ send' = Abort(send, ControllerFor(s)) BY DEF SelectSession
  <2> QED BY <2>1, <2>2, AbortFacts DEF TypeSend
<1>4. TypeBg' BY DEF SelectSession, TypeBg, BgType, TypePage
<1> QED BY <1>1, <1>2, <1>3, <1>4

LEMMA TypesMove ==
  ASSUME Types, NEW s \in Sessions, UserSelects(s) \/ Reselect(s) \/ PollEnds(s) \/ RecoverFires(s)
  PROVE  Types'
<1> USE DEF Types
<1>1. CASE UserSelects(s)
  <2>1. TypePage' /\ TypeBox' /\ TypeSend' /\ TypeBg' BY <1>1, SelectTypes DEF UserSelects
  <2>2. TypeProbe' BY <1>1, ProbeTypes DEF UserSelects
  <2> QED BY <1>1, <2>1, <2>2, Frames, TypesNext DEF UserSelects
<1>2. CASE Reselect(s)
  <2>1. CASE current = s
    <3>1. TypePage' /\ TypeBox' /\ TypeSend' /\ TypeBg' BY <1>2, <2>1, SelectTypes DEF Reselect
    <3>2. TypeResume' BY <1>2 DEF Reselect, TypeResume
    <3> QED BY <1>2, <3>1, <3>2, Frames, TypesNext DEF Reselect
  <2>2. CASE current # s
    <3>1. UNCHANGED <<pageVars, boxVars, sendVars, bgVars>>
      BY <1>2, <2>2 DEF Reselect, pageVars, boxVars, sendVars, bgVars
    <3>2. TypeResume' BY <1>2 DEF Reselect, TypeResume
    <3> QED BY <1>2, <3>1, <3>2, Frames, TypesNext DEF Reselect
  <2> QED BY <2>1, <2>2
<1>3. CASE PollEnds(s)
  <2>1. TypeBg' BY <1>3 DEF PollEnds, TypeBg, BgType
  <2>2. TypeResume' BY <1>3 DEF PollEnds, TypeResume
  <2> QED BY <1>3, <2>1, <2>2, Frames, TypesNext DEF PollEnds
<1>4. CASE RecoverFires(s)
  <2>1. TypeResume'
    <3>1. resumer' \in [Resumers -> [pc : {"no", "status", "asked", "reading"},
                                     ses : Sessions, run : Sends \cup {0}]]
      <4>1. CASE resumer' = resumer BY <4>1 DEF TypeResume
      <4>2. CASE resumer' # resumer
        <5>1. \E j \in Resumers : resumer[j].pc = "no" BY <1>4, <4>2 DEF RecoverFires
        <5>2. PICK i : i = CHOOSE j \in Resumers : resumer[j].pc = "no" OBVIOUS
        <5>3. i \in Resumers BY <5>1, <5>2
        <5>4. resumer' = [resumer EXCEPT ![i] = [pc |-> "asked", ses |-> s, run |-> 0]]
          BY <1>4, <4>2, <5>2 DEF RecoverFires
        <5> QED BY <5>3, <5>4 DEF TypeResume
      <4> QED BY <4>1, <4>2
    <3> QED BY <1>4, <3>1 DEF RecoverFires, TypeResume
  <2> QED BY <1>4, <2>1, Frames, TypesNext DEF RecoverFires
<1> QED BY <1>1, <1>2, <1>3, <1>4

LEMMA TypesResumeStep ==
  ASSUME Types,
         SelectSettles \/ \E i \in Resumers : StatusComes(i) \/ ResumeAnswered(i) \/ ResumeEnds(i)
  PROVE  Types'
<1> USE DEF Types
<1>1. CASE SelectSettles
  <2>0. nav \in Sessions BY <1>1 DEF SelectSettles, TypePage
  <2>1. TypePage' BY <1>1 DEF SelectSettles, TypePage
  <2>2. TypeBg' BY <1>1, <2>0 DEF SelectSettles, TypeBg, BgType
  <2>3. TypeResume' BY <1>1, <2>0 DEF SelectSettles, TypeResume
  <2> QED BY <1>1, <2>1, <2>2, <2>3, Frames, TypesNext DEF SelectSettles
<1>2. ASSUME NEW i \in Resumers, StatusComes(i) PROVE Types'
  <2>1. TypeResume' BY <1>2, ConstantFacts DEF StatusComes, TypeResume, NoResume
  <2> QED BY <1>2, <2>1, Frames, TypesNext DEF StatusComes
<1>3. ASSUME NEW i \in Resumers, ResumeAnswered(i) PROVE Types'
  <2>0. resumer[i].ses \in Sessions BY DEF TypeResume
  <2>1. LiveRun(resumer[i].ses) \subseteq Sends BY DEF LiveRun
  <2>2. TypeResume' BY <1>3, <2>0, <2>1, ConstantFacts DEF ResumeAnswered, TypeResume, NoResume
  <2>3. TypeStop' BY <1>3, <2>0, <2>1 DEF ResumeAnswered, TypeStop
  <2> QED BY <1>3, <2>2, <2>3, Frames, TypesNext DEF ResumeAnswered
<1>4. ASSUME NEW i \in Resumers, ResumeEnds(i) PROVE Types'
  <2>0. resumer[i].ses \in Sessions BY DEF TypeResume
  <2>1. TypeResume' BY <1>4, <2>0, ConstantFacts DEF ResumeEnds, TypeResume, NoResume
  <2> QED BY <1>4, <2>1, Frames, TypesNext DEF ResumeEnds
<1> QED BY <1>1, <1>2, <1>3, <1>4

LEMMA TypesWatch ==
  ASSUME Types, ProbeAsks \/ ProbeAnswered \/ ProbeHandled \/ TabRecovers
  PROVE  Types'
<1> USE DEF Types
<1>0. current \in Sessions /\ active[current] \in Sends \cup {0} BY DEF TypePage, TypeSend
<1>1. CASE ProbeAsks
  <2>1. TypeProbe'
    <3>1. incidents' \in 0 .. MaxIncidents BY <1>1, IncidentType DEF ProbeAsks
    <3> QED BY <1>0, <1>1, <3>1 DEF ProbeAsks, TypeProbe
  <2> QED BY <1>1, <2>1, Frames, TypesNext DEF ProbeAsks
<1>2. CASE ProbeAnswered
  <2>1. TypeProbe' BY <1>2 DEF ProbeAnswered, TypeProbe
  <2> QED BY <1>2, <2>1, Frames, TypesNext DEF ProbeAnswered
<1>3. CASE ProbeHandled
  <2>0. probe.ses \in Sessions /\ probe.snd \in Sends \cup {0} BY DEF TypeProbe
  <2>1. TypeProbe' BY <1>3, ConstantFacts DEF ProbeHandled, TypeProbe, NoProbe
  <2>2. TypeSend'
    <3>1. send' = send \/ send' = Abort(send, probe.snd) BY <1>3 DEF ProbeHandled
    <3>2. active' = active \/ active' = [active EXCEPT ![probe.ses] = 0]
      BY <1>3 DEF ProbeHandled
    <3> QED BY <1>3, <2>0, <3>1, <3>2, AbortFacts DEF ProbeHandled, TypeSend
  <2>3. TypePage' BY <1>3, <2>0, <1>0 DEF ProbeHandled, TypePage, TypeSend
  <2>4. TypeBox'
    <3>1. drain' \in BOOLEAN
      <4>1. drain' = drain \/ drain' = DrainTimer(FALSE, FALSE, queue) BY <1>3 DEF ProbeHandled
      <4> QED BY <4>1, DrainTimerType DEF TypeBox
    <3> QED BY <1>3, <3>1 DEF ProbeHandled, TypeBox
  <2> QED BY <1>3, <2>1, <2>2, <2>3, <2>4, Frames, TypesNext DEF ProbeHandled
<1>4. CASE TabRecovers
  <2>1. TypeSend' BY <1>0, <1>4, AbortFacts DEF TabRecovers, TypeSend
  <2>2. TypePage' BY <1>4 DEF TabRecovers, TypePage
  <2>3. TypeProbe' BY <1>4, ProbeTypes DEF TabRecovers
  <2> QED BY <1>4, <2>1, <2>2, <2>3, Frames, TypesNext DEF TabRecovers
<1> QED BY <1>1, <1>2, <1>3, <1>4

LEMMA TypesStep == Types /\ [Next]_vars => Types'
<1> SUFFICES ASSUME Types, [Next]_vars PROVE Types' OBVIOUS
<1>1. CASE User \/ Timers
  BY <1>1, TypesBoxStep, TypesMove DEF User, Timers
<1>2. CASE \E k \in Sends : Step(k) \/ FailPreflight(k)
  BY <1>2, TypesSendStep
<1>3. CASE \E k \in Sends : Delta(k) \/ Terminal(k) \/ LoseStream(k) \/ Timeout(k)
  BY <1>3, TypesReaderStep
<1>4. CASE \E k \in Sends : Server(k)
  BY <1>4, TypesServer
<1>5. CASE SelectSettles \/ \E i \in Resumers : StatusComes(i) \/ ResumeAnswered(i) \/ ResumeEnds(i)
  BY <1>5, TypesResumeStep
<1>6. CASE ProbeAsks \/ ProbeAnswered \/ ProbeHandled \/ TabRecovers
  BY <1>6, TypesWatch
<1>7. CASE UNCHANGED vars
  BY <1>7, Frames, TypesNext DEF vars, Types
<1> QED BY <1>1, <1>2, <1>3, <1>4, <1>5, <1>6, <1>7 DEF Next

\* Every variable of the page and of the server, as the page sees it, keeps its
\* type; in particular the queue, the box and the promote timer never hold more
\* texts together than were typed, although five actions move one between them.
THEOREM TypeCorrect == Spec => []TypeOK
<1>1. Spec => []Types BY TypesInit, TypesStep, PTL DEF Spec
<1> QED BY <1>1, TypesSuffice, PTL

-----------------------------------------------------------------------------
(* Generations, runs and stops. *)

\* Where a send is once it has committed.
Past == {"done"} \cup Open

\* The newest send of a chat has committed in it with the largest generation, no
\* two of a chat share one, and what is posted has committed.
Generations ==
    /\ \A s \in Sessions : latest[s] # 0 => send[latest[s]].pc \in Past /\ send[latest[s]].ses = s
    /\ \A k \in Sends : send[k].pc \in Past => /\ latest[send[k].ses] # 0
                                        /\ send[k].gen <= send[latest[send[k].ses]].gen
    /\ \A j, k \in Sends :
          send[j].pc \in Past /\ send[k].pc \in Past /\ send[j].ses = send[k].ses /\ send[j].gen = send[k].gen
            => j = k
    /\ \A k \in Sends : send[k].posted => send[k].pc \in Past

\* A run is of a committed send; the run a chat names is of a send of that chat.
Runs ==
    /\ \A k \in Sends : run[k] # "none" => send[k].pc \in Past
    /\ \A s \in Sessions : runId[s] # 0 => send[runId[s]].pc \in Past /\ send[runId[s]].ses = s

\* A Stop is queued only for a committed send, and while that send is not over it
\* is one that the user, or its timeout, wanted stopped.
Stops ==
    \A k \in Sends : pendingStop[k] # "no" =>
        send[k].pc \in Past /\ (send[k].pc \in Open => k \in stopWanted)

Inv == Types /\ Generations /\ RegistryIsLive /\ Runs /\ Stops

\* The two action properties, for one step.
StopStep ==
    \A r \in stopsSent' \ stopsSent :
       \E k \in stopWanted' : send[k].ses = send[r].ses /\ send[r].gen <= send[k].gen
PostStep ==
    \A j, k \in Sends :
       (~send[j].posted /\ send'[j].posted /\ send[k].posted /\ send[k].ses = send[j].ses)
         => send[k].gen < send[j].gen

\* What every action but Commit and Post does to the sends and the registry.
Moved(k) ==
    /\ send'[k].pc \in Past <=> send[k].pc \in Past
    /\ send[k].pc \in Past => send'[k].ses = send[k].ses /\ send'[k].gen = send[k].gen
    /\ send'[k].pc \in Open => send[k].pc \in Open
    /\ send'[k].posted => send[k].posted
    /\ send[k].pc \in Connected => send'[k].pc \in Connected \/ active' = Unregistered(k)
Quiet ==
    /\ latest' = latest
    /\ \A s \in Sessions : active'[s] \in {active[s], 0}
    /\ \A k \in Sends : Moved(k)

\* ... and those that leave the runs and the stops alone as well.
Calm == Quiet /\ UNCHANGED <<run, runId, pendingStop, stopsSent, stopWanted>>

LEMMA PcFacts ==
  /\ Connected \subseteq Open /\ Open \subseteq Past /\ "done" \in Past
  /\ \A c \in {"absent", "gate", "released"} : c \notin Past
  /\ "done" \notin Open /\ "committed" \in Open /\ "preflight" \in Open
  /\ "committed" \notin Connected /\ "preflight" \notin Connected
BY DEF Open, Connected, Past

LEMMA GenerationsKept == ASSUME Types, Generations, Quiet PROVE Generations'
<1>0. \A k \in Sends : send[k].ses \in Sessions BY DEF Types, TypeSend, SendType
<1>l. \A s \in Sessions : latest[s] \in Sends \cup {0} BY DEF Types, TypeSend
<1>m. latest' = latest /\ \A k \in Sends : Moved(k) BY DEF Quiet
<1>1. \A s \in Sessions : latest'[s] # 0 => send'[latest[s]].pc \in Past /\ send'[latest'[s]].ses = s
  BY <1>l, <1>m, Zenon DEF Generations, Moved
<1>2. \A k \in Sends : send'[k].pc \in Past => /\ latest'[send'[k].ses] # 0
                                        /\ send'[k].gen <= send'[latest'[send'[k].ses]].gen
  <2> TAKE k \in Sends
  <2> HAVE send'[k].pc \in Past
  <2>1. send[k].pc \in Past /\ send'[k].ses = send[k].ses /\ send'[k].gen = send[k].gen
    BY <1>m, Zenon DEF Moved
  <2>2. latest[send[k].ses] \in Sends /\ send[k].gen <= send[latest[send[k].ses]].gen
    BY <1>0, <1>l, <2>1, ZenonT(60) DEF Generations
  <2>3. send'[latest[send[k].ses]].gen = send[latest[send[k].ses]].gen
    BY <1>0, <1>m, <2>2, ConstantFacts, Zenon DEF Generations, Moved
  <2> QED BY <1>m, <2>1, <2>2, <2>3, ConstantFacts, Zenon
<1>3. \A j, k \in Sends :
        send'[j].pc \in Past /\ send'[k].pc \in Past /\ send'[j].ses = send'[k].ses /\ send'[j].gen = send'[k].gen
          => j = k
  <2> TAKE j, k \in Sends
  <2> HAVE /\ send'[j].pc \in Past /\ send'[k].pc \in Past
           /\ send'[j].ses = send'[k].ses /\ send'[j].gen = send'[k].gen
  <2>1. send[j].pc \in Past /\ send'[j].ses = send[j].ses /\ send'[j].gen = send[j].gen
    BY <1>m, Zenon DEF Moved
  <2>2. send[k].pc \in Past /\ send'[k].ses = send[k].ses /\ send'[k].gen = send[k].gen
    BY <1>m, Zenon DEF Moved
  <2> QED BY <2>1, <2>2, Zenon DEF Generations
<1>4. \A k \in Sends : send'[k].posted => send'[k].pc \in Past BY <1>m, Zenon DEF Generations, Moved
<1> QED BY <1>1, <1>2, <1>3, <1>4, <1>m, Zenon DEF Generations

LEMMA RegistryKept == ASSUME Types, RegistryIsLive, Quiet PROVE RegistryIsLive'
<1> SUFFICES ASSUME NEW s \in Sessions, active'[s] # 0
             PROVE  send'[active'[s]].ses = s /\ send'[active'[s]].pc \in Connected
  BY DEF RegistryIsLive
<1>1. active'[s] = active[s] /\ active[s] # 0 BY DEF Quiet
<1>2. PICK k \in Sends : k = active[s] BY <1>1 DEF Types, TypeSend
<1>3. send[k].ses = s /\ send[k].pc \in Connected BY <1>1, <1>2 DEF RegistryIsLive
<1>4. send[k].pc \in Past BY <1>3, PcFacts
<1>5. send'[k].ses = s BY <1>3, <1>4 DEF Quiet, Moved
<1>6. active' # Unregistered(k)
  <2>1. Unregistered(k)[s] = 0 BY <1>2, <1>3 DEF Unregistered, Types, TypeSend
  <2> QED BY <1>1, <2>1
<1>7. send'[k].pc \in Connected BY <1>3, <1>6 DEF Quiet, Moved
<1> QED BY <1>1, <1>2, <1>5, <1>7

LEMMA RunsKept == ASSUME Types, Runs, Quiet, UNCHANGED <<run, runId>> PROVE Runs'
<1>1. \A s \in Sessions : runId[s] \in Sends \cup {0} BY DEF Types, TypeStop
<1>2. \A k \in Sends : send[k].pc \in Past => send'[k].pc \in Past /\ send'[k].ses = send[k].ses
  BY DEF Quiet, Moved
<1>3. \A k \in Sends : run'[k] # "none" => send'[k].pc \in Past BY <1>2 DEF Runs
<1>4. \A s \in Sessions : runId'[s] # 0 => send'[runId[s]].pc \in Past /\ send'[runId'[s]].ses = s
  BY <1>1, <1>2 DEF Runs
<1> QED BY <1>3, <1>4, Zenon DEF Runs

LEMMA StopsKept == ASSUME Types, Stops, Quiet, UNCHANGED <<pendingStop, stopWanted>> PROVE Stops'
BY DEF Stops, Quiet, Moved

LEMMA PostQuiet == ASSUME Quiet PROVE PostStep
BY DEF Quiet, Moved, PostStep

LEMMA CalmSuffices ==
  ASSUME Inv, Types', Calm PROVE Inv' /\ StopStep /\ PostStep
<1>1. StopStep BY DEF Calm, StopStep
<1>2. Generations' /\ RegistryIsLive' /\ Runs' /\ Stops'
  BY GenerationsKept, RegistryKept, RunsKept, StopsKept DEF Inv, Calm
<1> QED BY <1>1, <1>2, PostQuiet DEF Inv, Calm

LEMMA AbortQuiet ==
  ASSUME Types, NEW c \in Sends \cup {0}, latest' = latest,
         \A s \in Sessions : active'[s] \in {active[s], 0},
         send' = Abort(send, c) \/ send' = send
  PROVE  Quiet
<1> SUFFICES ASSUME NEW k \in Sends PROVE Moved(k) BY DEF Quiet
<1>1. /\ send'[k].pc = send[k].pc /\ send'[k].ses = send[k].ses /\ send'[k].gen = send[k].gen
      /\ send'[k].posted = send[k].posted
  BY AbortFacts DEF Types
<1> QED BY <1>1 DEF Moved

\* One send takes a step that is neither its commit nor its POST.
LEMMA OneQuiet ==
  ASSUME Types, NEW k \in Sends, NEW rec, send' = [send EXCEPT ![k] = rec],
         latest' = latest, \A s \in Sessions : active'[s] \in {active[s], 0},
         rec.pc \in Past <=> send[k].pc \in Past,
         send[k].pc \in Past => rec.ses = send[k].ses /\ rec.gen = send[k].gen,
         rec.pc \in Open => send[k].pc \in Open,
         rec.posted => send[k].posted,
         send[k].pc \in Connected => rec.pc \in Connected \/ active' = Unregistered(k)
  PROVE  Quiet
<1> SUFFICES ASSUME NEW j \in Sends PROVE Moved(j) BY DEF Quiet
<1>1. CASE j = k
  <2>1. send'[j] = rec BY <1>1 DEF Types, TypeSend
  <2> QED BY <1>1, <2>1 DEF Moved
<1>2. CASE j # k
  <2>1. send'[j] = send[j] BY <1>2 DEF Types, TypeSend
  <2> QED BY <2>1 DEF Moved
<1> QED BY <1>1, <1>2

LEMMA FinallyStep ==
  ASSUME Inv, Types', NEW k \in Sends, NEW bg, NEW p, Finally(k, send, bg, p),
         send[k].pc \in Open, UNCHANGED run
  PROVE  Inv' /\ StopStep /\ PostStep
<1>1. Quiet
  <2> DEFINE rec == [send[k] EXCEPT !.pc = "done", !.aborted = FALSE, !.spoke = FALSE,
                                    !.timedOut = FALSE]
  <2>0. send[k] \in SendType BY DEF Inv, Types, TypeSend
  <2>1. /\ rec.pc = "done" /\ rec.ses = send[k].ses /\ rec.gen = send[k].gen
        /\ rec.posted = send[k].posted
    BY <2>0 DEF SendType
  <2>2. send' = [send EXCEPT ![k] = rec] BY DEF Finally, Inv, Types, TypeSend
  <2>3. active' = Unregistered(k) /\ latest' = latest BY DEF Finally
  <2>4. \A s \in Sessions : active'[s] \in {active[s], 0}
    BY <2>3 DEF Unregistered, Inv, Types, TypeSend
  <2>5. send[k].pc \in Past BY PcFacts
  <2> HIDE DEF rec
  <2> QED BY <2>1, <2>2, <2>3, <2>4, <2>5, PcFacts, OneQuiet DEF Inv
<1>2. Generations' /\ RegistryIsLive' BY <1>1, GenerationsKept, RegistryKept DEF Inv
<1>3. Runs' BY <1>1, RunsKept DEF Finally, Inv
<1>4. Stops'
  <2> SUFFICES ASSUME NEW j \in Sends, pendingStop'[j] # "no"
               PROVE  send'[j].pc \in Past /\ (send'[j].pc \in Open => j \in stopWanted')
    BY DEF Stops
  <2>1. j # k BY DEF Finally, Inv, Types, TypeStop
  <2>2. pendingStop'[j] = pendingStop[j] /\ (j \in stopWanted' <=> j \in stopWanted)
    BY <2>1 DEF Finally, Inv, Types, TypeStop
  <2> QED BY <1>1, <2>2 DEF Inv, Stops, Quiet, Moved
<1>5. StopStep BY DEF Finally, StopStep
<1> QED BY <1>1, <1>2, <1>3, <1>4, <1>5, PostQuiet DEF Inv

LEMMA StopBranchStep ==
  ASSUME Inv, Types', NEW q, StopBranch(q)
  PROVE  Inv' /\ StopStep /\ PostStep
<1>0. current \in Sessions BY DEF Inv, Types, TypePage
<1>1. Quiet
  <2>1. ControllerFor(current) \in Sends \cup {0}
    BY <1>0, ControllerType DEF Inv, Types
  <2>2. send' = Abort(send, ControllerFor(current)) \/ send' = send BY DEF StopBranch
  <2> QED BY <2>1, <2>2, AbortQuiet DEF StopBranch, Inv
<1>2. Generations' /\ RegistryIsLive' BY <1>1, GenerationsKept, RegistryKept DEF Inv
<1>3. Runs' BY <1>1, RunsKept DEF StopBranch, Inv
<1>4. Stops'
  <2> SUFFICES ASSUME NEW j \in Sends, pendingStop'[j] # "no"
               PROVE  send'[j].pc \in Past /\ (send'[j].pc \in Open => j \in stopWanted')
    BY DEF Stops
  <2>1. stopWanted \subseteq stopWanted' BY DEF StopBranch
  <2>2. CASE pendingStop[j] # "no"
    BY <1>1, <2>1, <2>2 DEF Inv, Stops, Quiet, Moved
  <2>3. CASE pendingStop[j] = "no"
    <3>1. j = latest[current] BY <2>3 DEF StopBranch, Inv, Types, TypeStop
    <3>2. j \in stopWanted' BY <3>1, ConstantFacts DEF StopBranch
    <3>3. send[j].pc \in Past BY <1>0, <3>1, ConstantFacts DEF Inv, Generations
    <3> QED BY <1>1, <3>2, <3>3 DEF Quiet, Moved
  <2> QED BY <2>2, <2>3
<1>5. StopStep
  <2> SUFFICES ASSUME NEW r \in stopsSent' \ stopsSent
               PROVE  \E k \in stopWanted' : send[k].ses = send[r].ses /\ send[r].gen <= send[k].gen
    BY DEF StopStep
  <2>1. r = runId[current] /\ r # 0 BY DEF StopBranch
  <2>2. r \in Sends /\ send[r].pc \in Past /\ send[r].ses = current
    BY <1>0, <2>1 DEF Inv, Runs, Types, TypeStop
  <2>3. latest[current] # 0 /\ send[r].gen <= send[latest[current]].gen
    BY <2>2 DEF Inv, Generations
  <2>4. latest[current] \in stopWanted' BY <2>3 DEF StopBranch
  <2>5. send[latest[current]].ses = current BY <1>0, <2>3 DEF Inv, Generations
  <2> QED BY <2>2, <2>3, <2>4, <2>5
<1> QED BY <1>1, <1>2, <1>3, <1>4, <1>5, PostQuiet DEF Inv

LEMMA OpenGateStep ==
  ASSUME Inv, Types', OpenGate PROVE Inv' /\ StopStep /\ PostStep
<1>1. PICK k \in Sends :
        /\ send[k].pc = "absent"
        /\ send' = [send EXCEPT ![k] = [NoSend EXCEPT !.pc = "gate", !.text = composer]]
  BY DEF OpenGate
<1> DEFINE rec == [NoSend EXCEPT !.pc = "gate", !.text = composer]
<1>2. rec.pc = "gate" /\ rec.posted = FALSE BY DEF NoSend
<1>3. send[k].pc \notin Past BY <1>1, PcFacts
<1>4. send' = [send EXCEPT ![k] = rec] BY <1>1
<1>5. latest' = latest /\ active' = active BY DEF OpenGate
<1>6. send[k].pc \notin Connected BY <1>1, PcFacts
<1> HIDE DEF rec
<1>7. Quiet BY <1>2, <1>3, <1>4, <1>5, <1>6, PcFacts, OneQuiet DEF Inv
<1> QED BY <1>7, CalmSuffices DEF Calm, OpenGate, stopVars

\* No send moves.
LEMMA StillCalm ==
  ASSUME Inv, Types', UNCHANGED <<sendVars, stopVars, run>>
  PROVE  Inv' /\ StopStep /\ PostStep
<1>1. Quiet BY AbortQuiet, Zenon DEF Inv, sendVars
<1> QED BY <1>1, CalmSuffices DEF Calm, stopVars

LEMMA BoxStep ==
  ASSUME Inv, Types', Type \/ UserSend \/ UserStop \/ UserQueue \/ UserPromote
                      \/ DrainFires \/ PromoteFires \/ TimerSubmit
  PROVE  Inv' /\ StopStep /\ PostStep
<1>1. CASE Type \/ UserQueue \/ DrainFires \/ PromoteFires
  BY <1>1, StillCalm DEF Type, UserQueue, DrainFires, PromoteFires
<1>2. CASE UserSend BY <1>2, OpenGateStep DEF UserSend
<1>3. CASE UserStop BY <1>3, StopBranchStep DEF UserStop
<1>4. CASE UserPromote BY <1>4, StillCalm, StopBranchStep DEF UserPromote
<1>5. CASE TimerSubmit BY <1>5, StillCalm, StopBranchStep, OpenGateStep DEF TimerSubmit
<1> QED BY <1>1, <1>2, <1>3, <1>4, <1>5

\* One send takes a step that is neither its commit, its POST nor its end.
LEMMA OneStep ==
  ASSUME Inv, Types', NEW k \in Sends, NEW rec, send' = [send EXCEPT ![k] = rec],
         UNCHANGED <<latest, active>>,
         rec.ses = send[k].ses, rec.gen = send[k].gen, rec.posted = send[k].posted,
         \/ rec.pc = send[k].pc
         \/ rec.pc = "released" /\ send[k].pc = "gate"
         \/ rec.pc \in {"preflight", "done"} /\ send[k].pc = "committed"
         \/ rec.pc \in Connected /\ send[k].pc \in Connected
  PROVE  Quiet
BY PcFacts, OneQuiet DEF Inv

LEMMA PostKeeps ==
  ASSUME Inv, Types', NEW k \in Sends, Post(k) PROVE Inv' /\ StopStep /\ PostStep
<1>0. /\ send[k].ses \in Sessions /\ send[k].pc = "preflight" /\ latest[send[k].ses] = k
      /\ send[k].pc \in Past
  BY PcFacts DEF Post, MayPost, Inv, Types, TypeSend, SendType
<1>1. \A j \in Sends :
        /\ send'[j].ses = send[j].ses /\ send'[j].gen = send[j].gen
        /\ send'[j].pc \in Past <=> send[j].pc \in Past
        /\ send[j].pc \in Connected => send'[j].pc \in Connected
        /\ send'[j].pc \in Open => send[j].pc \in Open
  <2> TAKE j \in Sends
  <2>1. CASE j # k
    <3>1. send'[j] = send[j] BY <2>1 DEF Post, Inv, Types, TypeSend
    <3> QED BY <3>1
  <2>2. CASE j = k
    <3>1. /\ send'[k].ses = send[k].ses /\ send'[k].gen = send[k].gen
          /\ send'[k].pc = "posting"
      BY DEF Post, Inv, Types, TypeSend, SendType
    <3>2. "posting" \in Past BY PcFacts DEF Connected
    <3> QED BY <1>0, <2>2, <3>1, <3>2, PcFacts
  <2> QED BY <2>1, <2>2
<1>2. \A j \in Sends : j # k => send'[j] = send[j]
  BY DEF Post, Inv, Types, TypeSend
<1>3. latest' = latest BY DEF Post
<1>4. Generations'
  <2>1. \A s \in Sessions : latest'[s] # 0 => send'[latest'[s]].pc \in Past /\ send'[latest'[s]].ses = s
    BY <1>1, <1>3 DEF Inv, Generations, Types, TypeSend
  <2>2. \A j \in Sends : send'[j].pc \in Past => /\ latest'[send'[j].ses] # 0
                                          /\ send'[j].gen <= send'[latest'[send'[j].ses]].gen
    <3> SUFFICES ASSUME NEW j \in Sends, send[j].pc \in Past
                 PROVE  /\ latest[send[j].ses] # 0
                        /\ send[j].gen <= send'[latest[send[j].ses]].gen
      BY <1>1, <1>3
    <3>1. latest[send[j].ses] # 0 /\ send[j].gen <= send[latest[send[j].ses]].gen
      BY DEF Inv, Generations
    <3>2. latest[send[j].ses] \in Sends BY <3>1 DEF Inv, Types, TypeSend, SendType
    <3> QED BY <1>1, <3>1, <3>2
  <2>3. \A i, j \in Sends :
          send'[i].pc \in Past /\ send'[j].pc \in Past /\ send'[i].ses = send'[j].ses
            /\ send'[i].gen = send'[j].gen => i = j
    BY <1>1 DEF Inv, Generations
  <2>4. \A j \in Sends : send'[j].posted => send'[j].pc \in Past
    BY <1>0, <1>1, <1>2 DEF Inv, Generations
  <2> QED BY <2>1, <2>2, <2>3, <2>4, Zenon DEF Generations
<1>5. RegistryIsLive'
  <2> SUFFICES ASSUME NEW s \in Sessions, active'[s] # 0
               PROVE  send'[active'[s]].ses = s /\ send'[active'[s]].pc \in Connected
    BY DEF RegistryIsLive
  <2>1. CASE s = send[k].ses
    <3>1. active'[s] = k BY <2>1 DEF Post, Inv, Types, TypeSend
    <3>2. send'[k].pc = "posting" BY DEF Post, Inv, Types, TypeSend
    <3> QED BY <1>1, <2>1, <3>1, <3>2 DEF Connected
  <2>2. CASE s # send[k].ses
    <3>1. active'[s] = active[s] BY <2>2 DEF Post, Inv, Types, TypeSend
    <3>2. active[s] \in Sends BY <3>1 DEF Inv, Types, TypeSend
    <3> QED BY <1>1, <3>1, <3>2 DEF Inv, RegistryIsLive
  <2> QED BY <2>1, <2>2
<1>6. Runs'
  <2>1. UNCHANGED <<run, runId>> BY DEF Post, stopVars
  <2> QED BY <1>1, <2>1 DEF Inv, Runs, Types, TypeStop
<1>7. Stops'
  <2>1. UNCHANGED <<pendingStop, stopWanted>> BY DEF Post, stopVars
  <2> QED BY <1>1, <2>1 DEF Inv, Stops
<1>8. StopStep BY DEF Post, stopVars, StopStep
<1>9. PostStep
  <2> SUFFICES ASSUME NEW i \in Sends, NEW j \in Sends, ~send[i].posted, send'[i].posted,
                      send[j].posted, send[j].ses = send[i].ses
               PROVE  send[j].gen < send[i].gen
    BY DEF PostStep
  <2>1. i = k BY <1>2
  <2>2. j # k BY <2>1
  <2>3. send[j].pc \in Past BY DEF Inv, Generations
  <2>4. send[j].gen <= send[k].gen BY <1>0, <2>1, <2>3 DEF Inv, Generations
  <2>5. send[j].gen # send[k].gen BY <1>0, <2>1, <2>2, <2>3 DEF Inv, Generations
  <2>6. send[j].gen \in Nat /\ send[k].gen \in Nat BY DEF Inv, Types, TypeSend, SendType
  <2> QED BY <2>1, <2>4, <2>5, <2>6
<1> QED BY <1>4, <1>5, <1>6, <1>7, <1>8, <1>9 DEF Inv

LEMMA CommitKeeps ==
  ASSUME Inv, Types', NEW k \in Sends, Commit(k) PROVE Inv' /\ StopStep /\ PostStep
<1>0. current \in Sessions /\ send[k].pc = "gate" /\ send[k].pc \notin Past /\ k # 0
  BY PcFacts, ConstantFacts DEF Commit, Inv, Types, TypePage
<1>1. \A j \in Sends : j # k => send'[j] = send[j] BY DEF Commit, Inv, Types, TypeSend
<1>2. /\ send'[k].pc = "committed" /\ send'[k].ses = current
      /\ send'[k].gen = Generation(current) + 1 /\ send'[k].posted = send[k].posted
  <2>1. send[k] \in SendType BY DEF Inv, Types, TypeSend
  <2>2. PICK g : g = Generation(current) + 1 OBVIOUS
  <2>3. send' = [send EXCEPT ![k].pc = "committed", ![k].ses = current, ![k].gen = g]
    BY <2>2 DEF Commit
  <2>4. send'[k].pc = "committed" /\ send'[k].ses = current /\ send'[k].gen = g
        /\ send'[k].posted = send[k].posted
    BY <2>1, <2>3 DEF Inv, Types, TypeSend, SendType
  <2> QED BY <2>2, <2>4
<1>3. latest'[current] = k /\ \A s \in Sessions : s # current => latest'[s] = latest[s]
  BY <1>0 DEF Commit, Inv, Types, TypeSend
<1>4. send'[k].pc \in Past BY <1>2, PcFacts
<1>5. \A j \in Sends : send[j].pc \in Past => j # k BY <1>0
<1>6. \A j \in Sends : j # k => (send'[j].pc \in Past <=> send[j].pc \in Past) BY <1>1
<1>7. \A j \in Sends : send[j].pc \in Past /\ send[j].ses = current
                       => send[j].gen \in Nat /\ send'[k].gen \in Nat /\ send[j].gen < send'[k].gen
  <2> SUFFICES ASSUME NEW j \in Sends, send[j].pc \in Past, send[j].ses = current
               PROVE  send[j].gen \in Nat /\ send'[k].gen \in Nat /\ send[j].gen < send'[k].gen
    OBVIOUS
  <2>1. latest[current] # 0 /\ send[j].gen <= send[latest[current]].gen
    BY DEF Inv, Generations
  <2>2. latest[current] \in Sends BY <1>0, <2>1 DEF Inv, Types, TypeSend
  <2>3. send[j].gen \in Nat /\ send[latest[current]].gen \in Nat
    BY <2>2 DEF Inv, Types, TypeSend, SendType
  <2>4. send'[k].gen = send[latest[current]].gen + 1 BY <1>2, <2>1 DEF Generation
  <2> QED BY <2>1, <2>3, <2>4
<1>g. send'[k].gen \in Nat BY DEF Types, TypeSend, SendType
<1>8. Generations'
  <2>1. \A s \in Sessions : latest'[s] # 0 => send'[latest'[s]].pc \in Past /\ send'[latest'[s]].ses = s
    <3> SUFFICES ASSUME NEW s \in Sessions, latest'[s] # 0
                 PROVE  send'[latest'[s]].pc \in Past /\ send'[latest'[s]].ses = s
      OBVIOUS
    <3>1. CASE s = current BY <1>2, <1>3, <1>4, <3>1
    <3>2. CASE s # current
      <4>1. latest'[s] = latest[s] /\ latest[s] \in Sends /\ send[latest[s]].pc \in Past
            /\ send[latest[s]].ses = s
        BY <1>3, <3>2 DEF Inv, Generations, Types, TypeSend
      <4> QED BY <1>1, <1>5, <1>6, <4>1
    <3> QED BY <3>1, <3>2
  <2>2. \A j \in Sends : send'[j].pc \in Past => /\ latest'[send'[j].ses] # 0
                                          /\ send'[j].gen <= send'[latest'[send'[j].ses]].gen
    <3> SUFFICES ASSUME NEW j \in Sends, send'[j].pc \in Past
                 PROVE  /\ latest'[send'[j].ses] # 0
                        /\ send'[j].gen <= send'[latest'[send'[j].ses]].gen
      OBVIOUS
    <3>1. CASE j = k BY <1>0, <1>2, <1>3, <1>g, <3>1
    <3>2. CASE j # k /\ send[j].ses = current
      <4>1. send[j].pc \in Past /\ send'[j] = send[j] BY <1>1, <1>6, <3>2
      <4> QED BY <1>0, <1>3, <1>7, <3>2, <4>1
    <3>3. CASE j # k /\ send[j].ses # current
      <4>1. send[j].pc \in Past /\ send'[j] = send[j] BY <1>1, <1>6, <3>3
      <4>2. latest[send[j].ses] # 0 /\ send[j].gen <= send[latest[send[j].ses]].gen
        BY <4>1 DEF Inv, Generations
      <4>3. send[j].ses \in Sessions /\ latest[send[j].ses] \in Sends
        BY <4>2 DEF Inv, Types, TypeSend, SendType
      <4>4. send[latest[send[j].ses]].pc \in Past BY <4>2, <4>3 DEF Inv, Generations
      <4>5. send'[latest[send[j].ses]] = send[latest[send[j].ses]] BY <1>1, <1>5, <4>3, <4>4
      <4>6. latest'[send[j].ses] = latest[send[j].ses] BY <1>3, <3>3, <4>3
      <4> QED BY <4>1, <4>2, <4>5, <4>6
    <3> QED BY <3>1, <3>2, <3>3
  <2>3. \A i, j \in Sends :
          send'[i].pc \in Past /\ send'[j].pc \in Past /\ send'[i].ses = send'[j].ses
            /\ send'[i].gen = send'[j].gen => i = j
    <3> SUFFICES ASSUME NEW i \in Sends, NEW j \in Sends, i # j, send'[i].pc \in Past, send'[j].pc \in Past,
                        send'[i].ses = send'[j].ses, send'[i].gen = send'[j].gen
                 PROVE  FALSE
      BY Zenon
    <3>1. CASE i = k
      <4>1. send[j].pc \in Past /\ send'[j] = send[j] BY <1>1, <1>6, <3>1
      <4> QED BY <1>2, <1>7, <3>1, <4>1
    <3>2. CASE j = k
      <4>1. send[i].pc \in Past /\ send'[i] = send[i] BY <1>1, <1>6, <3>2
      <4> QED BY <1>2, <1>7, <3>2, <4>1
    <3>3. CASE i # k /\ j # k
      <4>1. send[i].pc \in Past /\ send[j].pc \in Past /\ send'[i] = send[i] /\ send'[j] = send[j]
        BY <1>1, <1>6, <3>3
      <4> QED BY <4>1 DEF Inv, Generations
    <3> QED BY <3>1, <3>2, <3>3
  <2>4. \A j \in Sends : send'[j].posted => send'[j].pc \in Past
    BY <1>1, <1>4, <1>6 DEF Inv, Generations
  <2> QED BY <2>1, <2>2, <2>3, <2>4, Zenon DEF Generations
<1>9. RegistryIsLive'
  <2> SUFFICES ASSUME NEW s \in Sessions, active[s] # 0
               PROVE  send'[active[s]].ses = s /\ send'[active[s]].pc \in Connected
    BY DEF RegistryIsLive, Commit
  <2>1. active[s] \in Sends /\ send[active[s]].ses = s /\ send[active[s]].pc \in Connected
    BY DEF Inv, RegistryIsLive, Types, TypeSend
  <2>2. active[s] # k BY <1>0, <2>1, PcFacts
  <2> QED BY <1>1, <2>1, <2>2
<1>10. Runs'
  <2>1. run' = run /\ runId' = [runId EXCEPT ![current] = 0] BY DEF Commit
  <2>2. \A j \in Sends : run'[j] # "none" => send'[j].pc \in Past
    BY <1>4, <1>6, <2>1 DEF Inv, Runs
  <2>3. \A s \in Sessions : runId'[s] # 0 => send'[runId'[s]].pc \in Past /\ send'[runId'[s]].ses = s
    <3> SUFFICES ASSUME NEW s \in Sessions, runId'[s] # 0
                 PROVE  send'[runId'[s]].pc \in Past /\ send'[runId'[s]].ses = s
      OBVIOUS
    <3>1. runId'[s] = runId[s] /\ runId[s] \in Sends BY <2>1 DEF Inv, Types, TypeStop
    <3>2. send[runId[s]].pc \in Past /\ send[runId[s]].ses = s BY <3>1 DEF Inv, Runs
    <3> QED BY <1>1, <1>5, <1>6, <3>1, <3>2
  <2> QED BY <2>2, <2>3, Zenon DEF Runs
<1>11. Stops'
  <2>1. UNCHANGED <<pendingStop, stopWanted>> BY DEF Commit
  <2> QED BY <1>0, <1>1, <1>6, <2>1 DEF Inv, Stops
<1>12. StopStep BY DEF Commit, StopStep
<1>13. PostStep BY <1>1, <1>2 DEF PostStep
<1> QED BY <1>8, <1>9, <1>10, <1>11, <1>12, <1>13 DEF Inv

LEMMA HeadersKeeps ==
  ASSUME Inv, Types', NEW k \in Sends, Headers(k) PROVE Inv' /\ StopStep /\ PostStep
<1>0. /\ send[k] \in SendType /\ send[k].pc = "posting" /\ send[k].ses \in Sessions
      /\ send[k].pc \in Open /\ send[k].pc \in Past /\ "reading" \in Connected
  BY PcFacts DEF Headers, Inv, Types, TypeSend, SendType, Connected
<1>1. Quiet
  <2>1. PICK b : b = (pendingStop[k] = "ctrl") OBVIOUS
  <2> DEFINE rec == [send[k] EXCEPT !.pc = "reading", !.aborted = b]
  <2>2. /\ rec.pc = "reading" /\ rec.ses = send[k].ses /\ rec.gen = send[k].gen
        /\ rec.posted = send[k].posted
    BY <1>0, Zenon DEF SendType
  <2>3. send' = [send EXCEPT ![k] = rec]
    <3>1. send' = [send EXCEPT ![k].pc = "reading", ![k].aborted = b]
      BY <2>1, Zenon DEF Headers
    <3> QED BY <3>1 DEF Inv, Types, TypeSend
  <2>4. UNCHANGED <<latest, active>> BY DEF Headers
  <2> HIDE DEF rec
  <2> QED BY <1>0, <2>2, <2>3, <2>4, OneStep DEF Connected
<1>2. Generations' /\ RegistryIsLive' BY <1>1, GenerationsKept, RegistryKept DEF Inv
<1>3. Runs'
  <2>1. \A j \in Sends : send[j].pc \in Past => send'[j].pc \in Past /\ send'[j].ses = send[j].ses
    BY <1>1 DEF Quiet, Moved
  <2>2. \A s \in Sessions : runId'[s] = runId[s] \/ (runId'[s] = k /\ s = send[k].ses)
    BY DEF Headers, Inv, Types, TypeStop
  <2>3. run' = run BY DEF Headers
  <2>4. \A s \in Sessions : runId[s] \in Sends \cup {0} BY DEF Inv, Types, TypeStop
  <2> QED BY <1>0, <2>1, <2>2, <2>3, <2>4 DEF Inv, Runs
<1>4. Stops'
  <2> SUFFICES ASSUME NEW j \in Sends, pendingStop'[j] # "no"
               PROVE  send'[j].pc \in Past /\ (send'[j].pc \in Open => j \in stopWanted')
    BY DEF Stops
  <2>1. pendingStop[j] # "no" /\ stopWanted' = stopWanted
    BY DEF Headers, Inv, Types, TypeStop
  <2> QED BY <1>1, <2>1 DEF Inv, Stops, Quiet, Moved
<1>5. StopStep
  <2> SUFFICES ASSUME NEW r \in stopsSent' \ stopsSent
               PROVE  \E j \in stopWanted' : send[j].ses = send[r].ses /\ send[r].gen <= send[j].gen
    BY DEF StopStep
  <2>1. r = k /\ pendingStop[k] # "no" BY DEF Headers, FlushedStop
  <2>2. k \in stopWanted' BY <1>0, <2>1 DEF Inv, Stops, Headers
  <2>3. send[k].gen \in Nat BY <1>0 DEF SendType
  <2> QED BY <2>1, <2>2, <2>3
<1> QED BY <1>1, <1>2, <1>3, <1>4, <1>5, PostQuiet DEF Inv

LEMMA TimeoutKeeps ==
  ASSUME Inv, Types', NEW k \in Sends, Timeout(k) PROVE Inv' /\ StopStep /\ PostStep
<1>0. /\ send[k] \in SendType /\ send[k].ses \in Sessions /\ send[k].gen \in Nat
      /\ send[k].pc \in Past
  BY PcFacts DEF Timeout, Inv, Types, TypeSend, SendType, Connected
<1>1. Quiet
  <2> DEFINE cut == [send[k] EXCEPT !.timedOut = TRUE, !.aborted = TRUE]
             late == [send[k] EXCEPT !.timedOut = TRUE]
  <2>1. /\ cut.pc = send[k].pc /\ cut.ses = send[k].ses /\ cut.gen = send[k].gen
        /\ cut.posted = send[k].posted
    BY <1>0 DEF SendType
  <2>2. /\ late.pc = send[k].pc /\ late.ses = send[k].ses /\ late.gen = send[k].gen
        /\ late.posted = send[k].posted
    BY <1>0 DEF SendType
  <2>3. send' = [send EXCEPT ![k] = cut] \/ send' = [send EXCEPT ![k] = late]
    BY DEF Timeout, Inv, Types, TypeSend
  <2>4. UNCHANGED <<latest, active>> BY DEF Timeout, sendVars
  <2> HIDE DEF cut, late
  <2> QED BY <2>1, <2>2, <2>3, <2>4, OneStep
<1>2. Generations' /\ RegistryIsLive' BY <1>1, GenerationsKept, RegistryKept DEF Inv
<1>3. Runs' BY <1>1, RunsKept DEF Timeout, Inv
<1>4. Stops'
  <2> SUFFICES ASSUME NEW j \in Sends, pendingStop'[j] # "no"
               PROVE  send'[j].pc \in Past /\ (send'[j].pc \in Open => j \in stopWanted')
    BY DEF Stops
  <2>1. stopWanted' = stopWanted \cup {k} BY DEF Timeout
  <2>2. CASE j = k BY <1>0, <1>1, <2>1, <2>2 DEF Quiet, Moved
  <2>3. CASE j # k
    <3>1. pendingStop'[j] = pendingStop[j] BY <2>3 DEF Timeout, Inv, Types, TypeStop
    <3> QED BY <1>1, <2>1, <3>1 DEF Inv, Stops, Quiet, Moved
  <2> QED BY <2>2, <2>3
<1>5. StopStep
  <2> SUFFICES ASSUME NEW r \in stopsSent' \ stopsSent
               PROVE  \E j \in stopWanted' : send[j].ses = send[r].ses /\ send[r].gen <= send[j].gen
    BY DEF StopStep
  <2>1. /\ latest[send[k].ses] = k /\ r = runId[send[k].ses] /\ r # 0
    BY DEF Timeout
  <2>2. r \in Sends /\ send[r].pc \in Past /\ send[r].ses = send[k].ses
    BY <1>0, <2>1 DEF Inv, Runs, Types, TypeStop
  <2>3. send[r].gen <= send[k].gen BY <2>1, <2>2 DEF Inv, Generations
  <2>4. k \in stopWanted' BY DEF Timeout
  <2> QED BY <2>2, <2>3, <2>4
<1> QED BY <1>1, <1>2, <1>3, <1>4, <1>5, PostQuiet DEF Inv

LEMMA PreflightKeeps ==
  ASSUME Inv, Types', NEW k \in Sends, StartPreflight(k) PROVE Inv' /\ StopStep /\ PostStep
<1>0. send[k] \in SendType /\ send[k].pc = "committed"
  BY DEF StartPreflight, Inv, Types, TypeSend
<1>1. Quiet
  <2>1. PICK c \in {"done", "preflight"} : send' = [send EXCEPT ![k].pc = c]
    BY DEF StartPreflight
  <2> DEFINE rec == [send[k] EXCEPT !.pc = c]
  <2>2. /\ rec.pc = c /\ rec.ses = send[k].ses /\ rec.gen = send[k].gen
        /\ rec.posted = send[k].posted
    BY <1>0 DEF SendType
  <2>3. send' = [send EXCEPT ![k] = rec] BY <2>1 DEF Inv, Types, TypeSend
  <2>4. UNCHANGED <<latest, active>> BY DEF StartPreflight
  <2> HIDE DEF rec
  <2> QED BY <1>0, <2>1, <2>2, <2>3, <2>4, OneStep
<1>2. Generations' /\ RegistryIsLive' BY <1>1, GenerationsKept, RegistryKept DEF Inv
<1>3. Runs' BY <1>1, RunsKept DEF StartPreflight, Inv
<1>4. Stops'
  <2> SUFFICES ASSUME NEW j \in Sends, pendingStop'[j] # "no"
               PROVE  send'[j].pc \in Past /\ (send'[j].pc \in Open => j \in stopWanted')
    BY DEF Stops
  <2>1. pendingStop[j] # "no" BY DEF StartPreflight
  <2>2. /\ send[j].pc \in Past /\ send'[j].pc \in Past
        /\ send'[j].pc \in Open => send[j].pc \in Open /\ j \in stopWanted
    BY <1>1, <2>1 DEF Inv, Stops, Quiet, Moved
  <2>3. CASE stopWanted' = stopWanted BY <2>2, <2>3
  <2>4. CASE stopWanted' # stopWanted
    <3>1. send' = [send EXCEPT ![k].pc = "done"] /\ stopWanted' = stopWanted \ {k}
      BY <2>4 DEF StartPreflight
    <3>2. send'[k].pc = "done" BY <1>0, <3>1 DEF Inv, Types, TypeSend, SendType
    <3> QED BY <2>2, <3>1, <3>2, PcFacts
  <2> QED BY <2>3, <2>4
<1>5. StopStep BY DEF StartPreflight, StopStep
<1> QED BY <1>1, <1>2, <1>3, <1>4, <1>5, PostQuiet DEF Inv

\* The steps of a send that touch neither the registry, the runs nor the stops.
LEMMA PlainStep ==
  ASSUME Inv, Types', NEW k \in Sends,
         ReleaseGate(k) \/ Done(k) \/ GraceEnds(k) \/ Delta(k) \/ Terminal(k)
  PROVE  Inv' /\ StopStep /\ PostStep
<1>0. send[k] \in SendType BY DEF Inv, Types, TypeSend
<1>1. /\ UNCHANGED <<latest, active, run, runId, pendingStop, stopsSent, stopWanted>>
  BY DEF ReleaseGate, Done, GraceEnds, Delta, Terminal, sendVars, stopVars
<1>2. \E rec : /\ send' = [send EXCEPT ![k] = rec]
               /\ rec.ses = send[k].ses /\ rec.gen = send[k].gen /\ rec.posted = send[k].posted
               /\ \/ rec.pc = send[k].pc
                  \/ rec.pc = "released" /\ send[k].pc = "gate"
                  \/ rec.pc \in Connected /\ send[k].pc \in Connected
  <2>1. CASE ReleaseGate(k)
    <3> WITNESS [send[k] EXCEPT !.pc = "released"]
    <3> QED BY <1>0, <2>1 DEF ReleaseGate, SendType, Inv, Types, TypeSend
  <2>2. CASE Done(k)
    <3> WITNESS [send[k] EXCEPT !.pc = "doneSeen"]
    <3> QED BY <1>0, <2>2 DEF Done, SendType, Inv, Types, TypeSend, Connected
  <2>3. CASE GraceEnds(k)
    <3> WITNESS [send[k] EXCEPT !.aborted = TRUE]
    <3> QED BY <1>0, <2>3 DEF GraceEnds, SendType, Inv, Types, TypeSend
  <2>4. CASE Delta(k) \/ Terminal(k)
    <3> WITNESS [send[k] EXCEPT !.spoke = TRUE]
    <3> QED BY <1>0, <2>4 DEF Delta, Terminal, SendType, Inv, Types, TypeSend
  <2> QED BY <2>1, <2>2, <2>3, <2>4
<1>3. Quiet
  <2>1. PICK rec : /\ send' = [send EXCEPT ![k] = rec]
                   /\ rec.ses = send[k].ses /\ rec.gen = send[k].gen /\ rec.posted = send[k].posted
                   /\ \/ rec.pc = send[k].pc
                      \/ rec.pc = "released" /\ send[k].pc = "gate"
                      \/ rec.pc \in Connected /\ send[k].pc \in Connected
    BY <1>2
  <2> QED BY <1>1, <2>1, OneStep
<1> QED BY <1>1, <1>3, CalmSuffices DEF Calm

LEMMA EndStep ==
  ASSUME Inv, Types', NEW k \in Sends,
         \/ DropSuperseded(k) \/ Refused(k) \/ Close(k) \/ FailPreflight(k)
         \/ ErrorEvent(k) \/ AbortSeen(k) \/ LoseStream(k)
  PROVE  Inv' /\ StopStep /\ PostStep
<1>1. send[k].pc \in Open
  BY PcFacts DEF DropSuperseded, Refused, Close, FailPreflight, ErrorEvent, AbortSeen, LoseStream,
                 Connected
<1>2. CASE DropSuperseded(k) \/ Refused(k) \/ Close(k)
  BY <1>1, <1>2, FinallyStep DEF DropSuperseded, Refused, Close
<1>3. CASE FailPreflight(k) BY <1>1, <1>3, FinallyStep DEF FailPreflight
<1>4. CASE ErrorEvent(k) \/ AbortSeen(k) \/ LoseStream(k)
  <2>1. Catch(k, TRUE) \/ Catch(k, FALSE) BY <1>4 DEF ErrorEvent, AbortSeen, LoseStream
  <2>2. \E bg : Finally(k, send, bg, Page) BY <2>1 DEF Catch
  <2>3. run' = run BY <2>1 DEF Catch
  <2> QED BY <1>1, <2>2, <2>3, FinallyStep
<1> QED BY <1>2, <1>3, <1>4

LEMMA AbortStep ==
  ASSUME Inv, Types', NEW c \in Sends \cup {0},
         send' = Abort(send, c) \/ send' = send,
         \A s \in Sessions : active'[s] \in {active[s], 0},
         UNCHANGED <<latest, stopVars, run>>
  PROVE  Inv' /\ StopStep /\ PostStep
<1>1. Quiet BY AbortQuiet DEF Inv
<1> QED BY <1>1, CalmSuffices DEF Calm, stopVars

LEMMA MoveStep ==
  ASSUME Inv, Types', NEW s \in Sessions,
         UserSelects(s) \/ Reselect(s) \/ PollEnds(s) \/ RecoverFires(s)
  PROVE  Inv' /\ StopStep /\ PostStep
<1>1. CASE UserSelects(s) \/ (Reselect(s) /\ current = s)
  <2>1. ControllerFor(s) \in Sends \cup {0} BY ControllerType DEF Inv, Types
  <2>2. SelectSession(s) BY <1>1 DEF UserSelects, Reselect
  <2>3. send' = Abort(send, ControllerFor(s)) \/ send' = send BY <2>2 DEF SelectSession
  <2>4. UNCHANGED <<latest, active, stopVars, run>> BY <1>1 DEF UserSelects, Reselect
  <2> QED BY <2>1, <2>3, <2>4, AbortStep
<1>2. CASE (Reselect(s) /\ current # s) \/ PollEnds(s) \/ RecoverFires(s)
  <2>1. UNCHANGED <<sendVars, stopVars, run>>
    BY <1>2 DEF Reselect, PollEnds, RecoverFires, sendVars
  <2> QED BY <2>1, StillCalm
<1> QED BY <1>1, <1>2

LEMMA WatchStep ==
  ASSUME Inv, Types', ProbeAsks \/ ProbeAnswered \/ ProbeHandled \/ TabRecovers
  PROVE  Inv' /\ StopStep /\ PostStep
<1>1. CASE ProbeAsks \/ ProbeAnswered
  BY <1>1, StillCalm DEF ProbeAsks, ProbeAnswered
<1>2. CASE ProbeHandled
  <2>1. probe.snd \in Sends \cup {0} BY DEF Inv, Types, TypeProbe
  <2>2. send' = Abort(send, probe.snd) \/ send' = send BY <1>2 DEF ProbeHandled
  <2>3. \A s \in Sessions : active'[s] \in {active[s], 0}
    BY <1>2 DEF ProbeHandled, Inv, Types, TypeSend
  <2>4. UNCHANGED <<latest, stopVars, run>> BY <1>2 DEF ProbeHandled
  <2> QED BY <2>1, <2>2, <2>3, <2>4, AbortStep
<1>3. CASE TabRecovers
  <2>1. active[current] \in Sends \cup {0} BY DEF Inv, Types, TypePage, TypeSend
  <2>2. send' = Abort(send, active[current]) BY <1>3 DEF TabRecovers
  <2>3. \A s \in Sessions : active'[s] \in {active[s], 0}
    BY <1>3 DEF TabRecovers, Inv, Types, TypeSend
  <2>4. UNCHANGED <<latest, stopVars, run>> BY <1>3 DEF TabRecovers
  <2> QED BY <2>1, <2>2, <2>3, <2>4, AbortStep
<1> QED BY <1>1, <1>2, <1>3

\* No send moves; the runs, or the run a chat names, do.
LEMMA RunStep ==
  ASSUME Inv, Types', UNCHANGED <<sendVars, pendingStop, stopsSent, stopWanted>>, Runs'
  PROVE  Inv' /\ StopStep /\ PostStep
<1>1. Quiet BY AbortQuiet, Zenon DEF Inv, sendVars
<1>2. Generations' /\ RegistryIsLive' /\ Stops'
  BY <1>1, GenerationsKept, RegistryKept, StopsKept DEF Inv
<1>3. StopStep BY DEF StopStep
<1> QED BY <1>1, <1>2, <1>3, PostQuiet DEF Inv

LEMMA ServerStep ==
  ASSUME Inv, Types', NEW k \in Sends, Server(k) PROVE Inv' /\ StopStep /\ PostStep
<1>1. UNCHANGED <<sendVars, stopVars>>
  BY DEF Server, ServerStarts, ServerRefuses, ServerEnds, ServerFails
<1>2. UNCHANGED <<send, runId>> BY <1>1 DEF sendVars, stopVars
<1>3. \A j \in Sends : run'[j] # "none" => send[j].pc \in Past
  <2> SUFFICES ASSUME NEW j \in Sends, run'[j] # "none" PROVE send[j].pc \in Past OBVIOUS
  <2>1. CASE run[j] # "none" BY <2>1 DEF Inv, Runs
  <2>2. CASE run[j] = "none"
    <3>1. j = k /\ (send[k].posted \/ send[k].pc = "posting")
      BY <2>2 DEF Server, ServerStarts, ServerRefuses, ServerEnds, ServerFails, LiveRun,
                  Inv, Types, TypeRun
    <3> QED BY <3>1, PcFacts DEF Inv, Generations, Connected
  <2> QED BY <2>1, <2>2
<1>4. Runs' BY <1>2, <1>3 DEF Inv, Runs
<1> QED BY <1>1, <1>4, RunStep DEF stopVars

LEMMA ResumeStep ==
  ASSUME Inv, Types',
         SelectSettles \/ \E i \in Resumers : StatusComes(i) \/ ResumeAnswered(i) \/ ResumeEnds(i)
  PROVE  Inv' /\ StopStep /\ PostStep
<1>1. CASE SelectSettles BY <1>1, StillCalm DEF SelectSettles
<1>2. ASSUME NEW i \in Resumers, StatusComes(i) \/ ResumeEnds(i)
      PROVE  Inv' /\ StopStep /\ PostStep
  BY <1>2, StillCalm DEF StatusComes, ResumeEnds
<1>3. ASSUME NEW i \in Resumers, ResumeAnswered(i)
      PROVE  Inv' /\ StopStep /\ PostStep
  <2>1. UNCHANGED <<sendVars, pendingStop, stopsSent, stopWanted, run>>
    BY <1>3 DEF ResumeAnswered
  <2>2. /\ \A j \in LiveRun(resumer[i].ses) : /\ j \in Sends /\ run[j] # "none"
                                             /\ send[j].ses = resumer[i].ses
    BY DEF LiveRun
  <2>3. \/ runId' = runId
        \/ \E r \in LiveRun(resumer[i].ses) : runId' = [runId EXCEPT ![resumer[i].ses] = r]
    BY <1>3 DEF ResumeAnswered
  <2>4. \A s \in Sessions : runId'[s] = runId[s]
           \/ (run[runId'[s]] # "none" /\ runId'[s] \in Sends /\ send[runId'[s]].ses = s)
    BY <2>2, <2>3 DEF Inv, Types, TypeStop
  <2>5. UNCHANGED send BY <2>1 DEF sendVars
  <2>6. Runs' BY <2>1, <2>4, <2>5 DEF Inv, Runs
  <2> QED BY <2>1, <2>6, RunStep
<1> QED BY <1>1, <1>2, <1>3

LEMMA InvInit == Init => Inv
<1> SUFFICES ASSUME Init PROVE Inv OBVIOUS
<1>1. Types BY TypesInit
<1>2. /\ \A k \in Sends : send[k].pc \notin Past /\ send[k].posted = FALSE
      /\ \A s \in Sessions : latest[s] = 0 /\ active[s] = 0 /\ runId[s] = 0
      /\ \A k \in Sends : run[k] = "none" /\ pendingStop[k] = "no"
  BY PcFacts DEF Init, NoSend
<1>3. Generations BY <1>2 DEF Generations
<1>4. RegistryIsLive BY <1>2 DEF RegistryIsLive
<1>5. Runs BY <1>2 DEF Runs
<1>6. Stops BY <1>2 DEF Stops
<1> QED BY <1>1, <1>3, <1>4, <1>5, <1>6 DEF Inv

LEMMA InvStep == Inv /\ [Next]_vars => Inv' /\ StopStep /\ PostStep
<1> SUFFICES ASSUME Inv, [Next]_vars PROVE Inv' /\ StopStep /\ PostStep OBVIOUS
<1>0. Types' BY TypesStep DEF Inv
<1>1. CASE User \/ Timers
  BY <1>0, <1>1, BoxStep, MoveStep DEF User, Timers
<1>2. ASSUME NEW k \in Sends, Step(k) \/ FailPreflight(k) PROVE Inv' /\ StopStep /\ PostStep
  BY <1>0, <1>2, CommitKeeps, PostKeeps, HeadersKeeps, PreflightKeeps, PlainStep, EndStep DEF Step
<1>3. ASSUME NEW k \in Sends, Delta(k) \/ Terminal(k) \/ LoseStream(k) \/ Timeout(k)
      PROVE  Inv' /\ StopStep /\ PostStep
  BY <1>0, <1>3, PlainStep, EndStep, TimeoutKeeps
<1>4. CASE \E k \in Sends : Server(k) BY <1>0, <1>4, ServerStep
<1>5. CASE SelectSettles \/ \E i \in Resumers : StatusComes(i) \/ ResumeAnswered(i) \/ ResumeEnds(i)
  BY <1>0, <1>5, ResumeStep
<1>6. CASE ProbeAsks \/ ProbeAnswered \/ ProbeHandled \/ TabRecovers
  BY <1>0, <1>6, WatchStep
<1>7. CASE UNCHANGED vars BY <1>0, <1>7, StillCalm DEF vars
<1> QED BY <1>1, <1>2, <1>3, <1>4, <1>5, <1>6, <1>7 DEF Next

LEMMA Invariant == Spec => []Inv
<1>1. Inv /\ [Next]_vars => Inv' BY InvStep
<1> QED BY <1>1, InvInit, PTL DEF Spec

\* Whatever stops, fails, times out, recovers or switches chat, a registered
\* stream is a connected send of its own chat: _activeStreams never keeps the
\* entry of a send whose finally block has run.
THEOREM RegistryLive == Spec => []RegistryIsLive
<1>1. Inv => RegistryIsLive BY DEF Inv
<1> QED BY <1>1, Invariant, PTL

\* In a chat, a POST is never issued after that of a send that committed later:
\* the generation is looked at in the stretch that issues it.
THEOREM PostsOrdered == Spec => PostsInOrder
<1>1. Inv /\ [Next]_vars =>
        [\A j, k \in Sends :
            (~send[j].posted /\ send'[j].posted /\ send[k].posted /\ send[k].ses = send[j].ses)
              => send[k].gen < send[j].gen]_vars
  BY InvStep DEF PostStep
<1> QED BY <1>1, Invariant, PTL DEF Spec, PostsInOrder

\* The run that a Stop names never belongs to a send that committed after every
\* send that was to be stopped: the id was remembered for the chat's newest send
\* or for one before it, and a queued Stop waits for its own send.
THEOREM StopsExact == Spec => StopHitsNothingNewer
<1>1. Inv /\ [Next]_vars =>
        [\A r \in stopsSent' \ stopsSent :
            \E k \in stopWanted' : /\ send[k].ses = send[r].ses
                                   /\ send[r].gen <= send[k].gen]_vars
  BY InvStep DEF StopStep
<1> QED BY <1>1, Invariant, PTL DEF Spec, StopHitsNothingNewer

=============================================================================
