--------------------------- MODULE ChatPageProofs ---------------------------
(***************************************************************************)
(* Theorems about the globals and the queue of the chat page (ChatClient): *)
(* the Stop button and the gate tell the truth, and no queue is orphaned,  *)
(* for any number of chats, sends, texts, re-attachments and incidents.    *)
(***************************************************************************)
EXTENDS ChatClientProofs

\* What has not come to its POST was not posted.
Unposted ==
    \A k \in Sends : send[k].pc \in {"absent", "gate", "released", "committed", "preflight"}
                        => ~send[k].posted

\* The registered stream of a chat is its newest send, or the newest one is on its
\* way to its POST, or failed before.
RegNewest ==
    \A s \in Sessions : active[s] # 0 =>
        \/ active[s] = latest[s]
        \/ send[latest[s]].pc \in {"committed", "preflight"}
        \/ NeverPosted(s)

OwnerInv == Unposted /\ RegNewest /\ BusyHasOwner

\* What the button shows: somebody owns a chat, or an owner failed before its POST.
Claim == \/ \E k \in Sends : Owner(k)
         \/ \E s \in Sessions : NeverPosted(s)
Claimed == \A s \in Sessions : active[s] # 0 => Claim

\* QueueKeepsDrainer, for one step.
DrainStep ==
    queue' # <<>> /\ (queue = <<>> \/ HasDrainer) =>
        \/ HasDrainer' \/ StuckButton \/ StuckButton'
        \/ \E k \in Sends : send[k].pc = "gate" /\ send'[k].pc = "released"
        \/ submits' < submits /\ composer = 0

LEMMA Pcs ==
  /\ Connected \subseteq Open /\ Open \subseteq Past /\ "done" \in Past
  /\ Open = {"committed", "preflight"} \cup Connected
  /\ \A c \in {"absent", "gate", "released"} : c \notin Past
  /\ \A c \in {"absent", "gate", "released", "committed", "preflight", "done"} : c \notin Connected
  /\ "done" \notin Open
BY DEF Open, Connected, Past

\* The newest send of a chat with a registered stream exists and is of that chat.
LEMMA NewestOf ==
  ASSUME Inv, NEW s \in Sessions, active[s] # 0
  PROVE  /\ latest[s] \in Sends /\ send[latest[s]].ses = s /\ send[latest[s]].pc \in Past
         /\ active[s] \in Sends /\ send[active[s]].ses = s /\ send[active[s]].pc \in Connected
<1>1. active[s] \in Sends BY DEF Inv, Types, TypeSend
<1>2. send[active[s]].ses = s /\ send[active[s]].pc \in Connected
  BY DEF Inv, RegistryIsLive
<1>3. latest[s] # 0
  <2>1. \A k \in Sends : send[k].pc \in Past => latest[send[k].ses] # 0
    BY DEF Inv, Generations
  <2> QED BY <1>1, <1>2, <2>1, Pcs
<1>4. latest[s] \in Sends BY <1>3 DEF Inv, Types, TypeSend
<1> QED BY <1>1, <1>2, <1>3, <1>4 DEF Inv, Generations

LEMMA NewestKnown ==
  ASSUME Inv, NEW s \in Sessions, latest[s] # 0
  PROVE  latest[s] \in Sends /\ send[latest[s]].ses = s /\ send[latest[s]].pc \in Past
BY DEF Inv, Generations, Types, TypeSend

\* Where a stream is registered, the button may show it.
LEMMA RegisteredOwned == Inv /\ RegNewest => Claimed
<1> SUFFICES ASSUME Inv, RegNewest, NEW s \in Sessions, active[s] # 0 PROVE Claim
  BY DEF Claimed
<1>1. /\ latest[s] \in Sends /\ send[latest[s]].ses = s
      /\ send[active[s]].pc \in Connected
  BY NewestOf
<1>2. CASE active[s] = latest[s]
  <2>1. Owner(latest[s]) BY <1>1, <1>2, Pcs DEF Owner
  <2> QED BY <1>1, <2>1 DEF Claim
<1>3. CASE send[latest[s]].pc \in {"committed", "preflight"}
  <2>1. Owner(latest[s]) BY <1>1, <1>3, Pcs DEF Owner
  <2> QED BY <1>1, <2>1 DEF Claim
<1>4. CASE NeverPosted(s) BY <1>4 DEF Claim
<1> QED BY <1>2, <1>3, <1>4 DEF RegNewest

LEMMA RegisteredOwnedNext == Inv' /\ RegNewest' => Claimed'
<1>1. Inv /\ RegNewest => Claimed BY RegisteredOwned
<1> QED BY <1>1, PTL

-----------------------------------------------------------------------------
(* Steps that move no send but between the places of a connected one. *)

Steady ==
    /\ latest' = latest
    /\ \A s \in Sessions : active'[s] \in {active[s], 0}
    /\ \A k \in Sends :
          /\ send'[k].ses = send[k].ses /\ send'[k].posted = send[k].posted
          /\ \/ send'[k].pc = send[k].pc
             \/ send'[k].pc \in Connected /\ send[k].pc \in Connected

LEMMA SteadyFacts ==
  ASSUME Inv, Types', Steady
  PROVE  /\ \A k \in Sends : Owner(k)' <=> Owner(k)
         /\ \A s \in Sessions : NeverPosted(s)' <=> NeverPosted(s)
         /\ (drain => drain') /\ submits' >= submits /\ HasDrainer => HasDrainer'
         /\ (\E k \in Sends : Owner(k) \/ send[k].pc = "gate") => HasDrainer'
<1>1. \A k \in Sends : Owner(k)' <=> Owner(k)
  <2> TAKE k \in Sends
  <2>1. send'[k].ses = send[k].ses /\ latest' = latest BY DEF Steady
  <2>2. send'[k].pc \in Open <=> send[k].pc \in Open BY Pcs DEF Steady
  <2> QED BY <2>1, <2>2 DEF Owner
<1>2. \A s \in Sessions : NeverPosted(s)' <=> NeverPosted(s)
  <2> TAKE s \in Sessions
  <2>1. latest' = latest BY DEF Steady
  <2>2. CASE latest[s] = 0 BY <2>1, <2>2 DEF NeverPosted
  <2>3. CASE latest[s] # 0
    <3>1. latest[s] \in Sends BY <2>3, NewestKnown
    <3>2. /\ send'[latest[s]].posted = send[latest[s]].posted
          /\ send'[latest[s]].pc = "done" <=> send[latest[s]].pc = "done"
      BY <3>1, Pcs DEF Steady
    <3> QED BY <2>1, <3>2 DEF NeverPosted
  <2> QED BY <2>2, <2>3
<1>3. \A k \in Sends : send[k].pc \in {"gate", "preflight"} \cup Connected
                         => send'[k].pc \in {"gate", "preflight"} \cup Connected
  BY DEF Steady
<1>4. submits \in Nat /\ submits' \in Nat BY DEF Inv, Types, TypeBox
<1>5. (drain => drain') /\ submits' >= submits /\ HasDrainer => HasDrainer'
  <2> SUFFICES ASSUME drain => drain', submits' >= submits, HasDrainer PROVE HasDrainer'
    OBVIOUS
  <2>1. CASE drain BY <2>1 DEF HasDrainer
  <2>2. CASE submits > 0
    <3>1. submits' > 0 BY <1>4, <2>2
    <3> QED BY <3>1 DEF HasDrainer
  <2>3. CASE \E k \in Sends : Owner(k) \/ send[k].pc \in {"gate", "preflight"} \cup Connected
    <3>1. PICK k \in Sends : Owner(k) \/ send[k].pc \in {"gate", "preflight"} \cup Connected
      BY <2>3
    <3>2. Owner(k)' \/ send'[k].pc \in {"gate", "preflight"} \cup Connected
      BY <1>1, <1>3, <3>1
    <3> QED BY <3>2 DEF HasDrainer
  <2> QED BY <2>1, <2>2, <2>3 DEF HasDrainer
<1>6. (\E k \in Sends : Owner(k) \/ send[k].pc = "gate") => HasDrainer'
  <2> SUFFICES ASSUME NEW k \in Sends, Owner(k) \/ send[k].pc = "gate" PROVE HasDrainer'
    OBVIOUS
  <2>1. Owner(k)' \/ send'[k].pc \in {"gate", "preflight"} \cup Connected
    BY <1>1, <1>3
  <2> QED BY <2>1 DEF HasDrainer
<1> QED BY <1>1, <1>2, <1>5, <1>6

\* The globals may be cleared in such a step, never set.
LEMMA SteadyKeeps ==
  ASSUME Inv, Types', OwnerInv, Steady, streaming' => streaming, inFlight' => inFlight
  PROVE  OwnerInv'
<1>1. Unposted'
  <2> SUFFICES ASSUME NEW k \in Sends,
                      send'[k].pc \in {"absent", "gate", "released", "committed", "preflight"}
               PROVE  ~send'[k].posted
    BY DEF Unposted
  <2>1. send'[k].posted = send[k].posted /\ send'[k].pc = send[k].pc BY Pcs DEF Steady
  <2> QED BY <2>1 DEF OwnerInv, Unposted
<1>2. RegNewest'
  <2> SUFFICES ASSUME NEW s \in Sessions, active'[s] # 0
               PROVE  \/ active'[s] = latest'[s]
                      \/ send'[latest'[s]].pc \in {"committed", "preflight"}
                      \/ NeverPosted(s)'
    BY DEF RegNewest
  <2>1. active'[s] = active[s] /\ active[s] # 0 /\ latest' = latest BY DEF Steady
  <2>2. latest[s] \in Sends BY <2>1, NewestOf
  <2>3. send[latest[s]].pc \in {"committed", "preflight"}
          => send'[latest[s]].pc \in {"committed", "preflight"}
    BY <2>2, Pcs DEF Steady
  <2>4. NeverPosted(s) => NeverPosted(s)' BY SteadyFacts
  <2> QED BY <2>1, <2>3, <2>4 DEF OwnerInv, RegNewest
<1>3. BusyHasOwner'
  <2>1. inFlight' => \E k \in Sends : send'[k].pc = "gate"
    <3> SUFFICES ASSUME inFlight' PROVE \E k \in Sends : send'[k].pc = "gate" OBVIOUS
    <3>1. PICK k \in Sends : send[k].pc = "gate" BY DEF OwnerInv, BusyHasOwner
    <3>2. send'[k].pc = "gate" BY <3>1, Pcs DEF Steady
    <3> QED BY <3>2
  <2>2. streaming' => \/ \E k \in Sends : Owner(k)'
                      \/ \E s \in Sessions : NeverPosted(s)'
    BY SteadyFacts DEF OwnerInv, BusyHasOwner
  <2> QED BY <2>1, <2>2 DEF BusyHasOwner
<1> QED BY <1>1, <1>2, <1>3 DEF OwnerInv

\* A queue that was drained still is, when nothing that drains it goes.
LEMMA SteadyDrains ==
  ASSUME Inv, Types', Steady, drain => drain', submits' >= submits, queue' # <<>> => queue # <<>>
  PROVE  DrainStep
BY SteadyFacts DEF DrainStep

\* While the page is busy somebody will drain the queue, or the button is stuck.
LEMMA BusyDrains ==
  ASSUME Inv, Types', OwnerInv, Steady, streaming \/ inFlight
  PROVE  HasDrainer' \/ StuckButton
<1>1. CASE \E k \in Sends : Owner(k) \/ send[k].pc = "gate" BY <1>1, SteadyFacts
<1>2. CASE ~\E k \in Sends : Owner(k) \/ send[k].pc = "gate"
  BY <1>2 DEF OwnerInv, BusyHasOwner, StuckButton
<1> QED BY <1>1, <1>2

-----------------------------------------------------------------------------
(* The steps, one by one. *)

LEMMA AbortSteady ==
  ASSUME Inv, NEW c \in Sends \cup {0}, latest' = latest,
         \A s \in Sessions : active'[s] \in {active[s], 0},
         send' = Abort(send, c) \/ send' = send
  PROVE  Steady
<1>1. \A k \in Sends : /\ send'[k].pc = send[k].pc /\ send'[k].ses = send[k].ses
                       /\ send'[k].posted = send[k].posted
  BY AbortFacts DEF Inv, Types
<1> QED BY <1>1 DEF Steady

LEMMA StillSteady == ASSUME Inv, UNCHANGED sendVars PROVE Steady
BY DEF Steady, sendVars

LEMMA StopBranchSteady ==
  ASSUME Inv, NEW q, StopBranch(q)
  PROVE  Steady /\ streaming /\ ~streaming' /\ inFlight' = inFlight
<1>1. ControllerFor(current) \in Sends \cup {0}
  BY ControllerType DEF Inv, Types, TypePage
<1>2. send' = Abort(send, ControllerFor(current)) \/ send' = send BY DEF StopBranch
<1>3. latest' = latest /\ active' = active BY DEF StopBranch
<1>4. Steady BY <1>1, <1>2, <1>3, AbortSteady
<1> QED BY <1>4 DEF StopBranch

LEMMA OpenGatePage ==
  ASSUME Inv, Types', OwnerInv, OpenGate PROVE OwnerInv' /\ DrainStep
<1>1. PICK k \in Sends :
        /\ send[k].pc = "absent"
        /\ send' = [send EXCEPT ![k] = [NoSend EXCEPT !.pc = "gate", !.text = composer]]
  BY DEF OpenGate
<1>2. send'[k].pc = "gate" /\ ~send'[k].posted
  BY <1>1 DEF NoSend, Inv, Types, TypeSend
<1>3. \A j \in Sends : j # k => send'[j] = send[j] BY <1>1 DEF Inv, Types, TypeSend
<1>4. latest' = latest /\ active' = active /\ ~streaming' BY DEF OpenGate
<1>5. Unposted' BY <1>2, <1>3 DEF OwnerInv, Unposted
<1>6. RegNewest'
  <2> SUFFICES ASSUME NEW s \in Sessions, active[s] # 0
               PROVE  \/ active[s] = latest[s]
                      \/ send'[latest[s]].pc \in {"committed", "preflight"}
                      \/ NeverPosted(s)'
    BY <1>4 DEF RegNewest
  <2>1. latest[s] \in Sends /\ latest[s] # k BY <1>1, NewestOf, Pcs
  <2>2. send'[latest[s]] = send[latest[s]] BY <1>3, <2>1
  <2> QED BY <1>4, <2>2 DEF OwnerInv, RegNewest, NeverPosted
<1>7. BusyHasOwner' BY <1>2, <1>4 DEF BusyHasOwner
<1>8. DrainStep BY <1>2 DEF DrainStep, HasDrainer
<1> QED BY <1>5, <1>6, <1>7, <1>8 DEF OwnerInv

LEMMA BoxPage ==
  ASSUME Inv, Types', OwnerInv, Type \/ UserSend \/ UserStop \/ UserQueue \/ UserPromote
                      \/ DrainFires \/ PromoteFires \/ TimerSubmit
  PROVE  OwnerInv' /\ DrainStep
<1>0. submits \in Nat BY DEF Inv, Types, TypeBox
<1>1. CASE Type
  <2>1. Steady BY <1>1, StillSteady DEF Type
  <2> QED BY <1>0, <1>1, <2>1, SteadyKeeps, SteadyDrains DEF Type, pageVars
<1>2. CASE UserSend BY <1>2, OpenGatePage DEF UserSend
<1>3. CASE UserStop
  <2>1. Steady /\ streaming /\ ~streaming' /\ inFlight' = inFlight
    BY <1>3, StopBranchSteady DEF UserStop
  <2>2. OwnerInv' BY <2>1, SteadyKeeps
  <2>3. DrainStep BY <2>1, BusyDrains DEF DrainStep
  <2> QED BY <2>2, <2>3
<1>4. CASE UserQueue
  <2>1. Steady /\ streaming BY <1>4, StillSteady DEF UserQueue
  <2>2. OwnerInv' BY <1>4, <2>1, SteadyKeeps DEF UserQueue, pageVars
  <2>3. DrainStep BY <2>1, BusyDrains DEF DrainStep
  <2> QED BY <2>2, <2>3
<1>5. CASE UserPromote
  <2>1. CASE \E q : StopBranch(q)
    <3>1. Steady /\ streaming /\ ~streaming' /\ inFlight' = inFlight
      BY <2>1, StopBranchSteady
    <3>2. OwnerInv' BY <3>1, SteadyKeeps
    <3>3. DrainStep BY <3>1, BusyDrains DEF DrainStep
    <3> QED BY <3>2, <3>3
  <2>2. CASE ~\E q : StopBranch(q)
    <3>1. /\ UNCHANGED <<pageVars, sendVars, drain>>
          /\ submits' = submits + 1 \/ submits' = submits
          /\ queue # <<>>
      BY <1>5, <2>2 DEF UserPromote
    <3>2. Steady BY <3>1, StillSteady
    <3>3. OwnerInv' BY <3>1, <3>2, SteadyKeeps DEF pageVars
    <3>4. DrainStep BY <1>0, <3>1, <3>2, SteadyDrains
    <3> QED BY <3>3, <3>4
  <2> QED BY <2>1, <2>2
<1>6. CASE DrainFires
  <2>1. Steady /\ UNCHANGED pageVars BY <1>6, StillSteady DEF DrainFires
  <2>2. OwnerInv' BY <2>1, SteadyKeeps DEF pageVars
  <2>3. DrainStep
    <3>1. CASE streaming \/ inFlight BY <2>1, <3>1, BusyDrains DEF DrainStep
    <3>2. CASE ~(streaming \/ inFlight)
      <4>1. submits' > 0 \/ queue' = <<>> BY <1>0, <1>6, <3>2 DEF DrainFires
      <4> QED BY <4>1 DEF DrainStep, HasDrainer
    <3> QED BY <3>1, <3>2
  <2> QED BY <2>2, <2>3
<1>7. CASE PromoteFires
  <2>1. Steady /\ UNCHANGED pageVars BY <1>7, StillSteady DEF PromoteFires
  <2>2. OwnerInv' BY <2>1, SteadyKeeps DEF pageVars
  <2>3. submits' > 0 BY <1>0, <1>7 DEF PromoteFires
  <2> QED BY <2>2, <2>3 DEF DrainStep, HasDrainer
<1>8. CASE TimerSubmit
  <2>1. CASE OpenGate BY <2>1, OpenGatePage
  <2>2. CASE StopBranch(queue)
    <3>1. Steady /\ streaming /\ ~streaming' /\ inFlight' = inFlight
      BY <2>2, StopBranchSteady
    <3>2. OwnerInv' BY <3>1, SteadyKeeps
    <3>3. DrainStep BY <3>1, BusyDrains DEF DrainStep
    <3> QED BY <3>2, <3>3
  <2>3. CASE ~OpenGate /\ ~StopBranch(queue)
    <3>1. /\ UNCHANGED <<pageVars, sendVars>> /\ submits' < submits
          /\ inFlight \/ composer = 0
      BY <1>0, <1>8, <2>3 DEF TimerSubmit
    <3>2. Steady BY <3>1, StillSteady
    <3>3. OwnerInv' BY <3>1, <3>2, SteadyKeeps DEF pageVars
    <3>4. DrainStep BY <3>1, <3>2, BusyDrains DEF DrainStep
    <3> QED BY <3>3, <3>4
  <2> QED BY <2>1, <2>2, <2>3
<1> QED BY <1>1, <1>2, <1>3, <1>4, <1>5, <1>6, <1>7, <1>8

LEMMA ReleasePage ==
  ASSUME Inv, Types', OwnerInv, NEW k \in Sends, ReleaseGate(k) PROVE OwnerInv' /\ DrainStep
<1>1. send[k].pc = "gate" /\ send'[k].pc = "released" /\ send'[k].posted = send[k].posted
  BY DEF ReleaseGate, Inv, Types, TypeSend, SendType
<1>2. \A j \in Sends : j # k => send'[j] = send[j]
  BY DEF ReleaseGate, Inv, Types, TypeSend
<1>3. latest' = latest /\ active' = active /\ ~inFlight' BY DEF ReleaseGate
<1>4. \A s \in Sessions : latest[s] # 0 => latest[s] \in Sends /\ latest[s] # k
  BY <1>1, NewestKnown, Pcs
<1>5. Unposted' BY <1>1, <1>2 DEF OwnerInv, Unposted
<1>6. \A s \in Sessions : NeverPosted(s) => NeverPosted(s)'
  BY <1>2, <1>3, <1>4 DEF NeverPosted
<1>7. RegNewest'
  <2> SUFFICES ASSUME NEW s \in Sessions, active[s] # 0
               PROVE  \/ active[s] = latest[s]
                      \/ send'[latest[s]].pc \in {"committed", "preflight"}
                      \/ NeverPosted(s)'
    BY <1>3 DEF RegNewest
  <2>1. send'[latest[s]] = send[latest[s]]
    BY <1>2, <1>4, NewestOf, ConstantFacts
  <2> QED BY <1>6, <2>1 DEF OwnerInv, RegNewest
<1>8. Claim => Claim'
  <2>1. \A j \in Sends : Owner(j) => Owner(j)'
    <3> SUFFICES ASSUME NEW j \in Sends, Owner(j) PROVE Owner(j)' OBVIOUS
    <3>1. j # k BY <1>1, Pcs DEF Owner
    <3> QED BY <1>2, <1>3, <3>1 DEF Owner
  <2> QED BY <1>6, <2>1 DEF Claim
<1>9. streaming' => Claim
  <2>1. streaming' = (active[current] # 0) BY DEF ReleaseGate, Sync
  <2>2. current \in Sessions BY DEF Inv, Types, TypePage
  <2> QED BY <2>1, <2>2, RegisteredOwned DEF OwnerInv, Claimed
<1>10. BusyHasOwner' BY <1>3, <1>8, <1>9 DEF BusyHasOwner, Claim
<1>11. DrainStep BY <1>1 DEF DrainStep
<1> QED BY <1>5, <1>7, <1>10, <1>11 DEF OwnerInv

LEMMA CommitPage ==
  ASSUME Inv, Types', OwnerInv, NEW k \in Sends, Commit(k) PROVE OwnerInv' /\ DrainStep
<1>0. current \in Sessions BY DEF Inv, Types, TypePage
<1>1. /\ send[k].pc = "gate" /\ send'[k].pc = "committed" /\ send'[k].ses = current
      /\ send'[k].posted = send[k].posted
  <2>1. send[k] \in SendType BY DEF Inv, Types, TypeSend
  <2>2. PICK g : g = Generation(current) + 1 OBVIOUS
  <2>3. send' = [send EXCEPT ![k].pc = "committed", ![k].ses = current, ![k].gen = g]
    BY <2>2 DEF Commit
  <2> QED BY <2>1, <2>3 DEF Inv, Types, TypeSend, SendType, Commit
<1>2. \A j \in Sends : j # k => send'[j] = send[j]
  BY DEF Commit, Inv, Types, TypeSend
<1>3. /\ latest' = [latest EXCEPT ![current] = k] /\ active' = active /\ ~inFlight'
  BY DEF Commit
<1>4. latest'[current] = k /\ \A s \in Sessions : s # current => latest'[s] = latest[s]
  BY <1>0, <1>3 DEF Inv, Types, TypeSend
<1>5. Unposted' BY <1>1, <1>2 DEF OwnerInv, Unposted
<1>6. RegNewest'
  <2> SUFFICES ASSUME NEW s \in Sessions, active[s] # 0
               PROVE  \/ active[s] = latest'[s]
                      \/ send'[latest'[s]].pc \in {"committed", "preflight"}
                      \/ NeverPosted(s)'
    BY <1>3 DEF RegNewest
  <2>1. CASE s = current BY <1>1, <1>4, <2>1
  <2>2. CASE s # current
    <3>1. latest'[s] = latest[s] /\ latest[s] \in Sends /\ latest[s] # k
      BY <1>1, <1>4, <2>2, NewestOf, Pcs
    <3>2. send'[latest[s]] = send[latest[s]] BY <1>2, <3>1
    <3> QED BY <3>1, <3>2 DEF OwnerInv, RegNewest, NeverPosted
  <2> QED BY <2>1, <2>2
<1>7. Owner(k)' BY <1>1, <1>4, Pcs DEF Owner
<1>8. BusyHasOwner' BY <1>3, <1>7 DEF BusyHasOwner
<1>9. DrainStep BY <1>7 DEF DrainStep, HasDrainer
<1> QED BY <1>5, <1>6, <1>8, <1>9 DEF OwnerInv

LEMMA PreflightPage ==
  ASSUME Inv, Types', OwnerInv, NEW k \in Sends, StartPreflight(k)
  PROVE  OwnerInv' /\ DrainStep
<1>1. /\ send[k].pc = "committed"
      /\ send'[k].ses = send[k].ses /\ send'[k].posted = send[k].posted
      /\ IF Superseded(k) THEN send'[k].pc = "done" ELSE send'[k].pc = "preflight"
  <2>1. send[k] \in SendType BY DEF Inv, Types, TypeSend
  <2> QED BY <2>1 DEF StartPreflight, Inv, Types, TypeSend, SendType
<1>2. \A j \in Sends : j # k => send'[j] = send[j]
  BY DEF StartPreflight, Inv, Types, TypeSend
<1>3. latest' = latest /\ active' = active /\ UNCHANGED <<pageVars, drain, submits, queue>>
  BY DEF StartPreflight
<1>4. \A s \in Sessions : latest[s] # 0 =>
         \/ latest[s] = k /\ ~Superseded(k)
         \/ send'[latest[s]] = send[latest[s]]
  BY <1>2, NewestKnown DEF Superseded
<1>5. Unposted' BY <1>1, <1>2 DEF OwnerInv, Unposted
<1>6. \A s \in Sessions : NeverPosted(s) => NeverPosted(s)'
  BY <1>1, <1>3, <1>4 DEF NeverPosted
<1>7. \A j \in Sends : Owner(j) => Owner(j)'
  <2> SUFFICES ASSUME NEW j \in Sends, Owner(j) PROVE Owner(j)' OBVIOUS
  <2>1. CASE j = k
    <3>1. ~Superseded(k) BY <2>1 DEF Owner, Superseded
    <3> QED BY <1>1, <1>3, <2>1, <3>1, Pcs DEF Owner
  <2>2. CASE j # k BY <1>2, <1>3, <2>2 DEF Owner
  <2> QED BY <2>1, <2>2
<1>8. RegNewest'
  <2> SUFFICES ASSUME NEW s \in Sessions, active[s] # 0
               PROVE  \/ active[s] = latest[s]
                      \/ send'[latest[s]].pc \in {"committed", "preflight"}
                      \/ NeverPosted(s)'
    BY <1>3 DEF RegNewest
  <2>1. latest[s] # 0 BY NewestOf, ConstantFacts
  <2> QED BY <1>1, <1>4, <1>6, <2>1 DEF OwnerInv, RegNewest
<1>9. BusyHasOwner'
  <2>1. streaming' => Claim' BY <1>3, <1>6, <1>7 DEF OwnerInv, BusyHasOwner, Claim, pageVars
  <2>2. inFlight' => \E j \in Sends : send'[j].pc = "gate"
    <3> SUFFICES ASSUME inFlight PROVE \E j \in Sends : send'[j].pc = "gate"
      BY <1>3 DEF pageVars
    <3>1. PICK j \in Sends : send[j].pc = "gate" BY DEF OwnerInv, BusyHasOwner
    <3> QED BY <1>1, <1>2, <3>1
  <2> QED BY <2>1, <2>2 DEF BusyHasOwner, Claim
<1>10. DrainStep
  <2>1. ASSUME NEW j \in Sends, Owner(j) \/ send[j].pc \in {"gate", "preflight"} \cup Connected
        PROVE  HasDrainer'
    <3>1. CASE Owner(j) BY <1>7, <3>1 DEF HasDrainer
    <3>2. CASE ~Owner(j)
      <4>1. j # k \/ Owner(k) BY <1>1, <2>1, <3>2, Pcs
      <4>2. send'[j] = send[j] BY <1>2, <3>2, <4>1
      <4> QED BY <2>1, <3>2, <4>2 DEF HasDrainer
    <3> QED BY <3>1, <3>2
  <2>2. HasDrainer => HasDrainer' BY <1>3, <2>1 DEF HasDrainer
  <2> QED BY <1>3, <2>2 DEF DrainStep
<1> QED BY <1>5, <1>8, <1>9, <1>10 DEF OwnerInv

LEMMA PostPage ==
  ASSUME Inv, Inv', OwnerInv, NEW k \in Sends, Post(k) PROVE OwnerInv' /\ DrainStep
<1>0. send[k].ses \in Sessions /\ send[k].pc = "preflight" /\ latest[send[k].ses] = k
  BY DEF Post, MayPost, Inv, Types, TypeSend, SendType
<1>1. send'[k].pc = "posting" /\ "posting" \in Connected
  BY DEF Post, Inv, Types, TypeSend, Connected
<1>2. \A j \in Sends : j # k => send'[j] = send[j]
  BY DEF Post, Inv, Types, TypeSend
<1>3. latest' = latest /\ inFlight' = inFlight BY DEF Post
<1>4. Unposted' BY <1>1, <1>2, Pcs DEF OwnerInv, Unposted
<1>5. RegNewest'
  <2> SUFFICES ASSUME NEW s \in Sessions, active'[s] # 0
               PROVE  \/ active'[s] = latest[s]
                      \/ send'[latest[s]].pc \in {"committed", "preflight"}
                      \/ NeverPosted(s)'
    BY <1>3 DEF RegNewest
  <2>1. CASE s = send[k].ses BY <1>0, <2>1 DEF Post, Inv, Types, TypeSend
  <2>2. CASE s # send[k].ses
    <3>1. active'[s] = active[s] BY <2>2 DEF Post, Inv, Types, TypeSend
    <3>2. latest[s] \in Sends /\ latest[s] # k BY <2>2, <3>1, NewestOf
    <3>3. send'[latest[s]] = send[latest[s]] BY <1>2, <3>2
    <3> QED BY <1>3, <3>1, <3>3 DEF OwnerInv, RegNewest, NeverPosted
  <2> QED BY <2>1, <2>2
<1>6. BusyHasOwner'
  <2>1. streaming' = (active'[current] # 0) /\ current \in Sessions
    BY DEF Post, Sync, Inv, Types, TypePage
  <2>2. streaming' => Claim' BY <1>5, <2>1, RegisteredOwnedNext DEF Claimed
  <2>3. inFlight' => \E j \in Sends : send'[j].pc = "gate"
    <3> SUFFICES ASSUME inFlight PROVE \E j \in Sends : send'[j].pc = "gate" BY <1>3
    <3>1. PICK j \in Sends : send[j].pc = "gate" BY DEF OwnerInv, BusyHasOwner
    <3> QED BY <1>0, <1>2, <3>1
  <2> QED BY <2>2, <2>3 DEF BusyHasOwner, Claim
<1>7. DrainStep BY <1>1 DEF DrainStep, HasDrainer
<1> QED BY <1>4, <1>5, <1>6, <1>7 DEF OwnerInv

\* A connected send takes a step that does not end it.
LEMMA ConnectedPage ==
  ASSUME Inv, Types', OwnerInv, NEW k \in Sends,
         Headers(k) \/ Delta(k) \/ Terminal(k) \/ Done(k) \/ Timeout(k) \/ GraceEnds(k)
  PROVE  OwnerInv' /\ DrainStep
<1>0. send[k] \in SendType BY DEF Inv, Types, TypeSend
<1>1. \A j \in Sends : j # k => send'[j] = send[j]
  BY DEF Headers, Delta, Terminal, Done, Timeout, GraceEnds, Inv, Types, TypeSend
<1>2. /\ send[k].pc \in Connected /\ send'[k].pc \in Connected
      /\ send'[k].ses = send[k].ses /\ send'[k].posted = send[k].posted
  <2>1. CASE Headers(k)
    <3>1. PICK b : b = (pendingStop[k] = "ctrl") OBVIOUS
    <3>2. send' = [send EXCEPT ![k].pc = "reading", ![k].aborted = b]
      BY <2>1, <3>1, Zenon DEF Headers
    <3>3. send'[k] = [send[k] EXCEPT !.pc = "reading", !.aborted = b]
      BY <3>2 DEF Inv, Types, TypeSend
    <3>4. send'[k].pc = "reading" /\ send'[k].ses = send[k].ses /\ send'[k].posted = send[k].posted
      BY <1>0, <3>3 DEF SendType
    <3>5. send[k].pc = "posting" BY <2>1 DEF Headers
    <3> QED BY <3>4, <3>5 DEF Connected
  <2>2. CASE Delta(k) \/ Terminal(k)
    <3>1. send'[k] = [send[k] EXCEPT !.spoke = TRUE] /\ send[k].pc = "reading"
      BY <2>2 DEF Delta, Terminal, Inv, Types, TypeSend
    <3> QED BY <1>0, <3>1 DEF SendType, Connected
  <2>3. CASE Done(k)
    <3>1. send'[k] = [send[k] EXCEPT !.pc = "doneSeen"] /\ send[k].pc = "reading"
      BY <2>3 DEF Done, Inv, Types, TypeSend
    <3> QED BY <1>0, <3>1 DEF SendType, Connected
  <2>4. CASE Timeout(k)
    <3>1. \/ send'[k] = [send[k] EXCEPT !.timedOut = TRUE, !.aborted = TRUE]
          \/ send'[k] = [send[k] EXCEPT !.timedOut = TRUE]
      BY <2>4 DEF Timeout, Inv, Types, TypeSend
    <3>2. send[k].pc \in {"posting", "reading"} BY <2>4 DEF Timeout
    <3> QED BY <1>0, <3>1, <3>2 DEF SendType, Connected
  <2>5. CASE GraceEnds(k)
    <3>1. send'[k] = [send[k] EXCEPT !.aborted = TRUE] /\ send[k].pc \in Connected
      BY <2>5 DEF GraceEnds, Inv, Types, TypeSend
    <3> QED BY <1>0, <3>1 DEF SendType
  <2> QED BY <2>1, <2>2, <2>3, <2>4, <2>5
<1>3. UNCHANGED <<latest, active, streaming, inFlight>>
  BY DEF Headers, Delta, Terminal, Done, Timeout, GraceEnds, pageVars
<1>4. Steady BY <1>1, <1>2, <1>3 DEF Steady
<1>5. OwnerInv' BY <1>3, <1>4, SteadyKeeps
<1>6. DrainStep BY <1>2 DEF DrainStep, HasDrainer
<1> QED BY <1>5, <1>6

\* The finally block.  When the newest send of a chat ends, the button is reset or
\* follows the registry; when another one ends, whoever owned the button still does.
LEMMA FinallyPage ==
  ASSUME Inv, Inv', OwnerInv, NEW k \in Sends, NEW bg, NEW p, Finally(k, send, bg, p),
         send[k].pc \in Open, p.fly => inFlight, p.str => streaming \/ active[current] # 0
  PROVE  OwnerInv' /\ DrainStep
<1>0. send[k].ses \in Sessions /\ current \in Sessions
  BY DEF Inv, Types, TypeSend, SendType, TypePage
<1>1. /\ send'[k].pc = "done" /\ send'[k].ses = send[k].ses
      /\ send'[k].posted = send[k].posted
  <2>1. send[k] \in SendType BY DEF Inv, Types, TypeSend
  <2>2. send'[k] = [send[k] EXCEPT !.pc = "done", !.aborted = FALSE, !.spoke = FALSE,
                                   !.timedOut = FALSE]
    BY DEF Finally, Inv, Types, TypeSend
  <2> QED BY <2>1, <2>2 DEF SendType
<1>2. \A j \in Sends : j # k => send'[j] = send[j]
  BY DEF Finally, Inv, Types, TypeSend
<1>3. latest' = latest /\ active' = Unregistered(k) /\ inFlight' = p.fly /\ queue' = queue
  BY DEF Finally
<1>4. \A s \in Sessions : /\ active'[s] \in {active[s], 0}
                          /\ s = send[k].ses => active'[s] # k
  BY <1>0, <1>3, ConstantFacts DEF Unregistered, Inv, Types, TypeSend
<1>5. Unposted' BY <1>1, <1>2 DEF OwnerInv, Unposted
<1>6. \A s \in Sessions : NeverPosted(s) => NeverPosted(s)'
  <2> SUFFICES ASSUME NEW s \in Sessions, NeverPosted(s) PROVE NeverPosted(s)' OBVIOUS
  <2>1. latest[s] \in Sends /\ latest[s] # k BY NewestKnown, Pcs DEF NeverPosted
  <2> QED BY <1>2, <1>3, <2>1 DEF NeverPosted
<1>7. RegNewest'
  <2> SUFFICES ASSUME NEW s \in Sessions, active'[s] # 0
               PROVE  \/ active'[s] = latest[s]
                      \/ send'[latest[s]].pc \in {"committed", "preflight"}
                      \/ NeverPosted(s)'
    BY <1>3 DEF RegNewest
  <2>1. active'[s] = active[s] /\ active[s] # 0 BY <1>4
  <2>2. latest[s] \in Sends BY <2>1, NewestOf
  <2>3. CASE send[latest[s]].pc \in {"committed", "preflight"}
    <3>1. CASE latest[s] = k
      <4>1. ~send[k].posted BY <2>3, <3>1 DEF OwnerInv, Unposted
      <4>2. NeverPosted(s)' BY <1>1, <1>3, <2>2, <3>1, <4>1, ConstantFacts DEF NeverPosted
      <4> QED BY <4>2
    <3>2. CASE latest[s] # k BY <1>2, <2>2, <2>3, <3>2
    <3> QED BY <3>1, <3>2
  <2>4. CASE NeverPosted(s) BY <1>6, <2>4
  <2> QED BY <2>1, <2>3, <2>4 DEF OwnerInv, RegNewest
<1>8. streaming' => Claim'
  <2> SUFFICES ASSUME streaming' PROVE Claim' OBVIOUS
  <2>1. PICK own, owns \in BOOLEAN :
          /\ owns = (latest[send[k].ses] = k)
          /\ own => owns
          /\ streaming' = Button(own, owns, active', p.str)
    <3> DEFINE w == latest[send[k].ses] = k
               o == w /\ current = send[k].ses /\ bg[send[k].ses] = "none"
    <3>1. streaming' = Button(o, w, active', p.str) BY DEF Finally
    <3>2. o \in BOOLEAN /\ w \in BOOLEAN /\ (o => w) OBVIOUS
    <3> QED BY <3>1, <3>2
  <2>2. CASE owns
    <3>1. active'[current] # 0 BY <2>1, <2>2 DEF Button
    <3> QED BY <1>0, <1>7, <3>1, RegisteredOwnedNext DEF Claimed
  <2>3. CASE ~owns
    <3>1. p.str BY <2>1, <2>3 DEF Button
    <3>2. streaming => Claim BY DEF OwnerInv, BusyHasOwner, Claim
    <3>3. active[current] # 0 => Claim BY <1>0, RegisteredOwned DEF OwnerInv, Claimed
    <3>4. Claim BY <3>1, <3>2, <3>3
    <3>5. \A j \in Sends : Owner(j) => Owner(j)'
      <4> SUFFICES ASSUME NEW j \in Sends, Owner(j) PROVE Owner(j)' OBVIOUS
      <4>1. j # k BY <2>1, <2>3 DEF Owner
      <4> QED BY <1>2, <1>3, <4>1 DEF Owner
    <3> QED BY <1>6, <3>4, <3>5 DEF Claim
  <2> QED BY <2>2, <2>3
<1>9. inFlight' => \E j \in Sends : send'[j].pc = "gate"
  <2> SUFFICES ASSUME inFlight PROVE \E j \in Sends : send'[j].pc = "gate" BY <1>3
  <2>1. PICK j \in Sends : send[j].pc = "gate" BY DEF OwnerInv, BusyHasOwner
  <2>2. j # k BY <2>1, Pcs
  <2> QED BY <1>2, <2>1, <2>2
<1>10. BusyHasOwner' BY <1>8, <1>9 DEF BusyHasOwner, Claim
<1>11. DrainStep
  <2> SUFFICES ASSUME queue' # <<>> PROVE HasDrainer' \/ StuckButton' BY DEF DrainStep
  <2>1. drain' = DrainTimer(streaming', inFlight', queue) BY DEF Finally
  <2>2. CASE ~streaming' /\ ~inFlight'
    <3>1. drain' BY <1>3, <2>1, <2>2 DEF DrainTimer
    <3> QED BY <3>1 DEF HasDrainer
  <2>3. CASE inFlight' BY <1>9, <2>3 DEF HasDrainer
  <2>4. CASE streaming'
    <3>1. CASE \E j \in Sends : Owner(j)' BY <3>1 DEF HasDrainer
    <3>2. CASE ~\E j \in Sends : Owner(j)' BY <1>8, <2>4, <3>2 DEF StuckButton, Claim
    <3> QED BY <3>1, <3>2
  <2> QED BY <2>2, <2>3, <2>4
<1> QED BY <1>5, <1>7, <1>10, <1>11 DEF OwnerInv

LEMMA EndPage ==
  ASSUME Inv, Inv', OwnerInv, NEW k \in Sends,
         \/ DropSuperseded(k) \/ Refused(k) \/ Close(k) \/ FailPreflight(k)
         \/ ErrorEvent(k) \/ AbortSeen(k) \/ LoseStream(k)
  PROVE  OwnerInv' /\ DrainStep
<1>1. send[k].pc \in Open
  BY Pcs DEF DropSuperseded, Refused, Close, FailPreflight, ErrorEvent, AbortSeen, LoseStream,
             Connected
<1>2. Page.str = streaming /\ Page.fly = inFlight BY DEF Page
<1>3. CASE FailPreflight(k)
  <2> DEFINE p == [str |-> active[current] # 0, fly |-> FALSE, wd |-> FALSE]
  <2>1. Finally(k, send, background, p) BY <1>3 DEF FailPreflight
  <2>2. p.fly = FALSE /\ p.str = (active[current] # 0) OBVIOUS
  <2> HIDE DEF p
  <2> QED BY <1>1, <2>1, <2>2, FinallyPage
<1>4. CASE ~FailPreflight(k)
  <2>1. \E bg : Finally(k, send, bg, Page)
    BY <1>4 DEF DropSuperseded, Refused, Close, ErrorEvent, AbortSeen, LoseStream, Catch
  <2> QED BY <1>1, <1>2, <2>1, FinallyPage
<1> QED BY <1>3, <1>4

LEMMA MovePage ==
  ASSUME Inv, Types', OwnerInv, NEW s \in Sessions,
         UserSelects(s) \/ Reselect(s) \/ PollEnds(s) \/ RecoverFires(s)
  PROVE  OwnerInv' /\ DrainStep
<1>0. submits \in Nat BY DEF Inv, Types, TypeBox
<1>1. UNCHANGED <<queue, drain, submits, inFlight>>
  BY DEF UserSelects, Reselect, PollEnds, RecoverFires, boxVars, pageVars
<1>2. Steady /\ (streaming' => streaming)
  <2>1. CASE UserSelects(s) \/ (Reselect(s) /\ current = s)
    <3>1. SelectSession(s) /\ UNCHANGED <<latest, active>> BY <2>1 DEF UserSelects, Reselect
    <3>2. ControllerFor(s) \in Sends \cup {0} BY ControllerType DEF Inv, Types
    <3>3. send' = Abort(send, ControllerFor(s)) \/ send' = send BY <3>1 DEF SelectSession
    <3>4. Steady BY <3>1, <3>2, <3>3, AbortSteady
    <3> QED BY <3>1, <3>4 DEF SelectSession
  <2>2. CASE (Reselect(s) /\ current # s) \/ PollEnds(s) \/ RecoverFires(s)
    <3>1. UNCHANGED <<sendVars, streaming>>
      BY <2>2 DEF Reselect, PollEnds, RecoverFires, sendVars, pageVars
    <3> QED BY <3>1, StillSteady
  <2> QED BY <2>1, <2>2
<1> QED BY <1>0, <1>1, <1>2, SteadyKeeps, SteadyDrains

LEMMA WatchPage ==
  ASSUME Inv, Types', OwnerInv, ProbeAsks \/ ProbeAnswered \/ ProbeHandled \/ TabRecovers
  PROVE  OwnerInv' /\ DrainStep
<1>0. submits \in Nat BY DEF Inv, Types, TypeBox
<1>b. drain \in BOOLEAN /\ streaming \in BOOLEAN /\ inFlight \in BOOLEAN
  BY DEF Inv, Types, TypeBox, TypePage
<1>1. UNCHANGED <<queue, submits>>
  BY DEF ProbeAsks, ProbeAnswered, ProbeHandled, TabRecovers, boxVars
<1>d. drain => drain'
  <2>1. CASE ProbeAsks \/ ProbeAnswered \/ TabRecovers
    <3>1. UNCHANGED drain BY <2>1 DEF ProbeAsks, ProbeAnswered, TabRecovers, boxVars
    <3> QED BY <3>1
  <2>2. CASE ProbeHandled
    <3>1. UNCHANGED drain \/ drain' = DrainTimer(FALSE, FALSE, queue)
      BY <2>2 DEF ProbeHandled
    <3> QED BY <1>b, <3>1 DEF DrainTimer
  <2> QED BY <2>1, <2>2
<1>2. (streaming' => streaming) /\ (inFlight' => inFlight)
  <2>1. CASE ProbeAsks \/ ProbeAnswered
    <3>1. UNCHANGED <<streaming, inFlight>> BY <2>1 DEF ProbeAsks, ProbeAnswered, pageVars
    <3> QED BY <3>1
  <2>2. CASE ProbeHandled
    <3>1. \/ streaming' = FALSE /\ inFlight' = FALSE
          \/ UNCHANGED <<streaming, inFlight>>
      BY <2>2 DEF ProbeHandled
    <3> QED BY <3>1
  <2>3. CASE TabRecovers
    <3>1. streaming' = FALSE /\ UNCHANGED inFlight BY <2>3 DEF TabRecovers
    <3> QED BY <3>1
  <2> QED BY <2>1, <2>2, <2>3
<1>3. Steady
  <2>1. CASE ProbeAsks \/ ProbeAnswered BY <2>1, StillSteady DEF ProbeAsks, ProbeAnswered
  <2>2. CASE ProbeHandled
    <3>1. probe.snd \in Sends \cup {0} BY DEF Inv, Types, TypeProbe
    <3>2. send' = Abort(send, probe.snd) \/ send' = send BY <2>2 DEF ProbeHandled
    <3>3. \A s \in Sessions : active'[s] \in {active[s], 0}
      BY <2>2 DEF ProbeHandled, Inv, Types, TypeSend
    <3> QED BY <2>2, <3>1, <3>2, <3>3, AbortSteady DEF ProbeHandled
  <2>3. CASE TabRecovers
    <3>1. active[current] \in Sends \cup {0} BY DEF Inv, Types, TypePage, TypeSend
    <3>2. send' = Abort(send, active[current]) BY <2>3 DEF TabRecovers
    <3>3. \A s \in Sessions : active'[s] \in {active[s], 0}
      BY <2>3 DEF TabRecovers, Inv, Types, TypeSend
    <3> QED BY <2>3, <3>1, <3>2, <3>3, AbortSteady DEF TabRecovers
  <2> QED BY <2>1, <2>2, <2>3
<1> QED BY <1>0, <1>1, <1>d, <1>2, <1>3, SteadyKeeps, SteadyDrains

\* The server, the re-attachments and the stuttering steps.
LEMMA StillPage ==
  ASSUME Inv, Types', OwnerInv, UNCHANGED <<sendVars, boxVars, streaming, inFlight>>
  PROVE  OwnerInv' /\ DrainStep
<1>1. submits \in Nat BY DEF Inv, Types, TypeBox
<1>2. Steady BY StillSteady
<1> QED BY <1>1, <1>2, SteadyKeeps, SteadyDrains DEF boxVars

-----------------------------------------------------------------------------
(* The theorems. *)

LEMMA OwnerInit == Init => OwnerInv
<1> SUFFICES ASSUME Init PROVE OwnerInv OBVIOUS
<1>1. Unposted BY DEF Init, NoSend, Unposted
<1>2. RegNewest BY DEF Init, RegNewest
<1>3. BusyHasOwner BY DEF Init, BusyHasOwner
<1> QED BY <1>1, <1>2, <1>3 DEF OwnerInv

LEMMA PageStep == Inv /\ OwnerInv /\ [Next]_vars => OwnerInv' /\ DrainStep
<1> SUFFICES ASSUME Inv, OwnerInv, [Next]_vars PROVE OwnerInv' /\ DrainStep OBVIOUS
<1>0. Inv' /\ Types' BY InvStep DEF Inv
<1>1. CASE User \/ Timers BY <1>0, <1>1, BoxPage, MovePage DEF User, Timers
<1>2. ASSUME NEW k \in Sends,
             \/ Step(k) \/ FailPreflight(k) \/ Delta(k) \/ Terminal(k) \/ LoseStream(k)
             \/ Timeout(k)
      PROVE  OwnerInv' /\ DrainStep
  BY <1>0, <1>2, ReleasePage, CommitPage, PreflightPage, PostPage, ConnectedPage, EndPage DEF Step
<1>3. ASSUME NEW k \in Sends, Server(k) PROVE OwnerInv' /\ DrainStep
  <2>1. UNCHANGED <<sendVars, boxVars, streaming, inFlight>>
    BY <1>3 DEF Server, ServerStarts, ServerRefuses, ServerEnds, ServerFails, pageVars
  <2> QED BY <1>0, <2>1, StillPage
<1>4. CASE SelectSettles \/ \E i \in Resumers : StatusComes(i) \/ ResumeAnswered(i) \/ ResumeEnds(i)
  <2>1. UNCHANGED <<sendVars, boxVars, streaming, inFlight>>
    BY <1>4 DEF SelectSettles, StatusComes, ResumeAnswered, ResumeEnds, pageVars
  <2> QED BY <1>0, <2>1, StillPage
<1>5. CASE ProbeAsks \/ ProbeAnswered \/ ProbeHandled \/ TabRecovers
  BY <1>0, <1>5, WatchPage
<1>6. CASE UNCHANGED vars
  <2>1. UNCHANGED <<sendVars, boxVars, streaming, inFlight>> BY <1>6 DEF vars, pageVars
  <2> QED BY <1>0, <2>1, StillPage
<1> QED BY <1>1, <1>2, <1>3, <1>4, <1>5, <1>6 DEF Next

\* The gate is closed only while a submit is in it, and the button is a Stop button
\* only while the newest send of some chat is not over, or after one that ended before
\* its POST: replacements, stops, timeouts, recoveries and the finally blocks of
\* superseded sends leave it truthful.
THEOREM ButtonTruthful == Spec => []BusyHasOwner
<1>1. Inv /\ OwnerInv /\ [Next]_vars => OwnerInv' BY PageStep
<1>2. OwnerInv => BusyHasOwner BY DEF OwnerInv
<1> QED BY <1>1, <1>2, OwnerInit, Invariant, PTL DEF Spec

\* No step leaves a queue without somebody to drain it, except a submit that ends in the
\* gate, one that finds the box emptied, and those that leave the button stuck.
THEOREM QueueKept == Spec => QueueKeepsDrainer
<1>1. Inv /\ OwnerInv /\ [Next]_vars => OwnerInv' /\ DrainStep BY PageStep
<1>2. DrainStep =>
        [queue' # <<>> /\ (queue = <<>> \/ HasDrainer) =>
            \/ HasDrainer' \/ StuckButton \/ StuckButton'
            \/ \E k \in Sends : send[k].pc = "gate" /\ send'[k].pc = "released"
            \/ submits' < submits /\ composer = 0]_vars
  BY DEF DrainStep
<1> QED BY <1>1, <1>2, OwnerInit, Invariant, PTL DEF Spec, QueueKeepsDrainer

=============================================================================
