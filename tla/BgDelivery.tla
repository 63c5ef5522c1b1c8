----------------------------- MODULE BgDelivery -----------------------------
(***************************************************************************)
(* What the background jobs promise the agent, without refresh(), the      *)
(* dict it works on, the processes and the monitor's loop: a recorded job  *)
(* becomes due, is announced and then closed.  BgJobs implements it.       *)
(*                                                                         *)
(* A crash loses at most the acknowledgement of an announcement, which     *)
(* makes the delivery at-least-once, and a launch that is not recorded.    *)
(***************************************************************************)
EXTENDS Integers

CONSTANT Jobs

VARIABLES
  phase,    \* how far a job's announcement is
  told,     \* announcements made
  crashes

dvars == <<phase, told, crashes>>

Phases == {"new", "running", "due", "announced", "closed", "gone"}

DInit == /\ phase = [j \in Jobs |-> "new"]
         /\ told = [j \in Jobs |-> 0]
         /\ crashes = 0

\* The phase of job j moves from one of "from" to "to".
Moves(j, from, to) == phase[j] \in from /\ phase' = [phase EXCEPT ![j] = to]

Track(j) == Moves(j, {"new"}, "running") /\ UNCHANGED <<told, crashes>>

\* The agent kills a job: nothing is left to announce.
Cancel(j) == Moves(j, {"running"}, "closed") /\ UNCHANGED <<told, crashes>>

\* One look at the jobs: ended ones are due, closed ones may be forgotten.
Poll == /\ phase' \in [Jobs -> Phases]
        /\ \A j \in Jobs : \/ phase'[j] = phase[j]
                           \/ phase[j] = "running" /\ phase'[j] = "due"
                           \/ phase[j] = "closed" /\ phase'[j] = "gone"
        /\ UNCHANGED <<told, crashes>>

Announce(j) == /\ Moves(j, {"due"}, "announced")
               /\ told' = [told EXCEPT ![j] = @ + 1]
               /\ UNCHANGED crashes

Close(j) == Moves(j, {"announced"}, "closed") /\ UNCHANGED <<told, crashes>>

Lapse == /\ crashes' = crashes + 1
         /\ phase' \in [Jobs -> Phases]
         /\ \A j \in Jobs : \/ phase[j] # "announced" /\ phase'[j] = phase[j]
                            \/ phase[j] = "announced" /\ phase'[j] = "due"
                            \/ phase[j] = "new" /\ phase'[j] = "gone"
         /\ UNCHANGED told

DNext == \/ Poll \/ Lapse
         \/ \E j \in Jobs : Track(j) \/ Cancel(j) \/ Announce(j) \/ Close(j)

DSpec == DInit /\ [][DNext]_dvars
=============================================================================
