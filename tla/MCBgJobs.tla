------------------------------ MODULE MCBgJobs ------------------------------
(***************************************************************************)
(* Model-checking instances of BgJobs: all jobs belong to one session, so  *)
(* that they compete for it.                                               *)
(***************************************************************************)
EXTENDS BgJobs, TLC

CONSTANT TheSession

MCSessions  == {TheSession}
Symmetry    == Permutations(Jobs)
MCSessionOf == [j \in Jobs |-> TheSession]
=============================================================================
