-------------------------- MODULE MCToolApprovals --------------------------
(***************************************************************************)
(* Model-checking instance of ToolApprovals.                               *)
(***************************************************************************)
EXTENDS ToolApprovals, TLC

Symmetry == Permutations(Docs) \cup Permutations(Sessions) \cup Permutations(Texts)

\* A state without what no action and none of the properties of ToolApprovals.cfg
\* reads any more: a run past the gate seals nothing, so its view and its taint are
\* dead, and "own" is read by EditsItsOwn alone.
Bare(r) == IF r = Idle THEN r
           ELSE IF r.bypass THEN [r EXCEPT !.own = {}, !.view = NoView, !.armed = TRUE]
           ELSE [r EXCEPT !.own = {}]
Lean == <<docVars, cardVars, reqs, [s \in Sessions |-> Bare(run[s])], granted, done, turns>>
=============================================================================
