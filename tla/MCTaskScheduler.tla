-------------------------- MODULE MCTaskScheduler --------------------------
(***************************************************************************)
(* Model-checking instances of TaskScheduler.                              *)
(***************************************************************************)
EXTENDS TaskScheduler

CONSTANTS t1, t2

\* One task, by itself.
One     == {t1}
NoChain == [t \in One |-> NoTask]

\* Two tasks, the second chained to the first.
Two     == {t1, t2}
ThenTwo == [t \in Two |-> IF t = t1 THEN t2 ELSE NoTask]
=============================================================================
