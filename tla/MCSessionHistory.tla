------------------------- MODULE MCSessionHistory -------------------------
(***************************************************************************)
(* The model-checking root of SessionHistory.  In SessionHistory.cfg the   *)
(* thresholds of the code are scaled down to transcripts of a few          *)
(* messages; SessionHistoryAutoCompaction.cfg keeps maybe_compact's own.   *)
(***************************************************************************)
EXTENDS SessionHistory

\* A state without what no action and no property of SessionHistory.cfg reads any more.
\* Once a commit failed, a load came late or a compaction overtook an edit, that is
\* which messages were removed, and what a waiting compaction will not write back.  Of a
\* deleted session that nobody has cached or is about to, it is all contents.
Spoilt == faults > 0 \/ overtaken
Gone   == ~store.live /\ store.cache = NoObj /\ ~loading
Seen   == IF Gone
            THEN <<made, phase, active, Compacting, faults, healthy, overtaken, reread>>
            ELSE <<store, made, summaries, phase, held, context, active,
                   IF Spoilt THEN compact.recent ELSE compact, faults, healthy,
                   Spoilt, IF Spoilt THEN {} ELSE removed, threads>>
=============================================================================
