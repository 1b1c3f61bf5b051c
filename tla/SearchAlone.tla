---------------------------- MODULE SearchAlone ----------------------------
(***************************************************************************)
(* SearchIndex, and a history variable: overlapped notes whether two       *)
(* searches have ever run at the same time.  Until then recall is          *)
(* complete.                                                               *)
(***************************************************************************)
EXTENDS SearchIndex

VARIABLE overlapped

Running == {s \in Searcher : pc[s] \notin {"idle", "done", "duplicate", "failed"}}

Overlap == \E s \in Running : \E t \in Running : s # t

AloneInit == Init /\ overlapped = FALSE

AloneNext == Next /\ overlapped' = (overlapped \/ Overlap')

AloneSpec == AloneInit /\ [][AloneNext]_<<vars, overlapped>>

-----------------------------------------------------------------------------

\* architecture.md: "recall synchronizes the disposable index on demand from
\* canonical Markdown".  A search (search.py) finds every memory that was
\* active since it began, whatever crashed and changed before and meanwhile.
\* Once two searches have overlapped it may not: a slower sync can put an older
\* row back, or remove it, between the sync and the query.
RecallComplete ==
    overlapped \/ \A s \in Searcher : pc[s] = "done" =>
        \A p \in stable[s] : disk[p].visible => p \in results[s]
=============================================================================
