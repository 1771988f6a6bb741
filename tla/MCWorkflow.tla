---------------------------- MODULE MCWorkflow ----------------------------
(***************************************************************************)
(* Instances of ManualMailWorkflow and WorkflowHistoryList for TLC.        *)
(***************************************************************************)
EXTENDS WorkflowHistoryList

CONSTANTS w1, w2

\* w2 is the newer one whichever of the two is inserted first.
MCQueuedAt == [w \in Workflows |-> IF w = w1 THEN 1 ELSE 2]

\* A one-row page, ended runs on a default page, and a query that is refused.
MCListQueries ==
    {[NoQuery EXCEPT !.limit = 1, !.hasLimit = TRUE,
                     !.offset = 1, !.hasOffset = TRUE],
     [NoQuery EXCEPT !.status = "partial_success"],
     [NoQuery EXCEPT !.hasLimit = TRUE]}

\* What the workflows do after the answer cannot change it.
UntilAnswered == list.at # "answered"
===========================================================================
