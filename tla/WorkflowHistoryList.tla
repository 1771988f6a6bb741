------------------------ MODULE WorkflowHistoryList ------------------------
(***************************************************************************)
(* The list of a user's workflow histories (listUseCase.List and           *)
(* GormWorkflowStatusRepository.List), read while the workflows run.       *)
(*                                                                         *)
(* One request issues three statements without a transaction: the number   *)
(* of rows, the rows of the page, and the failure rows of that page.  The  *)
(* steps of ManualMailWorkflow may come between any two of them.           *)
(***************************************************************************)
EXTENDS ManualMailWorkflow, Integers, Sequences, FiniteSets

CONSTANTS
    Mine,         \* the workflows of the user who asks for the list
    QueuedAt,     \* the queued_at of each workflow, taken before the INSERT
    ListQueries   \* the queries of the request

ASSUME MineAssumption == Mine \subseteq Workflows /\ IsFiniteSet(Mine)

\* Rows with the same queued_at, which the id would order, are left out.
ASSUME QueuedAtAssumption ==
    /\ QueuedAt \in [Workflows -> Nat]
    /\ \A v, w \in Workflows : QueuedAt[v] = QueuedAt[w] => v = w

\* As the controller has parsed them.
ASSUME ListQueriesAssumption ==
    ListQueries \subseteq [limit : Int, hasLimit : BOOLEAN, offset : Int,
                           hasOffset : BOOLEAN, status : STRING]

VARIABLE
    list     \* the request: where it is, and what its statements returned

listVars == <<row, pc, stage, result, list>>

---------------------------------------------------------------------------
(* The query.                                                              *)

defaultWorkflowHistoryListLimit == 20
defaultWorkflowHistoryListOffset == 0
maxWorkflowHistoryListLimit == 100

AnyStatus == ""    \* no status in the query

isWorkflowStatusFilter(status) == status \in Statuses \ {"absent"}

NormalizeListQuery(q) ==
    [q EXCEPT
       !.limit = IF q.hasLimit THEN @ ELSE defaultWorkflowHistoryListLimit,
       !.offset = IF q.hasOffset THEN @ ELSE defaultWorkflowHistoryListOffset]

ValidateListQuery(q) ==
    /\ q.limit \in 1..maxWorkflowHistoryListLimit
    /\ q.offset >= 0
    /\ q.status # AnyStatus => isWorkflowStatusFilter(q.status)

---------------------------------------------------------------------------
(* The statements.                                                         *)

buildListBaseQuery(q) ==
    {w \in Mine : /\ row[w].status # "absent"
                  /\ q.status \in {AnyStatus, row[w].status}}

\* ORDER BY queued_at DESC.
NewestFirst(ws) ==
    CHOOSE order \in [1..Cardinality(ws) -> ws] :
       \A i, j \in DOMAIN order : i < j => QueuedAt[order[i]] > QueuedAt[order[j]]

\* LIMIT limit OFFSET offset.
Page(q) ==
    LET ws == buildListBaseQuery(q)
        order == NewestFirst(ws)
    IN  [i \in {k \in 1..q.limit : q.offset + k <= Cardinality(ws)} |-> order[q.offset + i]]

\* What an item shows of its row: status and failure counts.
HistoryItem(w) ==
    [workflow |-> w, status |-> row[w].status,
     counted |-> [s \in Stages |-> FailureCount(row[w].progress[s])]]

\* The number of failure rows of each stage of the histories in ws.
groupFailureViewsByHistory(ws) ==
    [w \in ws |-> [s \in Stages |-> row[w].progress[s].recs]]

\* A query without parameters.
NoQuery == [limit |-> 0, hasLimit |-> FALSE, offset |-> 0,
            hasOffset |-> FALSE, status |-> AnyStatus]

\* The answer is items and total, each item with its workflow's failures.
NoRequest == [at |-> "idle", query |-> NoQuery, total |-> 0,
              items |-> <<>>, failures |-> <<>>]

ListInit ==
    /\ Init
    /\ list = NoRequest

---------------------------------------------------------------------------
(* The request.                                                            *)

\* The controller or Validate refuses the query.
RefuseList(q) ==
    /\ list.at = "idle"
    /\ ~ValidateListQuery(NormalizeListQuery(q))
    /\ UNCHANGED listVars

CountHistories(q) ==
    /\ list.at = "idle"
    /\ ValidateListQuery(NormalizeListQuery(q))
    /\ list' = [list EXCEPT
                  !.at = "page", !.query = NormalizeListQuery(q),
                  !.total = Cardinality(buildListBaseQuery(NormalizeListQuery(q)))]
    /\ UNCHANGED vars

\* An empty page is answered without the third statement.
FindPage ==
    LET page == Page(list.query) IN
    /\ list.at = "page"
    /\ list' = [list EXCEPT
                  !.at = IF page = <<>> THEN "answered" ELSE "failures",
                  !.items = [i \in DOMAIN page |-> HistoryItem(page[i])]]
    /\ UNCHANGED vars

FindFailures ==
    /\ list.at = "failures"
    /\ list' = [list EXCEPT
                  !.at = "answered",
                  !.failures = groupFailureViewsByHistory(
                      {list.items[i].workflow : i \in DOMAIN list.items})]
    /\ UNCHANGED vars

\* A statement errors and the request with it.
ListErrors ==
    /\ list.at \in {"page", "failures"}
    /\ list' = NoRequest
    /\ UNCHANGED vars

\* Mutant: the failure rows are read before the histories they belong to.
ListFailuresFirst ==
    \/ /\ list.at = "idle"
       /\ list' = [list EXCEPT !.at = "page", !.query = NoQuery,
                               !.query.limit = defaultWorkflowHistoryListLimit,
                               !.failures = groupFailureViewsByHistory(Mine)]
       /\ UNCHANGED vars
    \/ /\ list.at = "page"
       /\ list' = [list EXCEPT !.at = "answered",
                     !.items = [i \in DOMAIN Page(list.query) |->
                                  HistoryItem(Page(list.query)[i])]]
       /\ UNCHANGED vars

List ==
    \/ \E q \in ListQueries : RefuseList(q) \/ CountHistories(q)
    \/ FindPage
    \/ FindFailures
    \/ ListErrors

ListNext == (Next /\ UNCHANGED list) \/ List

ListSpec == ListInit /\ [][ListNext]_listVars

---------------------------------------------------------------------------
(* Properties.                                                             *)

\* An ended run shows exactly the failures it counts, and at most the one note
\* of the fetch stage more; an unfinished one at least those it counts.
FailuresAreShown ==
    \A i \in DOMAIN list.items : \A s \in Stages :
      LET item == list.items[i]
          counted == item.counted[s]
          shown == list.failures[item.workflow][s]
      IN  /\ shown >= counted
          /\ item.status \in Terminal =>
               \/ shown = counted
               \/ s = workflowStageFetch /\ shown = counted + 1

ItemsAreInOrder ==
    \A i, j \in DOMAIN list.items : i < j =>
      QueuedAt[list.items[i].workflow] > QueuedAt[list.items[j].workflow]

PageIsFull ==
    list.query.status = AnyStatus =>
      \/ Len(list.items) = list.query.limit
      \/ Len(list.items) >= list.total - list.query.offset

(***************************************************************************)
(* An answered list is whole although its statements read different        *)
(* states: the failures it shows are those its items count; items are in   *)
(* the order of queued_at and none appears twice; and without a status     *)
(* filter the page is never shorter than total_count promises, because no  *)
(* row is ever removed.                                                    *)
(***************************************************************************)
ListedRunsAreWhole ==
    list.at = "answered" => FailuresAreShown /\ ItemsAreInOrder /\ PageIsFull

---------------------------------------------------------------------------
(* The inductive invariant.                                                *)

\* Since an item was read its row has kept its failures, and an ended run
\* its counts.
ItemHolds(item) ==
    /\ item.workflow \in Mine
    /\ \A s \in Stages : LET p == row[item.workflow].progress[s] IN
         /\ item.counted[s] \in 0..p.recs
         /\ item.status \in Terminal =>
              row[item.workflow].status \in Terminal /\ item.counted[s] = FailureCount(p)

(***************************************************************************)
(* Between its statements the request has a valid query, a total of rows   *)
(* that are still there, and items that still hold.                        *)
(***************************************************************************)
ListInv ==
    /\ IndInv
    /\ list = [at |-> list.at, query |-> list.query, total |-> list.total,
               items |-> list.items, failures |-> list.failures]
    /\ list.at \in {"idle", "page", "failures", "answered"}
    /\ list.at # "idle" =>
         list.query.limit \in Nat /\ list.query.offset \in Nat /\ list.total \in Nat
    /\ list.at = "page" /\ list.query.status = AnyStatus =>
         list.total <= Cardinality(buildListBaseQuery(list.query))
    /\ list.at = "failures" => \A i \in DOMAIN list.items : ItemHolds(list.items[i])
    /\ list.at \in {"failures", "answered"} => ItemsAreInOrder /\ PageIsFull
    /\ list.at = "answered" => FailuresAreShown
===========================================================================
