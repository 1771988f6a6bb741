------------------------- MODULE MailPipeline_proofs -------------------------
(***************************************************************************)
(* Proofs about ManualMailWorkflow, its list of histories, MailPipeline    *)
(* and the BillingRules it applies, for any set of workflows, any bound on *)
(* the items, any set of faults, any mailbox, any batch size and any       *)
(* number of candidates in an email.                                       *)
(*                                                                         *)
(* The workflow around the stages comes first.  The argument is one        *)
(* inductive invariant, IndInv.  It speaks of one workflow at a time, so a *)
(* step of workflow w is proved by a lemma about the values w has after    *)
(* the step (one lemma per call of the code), and LocalStep carries the    *)
(* result to all workflows.  A list of histories is read while they run    *)
(* (WorkflowHistoryList, ListInv).                                         *)
(*                                                                         *)
(* The stages follow.  PipelineInv is inductive; it contains IndInv,       *)
(* because the two need each other: a stage keeps its contract since it    *)
(* was started on what the one before produced, and the workflow's         *)
(* invariant holds since the stages keep their contract.                   *)
(***************************************************************************)
EXTENDS MailPipeline, WorkflowHistoryList, SequenceTheorems, FiniteSetTheorems,
        FunctionTheorems, WellFoundedInduction, TLAPS

-----------------------------------------------------------------------------
(* The workflow around the stages.                                          *)

\* Every value a row can hold, and the facts on stages used throughout.
LEMMA StagesAreNumbers ==
    /\ Stages = {1, 2, 3, 4, 5}
    /\ \A s \in Stages : s \in Nat
BY DEF Stages, workflowStageFetch, workflowStageBilling

LEMMA BuildType ==
    ASSUME NEW s \in Stages, NEW r \in StageResult
    PROVE  buildStageProgress(s, r) \in StageProgress
BY DEF buildStageProgress, StageResult, StageProgress, workflowStageFetch

LEMMA BuildFields ==
    ASSUME NEW s, NEW r
    PROVE  buildStageProgress(s, r).bus = r.bus /\ buildStageProgress(s, r).tech = r.tech
BY DEF buildStageProgress

LEMMA BuildOfNothing ==
    ASSUME NEW s \in Stages
    PROVE  buildStageProgress(s, NoResult) = NoProgress
BY DEF buildStageProgress, NoResult, NoProgress, workflowStageFetch

LEMMA SavedType ==
    ASSUME NEW r \in HistoryRow, NEW s \in Stages, NEW p \in StageProgress
    PROVE  ProgressRow(r, s, p) \in HistoryRow
<1> DEFINE q == [succ |-> p.succ, bus |-> p.bus, tech |-> p.tech,
                 recs |-> r.progress[s].recs + p.recs,
                 note |-> r.progress[s].note + p.note]
<1>1. r.progress[s] \in StageProgress
  BY DEF HistoryRow
<1>2. q \in StageProgress
  BY <1>1 DEF StageProgress
<1>3. ProgressRow(r, s, p) = [r EXCEPT !.progress[s] = q]
  BY DEF ProgressRow
<1> HIDE DEF q
<1>4. QED
  BY <1>2, <1>3 DEF HistoryRow

LEMMA RowTypes ==
    /\ AbsentRow \in HistoryRow
    /\ QueuedRow \in HistoryRow
    /\ \A r \in HistoryRow : \A s \in Stages \union {NoStage} :
         /\ RunningRow(r, s) \in HistoryRow
         /\ FailedRow(r, s) \in HistoryRow
    /\ \A r \in HistoryRow : \A st \in Completed : CompletedRow(r, st) \in HistoryRow
BY DEF AbsentRow, QueuedRow, RunningRow, FailedRow, CompletedRow, HistoryRow,
       Completed, Statuses, Terminal, StageProgress, NoProgress, NoStage

-----------------------------------------------------------------------------
(* One lemma per call: the values a workflow has after it satisfy the       *)
(* invariant again, whether the call is applied, errors or loses its reply. *)

LEMMA AcceptedInv ==
    ASSUME NEW res \in [Stages -> StageResult],
           WorkflowInv(AbsentRow, "idle", NoStage, res)
    PROVE  /\ WorkflowInv(QueuedRow, "dispatch", NoStage, res)
           /\ WorkflowInv(AbsentRow, "rejected", NoStage, res)
           /\ "lost_reply" \in Faults => WorkflowInv(QueuedRow, "rejected", NoStage, res)
<1> USE BuildOfNothing DEF RowTracksRunner, QueuedRow, AbsentRow, Terminal, Completed,
         NoStage, Active
<1>1. RowTracksRunner(QueuedRow, "dispatch", NoStage)
      /\ RowTracksRunner(AbsentRow, "rejected", NoStage)
      /\ RowTracksRunner(QueuedRow, "rejected", NoStage)
  OBVIOUS
<1>2. ResultsInOrder("dispatch", NoStage, res) /\ ResultsInOrder("rejected", NoStage, res)
  BY DEF WorkflowInv, ResultsInOrder
<1>3. /\ ProgressTracksResults(QueuedRow, "dispatch", NoStage, res)
      /\ ProgressTracksResults(AbsentRow, "rejected", NoStage, res)
      /\ ProgressTracksResults(QueuedRow, "rejected", NoStage, res)
  BY DEF WorkflowInv, ProgressTracksResults, ResultsInOrder
<1>4. /\ RowHasOwner(QueuedRow, "dispatch")
      /\ RowHasOwner(AbsentRow, "rejected")
      /\ "lost_reply" \in Faults => RowHasOwner(QueuedRow, "rejected")
  BY DEF RowHasOwner
<1>5. QED
  BY <1>1, <1>2, <1>3, <1>4 DEF WorkflowInv

LEMMA DispatchedInv ==
    ASSUME NEW res \in [Stages -> StageResult],
           WorkflowInv(QueuedRow, "dispatch", NoStage, res)
    PROVE  /\ WorkflowInv(QueuedRow, "mark", workflowStageFetch, res)
           /\ WorkflowInv(QueuedRow, "fail_start", NoStage, res)
<1> USE StagesAreNumbers DEF QueuedRow, AbsentRow, Terminal, Completed,
         NoStage, Active, workflowStageFetch
<1>1. RowTracksRunner(QueuedRow, "mark", workflowStageFetch)
      /\ RowTracksRunner(QueuedRow, "fail_start", NoStage)
  BY DEF RowTracksRunner
<1>2. ResultsInOrder("mark", workflowStageFetch, res) /\ ResultsInOrder("fail_start", NoStage, res)
  BY DEF WorkflowInv, ResultsInOrder
<1>3. /\ ProgressTracksResults(QueuedRow, "mark", workflowStageFetch, res)
      /\ ProgressTracksResults(QueuedRow, "fail_start", NoStage, res)
  BY BuildOfNothing DEF WorkflowInv, ProgressTracksResults, ResultsInOrder
<1>4. RowHasOwner(QueuedRow, "mark") /\ RowHasOwner(QueuedRow, "fail_start")
  BY DEF RowHasOwner
<1>5. QED
  BY <1>1, <1>2, <1>3, <1>4 DEF WorkflowInv

\* Fail, called by Start and by the runner: the row ends and stays ended.
LEMMA FailedInv ==
    ASSUME NEW r \in HistoryRow, NEW p \in {"fail_start", "fail"},
           NEW q \in {"rejected", "done"}, NEW s \in Stages \union {NoStage},
           NEW res \in [Stages -> StageResult],
           WorkflowInv(r, p, s, res)
    PROVE  /\ WorkflowInv(FailedRow(r, s), q, s, res)
           /\ "fail_write_error" \in Faults => WorkflowInv(r, q, s, res)
<1> USE DEF FailedRow, HistoryRow
<1>1. RowTracksRunner(FailedRow(r, s), q, s) /\ RowTracksRunner(r, q, s)
  BY StagesAreNumbers DEF WorkflowInv, RowTracksRunner, Terminal, Completed, NoStage
<1>2. ResultsInOrder(q, s, res)
  BY DEF WorkflowInv, ResultsInOrder
<1>3. ProgressTracksResults(FailedRow(r, s), q, s, res) /\ ProgressTracksResults(r, q, s, res)
  BY DEF WorkflowInv, ProgressTracksResults, Completed
<1>4. /\ RowHasOwner(FailedRow(r, s), q)
      /\ "fail_write_error" \in Faults => RowHasOwner(r, q)
  BY DEF WorkflowInv, RowHasOwner, Terminal
<1>5. QED
  BY <1>1, <1>2, <1>3, <1>4 DEF WorkflowInv

LEMMA RunningInv ==
    ASSUME NEW r \in HistoryRow, NEW s \in Stages, NEW res \in [Stages -> StageResult],
           WorkflowInv(r, "mark", s, res)
    PROVE  /\ WorkflowInv(RunningRow(r, s), "exec", s, res)
           /\ WorkflowInv(RunningRow(r, s), "fail", s, res)
           /\ WorkflowInv(r, "fail", s, res)
<1> USE DEF RunningRow, HistoryRow, Terminal, Completed, NoStage
<1>1. /\ RowTracksRunner(RunningRow(r, s), "exec", s)
      /\ RowTracksRunner(RunningRow(r, s), "fail", s)
      /\ RowTracksRunner(r, "fail", s)
  BY StagesAreNumbers DEF WorkflowInv, RowTracksRunner
<1>2. ResultsInOrder("exec", s, res) /\ ResultsInOrder("fail", s, res)
  BY DEF WorkflowInv, ResultsInOrder
<1>3. /\ ProgressTracksResults(RunningRow(r, s), "exec", s, res)
      /\ ProgressTracksResults(RunningRow(r, s), "fail", s, res)
      /\ ProgressTracksResults(r, "fail", s, res)
  BY DEF WorkflowInv, ProgressTracksResults
<1>4. /\ RowHasOwner(RunningRow(r, s), "exec")
      /\ RowHasOwner(RunningRow(r, s), "fail")
      /\ RowHasOwner(r, "fail")
  BY DEF WorkflowInv, RowHasOwner, RowTracksRunner, Active
<1>5. QED
  BY <1>1, <1>2, <1>3, <1>4 DEF WorkflowInv

\* The stage returns v: only its own entry of the results changes.
LEMMA ReturnedInv ==
    ASSUME NEW r \in HistoryRow, NEW s \in Stages, NEW res \in [Stages -> StageResult],
           NEW v \in StageResults(s, StageInput(res, s)),
           WorkflowInv(r, "exec", s, res)
    PROVE  WorkflowInv(r, "save", s, [res EXCEPT ![s] = v])
<1> DEFINE new == [res EXCEPT ![s] = v]
<1>1. RowTracksRunner(r, "save", s)
  BY StagesAreNumbers DEF WorkflowInv, RowTracksRunner
<1>2. \A t \in Stages : t <= s => StageInput(new, t) = StageInput(res, t)
  BY StagesAreNumbers DEF StageInput, workflowStageFetch
<1>3. ResultsInOrder("save", s, new)
  <2>1. \A t \in Stages : t < s =>
           /\ new[t] = res[t] /\ new[t].out > 0
           /\ new[t] \in StageResults(t, StageInput(new, t))
    BY <1>2, StagesAreNumbers DEF WorkflowInv, ResultsInOrder
  <2>2. \A t \in Stages : t > s => new[t] = NoResult
    BY StagesAreNumbers DEF WorkflowInv, ResultsInOrder
  <2>3. new[s] \in StageResults(s, StageInput(new, s))
    BY <1>2, StagesAreNumbers
  <2>4. \A t \in Stages :
           new[t] = NoResult \/ new[t] \in StageResults(t, StageInput(new, t))
    BY <2>1, <2>2, <2>3, StagesAreNumbers
  <2>5. \A t, u \in Stages : u < t /\ new[t] # NoResult => new[u].out > 0
    BY <2>1, <2>2, StagesAreNumbers
  <2>6. QED
    BY <2>1, <2>2, <2>3, <2>4, <2>5 DEF ResultsInOrder
<1>4. ProgressTracksResults(r, "save", s, new)
  <2>1. \A t \in Stages \ {s} : r.progress[t] = buildStageProgress(t, new[t])
    BY DEF WorkflowInv, ProgressTracksResults
  <2>2. r.progress[s] = NoProgress
    BY BuildOfNothing DEF WorkflowInv, ProgressTracksResults, ResultsInOrder
  <2>3. \A t \in Stages : t > s => r.progress[t] = NoProgress
    BY BuildOfNothing DEF WorkflowInv, ProgressTracksResults, ResultsInOrder
  <2>4. r.status \notin Completed
    BY DEF WorkflowInv, RowTracksRunner, Completed
  <2>5. QED
    BY <2>1, <2>2, <2>3, <2>4, StagesAreNumbers DEF ProgressTracksResults
<1>5. RowHasOwner(r, "save")
  BY DEF WorkflowInv, RowHasOwner, RowTracksRunner, Active, Terminal
<1>6. QED
  BY <1>1, <1>3, <1>4, <1>5 DEF WorkflowInv

\* The stage errors or panics: nothing but the program counter changes.
LEMMA FailedStageInv ==
    ASSUME NEW r \in HistoryRow, NEW s \in Stages, NEW res \in [Stages -> StageResult],
           WorkflowInv(r, "exec", s, res)
    PROVE  WorkflowInv(r, "fail", s, res)
<1>1. RowTracksRunner(r, "fail", s)
  BY StagesAreNumbers DEF WorkflowInv, RowTracksRunner
<1>2. ResultsInOrder("fail", s, res) /\ ProgressTracksResults(r, "fail", s, res)
  BY DEF WorkflowInv, ResultsInOrder, ProgressTracksResults
<1>3. RowHasOwner(r, "fail")
  BY DEF WorkflowInv, RowHasOwner, RowTracksRunner, Active, Terminal
<1>4. QED
  BY <1>1, <1>2, <1>3 DEF WorkflowInv

\* SaveStageProgress: the columns of stage s now hold its result.
LEMMA SavedInv ==
    ASSUME NEW r \in HistoryRow, NEW s \in Stages, NEW res \in [Stages -> StageResult],
           WorkflowInv(r, "save", s, res)
    PROVE  LET new == ProgressRow(r, s, buildStageProgress(s, res[s])) IN
           /\ s # workflowStageBilling /\ res[s].out > 0 => WorkflowInv(new, "mark", s + 1, res)
           /\ s = workflowStageBilling \/ ~(res[s].out > 0) => WorkflowInv(new, "complete", s, res)
           /\ WorkflowInv(new, "fail", s, res)
           /\ WorkflowInv(r, "fail", s, res)
<1> DEFINE new == ProgressRow(r, s, buildStageProgress(s, res[s]))
<1>1. /\ new.status = r.status /\ new.stage = r.stage
      /\ new.finished = r.finished /\ new.error = r.error
      /\ \A t \in Stages \ {s} : new.progress[t] = r.progress[t]
  BY DEF ProgressRow, HistoryRow
<1>2. new.progress[s] = buildStageProgress(s, res[s])
  <2>1. r.progress[s].recs = 0 /\ r.progress[s].note = 0
    BY DEF WorkflowInv, ProgressTracksResults, NoProgress
  <2> DEFINE p == buildStageProgress(s, res[s])
  <2>2. p.recs \in Nat /\ p.note \in Nat
    BY BuildType DEF StageProgress
  <2>3. p = [succ |-> p.succ, bus |-> p.bus, tech |-> p.tech,
             recs |-> p.recs, note |-> p.note]
    BY DEF buildStageProgress
  <2> HIDE DEF p
  <2>4. ProgressRow(r, s, p).progress[s] =
          [succ |-> p.succ, bus |-> p.bus, tech |-> p.tech,
           recs |-> 0 + p.recs, note |-> 0 + p.note]
    BY <2>1 DEF ProgressRow, HistoryRow
  <2>5. QED
    BY <2>2, <2>3, <2>4 DEF p
<1>3. \A t \in Stages : new.progress[t] = buildStageProgress(t, res[t])
  BY <1>1, <1>2 DEF WorkflowInv, ProgressTracksResults
<1>4. r.status = "running" /\ r.stage = s /\ ~r.finished /\ ~r.error
  BY DEF WorkflowInv, RowTracksRunner, Terminal
<1>5. \A q : ProgressTracksResults(r, "fail", q, res)
  BY DEF WorkflowInv, ProgressTracksResults
<1>6. \A q : \A p \in {"mark", "complete", "fail"} : ProgressTracksResults(new, p, q, res)
  BY <1>1, <1>3, <1>4 DEF ProgressTracksResults, Completed
<1>7. \A p \in {"mark", "complete", "fail"} : RowHasOwner(new, p) /\ RowHasOwner(r, p)
  BY <1>1, <1>4 DEF RowHasOwner, Active, Terminal
<1>8. RowTracksRunner(r, "fail", s) /\ ResultsInOrder("fail", s, res)
  BY <1>4, StagesAreNumbers DEF WorkflowInv, RowTracksRunner, ResultsInOrder
<1>9. RowTracksRunner(new, "fail", s) /\ RowTracksRunner(new, "complete", s)
  BY <1>1, <1>4, StagesAreNumbers DEF RowTracksRunner, Completed, Terminal
<1>10. ASSUME s # workflowStageBilling, res[s].out > 0
       PROVE  RowTracksRunner(new, "mark", s + 1) /\ ResultsInOrder("mark", s + 1, res)
  <2>1. s + 1 \in Stages /\ s + 1 # workflowStageFetch /\ (s + 1) - 1 = s
    BY <1>10, StagesAreNumbers DEF workflowStageFetch, workflowStageBilling
  <2>2. RowTracksRunner(new, "mark", s + 1)
    BY <1>1, <1>4, <2>1 DEF RowTracksRunner, Completed, Terminal
  <2>3. \A t \in Stages : (t < s + 1 <=> t < s \/ t = s) /\ (t >= s + 1 <=> t > s)
    BY StagesAreNumbers
  <2>4. ResultsInOrder("mark", s + 1, res)
    BY <1>10, <2>1, <2>3, StagesAreNumbers DEF WorkflowInv, ResultsInOrder
  <2>5. QED
    BY <2>2, <2>4
<1>11. ASSUME s = workflowStageBilling \/ ~(res[s].out > 0)
       PROVE  ResultsInOrder("complete", s, res)
  BY <1>11 DEF WorkflowInv, ResultsInOrder, StageResult
<1>12. QED
  BY <1>5, <1>6, <1>7, <1>8, <1>9, <1>10, <1>11 DEF WorkflowInv

\* Complete: the status comes from the results, which are the columns.
LEMMA CompletedInv ==
    ASSUME NEW r \in HistoryRow, NEW s \in Stages, NEW res \in [Stages -> StageResult],
           WorkflowInv(r, "complete", s, res)
    PROVE  LET new == CompletedRow(r, workflowStatusForResult(res)) IN
           /\ WorkflowInv(new, "done", s, res)
           /\ "lost_reply" \in Faults => WorkflowInv(new, "fail", s, res)
           /\ WorkflowInv(r, "fail", s, res)
<1> DEFINE new == CompletedRow(r, workflowStatusForResult(res))
<1>1. workflowStatusForResult(res) \in Completed
  BY DEF workflowStatusForResult, Completed
<1>2. /\ new.status = workflowStatusForResult(res) /\ new.stage = NoStage
      /\ new.finished = TRUE /\ new.error = FALSE /\ new.progress = r.progress
  BY DEF CompletedRow, HistoryRow
<1>3. /\ RowTracksRunner(new, "done", s) /\ RowTracksRunner(new, "fail", s)
      /\ RowTracksRunner(r, "fail", s)
  BY <1>1, <1>2, StagesAreNumbers
     DEF WorkflowInv, RowTracksRunner, Completed, Terminal
<1>4. ResultsInOrder("done", s, res) /\ ResultsInOrder("fail", s, res)
  BY DEF WorkflowInv, ResultsInOrder
<1>5. \A t \in 3..workflowStageBilling :
         res[t].out + res[t].bus + res[t].tech = res[t - 1].out
  <2> SUFFICES ASSUME NEW t \in 3..workflowStageBilling
               PROVE  res[t].out + res[t].bus + res[t].tech = res[t - 1].out
    OBVIOUS
  <2>1. t \in Stages /\ t - 1 \in Stages /\ t > workflowStageAnalysis
        /\ StageInput(res, t) = res[t - 1].out
    BY DEF Stages, StageInput, workflowStageFetch, workflowStageAnalysis, workflowStageBilling
  <2>2. CASE t <= s
    <3>1. res[t] \in StageResults(t, StageInput(res, t))
      BY <2>1, <2>2, StagesAreNumbers DEF WorkflowInv, ResultsInOrder
    <3>2. QED
      BY <3>1, <2>1 DEF StageResults
  <2>3. CASE t > s
    <3>1. res[t] = NoResult
      BY <2>1, <2>3, StagesAreNumbers DEF WorkflowInv, ResultsInOrder
    <3>2. res[t - 1].out = 0
      BY <2>1, <2>3, StagesAreNumbers
         DEF WorkflowInv, ResultsInOrder, NoResult, workflowStageBilling
    <3>3. QED
      BY <3>1, <3>2 DEF NoResult
  <2>4. QED
    BY <2>1, <2>2, <2>3, StagesAreNumbers
<1>6. /\ ProgressTracksResults(new, "done", s, res)
      /\ ProgressTracksResults(new, "fail", s, res)
      /\ ProgressTracksResults(r, "fail", s, res)
  BY <1>1, <1>2, <1>5 DEF WorkflowInv, ProgressTracksResults
<1>7. /\ RowHasOwner(new, "done") /\ RowHasOwner(r, "fail")
      /\ "lost_reply" \in Faults => RowHasOwner(new, "fail")
  BY <1>1, <1>2 DEF WorkflowInv, RowHasOwner, RowTracksRunner, Active, Terminal, Completed
<1>8. QED
  BY <1>3, <1>4, <1>6, <1>7 DEF WorkflowInv

\* The process dies in the middle of anything.
LEMMA GoneInv ==
    ASSUME NEW r \in HistoryRow, NEW p \in Active, NEW s \in Stages \union {NoStage},
           NEW res \in [Stages -> StageResult], "crash" \in Faults,
           WorkflowInv(r, p, s, res)
    PROVE  WorkflowInv(r, "gone", s, res)
<1>1. RowTracksRunner(r, "gone", s)
  BY DEF WorkflowInv, RowTracksRunner
<1>2. ResultsInOrder("gone", s, res) /\ ProgressTracksResults(r, "gone", s, res)
  BY DEF WorkflowInv, ResultsInOrder, ProgressTracksResults
<1>3. RowHasOwner(r, "gone")
  BY DEF RowHasOwner
<1>4. QED
  BY <1>1, <1>2, <1>3 DEF WorkflowInv

-----------------------------------------------------------------------------
(* The invariant.                                                           *)

\* A step changes at most the values of workflow w.
OnlyChanges(w) ==
    /\ row' = [row EXCEPT ![w] = row'[w]]
    /\ pc' = [pc EXCEPT ![w] = pc'[w]]
    /\ stage' = [stage EXCEPT ![w] = stage'[w]]
    /\ result' = [result EXCEPT ![w] = result'[w]]

\* The new values of workflow w are of their types.
NewTypes(w) ==
    /\ row'[w] \in HistoryRow
    /\ pc'[w] \in PCs
    /\ stage'[w] \in Stages \union {NoStage}
    /\ result'[w] \in [Stages -> StageResult]

\* A step that gives workflow w good values and leaves the others alone.
LEMMA LocalStep ==
    ASSUME IndInv, NEW w \in Workflows, OnlyChanges(w), NewTypes(w),
           WorkflowInv(row'[w], pc'[w], stage'[w], result'[w])
    PROVE  IndInv'
<1>1. TypeOK'
  BY DEF IndInv, TypeOK, OnlyChanges, NewTypes
<1>2. ASSUME NEW v \in Workflows
      PROVE  WorkflowInv(row'[v], pc'[v], stage'[v], result'[v])
  <2>1. CASE v = w
    BY <2>1
  <2>2. CASE v # w
    <3>1. row'[v] = row[v] /\ pc'[v] = pc[v] /\ stage'[v] = stage[v] /\ result'[v] = result[v]
      BY <2>2 DEF IndInv, TypeOK, OnlyChanges
    <3>2. QED
      BY <3>1 DEF IndInv
  <2>3. QED
    BY <2>1, <2>2
<1>3. QED
  BY <1>1, <1>2 DEF IndInv

LEMMA InitInv == Init => IndInv
<1> SUFFICES ASSUME Init PROVE IndInv
  OBVIOUS
<1> DEFINE res == [s \in Stages |-> NoResult]
<1>1. res \in [Stages -> StageResult]
  BY DEF NoResult, StageResult
<1>2. TypeOK
  BY <1>1, RowTypes DEF Init, TypeOK, PCs, NoStage
<1>3. WorkflowInv(AbsentRow, "idle", NoStage, res)
  <2>1. RowTracksRunner(AbsentRow, "idle", NoStage)
    BY DEF RowTracksRunner, AbsentRow, Terminal, Completed
  <2>2. ResultsInOrder("idle", NoStage, res)
    BY DEF ResultsInOrder
  <2>3. ProgressTracksResults(AbsentRow, "idle", NoStage, res)
    BY BuildOfNothing DEF ProgressTracksResults, AbsentRow, Completed
  <2>4. RowHasOwner(AbsentRow, "idle")
    BY DEF RowHasOwner, AbsentRow, Terminal
  <2>5. QED
    BY <2>1, <2>2, <2>3, <2>4 DEF WorkflowInv
<1>4. QED
  BY <1>2, <1>3 DEF Init, IndInv

LEMMA NextInv == IndInv /\ [Next]_vars => IndInv'
<1> SUFFICES ASSUME IndInv, [Next]_vars PROVE IndInv'
  OBVIOUS
<1>1. TypeOK
  BY DEF IndInv
<1>2. ASSUME NEW w \in Workflows
      PROVE  /\ row[w] \in HistoryRow /\ stage[w] \in Stages \union {NoStage}
             /\ result[w] \in [Stages -> StageResult]
             /\ WorkflowInv(row[w], pc[w], stage[w], result[w])
             /\ pc[w] = "idle" => row[w] = AbsentRow /\ stage[w] = NoStage
             /\ pc[w] \in {"dispatch", "fail_start"} => row[w] = QueuedRow /\ stage[w] = NoStage
             /\ pc[w] \in {"mark", "exec", "save", "complete", "fail"} => stage[w] \in Stages
  BY DEF IndInv, TypeOK, WorkflowInv, RowTracksRunner
<1>3. ASSUME NEW w \in Workflows, RejectStart(w) PROVE IndInv'
  <2>1. /\ OnlyChanges(w) /\ pc[w] = "idle"
        /\ row'[w] = row[w] /\ pc'[w] = "rejected"
        /\ stage'[w] = stage[w] /\ result'[w] = result[w]
    BY <1>1, <1>3 DEF RejectStart, OnlyChanges, TypeOK
  <2>2. NewTypes(w)
    BY <1>2, <2>1 DEF NewTypes, PCs
  <2>3. WorkflowInv(row'[w], pc'[w], stage'[w], result'[w])
    BY <1>2, <2>1, AcceptedInv
  <2>4. QED
    BY <2>1, <2>2, <2>3, LocalStep
<1>4. ASSUME NEW w \in Workflows, CreateQueued(w) PROVE IndInv'
  <2>1. /\ OnlyChanges(w) /\ pc[w] = "idle"
        /\ stage'[w] = stage[w] /\ result'[w] = result[w]
        /\ \/ row'[w] = QueuedRow /\ pc'[w] = "dispatch"
           \/ row'[w] = row[w] /\ pc'[w] = "rejected"
           \/ row'[w] = QueuedRow /\ pc'[w] = "rejected" /\ "lost_reply" \in Faults
    BY <1>1, <1>4 DEF CreateQueued, Applied, Errored, OnlyChanges, TypeOK
  <2>2. NewTypes(w)
    BY <1>2, <2>1, RowTypes DEF NewTypes, PCs
  <2>3. WorkflowInv(row'[w], pc'[w], stage'[w], result'[w])
    BY <1>2, <2>1, AcceptedInv
  <2>4. QED
    BY <2>1, <2>2, <2>3, LocalStep
<1>5. ASSUME NEW w \in Workflows, Dispatch(w) \/ DispatchRefused(w) PROVE IndInv'
  <2>1. /\ OnlyChanges(w) /\ pc[w] = "dispatch"
        /\ row'[w] = row[w] /\ result'[w] = result[w]
        /\ \/ pc'[w] = "mark" /\ stage'[w] = workflowStageFetch
           \/ pc'[w] = "fail_start" /\ stage'[w] = stage[w]
    BY <1>1, <1>5 DEF Dispatch, DispatchRefused, OnlyChanges, TypeOK
  <2>2. NewTypes(w)
    BY <1>2, <2>1, StagesAreNumbers DEF NewTypes, PCs, workflowStageFetch
  <2>3. WorkflowInv(row'[w], pc'[w], stage'[w], result'[w])
    BY <1>2, <2>1, DispatchedInv
  <2>4. QED
    BY <2>1, <2>2, <2>3, LocalStep
<1>6. ASSUME NEW w \in Workflows, FailStart(w) \/ FailWorkflow(w) PROVE IndInv'
  <2>1. /\ OnlyChanges(w) /\ pc[w] \in {"fail_start", "fail"} /\ pc'[w] \in {"rejected", "done"}
        /\ stage'[w] = stage[w] /\ result'[w] = result[w]
        /\ \/ row'[w] = FailedRow(row[w], stage[w])
           \/ row'[w] = row[w] /\ "fail_write_error" \in Faults
    BY <1>1, <1>2, <1>6
       DEF FailStart, FailWorkflow, Applied, Errored, OnlyChanges, TypeOK
  <2>2. NewTypes(w)
    BY <1>2, <2>1, RowTypes DEF NewTypes, PCs
  <2>3. WorkflowInv(row'[w], pc'[w], stage'[w], result'[w])
    BY <1>2, <2>1, FailedInv
  <2>4. QED
    BY <2>1, <2>2, <2>3, LocalStep
<1>7. ASSUME NEW w \in Workflows, MarkRunning(w) PROVE IndInv'
  <2>1. /\ OnlyChanges(w) /\ pc[w] = "mark"
        /\ stage'[w] = stage[w] /\ result'[w] = result[w]
        /\ \/ row'[w] = RunningRow(row[w], stage[w]) /\ pc'[w] \in {"exec", "fail"}
           \/ row'[w] = row[w] /\ pc'[w] = "fail"
    BY <1>1, <1>7 DEF MarkRunning, Applied, Errored, OnlyChanges, TypeOK
  <2>2. NewTypes(w)
    BY <1>2, <2>1, RowTypes DEF NewTypes, PCs
  <2>3. WorkflowInv(row'[w], pc'[w], stage'[w], result'[w])
    BY <1>2, <2>1, RunningInv
  <2>4. QED
    BY <2>1, <2>2, <2>3, LocalStep
<1>8. ASSUME NEW w \in Workflows, Stage(w) PROVE IndInv'
  <2>1. PICK r \in StageResults(stage[w], StageInput(result[w], stage[w])) : StageReturns(w, r)
    BY <1>8 DEF Stage
  <2>2. /\ OnlyChanges(w) /\ pc[w] = "exec" /\ pc'[w] = "save"
        /\ row'[w] = row[w] /\ stage'[w] = stage[w]
        /\ result'[w] = [result[w] EXCEPT ![stage[w]] = r]
    BY <1>1, <2>1 DEF StageReturns, OnlyChanges, TypeOK
  <2>3. r \in StageResult
    BY MaxItemsAssumption DEF StageResults, StageResult
  <2>4. NewTypes(w)
    BY <1>2, <2>2, <2>3 DEF NewTypes, PCs
  <2>5. WorkflowInv(row'[w], pc'[w], stage'[w], result'[w])
    BY <1>2, <2>2, ReturnedInv
  <2>6. QED
    BY <2>2, <2>4, <2>5, LocalStep
<1>9. ASSUME NEW w \in Workflows, StageErrors(w) PROVE IndInv'
  <2>1. /\ OnlyChanges(w) /\ pc[w] = "exec" /\ pc'[w] = "fail"
        /\ row'[w] = row[w] /\ stage'[w] = stage[w] /\ result'[w] = result[w]
    BY <1>1, <1>9 DEF StageErrors, OnlyChanges, TypeOK
  <2>2. NewTypes(w)
    BY <1>2, <2>1 DEF NewTypes, PCs
  <2>3. WorkflowInv(row'[w], pc'[w], stage'[w], result'[w])
    BY <1>2, <2>1, FailedStageInv
  <2>4. QED
    BY <2>1, <2>2, <2>3, LocalStep
<1>10. ASSUME NEW w \in Workflows, SaveStageProgress(w) PROVE IndInv'
  <2> DEFINE s == stage[w]
             new == ProgressRow(row[w], s, buildStageProgress(s, result[w][s]))
             next == s # workflowStageBilling /\ result[w][s].out > 0
  <2>1. /\ OnlyChanges(w) /\ pc[w] = "save" /\ result'[w] = result[w]
        /\ \/ row'[w] = new /\ next /\ pc'[w] = "mark" /\ stage'[w] = s + 1
           \/ row'[w] = new /\ ~next /\ pc'[w] = "complete" /\ stage'[w] = s
           \/ row'[w] \in {new, row[w]} /\ pc'[w] = "fail" /\ stage'[w] = s
    BY <1>1, <1>10 DEF SaveStageProgress, Applied, Errored, OnlyChanges, TypeOK
  <2>2. new \in HistoryRow
    BY <1>2, <2>1, SavedType, BuildType
  <2>3. next => s + 1 \in Stages
    BY <1>2, <2>1, StagesAreNumbers DEF workflowStageBilling
  <2>4. NewTypes(w)
    BY <1>2, <2>1, <2>2, <2>3 DEF NewTypes, PCs
  <2>5. WorkflowInv(row'[w], pc'[w], stage'[w], result'[w])
    <3>1. /\ next => WorkflowInv(new, "mark", s + 1, result[w])
          /\ ~next => WorkflowInv(new, "complete", s, result[w])
          /\ WorkflowInv(new, "fail", s, result[w])
          /\ WorkflowInv(row[w], "fail", s, result[w])
      BY <1>2, <2>1, SavedInv
    <3>2. QED
      BY <2>1, <3>1
  <2>6. QED
    BY <2>1, <2>4, <2>5, LocalStep
<1>11. ASSUME NEW w \in Workflows, Complete(w) PROVE IndInv'
  <2> DEFINE new == CompletedRow(row[w], workflowStatusForResult(result[w]))
  <2>1. /\ OnlyChanges(w) /\ pc[w] = "complete"
        /\ stage'[w] = stage[w] /\ result'[w] = result[w]
        /\ \/ row'[w] = new /\ pc'[w] = "done"
           \/ row'[w] = row[w] /\ pc'[w] = "fail"
           \/ row'[w] = new /\ pc'[w] = "fail" /\ "lost_reply" \in Faults
    BY <1>1, <1>11 DEF Complete, Applied, Errored, OnlyChanges, TypeOK
  <2>2. new \in HistoryRow
    BY <1>2, RowTypes DEF workflowStatusForResult, Completed
  <2>3. NewTypes(w)
    BY <1>2, <2>1, <2>2 DEF NewTypes, PCs
  <2>4. WorkflowInv(row'[w], pc'[w], stage'[w], result'[w])
    <3>1. /\ WorkflowInv(new, "done", stage[w], result[w])
          /\ "lost_reply" \in Faults => WorkflowInv(new, "fail", stage[w], result[w])
          /\ WorkflowInv(row[w], "fail", stage[w], result[w])
      BY <1>2, <2>1, CompletedInv
    <3>2. QED
      BY <2>1, <3>1
  <2>5. QED
    BY <2>1, <2>3, <2>4, LocalStep
<1>12. CASE Crash
  <2>1. TypeOK'
    BY <1>1, <1>12 DEF Crash, TypeOK, PCs
  <2>2. ASSUME NEW w \in Workflows
        PROVE  WorkflowInv(row'[w], pc'[w], stage'[w], result'[w])
    <3>1. /\ row'[w] = row[w] /\ stage'[w] = stage[w] /\ result'[w] = result[w]
          /\ pc'[w] = IF pc[w] \in Active THEN "gone" ELSE pc[w]
          /\ "crash" \in Faults
      BY <1>12 DEF Crash
    <3>2. QED
      BY <1>2, <3>1, GoneInv
  <2>3. QED
    BY <2>1, <2>2 DEF IndInv
<1>13. CASE UNCHANGED vars
  BY <1>13 DEF vars, IndInv, TypeOK
<1>14. QED
  BY <1>3, <1>4, <1>5, <1>6, <1>7, <1>8, <1>9, <1>10, <1>11, <1>12, <1>13
     DEF Next, Serve, Control, Finished

(***************************************************************************)
(* Row, program counter and results of every workflow move together, for   *)
(* any number of workflows and whatever faults happen.                     *)
(***************************************************************************)
THEOREM Invariance == Spec => []IndInv
BY InitInv, NextInv, PTL DEF Spec

(***************************************************************************)
(* Every variable keeps its type: the row written by the repository calls  *)
(* always has one of the documented statuses and stages.                   *)
(***************************************************************************)
THEOREM TypeCorrect == Spec => []TypeOK
<1>1. IndInv => TypeOK
  BY DEF IndInv
<1>2. QED
  BY <1>1, Invariance, PTL

-----------------------------------------------------------------------------
(* What a reader of the row may rely on.                                    *)

\* The status is partial_success exactly when a saved column counts a failure.
LEMMA StatusFromColumns ==
    ASSUME NEW r \in HistoryRow, NEW res \in [Stages -> StageResult],
           \A t \in Stages : r.progress[t] = buildStageProgress(t, res[t]),
           r.status = workflowStatusForResult(res)
    PROVE  r.status = "partial_success" <=> \E t \in Stages : FailureCount(r.progress[t]) > 0
<1>1. \A t \in Stages : FailureCount(r.progress[t]) = res[t].bus + res[t].tech
  <2> SUFFICES ASSUME NEW t \in Stages
               PROVE  FailureCount(r.progress[t]) = res[t].bus + res[t].tech
    OBVIOUS
  <2>1. r.progress[t].bus = res[t].bus /\ r.progress[t].tech = res[t].tech
    BY BuildFields
  <2>2. QED
    BY <2>1 DEF FailureCount
<1>2. QED
  BY <1>1 DEF workflowStatusForResult, hasWorkflowFailures

(***************************************************************************)
(* An ended row says how the workflow went, under every fault: finished_at *)
(* and error_message agree with the status Complete or Fail wrote, and the *)
(* status agrees with the counts SaveStageProgress wrote.                  *)
(***************************************************************************)
THEOREM TerminalRows == Spec => []TerminalRowConsistent
<1>1. IndInv => TerminalRowConsistent
  <2> SUFFICES ASSUME IndInv, NEW w \in Workflows
               PROVE  LET r == row[w] IN
                      /\ r.finished <=> r.status \in Terminal
                      /\ r.error <=> r.status = "failed"
                      /\ r.status \in {"succeeded", "partial_success"} =>
                           /\ r.stage = NoStage
                           /\ r.status = "partial_success" <=>
                                \E s \in Stages : FailureCount(r.progress[s]) > 0
    BY DEF TerminalRowConsistent
  <2>1. /\ row[w] \in HistoryRow /\ result[w] \in [Stages -> StageResult]
        /\ RowTracksRunner(row[w], pc[w], stage[w])
        /\ ProgressTracksResults(row[w], pc[w], stage[w], result[w])
    BY DEF IndInv, TypeOK, WorkflowInv
  <2>2. /\ row[w].finished <=> row[w].status \in Terminal
        /\ row[w].error <=> row[w].status = "failed"
        /\ row[w].status \in Completed => row[w].stage = NoStage
    BY <2>1 DEF RowTracksRunner
  <2>3. row[w].status \in Completed =>
          (row[w].status = "partial_success" <=>
             \E s \in Stages : FailureCount(row[w].progress[s]) > 0)
    BY <2>1, StatusFromColumns DEF ProgressTracksResults
  <2>4. QED
    BY <2>2, <2>3 DEF Completed
<1>2. QED
  BY <1>1, Invariance, PTL

(***************************************************************************)
(* No item is lost between two stages of the runner: saved outcomes add up *)
(* to the successes of the stage before.                                   *)
(***************************************************************************)
THEOREM ItemsConserved == Spec => []ItemsAccountedFor
<1>1. IndInv => ItemsAccountedFor
  <2> SUFFICES ASSUME IndInv, NEW w \in Workflows, NEW s \in 3..workflowStageBilling
               PROVE  LET p == row[w].progress IN
                      \/ Total(p[s]) = p[s - 1].succ
                      \/ /\ Total(p[s]) = 0
                         /\ row[w].status \notin {"succeeded", "partial_success"}
    BY DEF ItemsAccountedFor
  <2> DEFINE p == row[w].progress
             res == result[w]
  <2>1. /\ row[w] \in HistoryRow /\ res \in [Stages -> StageResult]
        /\ ResultsInOrder(pc[w], stage[w], res)
        /\ ProgressTracksResults(row[w], pc[w], stage[w], res)
    BY DEF IndInv, TypeOK, WorkflowInv
  <2>2. /\ s \in Stages /\ s - 1 \in Stages /\ s - 1 < s
        /\ s > workflowStageAnalysis /\ s # workflowStageFetch
        /\ s - 1 >= workflowStageAnalysis /\ s - 1 # workflowStageFetch
    BY DEF Stages, workflowStageFetch, workflowStageAnalysis, workflowStageBilling
  <2>3. res[s - 1].seen = 0
    BY <2>1, <2>2, StagesAreNumbers
       DEF ResultsInOrder, StageResults, NoResult, workflowStageAnalysis
  <2>4. CASE p[s] = NoProgress /\ row[w].status \notin Completed
    BY <2>4 DEF Total, NoProgress, Completed
  <2>5. CASE p[s] # NoProgress /\ row[w].status \notin Completed
    <3>1. /\ p[s] = buildStageProgress(s, res[s])
          /\ p[s - 1] = buildStageProgress(s - 1, res[s - 1])
      BY <2>1, <2>2, <2>5 DEF ProgressTracksResults
    <3>2. res[s] # NoResult
      BY <2>2, <2>5, <3>1, BuildOfNothing
    <3>3. res[s].seen = 0 /\ res[s].out + res[s].bus + res[s].tech = res[s - 1].out
      BY <2>1, <2>2, <3>2 DEF ResultsInOrder, StageResults, StageInput
    <3>4. QED
      BY <2>1, <2>2, <2>3, <3>1, <3>3 DEF Total, buildStageProgress, StageResult
  <2>6. CASE row[w].status \in Completed
    <3>1. /\ p[s] = buildStageProgress(s, res[s])
          /\ p[s - 1] = buildStageProgress(s - 1, res[s - 1])
          /\ res[s].out + res[s].bus + res[s].tech = res[s - 1].out
      BY <2>1, <2>2, <2>6 DEF ProgressTracksResults
    <3>2. res[s].seen = 0
      BY <2>1, <2>2 DEF ResultsInOrder, StageResults, NoResult
    <3>3. QED
      BY <2>1, <2>2, <2>3, <3>1, <3>2 DEF Total, buildStageProgress, StageResult
  <2>7. QED
    BY <2>4, <2>5, <2>6
<1>2. QED
  BY <1>1, Invariance, PTL

LEMMA FailureRowsAgree == IndInv => CountsMatchFailureRows
<1> SUFFICES ASSUME IndInv, NEW w \in Workflows, NEW s \in Stages
             PROVE  LET p == row[w].progress[s] IN
                    /\ p.recs = FailureCount(p) + p.note
                    /\ p.note > 0 =>
                         /\ s = workflowStageFetch /\ p.succ > 0 /\ p.note = 1
                         /\ \A t \in Stages \ {s} : row[w].progress[t] = NoProgress
  BY DEF CountsMatchFailureRows
<1> DEFINE p == row[w].progress
           res == result[w]
           notice == s = workflowStageFetch /\ res[s].out = 0 /\ res[s].seen > 0
<1>1. /\ res \in [Stages -> StageResult]
      /\ ResultsInOrder(pc[w], stage[w], res)
      /\ ProgressTracksResults(row[w], pc[w], stage[w], res)
  BY DEF IndInv, TypeOK, WorkflowInv
<1>2. CASE p[s] = NoProgress
  BY <1>2 DEF FailureCount, NoProgress
<1>3. CASE p[s] = buildStageProgress(s, res[s]) /\ ~notice
  BY <1>1, <1>3 DEF FailureCount, buildStageProgress, StageResult
<1>4. CASE p[s] = buildStageProgress(s, res[s]) /\ notice
  <2>1. p[s].succ > 0 /\ p[s].note = 1 /\ p[s].recs = FailureCount(p[s]) + 1
    BY <1>1, <1>4 DEF FailureCount, buildStageProgress, StageResult
  <2>2. ASSUME NEW t \in Stages \ {s} PROVE p[t] = NoProgress
    <3>1. s < t
      BY <1>4, StagesAreNumbers DEF workflowStageFetch
    <3>2. res[t] = NoResult
      BY <1>1, <1>4, <3>1 DEF ResultsInOrder
    <3>3. QED
      BY <1>1, <3>2, BuildOfNothing DEF ProgressTracksResults
  <2>3. QED
    BY <1>4, <2>1, <2>2
<1>5. QED
  BY <1>1, <1>2, <1>3, <1>4 DEF ProgressTracksResults

(***************************************************************************)
(* Counts and failure rows of a stage agree in every row, but for the one  *)
(* extra row buildFetchStageProgress adds when all emails were known.      *)
(***************************************************************************)
THEOREM FailureRowsMatch == Spec => []CountsMatchFailureRows
BY FailureRowsAgree, Invariance, PTL

(***************************************************************************)
(* With a process that lives and a Fail write that succeeds, every queued  *)
(* or running row has a live goroutine, and a running row shows its stage. *)
(***************************************************************************)
THEOREM RowsAreOwned ==
    ASSUME Faults \intersect {"fail_write_error", "lost_reply", "crash"} = {}
    PROVE  Spec => []UnfinishedRowIsOwned
<1>1. IndInv => UnfinishedRowIsOwned
  BY DEF IndInv, WorkflowInv, RowHasOwner, RowTracksRunner, UnfinishedRowIsOwned
<1>2. QED
  BY <1>1, Invariance, PTL

-----------------------------------------------------------------------------
(* What a step may do to a row.                                             *)

\* How one workflow's row may change.
RowStep(r, q) ==
    \/ q = r
    \/ r.status = "absent" /\ q.status = "queued"
    \/ r.status = "queued" /\ q.status \in {"queued", "running", "failed"}
    \/ r.status = "running" /\ q.status = "running" /\ q.stage >= r.stage
    \/ r.status = "running" /\ q.status \in Terminal

\* A step changes the row of at most one workflow, and that one forward.
LEMMA StepsMoveForward ==
    ASSUME "lost_reply" \notin Faults, IndInv, [Next]_vars
    PROVE  \/ row' = row
           \/ \E w \in Workflows :
                 row' = [row EXCEPT ![w] = row'[w]] /\ RowStep(row[w], row'[w])
<1>1. ASSUME NEW w \in Workflows
      PROVE  /\ row[w] \in HistoryRow
             /\ RowTracksRunner(row[w], pc[w], stage[w]) /\ RowHasOwner(row[w], pc[w])
  BY DEF IndInv, TypeOK, WorkflowInv
<1>2. ASSUME NEW w \in Workflows, NEW q, row' = [row EXCEPT ![w] = q], RowStep(row[w], q)
      PROVE  \E v \in Workflows :
                 row' = [row EXCEPT ![v] = row'[v]] /\ RowStep(row[v], row'[v])
  <2>1. row'[w] = q
    BY <1>2 DEF IndInv, TypeOK
  <2>2. QED
    BY <1>2, <2>1
<1>3. ASSUME NEW w \in Workflows, CreateQueued(w), row' # row
      PROVE  row' = [row EXCEPT ![w] = QueuedRow] /\ RowStep(row[w], QueuedRow)
  <2>1. pc[w] = "idle" /\ row' = [row EXCEPT ![w] = QueuedRow]
    BY <1>3 DEF CreateQueued, Applied, Errored
  <2>2. row[w].status = "absent" /\ QueuedRow.status = "queued"
    BY <1>1, <2>1 DEF RowTracksRunner, QueuedRow, AbsentRow
  <2>3. QED
    BY <2>1, <2>2 DEF RowStep
<1>4. ASSUME NEW w \in Workflows, FailStart(w), row' # row
      PROVE  /\ row' = [row EXCEPT ![w] = FailedRow(row[w], NoStage)]
             /\ RowStep(row[w], FailedRow(row[w], NoStage))
  BY <1>1, <1>4 DEF FailStart, Applied, Errored, RowTracksRunner, RowStep, FailedRow,
                    QueuedRow, AbsentRow, HistoryRow
<1>5. ASSUME NEW w \in Workflows, MarkRunning(w), row' # row
      PROVE  /\ row' = [row EXCEPT ![w] = RunningRow(row[w], stage[w])]
             /\ RowStep(row[w], RunningRow(row[w], stage[w]))
  <2>1. pc[w] = "mark" /\ row' = [row EXCEPT ![w] = RunningRow(row[w], stage[w])]
    BY <1>5 DEF MarkRunning, Applied, Errored
  <2>2. /\ stage[w] \in Stages /\ row[w].stage = stage[w] - 1
        /\ row[w].status \in {"queued", "running"}
    BY <1>1, <2>1 DEF RowTracksRunner
  <2>3. RunningRow(row[w], stage[w]).status = "running"
        /\ RunningRow(row[w], stage[w]).stage = stage[w]
    BY <1>1 DEF RunningRow, HistoryRow
  <2>4. QED
    BY <2>1, <2>2, <2>3, StagesAreNumbers DEF RowStep
<1>6. ASSUME NEW w \in Workflows, SaveStageProgress(w), row' # row
      PROVE  \E q : row' = [row EXCEPT ![w] = q] /\ RowStep(row[w], q)
  <2> DEFINE new == ProgressRow(row[w], stage[w], buildStageProgress(stage[w], result[w][stage[w]]))
  <2>1. pc[w] = "save" /\ row' = [row EXCEPT ![w] = new]
    BY <1>6 DEF SaveStageProgress, Applied, Errored
  <2>2. row[w].status = "running" /\ row[w].stage = stage[w] /\ stage[w] \in Stages
    BY <1>1, <2>1 DEF RowTracksRunner
  <2>3. new.status = row[w].status /\ new.stage = row[w].stage
    BY <1>1 DEF ProgressRow, HistoryRow
  <2>4. RowStep(row[w], new)
    BY <2>2, <2>3, StagesAreNumbers DEF RowStep
  <2>5. QED
    BY <2>1, <2>4
<1>7. ASSUME NEW w \in Workflows, Complete(w), row' # row
      PROVE  \E q : row' = [row EXCEPT ![w] = q] /\ RowStep(row[w], q)
  <2> DEFINE new == CompletedRow(row[w], workflowStatusForResult(result[w]))
  <2>1. pc[w] = "complete" /\ row' = [row EXCEPT ![w] = new]
    BY <1>7 DEF Complete, Applied, Errored
  <2>2. row[w].status = "running"
    BY <1>1, <2>1 DEF RowTracksRunner
  <2>3. new.status \in Terminal
    BY <1>1 DEF CompletedRow, HistoryRow, workflowStatusForResult, Terminal
  <2>4. QED
    BY <2>1, <2>2, <2>3 DEF RowStep
<1>8. ASSUME NEW w \in Workflows, FailWorkflow(w), row' # row
      PROVE  \E q : row' = [row EXCEPT ![w] = q] /\ RowStep(row[w], q)
  <2> DEFINE new == FailedRow(row[w], stage[w])
  <2>1. pc[w] = "fail" /\ row' = [row EXCEPT ![w] = new]
    BY <1>8 DEF FailWorkflow, Applied, Errored
  <2>2. row[w].status \in {"queued", "running"}
    BY <1>1, <2>1 DEF RowTracksRunner, RowHasOwner, HistoryRow, Statuses, Terminal
  <2>3. new.status = "failed"
    BY <1>1 DEF FailedRow, HistoryRow
  <2>4. QED
    BY <2>1, <2>2, <2>3 DEF RowStep, Terminal
<1>9. QED
  <2>1. SUFFICES ASSUME row' # row
                 PROVE  \E w \in Workflows :
                    row' = [row EXCEPT ![w] = row'[w]] /\ RowStep(row[w], row'[w])
    OBVIOUS
  <2>2. \E w \in Workflows : \/ CreateQueued(w) \/ FailStart(w) \/ MarkRunning(w)
                             \/ SaveStageProgress(w) \/ Complete(w) \/ FailWorkflow(w)
    BY <2>1 DEF Next, Serve, vars, Control, Stage, StageReturns, RejectStart, Dispatch,
                DispatchRefused, StageErrors, Crash, Finished
  <2>3. QED
    BY <2>1, <2>2, <1>2, <1>3, <1>4, <1>5, <1>6, <1>7, <1>8

(***************************************************************************)
(* An ended row is never written again and a running row never goes back,  *)
(* although no UPDATE of the repository tests the status it overwrites; it *)
(* takes the assumption that no reply of a repository call gets lost.      *)
(***************************************************************************)
THEOREM RowsMoveForward ==
    ASSUME "lost_reply" \notin Faults
    PROVE  Spec => RowOnlyMovesForward
<1> DEFINE Forward ==
      \A w \in Workflows :
         /\ row[w].status \in Terminal => row'[w] = row[w]
         /\ row[w].status = "running" =>
              \/ row'[w].status \in Terminal
              \/ row'[w].status = "running" /\ row'[w].stage >= row[w].stage
<1>1. IndInv /\ [Next]_vars => [Forward]_vars
  <2> SUFFICES ASSUME IndInv, [Next]_vars, NEW w \in Workflows
               PROVE  /\ row[w].status \in Terminal => row'[w] = row[w]
                      /\ row[w].status = "running" =>
                           \/ row'[w].status \in Terminal
                           \/ row'[w].status = "running" /\ row'[w].stage >= row[w].stage
    OBVIOUS
  <2>1. row'[w] = row[w] \/ RowStep(row[w], row'[w])
    BY StepsMoveForward DEF IndInv, TypeOK
  <2>2. row[w].stage \in Nat
    BY StagesAreNumbers DEF IndInv, TypeOK, HistoryRow, NoStage
  <2>3. QED
    BY <2>1, <2>2 DEF RowStep, Terminal
<1>2. QED
  BY <1>1, Invariance, PTL DEF Spec, RowOnlyMovesForward

(***************************************************************************)
(* Every step of request, runner and process is a step of the documented   *)
(* state diagram or leaves the statuses alone (no reply lost).             *)
(***************************************************************************)
THEOREM LifecycleRefined ==
    ASSUME "lost_reply" \notin Faults
    PROVE  Spec => FollowsLifecycle
<1> DEFINE st == [w \in Workflows |-> row[w].status]
<1>1. Init => Lifecycle!Init
  BY DEF Init, Lifecycle!Init, AbsentRow
<1>2. IndInv /\ [Next]_vars => [Lifecycle!Next]_st
  <2> SUFFICES ASSUME IndInv, [Next]_vars PROVE Lifecycle!Next \/ st' = st
    OBVIOUS
  <2>1. CASE row' = row
    BY <2>1
  <2>2. ASSUME NEW w \in Workflows,
               row' = [row EXCEPT ![w] = row'[w]], RowStep(row[w], row'[w])
        PROVE  Lifecycle!Next \/ st' = st
    <3>1. st' = [st EXCEPT ![w] = row'[w].status]
      BY <2>2 DEF IndInv, TypeOK
    <3>2. st[w] = row[w].status
      OBVIOUS
    <3>3. CASE row'[w].status = row[w].status
      BY <3>1, <3>2, <3>3
    <3>4. CASE row'[w].status # row[w].status
      BY <2>2, <3>1, <3>2, <3>4
         DEF RowStep, Terminal, Lifecycle!Next, Lifecycle!Accept, Lifecycle!Run,
             Lifecycle!GiveUp, Lifecycle!End, Lifecycle!Ends, Lifecycle!Move
    <3>5. QED
      BY <3>3, <3>4
  <2>3. QED
    BY <2>1, <2>2, StepsMoveForward
<1>3. QED
  BY <1>1, <1>2, Invariance, PTL DEF Spec, FollowsLifecycle, Lifecycle!SafeSpec

-----------------------------------------------------------------------------
(* The list of histories (WorkflowHistoryList).                             *)

\* Rows are not removed, lose no failure rows, and keep their columns once
\* they have ended, also when a lost reply has them fail after that.
RowGrows(r, q) ==
    /\ r.status # "absent" => q.status # "absent"
    /\ r.status \in Terminal => q.status \in Terminal /\ q.progress = r.progress
    /\ \A s \in Stages : q.progress[s].recs >= r.progress[s].recs

LEMMA SameProgressGrows ==
    ASSUME NEW r \in HistoryRow, NEW q, q.progress = r.progress, q.status # "absent",
           r.status \in Terminal => q.status \in Terminal
    PROVE  RowGrows(r, q)
<1>1. \A s \in Stages : r.progress[s].recs \in Nat
  BY DEF HistoryRow, StageProgress
<1> QED
  BY <1>1 DEF RowGrows

LEMMA RowsGrow ==
    ASSUME IndInv, [Next]_vars, NEW w \in Workflows
    PROVE  RowGrows(row[w], row'[w])
<1>1. ASSUME NEW v \in Workflows
      PROVE  /\ row[v] \in HistoryRow /\ RowTracksRunner(row[v], pc[v], stage[v])
             /\ \A s \in Stages : row[v].progress[s].recs \in Nat
             /\ RowGrows(row[v], row[v])
  BY DEF IndInv, TypeOK, WorkflowInv, HistoryRow, StageProgress, RowGrows
<1>2. ASSUME NEW v \in Workflows, NEW q, row' = row \/ row' = [row EXCEPT ![v] = q],
             RowGrows(row[v], q)
      PROVE  RowGrows(row[w], row'[w])
  <2>1. row'[w] = row[w] \/ (w = v /\ row'[w] = q)
    BY <1>2 DEF IndInv, TypeOK
  <2> QED
    BY <1>1, <1>2, <2>1
<1>3. ASSUME NEW v \in Workflows, CreateQueued(v) PROVE RowGrows(row[w], row'[w])
  <2>1. pc[v] = "idle" /\ (row' = row \/ row' = [row EXCEPT ![v] = QueuedRow])
    BY <1>3 DEF CreateQueued, Applied, Errored
  <2>2. row[v] = AbsentRow
    BY <1>1, <2>1 DEF RowTracksRunner
  <2>3. RowGrows(AbsentRow, QueuedRow)
    <3>1. QueuedRow.progress = AbsentRow.progress /\ QueuedRow.status = "queued" /\ AbsentRow.status = "absent"
      BY DEF AbsentRow, QueuedRow
    <3> QED
      BY <3>1, RowTypes, SameProgressGrows DEF Terminal
  <2> QED
    BY <1>2, <2>1, <2>2, <2>3
<1>4. ASSUME NEW v \in Workflows, FailStart(v) \/ FailWorkflow(v) PROVE RowGrows(row[w], row'[w])
  <2>1. PICK s \in {NoStage, stage[v]} : row' = row \/ row' = [row EXCEPT ![v] = FailedRow(row[v], s)]
    BY <1>4 DEF FailStart, FailWorkflow, Applied, Errored
  <2>2. FailedRow(row[v], s).progress = row[v].progress /\ FailedRow(row[v], s).status = "failed"
    BY <1>1 DEF FailedRow, HistoryRow
  <2>3. RowGrows(row[v], FailedRow(row[v], s))
    BY <1>1, <2>2, SameProgressGrows DEF Terminal
  <2> QED
    BY <1>2, <2>1, <2>3
<1>5. ASSUME NEW v \in Workflows, MarkRunning(v) PROVE RowGrows(row[w], row'[w])
  <2>1. pc[v] = "mark" /\ (row' = row \/ row' = [row EXCEPT ![v] = RunningRow(row[v], stage[v])])
    BY <1>5 DEF MarkRunning, Applied, Errored
  <2>2. row[v].status \notin Terminal
    BY <1>1, <2>1 DEF RowTracksRunner, Terminal
  <2>3. /\ RunningRow(row[v], stage[v]).progress = row[v].progress
        /\ RunningRow(row[v], stage[v]).status = "running"
    BY <1>1 DEF RunningRow, HistoryRow
  <2>4. RowGrows(row[v], RunningRow(row[v], stage[v]))
    BY <1>1, <2>2, <2>3, SameProgressGrows
  <2> QED
    BY <1>2, <2>1, <2>4
<1>6. ASSUME NEW v \in Workflows, SaveStageProgress(v) PROVE RowGrows(row[w], row'[w])
  <2> DEFINE s == stage[v]
             p == buildStageProgress(s, result[v][s])
  <2>1. pc[v] = "save" /\ (row' = row \/ row' = [row EXCEPT ![v] = ProgressRow(row[v], s, p)])
    BY <1>1, <1>6 DEF SaveStageProgress, Applied, Errored, IndInv, TypeOK
  <2>2. row[v].status = "running" /\ s \in Stages
    BY <1>1, <2>1 DEF RowTracksRunner
  <2>3. p \in StageProgress
    BY <2>2, BuildType DEF IndInv, TypeOK
  <2> HIDE DEF s, p
  <2>4. /\ ProgressRow(row[v], s, p).status = row[v].status
        /\ \A t \in Stages : ProgressRow(row[v], s, p).progress[t].recs
                               = IF t = s THEN row[v].progress[s].recs + p.recs ELSE row[v].progress[t].recs
    BY <1>1, <2>2, <2>3 DEF ProgressRow, HistoryRow
  <2>5. p.recs \in Nat
    BY <2>3 DEF StageProgress
  <2>6. RowGrows(row[v], ProgressRow(row[v], s, p))
    BY <1>1, <2>2, <2>4, <2>5 DEF RowGrows, Terminal
  <2> QED
    BY <1>2, <2>1, <2>6
<1>7. ASSUME NEW v \in Workflows, Complete(v) PROVE RowGrows(row[w], row'[w])
  <2> DEFINE new == CompletedRow(row[v], workflowStatusForResult(result[v]))
  <2>1. row' = row \/ row' = [row EXCEPT ![v] = new]
    BY <1>7 DEF Complete, Applied, Errored
  <2>2. new.status \in Terminal /\ new.status # "absent" /\ new.progress = row[v].progress
    BY <1>1 DEF CompletedRow, HistoryRow, workflowStatusForResult, Terminal
  <2> HIDE DEF new
  <2>3. RowGrows(row[v], new)
    BY <1>1, <2>2, SameProgressGrows
  <2> QED
    BY <1>2, <2>1, <2>3
<1>8. CASE row' = row
  BY <1>1, <1>8
<1>9. CASE row' # row
  <2>1. \E v \in Workflows : \/ CreateQueued(v) \/ FailStart(v) \/ MarkRunning(v)
                             \/ SaveStageProgress(v) \/ Complete(v) \/ FailWorkflow(v)
    BY <1>9 DEF Next, Serve, vars, Control, Stage, StageReturns, RejectStart, Dispatch,
                DispatchRefused, StageErrors, Crash, Finished
  <2> QED
    BY <2>1, <1>3, <1>4, <1>5, <1>6, <1>7
<1> QED
  BY <1>8, <1>9

LEMMA RowsAreFinite ==
    ASSUME NEW ws \in SUBSET Mine
    PROVE  IsFiniteSet(ws) /\ Cardinality(ws) \in Nat
BY MineAssumption, FS_Subset, FS_CardinalityType

\* The place of a row in the order of queued_at, newest first.
Newer(ws, w) == {v \in ws : QueuedAt[v] > QueuedAt[w]}
Place(ws) == [w \in ws |-> Cardinality(Newer(ws, w)) + 1]

\* A newer row has a smaller place.
LEMMA PlacesFollowTime ==
    ASSUME NEW ws \in SUBSET Mine, NEW v \in ws, NEW w \in ws, QueuedAt[v] > QueuedAt[w]
    PROVE  Place(ws)[v] < Place(ws)[w]
<1>1. \A x \in ws : QueuedAt[x] \in Nat
  BY MineAssumption, QueuedAtAssumption
<1>2. Newer(ws, v) \union {v} \subseteq Newer(ws, w) /\ v \notin Newer(ws, v)
  BY <1>1 DEF Newer
<1>3. /\ IsFiniteSet(Newer(ws, v)) /\ Cardinality(Newer(ws, v)) \in Nat
      /\ IsFiniteSet(Newer(ws, w)) /\ Cardinality(Newer(ws, w)) \in Nat
  BY RowsAreFinite DEF Newer
<1>4. Cardinality(Newer(ws, v) \union {v}) = Cardinality(Newer(ws, v)) + 1
  BY <1>2, <1>3, FS_AddElement
<1>5. Cardinality(Newer(ws, v) \union {v}) <= Cardinality(Newer(ws, w))
  BY <1>2, <1>3, FS_Subset
<1> QED
  BY <1>3, <1>4, <1>5 DEF Place

\* Places are 1 up to the number of rows, each taken by one row.
LEMMA PlacesAreTaken ==
    ASSUME NEW ws \in SUBSET Mine
    PROVE  /\ Place(ws) \in [ws -> 1..Cardinality(ws)]
           /\ \A i \in 1..Cardinality(ws) : \E w \in ws : Place(ws)[w] = i
<1>1. IsFiniteSet(ws) /\ Cardinality(ws) \in Nat
  BY RowsAreFinite
<1>2. ASSUME NEW w \in ws PROVE Place(ws)[w] \in 1..Cardinality(ws)
  <2>1. QueuedAt[w] \in Nat
    BY MineAssumption, QueuedAtAssumption
  <2>2. Newer(ws, w) \in SUBSET (ws \ {w})
    BY <2>1 DEF Newer
  <2>3. IsFiniteSet(ws \ {w}) /\ Cardinality(ws \ {w}) = Cardinality(ws) - 1
    BY <1>1, FS_RemoveElement
  <2>4. Cardinality(Newer(ws, w)) <= Cardinality(ws \ {w})
    BY <2>2, <2>3, FS_Subset
  <2>5. Cardinality(Newer(ws, w)) \in Nat
    BY RowsAreFinite DEF Newer
  <2> QED
    BY <1>1, <2>3, <2>4, <2>5 DEF Place
<1>3. Place(ws) \in [ws -> 1..Cardinality(ws)]
  <2>1. Place(ws) = [w \in ws |-> Place(ws)[w]]
    BY DEF Place
  <2> QED
    BY <1>2, <2>1
<1>4. ASSUME NEW v \in ws, NEW w \in ws, Place(ws)[v] = Place(ws)[w] PROVE v = w
  <2>1. QueuedAt[v] \in Nat /\ QueuedAt[w] \in Nat /\ (QueuedAt[v] = QueuedAt[w] => v = w)
    BY MineAssumption, QueuedAtAssumption
  <2>2. Place(ws)[v] \in Nat /\ Place(ws)[w] \in Nat
    BY <1>2
  <2>3. ~(QueuedAt[v] > QueuedAt[w]) /\ ~(QueuedAt[w] > QueuedAt[v])
    BY <1>4, <2>2, PlacesFollowTime
  <2> QED
    BY <2>1, <2>3
<1>5. Place(ws) \in Injection(ws, 1..Cardinality(ws))
  BY <1>3, <1>4 DEF Injection, IsInjective
<1>6. IsFiniteSet(1..Cardinality(ws)) /\ Cardinality(1..Cardinality(ws)) = Cardinality(ws)
  BY <1>1, FS_Interval
<1>7. Place(ws) \in Surjection(ws, 1..Cardinality(ws))
  BY <1>5, <1>6, FS_Injection
<1> QED
  BY <1>3, <1>7 DEF Surjection

\* So NewestFirst orders any set of rows.
LEMMA NewestFirstOrders ==
    ASSUME NEW ws \in SUBSET Mine
    PROVE  /\ NewestFirst(ws) \in [1..Cardinality(ws) -> ws]
           /\ \A i, j \in 1..Cardinality(ws) : i < j =>
                QueuedAt[NewestFirst(ws)[i]] > QueuedAt[NewestFirst(ws)[j]]
<1> DEFINE n == Cardinality(ws)
           order == [i \in 1..n |-> CHOOSE w \in ws : Place(ws)[w] = i]
<1>1. \A i \in 1..n : order[i] \in ws /\ Place(ws)[order[i]] = i
  BY PlacesAreTaken
<1>2. order \in [1..n -> ws]
  BY <1>1
<1>3. ASSUME NEW i \in 1..n, NEW j \in 1..n, i < j PROVE QueuedAt[order[i]] > QueuedAt[order[j]]
  <2> HIDE DEF order
  <2>1. PICK v \in ws : v = order[i] /\ Place(ws)[v] = i
    BY <1>1
  <2>2. PICK w \in ws : w = order[j] /\ Place(ws)[w] = j
    BY <1>1
  <2>3. QueuedAt[v] \in Nat /\ QueuedAt[w] \in Nat /\ (QueuedAt[v] = QueuedAt[w] => v = w)
    BY MineAssumption, QueuedAtAssumption
  <2>4. n \in Nat
    BY RowsAreFinite
  <2>5. ~(QueuedAt[w] > QueuedAt[v]) /\ v # w
    BY <1>3, <2>1, <2>2, <2>4, PlacesFollowTime
  <2> QED
    BY <2>1, <2>2, <2>3, <2>5
<1>4. \A i, j \in DOMAIN order : i < j => QueuedAt[order[i]] > QueuedAt[order[j]]
  BY <1>3
<1> HIDE DEF order, n
<1>5. \E s \in [1..n -> ws] : \A i, j \in DOMAIN s : i < j => QueuedAt[s[i]] > QueuedAt[s[j]]
  BY <1>2, <1>4
<1>6. /\ NewestFirst(ws) \in [1..n -> ws]
      /\ \A i, j \in DOMAIN NewestFirst(ws) : i < j =>
           QueuedAt[NewestFirst(ws)[i]] > QueuedAt[NewestFirst(ws)[j]]
  BY <1>5 DEF NewestFirst, n
<1>7. DOMAIN NewestFirst(ws) = 1..n
  BY <1>6
<1> QED
  BY <1>6, <1>7 DEF n

\* The page has the rows at its places, as many as there are up to the limit.
LEMMA PageOfRows ==
    ASSUME NEW q, q.limit \in Nat, q.offset \in Nat
    PROVE  LET ws == buildListBaseQuery(q) IN
           /\ \E n \in Nat :
                /\ DOMAIN Page(q) = 1..n
                /\ n = q.limit \/ n >= Cardinality(ws) - q.offset
           /\ \A i \in DOMAIN Page(q) : Page(q)[i] \in ws
           /\ \A i, j \in DOMAIN Page(q) : i < j => QueuedAt[Page(q)[i]] > QueuedAt[Page(q)[j]]
<1> DEFINE ws == buildListBaseQuery(q)
           c == Cardinality(ws)
           places == {k \in 1..q.limit : q.offset + k <= c}
           order == NewestFirst(ws)
<1>1. ws \in SUBSET Mine
  BY DEF buildListBaseQuery
<1>2. c \in Nat
  BY <1>1, RowsAreFinite
<1>3. /\ order \in [1..c -> ws]
      /\ \A i, j \in 1..c : i < j => QueuedAt[order[i]] > QueuedAt[order[j]]
  BY <1>1, NewestFirstOrders
<1>4. Page(q) = [i \in places |-> order[q.offset + i]]
  BY DEF Page
<1> HIDE DEF ws, c, order
<1>5. \E n \in Nat : places = 1..n /\ (n = q.limit \/ n >= c - q.offset)
  <2>1. CASE q.offset + q.limit <= c
    <3>1. places = 1..q.limit
      BY <1>2, <2>1
    <3> QED
      BY <3>1
  <2>2. CASE ~(q.offset + q.limit <= c) /\ q.offset <= c
    <3>1. c - q.offset \in Nat /\ places = 1..(c - q.offset)
      BY <1>2, <2>2
    <3> QED
      BY <1>2, <3>1
  <2>3. CASE ~(q.offset <= c)
    <3>1. places = 1..0 /\ 0 >= c - q.offset
      BY <1>2, <2>3
    <3> QED
      BY <3>1
  <2> QED
    BY <2>1, <2>2, <2>3
<1>6. \A i \in places : q.offset + i \in 1..c
  BY <1>2
<1>7. DOMAIN Page(q) = places /\ \A i \in places : Page(q)[i] = order[q.offset + i]
  BY <1>4
<1>8. \A i \in places : Page(q)[i] \in ws
  BY <1>3, <1>6, <1>7
<1>9. ASSUME NEW i \in places, NEW j \in places, i < j
      PROVE  QueuedAt[Page(q)[i]] > QueuedAt[Page(q)[j]]
  <2>1. q.offset + i < q.offset + j
    BY <1>9
  <2> HIDE DEF places
  <2> QED
    BY <1>3, <1>6, <1>7, <2>1
<1> QED
  BY <1>5, <1>7, <1>8, <1>9 DEF ws, c

\* A step of the workflows between two statements.
LEMMA ListOutlivesSteps ==
    ASSUME ListInv, [Next]_vars, list' = list
    PROVE  ListInv'
<1>1. IndInv'
  BY NextInv DEF ListInv
<1>2. ASSUME NEW w \in Mine PROVE RowGrows(row[w], row'[w])
  BY MineAssumption, RowsGrow DEF ListInv
<1>3. ASSUME list.at = "page", list.query.status = AnyStatus
      PROVE  list.total <= Cardinality(buildListBaseQuery(list.query)')
  <2> DEFINE old == buildListBaseQuery(list.query)
             new == buildListBaseQuery(list.query)'
  <2>1. old \in SUBSET new /\ old \in SUBSET Mine /\ new \in SUBSET Mine
    BY <1>2, <1>3 DEF buildListBaseQuery, RowGrows
  <2>2. IsFiniteSet(new) /\ Cardinality(new) \in Nat /\ Cardinality(old) \in Nat
    BY <2>1, RowsAreFinite
  <2>3. list.total <= Cardinality(old) /\ list.total \in Nat
    BY <1>3 DEF ListInv
  <2> HIDE DEF old, new
  <2>4. Cardinality(old) <= Cardinality(new)
    BY <2>1, <2>2, FS_Subset
  <2>5. list.total <= Cardinality(new)
    BY <2>2, <2>3, <2>4
  <2> QED
    BY <2>5 DEF new
<1>4. ASSUME list.at = "failures", NEW i \in DOMAIN list.items
      PROVE  ItemHolds(list.items[i])'
  <2>1. ItemHolds(list.items[i])
    BY <1>4 DEF ListInv
  <2>2. PICK w \in Mine : w = list.items[i].workflow
    BY <2>1 DEF ItemHolds
  <2>3. RowGrows(row[w], row'[w])
    BY <1>2
  <2>4. ASSUME NEW s \in Stages
        PROVE  /\ list.items[i].counted[s] \in 0..row'[w].progress[s].recs
               /\ list.items[i].status \in Terminal =>
                    /\ row'[w].status \in Terminal
                    /\ list.items[i].counted[s] = FailureCount(row'[w].progress[s])
    <3>1. /\ list.items[i].counted[s] \in 0..row[w].progress[s].recs
          /\ list.items[i].status \in Terminal =>
               /\ row[w].status \in Terminal
               /\ list.items[i].counted[s] = FailureCount(row[w].progress[s])
      BY <2>1, <2>2 DEF ItemHolds
    <3>2. row'[w].progress[s].recs >= row[w].progress[s].recs
      BY <2>3 DEF RowGrows
    <3>3. row[w].progress[s].recs \in Nat /\ row'[w].progress[s].recs \in Nat
      BY <1>1, MineAssumption DEF ListInv, IndInv, TypeOK, HistoryRow, StageProgress
    <3>4. list.items[i].counted[s] \in 0..row'[w].progress[s].recs
      BY <3>1, <3>2, <3>3
    <3> QED
      BY <2>3, <3>1, <3>4 DEF RowGrows
  <2> QED
    BY <2>2, <2>4 DEF ItemHolds
<1> QED
  BY <1>1, <1>3, <1>4 DEF ListInv, ItemsAreInOrder, PageIsFull, FailuresAreShown

\* The first statement.
LEMMA CountHistoriesInv ==
    ASSUME ListInv, NEW q \in ListQueries, CountHistories(q)
    PROVE  ListInv'
<1> DEFINE n == NormalizeListQuery(q)
<1>1. /\ n.limit \in Nat /\ n.offset \in Nat
  <2>1. n.limit \in 1..maxWorkflowHistoryListLimit /\ n.offset >= 0
    BY DEF CountHistories, ValidateListQuery
  <2>2. q.offset \in Int /\ n.offset = IF q.hasOffset THEN q.offset ELSE 0
    BY ListQueriesAssumption DEF NormalizeListQuery, defaultWorkflowHistoryListOffset
  <2>3. n.offset \in Int
    BY <2>2
  <2> HIDE DEF n
  <2> QED
    BY <2>1, <2>3 DEF maxWorkflowHistoryListLimit
<1>2. buildListBaseQuery(n) \in SUBSET Mine
  BY DEF buildListBaseQuery
<1>3. Cardinality(buildListBaseQuery(n)) \in Nat
  BY <1>2, RowsAreFinite
<1>4. /\ list'.at = "page" /\ list'.query = n /\ list'.total = Cardinality(buildListBaseQuery(n))
      /\ list' = [at |-> list'.at, query |-> list'.query, total |-> list'.total,
                  items |-> list'.items, failures |-> list'.failures]
      /\ row' = row /\ UNCHANGED vars
  BY DEF CountHistories, ListInv, vars
<1>5. IndInv'
  BY <1>4, NextInv DEF ListInv
<1> HIDE DEF n
<1>6. Cardinality(buildListBaseQuery(list.query)') = Cardinality(buildListBaseQuery(n))
  BY <1>4 DEF buildListBaseQuery
<1>7. list'.total <= Cardinality(buildListBaseQuery(list.query)')
  BY <1>3, <1>4, <1>6
<1> QED
  BY <1>1, <1>3, <1>4, <1>5, <1>7 DEF ListInv

\* The second statement: the page as long as the count promised.
LEMMA FindPageInv ==
    ASSUME ListInv, FindPage
    PROVE  ListInv'
<1> DEFINE q == list.query
           page == Page(q)
           ws == buildListBaseQuery(q)
<1>1. /\ list.at = "page" /\ q.limit \in Nat /\ q.offset \in Nat /\ list.total \in Nat
      /\ q.status = AnyStatus => list.total <= Cardinality(ws)
  BY DEF FindPage, ListInv
<1>2. PICK n \in Nat : DOMAIN page = 1..n /\ (n = q.limit \/ n >= Cardinality(ws) - q.offset)
  BY <1>1, PageOfRows
<1>3. /\ \A i \in DOMAIN page : page[i] \in ws
      /\ \A i, j \in DOMAIN page : i < j => QueuedAt[page[i]] > QueuedAt[page[j]]
  BY <1>1, PageOfRows
<1>4. ws \in SUBSET Mine
  BY DEF buildListBaseQuery
<1> HIDE DEF page, ws
<1>5. /\ list'.at \in {"failures", "answered"} /\ list'.query = q /\ list'.total = list.total
      /\ list'.at = "answered" => page = <<>>
      /\ list'.items = [i \in DOMAIN page |-> HistoryItem(page[i])]
      /\ list' = [at |-> list'.at, query |-> list'.query, total |-> list'.total,
                  items |-> list'.items, failures |-> list'.failures]
      /\ UNCHANGED vars
  BY DEF FindPage, ListInv, page
<1>6. IndInv' /\ row' = row
  BY <1>5, NextInv DEF ListInv, vars
<1>7. /\ DOMAIN list'.items = 1..n
      /\ \A i \in 1..n : list'.items[i] = HistoryItem(page[i]) /\ page[i] \in Mine
      /\ Len(list'.items) = n
  <2>1. list'.items = [i \in 1..n |-> HistoryItem(page[i])]
    BY <1>2, <1>5
  <2> QED
    BY <1>2, <1>3, <1>4, <2>1
<1> HIDE DEF q
<1>8. ASSUME NEW i \in 1..n PROVE ItemHolds(list.items[i])'
  <2>1. PICK w \in Mine : w = page[i]
    BY <1>7
  <2>2. /\ list'.items[i].workflow = w /\ list'.items[i].status = row[w].status
        /\ \A s \in Stages : list'.items[i].counted[s] = FailureCount(row[w].progress[s])
    <3>1. /\ HistoryItem(w).workflow = w /\ HistoryItem(w).status = row[w].status
          /\ \A s \in Stages : HistoryItem(w).counted[s] = FailureCount(row[w].progress[s])
      BY DEF HistoryItem
    <3>2. list'.items[i] = HistoryItem(w)
      BY <1>7, <2>1
    <3> QED
      BY <3>1, <3>2
  <2>3. ASSUME NEW s \in Stages
        PROVE  FailureCount(row[w].progress[s]) \in 0..row[w].progress[s].recs
    <3>1. row[w].progress[s] \in StageProgress
      BY MineAssumption DEF ListInv, IndInv, TypeOK, HistoryRow
    <3>2. row[w].progress[s].recs = FailureCount(row[w].progress[s]) + row[w].progress[s].note
      BY MineAssumption, FailureRowsAgree DEF ListInv, CountsMatchFailureRows
    <3> QED
      BY <3>1, <3>2 DEF StageProgress, FailureCount
  <2> QED
    BY <1>6, <2>1, <2>2, <2>3 DEF ItemHolds
<1>9. ItemsAreInOrder'
  <2>1. ASSUME NEW i \in 1..n PROVE list'.items[i].workflow = page[i]
    <3>1. HistoryItem(page[i]).workflow = page[i]
      BY DEF HistoryItem
    <3> QED
      BY <1>7, <3>1
  <2> QED
    BY <1>2, <1>3, <1>7, <2>1 DEF ItemsAreInOrder
<1>10. PageIsFull'
  <2> SUFFICES ASSUME q.status = AnyStatus, n # q.limit
               PROVE  n >= list.total - q.offset
    BY <1>5, <1>7 DEF PageIsFull
  <2>1. Cardinality(ws) \in Nat
    BY <1>4, RowsAreFinite
  <2> QED
    BY <1>1, <1>2, <2>1
<1>11. ASSUME list'.at = "answered" PROVE FailuresAreShown'
  <2>1. 1..n = {}
    BY <1>2, <1>5, <1>11
  <2> QED
    BY <1>7, <2>1 DEF FailuresAreShown
<1> QED
  BY <1>1, <1>5, <1>6, <1>7, <1>8, <1>9, <1>10, <1>11 DEF ListInv

\* The third statement: the failures of the items as they are now.
LEMMA FindFailuresInv ==
    ASSUME ListInv, FindFailures
    PROVE  ListInv'
<1> DEFINE ws == {list.items[i].workflow : i \in DOMAIN list.items}
<1>1. /\ list'.at = "answered" /\ list'.query = list.query /\ list'.total = list.total
      /\ list'.items = list.items /\ list'.failures = groupFailureViewsByHistory(ws)
      /\ list' = [at |-> list'.at, query |-> list'.query, total |-> list'.total,
                  items |-> list'.items, failures |-> list'.failures]
      /\ list.at = "failures" /\ UNCHANGED vars
  BY DEF FindFailures, ListInv
<1>2. IndInv'
  BY <1>1, NextInv DEF ListInv
<1>3. ASSUME NEW i \in DOMAIN list.items, NEW s \in Stages
      PROVE  LET counted == list.items[i].counted[s]
                 shown == list'.failures[list.items[i].workflow][s]
             IN  /\ shown >= counted
                 /\ list.items[i].status \in Terminal =>
                      \/ shown = counted
                      \/ s = workflowStageFetch /\ shown = counted + 1
  <2>1. ItemHolds(list.items[i])
    BY <1>1 DEF ListInv
  <2>2. PICK w \in Mine : w = list.items[i].workflow
    BY <2>1 DEF ItemHolds
  <2>3. list'.failures[w][s] = row[w].progress[s].recs
    BY <1>1, <2>2 DEF groupFailureViewsByHistory
  <2> DEFINE p == row[w].progress[s]
  <2>4. p \in StageProgress
    BY MineAssumption DEF ListInv, IndInv, TypeOK, HistoryRow
  <2>5. p.recs = FailureCount(p) + p.note /\ (p.note > 0 => s = workflowStageFetch /\ p.note = 1)
    BY MineAssumption, FailureRowsAgree DEF ListInv, CountsMatchFailureRows
  <2>6. /\ list.items[i].counted[s] \in 0..p.recs
        /\ list.items[i].status \in Terminal => list.items[i].counted[s] = FailureCount(p)
    BY <2>1, <2>2 DEF ItemHolds
  <2> HIDE DEF p
  <2>7. p.recs \in Nat /\ p.note \in Nat /\ FailureCount(p) \in Nat
    BY <2>4 DEF StageProgress, FailureCount
  <2>8. list'.failures[list.items[i].workflow][s] = p.recs
    BY <2>2, <2>3 DEF p
  <2> QED
    BY <2>5, <2>6, <2>7, <2>8
<1>4. FailuresAreShown'
  BY <1>1, <1>3 DEF FailuresAreShown
<1> QED
  BY <1>1, <1>2, <1>4 DEF ListInv, ItemsAreInOrder, PageIsFull

LEMMA ListNextInv ==
    ASSUME ListInv, [ListNext]_listVars
    PROVE  ListInv'
<1>1. CASE Next /\ UNCHANGED list
  BY <1>1, ListOutlivesSteps
<1>2. CASE UNCHANGED listVars
  BY <1>2, ListOutlivesSteps DEF listVars, vars
<1>3. ASSUME NEW q \in ListQueries, RefuseList(q) PROVE ListInv'
  BY <1>3, ListOutlivesSteps DEF RefuseList, listVars, vars
<1>4. CASE ListErrors
  <2>1. IndInv' /\ list' = NoRequest
    BY <1>4, NextInv DEF ListErrors, ListInv
  <2> QED
    BY <2>1 DEF ListInv, NoRequest
<1> QED
  BY <1>1, <1>2, <1>3, <1>4, CountHistoriesInv, FindPageInv, FindFailuresInv DEF ListNext, List

(***************************************************************************)
(* Between the three statements of a list, whatever the workflows do, the  *)
(* counted rows are still there and the items already read still hold.     *)
(***************************************************************************)
THEOREM ListInvariance == ListSpec => []ListInv
<1>1. ListInit => ListInv
  BY InitInv DEF ListInit, NoRequest, ListInv
<1>2. ListInv /\ [ListNext]_listVars => ListInv'
  BY ListNextInv
<1> QED
  BY <1>1, <1>2, PTL DEF ListSpec

(***************************************************************************)
(* An answered list shows the failures its items count, in order, and as   *)
(* many items as its total promises, under every fault of the workflows.   *)
(***************************************************************************)
THEOREM ListsAreWhole == ListSpec => []ListedRunsAreWhole
<1>1. ListInv => ListedRunsAreWhole
  BY DEF ListInv, ListedRunsAreWhole
<1> QED
  BY <1>1, ListInvariance, PTL


(***************************************************************************)
(* A list only reads: what is proved of the workflows holds while lists    *)
(* are answered.                                                           *)
(***************************************************************************)
THEOREM ListsOnlyRead == ListSpec => Spec
<1>1. ListInit => Init
  BY DEF ListInit
<1>2. [ListNext]_listVars => [Next]_vars
  BY DEF ListNext, List, listVars, vars, RefuseList, CountHistories, FindPage, FindFailures, ListErrors
<1> QED
  BY <1>1, <1>2, PTL DEF ListSpec, Spec

-----------------------------------------------------------------------------
(* What the conversions of BillingRules guarantee one another, for every    *)
(* candidate.                                                               *)

(***************************************************************************)
(* normalizeOptionalString and normalizeOptionalUpperString yield an       *)
(* optional text that a second pass leaves alone.                          *)
(***************************************************************************)
LEMMA StringsSettle ==
    ASSUME NEW v \in OptionalText
    PROVE  /\ normalizeOptionalString(v) \in OptionalText
           /\ normalizeOptionalString(normalizeOptionalString(v)) = normalizeOptionalString(v)
           /\ normalizeOptionalUpperString(v) \in OptionalText
           /\ normalizeOptionalUpperString(normalizeOptionalUpperString(v))
                = normalizeOptionalUpperString(v)
           /\ normalizeOptionalString(v) # Nil => normalizeOptionalUpperString(v) # Nil
<1>1. CASE v = Nil
  BY <1>1 DEF OptionalText, normalizeOptionalString, normalizeOptionalUpperString
<1>2. CASE v # Nil
  <2> DEFINE t == TrimSpace[v]
             u == ToUpper[t]
  <2>1. v \in Texts /\ t \in Texts /\ u \in Texts
    BY <1>2, TextAssumption DEF OptionalText
  <2>2. TrimSpace[t] = t /\ ToUpper[u] = u /\ TrimSpace[u] = u /\ (t # "" => u # "")
    BY <2>1, FoldAssumption
  <2>3. t # Nil /\ u # Nil
    BY <2>1, TextAssumption
  <2> HIDE DEF t, u
  <2>4. normalizeOptionalString(v) = NonBlank(t)
    BY <1>2 DEF t, normalizeOptionalString
  <2>5. CASE t = ""
    BY <1>2, <2>4, <2>5 DEF NonBlank, OptionalText, normalizeOptionalString, normalizeOptionalUpperString
  <2>6. CASE t # ""
    <3>1. normalizeOptionalString(v) = t /\ normalizeOptionalUpperString(v) = u
      BY <2>3, <2>4, <2>6 DEF NonBlank, normalizeOptionalUpperString, u
    <3>2. normalizeOptionalString(t) = t
      BY <2>2, <2>3, <2>6 DEF NonBlank, normalizeOptionalString
    <3>3. normalizeOptionalString(u) = u
      BY <2>2, <2>3, <2>6 DEF NonBlank, normalizeOptionalString
    <3>4. normalizeOptionalUpperString(u) = u
      BY <2>2, <2>3, <3>3 DEF normalizeOptionalUpperString
    <3> QED
      BY <2>1, <2>3, <3>1, <3>2, <3>4 DEF OptionalText
  <2> QED
    BY <2>5, <2>6
<1> QED
  BY <1>1, <1>2

(***************************************************************************)
(* normalizeOptionalPaymentCycle settles too.                              *)
(***************************************************************************)
LEMMA CyclesSettle ==
    ASSUME NEW v \in OptionalText
    PROVE  normalizeOptionalPaymentCycle(normalizeOptionalPaymentCycle(v))
             = normalizeOptionalPaymentCycle(v)
<1> DEFINE s == normalizeOptionalString(v)
           j == JoinCycle[s]
<1>1. CASE s = Nil
  BY <1>1 DEF normalizeOptionalPaymentCycle, normalizeOptionalString
<1>2. CASE s # Nil
  <2>1. s \in Texts
    BY <1>2, StringsSettle DEF OptionalText
  <2>2. j \in Texts /\ j # Nil
    BY <2>1, TextAssumption
  <2>3. TrimSpace[j] = j /\ JoinCycle[j] = j
    BY <2>1, FoldAssumption
  <2>4. normalizeOptionalPaymentCycle(v) = NonBlank(j)
    BY <1>2 DEF normalizeOptionalPaymentCycle
  <2> HIDE DEF s, j
  <2>5. CASE j = ""
    BY <2>4, <2>5 DEF NonBlank, normalizeOptionalPaymentCycle, normalizeOptionalString
  <2>6. CASE j # ""
    <3>1. normalizeOptionalString(j) = j
      BY <2>2, <2>3, <2>6 DEF NonBlank, normalizeOptionalString
    <3>2. normalizeOptionalPaymentCycle(j) = j
      BY <2>2, <2>3, <2>6, <3>1 DEF NonBlank, normalizeOptionalPaymentCycle
    <3> QED
      BY <2>4, <2>6, <3>2 DEF NonBlank
  <2> QED
    BY <2>5, <2>6
<1> QED
  BY <1>1, <1>2

(***************************************************************************)
(* A line item that is normalized stays as it is, empty or not.            *)
(***************************************************************************)
LEMMA LineItemSettles ==
    ASSUME NEW i \in LineItems
    PROVE  /\ NormalizeLineItem(i) \in LineItems
           /\ NormalizeLineItem(NormalizeLineItem(i)) = NormalizeLineItem(i)
<1>1. /\ i.raw \in OptionalText /\ i.display \in OptionalText
      /\ i.currency \in OptionalText /\ i.amount \in OptionalAmount
  BY DEF LineItems
<1>2. NormalizeLineItem(i) \in LineItems
  BY <1>1, StringsSettle DEF LineItems, NormalizeLineItem
<1> QED
  BY <1>1, <1>2, StringsSettle DEF NormalizeLineItem

(***************************************************************************)
(* Lists of line items settle: normalizing them again drops none.          *)
(***************************************************************************)
LEMMA LineItemsSettle ==
    ASSUME NEW positions \in SUBSET Nat, NEW items \in [positions -> LineItems]
    PROVE  /\ DOMAIN normalizeLineItems(items) \subseteq positions
           /\ normalizeLineItems(items) \in [DOMAIN normalizeLineItems(items) -> LineItems]
           /\ \A k \in DOMAIN normalizeLineItems(items) :
                /\ normalizeLineItems(items)[k] = NormalizeLineItem(items[k])
                /\ ~IsEmptyLineItem(normalizeLineItems(items)[k])
           /\ normalizeLineItems(normalizeLineItems(items)) = normalizeLineItems(items)
<1> DEFINE kept == {k \in DOMAIN items : ~IsEmptyLineItem(NormalizeLineItem(items[k]))}
           normal == normalizeLineItems(items)
<1>1. normal = [k \in kept |-> NormalizeLineItem(items[k])] /\ kept \subseteq positions
  BY DEF normalizeLineItems
<1> HIDE DEF normal
<1>2. DOMAIN normal = kept /\ \A k \in kept : normal[k] = NormalizeLineItem(items[k])
  BY <1>1
<1>3. \A k \in kept : normal[k] \in LineItems /\ ~IsEmptyLineItem(normal[k])
  BY <1>1, <1>2, LineItemSettles
<1>4. \A k \in kept : NormalizeLineItem(normal[k]) = normal[k]
  BY <1>1, <1>2, LineItemSettles
<1> HIDE DEF kept
<1>5. normalizeLineItems(normal) = [k \in kept |-> normal[k]]
  <2>1. {k \in DOMAIN normal : ~IsEmptyLineItem(NormalizeLineItem(normal[k]))} = kept
    BY <1>2, <1>3, <1>4
  <2> QED
    BY <2>1, <1>4 DEF normalizeLineItems
<1>6. normalizeLineItems(normal) = normal
  BY <1>1, <1>2, <1>5
<1>7. normal \in [kept -> LineItems]
  BY <1>1, <1>2, <1>3
<1> QED
  BY <1>1, <1>2, <1>3, <1>6, <1>7 DEF normal

\* The fields of a parsed email have their types.
LEMMA ParsedEmailFields ==
    ASSUME NEW p \in ParsedEmails
    PROVE  /\ p.raw \in OptionalText /\ p.display \in OptionalText
           /\ p.vendorName \in OptionalText /\ p.number \in OptionalText
           /\ p.invoice \in OptionalText /\ p.currency \in OptionalText
           /\ p.cycle \in OptionalText /\ p.amount \in OptionalAmount /\ p.date \in Dates
           /\ DOMAIN p.lineItems \subseteq Nat /\ IsFiniteSet(DOMAIN p.lineItems)
           /\ p.lineItems \in [DOMAIN p.lineItems -> LineItems]
<1>1. PICK positions \in SUBSET Nat : IsFiniteSet(positions) /\ p \in ParsedEmailsWith(positions)
  BY DEF ParsedEmails
<1> QED
  BY <1>1 DEF ParsedEmailsWith

\* What normalization makes of a parsed email is one again.
LEMMA NormalizedIsParsed ==
    ASSUME NEW p \in ParsedEmails
    PROVE  NormalizeParsedEmail(p) \in ParsedEmails
<1> DEFINE n == NormalizeParsedEmail(p)
           positions == DOMAIN normalizeLineItems(p.lineItems)
<1>1. /\ n.lineItems = normalizeLineItems(p.lineItems)
      /\ positions \in SUBSET Nat /\ n.lineItems \in [positions -> LineItems]
      /\ IsFiniteSet(positions)
  <2>1. /\ DOMAIN p.lineItems \in SUBSET Nat /\ IsFiniteSet(DOMAIN p.lineItems)
        /\ p.lineItems \in [DOMAIN p.lineItems -> LineItems]
    BY ParsedEmailFields
  <2>2. n.lineItems = normalizeLineItems(p.lineItems)
    BY DEF NormalizeParsedEmail
  <2>3. positions \subseteq DOMAIN p.lineItems
    BY <2>1, LineItemsSettle
  <2>4. IsFiniteSet(positions)
    BY <2>1, <2>3, FS_Subset
  <2> QED
    BY <2>1, <2>2, <2>3, <2>4, LineItemsSettle
<1>2. normalizeOptionalPaymentCycle(p.cycle) \in OptionalText
  <2>1. p.cycle \in OptionalText /\ normalizeOptionalString(p.cycle) \in OptionalText
    BY ParsedEmailFields, StringsSettle
  <2>2. CASE normalizeOptionalString(p.cycle) = Nil
    BY <2>2 DEF normalizeOptionalPaymentCycle, OptionalText
  <2>3. CASE normalizeOptionalString(p.cycle) # Nil
    BY <2>1, <2>3, TextAssumption DEF normalizeOptionalPaymentCycle, NonBlank, OptionalText
  <2> QED
    BY <2>2, <2>3
<1>3. n \in ParsedEmailsWith(positions)
  BY <1>1, <1>2, ParsedEmailFields, StringsSettle DEF NormalizeParsedEmail, ParsedEmailsWith
<1> QED
  BY <1>1, <1>3 DEF ParsedEmails

(***************************************************************************)
(* ParsedEmail.Normalize, which analysis and SaveAll both apply, changes   *)
(* nothing the second time: what is judged is what is stored.              *)
(***************************************************************************)
THEOREM NormalizationSettles ==
    ASSUME NEW p \in ParsedEmails
    PROVE  NormalizeParsedEmail(NormalizeParsedEmail(p)) = NormalizeParsedEmail(p)
<1>1. /\ p.raw \in OptionalText /\ p.display \in OptionalText
      /\ p.vendorName \in OptionalText /\ p.number \in OptionalText
      /\ p.invoice \in OptionalText /\ p.currency \in OptionalText
      /\ p.cycle \in OptionalText
  BY ParsedEmailFields
<1>2. normalizeLineItems(normalizeLineItems(p.lineItems)) = normalizeLineItems(p.lineItems)
  BY ParsedEmailFields, LineItemsSettle
<1> QED
  BY <1>1, <1>2, StringsSettle, CyclesSettle DEF NormalizeParsedEmail

\* A set of positions that is not empty has a first one.
LEMMA FirstPosition ==
    ASSUME NEW positions \in SUBSET Nat, positions # {}
    PROVE  \E k \in positions : \A j \in positions : k <= j
<1>1. PICK k \in positions : \A j \in positions : <<j, k>> \notin OpToRel(<, Nat)
  BY NatLessThanWellFounded, WFMin
<1>2. \A j \in positions : ~(j < k)
  BY <1>1 DEF OpToRel
<1> QED
  BY <1>2

(***************************************************************************)
(* toLineItems keeps positions and types, and leaves no item without a     *)
(* currency.                                                               *)
(***************************************************************************)
LEMMA FallbackCurrencies ==
    ASSUME NEW positions \in SUBSET Nat, NEW items \in [positions -> LineItems],
           NEW c \in OptionalText, c # Nil
    PROVE  /\ toLineItems(items, c) \in [positions -> LineItems]
           /\ \A k \in positions :
                toLineItems(items, c)[k].currency \in {items[k].currency, c} \ {Nil}
<1> DEFINE filled == toLineItems(items, c)
<1>1. filled = [k \in positions |->
                  [items[k] EXCEPT !.currency = IF @ = Nil THEN c ELSE @]]
  BY DEF toLineItems
<1> HIDE DEF filled
<1>2. ASSUME NEW k \in positions
      PROVE  filled[k] \in LineItems /\ filled[k].currency \in {items[k].currency, c} \ {Nil}
  <2>1. items[k] \in LineItems
    OBVIOUS
  <2>2. filled[k] = [items[k] EXCEPT !.currency = IF @ = Nil THEN c ELSE @]
    BY <1>1
  <2> QED
    BY <2>1, <2>2 DEF LineItems
<1> QED
  BY <1>1, <1>2 DEF filled

(***************************************************************************)
(* BillingEligibility and NewBilling agree.  Whatever Evaluate lets        *)
(* through, normalized or not, NewBilling builds, unless the invoice       *)
(* number is malformed or the date is the zero date.                       *)
(***************************************************************************)
THEOREM EligibleIsBillable ==
    ASSUME NEW p \in ParsedEmails, Evaluate(p)
    PROVE  \/ Validate(EligibleItem(p))
           \/ NewInvoiceNumber(p.invoice) \notin ValidInvoices \union {Nil}
           \/ p.date = 0
<1> DEFINE e == EligibleItem(p)
           resolved == resolveBillingLineItems(e)
<1>1. /\ e.number = p.number /\ e.invoice = p.invoice /\ e.amount = p.amount
      /\ e.currency = p.currency /\ e.date = p.date /\ e.cycle = p.cycle
      /\ e.lineItems = toLineItems(p.lineItems, p.currency)
  BY DEF EligibleItem
<1>2. /\ p.amount # Nil /\ NormalizeAmount(p.amount)
      /\ p.currency # Nil /\ NormalizeCurrency(p.currency) \in Currencies
      /\ p.cycle \in PaymentCycles /\ NewBillingNumber(p.number) # ""
  BY DEF Evaluate, NewBillingNumber
<1>3. e.lineItems \in [DOMAIN p.lineItems -> LineItems] /\ DOMAIN p.lineItems \subseteq Nat
  <2>1. /\ DOMAIN p.lineItems \in SUBSET Nat /\ p.currency \in OptionalText
        /\ p.lineItems \in [DOMAIN p.lineItems -> LineItems]
    BY ParsedEmailFields
  <2>2. toLineItems(p.lineItems, p.currency) \in [DOMAIN p.lineItems -> LineItems]
    BY <1>2, <2>1, FallbackCurrencies
  <2> QED
    BY <1>1, <2>1, <2>2
<1> HIDE DEF e
<1>4. DOMAIN normalizeLineItems(resolved) # {}
  <2>1. CASE DOMAIN normalizeLineItems(e.lineItems) # {}
    <3>1. resolved = normalizeLineItems(e.lineItems)
      BY <2>1 DEF resolveBillingLineItems
    <3> QED
      BY <1>3, <2>1, <3>1, LineItemsSettle
  <2>2. CASE DOMAIN normalizeLineItems(e.lineItems) = {}
    <3> DEFINE made == [raw |-> Nil, display |-> normalizeOptionalString(e.product),
                        amount |-> e.amount, currency |-> normalizeOptionalUpperString(e.currency)]
    <3>1. resolved = <<made>>
      BY <2>2 DEF resolveBillingLineItems
    <3>2. ~IsEmptyLineItem(NormalizeLineItem(made))
      BY <1>1, <1>2 DEF IsEmptyLineItem, NormalizeLineItem
    <3> HIDE DEF made, resolved
    <3>3. 1 \in DOMAIN resolved /\ resolved[1] = made
      BY <3>1
    <3> QED
      BY <3>2, <3>3 DEF normalizeLineItems
  <2> QED
    BY <2>1, <2>2
<1> QED
  BY <1>1, <1>2, <1>4 DEF Validate, e

(***************************************************************************)
(* The name Evaluate accepts survives the trimming of NewBilling.          *)
(***************************************************************************)
LEMMA ProductNameSettles ==
    ASSUME NEW p \in ParsedEmails, NormalizeParsedEmail(p) = p,
           ResolvedProductNameDisplay(p) # Nil
    PROVE  normalizeOptionalString(ResolvedProductNameDisplay(p)) = ResolvedProductNameDisplay(p)
<1> DEFINE named == {k \in DOMAIN p.lineItems : p.lineItems[k].display # Nil \/ p.lineItems[k].raw # Nil}
           k1 == CHOOSE k \in named : \A j \in named : k <= j
           first == p.lineItems[k1]
<1>1. /\ normalizeOptionalString(p.display) = p.display
      /\ normalizeOptionalString(p.raw) = p.raw
      /\ normalizeLineItems(p.lineItems) = p.lineItems
  <2>1. /\ NormalizeParsedEmail(p).display = normalizeOptionalString(p.display)
        /\ NormalizeParsedEmail(p).raw = normalizeOptionalString(p.raw)
        /\ NormalizeParsedEmail(p).lineItems = normalizeLineItems(p.lineItems)
    BY DEF NormalizeParsedEmail
  <2> QED
    BY <2>1
<1>2. CASE p.display # Nil \/ p.raw # Nil
  BY <1>1, <1>2 DEF ResolvedProductNameDisplay
<1>3. CASE p.display = Nil /\ p.raw = Nil
  <2>1. named # {} /\ ResolvedProductNameDisplay(p) = IF first.display # Nil THEN first.display ELSE first.raw
    BY <1>3 DEF ResolvedProductNameDisplay
  <2>2. k1 \in named
    <3>1. named \in SUBSET Nat
      BY ParsedEmailFields
    <3> HIDE DEF named
    <3> QED
      BY <2>1, <3>1, FirstPosition
  <2> HIDE DEF k1
  <2>3. first = NormalizeLineItem(first)
    BY <1>1, <2>2, ParsedEmailFields, LineItemsSettle
  <2> HIDE DEF first
  <2>4. /\ first.display = normalizeOptionalString(first.display)
        /\ first.raw = normalizeOptionalString(first.raw)
    <3>1. /\ NormalizeLineItem(first).display = normalizeOptionalString(first.display)
          /\ NormalizeLineItem(first).raw = normalizeOptionalString(first.raw)
      BY DEF NormalizeLineItem
    <3> QED
      BY <2>3, <3>1
  <2> QED
    BY <2>1, <2>4
<1> QED
  BY <1>2, <1>3

(***************************************************************************)
(* What NewBilling makes of an eligible candidate that is normalized has a *)
(* product name and at least one line item, and every line item has a      *)
(* currency, even where the mail named neither product nor currency there. *)
(***************************************************************************)
THEOREM EligibleIsComplete ==
    ASSUME NEW p \in ParsedEmails, NormalizeParsedEmail(p) = p, Evaluate(p)
    PROVE  LET b == NewBilling(EligibleItem(p)) IN
           /\ b.product # Nil
           /\ DOMAIN b.lineItems # {}
           /\ \A k \in DOMAIN b.lineItems : b.lineItems[k].currency # Nil
<1> DEFINE e == EligibleItem(p)
           b == NewBilling(e)
           filled == toLineItems(p.lineItems, p.currency)
<1>1. /\ e.product = ResolvedProductNameDisplay(p) /\ e.currency = p.currency
      /\ e.lineItems = filled
  BY DEF EligibleItem
<1>2. p.currency # Nil /\ ResolvedProductNameDisplay(p) # Nil
  BY DEF Evaluate
<1>3. b.product = normalizeOptionalString(e.product) /\ b.lineItems = resolveBillingLineItems(e)
  BY DEF NewBilling
<1>4. /\ DOMAIN p.lineItems \in SUBSET Nat /\ p.currency \in OptionalText
      /\ p.lineItems \in [DOMAIN p.lineItems -> LineItems]
  BY ParsedEmailFields
<1>5. /\ normalizeOptionalUpperString(p.currency) = p.currency
      /\ normalizeLineItems(p.lineItems) = p.lineItems
  <2>1. /\ NormalizeParsedEmail(p).currency = normalizeOptionalUpperString(p.currency)
        /\ NormalizeParsedEmail(p).lineItems = normalizeLineItems(p.lineItems)
    BY DEF NormalizeParsedEmail
  <2> QED
    BY <2>1
<1> HIDE DEF e, b, filled
<1>6. b.product # Nil
  BY <1>1, <1>2, <1>3, ProductNameSettles
<1>7. ASSUME NEW k \in DOMAIN p.lineItems
      PROVE  filled[k] \in LineItems /\ normalizeOptionalUpperString(filled[k].currency) # Nil
  <2>1. /\ filled[k] \in LineItems
        /\ filled[k].currency \in {p.lineItems[k].currency, p.currency} \ {Nil}
    BY <1>2, <1>4, FallbackCurrencies DEF filled
  <2>2. p.lineItems[k] = NormalizeLineItem(p.lineItems[k])
    BY <1>4, <1>5, LineItemsSettle
  <2>3. NormalizeLineItem(p.lineItems[k]).currency
          = normalizeOptionalUpperString(p.lineItems[k].currency)
    BY DEF NormalizeLineItem
  <2>4. normalizeOptionalUpperString(p.lineItems[k].currency) = p.lineItems[k].currency
    BY <2>2, <2>3
  <2> QED
    BY <1>5, <2>1, <2>4
<1>8. CASE DOMAIN normalizeLineItems(filled) # {}
  <2>1. b.lineItems = normalizeLineItems(filled)
    BY <1>1, <1>3, <1>8 DEF resolveBillingLineItems
  <2>2. filled \in [DOMAIN p.lineItems -> LineItems]
    BY <1>2, <1>4, FallbackCurrencies DEF filled
  <2>3. ASSUME NEW k \in DOMAIN normalizeLineItems(filled)
        PROVE  normalizeLineItems(filled)[k].currency # Nil
    <3>1. k \in DOMAIN p.lineItems /\ normalizeLineItems(filled)[k] = NormalizeLineItem(filled[k])
      BY <1>4, <2>2, LineItemsSettle
    <3>2. NormalizeLineItem(filled[k]).currency = normalizeOptionalUpperString(filled[k].currency)
      BY DEF NormalizeLineItem
    <3> QED
      BY <1>7, <3>1, <3>2
  <2> QED
    BY <1>6, <1>8, <2>1, <2>3 DEF b, e
<1>9. CASE DOMAIN normalizeLineItems(filled) = {}
  <2> DEFINE made == [raw |-> Nil, display |-> normalizeOptionalString(e.product),
                      amount |-> e.amount, currency |-> normalizeOptionalUpperString(e.currency)]
  <2>1. b.lineItems = <<made>>
    BY <1>1, <1>3, <1>9 DEF resolveBillingLineItems
  <2>2. made.currency # Nil
    BY <1>1, <1>2, <1>5
  <2> HIDE DEF made
  <2>3. DOMAIN b.lineItems = {1} /\ b.lineItems[1] = made
    BY <2>1
  <2> QED
    BY <1>6, <2>2, <2>3 DEF b, e
<1> QED
  BY <1>8, <1>9

-----------------------------------------------------------------------------
(* Sequences.                                                               *)

Increasing(q) == \A i, j \in DOMAIN q : i < j => q[i] < q[j]

LEMMA PositionsAreFinite ==
    ASSUME NEW n \in Nat, NEW positions \in SUBSET (1..n)
    PROVE  /\ IsFiniteSet(positions)
           /\ Cardinality(positions) \in Nat /\ Cardinality(positions) <= n
<1>1. IsFiniteSet(1..n) /\ Cardinality(1..n) = n
  BY FS_Interval
<1>2. IsFiniteSet(positions) /\ Cardinality(positions) <= Cardinality(1..n)
  BY <1>1, FS_Subset
<1> QED
  BY <1>1, <1>2, FS_CardinalityType

\* The positions up to k that are in positions can be put in their order.
LEMMA OrderExtends ==
    ASSUME NEW k \in Nat \ {0}, NEW positions \in SUBSET (1..k),
           \A others \in SUBSET (1..(k - 1)) :
              \E q \in [1..Cardinality(others) -> others] : Increasing(q)
    PROVE  \E q \in [1..Cardinality(positions) -> positions] : Increasing(q)
<1>1. CASE k \notin positions
  <2>1. positions \in SUBSET (1..(k - 1))
    BY <1>1
  <2> QED
    BY <2>1
<1>2. CASE k \in positions
  <2> DEFINE others == positions \ {k}
             n == Cardinality(others)
  <2>1. others \in SUBSET (1..(k - 1))
    OBVIOUS
  <2>2. IsFiniteSet(positions) /\ Cardinality(positions) \in Nat
    BY PositionsAreFinite
  <2>3. n \in Nat /\ Cardinality(positions) = n + 1
    <3>1. Cardinality(positions \ {k}) = Cardinality(positions) - 1
      BY <1>2, <2>2, FS_RemoveElement
    <3>2. k - 1 \in Nat
      OBVIOUS
    <3>3. n \in Nat
      BY <2>1, <3>2, PositionsAreFinite
    <3> QED
      BY <2>2, <3>1, <3>3
  <2>4. PICK q \in [1..n -> others] : Increasing(q)
    BY <2>1
  <2> DEFINE longer == [i \in 1..(n + 1) |-> IF i = n + 1 THEN k ELSE q[i]]
  <2> HIDE DEF n, others
  <2>5. longer \in [1..(n + 1) -> positions]
    <3> SUFFICES ASSUME NEW i \in 1..(n + 1) PROVE longer[i] \in positions
      OBVIOUS
    <3>1. CASE i = n + 1
      BY <1>2, <3>1
    <3>2. CASE i # n + 1
      <4>1. i \in 1..n
        BY <2>3, <3>2
      <4> QED
        BY <2>3, <2>4, <4>1 DEF others
    <3> QED
      BY <3>1, <3>2
  <2>6. Increasing(longer)
    <3> SUFFICES ASSUME NEW i \in 1..(n + 1), NEW j \in 1..(n + 1), i < j
                 PROVE  longer[i] < longer[j]
      BY DEF Increasing
    <3>1. i \in 1..n /\ longer[i] = q[i] /\ q[i] \in 1..(k - 1)
      <4>1. i \in 1..n
        BY <2>3
      <4>2. q[i] \in others
        BY <2>4, <4>1
      <4>3. longer[i] = q[i]
        BY <2>3, <4>1
      <4> QED
        BY <2>1, <4>1, <4>2, <4>3
    <3>2. CASE j = n + 1
      BY <3>1, <3>2
    <3>3. CASE j # n + 1
      <4>1. j \in 1..n /\ longer[j] = q[j]
        BY <2>3, <3>3
      <4> QED
        BY <2>4, <3>1, <4>1 DEF Increasing
    <3> QED
      BY <3>2, <3>3
  <2> QED
    BY <2>3, <2>5, <2>6
<1> QED
  BY <1>1, <1>2

\* Any set of positions can be put in its order: a smallest bound for which
\* some set could not would contradict OrderExtends.
LEMMA OrderExists ==
    ASSUME NEW n \in Nat, NEW positions \in SUBSET (1..n)
    PROVE  \E q \in [1..Cardinality(positions) -> positions] : Increasing(q)
<1> DEFINE Ordered(P) == \E q \in [1..Cardinality(P) -> P] : Increasing(q)
           bad == {k \in Nat : \E P \in SUBSET (1..k) : ~Ordered(P)}
<1>1. ASSUME bad # {} PROVE FALSE
  <2>1. bad \in SUBSET Nat
    OBVIOUS
  <2>2. PICK k \in bad : \A j \in bad : k <= j
    BY <1>1, <2>1, FirstPosition
  <2>3. k # 0
    <3> SUFFICES ASSUME k = 0 PROVE FALSE
      OBVIOUS
    <3>1. PICK P \in SUBSET (1..k) : ~Ordered(P)
      BY <2>2
    <3>2. P = {}
      OBVIOUS
    <3>3. 1..Cardinality(P) = {}
      BY <3>2, FS_EmptySet
    <3>4. [i \in {} |-> i] \in [1..Cardinality(P) -> P] /\ Increasing([i \in {} |-> i])
      BY <3>3 DEF Increasing
    <3> QED
      BY <3>1, <3>4
  <2>4. k \in Nat \ {0}
    BY <2>1, <2>2, <2>3
  <2>5. \A P \in SUBSET (1..(k - 1)) : Ordered(P)
    <3>1. k - 1 \in Nat /\ k - 1 \notin bad
      <4> HIDE DEF bad
      <4> QED
        BY <2>2, <2>4
    <3> HIDE DEF Ordered
    <3> QED
      BY <3>1
  <2> HIDE DEF bad
  <2>6. \A P \in SUBSET (1..k) : Ordered(P)
    BY <2>4, <2>5, OrderExtends
  <2> QED
    BY <2>2, <2>6 DEF bad
<1> QED
  BY <1>1

(***************************************************************************)
(* ItemsAt takes as many elements as there are positions, all of them from *)
(* these positions, and none twice if the sequence had none twice.         *)
(***************************************************************************)
LEMMA ItemsAtPositions ==
    ASSUME NEW S, NEW s \in Seq(S), NEW positions \in SUBSET DOMAIN s,
           NEW T, \A k \in positions : s[k] \in T
    PROVE  /\ ItemsAt(s, positions) \in Seq(T)
           /\ Len(ItemsAt(s, positions)) = Cardinality(positions)
           /\ Cardinality(positions) \in Nat /\ Cardinality(positions) <= Len(s)
           /\ IsInjective(s) => IsInjective(ItemsAt(s, positions))
<1> DEFINE n == Cardinality(positions)
           order == CHOOSE q \in [1..n -> positions] : \A i, j \in DOMAIN q : i < j => q[i] < q[j]
<1>1. Len(s) \in Nat /\ DOMAIN s = 1..Len(s)
  BY LenProperties
<1>2. n \in Nat /\ n <= Len(s)
  BY <1>1, PositionsAreFinite
<1>3. order \in [1..n -> positions] /\ \A i, j \in DOMAIN order : i < j => order[i] < order[j]
  BY <1>1, OrderExists DEF Increasing
<1>4. ItemsAt(s, positions) = [i \in 1..n |-> s[order[i]]]
  BY <1>3 DEF ItemsAt
<1> HIDE DEF n, order
<1>5. [i \in 1..n |-> s[order[i]]] \in Seq(T)
  BY <1>2, <1>3
<1>6. Len([i \in 1..n |-> s[order[i]]]) = n
  BY <1>2
<1>7. ASSUME IsInjective(s) PROVE IsInjective(ItemsAt(s, positions))
  <2> SUFFICES ASSUME NEW i \in 1..n, NEW j \in 1..n, s[order[i]] = s[order[j]]
               PROVE  i = j
    BY <1>4 DEF IsInjective
  <2>1. order[i] = order[j] /\ order[i] \in Nat
    BY <1>1, <1>3, <1>7 DEF IsInjective
  <2>2. ~(i < j) /\ ~(j < i)
    BY <1>3, <2>1
  <2> QED
    BY <1>2, <2>2
<1> QED
  BY <1>2, <1>4, <1>5, <1>6, <1>7 DEF n

(***************************************************************************)
(* The mailbox has each message once: InMailboxOrder lists a set of        *)
(* messages, each once, and is as long as the set.                         *)
(***************************************************************************)
LEMMA MessagesInOrder ==
    ASSUME NEW messages \in SUBSET Messages
    PROVE  /\ InMailboxOrder(messages) \in Seq(messages)
           /\ IsInjective(InMailboxOrder(messages))
           /\ IsFiniteSet(messages) /\ Cardinality(messages) \in Nat
           /\ Len(InMailboxOrder(messages)) = Cardinality(messages)
           /\ Cardinality(messages) <= Len(Mailbox)
<1> DEFINE places == {k \in DOMAIN Mailbox : Mailbox[k] \in messages}
           at == [k \in places |-> Mailbox[k]]
<1>1. Mailbox \in Seq(Messages) /\ IsInjective(Mailbox)
  BY PipelineAssumption DEF Messages
<1>2. places \in SUBSET DOMAIN Mailbox /\ places \in SUBSET (1..Len(Mailbox)) /\ Len(Mailbox) \in Nat
  BY <1>1, LenProperties
<1>3. at \in Bijection(places, messages)
  <2>1. IsInjective(at)
    BY <1>1 DEF IsInjective
  <2>2. \A m \in messages : \E k \in places : at[k] = m
    BY DEF Messages, ToSet
  <2> QED
    BY <2>1, <2>2 DEF Bijection, Injection, Surjection
<1>4. InMailboxOrder(messages) = ItemsAt(Mailbox, places)
  BY DEF InMailboxOrder
<1> HIDE DEF places, at
<1>5. IsFiniteSet(places)
  BY <1>2, PositionsAreFinite
<1>6. IsFiniteSet(messages) /\ Cardinality(messages) = Cardinality(places)
  BY <1>3, <1>5, FS_Bijection DEF ExistsBijection
<1>7. \A k \in places : Mailbox[k] \in messages
  BY DEF places
<1> QED
  BY <1>1, <1>2, <1>4, <1>6, <1>7, ItemsAtPositions

LEMMA RestOfSeq ==
    ASSUME NEW S, NEW s \in Seq(S), NEW b \in Nat
    PROVE  /\ SubSeq(s, b + 1, Len(s)) \in Seq(S)
           /\ Len(SubSeq(s, b + 1, Len(s))) = IF b <= Len(s) THEN Len(s) - b ELSE 0
           /\ \A i \in 1..(Len(s) - b) : SubSeq(s, b + 1, Len(s))[i] = s[b + i]
<1> DEFINE m == b + 1
           n == Len(s)
<1>1. m \in Int /\ n \in Int /\ n >= 0 /\ m = b + 1 /\ \A i \in m..n : s[i] \in S
  BY LenProperties
<1> HIDE DEF m, n
<1>2. /\ SubSeq(s, m, n) \in Seq(S)
      /\ Len(SubSeq(s, m, n)) = IF m <= n THEN n - m + 1 ELSE 0
      /\ \A i \in 1..(n - m + 1) : SubSeq(s, m, n)[i] = s[m + i - 1]
  BY <1>1, SubSeqProperties
<1>3. Len(SubSeq(s, m, n)) = IF b <= n THEN n - b ELSE 0
  BY <1>1, <1>2
<1>4. ASSUME NEW i \in 1..(n - b) PROVE SubSeq(s, m, n)[i] = s[b + i]
  <2>1. i \in 1..(n - m + 1) /\ m + i - 1 = b + i
    BY <1>1
  <2> QED
    BY <1>2, <2>1
<1> QED
  BY <1>2, <1>3, <1>4 DEF m, n

\* The messages behind the current chunk of run w.
RestOf(w) == SubSeq(todo[w], saveBatchSize + 1, Len(todo[w]))

(***************************************************************************)
(* A chunk and the messages behind it share no message, and the chunk has  *)
(* no more messages than it takes off the list.                            *)
(***************************************************************************)
LEMMA ChunkIsTaken ==
    ASSUME NEW w, todo[w] \in Seq(Messages), IsInjective(todo[w])
    PROVE  LET rest == RestOf(w) IN
           /\ Chunk(w) \in SUBSET Messages
           /\ rest \in Seq(Messages) /\ IsInjective(rest)
           /\ \A i \in DOMAIN rest : \E j \in DOMAIN todo[w] : rest[i] = todo[w][j]
           /\ \A i \in DOMAIN rest : rest[i] \notin Chunk(w)
           /\ Cardinality(Chunk(w)) \in Nat
           /\ Cardinality(Chunk(w)) + Len(rest) <= Len(todo[w])
<1> DEFINE s == todo[w]
           b == saveBatchSize
           first == DOMAIN s \intersect 1..b
           rest == RestOf(w)
<1>1. s \in Seq(Messages) /\ Len(s) \in Nat /\ DOMAIN s = 1..Len(s) /\ b \in Nat \ {0}
      /\ \A i \in 1..Len(s) : s[i] \in Messages
  BY LenProperties, PipelineAssumption
<1>2. \A i, j \in 1..Len(s) : s[i] = s[j] => i = j
  BY <1>1 DEF IsInjective
<1>3. Chunk(w) = {s[i] : i \in first} /\ first = 1..(IF b <= Len(s) THEN b ELSE Len(s))
  BY <1>1 DEF Chunk
<1>4. rest = SubSeq(s, b + 1, Len(s))
  BY DEF RestOf
<1> HIDE DEF s, b, first, rest
<1>5. /\ rest \in Seq(Messages)
      /\ Len(rest) = IF b <= Len(s) THEN Len(s) - b ELSE 0
      /\ \A i \in 1..(Len(s) - b) : rest[i] = s[b + i]
  <2>1. b \in Nat
    BY <1>1
  <2>2. /\ SubSeq(s, b + 1, Len(s)) \in Seq(Messages)
        /\ Len(SubSeq(s, b + 1, Len(s))) = IF b <= Len(s) THEN Len(s) - b ELSE 0
        /\ \A i \in 1..(Len(s) - b) : SubSeq(s, b + 1, Len(s))[i] = s[b + i]
    BY <1>1, <2>1, RestOfSeq, Zenon
  <2> QED
    BY <1>4, <2>2
<1>6. DOMAIN rest = 1..Len(rest)
  BY <1>5, LenProperties
<1>7. ASSUME NEW i \in DOMAIN rest
      PROVE  rest[i] = s[b + i] /\ b + i \in 1..Len(s) /\ b + i \notin 1..b /\ i \in Nat
  <2>1. i \in 1..(Len(s) - b)
    <3>1. i \in 1..(IF b <= Len(s) THEN Len(s) - b ELSE 0)
      BY <1>5, <1>6, Zenon
    <3>2. Len(s) \in Nat /\ b \in Nat
      BY <1>1
    <3> QED
      BY <3>1, <3>2
  <2>2. rest[i] = s[b + i]
    BY <1>5, <2>1
  <2>3. Len(s) \in Nat /\ b \in Nat
    BY <1>1
  <2>4. i \in Nat /\ 1 <= i /\ i <= Len(s) - b
    BY <2>1, <2>3
  <2>5. b + i \in 1..Len(s) /\ b + i \notin 1..b
    BY <2>3, <2>4
  <2> QED
    BY <2>2, <2>4, <2>5
<1>8. IsInjective(rest)
  <2> SUFFICES ASSUME NEW i \in DOMAIN rest, NEW j \in DOMAIN rest, rest[i] = rest[j]
               PROVE  i = j
    BY DEF IsInjective
  <2>1. b + i = b + j
    BY <1>2, <1>7
  <2> QED
    BY <1>1, <1>7, <2>1
<1>9. ASSUME NEW i \in DOMAIN rest, rest[i] \in Chunk(w) PROVE FALSE
  <2>1. PICK j \in first : rest[i] = s[j]
    BY <1>3, <1>9
  <2>2. j \in 1..Len(s) /\ j \in 1..b
    BY <1>1 DEF first
  <2>3. j = b + i
    BY <1>2, <1>7, <2>1, <2>2
  <2> QED
    BY <1>7, <2>2, <2>3
<1>10. Cardinality(Chunk(w)) \in Nat /\ Cardinality(Chunk(w)) + Len(rest) <= Len(s)
  <2> DEFINE at == [i \in first |-> s[i]]
             n == IF b <= Len(s) THEN b ELSE Len(s)
  <2>1. at \in Surjection(first, Chunk(w))
    BY <1>3 DEF Surjection
  <2>2. n \in Nat /\ first \in SUBSET (1..n)
    BY <1>1, <1>3
  <2>3. IsFiniteSet(first) /\ Cardinality(first) \in Nat /\ Cardinality(first) <= n
    BY <2>2, PositionsAreFinite
  <2>4. IsFiniteSet(Chunk(w)) /\ Cardinality(Chunk(w)) <= Cardinality(first)
    BY <2>1, <2>3, FS_Surjection
  <2>5. Cardinality(Chunk(w)) \in Nat
    BY <2>4, FS_CardinalityType
  <2>6. Cardinality(Chunk(w)) <= n
    BY <2>2, <2>3, <2>4, <2>5
  <2>7. Len(rest) = IF b <= Len(s) THEN Len(s) - b ELSE 0
    BY <1>5, Zenon
  <2>8. Len(s) \in Nat /\ b \in Nat
    BY <1>1
  <2>9. Len(rest) = Len(s) - n
    BY <2>7, <2>8
  <2> HIDE DEF n
  <2> QED
    BY <2>2, <2>5, <2>6, <2>8, <2>9
<1> QED
  BY <1>1, <1>3, <1>5, <1>6, <1>7, <1>8, <1>9, <1>10 DEF s, first, rest

-----------------------------------------------------------------------------
(* What the stages pass on.                                                 *)

\* A draft within the bounds of the model is a parsed email.
LEMMA DraftsAreParsed == Drafts \subseteq ParsedEmails
<1> SUFFICES ASSUME NEW d \in Drafts PROVE d \in ParsedEmails
  OBVIOUS
<1>1. /\ DOMAIN d.lineItems \in SUBSET Nat /\ IsFiniteSet(DOMAIN d.lineItems)
      /\ d \in ParsedEmailsWith(DOMAIN d.lineItems)
  BY PipelineAssumption
<1> QED
  BY <1>1 DEF ParsedEmails

(***************************************************************************)
(* What Analyze passes on for a message: at most MaxParsed candidates that *)
(* belong to the message, each of them a parsed email, with or without the *)
(* fallback number.                                                        *)
(***************************************************************************)
LEMMA CandidatesOfEmail ==
    ASSUME NEW m \in Messages, NEW k \in 1..MaxParsed, NEW drafts \in [1..k -> Drafts],
           NEW items, items = applyFallbackBillingNumbers(m, NormalizeOutput(drafts))
    PROVE  /\ items \in Seq([msg : {m}, pos : Nat, data : ParsedEmails])
           /\ Len(items) \in Nat /\ Len(items) <= MaxParsed
<1> DEFINE normal == [i \in 1..k |-> NormalizeParsedEmail(drafts[i])]
           kept == {i \in 1..k : ~IsEmpty(normal[i])}
           output == ItemsAt(normal, kept)
           Targets == [msg : {m}, pos : Nat, data : ParsedEmails]
<1>1. k \in Nat /\ k <= MaxParsed /\ MaxParsed \in Nat
  BY PipelineAssumption
<1>2. \A i \in 1..k : NormalizeParsedEmail(drafts[i]) \in ParsedEmails
  BY DraftsAreParsed, NormalizedIsParsed
<1>3. normal \in Seq(ParsedEmails) /\ Len(normal) = k /\ DOMAIN normal = 1..k
  BY <1>1, <1>2
<1>4. /\ output \in Seq(ParsedEmails) /\ Len(output) = Cardinality(kept)
      /\ Len(output) <= k /\ Len(output) \in Nat
  <2>1. kept \in SUBSET DOMAIN normal /\ \A i \in kept : normal[i] \in ParsedEmails
    BY <1>2, <1>3
  <2> HIDE DEF normal, kept
  <2> QED
    BY <1>3, <2>1, ItemsAtPositions
<1>5. NormalizeOutput(drafts) = output
  BY DEF NormalizeOutput
<1>6. items = [i \in DOMAIN output |-> ResolutionTarget(m, i,
                  [output[i] EXCEPT !.number = IF @ = Nil THEN BodyDigest[m] ELSE @])]
  BY <1>5 DEF applyFallbackBillingNumbers
<1> HIDE DEF output
<1>7. DOMAIN output = 1..Len(output) /\ \A i \in 1..Len(output) : output[i] \in ParsedEmails
  BY <1>4, LenProperties
<1>8. ASSUME NEW i \in 1..Len(output)
      PROVE  items[i] \in Targets
  <2> DEFINE p == [output[i] EXCEPT !.number = IF @ = Nil THEN BodyDigest[m] ELSE @]
  <2>1. PICK positions \in SUBSET Nat :
           IsFiniteSet(positions) /\ output[i] \in ParsedEmailsWith(positions)
    BY <1>7 DEF ParsedEmails
  <2>2. BodyDigest[m] \in OptionalText
    BY PipelineAssumption DEF Messages, OptionalText
  <2>3. p \in ParsedEmailsWith(positions)
    BY <2>1, <2>2 DEF ParsedEmailsWith
  <2>4. p \in ParsedEmails
    BY <2>1, <2>3 DEF ParsedEmails
  <2>5. items[i] = ResolutionTarget(m, i, p)
    BY <1>6, <1>7
  <2> HIDE DEF p
  <2> QED
    BY <1>4, <2>4, <2>5 DEF ResolutionTarget
<1> HIDE DEF Targets
<1>9. items \in [1..Len(output) -> Targets]
  BY <1>6, <1>7, <1>8
<1>10. items \in Seq(Targets) /\ Len(items) = Len(output)
  <2> DEFINE n == Len(output)
  <2>1. n \in Nat
    BY <1>4
  <2> HIDE DEF n
  <2>2. items = [i \in 1..n |-> items[i]] /\ \A i \in 1..n : items[i] \in Targets
    BY <1>9 DEF n
  <2>3. [i \in 1..n |-> items[i]] \in Seq(Targets) /\ Len([i \in 1..n |-> items[i]]) = n
    BY <2>1, <2>2
  <2> QED
    BY <2>2, <2>3 DEF n
<1> QED
  BY <1>1, <1>4, <1>10 DEF Targets

\* An email that passes EvaluateEligibility gives an eligible item.
LEMMA EligibleTarget ==
    ASSUME NEW p \in ParsedEmails, Evaluate(NormalizeParsedEmail(p))
    PROVE  EligibleItem(NormalizeParsedEmail(p)) \in EligibleItems
BY NormalizedIsParsed, NormalizationSettles DEF EligibleItems

(***************************************************************************)
(* An eligible item can be built, but for its invoice number and the zero  *)
(* date; and the billing built of it is complete.                          *)
(***************************************************************************)
LEMMA EligibleItemsBuild ==
    ASSUME NEW e \in EligibleItems
    PROVE  /\ \/ Validate(e)
              \/ NewInvoiceNumber(e.invoice) \notin ValidInvoices \union {Nil}
              \/ e.date = 0
           /\ NewBilling(e).product # Nil
           /\ DOMAIN NewBilling(e).lineItems # {}
           /\ \A k \in DOMAIN NewBilling(e).lineItems :
                NewBilling(e).lineItems[k].currency # Nil
<1>1. PICK p \in ParsedEmails :
         NormalizeParsedEmail(p) = p /\ Evaluate(p) /\ e = EligibleItem(p)
  BY DEF EligibleItems
<1>2. e.invoice = p.invoice /\ e.date = p.date
  BY <1>1 DEF EligibleItem
<1> QED
  BY <1>1, <1>2, EligibleIsBillable, EligibleIsComplete

-----------------------------------------------------------------------------
(* The stages keep the contract of the workflow.                            *)

LEMMA StageNumbers ==
    /\ workflowStageFetch = 1 /\ workflowStageAnalysis = 2 /\ workflowStageBilling = 5
    /\ Stages = {1, 2, 3, 4, 5} /\ NoStage = 0
BY StagesAreNumbers
   DEF workflowStageFetch, workflowStageAnalysis, workflowStageBilling, NoStage

LEMMA MailboxBounds ==
    /\ Len(Mailbox) \in Nat /\ MaxItems \in Nat /\ MaxParsed \in Nat
    /\ 2 * Len(Mailbox) <= MaxItems /\ MaxParsed * Len(Mailbox) <= MaxItems
<1>1. Len(Mailbox) \in Nat
  BY PipelineAssumption, LenProperties
<1> QED
  BY <1>1, PipelineAssumption, MaxItemsAssumption

\* A product does not exceed one with a larger factor.
LEMMA Scaled ==
    ASSUME NEW a \in Nat, NEW i \in Nat, NEW j \in Nat, i <= j
    PROVE  a * i \in Nat /\ a * i <= a * j
OBVIOUS

\* What the invariant says of the results of a run inside a stage.
LEMMA RunningStage ==
    ASSUME IndInv, NEW w \in Workflows, pc[w] \in {"mark", "exec", "save"}
    PROVE  /\ stage[w] \in Stages /\ result[w] \in [Stages -> StageResult]
           /\ row[w].status \notin Completed
           /\ \A t \in Stages : t > stage[w] => result[w][t] = NoResult
           /\ pc[w] # "save" => result[w][stage[w]] = NoResult
           /\ \A t \in Stages : t < stage[w] => result[w][t].out \in 0..MaxItems
<1>1. /\ TypeOK /\ RowTracksRunner(row[w], pc[w], stage[w])
      /\ ResultsInOrder(pc[w], stage[w], result[w])
  BY DEF IndInv, WorkflowInv
<1>2. \A t \in Stages : t < stage[w] => result[w][t] \in StageResults(t, StageInput(result[w], t))
  BY <1>1 DEF ResultsInOrder
<1>3. /\ stage[w] \in Stages
      /\ row[w].status = "running" \/ row[w].status = "queued"
  BY <1>1 DEF RowTracksRunner
<1> QED
  BY <1>1, <1>2, <1>3 DEF ResultsInOrder, TypeOK, StageResults, Completed

LEMMA ResultInContract ==
    ASSUME NEW s \in {2, 3, 4, 5}, NEW n \in 0..MaxItems,
           NEW o \in Nat, NEW b \in Nat, NEW t \in Nat,
           s = 2 => /\ b = 0 /\ t <= n /\ n <= t + o /\ o <= MaxItems
                    /\ o = 0 <=> t = n,
           s > 2 => t + o + b = n
    PROVE  [out |-> o, seen |-> 0, bus |-> b, tech |-> t] \in StageResults(s, n)
<1> DEFINE r == [out |-> o, seen |-> 0, bus |-> b, tech |-> t]
<1>1. r.out = o /\ r.seen = 0 /\ r.bus = b /\ r.tech = t
  OBVIOUS
<1>2. o \in 0..MaxItems /\ b \in 0..MaxItems /\ t \in 0..MaxItems /\ 0 \in 0..MaxItems
  BY MailboxBounds
<1>3. r \in [out : 0..MaxItems, seen : 0..MaxItems, bus : 0..MaxItems, tech : 0..MaxItems]
  BY <1>2
<1> HIDE DEF r
<1> QED
  BY <1>1, <1>3, StageNumbers DEF StageResults, r

\* At its end each stage returns a result its contract allows.
LEMMA StageContract ==
    ASSUME PipelineInv, NEW w \in Workflows, ReturnResult(w)
    PROVE  Stage(w)
<1> DEFINE s == stage[w]
           n == result[w][s - 1].out
           r == [out |-> Len(outs[w]),
                 seen |-> IF s = workflowStageFetch THEN Cardinality(known[w]) ELSE 0,
                 bus |-> tally[w].bus, tech |-> tally[w].tech]
<1>1. /\ todo[w] = <<>> /\ step[w] = "items" /\ pc[w] = "exec" /\ StageReturns(w, r)
      /\ tally[w].bus \in Nat /\ tally[w].tech \in Nat
  BY DEF ReturnResult, StageReturns, PipelineInv, PipelineTypes
<1>2. s \in Stages /\ s \in {1, 2, 3, 4, 5}
  BY <1>1, RunningStage, StageNumbers DEF PipelineInv
<1>3. IF s = 1 THEN Fetching(w) ELSE Working(w, s)
  BY <1>1, StageNumbers DEF PipelineInv, MemoryTracksStage
<1>4. Len(<<>>) = 0
  OBVIOUS
<1>5. CASE s = 1
  <2>1. known[w] \in SUBSET Messages
    BY DEF PipelineInv, PipelineTypes
  <2>2. Cardinality(known[w]) \in Nat
    BY <2>1, MessagesInOrder
  <2>3. /\ outs[w] \in Seq(created[w]) /\ tally[w].bus = 0
        /\ Len(todo[w]) + Len(outs[w]) + Cardinality(known[w]) + tally[w].tech
             <= 2 * Len(Mailbox)
    BY <1>1, <1>3, <1>5 DEF Fetching
  <2>4. Len(outs[w]) \in Nat
    BY <2>3, LenProperties
  <2>5. r \in StageResults(s, StageInput(result[w], s))
    <3> DEFINE o == Len(outs[w])
               k == Cardinality(known[w])
               f == tally[w].tech
    <3>1. r = [out |-> o, seen |-> k, bus |-> 0, tech |-> f]
      BY <1>5, <2>3, StageNumbers
    <3>2. o \in Nat /\ k \in Nat /\ f \in Nat /\ o + k + f <= 2 * Len(Mailbox)
      BY <1>1, <1>4, <2>2, <2>3, <2>4
    <3> HIDE DEF o, k, f, r
    <3>3. /\ o \in 0..MaxItems /\ k \in 0..MaxItems /\ f \in 0..MaxItems
          /\ 0 \in 0..MaxItems /\ o + k + f <= MaxItems
      BY ONLY <3>2, MailboxBounds
    <3> QED
      BY <1>5, <3>1, <3>3, StageNumbers DEF StageResults
  <2> QED
    BY <1>1, <2>5 DEF Stage
<1>6. CASE s \in {2, 3, 4, 5}
  <2>1. n \in 0..MaxItems /\ s - 1 \in Stages /\ StageInput(result[w], s) = n
    BY <1>1, <1>2, <1>6, RunningStage, StageNumbers DEF PipelineInv, StageInput
  <2>2. /\ outs[w] \in Seq(Inputs(w, s + 1))
        /\ s = 2 => /\ tally[w].bus = 0
                    /\ tally[w].tech <= n /\ n <= tally[w].tech + Len(outs[w])
                    /\ n <= Len(Mailbox)
                    /\ Len(outs[w]) = 0 <=> tally[w].tech = n
                    /\ Len(outs[w]) <= MaxParsed * (n - tally[w].tech)
        /\ s > 2 => tally[w].tech + Len(outs[w]) + tally[w].bus = n
    BY <1>1, <1>3, <1>4, <1>6, StageNumbers DEF Working
  <2>3. Len(outs[w]) \in Nat
    BY <2>2, LenProperties
  <2> DEFINE o == Len(outs[w])
             b == tally[w].bus
             f == tally[w].tech
  <2>4. r = [out |-> o, seen |-> 0, bus |-> b, tech |-> f]
    BY <1>6, StageNumbers
  <2>5. CASE s = 2
    <3>1. n - tally[w].tech \in Nat /\ n - tally[w].tech <= Len(Mailbox)
      <4>1. n \in Nat /\ tally[w].tech \in Nat
        BY <1>1, <2>1, MailboxBounds
      <4>2. tally[w].tech <= n /\ n <= Len(Mailbox) /\ Len(Mailbox) \in Nat
        BY <2>2, <2>5, MailboxBounds
      <4> HIDE DEF n
      <4> QED
        BY ONLY <4>1, <4>2
    <3>2. /\ MaxParsed * (n - tally[w].tech) \in Nat
          /\ MaxParsed * (n - tally[w].tech) <= MaxParsed * Len(Mailbox)
      BY <3>1, MailboxBounds, Scaled
    <3>3. Len(outs[w]) <= MaxItems
      BY <2>2, <2>3, <2>5, <3>2, MailboxBounds
    <3>4. /\ o \in Nat /\ b \in Nat /\ f \in Nat
          /\ b = 0 /\ f <= n /\ n <= f + o /\ o <= MaxItems
          /\ o = 0 <=> f = n
      BY <1>1, <2>2, <2>3, <2>5, <3>3
    <3>5. r \in StageResults(s, n)
      <4> HIDE DEF r, o, b, f, n
      <4> QED
        BY <1>6, <2>1, <2>5, <2>4, <3>4, ResultInContract
    <3> QED
      BY <1>1, <2>1, <3>5 DEF Stage
  <2>6. CASE s > 2
    <3>1. o \in Nat /\ b \in Nat /\ f \in Nat /\ f + o + b = n
      BY <1>1, <2>2, <2>3, <2>6
    <3>2. r \in StageResults(s, n)
      <4> HIDE DEF r, o, b, f, n
      <4> QED
        BY <1>6, <2>1, <2>6, <2>4, <3>1, ResultInContract
    <3> QED
      BY <1>1, <2>1, <3>2 DEF Stage
  <2> QED
    BY <1>6, <2>5, <2>6
<1> QED
  BY <1>2, <1>5, <1>6

(***************************************************************************)
(* Every step of the runs is a step of the workflow around the stages, or  *)
(* leaves its variables alone.                                             *)
(***************************************************************************)
LEMMA StepRefined ==
    ASSUME PipelineInv, [PipelineNext]_pipelineVars
    PROVE  [Next]_vars
<1>1. CASE Around
  BY <1>1 DEF Around, Next, Serve
<1>2. ASSUME NEW w \in Workflows, StageStep(w) PROVE [Next]_vars
  <2>1. CASE ReturnResult(w)
    BY <2>1, StageContract DEF Next, Serve
  <2>2. CASE ~ReturnResult(w)
    BY <1>2, <2>2 DEF StageStep, Fetch, InsertChunk, InsertChunkFails, ReadBack, Analyze,
       AnalyzeFails, ResolveVendor, EvaluateEligibility, BuildBillingFails, SaveIfAbsent,
       SaveBillingFails, NextItem
  <2> QED
    BY <2>1, <2>2
<1>3. CASE UNCHANGED pipelineVars
  BY <1>3 DEF pipelineVars, vars
<1> QED
  BY <1>1, <1>2, <1>3 DEF PipelineNext

-----------------------------------------------------------------------------
(* Steps around the stages.                                                 *)

LEMMA MessagesAreFinite ==
    ASSUME NEW messages \in SUBSET Messages
    PROVE  IsFiniteSet(messages) /\ Cardinality(messages) \in Nat
BY MessagesInOrder

LEMMA BilledIsFinite ==
    ASSUME IsFiniteSet(billings), NEW w
    PROVE  /\ IsFiniteSet(BilledBy(w)) /\ Cardinality(BilledBy(w)) \in Nat
           /\ Cardinality(BilledBy(w)) = 0 <=> BilledBy(w) = {}
<1>1. BilledBy(w) \in SUBSET billings
  BY DEF BilledBy
<1>2. IsFiniteSet(BilledBy(w))
  BY <1>1, FS_Subset
<1> QED
  BY <1>2, FS_CardinalityType, FS_EmptySet

\* Without a write of a stage, what is said of a run's memory stays true.
LEMMA SameMemory ==
    ASSUME UNCHANGED <<tables, memory, progress, result>>, NEW w \in Workflows
    PROVE  /\ Untouched(w)' <=> Untouched(w)
           /\ Fetching(w)' <=> Fetching(w)
           /\ \A s \in {2, 3, 4, 5} : Working(w, s)' <=> Working(w, s)
           /\ OwnsCreated(w)' <=> OwnsCreated(w)
           /\ BilledBy(w)' = BilledBy(w)
           /\ Len(outs[w])' = Len(outs[w]) /\ outs[w]' = outs[w] /\ tally[w]' = tally[w]
BY DEF tables, memory, progress, Untouched, Fetching, Working, Inputs, Analyzed, OwnsCreated,
       BilledBy

\* The step of one run of the workflow around the stages.
LEMMA ControlKeeps ==
    ASSUME PipelineInv, NEW w \in Workflows, UNCHANGED <<tables, memory, progress>>,
           RejectStart(w) \/ CreateQueued(w) \/ Control(w)
    PROVE  MemoryTracksStage(w)' /\ TableTracksCounts(w)'
<1> USE StageNumbers
<1>1. /\ IndInv /\ TypeOK /\ IsFiniteSet(billings)
      /\ MemoryTracksStage(w) /\ TableTracksCounts(w)
      /\ tally[w].tech \in Nat
  BY DEF PipelineInv, IndInv, PipelineTypes
<1>2. result' = result
  BY DEF RejectStart, CreateQueued, Control, Dispatch, DispatchRefused, FailStart,
         MarkRunning, StageErrors, SaveStageProgress, Complete, FailWorkflow
<1>3. /\ Untouched(w)' <=> Untouched(w)
      /\ Fetching(w)' <=> Fetching(w)
      /\ \A s \in {2, 3, 4, 5} : Working(w, s)' <=> Working(w, s)
      /\ BilledBy(w)' = BilledBy(w)
      /\ outs'[w] = outs[w] /\ tally'[w] = tally[w]
  BY <1>2, SameMemory
<1>4. /\ row[w] \in HistoryRow
      /\ \A s : FailedRow(row[w], s).status = "failed" /\ RunningRow(row[w], s).status = "running"
  BY <1>1 DEF TypeOK, HistoryRow, FailedRow, RunningRow
<1>5. CASE RejectStart(w)
  <2>1. pc'[w] = "rejected" /\ row'[w] = row[w]
    BY <1>1, <1>5 DEF RejectStart, TypeOK
  <2> QED
    BY <1>1, <1>2, <1>3, <2>1 DEF MemoryTracksStage, TableTracksCounts, Counted
<1>6. CASE CreateQueued(w)
  <2>1. /\ pc[w] = "idle" /\ pc'[w] \in {"dispatch", "rejected"}
        /\ row'[w] = row[w] \/ row'[w].status = "queued"
    BY <1>1, <1>6 DEF CreateQueued, Applied, Errored, QueuedRow, AbsentRow, TypeOK
  <2> QED
    BY <1>1, <1>2, <1>3, <2>1 DEF MemoryTracksStage, TableTracksCounts, Counted, Completed
<1>7. CASE Dispatch(w) \/ DispatchRefused(w)
  <2>1. /\ pc[w] = "dispatch" /\ row'[w] = row[w]
        /\ (pc'[w] = "mark" /\ stage'[w] = 1) \/ pc'[w] = "fail_start"
    BY <1>1, <1>7 DEF Dispatch, DispatchRefused, TypeOK
  <2>2. Untouched(w) /\ BilledBy(w) = {}
    BY <1>1, <2>1 DEF MemoryTracksStage, TableTracksCounts
  <2>3. Fetching(w)
    BY <2>2 DEF Fetching, Untouched
  <2> QED
    BY <1>1, <1>2, <1>3, <2>1, <2>2, <2>3 DEF MemoryTracksStage, TableTracksCounts, Counted
<1>8. CASE FailStart(w) \/ FailWorkflow(w)
  <2>1. /\ pc'[w] \in {"rejected", "done"}
        /\ row'[w] = row[w] \/ row'[w].status = "failed"
    BY <1>1, <1>4, <1>8
       DEF FailStart, FailWorkflow, Applied, Errored, TypeOK
  <2> QED
    BY <1>1, <1>2, <1>3, <2>1 DEF MemoryTracksStage, TableTracksCounts, Counted, Completed
<1>9. CASE MarkRunning(w)
  <2>1. /\ pc[w] = "mark" /\ pc'[w] \in {"exec", "fail"} /\ stage'[w] = stage[w]
        /\ row'[w] = row[w] \/ row'[w].status = "running"
    BY <1>1, <1>4, <1>9 DEF MarkRunning, Applied, Errored, TypeOK
  <2>2. stage[w] \in {1, 2, 3, 4, 5}
    BY <1>1, <2>1, RunningStage
  <2> QED
    BY <1>1, <1>2, <1>3, <2>1, <2>2 DEF MemoryTracksStage, TableTracksCounts, Counted, Completed
<1>10. CASE StageErrors(w)
  <2>1. pc'[w] = "fail" /\ row'[w] = row[w]
    BY <1>1, <1>10 DEF StageErrors, TypeOK
  <2> QED
    BY <1>1, <1>2, <1>3, <2>1 DEF MemoryTracksStage, TableTracksCounts, Counted
<1>11. CASE SaveStageProgress(w)
  <2> DEFINE s == stage[w]
  <2>1. pc[w] = "save" /\ s \in {1, 2, 3, 4, 5} /\ row[w].status \notin Completed
    BY <1>1, <1>11, RunningStage DEF SaveStageProgress
  <2>2. /\ row'[w].status = row[w].status
        /\ \/ pc'[w] = "mark" /\ s # 5 /\ stage'[w] = s + 1
           \/ pc'[w] \in {"complete", "fail"}
    BY <1>1, <1>4, <1>11
       DEF SaveStageProgress, Applied, Errored, ProgressRow, HistoryRow, TypeOK
  <2>3. /\ outs[w] = <<>> /\ (s # 5 => Working(w, s + 1))
        /\ Counted(w, result[w][5].out, result[w][5].tech)
    BY <1>1, <2>1 DEF MemoryTracksStage, TableTracksCounts
  <2>4. CASE pc'[w] = "mark"
    <3>1. result[w][5].out = 0 /\ result[w][5].tech = 0
      BY <1>1, <2>1, <2>2, <2>4, RunningStage DEF NoResult
    <3>2. BilledBy(w) = {} /\ Cardinality(BilledBy(w)) = 0
      BY <1>1, <2>3, <3>1, BilledIsFinite DEF Counted
    <3>3. Len(outs[w]) = 0
      BY <2>3
    <3>4. MemoryTracksStage(w)'
      BY <1>3, <2>1, <2>2, <2>3, <2>4 DEF MemoryTracksStage
    <3>5. TableTracksCounts(w)'
      BY <1>1, <1>3, <2>1, <2>2, <2>4, <3>2, <3>3 DEF TableTracksCounts, Counted
    <3> QED
      BY <3>4, <3>5
  <2>5. CASE pc'[w] \in {"complete", "fail"}
    BY <1>2, <1>3, <2>1, <2>2, <2>3, <2>5 DEF MemoryTracksStage, TableTracksCounts, Counted
  <2> QED
    BY <2>2, <2>4, <2>5
<1>12. CASE Complete(w)
  <2>1. pc[w] = "complete" /\ pc'[w] \in {"done", "fail"}
    BY <1>1, <1>12 DEF Complete, Applied, Errored, TypeOK
  <2> QED
    BY <1>1, <1>2, <1>3, <2>1 DEF MemoryTracksStage, TableTracksCounts, Counted
<1> QED
  BY <1>5, <1>6, <1>7, <1>8, <1>9, <1>10, <1>11, <1>12 DEF Control

\* A run that does not move, or dies.
LEMMA UnmovedKeeps ==
    ASSUME PipelineInv, NEW v \in Workflows,
           UNCHANGED <<tables, memory, progress, result>>,
           row'[v] = row[v], stage'[v] = stage[v], pc'[v] \in {pc[v], "gone"}
    PROVE  MemoryTracksStage(v)' /\ TableTracksCounts(v)'
<1>1. /\ IndInv /\ MemoryTracksStage(v) /\ TableTracksCounts(v)
      /\ result' = result
  BY DEF PipelineInv
<1>2. /\ Untouched(v)' <=> Untouched(v)
      /\ Fetching(v)' <=> Fetching(v)
      /\ \A s \in {2, 3, 4, 5} : Working(v, s)' <=> Working(v, s)
      /\ BilledBy(v)' = BilledBy(v)
      /\ outs'[v] = outs[v] /\ tally'[v] = tally[v]
  BY SameMemory
<1>3. pc[v] \in {"mark", "exec", "save"} => stage[v] \in {1, 2, 3, 4, 5}
  BY <1>1, RunningStage, StageNumbers
<1>4. MemoryTracksStage(v)'
  BY <1>1, <1>2, <1>3, StageNumbers DEF MemoryTracksStage
<1>5. TableTracksCounts(v)'
  BY <1>1, <1>2 DEF TableTracksCounts, Counted
<1> QED
  BY <1>4, <1>5

(***************************************************************************)
(* Requests, repository calls, stage errors and crashes: no table of the   *)
(* stages and no memory of a run changes with them.                        *)
(***************************************************************************)
LEMMA AroundInv ==
    ASSUME PipelineInv, Around, IndInv'
    PROVE  PipelineInv'
<1>1. TypeOK /\ UNCHANGED <<tables, memory, progress>> /\ result' = result
  BY DEF PipelineInv, IndInv, Around, Crash, Finished, vars, RejectStart, CreateQueued, Control,
         Dispatch, DispatchRefused, FailStart, MarkRunning, StageErrors, SaveStageProgress,
         Complete, FailWorkflow
<1>2. PipelineTypes' /\ BillingsAreSound' /\ BillingsAreComplete'
  BY <1>1 DEF PipelineInv, PipelineTypes, BillingsAreSound, BillingsAreComplete, tables, memory,
              progress
<1>3. \A v \in Workflows : OwnsCreated(v)'
  BY <1>1, SameMemory DEF PipelineInv
<1>4. ASSUME NEW w \in Workflows, RejectStart(w) \/ CreateQueued(w) \/ Control(w),
             NEW v \in Workflows
      PROVE  MemoryTracksStage(v)' /\ TableTracksCounts(v)'
  <2>1. CASE v = w
    BY <1>1, <1>4, <2>1, ControlKeeps
  <2>2. CASE v # w
    <3>1. row'[v] = row[v] /\ stage'[v] = stage[v] /\ pc'[v] = pc[v]
      BY <1>1, <1>4, <2>2
         DEF RejectStart, CreateQueued, Control, Dispatch, DispatchRefused, FailStart,
             MarkRunning, StageErrors, SaveStageProgress, Complete, FailWorkflow, Applied,
             Errored, TypeOK
    <3> QED
      BY <1>1, <3>1, UnmovedKeeps
  <2> QED
    BY <2>1, <2>2
<1>5. ASSUME Crash \/ Finished, NEW v \in Workflows
      PROVE  MemoryTracksStage(v)' /\ TableTracksCounts(v)'
  <2>1. row'[v] = row[v] /\ stage'[v] = stage[v] /\ pc'[v] \in {pc[v], "gone"}
    BY <1>5 DEF Crash, Finished, vars
  <2> QED
    BY <1>1, <2>1, UnmovedKeeps
<1>6. \A v \in Workflows : MemoryTracksStage(v)' /\ TableTracksCounts(v)'
  BY <1>4, <1>5 DEF Around
<1> QED
  BY <1>2, <1>3, <1>6 DEF PipelineInv

-----------------------------------------------------------------------------
(* Steps of the stages.                                                     *)

\* The tables and what a run has created only grow.
TablesGrow ==
    /\ \A m \in Messages : emails[m] # NoRun => emails'[m] = emails[m]
    /\ parsed \subseteq parsed' /\ billings \subseteq billings'
    /\ \A v \in Workflows : created[v] \subseteq created'[v]

\* A step inside a stage of run w.
WorkOf(w) ==
    /\ UNCHANGED vars /\ pc[w] = "exec" /\ TablesGrow /\ PipelineTypes'
    /\ \A v \in Workflows \ {w} :
         /\ created'[v] = created[v] /\ known'[v] = known[v] /\ todo'[v] = todo[v]
         /\ outs'[v] = outs[v] /\ tally'[v] = tally[v] /\ step'[v] = step[v]
         /\ BilledBy(v)' = BilledBy(v)

LEMMA InputsGrow ==
    ASSUME TablesGrow, NEW v \in Workflows, NEW s \in {2, 3, 4, 5, 6}
    PROVE  Inputs(v, s) \subseteq Inputs(v, s)'
<1>1. Analyzed(v) \subseteq Analyzed(v)'
  BY DEF TablesGrow, Analyzed
<1>2. CASE s = 2
  BY <1>2 DEF Inputs, TablesGrow
<1>3. CASE s = 3
  BY <1>1, <1>3 DEF Inputs
<1>4. CASE s = 4
  BY <1>1, <1>4 DEF Inputs
<1>5. CASE s = 5
  BY <1>1, <1>5 DEF Inputs
<1>6. CASE s = 6
  BY <1>6 DEF Inputs, TablesGrow
<1> QED
  BY <1>2, <1>3, <1>4, <1>5, <1>6

\* The other runs do not notice.
LEMMA OthersKeep ==
    ASSUME PipelineInv, NEW w \in Workflows, WorkOf(w), NEW v \in Workflows \ {w}
    PROVE  OwnsCreated(v)' /\ MemoryTracksStage(v)' /\ TableTracksCounts(v)'
<1>1. /\ IndInv /\ OwnsCreated(v) /\ MemoryTracksStage(v) /\ TableTracksCounts(v)
      /\ row' = row /\ pc' = pc /\ stage' = stage /\ result' = result
      /\ created'[v] = created[v] /\ known'[v] = known[v] /\ todo'[v] = todo[v]
      /\ outs'[v] = outs[v] /\ tally'[v] = tally[v] /\ step'[v] = step[v]
      /\ BilledBy(v)' = BilledBy(v)
  BY DEF PipelineInv, WorkOf, vars
<1>2. OwnsCreated(v)'
  <2>1. created[v] \subseteq Messages
    BY DEF PipelineInv, PipelineTypes
  <2>2. v # NoRun
    BY PipelineAssumption
  <2> QED
    BY <1>1, <2>1, <2>2 DEF OwnsCreated, WorkOf, TablesGrow
<1>3. Untouched(v)' <=> Untouched(v)
  BY <1>1 DEF Untouched
<1>4. Fetching(v)' <=> Fetching(v)
  BY <1>1, <1>3 DEF Fetching
<1>5. ASSUME NEW s \in {2, 3, 4, 5}, Working(v, s) PROVE Working(v, s)'
  <2>1. Inputs(v, s) \subseteq Inputs(v, s)' /\ Inputs(v, s + 1) \subseteq Inputs(v, s + 1)'
    BY InputsGrow DEF WorkOf
  <2>2. todo[v] \in Seq(Inputs(v, s)') /\ outs[v] \in Seq(Inputs(v, s + 1)')
    BY <1>5, <2>1, SeqMonotonic DEF Working
  <2> QED
    BY <1>1, <1>5, <2>2 DEF Working
<1>6. pc[v] \in {"mark", "exec", "save"} => stage[v] \in {1, 2, 3, 4, 5}
  BY <1>1, RunningStage, StageNumbers
<1>7. MemoryTracksStage(v)'
  BY <1>1, <1>3, <1>4, <1>5, <1>6, StageNumbers DEF MemoryTracksStage
<1>8. TableTracksCounts(v)'
  BY <1>1 DEF TableTracksCounts, Counted
<1> QED
  BY <1>2, <1>7, <1>8

\* So it is enough to look at the tables and at the run itself.
LEMMA WorkInv ==
    ASSUME PipelineInv, NEW w \in Workflows, WorkOf(w),
           BillingsAreSound', BillingsAreComplete', OwnsCreated(w)',
           IF stage[w] = 1 THEN Fetching(w)' ELSE Working(w, stage[w])',
           IF stage[w] = 5 THEN Counted(w, Len(outs[w]), tally[w].tech)' ELSE BilledBy(w)' = {}
    PROVE  PipelineInv'
<1>1. IndInv /\ row' = row /\ pc' = pc /\ stage' = stage /\ result' = result /\ pc[w] = "exec"
  BY DEF PipelineInv, WorkOf, vars
<1>2. IndInv' /\ PipelineTypes'
  BY <1>1 DEF WorkOf, IndInv, TypeOK
<1>3. row[w].status \notin Completed /\ stage[w] \in {1, 2, 3, 4, 5}
  BY <1>1, RunningStage, StageNumbers
<1>4. MemoryTracksStage(w)'
  BY <1>1, <1>3, StageNumbers DEF MemoryTracksStage
<1>5. TableTracksCounts(w)'
  BY <1>1, <1>3, StageNumbers DEF TableTracksCounts
<1>6. \A v \in Workflows : OwnsCreated(v)' /\ MemoryTracksStage(v)' /\ TableTracksCounts(v)'
  BY <1>4, <1>5, OthersKeep
<1> QED
  BY <1>2, <1>6 DEF PipelineInv

\* While no billing is stored, what is said of the billings stays true.
LEMMA BillingsKept ==
    ASSUME PipelineInv, TablesGrow, billings' = billings
    PROVE  /\ BillingsAreSound' /\ BillingsAreComplete'
           /\ \A v \in Workflows : BilledBy(v)' = BilledBy(v)
<1>1. ASSUME NEW b \in billings
      PROVE  /\ emails'[b.msg] = emails[b.msg] /\ emails[b.msg] \in Workflows
             /\ emails[b.msg] # NoRun /\ b.msg \in parsed'
             /\ b.msg \in created'[emails[b.msg]]
  <2>1. /\ emails[b.msg] # NoRun /\ b.msg \in parsed /\ b.msg \in created[emails[b.msg]]
        /\ parsed \subseteq Messages /\ emails \in [Messages -> Workflows \union {NoRun}]
    BY DEF PipelineInv, BillingsAreSound, PipelineTypes
  <2> QED
    BY <2>1 DEF TablesGrow
<1>2. BillingsAreSound'
  BY <1>1 DEF PipelineInv, BillingsAreSound, SameIdentity
<1>3. BillingsAreComplete'
  BY DEF PipelineInv, BillingsAreComplete
<1>4. \A v \in Workflows : BilledBy(v)' = BilledBy(v)
  BY <1>1 DEF BilledBy
<1> QED
  BY <1>2, <1>3, <1>4

\* What holds of a run in the fetch stage.
LEMMA InFetch ==
    ASSUME PipelineInv, NEW w \in Workflows, InStage(w, workflowStageFetch)
    PROVE  /\ pc[w] = "exec" /\ stage[w] = 1 /\ Fetching(w)
           /\ OwnsCreated(w) /\ BilledBy(w) = {}
           /\ created[w] \in SUBSET Messages /\ known[w] \in SUBSET Messages
           /\ tally[w].bus \in Nat /\ tally[w].tech \in Nat
BY StageNumbers
   DEF PipelineInv, PipelineTypes, InStage, MemoryTracksStage, TableTracksCounts

LEMMA FetchInv ==
    ASSUME PipelineInv, NEW w \in Workflows, Fetch(w)
    PROVE  PipelineInv'
<1>1. /\ Fetching(w) /\ OwnsCreated(w) /\ BilledBy(w) = {} /\ pc[w] = "exec" /\ stage[w] = 1
      /\ step[w] = "list"
  BY InFetch DEF Fetch
<1>2. PICK answer \in Answers :
        /\ todo' = [todo EXCEPT ![w] = prepareEmails(answer)]
        /\ tally' = [tally EXCEPT ![w].tech =
                       Cardinality({m \in Messages : answer[m] \in {"failed", "twice"}})]
  BY DEF Fetch
<1>3. /\ step' = [step EXCEPT ![w] = "items"]
      /\ UNCHANGED vars /\ UNCHANGED tables /\ UNCHANGED memory /\ outs' = outs
  BY DEF Fetch
<1>4. PipelineTypes
  BY DEF PipelineInv
<1> DEFINE wanted == {m \in Messages : answer[m] \in {"read", "twice"}}
           failed == {m \in Messages : answer[m] \in {"failed", "twice"}}
<1>5. /\ Cardinality(failed) \in Nat /\ Cardinality(failed) <= Len(Mailbox)
      /\ prepareEmails(answer) \in Seq(Messages) /\ IsInjective(prepareEmails(answer))
      /\ Len(prepareEmails(answer)) \in Nat /\ Len(prepareEmails(answer)) <= Len(Mailbox)
  <2>1. wanted \in SUBSET Messages /\ failed \in SUBSET Messages
    OBVIOUS
  <2> HIDE DEF wanted, failed
  <2>2. /\ InMailboxOrder(wanted) \in Seq(wanted) /\ IsInjective(InMailboxOrder(wanted))
        /\ Len(InMailboxOrder(wanted)) = Cardinality(wanted)
        /\ Cardinality(wanted) \in Nat /\ Cardinality(wanted) <= Len(Mailbox)
    BY <2>1, MessagesInOrder
  <2>3. Cardinality(failed) \in Nat /\ Cardinality(failed) <= Len(Mailbox)
    BY <2>1, MessagesInOrder
  <2>4. InMailboxOrder(wanted) \in Seq(Messages)
    BY <2>1, <2>2, SeqMonotonic
  <2>5. prepareEmails(answer) = InMailboxOrder(wanted)
    BY DEF prepareEmails, wanted
  <2> QED
    BY <2>2, <2>3, <2>4, <2>5
<1>6. /\ todo'[w] = prepareEmails(answer) /\ step'[w] = "items"
      /\ tally'[w].tech = Cardinality(failed) /\ tally'[w].bus = tally[w].bus
  BY <1>2, <1>3, <1>4 DEF PipelineTypes
<1> HIDE DEF wanted, failed
<1>7. WorkOf(w)
  <2>1. PipelineTypes'
    BY <1>2, <1>3, <1>4, <1>5, <1>6 DEF PipelineTypes, tables, memory, failed
  <2>2. TablesGrow
    BY <1>3 DEF TablesGrow, tables, memory
  <2> QED
    BY <1>1, <1>2, <1>3, <1>4, <2>1, <2>2, BillingsKept
       DEF WorkOf, PipelineTypes, tables, memory
<1>8. Fetching(w)'
  <2>1. /\ created[w] = {} /\ known[w] = {} /\ outs[w] = <<>> /\ tally[w].bus = 0
    BY <1>1 DEF Fetching, Untouched, NoTally
  <2>2. /\ created'[w] = {} /\ known'[w] = {} /\ outs'[w] = <<>> /\ tally'[w].bus = 0
    BY <1>3, <1>6, <2>1 DEF memory
  <2>3. Cardinality({}) = 0 /\ Len(<<>>) = 0 /\ <<>> \in Seq({})
    BY FS_EmptySet
  <2> QED
    BY <1>5, <1>6, <2>2, <2>3, MailboxBounds DEF Fetching
<1>9. OwnsCreated(w)' /\ BilledBy(w)' = {}
  BY <1>1, <1>3 DEF OwnsCreated, BilledBy, tables, memory
<1>10. BillingsAreSound' /\ BillingsAreComplete'
  BY <1>3, <1>7, BillingsKept DEF WorkOf, tables
<1> QED
  BY <1>1, <1>7, <1>8, <1>9, <1>10, WorkInv

LEMMA InsertChunkInv ==
    ASSUME PipelineInv, NEW w \in Workflows, InsertChunk(w)
    PROVE  PipelineInv'
<1>1. /\ Fetching(w) /\ OwnsCreated(w) /\ BilledBy(w) = {} /\ pc[w] = "exec" /\ stage[w] = 1
      /\ created[w] \in SUBSET Messages /\ step[w] = "items"
  BY InFetch DEF InsertChunk, AtItem, InStage
<1>2. /\ emails' = [m \in Messages |-> IF m \in Chunk(w) /\ emails[m] = NoRun THEN w ELSE emails[m]]
      /\ step' = [step EXCEPT ![w] = "readback"]
      /\ UNCHANGED vars /\ parsed' = parsed /\ billings' = billings /\ UNCHANGED memory
      /\ todo' = todo /\ outs' = outs /\ tally' = tally
  BY DEF InsertChunk
<1>3. PipelineTypes
  BY DEF PipelineInv
<1>4. TablesGrow
  BY <1>2 DEF TablesGrow, memory
<1>5. PipelineTypes'
  BY <1>2, <1>3 DEF PipelineTypes, memory
<1>6. /\ BillingsAreSound' /\ BillingsAreComplete'
      /\ \A v \in Workflows : BilledBy(v)' = BilledBy(v)
  BY <1>2, <1>4, BillingsKept
<1>7. WorkOf(w)
  BY <1>1, <1>2, <1>3, <1>4, <1>5, <1>6 DEF WorkOf, PipelineTypes, memory
<1>8. Fetching(w)'
  BY <1>1, <1>2, <1>3 DEF Fetching, PipelineTypes, memory
<1>9. OwnsCreated(w)'
  BY <1>1, <1>2, <1>4, PipelineAssumption DEF OwnsCreated, TablesGrow, memory
<1> QED
  BY <1>1, <1>6, <1>7, <1>8, <1>9, WorkInv

\* A chunk of c messages leaves the list; n of them become created, k known
\* and f failed.
LEMMA ChunkIsCounted ==
    ASSUME NEW size \in Nat, NEW left \in Nat, NEW rest \in Nat, NEW out \in Nat,
           NEW seen \in Nat, NEW tech \in Nat, NEW n \in Nat, NEW k \in Nat, NEW f \in Nat,
           left + out <= size, left + out + seen + tech <= 2 * size,
           n + k + f + rest <= left
    PROVE  rest + (out + n) <= size /\ rest + (out + n) + (seen + k) + (tech + f) <= 2 * size
OBVIOUS

LEMMA InsertChunkFailsInv ==
    ASSUME PipelineInv, NEW w \in Workflows, InsertChunkFails(w)
    PROVE  PipelineInv'
<1> DEFINE rest == RestOf(w)
           chunk == Chunk(w)
<1>1. /\ Fetching(w) /\ OwnsCreated(w) /\ BilledBy(w) = {} /\ pc[w] = "exec" /\ stage[w] = 1
      /\ step[w] = "items" /\ known[w] \in SUBSET Messages
      /\ tally[w].tech \in Nat /\ tally[w].bus \in Nat
  BY InFetch DEF InsertChunkFails, AtItem, InStage
<1>2. /\ tally' = [tally EXCEPT ![w].tech = @ + Cardinality(chunk)]
      /\ todo' = [todo EXCEPT ![w] = rest]
      /\ UNCHANGED vars /\ UNCHANGED tables /\ UNCHANGED memory /\ outs' = outs /\ step' = step
  BY DEF InsertChunkFails, AfterChunk, RestOf
<1>3. PipelineTypes
  BY DEF PipelineInv
<1>4. /\ todo[w] \in Seq(Messages) /\ IsInjective(todo[w])
      /\ \A i \in DOMAIN todo[w] : todo[w][i] \notin created[w] \union known[w]
      /\ outs[w] \in Seq(created[w]) /\ tally[w].bus = 0
      /\ Len(todo[w]) + Len(outs[w]) <= Len(Mailbox)
      /\ Len(todo[w]) + Len(outs[w]) + Cardinality(known[w]) + tally[w].tech <= 2 * Len(Mailbox)
  BY <1>1 DEF Fetching
<1>5. /\ rest \in Seq(Messages) /\ IsInjective(rest)
      /\ \A i \in DOMAIN rest : \E j \in DOMAIN todo[w] : rest[i] = todo[w][j]
      /\ Cardinality(chunk) \in Nat /\ Cardinality(chunk) + Len(rest) <= Len(todo[w])
  BY <1>4, ChunkIsTaken
<1> HIDE DEF rest, chunk
<1>6. /\ Len(rest) \in Nat /\ Len(todo[w]) \in Nat /\ Len(outs[w]) \in Nat
      /\ Cardinality(known[w]) \in Nat
  BY <1>1, <1>4, <1>5, LenProperties, MessagesAreFinite
<1>7. /\ todo'[w] = rest /\ step'[w] = "items" /\ outs'[w] = outs[w]
      /\ tally'[w].tech = tally[w].tech + Cardinality(chunk) /\ tally'[w].bus = tally[w].bus
  BY <1>1, <1>2, <1>3 DEF PipelineTypes
<1>8. TablesGrow
  BY <1>2 DEF TablesGrow, tables, memory
<1>9. PipelineTypes'
  <2>1. tally[w].tech + Cardinality(chunk) \in Nat
    BY <1>1, <1>5
  <2>2. tally' \in [Workflows -> [bus : Nat, tech : Nat]]
    BY <1>2, <1>3, <2>1 DEF PipelineTypes
  <2> QED
    BY <1>2, <1>3, <2>2 DEF PipelineTypes, tables, memory
<1>10. /\ BillingsAreSound' /\ BillingsAreComplete'
       /\ \A v \in Workflows : BilledBy(v)' = BilledBy(v)
  BY <1>2, <1>8, BillingsKept DEF tables
<1>11. WorkOf(w)
  BY <1>1, <1>2, <1>3, <1>8, <1>9, <1>10 DEF WorkOf, PipelineTypes, memory
<1>12. Fetching(w)'
  <2>1. \A i \in DOMAIN rest : rest[i] \notin created[w] \union known[w]
    BY <1>4, <1>5
  <2>2. /\ Len(rest) + Len(outs[w]) <= Len(Mailbox)
        /\ Len(rest) + Len(outs[w]) + Cardinality(known[w]) + (tally[w].tech + Cardinality(chunk))
             <= 2 * Len(Mailbox)
    <3>1. /\ Len(todo[w]) + Len(outs[w]) <= Len(Mailbox)
          /\ Len(todo[w]) + Len(outs[w]) + Cardinality(known[w]) + tally[w].tech
               <= 2 * Len(Mailbox)
      BY <1>4
    <3>2. Cardinality(chunk) \in Nat /\ Cardinality(chunk) + Len(rest) <= Len(todo[w])
      BY <1>5
    <3>3. tally[w].tech \in Nat /\ Len(Mailbox) \in Nat
      BY <1>1, MailboxBounds
    <3>4. 0 + 0 + Cardinality(chunk) + Len(rest) <= Len(todo[w])
      BY <3>2
    <3>5. /\ Len(rest) + (Len(outs[w]) + 0) <= Len(Mailbox)
          /\ Len(rest) + (Len(outs[w]) + 0) + (Cardinality(known[w]) + 0)
                 + (tally[w].tech + Cardinality(chunk)) <= 2 * Len(Mailbox)
      BY <1>6, <3>1, <3>2, <3>3, <3>4, ChunkIsCounted
    <3> QED
      BY <1>6, <3>5
  <2>3. created'[w] = created[w] /\ known'[w] = known[w]
    BY <1>2 DEF memory
  <2> QED
    BY <1>4, <1>5, <1>7, <2>1, <2>2, <2>3 DEF Fetching
<1>13. OwnsCreated(w)'
  BY <1>1, <1>2 DEF OwnsCreated, tables, memory
<1> QED
  BY <1>1, <1>10, <1>11, <1>12, <1>13, WorkInv

LEMMA DisjointUnion ==
    ASSUME NEW S, NEW T, IsFiniteSet(S), IsFiniteSet(T), S \intersect T = {}
    PROVE  Cardinality(S \union T) = Cardinality(S) + Cardinality(T)
<1>1. Cardinality(S \union T) = Cardinality(S) + Cardinality(T) - Cardinality(S \intersect T)
  BY FS_Union
<1>2. Cardinality(S) \in Nat /\ Cardinality(T) \in Nat /\ Cardinality(S \intersect T) = 0
  BY FS_CardinalityType, FS_EmptySet
<1> QED
  BY <1>1, <1>2

LEMMA ReadBackInv ==
    ASSUME PipelineInv, NEW w \in Workflows, ReadBack(w)
    PROVE  PipelineInv'
<1> DEFINE rest == RestOf(w)
           chunk == Chunk(w)
           mine == {m \in chunk : emails[m] = w}
           back == InMailboxOrder(mine)
<1>1. /\ Fetching(w) /\ OwnsCreated(w) /\ BilledBy(w) = {} /\ pc[w] = "exec" /\ stage[w] = 1
      /\ step[w] = "readback"
      /\ created[w] \in SUBSET Messages /\ known[w] \in SUBSET Messages
      /\ tally[w].tech \in Nat
  BY InFetch DEF ReadBack
<1>2. /\ created' = [created EXCEPT ![w] = @ \union mine]
      /\ known' = [known EXCEPT ![w] = @ \union (chunk \ mine)]
      /\ outs' = [outs EXCEPT ![w] = @ \o back] /\ tally' = tally
      /\ todo' = [todo EXCEPT ![w] = rest]
      /\ step' = [step EXCEPT ![w] = "items"]
      /\ UNCHANGED vars /\ UNCHANGED tables
  BY DEF ReadBack, AfterChunk, RestOf, Emit
<1>3. PipelineTypes
  BY DEF PipelineInv
<1>4. /\ todo[w] \in Seq(Messages) /\ IsInjective(todo[w])
      /\ \A i \in DOMAIN todo[w] : todo[w][i] \notin created[w] \union known[w]
      /\ outs[w] \in Seq(created[w]) /\ tally[w].bus = 0
      /\ Len(todo[w]) + Len(outs[w]) <= Len(Mailbox)
      /\ Len(todo[w]) + Len(outs[w]) + Cardinality(known[w]) + tally[w].tech <= 2 * Len(Mailbox)
  BY <1>1 DEF Fetching
<1>5. /\ rest \in Seq(Messages) /\ IsInjective(rest)
      /\ \A i \in DOMAIN rest : \E j \in DOMAIN todo[w] : rest[i] = todo[w][j]
      /\ \A i \in DOMAIN rest : rest[i] \notin chunk
      /\ chunk \in SUBSET Messages
      /\ Cardinality(chunk) \in Nat /\ Cardinality(chunk) + Len(rest) <= Len(todo[w])
  BY <1>4, ChunkIsTaken
<1>6. \A m \in chunk : m \notin created[w] \union known[w]
  BY <1>4 DEF Chunk
<1>7. mine \in SUBSET Messages /\ mine \in SUBSET chunk /\ \A m \in mine : emails[m] = w
  BY <1>5
<1> HIDE DEF rest, chunk, mine
<1>8. back \in Seq(mine) /\ Len(back) = Cardinality(mine) /\ Cardinality(mine) \in Nat
  BY <1>7, MessagesInOrder
<1> HIDE DEF back
<1>9. /\ Len(rest) \in Nat /\ Len(todo[w]) \in Nat /\ Len(outs[w]) \in Nat
      /\ Cardinality(known[w]) \in Nat
  BY <1>1, <1>4, <1>5, LenProperties, MessagesAreFinite
<1>10. /\ Cardinality(mine) + Cardinality(chunk \ mine) = Cardinality(chunk)
       /\ Cardinality(chunk \ mine) \in Nat
       /\ Cardinality(known[w] \union (chunk \ mine)) = Cardinality(known[w]) + Cardinality(chunk \ mine)
  <2>1. IsFiniteSet(mine) /\ IsFiniteSet(chunk \ mine) /\ IsFiniteSet(known[w])
        /\ Cardinality(chunk \ mine) \in Nat
    BY <1>1, <1>5, <1>7, MessagesAreFinite
  <2>2. /\ mine \union (chunk \ mine) = chunk /\ mine \intersect (chunk \ mine) = {}
        /\ known[w] \intersect (chunk \ mine) = {}
    BY <1>6, <1>7
  <2>3. Cardinality(chunk) = Cardinality(mine) + Cardinality(chunk \ mine)
    BY <2>1, <2>2, DisjointUnion
  <2>4. Cardinality(known[w] \union (chunk \ mine))
          = Cardinality(known[w]) + Cardinality(chunk \ mine)
    BY <2>1, <2>2, DisjointUnion
  <2> QED
    BY <2>1, <2>3, <2>4
<1>11. /\ created'[w] = created[w] \union mine /\ known'[w] = known[w] \union (chunk \ mine)
       /\ outs'[w] = outs[w] \o back /\ todo'[w] = rest /\ step'[w] = "items"
       /\ tally'[w] = tally[w]
  BY <1>2, <1>3 DEF PipelineTypes
<1>12. TablesGrow
  BY <1>2, <1>3 DEF TablesGrow, tables, PipelineTypes
<1>13. PipelineTypes'
  BY <1>1, <1>2, <1>3, <1>5, <1>7 DEF PipelineTypes, tables
<1>14. /\ BillingsAreSound' /\ BillingsAreComplete'
       /\ \A v \in Workflows : BilledBy(v)' = BilledBy(v)
  BY <1>2, <1>12, BillingsKept DEF tables
<1>15. WorkOf(w)
  BY <1>1, <1>2, <1>3, <1>12, <1>13, <1>14 DEF WorkOf, PipelineTypes
<1>16. Fetching(w)'
  <2>1. \A i \in DOMAIN rest : rest[i] \notin created'[w] \union known'[w]
    BY <1>4, <1>5, <1>7, <1>11
  <2>2. outs[w] \in Seq(created'[w]) /\ back \in Seq(created'[w])
    BY <1>4, <1>8, <1>11, SeqMonotonic
  <2>3. outs'[w] \in Seq(created'[w]) /\ Len(outs'[w]) = Len(outs[w]) + Cardinality(mine)
    <3>1. /\ outs[w] \o back \in Seq(created'[w])
          /\ Len(outs[w] \o back) = Len(outs[w]) + Len(back)
      BY <2>2, ConcatProperties
    <3> QED
      BY <1>8, <1>11, <3>1
  <2>4. /\ Len(rest) + Len(outs'[w]) <= Len(Mailbox)
        /\ Len(rest) + Len(outs'[w]) + Cardinality(known'[w]) + tally[w].tech <= 2 * Len(Mailbox)
    <3> DEFINE a == Cardinality(mine)
               b == Cardinality(chunk \ mine)
    <3>1. /\ Len(todo[w]) + Len(outs[w]) <= Len(Mailbox)
          /\ Len(todo[w]) + Len(outs[w]) + Cardinality(known[w]) + tally[w].tech
               <= 2 * Len(Mailbox)
      BY <1>4
    <3>2. a \in Nat /\ b \in Nat /\ a + b + Len(rest) <= Len(todo[w])
      BY <1>5, <1>8, <1>10
    <3>3. tally[w].tech \in Nat /\ Len(Mailbox) \in Nat
      BY <1>1, MailboxBounds
    <3>4. Len(outs'[w]) = Len(outs[w]) + a /\ Cardinality(known'[w]) = Cardinality(known[w]) + b
      BY <1>10, <1>11, <2>3
    <3> HIDE DEF a, b
    <3>5. a + b + 0 + Len(rest) <= Len(todo[w])
      BY <1>9, <3>2
    <3>6. /\ Len(rest) + (Len(outs[w]) + a) <= Len(Mailbox)
          /\ Len(rest) + (Len(outs[w]) + a) + (Cardinality(known[w]) + b) + (tally[w].tech + 0)
               <= 2 * Len(Mailbox)
      BY <1>9, <3>1, <3>2, <3>3, <3>5, ChunkIsCounted
    <3> QED
      BY <3>3, <3>4, <3>6
  <2> QED
    BY <1>4, <1>5, <1>11, <2>1, <2>3, <2>4 DEF Fetching
<1>17. OwnsCreated(w)'
  BY <1>1, <1>2, <1>6, <1>7, <1>11 DEF OwnsCreated, tables
<1> QED
  BY <1>1, <1>14, <1>15, <1>16, <1>17, WorkInv

\* What holds of a run in a later stage that has an item in hand.
LEMMA InWork ==
    ASSUME PipelineInv, NEW w \in Workflows, NEW s \in {2, 3, 4, 5}, AtItem(w, s)
    PROVE  /\ pc[w] = "exec" /\ stage[w] = s /\ Working(w, s) /\ OwnsCreated(w)
           /\ s # 5 => BilledBy(w) = {}
           /\ s = 5 => Counted(w, Len(outs[w]), tally[w].tech)
           /\ tally[w].bus \in Nat /\ tally[w].tech \in Nat /\ Len(outs[w]) \in Nat
           /\ Head(todo[w]) \in Inputs(w, s) /\ Tail(todo[w]) \in Seq(Inputs(w, s))
           /\ Len(todo[w]) \in Nat \ {0} /\ Len(Tail(todo[w])) = Len(todo[w]) - 1
           /\ result[w][s - 1].out \in Nat
<1>1. /\ pc[w] = "exec" /\ stage[w] = s /\ todo[w] # <<>>
  BY DEF AtItem, InStage
<1>2. Working(w, s)
  BY <1>1, StageNumbers DEF PipelineInv, MemoryTracksStage
<1>3. todo[w] \in Seq(Inputs(w, s)) /\ outs[w] \in Seq(Inputs(w, s + 1))
  BY <1>2 DEF Working
<1>4. /\ Head(todo[w]) \in Inputs(w, s) /\ Tail(todo[w]) \in Seq(Inputs(w, s))
      /\ Len(Tail(todo[w])) = Len(todo[w]) - 1
  BY <1>1, <1>3, HeadTailProperties
<1>5. Len(todo[w]) \in Nat \ {0} /\ Len(outs[w]) \in Nat
  BY <1>1, <1>3, LenProperties, EmptySeq
<1>6. result[w][s - 1].out \in Nat
  <2>1. s - 1 \in Stages /\ s - 1 < s
    BY StageNumbers
  <2>2. \A t \in Stages : t < stage[w] => result[w][t].out \in 0..MaxItems
    BY <1>1, RunningStage DEF PipelineInv
  <2> QED
    BY <1>1, <2>1, <2>2
<1>7. tally[w].bus \in Nat /\ tally[w].tech \in Nat /\ OwnsCreated(w)
  BY DEF PipelineInv, PipelineTypes
<1>8. /\ s # 5 => BilledBy(w) = {}
      /\ s = 5 => Counted(w, Len(outs[w]), tally[w].tech)
  BY <1>1, StageNumbers DEF PipelineInv, TableTracksCounts
<1> QED
  BY <1>1, <1>2, <1>4, <1>5, <1>6, <1>7, <1>8

\* One email gives k candidates, at least one, or a failure.
LEMMA EmailIsCounted ==
    ASSUME NEW n \in Nat, NEW todos \in Nat \ {0}, NEW tech \in Nat, NEW out \in Nat,
           NEW most \in Nat, NEW k \in Nat, NEW f \in Nat,
           todos + tech <= n, n <= todos + tech + out, out = 0 <=> todos + tech = n,
           out <= most * (n - (todos + tech)),
           (k = 0 /\ f = 1) \/ (k >= 1 /\ k <= most /\ f = 0)
    PROVE  /\ (todos - 1) + (tech + f) <= n /\ n <= (todos - 1) + (tech + f) + (out + k)
           /\ out + k = 0 <=> (todos - 1) + (tech + f) = n
           /\ out + k <= most * (n - ((todos - 1) + (tech + f)))
<1> DEFINE d == n - (todos + tech)
<1>1. d \in Nat /\ out <= most * d /\ most * d \in Nat
  BY Scaled
<1>2. CASE k = 0 /\ f = 1
  <2>1. (todos - 1) + (tech + f) = todos + tech
    BY <1>2
  <2>2. n - ((todos - 1) + (tech + f)) = d
    BY <1>2
  <2> HIDE DEF d
  <2>3. out + k <= most * (n - ((todos - 1) + (tech + f)))
    BY <1>1, <1>2, <2>2
  <2> QED
    BY <1>2, <2>1, <2>3
<1>3. CASE k >= 1 /\ k <= most /\ f = 0
  <2>1. n - ((todos - 1) + (tech + f)) = d + 1
    BY <1>3
  <2>2. (todos - 1) + (tech + f) < n + 1 /\ n <= (todos - 1) + (tech + f) + (out + k)
    BY <1>3
  <2>3. (todos - 1) + (tech + f) < n
    BY <1>3
  <2> HIDE DEF d
  <2>4. most * (d + 1) = most * d + most
    BY <1>1
  <2>5. out + k <= most * (d + 1)
    BY <1>1, <1>3, <2>4
  <2> QED
    BY <1>3, <2>1, <2>2, <2>3, <2>5
<1> QED
  BY <1>2, <1>3

\* Later stages give each item one outcome: an output or a failure.
LEMMA LaterItemIsCounted ==
    ASSUME NEW n \in Nat, NEW todos \in Nat \ {0}, NEW tech \in Nat, NEW out \in Nat,
           NEW bus \in Nat, NEW k \in Nat, NEW b \in Nat, NEW f \in Nat,
           todos + tech + out + bus = n, k + b + f = 1
    PROVE  (todos - 1) + (tech + f) + (out + k) + (bus + b) = n
OBVIOUS

(***************************************************************************)
(* An item of a later stage gets its outcome: k outputs, b business or f   *)
(* technical failures.                                                     *)
(***************************************************************************)
LEMMA ItemIsCounted ==
    ASSUME PipelineInv, NEW w \in Workflows, NEW s \in {2, 3, 4, 5}, AtItem(w, s),
           NextItem(w), TablesGrow,
           NEW k \in Nat, NEW b \in Nat, NEW f \in Nat,
           outs'[w] \in Seq(Inputs(w, s + 1)'), Len(outs'[w]) = Len(outs[w]) + k,
           tally'[w].bus = tally[w].bus + b, tally'[w].tech = tally[w].tech + f,
           s = 2 => b = 0 /\ ((k = 0 /\ f = 1) \/ (k >= 1 /\ k <= MaxParsed /\ f = 0)),
           s # 2 => k + b + f = 1
    PROVE  Working(w, s)'
<1> DEFINE n == result[w][s - 1].out
           t == Len(todo[w])
           o == Len(outs[w])
           bus == tally[w].bus
           tech == tally[w].tech
<1>1. /\ Working(w, s) /\ n \in Nat /\ t \in Nat \ {0} /\ o \in Nat /\ bus \in Nat /\ tech \in Nat
      /\ Tail(todo[w]) \in Seq(Inputs(w, s)) /\ Len(Tail(todo[w])) = t - 1
  BY InWork
<1>2. todo'[w] = Tail(todo[w]) /\ step' = step /\ result' = result
  BY DEF NextItem, vars, PipelineInv, PipelineTypes
<1>3. todo'[w] \in Seq(Inputs(w, s)') /\ Len(todo'[w]) = t - 1
  <2>1. Inputs(w, s) \subseteq Inputs(w, s)'
    BY InputsGrow
  <2> QED
    BY <1>1, <1>2, <2>1, SeqMonotonic
<1>4. /\ step[w] = "items"
      /\ s = 2 => /\ bus = 0 /\ t + tech <= n /\ n <= t + tech + o /\ n <= Len(Mailbox)
                  /\ o = 0 <=> t + tech = n
                  /\ o <= MaxParsed * (n - (t + tech))
      /\ s > 2 => t + tech + o + bus = n
  BY <1>1, StageNumbers DEF Working
<1>5. /\ Len(outs'[w]) = o + k /\ tally'[w].bus = bus + b /\ tally'[w].tech = tech + f
      /\ result'[w][s - 1].out = n
  BY <1>2
<1> HIDE DEF n, t, o, bus, tech
<1>6. CASE s = 2
  <2>1. MaxParsed \in Nat
    BY MailboxBounds
  <2>2. /\ (t - 1) + (tech + f) <= n /\ n <= (t - 1) + (tech + f) + (o + k)
        /\ o + k = 0 <=> (t - 1) + (tech + f) = n
        /\ o + k <= MaxParsed * (n - ((t - 1) + (tech + f)))
    BY <1>1, <1>4, <1>6, <2>1, EmailIsCounted
  <2>3. bus + b = 0
    BY <1>4, <1>6
  <2> QED
    BY <1>2, <1>3, <1>4, <1>5, <1>6, <2>2, <2>3, StageNumbers DEF Working
<1>7. CASE s # 2
  <2>1. (t - 1) + (tech + f) + (o + k) + (bus + b) = n
    <3>1. t + tech + o + bus = n /\ k + b + f = 1
      BY <1>4, <1>7
    <3> QED
      BY ONLY <1>1, <3>1, LaterItemIsCounted, k \in Nat, b \in Nat, f \in Nat
  <2> QED
    BY <1>2, <1>3, <1>4, <1>5, <1>7, <2>1, StageNumbers DEF Working
<1> QED
  BY <1>6, <1>7

(***************************************************************************)
(* The item in hand is passed on, or is a failure: then it is enough to    *)
(* look at the billings.                                                   *)
(***************************************************************************)
LEMMA ItemInv ==
    ASSUME PipelineInv, NEW w \in Workflows, NEW s \in {2, 3, 4, 5}, AtItem(w, s),
           NextItem(w), TablesGrow, emails' = emails, created' = created, known' = known,
           parsed' \in SUBSET Messages, IsFiniteSet(billings'),
           \/ /\ TechnicalFailure(w)
           \/ /\ s > 2 /\ BusinessFailure(w)
           \/ \E items \in Seq(Inputs(w, s + 1)') :
                 /\ Emit(w, items)
                 /\ s = 2 => Len(items) \in 1..MaxParsed
                 /\ s > 2 => Len(items) = 1,
           BillingsAreSound', BillingsAreComplete',
           \A v \in Workflows \ {w} : BilledBy(v)' = BilledBy(v),
           IF s = 5 THEN Counted(w, Len(outs[w]), tally[w].tech)' ELSE BilledBy(w)' = BilledBy(w)
    PROVE  PipelineInv'
<1>1. /\ pc[w] = "exec" /\ stage[w] = s /\ Working(w, s) /\ OwnsCreated(w)
      /\ s # 5 => BilledBy(w) = {}
      /\ tally[w].bus \in Nat /\ tally[w].tech \in Nat
  BY InWork
<1>2. PipelineTypes
  BY DEF PipelineInv
<1>3. UNCHANGED vars /\ todo' = [todo EXCEPT ![w] = Tail(@)] /\ step' = step
  BY DEF NextItem
<1>4. outs[w] \in Seq(Inputs(w, s + 1)')
  <2>1. Inputs(w, s + 1) \subseteq Inputs(w, s + 1)'
    BY InputsGrow
  <2> QED
    BY <1>1, <2>1, SeqMonotonic DEF Working
<1>5. /\ tally' \in [Workflows -> [bus : Nat, tech : Nat]] /\ DOMAIN outs' = Workflows
      /\ \A v \in Workflows \ {w} : outs'[v] = outs[v] /\ tally'[v] = tally[v]
      /\ Working(w, s)'
  <2>1. CASE TechnicalFailure(w)
    <3>1. tally' = [tally EXCEPT ![w].tech = @ + 1] /\ outs' = outs
      BY <2>1 DEF TechnicalFailure
    <3>2. tally'[w].bus = tally[w].bus + 0 /\ tally'[w].tech = tally[w].tech + 1
      BY <1>1, <1>2, <3>1 DEF PipelineTypes
    <3>3. outs'[w] \in Seq(Inputs(w, s + 1)') /\ Len(outs'[w]) = Len(outs[w]) + 0
      BY <1>4, <3>1, LenProperties
    <3>4. Working(w, s)'
      <4> DEFINE k == 0
                 b == 0
                 f == 1
      <4>1. /\ k \in Nat /\ b \in Nat /\ f \in Nat /\ Len(outs'[w]) = Len(outs[w]) + k
            /\ tally'[w].bus = tally[w].bus + b /\ tally'[w].tech = tally[w].tech + f
            /\ s = 2 => b = 0 /\ k = 0 /\ f = 1
            /\ s # 2 => k + b + f = 1
        BY <3>2, <3>3
      <4> HIDE DEF k, b, f
      <4> QED
        BY <3>3, <4>1, ItemIsCounted
    <3> QED
      BY <1>1, <1>2, <3>1, <3>4 DEF PipelineTypes
  <2>2. CASE s > 2 /\ BusinessFailure(w)
    <3>1. tally' = [tally EXCEPT ![w].bus = @ + 1] /\ outs' = outs
      BY <2>2 DEF BusinessFailure
    <3>2. tally'[w].bus = tally[w].bus + 1 /\ tally'[w].tech = tally[w].tech + 0
      BY <1>1, <1>2, <3>1 DEF PipelineTypes
    <3>3. outs'[w] \in Seq(Inputs(w, s + 1)') /\ Len(outs'[w]) = Len(outs[w]) + 0
      BY <1>4, <3>1, LenProperties
    <3>4. Working(w, s)'
      <4> DEFINE k == 0
                 b == 1
                 f == 0
      <4>1. /\ k \in Nat /\ b \in Nat /\ f \in Nat /\ Len(outs'[w]) = Len(outs[w]) + k
            /\ tally'[w].bus = tally[w].bus + b /\ tally'[w].tech = tally[w].tech + f
            /\ s = 2 => b = 0 /\ k = 0 /\ f = 1
            /\ s # 2 => k + b + f = 1
        BY <2>2, <3>2, <3>3
      <4> HIDE DEF k, b, f
      <4> QED
        BY <3>3, <4>1, ItemIsCounted
    <3> QED
      BY <1>1, <1>2, <3>1, <3>4 DEF PipelineTypes
  <2>3. ASSUME NEW items \in Seq(Inputs(w, s + 1)'), Emit(w, items),
               s = 2 => Len(items) \in 1..MaxParsed, s > 2 => Len(items) = 1
        PROVE  /\ tally' \in [Workflows -> [bus : Nat, tech : Nat]] /\ DOMAIN outs' = Workflows
               /\ \A v \in Workflows \ {w} : outs'[v] = outs[v] /\ tally'[v] = tally[v]
               /\ Working(w, s)'
    <3>1. tally' = tally /\ outs' = [outs EXCEPT ![w] = @ \o items]
      BY <2>3 DEF Emit
    <3>2. outs'[w] = outs[w] \o items
      BY <1>2, <3>1 DEF PipelineTypes
    <3>3. /\ outs'[w] \in Seq(Inputs(w, s + 1)') /\ Len(outs'[w]) = Len(outs[w]) + Len(items)
          /\ Len(items) \in Nat
      BY <1>4, <3>2, ConcatProperties, LenProperties
    <3>4. tally'[w].bus = tally[w].bus + 0 /\ tally'[w].tech = tally[w].tech + 0
      BY <1>1, <3>1
    <3>5. Working(w, s)'
      <4> DEFINE k == Len(items)
      <4>1. /\ k \in Nat /\ Len(outs'[w]) = Len(outs[w]) + k
            /\ s = 2 => k >= 1 /\ k <= MaxParsed
            /\ s # 2 => k + 0 + 0 = 1
        BY <2>3, <3>3, MailboxBounds
      <4> HIDE DEF k
      <4> QED
        BY <3>3, <3>4, <4>1, ItemIsCounted
    <3> QED
      BY <1>2, <3>1, <3>5 DEF PipelineTypes
  <2> QED
    BY <2>1, <2>2, <2>3
<1>6. PipelineTypes'
  BY <1>2, <1>3, <1>5 DEF PipelineTypes
<1>7. WorkOf(w)
  BY <1>1, <1>2, <1>3, <1>5, <1>6 DEF WorkOf, PipelineTypes
<1>8. OwnsCreated(w)'
  BY <1>1 DEF OwnsCreated
<1>9. IF stage[w] = 1 THEN Fetching(w)' ELSE Working(w, stage[w])'
  BY <1>1, <1>3, <1>5 DEF vars
<1>10. IF stage[w] = 5 THEN Counted(w, Len(outs[w]), tally[w].tech)' ELSE BilledBy(w)' = {}
  BY <1>1
<1> QED
  BY <1>7, <1>8, <1>9, <1>10, WorkInv

LEMMA AnalyzeInv ==
    ASSUME PipelineInv, NEW w \in Workflows, Analyze(w)
    PROVE  PipelineInv'
<1> DEFINE m == Head(todo[w])
<1>1. AtItem(w, 2) /\ NextItem(w) /\ emails' = emails /\ billings' = billings
      /\ created' = created /\ known' = known
  BY StageNumbers DEF Analyze, memory
<1>2. PICK k \in 1..MaxParsed : \E drafts \in [1..k -> Drafts] :
        LET items == applyFallbackBillingNumbers(m, NormalizeOutput(drafts)) IN
        SaveAll(m, items) /\ Emit(w, items)
  BY DEF Analyze
<1>3. PICK drafts \in [1..k -> Drafts] :
        LET items == applyFallbackBillingNumbers(m, NormalizeOutput(drafts)) IN
        SaveAll(m, items) /\ Emit(w, items)
  BY <1>2
<1> DEFINE items == applyFallbackBillingNumbers(m, NormalizeOutput(drafts))
<1>4. items # <<>> /\ parsed' = parsed \union {m} /\ Emit(w, items)
  BY <1>3 DEF SaveAll
<1>5. m \in created[w] /\ created[w] \in SUBSET Messages /\ m \in Messages
  <2>1. m \in Inputs(w, 2)
    BY <1>1, InWork
  <2> QED
    BY <2>1 DEF Inputs, PipelineInv, PipelineTypes
<1>6. /\ items \in Seq([msg : {m}, pos : Nat, data : ParsedEmails])
      /\ Len(items) \in Nat /\ Len(items) <= MaxParsed
  BY <1>5, CandidatesOfEmail
<1> HIDE DEF items, m
<1>7. Len(items) \in 1..MaxParsed
  BY <1>4, <1>6, MailboxBounds, EmptySeq
<1>8. items \in Seq(Inputs(w, 3)')
  <2>1. m \in Analyzed(w)'
    BY <1>1, <1>4, <1>5 DEF Analyzed
  <2>2. [msg : {m}, pos : Nat, data : ParsedEmails] \subseteq Inputs(w, 3)'
    BY <2>1 DEF Inputs
  <2> DEFINE T == [msg : {m}, pos : Nat, data : ParsedEmails]
             U == Inputs(w, 3)'
  <2>3. items \in Seq(T) /\ T \subseteq U
    BY <1>6, <2>2
  <2> HIDE DEF T, U
  <2>4. items \in Seq(U)
    BY <2>3, SeqMonotonic
  <2> QED
    BY <2>4 DEF U
<1>9. TablesGrow
  BY <1>1, <1>4 DEF TablesGrow
<1>10. /\ BillingsAreSound' /\ BillingsAreComplete'
       /\ \A v \in Workflows : BilledBy(v)' = BilledBy(v)
  BY <1>1, <1>9, BillingsKept
<1>11. parsed' \in SUBSET Messages /\ IsFiniteSet(billings')
  BY <1>1, <1>4, <1>5 DEF PipelineInv, PipelineTypes
<1> QED
  BY <1>1, <1>4, <1>7, <1>8, <1>9, <1>10, <1>11, ItemInv

LEMMA AnalyzeFailsInv ==
    ASSUME PipelineInv, NEW w \in Workflows, AnalyzeFails(w)
    PROVE  PipelineInv'
<1> DEFINE m == Head(todo[w])
<1>1. /\ AtItem(w, 2) /\ NextItem(w) /\ emails' = emails /\ billings' = billings
      /\ created' = created /\ known' = known /\ TechnicalFailure(w)
      /\ parsed' = parsed \/ parsed' = parsed \union {m}
  BY StageNumbers DEF AnalyzeFails
<1>2. m \in Messages
  <2>1. m \in Inputs(w, 2)
    BY <1>1, InWork
  <2> QED
    BY <2>1 DEF Inputs, PipelineInv, PipelineTypes
<1>3. TablesGrow
  BY <1>1 DEF TablesGrow
<1>4. /\ BillingsAreSound' /\ BillingsAreComplete'
      /\ \A v \in Workflows : BilledBy(v)' = BilledBy(v)
  BY <1>1, <1>3, BillingsKept
<1>5. parsed' \in SUBSET Messages /\ IsFiniteSet(billings')
  BY <1>1, <1>2 DEF PipelineInv, PipelineTypes
<1> QED
  BY <1>1, <1>3, <1>4, <1>5, ItemInv

LEMMA ResolveVendorInv ==
    ASSUME PipelineInv, NEW w \in Workflows, ResolveVendor(w)
    PROVE  PipelineInv'
<1>1. /\ AtItem(w, 3) /\ NextItem(w) /\ emails' = emails /\ billings' = billings
      /\ parsed' = parsed /\ created' = created /\ known' = known
  BY DEF ResolveVendor, tables, memory
<1>2. TablesGrow
  BY <1>1 DEF TablesGrow
<1>3. /\ BillingsAreSound' /\ BillingsAreComplete'
      /\ \A v \in Workflows : BilledBy(v)' = BilledBy(v)
  BY <1>1, <1>2, BillingsKept
<1>4. parsed' \in SUBSET Messages /\ IsFiniteSet(billings')
  BY <1>1 DEF PipelineInv, PipelineTypes
<1>5. ASSUME NEW v \in Vendors, Emit(w, <<EligibilityTarget(v, Head(todo[w]))>>)
      PROVE  \E items \in Seq(Inputs(w, 4)') : Emit(w, items) /\ Len(items) = 1
  <2> DEFINE x == EligibilityTarget(v, Head(todo[w]))
  <2>1. Head(todo[w]) \in [msg : Analyzed(w), pos : Nat, data : ParsedEmails]
    <3>1. Head(todo[w]) \in Inputs(w, 3)
      BY <1>1, InWork
    <3> QED
      BY <3>1 DEF Inputs
  <2>2. x \in Inputs(w, 4)'
    BY <1>1, <2>1 DEF EligibilityTarget, Inputs, Analyzed
  <2> HIDE DEF x
  <2>3. <<x>> \in Seq(Inputs(w, 4)') /\ Len(<<x>>) = 1
    BY <2>2
  <2> QED
    BY <1>5, <2>3 DEF x
<1>6. \/ TechnicalFailure(w) \/ BusinessFailure(w)
      \/ \E items \in Seq(Inputs(w, 4)') : Emit(w, items) /\ Len(items) = 1
  BY <1>5 DEF ResolveVendor
<1> QED
  BY <1>1, <1>2, <1>3, <1>4, <1>6, ItemInv

LEMMA EvaluateEligibilityInv ==
    ASSUME PipelineInv, NEW w \in Workflows, EvaluateEligibility(w)
    PROVE  PipelineInv'
<1> DEFINE target == Head(todo[w])
           data == NormalizeParsedEmail(target.data)
<1>1. /\ AtItem(w, 4) /\ NextItem(w) /\ emails' = emails /\ billings' = billings
      /\ parsed' = parsed /\ created' = created /\ known' = known
  BY DEF EvaluateEligibility, tables, memory
<1>2. TablesGrow
  BY <1>1 DEF TablesGrow
<1>3. /\ BillingsAreSound' /\ BillingsAreComplete'
      /\ \A v \in Workflows : BilledBy(v)' = BilledBy(v)
  BY <1>1, <1>2, BillingsKept
<1>4. parsed' \in SUBSET Messages /\ IsFiniteSet(billings')
  BY <1>1 DEF PipelineInv, PipelineTypes
<1>5. ASSUME Evaluate(data), Emit(w, <<CreationTarget(target, EligibleItem(data))>>)
      PROVE  \E items \in Seq(Inputs(w, 5)') : Emit(w, items) /\ Len(items) = 1
  <2> DEFINE x == CreationTarget(target, EligibleItem(data))
  <2>1. target \in [vendor : Vendors, msg : Analyzed(w), pos : Nat, data : ParsedEmails]
    <3>1. target \in Inputs(w, 4)
      BY <1>1, InWork
    <3> QED
      BY <3>1 DEF Inputs
  <2>2. EligibleItem(data) \in EligibleItems
    <3>1. target.data \in ParsedEmails
      BY <2>1
    <3> QED
      BY <1>5, <3>1, EligibleTarget
  <2> HIDE DEF target, data
  <2>3. x \in Inputs(w, 5)'
    <3>1. x \in [vendor : Vendors, msg : Analyzed(w), pos : Nat, item : EligibleItems]
      BY <2>1, <2>2 DEF CreationTarget
    <3>2. Analyzed(w)' = Analyzed(w)
      BY <1>1 DEF Analyzed
    <3> HIDE DEF x
    <3> QED
      BY <3>1, <3>2 DEF Inputs
  <2> HIDE DEF x
  <2>4. <<x>> \in Seq(Inputs(w, 5)') /\ Len(<<x>>) = 1
    BY <2>3
  <2> QED
    BY <1>5, <2>4 DEF x
<1>6. \/ TechnicalFailure(w) \/ BusinessFailure(w)
      \/ \E items \in Seq(Inputs(w, 5)') : Emit(w, items) /\ Len(items) = 1
  BY <1>5 DEF EvaluateEligibility
<1> QED
  BY <1>1, <1>2, <1>3, <1>4, <1>6, ItemInv

\* A billing in hand, and what it would be as a row.
LEMMA BillingInHand ==
    ASSUME PipelineInv, NEW w \in Workflows, AtItem(w, 5)
    PROVE  LET e == Head(todo[w])
               b == BillingOf(e)
           IN  /\ e.item \in EligibleItems /\ b.billing = NewBilling(e.item) /\ b.msg = e.msg
               /\ b.msg \in created[w] /\ b.msg \in parsed /\ emails[b.msg] = w
<1>1. Head(todo[w]) \in Inputs(w, 5) /\ OwnsCreated(w)
  BY InWork
<1>2. Head(todo[w]) \in [vendor : Vendors, msg : Analyzed(w), pos : Nat, item : EligibleItems]
  BY <1>1 DEF Inputs
<1>3. Head(todo[w]).msg \in created[w] /\ Head(todo[w]).msg \in parsed
  BY <1>2 DEF Analyzed
<1> QED
  BY <1>1, <1>2, <1>3 DEF BillingOf, OwnsCreated

(***************************************************************************)
(* A stored billing: its identity was free, its email is one its run       *)
(* created and analysed, it is complete, and only its run's count grows.   *)
(***************************************************************************)
LEMMA BillingStored ==
    ASSUME PipelineInv, NEW w \in Workflows, AtItem(w, 5), Validate(Head(todo[w]).item),
           \A c \in billings : ~SameIdentity(BillingOf(Head(todo[w])), c),
           billings' = billings \union {BillingOf(Head(todo[w]))},
           emails' = emails, parsed' = parsed, created' = created
    PROVE  /\ BillingsAreSound' /\ BillingsAreComplete' /\ TablesGrow /\ IsFiniteSet(billings')
           /\ \A v \in Workflows \ {w} : BilledBy(v)' = BilledBy(v)
           /\ Cardinality(BilledBy(w)') = Cardinality(BilledBy(w)) + 1
<1> DEFINE e == Head(todo[w])
           b == BillingOf(e)
<1>1. /\ e.item \in EligibleItems /\ b.billing = NewBilling(e.item)
      /\ b.msg \in created[w] /\ b.msg \in parsed /\ emails[b.msg] = w
  BY BillingInHand
<1>2. b.billing.invoice # Nil => b.billing.invoice \in ValidInvoices
  <2>1. NewInvoiceNumber(e.item.invoice) \in ValidInvoices \union {Nil}
    BY DEF Validate
  <2>2. NewBilling(e.item).invoice = NewInvoiceNumber(e.item.invoice)
    BY DEF NewBilling
  <2> QED
    BY <1>1, <2>1, <2>2
<1>3. /\ b.billing.product # Nil /\ DOMAIN b.billing.lineItems # {}
      /\ \A k \in DOMAIN b.billing.lineItems : b.billing.lineItems[k].currency # Nil
  BY <1>1, EligibleItemsBuild
<1>4. (\A c \in billings : ~SameIdentity(b, c)) /\ billings' = billings \union {b}
  OBVIOUS
<1> HIDE DEF b, e
<1>5. b \notin billings
  BY <1>4 DEF SameIdentity
<1>6. TablesGrow
  BY <1>4 DEF TablesGrow
<1>7. BillingsAreSound'
  <2>1. ASSUME NEW c \in billings', NEW d \in billings', SameIdentity(c, d) PROVE c = d
    <3>1. SameIdentity(d, c)
      BY <2>1 DEF SameIdentity
    <3>2. (c \in billings \/ c = b) /\ (d \in billings \/ d = b)
      BY <1>4
    <3> QED
      BY <1>4, <2>1, <3>1, <3>2 DEF PipelineInv, BillingsAreSound
  <2>2. w # NoRun
    BY PipelineAssumption
  <2>3. ASSUME NEW c \in billings'
        PROVE  emails[c.msg] # NoRun /\ c.msg \in parsed /\ c.msg \in created[emails[c.msg]]
    <3>1. CASE c \in billings
      BY <3>1 DEF PipelineInv, BillingsAreSound
    <3>2. CASE c = b
      BY <1>1, <2>2, <3>2
    <3> QED
      BY <1>4, <3>1, <3>2
  <2> QED
    BY <2>1, <2>3 DEF BillingsAreSound, SameIdentity
<1>8. BillingsAreComplete'
  <2> SUFFICES ASSUME NEW c \in billings'
               PROVE  /\ c.billing.product # Nil
                      /\ c.billing.invoice # Nil => c.billing.invoice \in ValidInvoices
                      /\ DOMAIN c.billing.lineItems # {}
                      /\ \A k \in DOMAIN c.billing.lineItems :
                           c.billing.lineItems[k].currency # Nil
    BY DEF BillingsAreComplete
  <2>1. CASE c \in billings
    BY <2>1 DEF PipelineInv, BillingsAreComplete
  <2>2. CASE c = b
    BY <1>2, <1>3, <2>2
  <2> QED
    BY <1>4, <2>1, <2>2
<1>9. \A v \in Workflows \ {w} : BilledBy(v)' = BilledBy(v)
  BY <1>1, <1>4 DEF BilledBy
<1>10. IsFiniteSet(billings) /\ IsFiniteSet(billings')
  <2>1. IsFiniteSet(billings)
    BY DEF PipelineInv, PipelineTypes
  <2> QED
    BY <1>4, <2>1, FS_AddElement
<1>11. Cardinality(BilledBy(w)') = Cardinality(BilledBy(w)) + 1
  <2>1. BilledBy(w)' = BilledBy(w) \union {b} /\ b \notin BilledBy(w)
    BY <1>1, <1>4, <1>5 DEF BilledBy
  <2>2. IsFiniteSet(BilledBy(w))
    BY <1>10, BilledIsFinite
  <2> QED
    BY <2>1, <2>2, FS_AddElement
<1> QED
  BY <1>6, <1>7, <1>8, <1>9, <1>10, <1>11

\* The counts of the billing stage, after a step that stores d billings.
LEMMA CountsFollow ==
    ASSUME PipelineInv, NEW w \in Workflows, AtItem(w, 5),
           NEW d \in {0, 1}, NEW k \in Nat, NEW f \in Nat,
           Cardinality(BilledBy(w)') = Cardinality(BilledBy(w)) + d,
           Len(outs'[w]) = Len(outs[w]) + k, tally'[w].tech = tally[w].tech + f,
           k <= d, d <= k + (IF "lost_reply" \in Faults THEN f ELSE 0)
    PROVE  Counted(w, Len(outs[w]), tally[w].tech)'
<1>1. Counted(w, Len(outs[w]), tally[w].tech) /\ tally[w].tech \in Nat /\ Len(outs[w]) \in Nat
  BY InWork
<1>2. Cardinality(BilledBy(w)) \in Nat
  BY BilledIsFinite DEF PipelineInv, PipelineTypes
<1> DEFINE c == Cardinality(BilledBy(w))
           o == Len(outs[w])
           t == tally[w].tech
<1>3. c \in o..(o + IF "lost_reply" \in Faults THEN t ELSE 0)
  BY <1>1 DEF Counted
<1>4. c \in Nat /\ o \in Nat /\ t \in Nat
  BY <1>1, <1>2
<1>5. /\ Cardinality(BilledBy(w)') = c + d /\ Len(outs'[w]) = o + k /\ tally'[w].tech = t + f
  OBVIOUS
<1> HIDE DEF c, o, t
<1>6. c + d \in (o + k)..((o + k) + IF "lost_reply" \in Faults THEN t + f ELSE 0)
  BY <1>3, <1>4
<1> QED
  BY <1>5, <1>6 DEF Counted

LEMMA NothingStored ==
    ASSUME PipelineInv, NEW w \in Workflows, AtItem(w, 5),
           TechnicalFailure(w) \/ BusinessFailure(w), BilledBy(w)' = BilledBy(w)
    PROVE  Counted(w, Len(outs[w]), tally[w].tech)'
<1> DEFINE z == 0
<1>1. PipelineTypes /\ tally[w].tech \in Nat /\ Len(outs[w]) \in Nat
  BY InWork DEF PipelineInv
<1>2. Cardinality(BilledBy(w)) \in Nat
  BY <1>1, BilledIsFinite DEF PipelineTypes
<1>3. PICK f \in {0, 1} : tally'[w].tech = tally[w].tech + f
  <2>1. tally'[w].tech = tally[w].tech + 1 \/ tally'[w].tech = tally[w].tech
    BY <1>1 DEF TechnicalFailure, BusinessFailure, PipelineTypes
  <2> QED
    BY <1>1, <2>1
<1>4. outs' = outs
  BY DEF TechnicalFailure, BusinessFailure
<1>5. /\ z \in {0, 1} /\ z \in Nat /\ f \in Nat
      /\ Cardinality(BilledBy(w)') = Cardinality(BilledBy(w)) + z
      /\ Len(outs'[w]) = Len(outs[w]) + z
      /\ z <= z /\ z <= z + (IF "lost_reply" \in Faults THEN f ELSE 0)
  BY <1>1, <1>2, <1>3, <1>4
<1> HIDE DEF z
<1> QED
  BY <1>3, <1>5, CountsFollow

LEMMA BillingCounted ==
    ASSUME PipelineInv, NEW w \in Workflows, AtItem(w, 5), tally' = tally,
           Cardinality(BilledBy(w)') = Cardinality(BilledBy(w)) + 1,
           Len(outs'[w]) = Len(outs[w]) + 1
    PROVE  Counted(w, Len(outs[w]), tally[w].tech)'
<1> DEFINE z == 0
           o == 1
<1>1. tally[w].tech \in Nat
  BY InWork
<1>2. /\ z \in Nat /\ o \in {0, 1} /\ o \in Nat /\ tally'[w].tech = tally[w].tech + z
      /\ Cardinality(BilledBy(w)') = Cardinality(BilledBy(w)) + o
      /\ Len(outs'[w]) = Len(outs[w]) + o
      /\ o <= o /\ o <= o + (IF "lost_reply" \in Faults THEN z ELSE 0)
  BY <1>1
<1> HIDE DEF z, o
<1> QED
  BY <1>2, CountsFollow

LEMMA BillingFailed ==
    ASSUME PipelineInv, NEW w \in Workflows, AtItem(w, 5), TechnicalFailure(w),
           "lost_reply" \in Faults,
           Cardinality(BilledBy(w)') = Cardinality(BilledBy(w)) + 1
    PROVE  Counted(w, Len(outs[w]), tally[w].tech)'
<1> DEFINE z == 0
           o == 1
<1>1. PipelineTypes /\ tally[w].tech \in Nat /\ Len(outs[w]) \in Nat
  BY InWork DEF PipelineInv
<1>2. tally'[w].tech = tally[w].tech + 1 /\ outs' = outs
  BY <1>1 DEF TechnicalFailure, PipelineTypes
<1>3. /\ z \in Nat /\ o \in {0, 1} /\ o \in Nat /\ tally'[w].tech = tally[w].tech + o
      /\ Cardinality(BilledBy(w)') = Cardinality(BilledBy(w)) + o
      /\ Len(outs'[w]) = Len(outs[w]) + z
      /\ z <= o /\ o <= z + (IF "lost_reply" \in Faults THEN o ELSE 0)
  BY <1>1, <1>2
<1> HIDE DEF z, o
<1> QED
  BY <1>3, CountsFollow

LEMMA BuildBillingFailsInv ==
    ASSUME PipelineInv, NEW w \in Workflows, BuildBillingFails(w)
    PROVE  PipelineInv'
<1>1. /\ AtItem(w, 5) /\ NextItem(w) /\ emails' = emails /\ billings' = billings
      /\ parsed' = parsed /\ created' = created /\ known' = known /\ TechnicalFailure(w)
  BY StageNumbers DEF BuildBillingFails, tables, memory
<1>2. TablesGrow
  BY <1>1 DEF TablesGrow
<1>3. /\ BillingsAreSound' /\ BillingsAreComplete'
      /\ \A v \in Workflows : BilledBy(v)' = BilledBy(v)
  BY <1>1, <1>2, BillingsKept
<1>4. parsed' \in SUBSET Messages /\ IsFiniteSet(billings')
  BY <1>1 DEF PipelineInv, PipelineTypes
<1>5. Counted(w, Len(outs[w]), tally[w].tech)'
  BY <1>1, <1>3, NothingStored
<1> QED
  BY <1>1, <1>2, <1>3, <1>4, <1>5, ItemInv

LEMMA SaveIfAbsentInv ==
    ASSUME PipelineInv, NEW w \in Workflows, SaveIfAbsent(w)
    PROVE  PipelineInv'
<1> DEFINE b == BillingOf(Head(todo[w]))
<1>1. /\ AtItem(w, 5) /\ NextItem(w) /\ emails' = emails /\ parsed' = parsed
      /\ created' = created /\ known' = known /\ Validate(Head(todo[w]).item)
  BY StageNumbers DEF SaveIfAbsent, memory
<1>2. parsed' \in SUBSET Messages /\ PipelineTypes
  BY <1>1 DEF PipelineInv, PipelineTypes
<1>3. CASE billings' = billings /\ BusinessFailure(w)
  <2>1. TablesGrow
    BY <1>1, <1>3 DEF TablesGrow
  <2>2. /\ BillingsAreSound' /\ BillingsAreComplete'
        /\ \A v \in Workflows : BilledBy(v)' = BilledBy(v)
    BY <1>3, <2>1, BillingsKept
  <2>3. Counted(w, Len(outs[w]), tally[w].tech)'
    BY <1>1, <1>3, <2>2, NothingStored
  <2>4. IsFiniteSet(billings')
    BY <1>2, <1>3 DEF PipelineTypes
  <2> QED
    BY <1>1, <1>2, <1>3, <2>1, <2>2, <2>3, <2>4, ItemInv
<1>4. CASE /\ \A c \in billings : ~SameIdentity(b, c)
           /\ billings' = billings \union {b} /\ Emit(w, <<b>>)
  <2>1. /\ BillingsAreSound' /\ BillingsAreComplete' /\ TablesGrow /\ IsFiniteSet(billings')
        /\ \A v \in Workflows \ {w} : BilledBy(v)' = BilledBy(v)
        /\ Cardinality(BilledBy(w)') = Cardinality(BilledBy(w)) + 1
    BY <1>1, <1>4, BillingStored
  <2>2. tally' = tally /\ outs'[w] = outs[w] \o <<b>>
    BY <1>2, <1>4 DEF Emit, PipelineTypes
  <2>3. b \in billings'
    BY <1>4
  <2>4. Emit(w, <<b>>)
    BY <1>4
  <2> HIDE DEF b
  <2>5. /\ <<b>> \in Seq(Inputs(w, 5 + 1)') /\ Len(<<b>>) = 1
    <3>1. Inputs(w, 5 + 1)' = billings'
      BY DEF Inputs
    <3> QED
      BY <2>3, <3>1
  <2>6. Len(outs'[w]) = Len(outs[w]) + 1
    <3>1. outs[w] \in Seq(Inputs(w, 6))
      <4>1. Working(w, 5)
        BY <1>1, InWork
      <4> QED
        BY <4>1 DEF Working
    <3>2. outs[w] \in Seq(billings) /\ <<b>> \in Seq({b})
      BY <3>1 DEF Inputs
    <3> QED
      BY <2>2, <3>2
  <2>7. Counted(w, Len(outs[w]), tally[w].tech)'
    BY <1>1, <2>1, <2>2, <2>6, BillingCounted
  <2>8. \E items \in Seq(Inputs(w, 5 + 1)') : Emit(w, items) /\ Len(items) = 1
    BY <2>4, <2>5
  <2> QED
    BY <1>1, <1>2, <2>1, <2>7, <2>8, ItemInv
<1> QED
  BY <1>3, <1>4 DEF SaveIfAbsent

LEMMA SaveBillingFailsInv ==
    ASSUME PipelineInv, NEW w \in Workflows, SaveBillingFails(w)
    PROVE  PipelineInv'
<1> DEFINE b == BillingOf(Head(todo[w]))
<1>1. /\ AtItem(w, 5) /\ NextItem(w) /\ emails' = emails /\ parsed' = parsed
      /\ created' = created /\ known' = known /\ Validate(Head(todo[w]).item)
      /\ TechnicalFailure(w)
  BY StageNumbers DEF SaveBillingFails, memory
<1>2. parsed' \in SUBSET Messages /\ PipelineTypes
  BY <1>1 DEF PipelineInv, PipelineTypes
<1>3. CASE billings' = billings
  <2>1. TablesGrow
    BY <1>1, <1>3 DEF TablesGrow
  <2>2. /\ BillingsAreSound' /\ BillingsAreComplete'
        /\ \A v \in Workflows : BilledBy(v)' = BilledBy(v)
    BY <1>3, <2>1, BillingsKept
  <2>3. Counted(w, Len(outs[w]), tally[w].tech)'
    BY <1>1, <2>2, NothingStored
  <2>4. IsFiniteSet(billings')
    BY <1>2, <1>3 DEF PipelineTypes
  <2> QED
    BY <1>1, <1>2, <2>1, <2>2, <2>3, <2>4, ItemInv
<1>4. CASE /\ "lost_reply" \in Faults /\ \A c \in billings : ~SameIdentity(b, c)
           /\ billings' = billings \union {b}
  <2>1. /\ BillingsAreSound' /\ BillingsAreComplete' /\ TablesGrow /\ IsFiniteSet(billings')
        /\ \A v \in Workflows \ {w} : BilledBy(v)' = BilledBy(v)
        /\ Cardinality(BilledBy(w)') = Cardinality(BilledBy(w)) + 1
    BY <1>1, <1>4, BillingStored
  <2>2. Counted(w, Len(outs[w]), tally[w].tech)'
    BY <1>1, <1>4, <2>1, BillingFailed
  <2> QED
    BY <1>1, <1>2, <2>1, <2>2, ItemInv
<1> QED
  BY <1>3, <1>4 DEF SaveBillingFails

\* A run that keeps its memory while the tables stay as they are.
LEMMA SameRun ==
    ASSUME PipelineInv, NEW v \in Workflows, UNCHANGED <<tables, memory>>,
           todo'[v] = todo[v], outs'[v] = outs[v], tally'[v] = tally[v], step'[v] = step[v],
           row'[v] = row[v], pc'[v] = pc[v], stage'[v] = stage[v], result'[v] = result[v]
    PROVE  MemoryTracksStage(v)' /\ TableTracksCounts(v)'
<1>1. /\ MemoryTracksStage(v) /\ TableTracksCounts(v)
      /\ emails' = emails /\ parsed' = parsed /\ billings' = billings
      /\ created' = created /\ known' = known
  BY DEF PipelineInv, tables, memory
<1>2. (Untouched(v)' <=> Untouched(v)) /\ BilledBy(v)' = BilledBy(v)
  BY <1>1 DEF Untouched, BilledBy
<1>3. Fetching(v)' <=> Fetching(v)
  BY <1>1, <1>2 DEF Fetching
<1>4. \A s \in {2, 3, 4, 5} : Working(v, s)' <=> Working(v, s)
  <2>1. \A s : Inputs(v, s)' = Inputs(v, s)
    BY <1>1 DEF Inputs, Analyzed
  <2> QED
    BY <2>1 DEF Working
<1>5. pc[v] \in {"mark", "exec", "save"} => stage[v] \in {1, 2, 3, 4, 5}
  BY RunningStage, StageNumbers DEF PipelineInv
<1>6. MemoryTracksStage(v)'
  BY <1>1, <1>2, <1>3, <1>4, <1>5, StageNumbers DEF MemoryTracksStage
<1>7. TableTracksCounts(v)'
  BY <1>1, <1>2 DEF TableTracksCounts, Counted
<1> QED
  BY <1>6, <1>7

(***************************************************************************)
(* A stage returns: what it counted becomes its result, what it produced   *)
(* the inputs of the next one.                                             *)
(***************************************************************************)
LEMMA ReturnResultInv ==
    ASSUME PipelineInv, NEW w \in Workflows, ReturnResult(w), IndInv'
    PROVE  PipelineInv'
<1> DEFINE s == stage[w]
           r == [out |-> Len(outs[w]),
                 seen |-> IF s = workflowStageFetch THEN Cardinality(known[w]) ELSE 0,
                 bus |-> tally[w].bus, tech |-> tally[w].tech]
<1> USE StageNumbers
<1>1. /\ IndInv /\ TypeOK /\ PipelineTypes /\ MemoryTracksStage(w) /\ TableTracksCounts(w)
  BY DEF PipelineInv, IndInv
<1>2. /\ todo[w] = <<>> /\ step[w] = "items" /\ pc[w] = "exec"
      /\ result' = [result EXCEPT ![w][s] = r] /\ pc' = [pc EXCEPT ![w] = "save"]
      /\ row' = row /\ stage' = stage
      /\ todo' = [todo EXCEPT ![w] = outs[w]] /\ outs' = [outs EXCEPT ![w] = <<>>]
      /\ tally' = [tally EXCEPT ![w] = NoTally] /\ step' = step
      /\ UNCHANGED <<tables, memory>>
  BY DEF ReturnResult, StageReturns
<1>3. /\ s \in Stages /\ s \in {1, 2, 3, 4, 5} /\ row[w].status \notin Completed
      /\ \A t \in Stages : t > s => result[w][t] = NoResult
  BY <1>1, <1>2, RunningStage
<1>4. /\ r.out = Len(outs[w]) /\ r.tech = tally[w].tech
      /\ todo'[w] = outs[w] /\ outs'[w] = <<>> /\ step'[w] = "items" /\ pc'[w] = "save"
      /\ tally'[w].bus = 0 /\ tally'[w].tech = 0
      /\ stage'[w] = s
      /\ result'[w][s] = r /\ \A t \in Stages \ {s} : result'[w][t] = result[w][t]
  BY <1>1, <1>2, <1>3 DEF PipelineTypes, NoTally, TypeOK
<1> HIDE DEF r
<1>5. PipelineTypes'
  <2>1. tally' \in [Workflows -> [bus : Nat, tech : Nat]]
    BY <1>1, <1>2 DEF PipelineTypes, NoTally
  <2> QED
    BY <1>1, <1>2, <2>1 DEF PipelineTypes, tables, memory
<1>6. BillingsAreSound' /\ BillingsAreComplete' /\ BilledBy(w)' = BilledBy(w)
  BY <1>2 DEF PipelineInv, BillingsAreSound, BillingsAreComplete, BilledBy, tables, memory
<1>7. \A v \in Workflows : OwnsCreated(v)'
  BY <1>2 DEF PipelineInv, OwnsCreated, tables, memory
<1>8. ASSUME NEW v \in Workflows, v # w PROVE MemoryTracksStage(v)' /\ TableTracksCounts(v)'
  <2>1. /\ todo'[v] = todo[v] /\ outs'[v] = outs[v] /\ tally'[v] = tally[v]
        /\ step'[v] = step[v] /\ row'[v] = row[v] /\ pc'[v] = pc[v]
        /\ stage'[v] = stage[v] /\ result'[v] = result[v]
    BY <1>1, <1>2, <1>8 DEF PipelineTypes, TypeOK
  <2> QED
    BY <1>2, <2>1, SameRun
<1>9. IF s = 1 THEN Fetching(w) ELSE Working(w, s)
  BY <1>1, <1>2 DEF MemoryTracksStage
<1>10. /\ outs[w] \in Seq(Inputs(w, s + 1)) /\ Len(outs[w]) \in Nat
       /\ s = 1 => Len(outs[w]) <= Len(Mailbox)
  <2>1. CASE s = 1
    <3>1. outs[w] \in Seq(created[w]) /\ Len(todo[w]) + Len(outs[w]) <= Len(Mailbox)
      BY <1>2, <1>9, <2>1 DEF Fetching
    <3>2. Len(outs[w]) \in Nat /\ Len(todo[w]) = 0
      BY <1>2, <3>1, LenProperties
    <3> QED
      BY <2>1, <3>1, <3>2, MailboxBounds DEF Inputs
  <2>2. CASE s # 1
    <3>1. outs[w] \in Seq(Inputs(w, s + 1))
      BY <1>9, <2>2 DEF Working
    <3> QED
      BY <2>2, <3>1, LenProperties
  <2> QED
    BY <2>1, <2>2
<1>11. ASSUME NEW u \in {2, 3, 4, 5}, u = s + 1 PROVE Working(w, u)'
  <2> DEFINE o == Len(outs[w])
  <2>1. u - 1 = s
    BY <1>3, <1>11
  <2>2. \A t : Inputs(w, t)' = Inputs(w, t)
    BY <1>2 DEF Inputs, Analyzed, tables, memory
  <2>3. todo'[w] \in Seq(Inputs(w, u)') /\ outs'[w] \in Seq(Inputs(w, u + 1)')
    BY <1>4, <1>10, <1>11, <2>2
  <2>4. /\ result'[w][u - 1].out = o /\ Len(todo'[w]) + tally'[w].tech = o
        /\ Len(outs'[w]) = 0 /\ o \in Nat
    BY <1>4, <1>10, <2>1
  <2>5. u = 2 => o <= Len(Mailbox)
    BY <1>10, <2>1
  <2>6. MaxParsed * (o - o) = 0
    BY <2>4, MailboxBounds
  <2> HIDE DEF o
  <2> QED
    BY <1>4, <2>3, <2>4, <2>5, <2>6 DEF Working
<1>12. MemoryTracksStage(w)'
  BY <1>2, <1>3, <1>4, <1>11 DEF MemoryTracksStage
<1>13. Counted(w, result[w][5].out, result[w][5].tech)'
  <2>1. CASE s = 5
    <3>1. Counted(w, Len(outs[w]), tally[w].tech)
      BY <1>1, <1>2, <2>1 DEF TableTracksCounts
    <3>2. result'[w][5].out = Len(outs[w]) /\ result'[w][5].tech = tally[w].tech
      BY <1>4, <2>1
    <3> QED
      BY <1>6, <3>1, <3>2 DEF Counted
  <2>2. CASE s # 5
    <3>1. result'[w][5].out = 0 /\ result'[w][5].tech = 0
      BY <1>3, <1>4, <2>2 DEF NoResult
    <3>2. BilledBy(w) = {}
      BY <1>1, <1>2, <2>2 DEF TableTracksCounts
    <3>3. Cardinality(BilledBy(w)') = 0
      BY <1>6, <3>2, FS_EmptySet
    <3> QED
      BY <3>1, <3>3 DEF Counted
  <2> QED
    BY <2>1, <2>2
<1>14. TableTracksCounts(w)'
  BY <1>4, <1>13 DEF TableTracksCounts
<1>15. \A v \in Workflows : OwnsCreated(v)' /\ MemoryTracksStage(v)' /\ TableTracksCounts(v)'
  BY <1>7, <1>8, <1>12, <1>14
<1> QED
  BY <1>5, <1>6, <1>15 DEF PipelineInv

-----------------------------------------------------------------------------
(* The invariant and what follows from it.                                  *)

LEMMA PipelineInitInv == PipelineInit => PipelineInv
<1> SUFFICES ASSUME PipelineInit PROVE PipelineInv
  OBVIOUS
<1>1. IndInv /\ Init
  BY InitInv DEF PipelineInit
<1>2. billings = {} /\ IsFiniteSet(billings) /\ Cardinality({}) = 0
  BY FS_EmptySet DEF PipelineInit
<1>3. PipelineTypes
  BY <1>2 DEF PipelineInit, PipelineTypes, NoTally
<1>4. BillingsAreSound /\ BillingsAreComplete
  BY <1>2 DEF BillingsAreSound, BillingsAreComplete
<1>5. ASSUME NEW w \in Workflows
      PROVE  OwnsCreated(w) /\ MemoryTracksStage(w) /\ TableTracksCounts(w)
  <2>1. pc[w] = "idle" /\ row[w].status \notin Completed
    BY <1>1 DEF Init, AbsentRow, Completed
  <2>2. Untouched(w) /\ BilledBy(w) = {} /\ OwnsCreated(w)
    BY <1>2 DEF PipelineInit, Untouched, BilledBy, OwnsCreated
  <2> QED
    BY <2>1, <2>2 DEF MemoryTracksStage, TableTracksCounts
<1> QED
  BY <1>1, <1>3, <1>4, <1>5 DEF PipelineInv

LEMMA PipelineNextInv == PipelineInv /\ [PipelineNext]_pipelineVars => PipelineInv'
<1> SUFFICES ASSUME PipelineInv, [PipelineNext]_pipelineVars PROVE PipelineInv'
  OBVIOUS
<1>1. IndInv'
  BY StepRefined, NextInv DEF PipelineInv
<1>2. CASE Around
  BY <1>1, <1>2, AroundInv
<1>3. ASSUME NEW w \in Workflows, StageStep(w) PROVE PipelineInv'
  <2>1. CASE Fetch(w) \/ InsertChunk(w) \/ InsertChunkFails(w) \/ ReadBack(w)
    BY <2>1, FetchInv, InsertChunkInv, InsertChunkFailsInv, ReadBackInv
  <2>2. CASE Analyze(w) \/ AnalyzeFails(w)
    BY <2>2, AnalyzeInv, AnalyzeFailsInv
  <2>3. CASE ResolveVendor(w) \/ EvaluateEligibility(w)
    BY <2>3, ResolveVendorInv, EvaluateEligibilityInv
  <2>4. CASE BuildBillingFails(w) \/ SaveIfAbsent(w) \/ SaveBillingFails(w)
    BY <2>4, BuildBillingFailsInv, SaveIfAbsentInv, SaveBillingFailsInv
  <2>5. CASE ReturnResult(w)
    BY <1>1, <2>5, ReturnResultInv
  <2> QED
    BY <1>3, <2>1, <2>2, <2>3, <2>4, <2>5 DEF StageStep
<1>4. CASE UNCHANGED pipelineVars
  <2>1. /\ UNCHANGED <<tables, memory, progress, result>>
        /\ row' = row /\ pc' = pc /\ stage' = stage
    BY <1>4 DEF pipelineVars
  <2>2. PipelineTypes' /\ BillingsAreSound' /\ BillingsAreComplete'
    BY <2>1 DEF PipelineInv, PipelineTypes, BillingsAreSound, BillingsAreComplete, tables,
                memory, progress
  <2>3. \A v \in Workflows : OwnsCreated(v)' /\ MemoryTracksStage(v)' /\ TableTracksCounts(v)'
    BY <2>1, SameMemory, UnmovedKeeps DEF PipelineInv
  <2> QED
    BY <1>1, <2>2, <2>3 DEF PipelineInv
<1> QED
  BY <1>2, <1>3, <1>4 DEF PipelineNext

(***************************************************************************)
(* The inductive invariant holds in every state: every run has each        *)
(* message in one place, and the shared tables hold what the runs' rows    *)
(* and memories count, however the runs interleave.                        *)
(***************************************************************************)
THEOREM PipelineInvariance == PipelineSpec => []PipelineInv
BY PipelineInitInv, PipelineNextInv, PTL DEF PipelineSpec

(***************************************************************************)
(* The stages implement the workflow that leaves their results open: what  *)
(* is proved of ManualMailWorkflow holds of the runs on the shared tables. *)
(***************************************************************************)
THEOREM WorkflowRefined == PipelineSpec => ImplementsWorkflow
<1>1. PipelineInit => Init
  BY DEF PipelineInit
<1>2. PipelineInv /\ [PipelineNext]_pipelineVars => [Next]_vars
  BY StepRefined
<1> QED
  BY <1>1, <1>2, PipelineInvariance, PTL DEF PipelineSpec, ImplementsWorkflow, Spec

(***************************************************************************)
(* An email is created by at most one run (email_repository.go: created    *)
(* iff created_run_id is the run's own), for any interleaving of INSERTs   *)
(* and read-backs and any batch size.                                      *)
(***************************************************************************)
THEOREM OneRunPerEmail == PipelineSpec => []EmailHasOneRun
<1>1. PipelineInv => EmailHasOneRun
  BY DEF PipelineInv, OwnsCreated, EmailHasOneRun
<1> QED
  BY <1>1, PipelineInvariance, PTL

(***************************************************************************)
(* No two billings have one identity, and each belongs to an email that    *)
(* its run created and analysed.                                           *)
(***************************************************************************)
THEOREM BillingsSound == PipelineSpec => []BillingsAreSound
<1>1. PipelineInv => BillingsAreSound
  BY DEF PipelineInv
<1> QED
  BY <1>1, PipelineInvariance, PTL

(***************************************************************************)
(* Every stored billing has a product name, a well-formed invoice number   *)
(* if any, and line items that all have a currency.                        *)
(***************************************************************************)
THEOREM BillingsComplete == PipelineSpec => []BillingsAreComplete
<1>1. PipelineInv => BillingsAreComplete
  BY DEF PipelineInv
<1> QED
  BY <1>1, PipelineInvariance, PTL

(***************************************************************************)
(* NewBilling accepts what BillingEligibility has passed, but for a        *)
(* malformed invoice number and the zero date.                             *)
(***************************************************************************)
THEOREM EligibleBillable == PipelineSpec => []EligibleItemsAreBillable
<1>1. ASSUME PipelineInv, NEW w \in Workflows, InStage(w, workflowStageBilling),
             NEW i \in DOMAIN todo[w]
      PROVE  LET e == todo[w][i].item IN
             \/ Validate(e)
             \/ NewInvoiceNumber(e.invoice) \notin ValidInvoices \union {Nil}
             \/ e.date = 0
  <2>1. Working(w, 5)
    BY <1>1, StageNumbers DEF PipelineInv, MemoryTracksStage, InStage
  <2>2. todo[w] \in Seq(Inputs(w, 5))
    BY <2>1 DEF Working
  <2>3. todo[w][i] \in Inputs(w, 5)
    BY <1>1, <2>2
  <2>4. todo[w][i].item \in EligibleItems
    BY <2>3 DEF Inputs
  <2> QED
    BY <2>4, EligibleItemsBuild
<1>2. PipelineInv => EligibleItemsAreBillable
  BY <1>1 DEF EligibleItemsAreBillable
<1> QED
  BY <1>2, PipelineInvariance, PTL

(***************************************************************************)
(* A completed row counts as created exactly the billings stored for the   *)
(* emails of its run; where replies get lost, the table holds at most as   *)
(* many more as the row counts as technical failures.                      *)
(***************************************************************************)
THEOREM BillingCountsTrue == PipelineSpec => []BillingCountsMatchTable
<1>1. ASSUME PipelineInv, NEW w \in Workflows,
             row[w].status \in {"succeeded", "partial_success"}
      PROVE  LET p == row[w].progress[workflowStageBilling]
                 stored == Cardinality({b \in billings : emails[b.msg] = w})
             IN  IF "lost_reply" \in Faults
                 THEN stored \in p.succ..(p.succ + p.tech)
                 ELSE stored = p.succ
  <2> DEFINE r == result[w][5]
             p == row[w].progress[5]
  <2>1. row[w].status \in Completed
    BY <1>1 DEF Completed
  <2>2. Counted(w, r.out, r.tech) /\ TypeOK
    BY <1>1, <2>1, StageNumbers DEF PipelineInv, TableTracksCounts, IndInv
  <2>3. p = buildStageProgress(5, r)
    BY <1>1, <2>1, StageNumbers DEF PipelineInv, IndInv, WorkflowInv, ProgressTracksResults
  <2>4. r.out \in Nat /\ r.tech \in Nat /\ r.seen = 0
    <3>1. r = NoResult \/ r \in StageResults(5, StageInput(result[w], 5))
      BY <1>1, StageNumbers DEF PipelineInv, IndInv, WorkflowInv, ResultsInOrder
    <3>2. r.seen = 0
      BY <3>1, StageNumbers DEF NoResult, StageResults
    <3> QED
      BY <2>2, <3>2, StageNumbers DEF TypeOK, StageResult
  <2>5. p.succ = r.out + r.seen /\ p.tech = r.tech
    BY <2>3 DEF buildStageProgress
  <2>6. p.succ = r.out
    BY <2>4, <2>5
  <2> QED
    BY <2>2, <2>4, <2>5, <2>6, StageNumbers DEF Counted, BilledBy
<1>2. PipelineInv => BillingCountsMatchTable
  BY <1>1 DEF BillingCountsMatchTable
<1> QED
  BY <1>2, PipelineInvariance, PTL
=============================================================================
