------------------------ MODULE ManualMailWorkflow ------------------------
(***************************************************************************)
(* The life of a manual mail workflow: the HTTP request that accepts it    *)
(* (startUseCase.Start), the goroutine that runs its five stages           *)
(* (useCase.Execute), and the history row the two keep in MySQL            *)
(* (GormWorkflowStatusRepository).                                         *)
(*                                                                         *)
(* What a stage does inside is left open here: it returns any result its   *)
(* contract (StageResults) allows, or an error.  Module MailPipeline       *)
(* replaces that choice by the stages' own steps and is shown to implement *)
(* this module.                                                            *)
(***************************************************************************)
EXTENDS Naturals

CONSTANTS
    Workflows,  \* the workflows users start
    MaxItems,   \* bound on the items (emails, parsed emails, ...) of a stage
    Faults      \* the faults of the environment that may happen, see below

(***************************************************************************)
(* dispatch_error    the dispatcher refuses the job                        *)
(* write_error       a repository call other than Fail errors, unapplied   *)
(* fail_write_error  the repository call Fail errors, unapplied            *)
(* lost_reply        a repository call is applied and still reports an     *)
(*                   error (connection lost after the commit)              *)
(* crash             the server process dies                               *)
(***************************************************************************)
FaultKinds ==
    {"dispatch_error", "write_error", "fail_write_error", "lost_reply", "crash"}

ASSUME MaxItemsAssumption == MaxItems \in Nat
ASSUME FaultsAssumption == Faults \subseteq FaultKinds

VARIABLES
    row,     \* manual_mail_workflow_histories with its stage failure rows
    pc,      \* where the request or the runner goroutine of a workflow is
    stage,   \* the runner's currentStage, 0 for ""
    result   \* the runner's Result, one entry per stage

vars == <<row, pc, stage, result>>

---------------------------------------------------------------------------
(* Stages, statuses and the row.                                           *)

workflowStageFetch == 1
workflowStageAnalysis == 2
workflowStageBilling == 5
NoStage == 0
Stages == workflowStageFetch..workflowStageBilling

Terminal == {"succeeded", "partial_success", "failed"}
Statuses == {"absent", "queued", "running"} \union Terminal

\* recs counts the rows of manual_mail_workflow_stage_failures, note those
\* of them that only tell that all emails were known already.
StageProgress == [succ : Nat, bus : Nat, tech : Nat, recs : Nat, note : Nat]
NoProgress == [succ |-> 0, bus |-> 0, tech |-> 0, recs |-> 0, note |-> 0]

\* out: what the next stage gets; seen: ExistingEmailIDs, fetch only;
\* bus: unresolved, ineligible or duplicate items; tech: Failures.
StageResult == [out : Nat, seen : Nat, bus : Nat, tech : Nat]
NoResult == [out |-> 0, seen |-> 0, bus |-> 0, tech |-> 0]

\* finished and error say whether finished_at and error_message are set.
HistoryRow == [status : Statuses, stage : Stages \union {NoStage},
               finished : BOOLEAN, error : BOOLEAN,
               progress : [Stages -> StageProgress]]

AbsentRow == [status |-> "absent", stage |-> NoStage,
              finished |-> FALSE, error |-> FALSE,
              progress |-> [s \in Stages |-> NoProgress]]

PCs == {"idle", "dispatch", "fail_start", "mark", "exec", "save",
        "complete", "fail", "done", "rejected", "gone"}

TypeOK ==
    /\ row \in [Workflows -> HistoryRow]
    /\ pc \in [Workflows -> PCs]
    /\ stage \in [Workflows -> Stages \union {NoStage}]
    /\ result \in [Workflows -> [Stages -> StageResult]]

Init ==
    /\ row = [w \in Workflows |-> AbsentRow]
    /\ pc = [w \in Workflows |-> "idle"]
    /\ stage = [w \in Workflows |-> NoStage]
    /\ result = [w \in Workflows |-> [s \in Stages |-> NoResult]]

---------------------------------------------------------------------------
(* What the code computes from a stage's result.                           *)

\* Mutant: unresolved, ineligible and duplicate items are left out.
buildStageProgressForgetsBusiness(s, r) ==
    LET note == IF s = workflowStageFetch /\ r.out = 0 /\ r.seen > 0
                THEN 1 ELSE 0
    IN  [succ |-> r.out + r.seen, bus |-> 0, tech |-> r.tech,
         recs |-> r.tech + note, note |-> note]

\* build*StageProgress: the counts and the failure records.  A fetch that
\* found only known emails adds the record existing_emails_skipped.
buildStageProgress(s, r) ==
    LET note == IF s = workflowStageFetch /\ r.out = 0 /\ r.seen > 0
                THEN 1 ELSE 0
    IN  [succ |-> r.out + r.seen, bus |-> r.bus, tech |-> r.tech,
         recs |-> r.bus + r.tech + note, note |-> note]

countedFailureRecordCount(p) == p.recs - p.note

\* Mutant: duplicate billings are not a reason for partial_success.
hasWorkflowFailuresIgnoresDuplicates(res) ==
    \E s \in Stages : \/ res[s].tech > 0
                      \/ s # workflowStageBilling /\ res[s].bus > 0

hasWorkflowFailures(res) ==
    \E s \in Stages : res[s].bus + res[s].tech > 0

workflowStatusForResult(res) ==
    IF hasWorkflowFailures(res) THEN "partial_success" ELSE "succeeded"

(***************************************************************************)
(* The contract of the stages.  Fetch sorts the messages into created,     *)
(* known and failed.  Analysis turns each of n emails into one failure or  *)
(* at least one parsed email.  Each later stage gives each of its n inputs *)
(* exactly one outcome.                                                    *)
(***************************************************************************)
StageResults(s, n) ==
    {r \in [out : 0..MaxItems, seen : 0..MaxItems,
            bus : 0..MaxItems, tech : 0..MaxItems] :
       /\ s = workflowStageFetch =>
            r.bus = 0 /\ r.out + r.seen + r.tech <= MaxItems
       /\ s = workflowStageAnalysis =>
            /\ r.seen = 0 /\ r.bus = 0
            /\ r.tech <= n /\ n <= r.out + r.tech
            /\ r.out = 0 <=> r.tech = n
       /\ s > workflowStageAnalysis =>
            r.seen = 0 /\ r.out + r.bus + r.tech = n}

\* The number of items stage s gets from the stage before it.
StageInput(res, s) == IF s = workflowStageFetch THEN 0 ELSE res[s - 1].out

---------------------------------------------------------------------------
(* The repository's writes, as functions of the row.                       *)

QueuedRow == [AbsentRow EXCEPT !.status = "queued"]

RunningRow(r, s) ==
    [r EXCEPT !.status = "running", !.stage = s, !.error = FALSE]

\* Mutant: counts and failure rows are two writes and the second is lost.
ProgressRowNotAtomic(r, s, p) ==
    [r EXCEPT !.progress[s] =
        [p EXCEPT !.recs = r.progress[s].recs, !.note = r.progress[s].note]]

\* One transaction: counts are set, failure rows are appended.
ProgressRow(r, s, p) ==
    LET old == r.progress[s] IN
    [r EXCEPT !.progress[s] =
        [succ |-> p.succ, bus |-> p.bus, tech |-> p.tech,
         recs |-> old.recs + p.recs, note |-> old.note + p.note]]

\* Mutant: Complete leaves the stage in the row.
CompletedRowKeepsStage(r, status) ==
    [r EXCEPT !.status = status, !.finished = TRUE, !.error = FALSE]

CompletedRow(r, status) ==
    [r EXCEPT !.status = status, !.stage = NoStage,
              !.finished = TRUE, !.error = FALSE]

FailedRow(r, s) ==
    [r EXCEPT !.status = "failed", !.stage = s,
              !.finished = TRUE, !.error = TRUE]

(***************************************************************************)
(* One repository call of workflow w: it is applied and the caller goes to *)
(* ok; it errors without effect and the caller goes to err; or it is       *)
(* applied, its reply is lost and the caller goes to err all the same.     *)
(***************************************************************************)
Applied(w, r, ok) ==
    /\ row' = [row EXCEPT ![w] = r]
    /\ pc' = [pc EXCEPT ![w] = ok]

Errored(w, r, err, fault) ==
    /\ pc' = [pc EXCEPT ![w] = err]
    /\ \/ fault \in Faults /\ UNCHANGED row
       \/ "lost_reply" \in Faults /\ row' = [row EXCEPT ![w] = r]

---------------------------------------------------------------------------
(* startUseCase.Start, in the goroutine of the HTTP request.               *)

\* Validation, the connection snapshot or the id generator refuses.
RejectStart(w) ==
    /\ pc[w] = "idle"
    /\ pc' = [pc EXCEPT ![w] = "rejected"]
    /\ UNCHANGED <<row, stage, result>>

CreateQueued(w) ==
    /\ pc[w] = "idle"
    /\ \/ Applied(w, QueuedRow, "dispatch")
       \/ Errored(w, QueuedRow, "rejected", "write_error")
    /\ UNCHANGED <<stage, result>>

\* go d.run: the runner starts with the fetch stage as its currentStage.
Dispatch(w) ==
    /\ pc[w] = "dispatch"
    /\ pc' = [pc EXCEPT ![w] = "mark"]
    /\ stage' = [stage EXCEPT ![w] = workflowStageFetch]
    /\ UNCHANGED <<row, result>>

DispatchRefused(w) ==
    /\ pc[w] = "dispatch"
    /\ "dispatch_error" \in Faults
    /\ pc' = [pc EXCEPT ![w] = "fail_start"]
    /\ UNCHANGED <<row, stage, result>>

\* The history of a job that was not dispatched; an error is only logged.
FailStart(w) ==
    /\ pc[w] = "fail_start"
    /\ \/ Applied(w, FailedRow(row[w], NoStage), "rejected")
       \/ Errored(w, FailedRow(row[w], NoStage), "rejected", "fail_write_error")
    /\ UNCHANGED <<stage, result>>

---------------------------------------------------------------------------
(* useCase.Execute, in the runner goroutine.                               *)

MarkRunning(w) ==
    /\ pc[w] = "mark"
    /\ \/ Applied(w, RunningRow(row[w], stage[w]), "exec")
       \/ Errored(w, RunningRow(row[w], stage[w]), "fail", "write_error")
    /\ UNCHANGED <<stage, result>>

\* The current stage returns r without a top-level error.
StageReturns(w, r) ==
    /\ pc[w] = "exec"
    /\ result' = [result EXCEPT ![w][stage[w]] = r]
    /\ pc' = [pc EXCEPT ![w] = "save"]
    /\ UNCHANGED <<row, stage>>

\* The current stage returns a top-level error, or panics and is recovered.
StageErrors(w) ==
    /\ pc[w] = "exec"
    /\ pc' = [pc EXCEPT ![w] = "fail"]
    /\ UNCHANGED <<row, stage, result>>

\* Saves the stage's progress unless its records and counts disagree; the
\* workflow goes on to the next stage when that stage has something to do,
\* and completes otherwise.
SaveStageProgress(w) ==
    LET s == stage[w]
        p == buildStageProgress(s, result[w][s])
        saved == IF countedFailureRecordCount(p) = p.bus + p.tech
                 THEN ProgressRow(row[w], s, p) ELSE row[w]
        next == s # workflowStageBilling /\ result[w][s].out > 0
    IN
    /\ pc[w] = "save"
    /\ \/ /\ countedFailureRecordCount(p) = p.bus + p.tech
          /\ Applied(w, saved, IF next THEN "mark" ELSE "complete")
          /\ stage' = [stage EXCEPT ![w] = IF next THEN s + 1 ELSE s]
       \/ /\ Errored(w, saved, "fail", "write_error")
          /\ UNCHANGED stage
    /\ UNCHANGED result

\* Mutant: the return after a successful Complete is missing.
CompleteThenFails(w) ==
    /\ pc[w] = "complete"
    /\ Applied(w, CompletedRow(row[w], workflowStatusForResult(result[w])), "fail")
    /\ UNCHANGED <<stage, result>>

Complete(w) ==
    LET completed == CompletedRow(row[w], workflowStatusForResult(result[w])) IN
    /\ pc[w] = "complete"
    /\ \/ Applied(w, completed, "done")
       \/ Errored(w, completed, "fail", "write_error")
    /\ UNCHANGED <<stage, result>>

\* Mutant: Execute returns its error without writing it to the history.
FailWorkflowForgets(w) ==
    /\ pc[w] = "fail"
    /\ pc' = [pc EXCEPT ![w] = "done"]
    /\ UNCHANGED <<row, stage, result>>

\* failWorkflow; an error of the write is only logged.
FailWorkflow(w) ==
    /\ pc[w] = "fail"
    /\ \/ Applied(w, FailedRow(row[w], stage[w]), "done")
       \/ Errored(w, FailedRow(row[w], stage[w]), "done", "fail_write_error")
    /\ UNCHANGED <<stage, result>>

---------------------------------------------------------------------------
(* The server process.                                                     *)

Active == {"dispatch", "fail_start", "mark", "exec", "save", "complete", "fail"}

\* The process dies and every goroutine with it.  Nothing picks the rows up
\* when the server starts again.
Crash ==
    /\ "crash" \in Faults
    /\ \E w \in Workflows : pc[w] \in Active
    /\ pc' = [w \in Workflows |-> IF pc[w] \in Active THEN "gone" ELSE pc[w]]
    /\ UNCHANGED <<row, stage, result>>

\* Every workflow has ended: the server idles.
Finished ==
    /\ \A w \in Workflows : pc[w] \in {"done", "rejected", "gone"}
    /\ UNCHANGED vars

\* The steps the code takes by itself once the row exists.
Control(w) ==
    \/ Dispatch(w) \/ DispatchRefused(w) \/ FailStart(w)
    \/ MarkRunning(w) \/ StageErrors(w) \/ SaveStageProgress(w)
    \/ Complete(w) \/ FailWorkflow(w)

Stage(w) ==
    /\ pc[w] = "exec"
    /\ \E r \in StageResults(stage[w], StageInput(result[w], stage[w])) :
         StageReturns(w, r)

\* What a process does that lives.
Serve ==
    \/ \E w \in Workflows :
         RejectStart(w) \/ CreateQueued(w) \/ Control(w) \/ Stage(w)
    \/ Finished

Next == Serve \/ Crash

Spec == Init /\ [][Next]_vars

\* The process lives, and a goroutine that can take a step takes one: the Go
\* scheduler is fair and database and stage calls return.
FairSpec ==
    /\ Init /\ [][Serve]_vars
    /\ \A w \in Workflows : WF_vars(Control(w) \/ Stage(w))

---------------------------------------------------------------------------
(* Properties.                                                             *)

Total(p) == p.succ + p.bus + p.tech
FailureCount(p) == p.bus + p.tech

(***************************************************************************)
(* A row that ended says how the workflow went: succeeded and              *)
(* partial_success rows have no current stage and no error message, and    *)
(* are partial_success exactly when some stage column of the row counts a  *)
(* failure, although the code derives the status from the runner's memory  *)
(* and not from the row; failed rows keep an error message; and            *)
(* finished_at is set exactly on ended rows.                               *)
(***************************************************************************)
TerminalRowConsistent ==
    \A w \in Workflows : LET r == row[w] IN
        /\ r.finished <=> r.status \in Terminal
        /\ r.error <=> r.status = "failed"
        /\ r.status \in {"succeeded", "partial_success"} =>
             /\ r.stage = NoStage
             /\ r.status = "partial_success" <=>
                  \E s \in Stages : FailureCount(r.progress[s]) > 0

(***************************************************************************)
(* No item is lost between stages: in every row the outcomes counted for   *)
(* vendor resolution, eligibility and billing add up to the successes of   *)
(* the stage before, or the stage has not been saved; in a row that        *)
(* completed they always add up (a skipped stage had nothing to do).       *)
(***************************************************************************)
ItemsAccountedFor ==
    \A w \in Workflows : LET p == row[w].progress IN
        \A s \in 3..workflowStageBilling :
            \/ Total(p[s]) = p[s - 1].succ
            \/ /\ Total(p[s]) = 0
               /\ row[w].status \notin {"succeeded", "partial_success"}

(***************************************************************************)
(* The failure counts of a stage and its failure rows are saved together:  *)
(* they agree in every row, whichever writes failed, except for the one    *)
(* extra fetch row that tells the user that all emails were known already, *)
(* which docs/ddd/invariants.md:31 does not mention; with it, no later     *)
(* stage has run.                                                          *)
(***************************************************************************)
CountsMatchFailureRows ==
    \A w \in Workflows : \A s \in Stages : LET p == row[w].progress[s] IN
        /\ p.recs = FailureCount(p) + p.note
        /\ p.note > 0 =>
             /\ s = workflowStageFetch /\ p.succ > 0 /\ p.note = 1
             /\ \A t \in Stages \ {s} : row[w].progress[t] = NoProgress

(***************************************************************************)
(* A row shown as queued or running belongs to a live goroutine, and a     *)
(* running row shows the stage that goroutine is in or is about to leave   *)
(* (docs/spec/manualmailworkflow/basicDesign.md:159-160).                  *)
(***************************************************************************)
UnfinishedRowIsOwned ==
    \A w \in Workflows :
        /\ row[w].status \in {"queued", "running"} => pc[w] \in Active
        /\ row[w].status = "running" => row[w].stage \in {stage[w] - 1, stage[w]}

(***************************************************************************)
(* An ended row is never written again, and a running row never goes back  *)
(* to an earlier stage or to queued.  No UPDATE of the repository tests    *)
(* the status it overwrites: the order of the calls alone protects it      *)
(* (docs/spec/manualmailworkflow/requirementsDefinition.md:122-124).       *)
(***************************************************************************)
RowOnlyMovesForward ==
    [][\A w \in Workflows :
         /\ row[w].status \in Terminal => row'[w] = row[w]
         /\ row[w].status = "running" =>
              \/ row'[w].status \in Terminal
              \/ row'[w].status = "running" /\ row'[w].stage >= row[w].stage]_vars

---------------------------------------------------------------------------
(* The inductive invariant, for one workflow with row r, program counter p, *)
(* current stage s and results res.                                         *)

Completed == {"succeeded", "partial_success"}

\* The row is the one the calls up to p have written.
RowTracksRunner(r, p, s) ==
    /\ p \in {"idle", "dispatch", "fail_start"} =>
         s = NoStage /\ r = IF p = "idle" THEN AbsentRow ELSE QueuedRow
    /\ p \in {"mark", "exec", "save", "complete", "fail"} => s \in Stages
    /\ p = "mark" =>
         /\ r.status = IF s = workflowStageFetch THEN "queued" ELSE "running"
         /\ r.stage = s - 1
    /\ p \in {"exec", "save", "complete"} => r.status = "running" /\ r.stage = s
    /\ p = "fail" => r.status # "absent"
    /\ r.status = "running" => s \in Stages /\ r.stage \in {s - 1, s}
    /\ r.status \in Completed => r.stage = NoStage
    /\ r.finished <=> r.status \in Terminal
    /\ r.error <=> r.status = "failed"

\* Stages run in order, each on what the one before it produced.
ResultsInOrder(p, s, res) ==
    /\ \A t \in Stages :
         res[t] = NoResult \/ res[t] \in StageResults(t, StageInput(res, t))
    /\ \A t, u \in Stages : u < t /\ res[t] # NoResult => res[u].out > 0
    /\ p \in {"idle", "dispatch", "fail_start"} => \A t \in Stages : res[t] = NoResult
    /\ p \in {"mark", "exec", "save", "complete"} =>
         \A t \in Stages :
            /\ t > s => res[t] = NoResult
            /\ t < s => res[t].out > 0
            /\ t < s => res[t] \in StageResults(t, StageInput(res, t))
    /\ p \in {"mark", "exec"} => res[s] = NoResult
    /\ p \in {"save", "complete"} => res[s] \in StageResults(s, StageInput(res, s))
    /\ p = "complete" => s = workflowStageBilling \/ res[s].out = 0

\* A stage's columns hold its result or nothing, and are written in order.
ProgressTracksResults(r, p, s, res) ==
    LET saved(t) == r.progress[t] = buildStageProgress(t, res[t]) IN
    /\ \A t \in Stages : saved(t) \/ r.progress[t] = NoProgress
    /\ \A t, u \in Stages : u < t /\ r.progress[t] # NoProgress => saved(u)
    /\ p \in {"mark", "exec", "complete"} => \A t \in Stages : saved(t)
    /\ p = "save" => /\ \A t \in Stages \ {s} : saved(t)
                     /\ r.progress[s] = NoProgress
    /\ r.status \in Completed =>
         /\ r.status = workflowStatusForResult(res)
         /\ \A t \in Stages : saved(t)
         /\ \A t \in 3..workflowStageBilling :
              res[t].out + res[t].bus + res[t].tech = res[t - 1].out

\* What holds of an ended or unfinished row depends on the faults.
RowHasOwner(r, p) ==
    /\ "lost_reply" \notin Faults =>
         (r.status \in Terminal => p \in {"done", "rejected", "gone"})
    /\ Faults \intersect {"fail_write_error", "lost_reply", "crash"} = {} =>
         (r.status \in {"queued", "running"} => p \in Active)

WorkflowInv(r, p, s, res) ==
    /\ RowTracksRunner(r, p, s)
    /\ ResultsInOrder(p, s, res)
    /\ ProgressTracksResults(r, p, s, res)
    /\ RowHasOwner(r, p)

(***************************************************************************)
(* Row, program counter and results of every workflow move together: the   *)
(* row is exactly what the repository calls made so far have written, the  *)
(* results form an unbroken chain of stages, and the columns of the row    *)
(* are those results, whichever calls errored or lost their reply.         *)
(***************************************************************************)
IndInv ==
    /\ TypeOK
    /\ \A w \in Workflows : WorkflowInv(row[w], pc[w], stage[w], result[w])

---------------------------------------------------------------------------
(* Refinement.                                                             *)

\* The documented life cycle of a row, and the claim that this
\* specification implements it.
Lifecycle == INSTANCE WorkflowLifecycle
                 WITH status <- [w \in Workflows |-> row[w].status]

(***************************************************************************)
(* Every step of request, runner, database and process is a step of the    *)
(* documented state diagram, or none.                                      *)
(***************************************************************************)
FollowsLifecycle == Lifecycle!SafeSpec

(***************************************************************************)
(* The same with the diagram's promise that a queued row reaches an end,   *)
(* whatever the stages and the database answer, provided the process lives *)
(* and the Fail write itself succeeds.                                     *)
(***************************************************************************)
ImplementsLifecycle == Lifecycle!Spec
===========================================================================
