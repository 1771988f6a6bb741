--------------------------- MODULE MailPipeline ---------------------------
(***************************************************************************)
(* The five stages a workflow runs, on the tables they share with the      *)
(* other workflows of the same user: emails (mailfetch), parsed_emails     *)
(* (mailanalysis) and billings (billing).  A stage works through its       *)
(* inputs in order, one item at a time; between two database calls of one  *)
(* run any other run may take steps.                                       *)
(*                                                                         *)
(* The control around the stages is that of ManualMailWorkflow, whose      *)
(* actions and variables this module reuses.                               *)
(***************************************************************************)
EXTENDS ManualMailWorkflow, BillingRules, Sequences, FiniteSets, SequencesExt

CONSTANTS
    Mailbox,        \* sequence of the messages Gmail lists, without repeats
    saveBatchSize,  \* emails per INSERT
    MaxParsed,      \* bound on the billing candidates found in one email
    Drafts,         \* what the analyzer may extract as one candidate
    BodyDigest,     \* message -> fallback billing number ("digest_" + hash)
    ReceivedAt,     \* message -> month in which it was received
    Vendors,        \* canonical vendors, numbered by name
    NoRun           \* emails: the message has not been stored

VARIABLES
    emails,      \* message -> the run in created_run_id, or NoRun
    parsed,      \* messages with rows in parsed_emails
    billings,    \* rows of billings: vendor, number, source email and candidate, data
    created,     \* the run's CreatedEmails
    known,       \* the run's ExistingEmailIDs
    unanalyzed,  \* messages whose analysis a run reported as failed
    todo,        \* what the current stage of a run has still to handle
    outs,        \* what it has produced for the next stage
    tally,       \* its business and technical failures so far
    step         \* within fetch: "list", "items" or "readback"

tables == <<emails, parsed, billings>>
memory == <<created, known, unanalyzed>>
progress == <<todo, outs, tally, step>>
pipelineVars == <<row, pc, stage, result, tables, memory, progress>>

\* MaxItems bounds what the stages can produce from the mailbox: each message
\* is one item or failure at most twice in fetch, and MaxParsed candidates.
ASSUME PipelineAssumption ==
    /\ Mailbox \in Seq(ToSet(Mailbox)) /\ IsInjective(Mailbox)
    /\ saveBatchSize \in Nat \ {0} /\ MaxParsed \in Nat \ {0}
    /\ 2 * Len(Mailbox) <= MaxItems /\ MaxParsed * Len(Mailbox) <= MaxItems
    /\ \A d \in Drafts :
         /\ DOMAIN d.lineItems \subseteq Nat /\ IsFiniteSet(DOMAIN d.lineItems)
         /\ d \in ParsedEmailsWith(DOMAIN d.lineItems)
    /\ \A m \in ToSet(Mailbox) : BodyDigest[m] \in Texts /\ ReceivedAt[m] \in Nat
    /\ Vendors \subseteq Nat
    /\ NoRun \notin Workflows

Messages == ToSet(Mailbox)

\* The elements of s at the given positions, in their order in s.
ItemsAt(s, positions) ==
    LET order == CHOOSE q \in [1..Cardinality(positions) -> positions] :
                    \A i, j \in DOMAIN q : i < j => q[i] < q[j]
    IN  [i \in DOMAIN order |-> s[order[i]]]

InMailboxOrder(messages) ==
    ItemsAt(Mailbox, {k \in DOMAIN Mailbox : Mailbox[k] \in messages})

NoTally == [bus |-> 0, tech |-> 0]

PipelineInit ==
    /\ Init
    /\ emails = [m \in Messages |-> NoRun]
    /\ parsed = {}
    /\ billings = {}
    /\ created = [w \in Workflows |-> {}]
    /\ known = [w \in Workflows |-> {}]
    /\ unanalyzed = {}
    /\ todo = [w \in Workflows |-> <<>>]
    /\ outs = [w \in Workflows |-> <<>>]
    /\ tally = [w \in Workflows |-> NoTally]
    /\ step = [w \in Workflows |-> "list"]

---------------------------------------------------------------------------
(* Steps common to the stages.                                             *)

\* Run w is inside the Execute of stage s.
InStage(w, s) == pc[w] = "exec" /\ stage[w] = s

\* Run w has the head of its inputs in hand, in stage s.
AtItem(w, s) == InStage(w, s) /\ todo[w] # <<>>

Emit(w, items) ==
    /\ outs' = [outs EXCEPT ![w] = @ \o items]
    /\ UNCHANGED tally

BusinessFailure(w) ==
    /\ tally' = [tally EXCEPT ![w].bus = @ + 1]
    /\ UNCHANGED outs

TechnicalFailure(w) ==
    /\ tally' = [tally EXCEPT ![w].tech = @ + 1]
    /\ UNCHANGED outs

NextItem(w) ==
    /\ todo' = [todo EXCEPT ![w] = Tail(@)]
    /\ UNCHANGED <<vars, step>>

---------------------------------------------------------------------------
(* mailfetch.                                                              *)

\* The provider's answer: each message is outside the label or the period,
\* could not be read or is malformed, was read, or was read twice.
Answers == [Messages -> {"outside", "failed", "read", "twice"}]

\* The messages to be saved, each once.
prepareEmails(answer) == InMailboxOrder({m \in Messages : answer[m] \in {"read", "twice"}})

\* The second copy of a message is a failure.
Fetch(w) ==
    /\ InStage(w, workflowStageFetch) /\ step[w] = "list"
    /\ \E answer \in Answers :
         /\ todo' = [todo EXCEPT ![w] = prepareEmails(answer)]
         /\ tally' = [tally EXCEPT ![w].tech =
                        Cardinality({m \in Messages : answer[m] \in {"failed", "twice"}})]
    /\ step' = [step EXCEPT ![w] = "items"]
    /\ UNCHANGED <<vars, tables, memory, outs>>

Chunk(w) == {todo[w][i] : i \in DOMAIN todo[w] \intersect 1..saveBatchSize}

\* The messages behind the current chunk.
AfterChunk(w) ==
    [todo EXCEPT ![w] = SubSeq(@, saveBatchSize + 1, Len(@))]

\* INSERT ... ON CONFLICT DO NOTHING of one chunk, in a transaction.
InsertChunk(w) ==
    /\ AtItem(w, workflowStageFetch) /\ step[w] = "items"
    /\ emails' = [m \in Messages |->
                    IF m \in Chunk(w) /\ emails[m] = NoRun THEN w ELSE emails[m]]
    /\ step' = [step EXCEPT ![w] = "readback"]
    /\ UNCHANGED <<vars, parsed, billings, memory, todo, outs, tally>>

\* The INSERT fails: every message of the chunk is a failure, and the next
\* chunk is tried.
InsertChunkFails(w) ==
    /\ AtItem(w, workflowStageFetch) /\ step[w] = "items"
    /\ tally' = [tally EXCEPT ![w].tech = @ + Cardinality(Chunk(w))]
    /\ todo' = AfterChunk(w)
    /\ UNCHANGED <<vars, tables, memory, outs, step>>

\* Mutant: every message found after the save counts as created.
ReadBackAllCreated(w) ==
    /\ InStage(w, workflowStageFetch) /\ step[w] = "readback"
    /\ created' = [created EXCEPT ![w] = @ \union Chunk(w)]
    /\ Emit(w, InMailboxOrder(Chunk(w)))
    /\ todo' = AfterChunk(w)
    /\ step' = [step EXCEPT ![w] = "items"]
    /\ UNCHANGED <<vars, tables, known, unanalyzed>>

\* Reads the chunk outside the transaction: a row is created by this run iff
\* it carries the chunk's run id.  The code draws one id per chunk; the chunks
\* of a run are disjoint, so the run itself stands for it.
ReadBack(w) ==
    LET mine == {m \in Chunk(w) : emails[m] = w} IN
    /\ InStage(w, workflowStageFetch) /\ step[w] = "readback"
    /\ created' = [created EXCEPT ![w] = @ \union mine]
    /\ known' = [known EXCEPT ![w] = @ \union (Chunk(w) \ mine)]
    /\ Emit(w, InMailboxOrder(mine))
    /\ todo' = AfterChunk(w)
    /\ step' = [step EXCEPT ![w] = "items"]
    /\ UNCHANGED <<vars, tables, unanalyzed>>

---------------------------------------------------------------------------
(* mailanalysis.                                                           *)

\* AnalysisOutput.Normalize: candidates without a value are dropped.
NormalizeOutput(drafts) ==
    LET normal == [i \in DOMAIN drafts |-> NormalizeParsedEmail(drafts[i])]
    IN  ItemsAt(normal, {i \in DOMAIN normal : ~IsEmpty(normal[i])})

\* What the adapter of the next stage makes of a candidate.
ResolutionTarget(m, i, p) == [msg |-> m, pos |-> i, data |-> p]

\* A candidate without a number gets the digest of the email's body.
applyFallbackBillingNumbers(m, output) ==
    [i \in DOMAIN output |->
        ResolutionTarget(m, i, [output[i] EXCEPT !.number = IF @ = Nil THEN BodyDigest[m] ELSE @])]

\* SaveAll: one row per candidate, all or none.
SaveAll(m, items) ==
    /\ items # <<>>
    /\ \A i \in DOMAIN items : validateParsedEmailBounds(items[i].data)
    /\ parsed' = parsed \union {m}

Analyze(w) ==
    LET m == Head(todo[w]) IN
    /\ AtItem(w, workflowStageAnalysis)
    /\ \E k \in 1..MaxParsed : \E drafts \in [1..k -> Drafts] :
         LET items == applyFallbackBillingNumbers(m, NormalizeOutput(drafts)) IN
         SaveAll(m, items) /\ Emit(w, items)
    /\ NextItem(w)
    /\ UNCHANGED <<emails, billings, memory>>

\* Mutant: an email without a candidate is passed over in silence.
AnalyzeFailsSilently(w) ==
    /\ AtItem(w, workflowStageAnalysis)
    /\ NextItem(w)
    /\ UNCHANGED <<tables, memory, outs, tally>>

\* Blank body, analyzer error, no candidate, or one that is out of bounds; or
\* the INSERT errors, without effect or with its reply lost.
AnalyzeFails(w) ==
    LET m == Head(todo[w]) IN
    /\ AtItem(w, workflowStageAnalysis)
    /\ TechnicalFailure(w)
    /\ unanalyzed' = unanalyzed \union {m}
    /\ \/ UNCHANGED parsed
       \/ "lost_reply" \in Faults /\ parsed' = parsed \union {m}
    /\ NextItem(w)
    /\ UNCHANGED <<emails, billings, created, known>>

---------------------------------------------------------------------------
(* vendorresolution and billingeligibility.                                *)

EligibilityTarget(v, target) ==
    [vendor |-> v, msg |-> target.msg, pos |-> target.pos, data |-> target.data]

\* How the vendor is decided is the subject of module VendorResolution.
ResolveVendor(w) ==
    /\ AtItem(w, 3)
    /\ \/ \E v \in Vendors :
            Emit(w, <<EligibilityTarget(v, Head(todo[w]))>>)
       \/ BusinessFailure(w)
       \/ TechnicalFailure(w)
    /\ NextItem(w)
    /\ UNCHANGED <<tables, memory>>

CreationTarget(target, item) ==
    [vendor |-> target.vendor, msg |-> target.msg, pos |-> target.pos, item |-> item]

\* The target is normalized once more.  Its ids and names come from the
\* stages before, so it is never an invalid one.
EvaluateEligibility(w) ==
    LET target == Head(todo[w])
        data == NormalizeParsedEmail(target.data)
    IN
    /\ AtItem(w, 4)
    /\ \/ Evaluate(data) /\ Emit(w, <<CreationTarget(target, EligibleItem(data))>>)
       \/ ~Evaluate(data) /\ BusinessFailure(w)
    /\ NextItem(w)
    /\ UNCHANGED <<tables, memory>>

---------------------------------------------------------------------------
(* billing.                                                                *)

SameIdentity(a, b) == a.vendor = b.vendor /\ a.number = b.number

\* Billings count in the month of their date, or else of their mail.
resolveBillingSummaryDate(e) == IF e.item.date = Nil THEN ReceivedAt[e.msg] ELSE e.item.date

\* The row the next INSERT would add.
BillingOf(e) ==
    [id |-> Cardinality(billings) + 1,
     vendor |-> e.vendor, number |-> NewBilling(e.item).number,
     msg |-> e.msg, pos |-> e.pos, billing |-> NewBilling(e.item),
     receivedAt |-> ReceivedAt[e.msg], summaryDate |-> resolveBillingSummaryDate(e)]

\* NewBilling rejects the item.
BuildBillingFails(w) ==
    /\ AtItem(w, workflowStageBilling)
    /\ ~Validate(Head(todo[w]).item)
    /\ TechnicalFailure(w)
    /\ NextItem(w)
    /\ UNCHANGED <<tables, memory>>

\* Mutant: the row is inserted whether or not the identity is taken.
SaveIfAbsentAlwaysInserts(w) ==
    LET b == BillingOf(Head(todo[w])) IN
    /\ AtItem(w, workflowStageBilling)
    /\ billings' = billings \union {b}
    /\ Emit(w, <<b>>)
    /\ NextItem(w)
    /\ UNCHANGED <<emails, parsed, memory>>

\* Mutant: an INSERT that is ignored counts as created.
SaveIfAbsentIgnoresConflict(w) ==
    LET b == BillingOf(Head(todo[w])) IN
    /\ AtItem(w, workflowStageBilling)
    /\ Validate(Head(todo[w]).item)
    /\ billings' = billings \union
            (IF \E c \in billings : SameIdentity(b, c) THEN {} ELSE {b})
    /\ Emit(w, <<b>>)
    /\ NextItem(w)
    /\ UNCHANGED <<emails, parsed, memory>>

\* The unique key (user, vendor, number) decides: created or duplicate.
SaveIfAbsent(w) ==
    LET b == BillingOf(Head(todo[w])) IN
    /\ AtItem(w, workflowStageBilling)
    /\ Validate(Head(todo[w]).item)
    /\ \/ /\ \A c \in billings : ~SameIdentity(b, c)
          /\ billings' = billings \union {b}
          /\ Emit(w, <<b>>)
       \/ /\ \E c \in billings : SameIdentity(b, c)
          /\ BusinessFailure(w)
          /\ UNCHANGED billings
    /\ NextItem(w)
    /\ UNCHANGED <<emails, parsed, memory>>

\* The transaction errors: rolled back, or committed with its reply lost.
SaveBillingFails(w) ==
    LET b == BillingOf(Head(todo[w])) IN
    /\ AtItem(w, workflowStageBilling)
    /\ Validate(Head(todo[w]).item)
    /\ TechnicalFailure(w)
    /\ \/ UNCHANGED billings
       \/ /\ "lost_reply" \in Faults
          /\ \A c \in billings : ~SameIdentity(b, c)
          /\ billings' = billings \union {b}
    /\ NextItem(w)
    /\ UNCHANGED <<emails, parsed, memory>>

---------------------------------------------------------------------------

\* The stage has handled all its inputs: its result goes to the workflow,
\* its outputs become the inputs of the next stage.
ReturnResult(w) ==
    /\ todo[w] = <<>> /\ step[w] = "items"
    /\ StageReturns(w, [out |-> Len(outs[w]),
                        seen |-> IF stage[w] = workflowStageFetch
                                 THEN Cardinality(known[w]) ELSE 0,
                        bus |-> tally[w].bus, tech |-> tally[w].tech])
    /\ todo' = [todo EXCEPT ![w] = outs[w]]
    /\ outs' = [outs EXCEPT ![w] = <<>>]
    /\ tally' = [tally EXCEPT ![w] = NoTally]
    /\ UNCHANGED <<tables, memory, step>>

StageStep(w) ==
    \/ Fetch(w) \/ InsertChunk(w) \/ InsertChunkFails(w) \/ ReadBack(w)
    \/ Analyze(w) \/ AnalyzeFails(w)
    \/ ResolveVendor(w) \/ EvaluateEligibility(w)
    \/ BuildBillingFails(w) \/ SaveIfAbsent(w) \/ SaveBillingFails(w)
    \/ ReturnResult(w)

\* Every step of the workflow around the stages; a stage error or a panic
\* may come at any point of the stage, after its writes so far.
Around ==
    /\ \/ \E w \in Workflows : RejectStart(w) \/ CreateQueued(w) \/ Control(w)
       \/ Crash
       \/ Finished
    /\ UNCHANGED <<tables, memory, progress>>

PipelineNext == Around \/ \E w \in Workflows : StageStep(w)

PipelineSpec == PipelineInit /\ [][PipelineNext]_pipelineVars

---------------------------------------------------------------------------
(* Properties.                                                             *)

(***************************************************************************)
(* The stages keep the contract the workflow counts on: whatever the runs  *)
(* do to the shared tables, this specification implements                  *)
(* ManualMailWorkflow with the results of its stages left open.            *)
(***************************************************************************)
ImplementsWorkflow == Spec

(***************************************************************************)
(* An email is created by at most one run, so at most one run analyses it  *)
(* and bills it, however the INSERTs and read-backs of the runs interleave *)
(* (email_repository.go: created iff created_run_id is the run's own).     *)
(***************************************************************************)
EmailHasOneRun ==
    /\ \A v, w \in Workflows : v # w => created[v] \intersect created[w] = {}
    /\ \A w \in Workflows : \A m \in created[w] : emails[m] = w /\ m \notin known[w]

(***************************************************************************)
(* The created count of a completed row is the number of billings whose    *)
(* source email that run stored: runs that race for one identity neither   *)
(* lose nor double count it (docs/spec/billing/design.md:274).  Where      *)
(* replies get lost, the table may hold more, but never more than the row  *)
(* counts as created or as technical failures.                             *)
(***************************************************************************)
BillingCountsMatchTable ==
    \A w \in Workflows :
        row[w].status \in {"succeeded", "partial_success"} =>
            LET p == row[w].progress[workflowStageBilling]
                stored == Cardinality({b \in billings : emails[b.msg] = w})
            IN  IF "lost_reply" \in Faults
                THEN stored \in p.succ..(p.succ + p.tech)
                ELSE stored = p.succ

(***************************************************************************)
(* A billing's identity is unique, its source email is stored and has a    *)
(* parsed result, and the run that stored the email is the one that billed *)
(* it: it had the email among its created ones.                            *)
(***************************************************************************)
BillingsAreSound ==
    /\ \A b, c \in billings : SameIdentity(b, c) => b = c
    /\ \A b \in billings :
         /\ emails[b.msg] # NoRun
         /\ b.msg \in parsed /\ b.msg \in created[emails[b.msg]]

(***************************************************************************)
(* What passes BillingEligibility can be built by NewBilling, in spite of  *)
(* the conversions between the two, but for a malformed invoice number and *)
(* the zero date, which only NewBilling looks at.                          *)
(***************************************************************************)
EligibleItemsAreBillable ==
    \A w \in Workflows : InStage(w, workflowStageBilling) =>
        \A i \in DOMAIN todo[w] :
            LET e == todo[w][i].item IN
            \/ Validate(e)
            \/ NewInvoiceNumber(e.invoice) \notin ValidInvoices \union {Nil}
            \/ e.date = 0

(***************************************************************************)
(* A stored billing can be shown and summed up: it has a product name, an  *)
(* invoice number only of the right form, and line items that all have a   *)
(* currency, whatever the mail left out.                                   *)
(***************************************************************************)
BillingsAreComplete ==
    \A b \in billings :
        /\ b.billing.product # Nil
        /\ b.billing.invoice # Nil => b.billing.invoice \in ValidInvoices
        /\ DOMAIN b.billing.lineItems # {}
        /\ \A k \in DOMAIN b.billing.lineItems : b.billing.lineItems[k].currency # Nil

(***************************************************************************)
(* What messageForAnalysisFailed promises ("run again after a while",      *)
(* mailanalysis/application/usecase.go:386): a later fetch of an email     *)
(* whose analysis failed does not pass it over as already known.           *)
(***************************************************************************)
RerunPicksUpFailedEmails ==
    [][\A w \in Workflows :
         (known'[w] \ known[w]) \intersect (unanalyzed \ parsed) = {}]_pipelineVars

---------------------------------------------------------------------------
(* The inductive invariant.                                                *)

\* What EvaluateEligibility passes on.
EligibleItems ==
    {EligibleItem(p) : p \in {q \in ParsedEmails : NormalizeParsedEmail(q) = q /\ Evaluate(q)}}

\* The messages of run w that have a row in parsed_emails.
Analyzed(w) == created[w] \intersect parsed

\* What stage s of run w can be given; billings are what the last one stores.
Inputs(w, s) ==
    CASE s = 2 -> created[w]
      [] s = 3 -> [msg : Analyzed(w), pos : Nat, data : ParsedEmails]
      [] s = 4 -> [vendor : Vendors, msg : Analyzed(w), pos : Nat, data : ParsedEmails]
      [] s = 5 -> [vendor : Vendors, msg : Analyzed(w), pos : Nat, item : EligibleItems]
      [] s = 6 -> billings

PipelineTypes ==
    /\ emails \in [Messages -> Workflows \union {NoRun}]
    /\ parsed \subseteq Messages /\ IsFiniteSet(billings)
    /\ created \in [Workflows -> SUBSET Messages]
    /\ known \in [Workflows -> SUBSET Messages]
    /\ DOMAIN todo = Workflows /\ DOMAIN outs = Workflows
    /\ tally \in [Workflows -> [bus : Nat, tech : Nat]]
    /\ step \in [Workflows -> {"list", "items", "readback"}]

Untouched(w) ==
    /\ created[w] = {} /\ known[w] = {}
    /\ todo[w] = <<>> /\ outs[w] = <<>> /\ tally[w] = NoTally /\ step[w] = "list"

\* A message is yet to be saved, or created, known or failed; where it came
\* twice, its second copy has failed in addition.
Fetching(w) ==
    IF step[w] = "list" THEN Untouched(w)
    ELSE /\ todo[w] \in Seq(Messages) /\ IsInjective(todo[w])
         /\ \A i \in DOMAIN todo[w] : todo[w][i] \notin created[w] \union known[w]
         /\ outs[w] \in Seq(created[w])
         /\ tally[w].bus = 0
         /\ Len(todo[w]) + Len(outs[w]) <= Len(Mailbox)
         /\ Len(todo[w]) + Len(outs[w]) + Cardinality(known[w]) + tally[w].tech
              <= 2 * Len(Mailbox)

\* Stage s of run w has given some of the n inputs their outcome.
Working(w, s) ==
    LET n == result[w][s - 1].out
        left == Len(todo[w]) + tally[w].tech
    IN
    /\ todo[w] \in Seq(Inputs(w, s)) /\ outs[w] \in Seq(Inputs(w, s + 1))
    /\ step[w] = "items"
    /\ s = workflowStageAnalysis =>
         /\ tally[w].bus = 0
         /\ left <= n /\ n <= left + Len(outs[w]) /\ n <= Len(Mailbox)
         /\ Len(outs[w]) = 0 <=> left = n
         /\ Len(outs[w]) <= MaxParsed * (n - left)
    /\ s > workflowStageAnalysis => left + Len(outs[w]) + tally[w].bus = n

\* What a run has in memory fits the point its workflow has reached.
MemoryTracksStage(w) ==
    /\ pc[w] \in {"idle", "dispatch", "fail_start"} => Untouched(w)
    /\ pc[w] \in {"mark", "exec"} =>
         IF stage[w] = workflowStageFetch THEN Fetching(w) ELSE Working(w, stage[w])
    /\ pc[w] = "save" =>
         outs[w] = <<>> /\ (stage[w] # workflowStageBilling => Working(w, stage[w] + 1))

OwnsCreated(w) ==
    /\ created[w] \intersect known[w] = {}
    /\ \A m \in created[w] : emails[m] = w

\* The billings with a source email that run w stored.
BilledBy(w) == {b \in billings : emails[b.msg] = w}

Counted(w, stored, failed) ==
    Cardinality(BilledBy(w)) \in
        stored..(stored + IF "lost_reply" \in Faults THEN failed ELSE 0)

\* Run w has stored the billings it counts, and perhaps some it counts failed.
TableTracksCounts(w) ==
    /\ \/ pc[w] \in {"idle", "dispatch", "fail_start"}
       \/ pc[w] \in {"mark", "exec"} /\ stage[w] # workflowStageBilling
       => BilledBy(w) = {}
    /\ pc[w] \in {"mark", "exec"} /\ stage[w] = workflowStageBilling =>
         Counted(w, Len(outs[w]), tally[w].tech)
    /\ pc[w] \in {"save", "complete"} \/ row[w].status \in Completed =>
         Counted(w, result[w][workflowStageBilling].out, result[w][workflowStageBilling].tech)

(***************************************************************************)
(* Every run has each message in one place, its memory fits the stage it   *)
(* is in, and the tables hold what the runs' memories and rows count.      *)
(***************************************************************************)
PipelineInv ==
    /\ IndInv /\ PipelineTypes
    /\ BillingsAreSound /\ BillingsAreComplete
    /\ \A w \in Workflows :
         OwnsCreated(w) /\ MemoryTracksStage(w) /\ TableTracksCounts(w)
===========================================================================
