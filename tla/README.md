# A TLA+ model of billingrse_backend

The server fetches a user's mail from Gmail, has a language model extract
billing data from it, finds the vendor of each billing, decides what is worth
billing and stores the billings. A user starts that as a *manual mail
workflow* over HTTP; it runs in the background of the server process and
leaves a history in MySQL. This directory models the parts of the server where
steps of several actors meet, checks them with TLC on small instances and
proves with TLAPS, for instances of every size, every safety property that a
passing run checks.

Source paths below are relative to `src/internal/`. `PROJECT.json` maps every
definition to the lines it models and lists runs, mutants, findings, hazards
and theorems.

## Inventory

| Component | State | Operations | Interacts with |
|---|---|---|---|
| manual mail workflow (`manualmailworkflow`) | row of `manual_mail_workflow_histories`, its `..._stage_failures`; the runner's `Result` | `Start` (validate, snapshot the connection, `CreateQueued`, `Dispatch`, compensating `Fail`), `Execute` (five times `MarkRunning`, stage, `SaveStageProgress`; `Complete`; `Fail`), `List` (reads) | calls the five stages through adapters; a goroutine per workflow |
| mail fetch (`mailfetch`) | table `emails` (unique per user, provider and message); a Gmail session and a worker pool per run | look the connection up, build a session, list messages, read them in a pool of workers, save in chunks, read back | connections, Gmail client, limiter |
| mail analysis (`mailanalysis`) | table `parsed_emails` | analyse each email in a goroutine of its own, fallback billing numbers, `SaveAll` | OpenAI client, limiter |
| vendor resolution (`vendorresolution`) | tables `vendors`, `vendor_aliases` | look a candidate up, decide, register an unknown name in a transaction (`EnsureByPlan`) | policy in `common/domain/vendor_resolution.go` |
| billing eligibility (`billingeligibility`) | none | evaluate each resolved item, convert it to an eligible one | policy in `common/domain/billing_eligibility.go` |
| billing (`billing`) | tables `billings`, `billing_line_items` (unique per user, vendor and number) | `NewBilling`, `SaveIfAbsent` | `common/domain/billing.go` and its value types |
| rate limiter (`library/ratelimit`, `library/redis`, `library/retry`) | counters per second in Redis, script cache of the client and its mutex | `Wait`, Lua script, reload of a lost script, retry with backoff | used by the Gmail and OpenAI clients |
| mail account connection (`mailaccountconnection`) | table `email_credentials`: pending OAuth states and token rows | `Authorize`, `Callback`, `Disconnect`, `ListConnections` (reads) | Google OAuth and profile, vault |
| auth: registration (`auth`) | tables `users` (unique address) and `email_verification_tokens` (one per user) | `Register` with its compensation, `ResendVerificationEmail`, `VerifyEmail` | mailer |
| auth: sessions (`auth`) | table `auth_refresh_tokens` | `LoginTokens`, `Refresh` (rotation in a transaction), `Logout` | cookies |
| auth middleware (`app/middleware`) | none; access tokens are held by clients | `Authenticate` in front of every route but login, registration, verification, resend, refresh and logout | table `users` |
| queries (`billingquery`, `dashboardquery`, workflow list) | none | list, month detail, trend, dashboard, history list; read-only SQL | tables of billing, analysis and workflow |
| controllers, DI, logging, MySQL and Redis connections, migrations, dev tools | none of their own | conversion and wiring | |

The hard behaviours, and what has to hold in spite of them:

* **A background goroutine is the only owner of a history row.** Everything
  between two writes may fail, the process may die, a reply may be lost after
  the commit; no UPDATE tests the status it overwrites. Ended rows must be
  consistent and final, unfinished ones must be owned, and each has to end.
* **Five stages hand lists to each other** through adapters that rebuild them,
  and count what they drop. Counts, failure rows and tables must agree, and no
  item may vanish.
* **Several workflows of one user run at once** on the same tables, with no
  transaction around a stage. An email and a billing identity must belong to
  one of them.
* **Registration of a vendor** races with registrations of the same name, under
  InnoDB row locks and REPEATABLE READ snapshots.
* **The limiter** reads the clock in the application and decides in Redis;
  rejected attempts are counted; the script may be lost and reloaded.
* **The OAuth callback** makes several database calls and two calls to Google
  without a transaction; requests are repeated and interleave with removals.
* **Four packages judge one candidate.** Analysis normalizes and bounds it,
  eligibility applies its rules, the billing validates them again, and the
  queries sum up what was stored, each on its own idea of blanks, capitals,
  missing currencies and dates. What one accepts the next must not refuse, and
  all reports must tell the same.
* **Resolution reads the alias master in four queries** while aliases are
  added. A decision must follow from what was there, and a name may not end up
  with two vendors.
* **A refresh token is sent by several requests at once**, and a registration
  undoes itself call by call while its mail may already have been read. Its
  account may log in at any moment; the access token outlives what it was
  issued for.
* **A run looks its connection up three times**, and builds its Gmail session on
  a client all runs share, while the connection is removed and linked again.
* **Details of mails are fetched by a pool of goroutines** over an unbuffered
  channel, each of whose calls may be held back by the limiter.
* **Readers issue several statements** while runs write: the history list counts
  rows, reads a page and reads the failures of that page.

## Modules

| Module | Models |
|---|---|
| `WorkflowLifecycle` | abstract: the documented state diagram of a history row |
| `ManualMailWorkflow` | `Start`, dispatcher, `Execute` and the repository; stages as their contract |
| `WorkflowHistoryList` | extends `ManualMailWorkflow`; the list of histories, statement by statement, among the runs' steps |
| `BillingRules` | the data of a candidate: normalization, bounds, `Evaluate`, `NewBilling`, as operators |
| `MailPipeline` | extends `ManualMailWorkflow` and `BillingRules`; the stages' own steps on the shared tables, in place of the contract |
| `MailPipeline_proofs` | theorems of `ManualMailWorkflow`, `WorkflowHistoryList`, `BillingRules` and `MailPipeline` |
| `BillingQueries` | list, month detail, trend and dashboard counts, as operators on stored billings |
| `BillingReports` | composes `MailPipeline` and `BillingQueries` |
| `BillingReports_proofs` | theorems of both |
| `VendorResolution`, `VendorResolution_proofs` | `FetchFacts` query by query, the policy, registration of unknown names |
| `VendorRegistration`, `VendorRegistration_proofs` | concurrent `EnsureByPlan` transactions |
| `RateLimiter` | limiter, script, reload, retry loop |
| `DetailFetchPool` | extends `RateLimiter`; the worker pool whose calls the limiter holds back |
| `RateLimiter_proofs` | theorems of both |
| `MailAccountConnection` | `Authorize`, `Callback`, `Disconnect` |
| `MailboxAccess` | extends `MailAccountConnection`; the runs that use a connection |
| `MailAccountConnection_proofs` | theorems of both |
| `AuthSessions`, `AuthSessions_proofs` | login, rotation and revocation of refresh tokens |
| `EmailVerification` | registration, resend, verification |
| `ResendLimit` | extends `EmailVerification` by the history its limit is stated over |
| `AccessTokens` | extends `ResendLimit`; login, access token and auth middleware |
| `EmailVerification_proofs` | theorems of the three |
| `MCWorkflow`, `MCPipeline`, `MCVendor`, `MCVendorResolution`, `MCRateLimiter`, `MCConnection`, `MCSessions`, `MCVerification` | instances for TLC |

Operators named `...Forgets`, `...Unchecked` and the like, each marked *Mutant*
in its comment, are wrong variants of the definition below them. They are not
part of any specification: put in its place they show that a property notices
the bug they describe.

### ManualMailWorkflow

`row[w]` is the history row with its stage columns, `pc[w]` the place of the
request or the runner, `stage[w]` and `result[w]` the runner's `currentStage`
and `Result`. One action per repository call (`CreateQueued`, `MarkRunning`,
`SaveStageProgress`, `Complete`, `FailStart`, `FailWorkflow`), plus the
dispatcher, the return or error of a stage and `Crash`. `Applied` and `Errored`
give each call its outcomes: applied; failed without effect; applied with the
reply lost. Which failures happen is the constant `Faults`, so that a run or a
theorem says exactly which it tolerates. Counts are numbers of items: a stage
result is `out` (handed on), `seen` (known emails, fetch only), `bus`
(unresolved, ineligible, duplicate) and `tech`. `StageResults` is the contract
the rest of the code relies on. A panic in a stage has the same effect as an
error and is part of `StageErrors`.

### WorkflowHistoryList

The request counts (`CountHistories`), reads a page (`FindPage`) and reads the
failure rows of that page (`FindFailures`), with any steps of the workflows in
between; `NormalizeListQuery` and `ValidateListQuery` are those of the query, and
`NewestFirst` is the ORDER BY of the page. What makes the
answer whole is the order of the statements together with the runner's: a row
is read before its failures, and the runner never takes back a failure it has
counted.

### MailPipeline

Reuses the actions above and replaces `Stage` by the stages' steps: `Fetch`,
`InsertChunk`/`ReadBack` per chunk of `saveBatchSize`, `Analyze`,
`ResolveVendor`, `EvaluateEligibility`, `SaveIfAbsent`, each with its failures.
Every database call is a step of its own, so runs interleave between them. The
goroutines inside a stage (one per email in analysis) do not share state and
their results are put back in input order, so they are taken one at a time.
`ImplementsWorkflow == Spec` says that the stages keep the contract, i.e. that
this specification implements `ManualMailWorkflow`.

A candidate's data goes through the operators of `BillingRules` on its way;
`ResolutionTarget`, `EligibilityTarget` and `CreationTarget` are the adapters
between the stages.

### BillingRules

Texts are uninterpreted; trimming, upper case and the joining of a payment
cycle's words are functions on them, of which `FoldAssumption` says what the
code relies on (each settles a text; trimming and folding do not undo each
other). An amount is an integer: `Thousandth` is the last decimal that may be
used, `Tolerance` the error `validateOptionalAmount` lets pass, so an amount can
be within the bounds of the row and still be refused by `NormalizeAmount`. A
date is the number of its month, 0 the zero time. Line items are a function from
positions, since what matters is which are dropped, not how they are renumbered.

### BillingQueries and BillingReports

A billing has no amount of its own, so all sums are of line items.
`JoinedItems` is the join both SQL statements of the month page start from,
`Aggregate` their SELECT list. `BillingReports` states what the four read models
have to agree on in every state the pipeline can reach. Each operator sees one
state of the table; see below for what two statements may see.

### VendorResolution

One action per query of `FetchFacts`, then `Decide` and, for an unknown name,
`EnsureByPlan` as one step. Aliases are kept in the order of their ids; the facts
of a run are, per rule, the ids its query returned, since the policy compares
ids and lengths but no positions. `AddAlias` is the administrator's change to the
master; no code in the repository adds aliases other than names.

### VendorRegistration

A transaction per target: `findVendorByNormalizedName` takes the snapshot;
`createVendor` is an INSERT that waits for another transaction's uncommitted
row of the same name and is ignored on a conflict; `Reread` looks into the
snapshot; `ensureAliases` does the same for the alias; commit or rollback
releases the locks. InnoDB is modelled from how the code uses it (external in
the map): unique keys, row locks held to the end of the transaction, a snapshot
taken by the first read.

### RateLimiter

Time is kept as *ages* in whole seconds, as the script sees it: age 0 is the
current second and `Tick` makes everything older, so no clock has to be bounded.
`MaxDelay` is the number of seconds that may turn between `clock.Now` and the
script. A key lives for the largest window plus one second, hence with
`MaxDelay <= 1` nothing the script reads has expired.

`admitted`, `late` and `restarts` are observations per age: the calls let
through, those of them whose second was over by then, and the restarts of
Redis. A restart empties Redis (`counts`, `loaded`) and takes none of them back,
so that what was let through on both sides of it counts together. `MaxRestarts`
bounds the restarts within the largest window.

### DetailFetchPool

`busy` are the indexes workers are at, `next` the one the caller offers; a send
and a receive on the unbuffered channel are one step (`TakeJob`). A call may
only step while a worker is in it (`PoolCall`), and its end is stored at its
own index. `analyzeEmailsConcurrently` is the case of a worker per item.

### MailAccountConnection

A callback is named by `Callbacks`; its name also stands for the tokens it
obtains, which lets a property say whose tokens a row holds. The steps are the
database calls of `Callback`, with Google's answer (`Exchange`) in between.

### MailboxAccess

`run[r]` holds what a run has read: the account in its history
(`resolveConnectionSnapshot`), the one its emails are stored under
(`FindUsableConnection`) and the tokens of its session (`Build`). Each lookup is
a step among those of callbacks and removals.

### AuthSessions

A request creates at most one token and lends it its name. `status`, `owner` and
`replacedBy` are the committed rows; a rotation has a SELECT (`SelectCurrent`),
an UPDATE that takes the row lock (`ReplaceCurrent`) and a COMMIT. `session` is
an observation: the login with which a token's chain of replacements began.

### EmailVerification

Again a request names the user, the token row and the token it creates. The
steps are the calls of the three use cases in their order, with the branch
`OnError` takes: for a registration into the compensation (`DeleteTokenByID`,
`DeleteUserByID`), for a resend into the error response. `SendFails` may have
delivered the mail (`mail_lost`). `TimePasses` ends windows and tokens.

### ResendLimit and AccessTokens

`disturbed` are the accounts whose requests overlapped, or of which a request
failed after its upsert had cleared the window, the two things the resend limit
does not withstand; for all others it holds. `access` is a client: a token with
the id of an account, and whether `Authenticate` has let a request with it
through.

## Runs

| Run | Instance | Checks | Shows |
|---|---|---|---|
| `workflow_faults` | 2 workflows, 1 item, all faults, a list request | `TerminalRowConsistent`, `IndInv`, `ListedRunsAreWhole` | an ended row agrees with itself whichever calls fail; the list is whole although its statements see different states |
| `workflow_ends` | 1 workflow, up to 3 items, refused dispatches and failing writes, fair | `ItemsAccountedFor`, `CountsMatchFailureRows`, `UnfinishedRowIsOwned`, `RowOnlyMovesForward`, `ImplementsLifecycle` | no item is lost and counts match failure rows; while the process lives and `Fail` works, every row is owned, moves forward only, follows the state diagram and ends |
| `pipeline_runs` | 2 runs, 2 messages with equal bodies, one email per INSERT | `EmailHasOneRun`, `BillingCountsMatchTable`, `BillingsAreSound`, `ImplementsWorkflow` | runs share the tables without sharing an email or a billing; the stage contract holds |
| `pipeline_lost_reply` | 2 runs, 1 message, up to 2 of 7 kinds of candidates, 2 vendors, lost replies | `BillingCountsMatchTable`, `EligibleItemsAreBillable`, `BillingsAreComplete`, `ReportsAgree`, `ListMatchesMonth` | counts match the table when calls fail after their effect; rules and reports agree on whatever the candidates left out |
| `pipeline_rerun` | 2 runs, 1 message | `RerunPicksUpFailedEmails` violated | finding 1 |
| `vendor_races` | 3 runs, 2 names, failures and lost commits, fair | `RegistrationInv`, `MasterConsistent`, `SameNameSameVendor`, `RegistrationsEnd` | vendor and alias are committed together, runs agree, nobody waits for ever |
| `vendor_conflict` | 2 runs, 1 name | `ConflictYieldsVendor` violated | finding 2 |
| `vendor_rules` | 2 runs, 4 mails, up to 2 aliases added meanwhile | `DecisionJustified`, `SameNameSameDecision` | each decision follows from aliases that were there, by the priority of the rules; one name, one vendor |
| `limiter_calls` | 3 messages, 2 workers, windows 1 s: 2 and 2 s: 3, one retry, Redis errors, a restart of Redis, cancellations, `MaxDelay` 1, fair | `WindowsHold`, `ResultsComplete`, `FetchReturns` | a window lets through its limit, once more for a restart of Redis since it began, and late calls, no others; results are in their places; the fetch returns, so nobody hangs in the limiter, on the script mutex or on the channel |
| `connection_races` | 2 users, 2 addresses, 2 states, 3 callbacks, 2 runs, errors, lost replies | `ConnectionInv`, `StateUsedOnce`, `TokensMatchConnection`, `RunReadsItsAccount` | a state is used once and by its user; tokens are stored where they belong; a run reads the mailbox its history names |
| `sessions` | 2 users, 4 requests, errors, lost replies, fair | `SessionInv`, `ChainsAreSound`, `EndedStaysEnded`, `RequestsAnswered` | a rotation leaves one usable token, an ended session stays ended, nobody waits for ever |
| `verification` | 2 addresses, 3 requests, 1 client, one resend per window, errors, mails delivered although sending errored | `VerificationInv`, `AnsweredAccountIsTheOnlyOne`, `LinkVerifiesItsAccount`, `FailedRegistrationLeavesNothing`, `ResendsLimited`, `AdmittedByOwnLink` | an address has one account, links verify their own account only, failed registrations leave nothing, the resend limit holds for requests one after the other, a token admits only to an account verified by its own link |

### Bounds, and why they are enough

* `workflow_ends` has three items, so that a stage can hand on, drop for business
  reasons and fail technically at once; what is summed is linear in them.
  `workflow_faults` has two workflows for a list to show and one item each; its
  invariants on rows are proved for every number of both. Its constraint
  `UntilAnswered` stops behaviours at the answer of the list, which later steps
  cannot change; the states before it are all those of the workflows.
  The dispatcher in the repository refuses a job only without a context or a
  runner, which the server's wiring excludes; the refusal is kept because `Start`
  handles it for any dispatcher.
* `pipeline_runs` has two runs because ownership is a question between pairs,
  and two messages with `saveBatchSize` 1 so that there are several chunks per
  run, interleaved with the other run's. Equal bodies make the fallback numbers
  collide. `MaxParsed` 2, in `pipeline_lost_reply`, makes two candidates of one
  mail collide. `MaxItems` there is an upper bound of what the stages produce.
  The seven candidates are listed in `MCPipeline`, one per way in which data can
  be missing, blank, malformed or out of bounds; two of them make billings in
  one month or two, of one vendor or two, in one currency or both. The window
  of the trend is scaled from 12 months to two, the vendors shown from five to
  one, the page to one billing, so that two billings fill more than each.
  Crashes are left to `workflow_faults`: to the tables, a run that stops for ever
  looks like one whose stage errors at that point, which both runs include.
* `vendor_races`: a third run can wait behind a waiting one; two names show
  that registrations of different names do not block each other.
* Limiter windows are the default `1:40,10:400,60:2400` scaled to one and two
  seconds; `Backoff` has one retry in place of three. Three messages for two
  workers make the caller wait for a worker and a worker take a second message;
  with their retries there are more calls than either window admits, and no more
  at once than the short one does. Without a restart each window fills up to what
  `WindowsHold` allows, late calls included; six calls are too few to use up the
  second limit a restart brings, which TLC reaches when the long window's limit
  is two, and which `LimiterHoldsWindows` covers for all windows.
* `vendor_rules`: two aliases added between the queries can create and break a
  tie; the mails have a known and an unknown name, senders and keywords of equal
  and of different length. `MCVendorResolution` lists them. That a shorter keyword
  does not break a tie of two longer ones needs a third and is covered by
  `DecisionsJustified` only.
* `sessions`: a login and three requests with its token are needed for a
  rotation to race with a rotation and a logout. `verification`: three requests
  are a registration, a rival for its address or a resend, and a verification; a
  registration and two resends are what a limit of one is about; every greater
  limit is covered by `ResendsAreLimited`. Requests and addresses are
  interchangeable there.
* `connection_races`: three callbacks on two states allow two requests with one
  state beside a request with the other. Since a state lets one callback through,
  at most two get to the rows: a second link racing with a link, or a link and a
  removal with a late writer. A second link *and* a late writer need three states,
  which with two runs is more than TLC explores in minutes; `TokensBelong` and
  `RunsReadTheirAccount` cover any number. Two runs are needed
  for one to disturb the other. Users, addresses, states, callbacks and runs are
  interchangeable (symmetry; only safety is checked).

Deadlock is checked in every run. Where the modelled work is over, the action
`Finished` stutters explicitly.

### Fairness

* `ManualMailWorkflow!FairSpec`: the steps are those of a process that lives
  (`Serve`, which is `Next` without `Crash`), with weak fairness of the steps of
  each goroutine once the row exists. The Go scheduler is preemptive, and database and stage
  calls return or time out. Nothing is assumed of users. The fair
  action contains failures as alternatives, and no failure is relied on.
* `VendorRegistration!FairSpec`: weak fairness of each run's own next statement;
  a lock that is free stays free for the waiter in the end. Failures are not
  part of the fair action.
* `AuthSessions!FairSpec`: weak fairness of the next step of a request that has
  arrived. InnoDB hands a row lock on when its holder ends, and a holder's own
  steps are fair. Arrivals, expiry and failures are not fair.
* `DetailFetchPool!FairPoolSpec`: time passes, each call that a worker is in and
  that can step does, and so do caller and workers. Errors, cancellations,
  retries and restarts are not fair.

## Proofs

All proofs are for arbitrary constants, under the named assumptions of the
modules that declare them, which TLC evaluates in the runs:

* `Faults` is a set of known faults; the values that stand for "none" are not
  members of the sets they complete; bounds and limits are numbers.
* `PipelineAssumption`: a mailbox names each message once, candidates have the
  types of `ParsedEmail` and finitely many line items, vendors are the numbers of
  their rows, and `MaxItems` is large enough for what the mailbox can
  produce, so that the contract's bound never cuts a stage off.
* `QueryAssumption` and `ReportsAssumption`: the trend's window and a page are
  not empty, the number of vendors shown may be zero; a month asked for is not
  the zero time. In the code the window is 12 months, five vendors are shown, and
  the query objects refuse other limits and months.
* `FoldAssumption`: what trimming and folding do to texts (see `BillingRules`).
* `MailsAssumption`: keywords are not blank and have a length; `Vendors` contains
  the vendor each name would be registered as.
* `MineAssumption` and `RequestsAssumption`: a user has finitely many histories,
  and finitely many requests arrive. Both are counted by the code.
  `ListQueriesAssumption` is the type the controller parses queries into.
* `WindowsAssumption`: there is at least one window.
  `NewLimiterWithWindows` puts the default in place of an empty list
  (`library/ratelimit/limiter_redis/limiter.go:53`).

Theorems carry results from a component to its compositions:
`ListsOnlyRead` (`ListSpec => Spec`), `PoolCallsAreCalls` (`PoolSpec => Spec`) and
`AccessOnlyReads` (`AccessSpec => ResendSpec /\ Spec`); `WorkflowRefined` does the
same for the pipeline.

**ManualMailWorkflow.** `IndInv` is a type invariant and, per workflow, four
named parts: `RowTracksRunner` (the row is what the calls up to `pc` have
written), `ResultsInOrder` (the results form an unbroken chain of stages, each
within the contract for what the one before produced), `ProgressTracksResults`
(each stage's columns are its result or nothing, written in order) and
`RowHasOwner`. They are needed because the status of a completed row is derived
from the runner's memory, while the properties speak of the row alone: only the
chain of results between the two connects them, including after a lost reply,
when the row may be ahead of the runner. The theorems: `TypeCorrect`,
`TerminalRows`, `ItemsConserved` and `FailureRowsMatch` under all faults;
`RowsMoveForward` and `LifecycleRefined` (refinement of `WorkflowLifecycle`'s
safety part) without lost replies; `RowsAreOwned` without lost replies, failing
`Fail` writes and crashes. The hypotheses on `Faults` are necessary: TLC finds a
counterexample as soon as one is dropped.

**WorkflowHistoryList.** `ListInv` is `IndInv` and what the statements already
made have left behind: the rows counted are still there, and each item read
still *holds*, i.e. counts no more failures than the row has now, and exactly
those once the item shows an ended run. The step that carries it is that failure
rows and counts never shrink and stay as they are once a run has ended, under
every fault (lemma `RowsGrow`). That a page can be put in order at all is proved
by giving each history its place, the number of histories not older, which a
counting argument shows to be a bijection. Theorems: `ListInvariance`,
`ListsAreWhole`, `ListsOnlyRead`.

**MailPipeline.** `PipelineInv` adds to `IndInv` the types of the lists under
way and three parts per run: `OwnsCreated` (emails a run believes it created
carry its id), `MemoryTracksStage` (what is still to be handled, what was
produced and what failed add up to what the stage was given, and each item has
the form its stage relies on) and `TableTracksCounts` (the billings stored for a
run's emails are those it has counted, up to its technical failures where
replies get lost), together with `BillingsAreSound` and `BillingsAreComplete`,
which say of the table what the next INSERT needs. The second is needed for the
refinement: a stage's result is within the contract because nothing was dropped
or doubled on the way through its list. Theorems: `PipelineInvariance`,
`WorkflowRefined`, and from them `OneRunPerEmail`, `BillingsSound`,
`BillingsComplete`, `EligibleBillable` and `BillingCountsTrue`, under all faults
and crashes, for any mailbox, chunk size, candidates and number of runs.

**VendorRegistration.** `RegistrationInv` ties the committed tables, each open
transaction's uncommitted rows, its locks and its snapshot together; from it
`MasterStaysConsistent` (a vendor is committed with its alias, and two names
never share one) and `RunsAgreeOnVendor`.

**VendorResolution.** `MasterInv` says that the unique key of `vendor_aliases`
holds, that the facts of a run are about its mail and, for each rule already
queried, complete as of the moment the run began (`FactsTrackMaster`), and that
a run reaches the registration only with a mail nothing decided
(`RegistersUndecided`). Completeness as of the beginning is the most that four
queries without a transaction can give, and it is what `DecisionJustified` is
stated over. For keywords, a later alias can contest any earlier one, so of the
keywords of the beginning the property asks that the chosen vendor has a longer
one than each rival, or, before a registration, that each was contested.
Theorems: `MasterInvariance`, `DecisionsJustified`, `SameNameSameVendor`.

**RateLimiter and DetailFetchPool.** `LimiterInv` has the types, that the mutex
is with the call that reloads the script and that, as long as Redis does not
restart, every admitted call was counted. `LimiterHoldsWindows` is proved for
every list of windows, number of calls and restarts, delay and set of faults.
`WindowsHold` is not inductive: a second later the window that ended now ends a
second ago, and the one that ends now has lost its oldest second. `WindowsInv`
therefore says it of every beginning of a window, and adds what the script's
verdict needs: the calls Redis does not count are the late ones and, for each
restart since, at most a limit. `DelayedWindows` bounds the late calls: as long as
Redis does not restart, a window lets at most twice its limit through. Its
invariant `DelayInv` adds that the current second alone is within every limit: a late
call finds a window within its limit that ends a second ago, so that this
second's calls are all it can go over by. `sumWindow` keeps running totals. That
two windows that read the same hold the same (`SumSame`), that one more call in
a second is one more in the windows that see it (`SumOneMore`), and the other
facts about totals are shown by taking the first total for which the claim
fails, which needs no induction rule. `PoolInv` says that every index
handed out is with a worker or has its result; with `PoolCallsAreCalls` both
theorems hold for the workers' calls. Theorems: `LimiterInvariance`,
`LimiterHoldsWindows`, `DelayedWindows`, `PoolCallsAreCalls`, `PoolInvariance`,
`PoolResultsComplete`.

**MailAccountConnection.** `ConnectionInv` adds to the two properties that row
ids are handed out once, that a row read by a callback, if its id is still in
the table, is still the row of that user and address, and that the address of
stored tokens is settled. This is why the write by id after an unprotected read
cannot put tokens into someone else's row. Theorems: `ConnectionInvariance`,
`StatesUsedOnce`, `TokensBelong`.

**MailboxAccess.** `AccessInv` adds, per run, that its connection id is one handed
out before and, as long as some row has it, the row of the run's user and of the
account in its history, and that the tokens of its session are settled ones of
that account. Since ids are never reused, a removal and a new link in between can
make a lookup fail but not find another mailbox. Theorems: `AccessInvariance`,
`RunsReadTheirAccount`.

**AuthSessions.** `SessionInv` says that rows exist exactly for requests that
got that far (`RowsTrackRequests`), that a row lock belongs to the rotation that
has written the row (`LocksHeld`), that every stored token has a session and
owner of its chain (`SessionsStored`), and `ChainsAreSound`. The locks are what
makes it inductive: without them two commits could replace the same token.
Theorems: `SessionInvariance`, `ChainsSound`, `SessionsStayEnded`.

**EmailVerification.** `VerificationInv` has three parts: a user row exists only
for a registration at the right place in its steps (`UsersTrackRegistrations`),
addresses are unique (`AddressesUnique`), and token rows, tokens read back, mails
sent and tokens about to be consumed all belong to the same account
(`TokensTrackAccounts`). The last one is why a consume by row id, after the row's
token was replaced, cannot verify another account. Theorems:
`VerificationInvariance`, `AnsweredAccounts`, `LinksVerifyOwnAccount` under every
fault; `FailedRegistrations` without lost replies and failing compensations.

**ResendLimit.** For an account that was not disturbed, `ResendInv` has at most one
request under way, and the open resends are counted by one window: the row's, or,
between the upsert that clears it and the last write that restores it, the one the
request carries, which counts one more (`LimitTracked`). `RowsTracked` keeps rows
and the ids requests hold with their accounts. Overlap and failure after the
upsert are exactly the steps at which neither window counts, hence `disturbed`.
Theorems: `ResendInvariance`, and `ResendsAreLimited` for every limit.

**AccessTokens.** `AdmissionInv`: a verified account has a request that
consumed a link mailed to it, and a client is admitted only to such an account,
even one that was deleted later. Theorems: `AdmissionInvariance`,
`AdmittedByLink`, `AccessOnlyReads`.

**BillingRules** (in `MailPipeline_proofs`). Proved for every candidate, not only
those of the runs: `NormalizationSettles` (normalizing twice is normalizing once),
`EligibleIsBillable` (what `Evaluate` accepts `NewBilling` builds, but for a
malformed invoice number and the zero date) and `EligibleIsComplete` (a product
name and a currency on every line item). They rest on lemmas that each
conversion settles, and on the well-foundedness of the naturals for the first
named line item.

**BillingReports.** `StoredRows` says what SQL relies on in a row: ids are
distinct and at most the number of rows, vendor and month have their types, the
line items are finitely many, each with an amount or none and a currency
that trimming and upper case leave alone. It is inductive together with
`PipelineInv`, from which an item that is about to be stored has a candidate
behind it (`RowsStored`). What is left is about one state of the table.

A sum is a fold over a finite set, and what a fold returns is usually shown by
induction. Here the smallest counterexample takes its place: inclusion is
well-founded on the subsets of a finite set, so if a sum were wrong for one of
them it would be for a smallest, and leaving one element out of that gives a
contradiction. So are shown that a fold may take any element first
(`SumTakes`), that the sums of two disjoint sets add up (`SumsAdd`), and that a set
summed class by class gives its sum (`SumByClass`), the rearrangement behind
every GROUP BY.

* `ReportsAgreed`: the join of billings and line items, grouped by vendor, gives
  the month (`VendorsAddUp`), also when the smallest vendors are folded into one
  (`VendorItemsAddUp`); the trend's bar is the same aggregate over a
  window that contains the month (`TrendIsDetail`).
* `ListMatched`: each billing of the month is on exactly one page
  (`PositionHasPage`, `PositionHasOnePage`), because the ORDER BY, which ends in the id,
  gives each row one place (`ListIsBijection`); and the amount a list shows for
  a billing of a single currency is what the month counts of it
  (`ListedIsAggregate`).

Theorems: `RowsStored`, `ReportsAgreed`, `ListMatched`, for any mailbox and
candidates, months, window, number of vendors shown and page size.

Only model-checked: liveness (`RegistrationsEnd`, `FetchReturns`,
`RequestsAnswered`, the fair part of `ImplementsLifecycle`), which TLAPS does not
cover. `StoredRows` and `DelayedWindowsHold` are proved and no run checks them: the
first is a step towards the reports, the second holds only without the restarts
that the run has, and was checked without them on its own.

## Findings

1. `pipeline_rerun`: an email whose analysis failed is known to the next run and
   passed over, although the failure message tells the user to run again.
2. `vendor_conflict`: the re-read after a lost race looks into the snapshot taken
   before it and fails the target, where the comment promises the vendor.

Smaller deviations met while modelling, without a run of their own:

* When the reply of `Complete` is lost, `failWorkflow` overwrites the succeeded
  row with failed (the reason why `RowsMoveForward` excludes lost replies).
* A fetch that finds only known emails adds a failure row that no count
  includes, which `docs/ddd/invariants.md:31` does not mention;
  `CountsMatchFailureRows` states what holds.
* A call whose clock value is a second old when the script runs is judged
  without the calls admitted in the new second, and comes on top of the limit, a
  window of three letting four through (`Late` in `WindowsHold`). `DelayedWindows`
  bounds the damage.
* A restart of Redis forgets the counters, so a window lets its limit through
  again: two calls, a restart, a reload of the script and two more calls in one
  second with a limit of two (`Restarts` in `WindowsHold`). `rate_limit.lua:15`
  promises a rejection "if any configured window would exceed its limit".
* `docs/ddd/invariants.md:15` says that a verification token is consumed once
  (メール認証トークンは1回のみ消費できる). Two `VerifyEmail` requests that both read
  it unconsumed both succeed, since `ConsumeTokenAndVerifyUser`
  (`auth/infrastructure/repository_tokens.go:201`) updates the row by its id
  without asking whether it was consumed; the same account is verified twice. No
  property says otherwise: `LinkVerifiesItsAccount` is about whose account it is.
* `Callback` without a new refresh token writes back the one it read, and can
  undo one stored meanwhile; and it reports success when the connection was
  removed between its read and its update (`UpdateCredentialTokens` ignores
  `RowsAffected`).
* After a crash or restart a row stays *running* although nothing executes it
  (`docs/spec/manualmailworkflow/basicDesign.md:160`); no start-up code looks at unfinished rows. This is
  why `RowsAreOwned` excludes crashes.
* Rejected attempts stay counted (`rate_limit.lua:53`), so enough waiting calls
  keep a longer window over its limit for ever. With the default windows this
  takes more than 400 concurrent calls; analysis starts one per email.
* Two rotations that both pass the SELECT fork a session into two chains, and a
  logout between a rotation's SELECT and its UPDATE does not end the session;
  `Ended` therefore asks that no rotation is past its SELECT.
* The resend limit is exceeded by overlapping resends, which read the window
  before either writes it, and forgotten when a resend fails after its upsert,
  which leaves the row without a window or deletes it. `ResendsLimited` excludes
  the accounts this happens to; TLC finds a counterexample for either when it is
  included (for the second, with five requests and a limit of two).
* Pages of the history list are separate requests with an offset: a workflow
  queued between two of them shifts the rows, and one is shown twice. Within a
  page with a status filter, `total_count` may name rows that have moved on.
* An access token stays valid after a logout until it expires, and a request
  admitted before the compensation deletes its account runs on without it.
* The compensation of a registration whose mail was delivered although sending
  errored deletes an account that may have been verified meanwhile.
* The header amount of a candidate is checked but has no column; amounts and
  currencies of line items are stored unchecked. A billing whose line items have
  no amount is stored without any, and one in another currency than JPY and USD
  is in no month, although `docs/ddd/ubiquitous-language/billing-vendor.md:72`
  asks that total and line items agree.
* An eligible item with a malformed invoice number or the zero date fails only in
  `NewBilling`, as a technical failure; one candidate over a bound fails all
  candidates of its mail.
* The total and the vendors of a month are read by two statements, like count
  and page of the list; a billing saved in between is in one and not the other.

## Not modelled

* Wire formats, prompts, the parsing of the model's answers, encryption,
  signatures and passwords: conversions of data no property here tells apart.
* Controllers other than what the workflow controller refuses, the CSRF check,
  request context and error catalog: one request in, one response out, without
  state that outlives it.
* DI container, logger, MySQL and secret clients: wiring and I/O, run once at
  start-up or without effect on the tables.
* `tools/`: the seeder writes fixed sample rows into an empty development
  database, `nplusonecheck` and `dicheck` analyse source code, the migrations
  declare the tables. Nothing of this runs beside the server. The unique keys the
  migrations declare are used in the modules.
* Free text search of the billing list and the dashboard's count of parsed
  emails: a filter and a single COUNT.

## Plan

Done: the workflow with its life cycle and its list, the stages on their tables
with the data of candidates, vendor resolution and registration, the limiter
with the pool of calls it holds back, connections and their use by runs,
sessions, verification with the resend limit, access tokens and the queries over
billings; every safety property of the passing runs proved, and the composed
modules tied to their components.

Next, in this order:

1. Readers of billings whose statements interleave with runs, on the tables of
   `MailPipeline`: total and vendors of a month are two statements.
2. The converse of `EligibleBillable`: which of the stored line items have no
   amount or a foreign currency, as a statement about the candidates.
