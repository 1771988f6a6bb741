CONSTANTS
    m1 = m1
    m2 = m2
    Workflows = {w1, w2}
    MaxItems = 4
    Faults = {}
    Mailbox <- MCMailbox
    saveBatchSize = 1
    MaxParsed = 1
    Drafts <- MCPlainDrafts
    Texts <- MCTexts
    TrimSpace <- MCTrimSpace
    ToUpper <- MCToUpper
    JoinCycle <- MCJoinCycle
    TooLong <- MCTooLong
    ValidInvoices = {"T13"}
    Nil = Nil
    Thousandth = 10
    Tolerance = 1
    parsedEmailAmountMaxAbs = 1000
    BodyDigest <- MCBodyDigest
    ReceivedAt <- MCReceivedAt
    Months = {1, 2}
    PageSize = 1
    billingMonthlyTrendWindowSize = 2
    billingMonthDetailVendorLimit = 1
    Vendors = {1}
    NoRun = NoRun
SPECIFICATION PipelineSpec
SYMMETRY MCWorkflowSymmetry
INVARIANTS
    EmailHasOneRun
    BillingCountsMatchTable
    BillingsAreSound
PROPERTY ImplementsWorkflow
