CONSTANTS
    m1 = m1
    m2 = m2
    Workflows = {w1, w2}
    MaxItems = 3
    Faults = {"lost_reply"}
    Mailbox <- MCMailboxOne
    saveBatchSize = 2
    MaxParsed = 2
    Drafts <- MCDrafts
    Texts <- MCTexts
    TrimSpace <- MCTrimSpace
    ToUpper <- MCToUpper
    JoinCycle <- MCJoinCycle
    TooLong <- MCTooLong
    ValidInvoices = {"T13"}
    Nil = Nil
    Thousandth = 10
    Tolerance = 1
    parsedEmailAmountMaxAbs = 1000
    BodyDigest <- MCBodyDigest
    ReceivedAt <- MCReceivedAt
    Months = {1, 2}
    PageSize = 1
    billingMonthlyTrendWindowSize = 2
    billingMonthDetailVendorLimit = 1
    Vendors = {1, 2}
    NoRun = NoRun
SPECIFICATION PipelineSpec
SYMMETRY MCWorkflowSymmetry
INVARIANTS
    BillingCountsMatchTable
    EligibleItemsAreBillable
    BillingsAreComplete
    ReportsAgree
    ListMatchesMonth
