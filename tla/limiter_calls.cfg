CONSTANTS
    c1 = c1
    c2 = c2
    c3 = c3
    Callers = {c1, c2, c3}
    NoCaller = NoCaller
    NoMessage = NoMessage
    messageIDs <- MCMessageIDs
    maxGmailDetailFetchWorkers = 2
    Windows <- TightWindows
    Backoff <- OneRetry
    MaxDelay = 1
    MaxRestarts = 1
    Faults = {"api_retryable", "redis_error", "redis_restart", "canceled"}
SPECIFICATION FairPoolSpec
INVARIANTS
    WindowsHold
    ResultsComplete
PROPERTY FetchReturns
