CONSTANTS
    w1 = w1
    w2 = w2
    Workflows = {w1, w2}
    Mine = {w1, w2}
    QueuedAt <- MCQueuedAt
    ListQueries <- MCListQueries
    MaxItems = 1
    Faults = {"dispatch_error", "write_error", "fail_write_error",
              "lost_reply", "crash"}
SPECIFICATION ListSpec
INVARIANTS
    TerminalRowConsistent
    IndInv
    ListedRunsAreWhole
CONSTRAINT
    UntilAnswered
