SPECIFICATION FairSpec
CONSTANTS
    out1 = out1
    NoRun = NoRun
    Self = Self
    Others = Others
    NoGroup = NoGroup
    Tasks <- ChainTasks
    Initial <- ChainTasks
    DependsOn <- ChainDeps
    Fragment <- NoFragments
    GroupOf <- NoGroups
    AwaitsGroup <- EmptyBarrier
    LockNames <- TwoLocks
    LocksOf <- ChainLocks
    NeedsApproval = {"c"}
    Rank <- ChainRank
    Limit = 2
    MaxAttempts <- RetryC
    MaxTasks = 2
    UsageBudget = TRUE
    ApprovalDeadline = TRUE
    Faults = {"call", "timeout"}
    Outsiders = {out1}
    OutsiderLocks <- OnePage
    MaxStarts = 2
    MaxRevision = 0
INVARIANTS TypeOK NothingLeftBehind StartsBounded SkippedForCause CancelReachesJobs BudgetBoundsWork
PROPERTIES AbortEndsRun
