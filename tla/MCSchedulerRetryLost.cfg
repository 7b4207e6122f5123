SPECIFICATION Spec
CONSTANTS
    out1 = out1
    NoRun = NoRun
    Self = Self
    Others = Others
    NoGroup = NoGroup
    Tasks <- ChainTasks
    Initial <- ChainTasks
    DependsOn <- ChainDeps
    Fragment <- NoFragments
    GroupOf <- NoGroups
    AwaitsGroup <- NoGroups
    LockNames <- TwoLocks
    LocksOf <- ChainLocks
    NeedsApproval = {}
    Rank <- ChainRank
    Limit = 2
    MaxAttempts <- RetryOne
    MaxTasks = 9
    UsageBudget = FALSE
    ApprovalDeadline = FALSE
    Faults = {}
    Outsiders = {out1}
    OutsiderLocks <- OnePage
    MaxStarts = 2
    MaxRevision = 0
INVARIANTS OkMeansDone
