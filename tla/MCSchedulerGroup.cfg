SPECIFICATION WorkingSpec
CONSTANTS
    out1 = out1
    NoRun = NoRun
    Self = Self
    Others = Others
    NoGroup = NoGroup
    Tasks <- SquadTasks
    Initial <- SquadInitial
    DependsOn <- SquadDeps
    Fragment <- SquadFragment
    GroupOf <- SquadMembership
    AwaitsGroup <- SquadBarriers
    LockNames <- TwoLocks
    LocksOf <- SquadLocks
    NeedsApproval = {"x"}
    Rank <- SquadRank
    Limit = 2
    MaxAttempts <- NoRetry
    MaxTasks = 9
    UsageBudget = FALSE
    ApprovalDeadline = FALSE
    Faults = {"planner"}
    Outsiders = {}
    OutsiderLocks <- NoOutsiders
    MaxStarts = 1
    MaxRevision = 1
INVARIANTS ExclusiveWork NeverStalled
PROPERTIES FinishedTasksKeepTheirDeps EndsOrAwaitsHuman
