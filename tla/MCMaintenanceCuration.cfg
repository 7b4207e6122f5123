SPECIFICATION Spec
CONSTANTS
    NoKey = NoKey
    d1 = d1
    d2 = d2
    u1 = u1
    Candidates = {"index", "curate"}
    Scoped = {"index"}
    External = {"curate"}
    CanYield = {"index"}
    Tickets = {d1}
    Users = {}
    Scopes <- BothScopes
    Wide = {"workspace-write"}
    Limit = 2
    Faults = {"call", "cancel", "stop"}
    Once = {"curate"}
    MaxRetries = 1
    MaxJobs = 1
INVARIANTS OneJobAtATime FollowedIsHeld
PROPERTIES SettledOnce
