SPECIFICATION Spec
CONSTANTS
    run1 = run1
    run2 = run2
    direct = direct
    NoRun = NoRun
    Runs <- MCRuns
    Handles <- MCHandles
    LockNames <- MCLockNames
    RunOf <- MCRunOf
    Wants <- MCWants
INVARIANTS TypeOK Exclusive RegistryIsLiveHandles OwnersNameHolders
PROPERTIES ImplementsExclusiveLocks
