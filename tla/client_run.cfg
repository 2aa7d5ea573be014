SPECIFICATION FairSpec
CONSTANTS
    Hops = 2
    Loads <- FewLoads
    OutCap = 1
    QueueCap = 1
    RepliesCap = 1
INVARIANTS
    KeysOutliveUsers
    CellsInTurn
    HonestNotRefused
    RefusalNamed
    NothingHeld
    ConfirmedFirst
PROPERTY
    Returns
CHECK_DEADLOCK FALSE
