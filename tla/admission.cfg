SPECIFICATION FairSpec
CONSTANTS
    k1 = k1
    k2 = k2
    k3 = k3
    w1 = w1
    w2 = w2
    Task <- MCTask
    Worker <- MCWorker
    Nobody = Nobody
    Punctual <- MCPunctual
    DefaultLimit = 1
    Limits = {2}
INVARIANTS
    CurrentTickHoldsLease
PROPERTIES
    GrantsInTurn
    EveryTicketIsServed
CHECK_DEADLOCK FALSE
