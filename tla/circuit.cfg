SPECIFICATION FairSpec
CONSTANTS
    r1 = r1
    r2 = r2
    o1 = o1
    t1 = t1
    t2 = t2
    t3 = t3
    Reader <- MCReader
    Operator = {o1}
    Token <- MCToken
    NoToken = NoToken
    DefaultLimit = 2
    Limits = {1}
    Attempts = 2
    MaxGeneration = 3
INVARIANTS
    OneProbe
PROPERTIES
    ClosesByProbe
    RecoversByItself
CHECK_DEADLOCK FALSE
