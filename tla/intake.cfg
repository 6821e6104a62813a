SPECIFICATION FairSpec
CONSTANTS
    k1 = k1
    k2 = k2
    b1 = b1
    b2 = b2
    c1 = c1
    c2 = c2
    d1 = d1
    Key <- MCKey
    Body <- MCBody
    Release = {"old", "new"}
    Client <- MCClient
    Dispatcher <- MCDispatcher
    Serves <- MCServes
    MaxQueue = 1
    Batch = 1
INVARIANTS
    AnswerIsOwn
    QueueKeepsLimit
PROPERTIES
    EveryTaskIsStarted
CHECK_DEADLOCK FALSE
