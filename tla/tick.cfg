SPECIFICATION FairTickSpec
CONSTANTS
    o1 = o1
    o2 = o2
    w1 = w1
    x1 = x1
    Op <- MCOp
    Protected <- MCProtected
    Plan <- MCPlan
    Executor <- MCExecutor
    Worker <- MCWorker
    Reconciler = {}
    Gate = {}
    MaxAttempts = 2
INVARIANTS
    PlanInOrder
PROPERTIES
    ControlIsKept
    CancelledEnds
    ApprovedActionIsTaken
CHECK_DEADLOCK FALSE
