SPECIFICATION TickSpec
CONSTANTS
    o1 = o1
    o2 = o2
    w1 = w1
    x1 = x1
    Op <- MCOp
    Protected <- MCProtected
    Plan <- MCPlan
    Executor <- MCExecutor
    Worker <- MCWorker
    Reconciler = {}
    Gate = {"APPROVER_GRANT"}
    MaxAttempts = 3
INVARIANTS
    FailureHasNoEffect
CHECK_DEADLOCK FALSE
