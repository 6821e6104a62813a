SPECIFICATION FairSpec
CONSTANTS
    o1 = o1
    x1 = x1
    x2 = x2
    r1 = r1
    Op <- MCOp
    Protected <- MCOp
    Executor <- MCExecutor
    Reconciler <- MCReconciler
    Gate = {"EMERGENCY_STOP"}
INVARIANTS
    AtMostOneRequest
    VerdictIsTrue
    DispatchedWasApproved
    TerminatedIsQuiet
    ResultIsTrue
PROPERTIES
    TerminatedIsFinal
    KeepsPromise
    UncertaintyIsEscalated
    EffectIsRecorded
CHECK_DEADLOCK FALSE
