SPECIFICATION Spec
CONSTANTS
    k1 = k1
    k2 = k2
    k3 = k3
    w1 = w1
    w2 = w2
    Task <- MCThreeTask
    Worker <- MCWorker
    Nobody = Nobody
    Punctual = {}
    DefaultLimit = 2
    Limits = {1}
SYMMETRY Symmetry
INVARIANTS
    EveryDispatchIsLeased
CHECK_DEADLOCK FALSE
