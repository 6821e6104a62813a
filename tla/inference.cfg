SPECIFICATION Spec
CONSTANTS
    t1 = t1
    c1 = c1
    c2 = c2
    q1 = q1
    q2 = q2
    q3 = q3
    d1 = d1
    w1 = w1
    w2 = w2
    None = None
    Task <- MCTask
    Call <- MCCall
    TaskOf <- MCTaskOf
    Request <- MCRequest
    Maximum <- MCMaximum
    Charge = {1, 3}
    Decision <- MCDecision
    Thread <- MCThread
    TaskBudget = 3
    DayBudget = 2
    LastDay = 1
SYMMETRY Symmetry
INVARIANTS
    OnePaidRequest
    ReturnedIsSaved
    BooksBalance
    MoneyIsCovered
CHECK_DEADLOCK FALSE
