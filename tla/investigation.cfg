SPECIFICATION FairSpec
CONSTANTS
    w1 = w1
    w2 = w2
    d1 = d1
    d2 = d2
    Worker = {w1, w2}
    MaxRounds = 3
    Goal = "goal"
    Document = {d1, d2}
    Query <- MCQuery
    Normal <- MCNormal
    About <- MCAbout
    Maximum <- MCMaximum
    Source <- MCSource
INVARIANTS
    Reproducible
    OneReport
PROPERTIES
    NoWastedCall
    InvestigationEnds
CHECK_DEADLOCK FALSE
