SPECIFICATION FairSpec
CONSTANTS
    w1 = w1
    w2 = w2
    Worker = {w1, w2}
    MaxAttempts = 1
    MaxVerify = 2
    Exit = {"passes", "fails"}
INVARIANTS
    NoAutomaticRelaunch
    EndIsEarned
PROPERTIES
    StopsForGood
    RepairSettles
CHECK_DEADLOCK FALSE
