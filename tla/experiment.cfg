SPECIFICATION Spec
CONSTANTS
    Kinds = {"investigation", "retrieval"}
    Jobs = 3
    Case <- MCCase
    CaseOf <- MCCaseOf
    Baseline <- MCBaseline
    Versions = {"v1", "v2"}
INVARIANTS
    SpendingIsBounded
    EvidenceIsTrue
    CuratedAsReviewed
CHECK_DEADLOCK FALSE
