CONSTANTS
    WorldSize = 3
    Calls = 2
    Kinds = {"broadcast", "scatter", "scatter_limbs", "gather", "all_gather", "reduce", "all_reduce"}
    Roots = {1}
    Faults = {"wrong_type", "odd_layout", "opaque"}
    MayRaise = {0, 1, 2}
SPECIFICATION Spec
INVARIANTS
    CollectivesMeet
    RefusalsAgree
    ResultsAreExact
    MessagesMeetTheirCall
    OnlyRaisingStrands
CHECK_DEADLOCK FALSE
