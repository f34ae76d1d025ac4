CONSTANTS
    WorldSize = 3
    Calls = 1
    Kinds = {"all_gather"}
    Roots = {1}
    Faults = {"wrong_type"}
    MayRaise = {}
SPECIFICATION Spec
INVARIANT NobodyWaitsForever
CHECK_DEADLOCK FALSE
