CONSTANTS
    WorldSize = 6
    Root = 4
    MayRaise = {4, 0}
SPECIFICATION FairSpec
INVARIANTS
    TypeOK
    RootHoldsTheSum
    NothingLeftOnTheWire
PROPERTY EveryRankReturns
CHECK_DEADLOCK FALSE
