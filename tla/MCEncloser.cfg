SPECIFICATION IndexSpec
CONSTANTS
    OriginDepths <- MCOrigins
    QueryLabels <- MCDepths
    ZoneDepths <- MCDepths
    Arenas <- MCArenas
    Queries <- MCQueries
    Seeds <- MCSeeds
    HASH_BITS = 6
INVARIANTS
    FindsDeepest
    IndexAnswers
PROPERTIES
    SearchesTheTree
CHECK_DEADLOCK FALSE
