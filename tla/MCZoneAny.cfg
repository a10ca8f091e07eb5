SPECIFICATION BuildSpec
CONSTANTS
    Outside = Outside
    NoCut = NoCut
    Soa = Soa
    Hinfo = Hinfo
    Text = Text
    garbage = garbage
    long = long
    TooLong = {long}
    Unparsable = {garbage}
    NoZone = NoZone
    ip1 = ip1
    ip2 = ip2
    Rank <- MCRank
    TypeCode <- MCTypeCode
    QueryNames <- MCNames
    QueryTypes <- MCTypes
    Suites <- CutSuites
    MAX_LABELS = 5
INVARIANTS
    AnyDeniesLikeOthers
CHECK_DEADLOCK FALSE
