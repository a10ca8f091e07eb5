SPECIFICATION BuildSpec
CONSTANTS
    Outside = Outside
    NoCut = NoCut
    Soa = Soa
    Hinfo = Hinfo
    Text = Text
    garbage = garbage
    long = long
    TooLong = {long}
    Unparsable = {garbage}
    NoZone = NoZone
    ip1 = ip1
    ip2 = ip2
    Rank <- MCRank
    TypeCode <- MCTypeCode
    QueryNames <- MCNames
    QueryTypes <- MCTypes
    Suites <- MCSuites
    MAX_LABELS = 5
INVARIANTS
    LookupMatchesRFC
    DelegationsAreHonoured
    NothingSilentlyDropped
    RRsetsAreAtomic
    CountIsWhatIsServed
    ArenasAreSound
CHECK_DEADLOCK FALSE
