SPECIFICATION Spec
CONSTANTS
    q1 = q1
    q2 = q2
    ip1 = ip1
    ip2 = ip2
    Queries = {q1, q2}
    Rank <- MCRank
    Actives <- MCActives
    Outside = Outside
    NoCut = NoCut
    Soa = Soa
    Hinfo = Hinfo
    Text = Text
    Nothing = Nothing
    MAX_LABELS = 5
    MAX_UDP_NO_EDNS = 1
    MIN_EDNS_PAYLOAD = 1
    MAX_EDNS_PAYLOAD = 3
    MAX_TCP = 3
    Limiter = TRUE
    MaxReplacements = 1
    Inputs <- MCInputs
INVARIANTS
    CountersAddUp
    NoRecordsForTheRefused
    WholeOrTruncated
    OneZonePerResponse
CHECK_DEADLOCK FALSE
