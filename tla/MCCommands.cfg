SPECIFICATION FairSpec
CONSTANTS
    c1 = c1
    c2 = c2
    Clients = {c1, c2}
    Setups <- MCSetups
    None = "none"
    Broken = {2}
    Large = {1}
    Missing = {2}
    Nothing = Nothing
INVARIANTS
    EditIsServed
    FailureIsHonest
    AdminTellsTheTruth
    WholeAnswer
    OnlyTheAllowedReload
PROPERTY CommandsEnd
CHECK_DEADLOCK FALSE
