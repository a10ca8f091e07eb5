SPECIFICATION FairSpec
CONSTANTS
    Requests = {r1, r2, r3}
    Unauthorised = {r3}
    r1 = r1
    r2 = r2
    r3 = r3
    token = token
    v1 = v1
    v2 = v2
    Unset = Unset
    Unparseable = Unparseable
    Nothing = Nothing
    MaxEdits = 1
    Files <- AllFiles
    Boot <- MCBoot
    Origins <- MCOrigins
    Canonical <- MCCanonical
    LoneKeys <- MCLoneKeys
    MaxU32 = 7
    Settings <- MCSettings
    Cli <- MCCli
    Defaults <- MCDefaults
INVARIANTS ServedIsRunning NeverOlderThanServed AtMostOneLateInstall FixedHalfNeverMoves
CHECK_DEADLOCK FALSE
PROPERTIES KeepsPromise EveryRequestAnswered
