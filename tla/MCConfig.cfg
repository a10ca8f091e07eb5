SPECIFICATION Spec
CONSTANTS
    Keys <- MCKeys
    RENAMED_ENV <- MCRenamed
    SearchPath <- MCSearchPath
    Invocations <- MCInvocations
    Disks <- MCDisks
    Contents <- MCContents
    MaxChanges = 2
    MaxU32 = 7
    MaxDrain = 3
    Defaults <- MCDefaults
    Unset = Unset
    ClientAdmin <- MCClientAdmin
INVARIANTS
    EffectiveWins
    FileIsFound
    PositionIsExact
    ClientsFindTheServer
CHECK_DEADLOCK FALSE
