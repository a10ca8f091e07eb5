SPECIFICATION Spec
CONSTANTS
    e1 = e1
    e2 = e2
    Editors = {e1}
    Original = Original
    Unset = Unset
    None = None
    Commands <- ReplaceOnly
    Documents <- MCDocuments
    Starter <- MCStarter
    Days <- MCDays
    TrimmedName <- MCTrimmed
    UndottedName <- MCUndotted
    TooLong = {"long"}
    Unparsable = {"bad"}
    TEMP_NAME_ATTEMPTS = 2
    MaxLosses = 0
INVARIANTS
    ReplaceOverwrites
CHECK_DEADLOCK FALSE
