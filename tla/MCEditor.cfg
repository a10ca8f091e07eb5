SPECIFICATION Spec
CONSTANTS
    e1 = e1
    e2 = e2
    Editors = {e1, e2}
    Original = Original
    Unset = Unset
    None = None
    Commands <- MCCommands
    Documents <- MCDocuments
    Starter <- MCStarter
    Days <- MCDays
    TrimmedName <- MCTrimmed
    UndottedName <- MCUndotted
    TooLong = {"long"}
    Unparsable = {"bad"}
    TEMP_NAME_ATTEMPTS = 2
    MaxLosses = 1
SYMMETRY EditorSymmetry
INVARIANTS
    TempsAccountedFor
    AlwaysComplete
    OnlyOverlapsLoseEdits
PROPERTIES
    EditsAreIdempotent
    SerialNeverGoesBack
CHECK_DEADLOCK FALSE
