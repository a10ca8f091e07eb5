SPECIFICATION FairSpec
CONSTANTS
    Queries = {q1, q2}
    q1 = q1
    q2 = q2
    Window = 1
    StopBudget = 3
    QuiesceCap = 1
    QuiescePoll = 1
    AdminBudget = 1
    Grace = 1
    MaxSignals = 1
CHECK_DEADLOCK FALSE
INVARIANTS CancelledInOrder SocketsGoOnTime ExitCodeTruthful
PROPERTIES ProcessEnds
