SPECIFICATION Spec
CONSTANTS
    Tasks = {t1, t2}
    t1 = t1
    t2 = t2
    t3 = t3
    Milli = 2
    Capacity = 4
    Refill = 1
    Wrap = 10
    Guard = 5
    Stale = 3
    CasAttempts = 2
    MaxLaps = 1
SYMMETRY TaskSymmetry
INVARIANTS AdmissionBound NeverStarved
CHECK_DEADLOCK FALSE
