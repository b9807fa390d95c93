SPECIFICATION Spec
CONSTANTS
    Databases <- AllKinds
    MaxOffset = 4
    MaxRaises = 3
INVARIANTS NoDuplicate SomInOrder SinglematchOnce EveryMatchTold
