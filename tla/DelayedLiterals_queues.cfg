SPECIFICATION Spec
CONSTANTS
    SlotCount = 4
    Databases <- AllTables
    LitLength = 1
    MaxOffset = 7
    MaxHits = 3
INVARIANTS PlayedInOrder PlayedOnce EveryMatchPlayed
