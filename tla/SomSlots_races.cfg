SPECIFICATION Spec
CONSTANTS
    Slots <- Two
    Layouts <- Pairs
    Horizon = 2
    MaxOffset = 3
INVARIANTS SlotsResolved
