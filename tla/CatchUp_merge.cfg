SPECIFICATION FairSpec
CONSTANTS
    Databases <- AllDatabases
    Lens = {2, 3}
    MaxOffset = 5
    MaxEvents = 3
    HaltAfter = {0, 2}
INVARIANTS NothingLeftBehind RoomForEnd OnlyOutfixesWait
PROPERTIES DeliversInOrder SeqPointsAdvance EventuallyDelivered
