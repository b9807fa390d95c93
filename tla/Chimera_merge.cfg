CONSTANTS
    Databases <- MCDatabases
    Length = 3
    MaxScans = 2
SPECIFICATION Spec
INVARIANTS
    ExactMatches
    DeliveredInOrder
    QueueWithinCapacity
    CapturesOfQueued
    StartsAtCodepoint
    ReturnTells
PROPERTY
    NothingAfterStop
