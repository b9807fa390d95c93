SPECIFICATION Spec
CONSTANTS
    s1 = s1
    s2 = s2
    Streams = {s1, s2}
    Subs <- TwoSubs
    Ops <- Tree
    Combs <- TwoCombs
    CombInfo <- Infos
    Single <- OneSingle
    Engines <- SharedEngines
    MaxOffset = 3
    MaxLength <- Lengths
INVARIANTS CombinationOffsets
