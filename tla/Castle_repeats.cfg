SPECIFICATION Spec
CONSTANTS
    WordBits = 6
    ByteBits = 3
    Castles <- MCCastles
    WriteSizes <- MCWriteSizes
INVARIANTS
    FiresExactly
    AnswersExact
    LeftfixAnswer
    WithinCapacity
