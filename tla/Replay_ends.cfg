SPECIFICATION FairSpec
CONSTANTS
    b1 = b1  b2 = b2
    Nil = Nil
    Garbled = Garbled
    Board = {b1}
    LookupAnswer <- MCLookupAnswer
    WriteAnswer <- MCWriteAnswer
    Patch <- TwoPatches
CHECK_DEADLOCK FALSE
PROPERTIES ReplayEnds
