SPECIFICATION Spec
CONSTANTS
    b1 = b1  b2 = b2
    Nil = Nil
    Garbled = Garbled
    Board = {b1, b2}
    Initial <- MCInitial
    Final <- MCFinal
    LookupAnswer <- MCLookupAnswer
    WriteAnswer <- MCWriteAnswer
    Patch <- MCPatch
CHECK_DEADLOCK FALSE
INVARIANTS TypeOK StableTest PassMeansSameWrite
