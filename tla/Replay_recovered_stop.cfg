SPECIFICATION Spec
CONSTANTS
    b1 = b1  b2 = b2
    Nil = Nil
    Garbled = Garbled
    Board = {b1}
    LookupAnswer <- MCLookupAnswer
    WriteAnswer <- MCWriteAnswer
    Patch = {}
CHECK_DEADLOCK FALSE
INVARIANTS RecoveredStopHadNoWrite
