SPECIFICATION Spec
CONSTANTS
    Gateways = {g1}
    Entries = {a, b, c}
    Tearing = TRUE
    MaxSeq = 9
    Garbled = Garbled
INVARIANTS
    RecordedIsOnFile
CHECK_DEADLOCK FALSE
