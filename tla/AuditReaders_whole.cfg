\* Whole writes, read while they happen, with deaths and restarts between them.
CONSTANTS
    Gateways = {g1}
    Entries = {a, b, c}
    Wanted = {a, b}
    Home = g1
    Batch = 2
    Tearing = FALSE
    MaxSeq = 9
    Garbled = Garbled
SPECIFICATION RFairSpec
INVARIANTS RecordedIsOnFile NoFalseAlarm
PROPERTIES KeepsLog StreamCatchesUp
