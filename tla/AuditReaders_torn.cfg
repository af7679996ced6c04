\* Writes that may stop part way. A gateway refused its start goes no further.
CHECK_DEADLOCK FALSE
CONSTANTS
    Gateways = {g1}
    Entries = {a, b, c}
    Wanted = {a, b}
    Home = g1
    Batch = 2
    Tearing = TRUE
    MaxSeq = 9
    Garbled = Garbled
SPECIFICATION RSpec
INVARIANTS ChainVerifies StreamIsExact
