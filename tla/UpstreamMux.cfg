\* Two calls, one of them timed, over one slot, on every route.
\* A handle may simply not be used, so nothing has to happen.
CHECK_DEADLOCK FALSE
CONSTANTS
    NoCall = NoCall
    Calls = {c1, c2}
    Timed = {c1}
    Routes = {"actor", "inline", "direct"}
    MaxInflight = 1
    TripAfter = 2
    FirstId = 1
    LastOpeningId = 0
SPECIFICATION FairSpec
INVARIANTS OwnReply SlotHasOwner
PROPERTIES KeepsContract CallsEnd
