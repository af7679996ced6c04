\* Two requests over keys that rotate twice, two who sign in, and a config edited twice
\* while it is read, with an ask of the API, SIGHUPs and the watch.
\* Once nothing is edited and nobody comes, nothing need happen.
CHECK_DEADLOCK FALSE
CONSTANTS
    Tokens = {"t1", "t2"}
    SignIns = {"s1", "s2"}
    MinRefresh = 3
    FetchLimit = 2
    LookAgain = 2
    LookLimit = 3
    MaxRotations = 2
    MaxMishaps = 1
    Askers = {"a"}
    Waiting = 1
    MaxEdits = 2
SPECIFICATION Spec
INVARIANT ReloadsHold
PROPERTIES KeysMoveForward OutsideIsFollowed
