SPECIFICATION Spec
CONSTANTS
    c1 = c1
    c2 = c2
    Calls = {c1, c2}
    Tools <- MCTools
    Requests <- MCRequests
    Answers <- MCAnswers
    Configs <- MCConfigs
    Starts <- MCStarts
    Verdicts <- MCVerdicts
    Holdings <- MCHoldings
    Normal <- MCNormal
    UriRefused = UriRefused
    Unnamed = "unnamed"
    Nothing = Nothing
    Cost = 2
    MaxInflight = 2
    Elsewhere = {0, 1}
    RoutesKept = 1
    RouteTTL = 1
    MaxChanges = 1
    MaxEvents = 1
CHECK_DEADLOCK FALSE
INVARIANTS SentWasAllowed NameKeepsItsServer ShownIsServed RecordTellsTheTruth
INVARIANTS NothingFlaggedPasses PermitsAreHeld RateHolds
