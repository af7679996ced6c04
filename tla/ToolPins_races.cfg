\* Each thing that goes wrong, a reload and an approval once. The server and the
\* operators may stop.
CHECK_DEADLOCK FALSE
CONSTANTS
    Tools = {t}
    Defs = {d1, d2}
    None = None
    DiskFails = TRUE
    MaxConns = 2
    MaxChanges = 1
    MaxReloads = 1
    MaxApprovals = 1
    MaxMishaps = 1
SPECIFICATION FairSpec
INVARIANTS ServedWasTaken FirstUseIsOnce ApprovedIsOnFile
PROPERTY NewsArrives
