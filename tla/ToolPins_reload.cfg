\* One change and one reload, no approval. The server may stop changing.
CHECK_DEADLOCK FALSE
CONSTANTS
    Tools = {t}
    Defs = {d1, d2}
    None = None
    DiskFails = FALSE
    MaxConns = 2
    MaxChanges = 1
    MaxReloads = 1
    MaxApprovals = 0
    MaxMishaps = 0
SPECIFICATION Spec
INVARIANT UnapprovedIsRefused
