\* Every outage, failed opening and ask once, and two reloads. Servers and operators
\* may stop.
CHECK_DEADLOCK FALSE
CONSTANTS
    MaxConns = 7
    MaxDowns = 1
    MaxFails = 1
    MaxAsks = 1
    MaxReloads = 2
SPECIFICATION FairSpec
INVARIANTS ServingIsWatched RecordsAreTrue
PROPERTY ComesBack
