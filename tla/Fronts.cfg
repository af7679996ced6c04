\* Sign-ins of two browsers, and the sessions of one, for longer than one lasts; two
\* certificates, a new CA and a connection; the listeners' pair, past a leaf's end and to its CA's.
\* The clock and the other bounds run out.
CHECK_DEADLOCK FALSE
CONSTANTS
    Browsers = {"b1", "b2"}
    Absolute = 4
    IdleFor = 3
    RenewAfter = 1
    LoginFor = 2
    FinishedKept = 1
    MaxDelay = 1
    MaxLogins = 2
    MaxTime = 5
    MaxInflight = 2
    MaxKey = 2
    MaxFinishes = 3
    Certs = {"a", "b"}
    Lasts <- OneOfEach
    Conns = {"n"}
    Commands = {"k"}
    ProxyTrusted = {TRUE, FALSE}
    MaxAge = 1
    MaxCas = 2
    MaxChecks = 3
    MaxCommands = 3
    CaLifetime = 4
    LeafLifetime = 3
    RenewBefore = 2
    NameSets <- TwoSets
    MaxDay = 4
    MaxTroubles = 1
    MaxFailures = 1
    MaxChanges = 2
SPECIFICATION Spec
INVARIANTS SessionsHold ClientsHold ServedHolds
