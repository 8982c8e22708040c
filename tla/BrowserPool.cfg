SPECIFICATION FairSpec
CONSTANTS
    k1 = k1
    k2 = k2
    e1 = e1
    e2 = e2
    e3 = e3
    e4 = e4
    c1 = c1
    c2 = c2
    NoEntry = NoEntry
    NoKey = NoKey
    Key = {k1, k2}
    Entry = {e1, e2, e3, e4}
    Caller = {c1, c2}
    MaxBrowsers = 1
INVARIANTS PoolTypeOK NoStrayBrowser IdleBrowserExpires KeptAliveBounded
PROPERTIES NotClosedUnderLease AcquireReturns
