SPECIFICATION LocalFairSpec
CONSTANTS
    Procs = {p1, p2}
    SNIs = {sni1, sni2}
    Capacity = 1
    VaultMode = TRUE
    Lifetimes = {4}
    Skew = 2
    RefreshMargin = 2
    MaxCall = 1
    MaxTime = 5
    MaxIssues = 2
    NoCert = NoCert
    NoProc = NoProc
PROPERTIES ImplementsService HangIsIsolated
