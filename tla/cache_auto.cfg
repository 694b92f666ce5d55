SPECIFICATION Spec
CONSTANTS
    Procs = {p1, p2}
    SNIs = {sni1, sni2, sni3}
    Capacity = 2
    VaultMode = FALSE
    Lifetimes = {2}
    Skew = 0
    RefreshMargin = 2
    MaxCall = 1
    MaxTime = 3
    MaxIssues = 3
    NoCert = NoCert
    NoProc = NoProc
INVARIANTS TypeOK CacheCoherent OneMintPerSNI FrontIsMostRecentlyUsed
PROPERTIES ImplementsService
SYMMETRY Symmetry
