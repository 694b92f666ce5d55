SPECIFICATION Spec

CONSTANTS
    Servers = {s1, s2}
    ReadFaults = TRUE
    FilesGetLost = TRUE
    MaxCAs = 3
    Missing = Missing
    Torn = Torn
    NoCA = NoCA

INVARIANTS TypeOK PairMatches ExistingCAReused AnnouncedIsDurable
SYMMETRY Symmetry
