SPECIFICATION Spec

CONSTANTS
    Servers = {s1}
    ReadFaults = FALSE
    FilesGetLost = FALSE
    MaxCAs = 3
    Missing = Missing
    Torn = Torn
    NoCA = NoCA

INVARIANTS NeverSilentlyReplaced
