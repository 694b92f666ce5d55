SPECIFICATION FairSpec
CHECK_DEADLOCK FALSE
CONSTANTS
    Enabled = {"http", "https"}
    Conns = {c1, c2}
INVARIANTS TypeOK CleanExitIsDrained NoRequestCutEarly
PROPERTY SignalEnds
