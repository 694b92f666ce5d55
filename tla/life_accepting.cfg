SPECIFICATION Spec
CHECK_DEADLOCK FALSE
CONSTANTS
    Enabled = {"http", "https"}
    Conns = {c1, c2}
PROPERTY StopsAccepting
