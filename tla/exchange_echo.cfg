SPECIFICATION Spec
CHECK_DEADLOCK FALSE
CONSTANTS
    Requests = {r1, r2}
    Inputs <- EchoInputs
    Forwarding = FALSE
    Verbose = TRUE
    BodySource = "echo"
    FileLen = 0
    Upstream <- NoUpstream
    Departures = {"gone", "half"}
    MetricsOn = TRUE
    LabelsOn = {"status", "path"}
    CAOn = TRUE
    WSOn = TRUE
    CORSOn = TRUE
    LogsOn = TRUE
    MaxBody = 2
    JSONLen = 4
    WriteBuffer = 2
    PipeSize = 1
    MaxMessages = 2
INVARIANTS TypeOK CountedOnce ClosedRequestOffWire BlocksAreAtomic TruncationMarked MirroredInOrder
PROPERTY ImplementsExchange
