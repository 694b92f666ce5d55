SPECIFICATION Spec
CHECK_DEADLOCK FALSE
CONSTANTS
    Requests = {r1}
    Inputs <- PathInputs
    Forwarding = FALSE
    Verbose = TRUE
    BodySource = "file"
    FileLen = 3
    Upstream <- NoUpstream
    Departures = {"gone"}
    MetricsOn = TRUE
    LabelsOn = {"method", "status", "path"}
    CAOn = TRUE
    WSOn = TRUE
    CORSOn = TRUE
    LogsOn = TRUE
    MaxBody = 2
    JSONLen = 3
    WriteBuffer = 2
    PipeSize = 1
    MaxMessages = 1
INVARIANT EveryRequestRecorded
