SPECIFICATION FairSpec
CHECK_DEADLOCK FALSE
CONSTANTS
    Requests = {r1, r2}
    Inputs <- ForwardInputs
    Forwarding = TRUE
    Verbose = TRUE
    BodySource = "echo"
    FileLen = 0
    Upstream <- AllAnswers
    Departures = {"gone", "stalled"}
    MetricsOn = TRUE
    LabelsOn = {"method", "status"}
    CAOn = TRUE
    WSOn = TRUE
    CORSOn = TRUE
    LogsOn = TRUE
    MaxBody = 2
    JSONLen = 3
    WriteBuffer = 2
    PipeSize = 1
    MaxMessages = 1
INVARIANTS CountedOnce TruncationMarked RelayUnchanged
PROPERTIES EveryExchangeEnds EveryMessageEchoed
