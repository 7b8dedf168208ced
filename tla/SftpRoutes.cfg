SPECIFICATION FairSpec
CHECK_DEADLOCK FALSE
CONSTANTS
    Jobs = {"photo", "status", "export"}
    Events = {"photo"}
    Counted = {"photo", "export"}
    Streams = {"export"}
    Puts <- PutsOf
    Configured = {"LAN", "WAN"}
    MaxAttempts = 2
    MaxFlips = 1
    MaxGlitches = 0
    Main = "main"
    Worker = "worker"
    NoJob = NoJob
    NoChannel = NoChannel
INVARIANTS EndpointFollows PendingCounts
PROPERTIES KeptOnlyDisturbed BacklogClears
