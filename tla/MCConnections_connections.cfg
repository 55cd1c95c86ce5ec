SPECIFICATION FairSpec
CONSTANTS
    NumPeers = 2
    BadAddress = {2}
    Reachable = {1}
    TrackerMayDie = TRUE
    MaxAttempts = 1
    MinInterval = 1
    InactivityTimeout = 1
    TrackerInterval = 1
    MaxAnnouncements = 1
    MaxQueued = 1
INVARIANTS TypeOK PipelineSound
PROPERTIES OutgoingGetTimeout Reconnected
