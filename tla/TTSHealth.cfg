SPECIFICATION TTSSpec
CONSTANTS
    AlertIds = {1, 2, 3}
    Admins = {}
    None = None
    Threshold = 2
    Window = 0
    Retention = 0
    MaxTroubles = 1
    Confirm = 1
    FailingInterval = 2
    ProbeInterval = 2
PROPERTIES FailureReported RecoveryCloses OutageReported
