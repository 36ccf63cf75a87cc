\* One peer; the scan falls due before the maintenance, as in the code.
CONSTANTS
    BPeer = {"p"}
    AdMaxAge = 0
    RetryStep = 0
    MaxRetries = 1
    StaleAge = 0
    ScanAfter = 1
    MaintainAfter = 2
    MaxAds = 1
SPECIFICATION BleFairSpec
CHECK_DEADLOCK FALSE
PROPERTY StaleRemoved
