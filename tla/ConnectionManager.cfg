\* Two peers and timeouts of one tick more than the clock's second.
CONSTANTS
    p1 = p1
    p2 = p2
    Peer <- MCPeer
    TimeoutSeconds = {1}
    Second = 2
    AuditLimit = 2
    MaxAge = 1
    MaxConnTime = 3
    MaxStats = 3
\* Three peers at a rate limiter with room for one.
    q1 = q1
    q2 = q2
    q3 = q3
    RatePeer <- MCRatePeer
    PeerLimit = 2
    GlobalLimit = 3
    Window = 1
    MaxTracked = 1
    MaxRateTime = 2
    MaxCalls = 2
\* Two BLE peers; the loop scans before its maintenance falls due.
    BPeer = {"p", "q"}
    AdMaxAge = 0
    RetryStep = 0
    MaxRetries = 1
    StaleAge = 0
    ScanAfter = 1
    MaintainAfter = 2
    MaxAds = 1
    AdPeer = {"p", "q"}
    MaxAdCalls = 3
\* Two Nostr nodes with one peer id between them, which they may take before or after
\* their listeners start, and two relays.
    NNode = {"a", "b"}
    NPeer = {"p"}
    PacketSize = {3}
    MaxDataSize = 3
    Offset = {0, 1}
    MaxPublished = 2
    MaxNostrTime = 1
    Relay = {"r1", "r2"}
    DefaultRelay = {"r2"}
    PrivacyScore <- MCScore
    Near <- MCNear
    SlowLatency = 1
    Latency = {1, 2}
    MaxAttempts = 1
    MaxFailures = 3
SPECIFICATION LinksSpec
SYMMETRY LinkSymmetry
INVARIANTS
    ConnectionsSound
    RatesKept
    AdvertisingSound
    NostrSound
    RelaysSound
PROPERTIES
    PeerTableSound
