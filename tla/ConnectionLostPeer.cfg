\* Two peers and the manager alone.
CONSTANTS
    Peer = {p1, p2}
    TimeoutSeconds = {1}
    Second = 2
    AuditLimit = 3
    MaxAge = 1
    MaxConnTime = 3
    MaxStats = 4
SPECIFICATION ConnSpec
INVARIANTS
    PeersAccounted
