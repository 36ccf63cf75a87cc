\* Four nodes in four shapes of network, one packet.
CONSTANTS
    a = a
    b = b
    c = c
    d = d
    p = p
    Broadcast = "all"
    Node <- FourNodes
    Id = {p}
    InitialTtl = {0, 1, 2, 3}
    Topologies <- Large
    MaxFlaps = 2
\* Two simulated peers, two packets.
    SimPeer = {"a", "b"}
    Profile <- MCProfile
    MaxSimSends = 2
    MaxSimTime = 1
    MaxSimChanges = 3
\* Two sleepers.
    Sleeper = {"s", "t"}
    Span = {0, 1, 2}
    MaxVirtual = 3
    MaxMoves = 3
\* Two scenarios of up to two steps.
    Player = {"a", "b"}
    Stranger = "x"
    Line = {"hi"}
    StepTime = {0, 1}
    BaseLatency = 1
    HandshakeTime = 1
    MaxSteps = 2
    MaxScenarios = 2
SPECIFICATION NetworksSpec
CHECK_DEADLOCK FALSE
INVARIANTS
    CopiesSound
    SimNetSound
    WokenGoesOn
    RunSound
PROPERTIES
    Quiesces
    PrivateReaches
