\* A line of three nodes, one packet; the simulator does nothing.
CONSTANTS
    a = a
    b = b
    c = c
    d = d
    p = p
    Broadcast = "all"
    Node <- ThreeNodes
    Id = {p}
    InitialTtl = {2}
    Topologies <- OnlyLine
    MaxFlaps = 0
    SimPeer = {"a", "b"}
    Profile <- MCProfile
    MaxSimSends = 0
    MaxSimTime = 0
    MaxSimChanges = 0
    Sleeper = {"s"}
    Span = {0}
    MaxVirtual = 0
    MaxMoves = 0
    Player = {"a"}
    Stranger = "x"
    Line = {"hi"}
    StepTime = {0}
    BaseLatency = 1
    HandshakeTime = 1
    MaxSteps = 0
    MaxScenarios = 0
SPECIFICATION NetworksSpec
CHECK_DEADLOCK FALSE
PROPERTY BroadcastReaches
