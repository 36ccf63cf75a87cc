\* One remote peer and what fills each of its channels.
CONSTANTS
    p = p
    Peer <- MCPeer
    TimeoutSeconds <- MCTimeoutSeconds
    EstablishedSessions <- NoSessions
    UICommand <- FewCommands
    BleInput <- OneBle
    NostrInput <- OneNostr
    CommandCap = 2
    EventCap = 1
    EffectCap = 2
    AppEventCap = 1
    MaxCommands = 2
    MaxInputs = 2
\* Two transports and a runtime that is started twice.
    TransportKind = {"Ble", "Nostr"}
    MaxStarts = 2
\* One correspondent, two inputs to the ingress task, room for one app event.
    Correspondent = {"p"}
    Self = "me"
    NullPeer = "zero"
    AppEventRoom = 1
    StaleThreshold = 0
    MaxSupInputs = 2
    MaxSupTime = 1
SPECIFICATION LivenessSpec
CHECK_DEADLOCK FALSE
PROPERTIES
    ShutdownCompletes
    CommandsServed
    RuntimeSound
    SupervisionSound
