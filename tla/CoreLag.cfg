\* The core as in CoreLogic.cfg; the other components take no step.
CONSTANTS
    p = p
    Peer <- MCPeer
    TimeoutSeconds <- MCTimeoutSeconds
    EstablishedSessions <- NoSessions
    UICommand <- AllCommands
    BleInput <- AllBle
    NostrInput <- AllNostr
    CommandCap = 2
    EventCap = 1
    EffectCap = 2
    AppEventCap = 1
    MaxCommands = 2
    MaxInputs = 2
\* One peer on the display, whose clock may be ahead.
    UiPeer = {"p"}
    MaxShown = 1
    PeerTimeout = 0
    ClockSkew = {0, 1}
    MaxUiEvents = 3
    MaxUiTime = 1
\* Two changes of a section or a preset.
    CustomDelivery <- MCDeliveries
    CustomSession <- MCSessions
    CustomBle <- MCBles
    FragmentHeader = 13
    MaxConfigCalls = 2
\* Four commands to an application.
    FileLayer <- MCFile
    EnvLayer <- MCEnv
    ArgLayer <- MCArg
    MaxCliCommands = 4
\* Two devices of one user, with room for two references.
    Device = {"d", "e"}
    SyncPeer = {"p"}
    SyncStatus = {"Active"}
    NumRefs = 3
    RefStamp <- MCRefStamp
    MaxDevices = 2
    MaxRefs = 2
    MaxSyncAge = 0
    OnlineWindow = 2
    SyncInterval = 0
    MaxSyncTime = 1
    MaxSyncCalls = 5
    MaxSyncMessages = 2
SPECIFICATION CoreSpec
INVARIANTS
    EndsOnlyWhenClosed
