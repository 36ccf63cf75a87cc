\* Two senders that share an id, and room for one assembly.
CONSTANTS
    s1 = s1
    s2 = s2
    i1 = i1
    Sender <- TwoSenders
    Id <- OneId
    Message <- EveryMessage
    FragmentSize = 2
    MaxFragments = 3
    MaxAssemblies = 1
    Timeout = 0
    MaxTime = 1
    MaxOrder = 3
\* A byte, the smallest block and the threshold of compression are all 16.
    ByteValues = 16
    PADDING_BLOCK_SIZES <- MCBlocks
    COMPRESSION_THRESHOLD = 16
    SIGNATURE_SIZE = 4
    SomePayload <- MCPayload
    SignatureBytes <- MCSignature
    MAX_HOPS = 3
    U8 = 3
    KeyOwner = {1, 2}
    Text <- MCTexts
    NeighbourList <- MCNeighbours
\* One file of two chunks.
    TransferId = {1}
    FileChunks = 2
    TransferTimeout = 1
    MaxTransferTime = 3
\* One peer to be reached over two transports.
    RoutedPeer = {"p"}
    FailureLimit = 2
    MaxRecent = 1
    RecentWindow = 1
    LatencySample = {600}
    MaxQueue = 1
    QueueRetention = 0
    CheckInterval = 0
    MaxRouteTime = 1
    Rules <- MCRules
    MaxRules = 1
\* Two conversations; room for three messages, two in a conversation.
    StorePeer = {"a", "b"}
    Content = {"text", "empty"}
    ValidContent = {"text"}
    MaxTotal = 3
    MaxConversation = 2
    MaxMessageAge = 1
    Millis = 2
    MillisFrom = 6
    SuppliedTime = {0}
    Sequence = {1}
    MaxClock = 7
    MaxRefused = 1
SPECIFICATION PacketsSpec
INVARIANTS
    Faithful
    AssembliesSound
    PacketsSurvive
    PayloadsSurvive
    CompletedHasAll
    RoutingSound
    StoreSound
PROPERTIES
    ImplementsLog
