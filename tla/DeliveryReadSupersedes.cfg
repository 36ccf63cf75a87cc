\* One message.
CONSTANTS
    u1 = u1
    u2 = u2
    m1 = m1
    m2 = m2
    Uuid <- OneUuid
    MsgId <- OneId
    Configs <- OneConfig
    MaxReceipts = 2
    MaxAge = 1
    MaxCount = 1
    Settings <- OnOff
    MaxTime = 2
\* Filters of five bits.
    PacketId = {1, 2, 3}
    BitsOf <- MCBitsOf
    BitSize = 5
    FilterTtl = 1
    MaxDedupTime = 3
\* A creator and two others, in a group for two.
    GroupNode = {"c", "x", "y"}
    Creator = "c"
    MaxGroupSize = 2
    MaxPosts = 4
\* Three builds.
    CapNode <- MCCapNode
    Versions <- MCVersions
    LocalCaps <- MCLocalCaps
    CoreCaps = {"core"}
    CapabilityTimeout = 0
    MaxCapTime = 2
    MaxHellos = 2
SPECIFICATION MessagingSpec
SYMMETRY Symmetry
PROPERTY ReadSupersedes
