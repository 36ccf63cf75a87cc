\* Three nodes with one session each, under whatever name, and messages for one
\* complete handshake and part of a second.
CONSTANTS
    n1 = n1
    n2 = n2
    n3 = n3
    Node <- MCNode
    PeerId = {"peer"}
    MaxMsgs = 4
    MaxCount = 2
    RekeyThreshold = 2
    RekeyInterval = 1
    HandshakeTimeout = 0
    IdleTimeout = 0
    FailedTimeout = 0
\* Two contacts; a challenge that expires while its answer is under way.
    VNode = {"u", "v"}
    ChallengeTimeout = 1
    MaxPending = 1
    MaxNonce = 4
    MaxVTime = 2
\* One contact; saves one time unit apart.
    IdFingerprint = {"f"}
    Note = {"n"}
    SaveInterval = 1
    EphemeralAge = 0
    IdentityAge = 0
    MaxIdTime = 2
SPECIFICATION SessionsSpec
SYMMETRY NodeSymmetry
INVARIANTS
    SessionSound
    Authenticated
    KeysSafe
    IdentitySound
PROPERTIES
    VerificationSound
