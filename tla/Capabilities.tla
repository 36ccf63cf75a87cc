----------------------------- MODULE Capabilities -----------------------------
(***************************************************************************)
(* CapabilityManager (bitchat-core, protocol/capabilities.rs) at every     *)
(* node of a network that loses, repeats and delays the hello and the ack. *)
(*                                                                         *)
(* Nodes may be different builds: each has its own versions and its own    *)
(* capabilities, an id with a version and a set of parameters. The node    *)
(* that offers several protocol versions lists its own first.              *)
(***************************************************************************)
EXTENDS Integers, Sequences, FiniteSets

CONSTANTS
    CapNode,
    Versions,           \* CapNode -> the versions it offers, [major, minor]
    LocalCaps,          \* CapNode -> its local_capabilities: id -> [version, parameters]
    CoreCaps,           \* what a legacy peer is given
    CapabilityTimeout,  \* CAPABILITY_TIMEOUT
    MaxCapTime,         \* bound: the clock
    MaxHellos           \* bound: the different hellos sent

\* Every build speaks at least one version and knows its capabilities.
ASSUME CapAssumption ==
    /\ \A n \in CapNode : Versions[n] \in Seq([major : Nat, minor : Nat]) \ {<<>>}
    /\ CapabilityTimeout \in Nat /\ MaxCapTime \in Nat /\ MaxHellos \in Nat

VARIABLES
    peer_capabilities,  \* peer_capabilities[n][p], or NotNegotiated
    peer_versions,      \* peer_versions[n][p], or NoVersion
    legacy_peers,       \* legacy_peers[n]
    hello_timeouts,     \* hello_timeouts[n][p], or NoTimeout
    cap_net,            \* every hello and ack ever sent
    cap_now

capVars == <<peer_capabilities, peer_versions, legacy_peers, hello_timeouts, cap_net, cap_now>>

NoVersion == [major |-> 0, minor |-> 0]
NotNegotiated == << >>    \* no capabilities under any id
NoTimeout == -1

current(n) == Versions[n][1]
is_compatible_with(v, w) == v.major = w.major

CapInit ==
    /\ peer_capabilities = [n \in CapNode |-> [p \in CapNode |-> NotNegotiated]]
    /\ peer_versions = [n \in CapNode |-> [p \in CapNode |-> NoVersion]]
    /\ legacy_peers = [n \in CapNode |-> {}]
    /\ hello_timeouts = [n \in CapNode |-> [p \in CapNode |-> NoTimeout]]
    /\ cap_net = {} /\ cap_now = 0

Negotiated(n, p, caps, version) ==
    /\ peer_capabilities' = [peer_capabilities EXCEPT ![n][p] = caps]
    /\ peer_versions' = [peer_versions EXCEPT ![n][p] = version]

-----------------------------------------------------------------------------
VersionHello(n, p) == [type |-> "hello", from |-> n, to |-> p,
                       versions |-> Versions[n], caps |-> LocalCaps[n]]
VersionAck(n, p, v, caps) == [type |-> "ack", from |-> n, to |-> p, version |-> v, caps |-> caps]

create_hello(n, p) == cap_net' = cap_net \cup {VersionHello(n, p)}
track_hello_sent(n, p) == hello_timeouts' = [hello_timeouts EXCEPT ![n][p] = cap_now + CapabilityTimeout]

\* The caller sends the hello and has the manager watch for the answer.
SendHello(n, p) ==
    /\ n # p
    /\ Cardinality({m \in cap_net \cup {VersionHello(n, p)} : m.type = "hello"}) <= MaxHellos
    /\ create_hello(n, p) /\ track_hello_sent(n, p)
    /\ UNCHANGED <<peer_capabilities, peer_versions, legacy_peers, cap_now>>

\* The versions in an offer that this node could speak.
Compatible(n, offered) == {i \in 1 .. Len(offered) : is_compatible_with(current(n), offered[i])}

\* The first one that fits, which is not the highest.
negotiate_version(n, offered) ==
    offered[CHOOSE i \in Compatible(n, offered) : \A j \in Compatible(n, offered) : i <= j]

BugMutual(n, theirs) == theirs
find_mutual_capabilities(n, theirs) ==
    [c \in DOMAIN theirs \cap DOMAIN LocalCaps[n] |->
        [version |-> theirs[c].version,
         parameters |-> theirs[c].parameters \cap LocalCaps[n][c].parameters]]

\* Neither a hello nor an ack ends the watch or takes a peer from the legacy set: a
\* peer that has answered is made a legacy one when the time of the hello is up.
process_hello(n, m) ==
    /\ m.type = "hello" /\ m.to = n
    /\ Compatible(n, m.versions) # {}
    /\ LET v == negotiate_version(n, m.versions)
           caps == find_mutual_capabilities(n, m.caps)
       IN  /\ Negotiated(n, m.from, caps, v)
           /\ cap_net' = cap_net \cup {VersionAck(n, m.from, v, caps)}
    /\ UNCHANGED <<legacy_peers, hello_timeouts, cap_now>>

process_ack(n, m) ==
    /\ m.type = "ack" /\ m.to = n
    /\ Negotiated(n, m.from, m.caps, m.version)
    /\ UNCHANGED <<legacy_peers, hello_timeouts, cap_net, cap_now>>

remove_peer(n, p) ==
    /\ n # p
    /\ Negotiated(n, p, NotNegotiated, NoVersion)
    /\ legacy_peers' = [legacy_peers EXCEPT ![n] = @ \ {p}]
    /\ hello_timeouts' = [hello_timeouts EXCEPT ![n][p] = NoTimeout]
    /\ UNCHANGED <<cap_net, cap_now>>

CoreCapability == [version |-> "1.0", parameters |-> {}]

\* mark_as_legacy_peer for a set of peers.
Legacy(n, ps) ==
    /\ legacy_peers' = [legacy_peers EXCEPT ![n] = @ \cup ps]
    /\ peer_capabilities' = [peer_capabilities EXCEPT ![n] = [p \in CapNode |->
           IF p \in ps THEN [c \in CoreCaps |-> CoreCapability] ELSE @[p]]]
    /\ peer_versions' = [peer_versions EXCEPT ![n] = [p \in CapNode |->
           IF p \in ps THEN current(n) ELSE @[p]]]

mark_as_legacy_peer(n, p) ==
    /\ n # p
    /\ Legacy(n, {p})
    /\ UNCHANGED <<hello_timeouts, cap_net, cap_now>>

TimedOut(n) == {p \in CapNode : hello_timeouts[n][p] # NoTimeout /\ cap_now > hello_timeouts[n][p]}

check_hello_timeouts(n) ==
    /\ TimedOut(n) # {}
    /\ Legacy(n, TimedOut(n))
    /\ hello_timeouts' = [hello_timeouts EXCEPT ![n] = [p \in CapNode |->
           IF p \in TimedOut(n) THEN NoTimeout ELSE @[p]]]
    /\ UNCHANGED <<cap_net, cap_now>>

CapTick ==
    /\ cap_now < MaxCapTime
    /\ cap_now' = cap_now + 1
    /\ UNCHANGED <<peer_capabilities, peer_versions, legacy_peers, hello_timeouts, cap_net>>

CapNext ==
    \/ \E n \in CapNode :
           \/ check_hello_timeouts(n)
           \/ \E p \in CapNode : SendHello(n, p) \/ remove_peer(n, p) \/ mark_as_legacy_peer(n, p)
           \/ \E m \in cap_net : process_hello(n, m) \/ process_ack(n, m)
    \/ CapTick

CapSpec == CapInit /\ [][CapNext]_capVars

get_negotiation_status(n, p) ==
    IF p \in legacy_peers[n] THEN "Legacy"
    ELSE IF peer_versions[n][p] # NoVersion THEN "Negotiated"
    ELSE IF hello_timeouts[n][p] # NoTimeout THEN "Pending"
    ELSE "Unknown"

peer_supports_capability(n, p, c) == c \in DOMAIN peer_capabilities[n][p]

-----------------------------------------------------------------------------
(* Properties *)

\* What n may use of a capability with p: parameters both have, in a version of either.
BothHave(n, p, c, cap) ==
    /\ cap.parameters \subseteq LocalCaps[n][c].parameters \cap LocalCaps[p][c].parameters
    /\ cap.version \in {LocalCaps[n][c].version, LocalCaps[p][c].version}

\* A feature is used towards a peer (should_use_feature) only when both builds have it,
\* whoever said hello first, though hellos cross and answers come late, twice or not;
\* or it is a core feature, without parameters, given to a peer taken for legacy. That
\* is said of any peer whose hello went unanswered in time or, since an answer does not
\* end the watch, was answered: such a peer keeps its core features only.
FeaturesMutual ==
    \A n, p \in CapNode : \A c \in CoreCaps \cup UNION {DOMAIN LocalCaps[k] : k \in CapNode} :
        peer_supports_capability(n, p, c) =>
        \/ /\ c \in DOMAIN LocalCaps[n] \cap DOMAIN LocalCaps[p]
           /\ BothHave(n, p, c, peer_capabilities[n][p][c])
        \/ p \in legacy_peers[n] /\ c \in CoreCaps /\ peer_capabilities[n][p][c].parameters = {}

\* The version agreed upon is one that this node speaks, at the end that chose it
\* and at the end that was told.
VersionSpoken ==
    \A n, p \in CapNode :
        peer_versions[n][p] # NoVersion =>
            \E i \in 1 .. Len(Versions[n]) : is_compatible_with(Versions[n][i], peer_versions[n][p])

\* What two peers use between them is something both can do, or core
\* (negotiate_version, find_mutual_capabilities, mark_as_legacy_peer).
NegotiationSound == FeaturesMutual /\ VersionSpoken
=============================================================================
