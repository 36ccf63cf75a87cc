---------------------------- MODULE MeshForwarding ----------------------------
(***************************************************************************)
(* Mesh routing of the BLE transport (bitchat-ble, transport.rs): every    *)
(* node runs handle_incoming_packet on what its connections receive, hands *)
(* packets that are for it to its core logic and forwards the others, with *)
(* a smaller TTL, to every connected peer but the one they came from.      *)
(*                                                                         *)
(* A packet is its identity, its recipient and its TTL. A copy carries the *)
(* nodes it has visited, which the packet does not: the path tells copies  *)
(* of one packet apart and lets properties speak about hops.               *)
(*                                                                         *)
(* An announce packet also raises a PeerDiscovered event before it is      *)
(* treated like any other; it changes neither the peer table               *)
(* (update_from_announce stores nothing, from_discovered_peer always       *)
(* fails) nor the routing, and has no place here.                          *)
(***************************************************************************)
EXTENDS Integers, Sequences, FiniteSets

CONSTANTS
    Node,
    Id,            \* packets that may be sent: one identity each
    Broadcast,     \* the recipient of a broadcast
    InitialTtl,    \* the TTLs a packet may start with
    Topologies,    \* the links the network may start with
    MaxFlaps       \* bound: how often links change

ASSUME MeshAssumption ==
    /\ Broadcast \notin Node
    /\ InitialTtl \subseteq Nat
    /\ Topologies \subseteq [Node -> SUBSET Node]
    /\ MaxFlaps \in Nat

VARIABLES
    faulty,     \* whether links change and writing to a connected peer may fail
    links,      \* links[n]: the peers of n whose state is Connected
    inbox,      \* copies in flight or in the packet channel of the node they are at
    delivered,  \* BitchatPacketReceived events given to the core logic
    sent,       \* ghost: the packets that were sent, with their origin and first TTL
    flaps       \* bound: link changes so far

vars == <<faulty, links, inbox, delivered, sent, flaps>>

Unsent == [to |-> "nobody"]

\* Where a copy is, and which peer it came from.
At(c) == c.path[Len(c.path)]
From(c) == c.path[Len(c.path) - 1]

Init ==
    /\ faulty \in BOOLEAN
    /\ links \in Topologies
    /\ inbox = {}
    /\ delivered = {}
    /\ sent = [id \in Id |-> Unsent]
    /\ flaps = 0

-----------------------------------------------------------------------------
\* The copies that reach the peers a node writes to: a failed write is logged
\* and the others go on.
Copies(id, ttl, path, targets) ==
    {{[id |-> id, ttl |-> ttl, path |-> Append(path, m)] : m \in reached} :
        reached \in IF faulty THEN SUBSET targets ELSE {targets}}

\* Effect::SendBitchatPacket: refused unless the peer is connected.
send_bitchat_packet_to_peer(n, peer, id, to, ttl) ==
    /\ sent[id] = Unsent
    /\ peer \in links[n]
    /\ sent' = [sent EXCEPT ![id] = [to |-> to, origin |-> n, ttl |-> ttl, first |-> {peer}]]
    /\ \E new \in Copies(id, ttl, <<n>>, {peer}) : inbox' = inbox \cup new
    /\ UNCHANGED <<faulty, links, delivered, flaps>>

\* Effect::BroadcastBitchatPacket
broadcast_bitchat_packet(n, id, ttl) ==
    /\ sent[id] = Unsent
    /\ sent' = [sent EXCEPT ![id] =
           [to |-> Broadcast, origin |-> n, ttl |-> ttl, first |-> links[n]]]
    /\ \E new \in Copies(id, ttl, <<n>>, links[n]) : inbox' = inbox \cup new
    /\ UNCHANGED <<faulty, links, delivered, flaps>>

is_broadcast(c) == sent[c.id].to = Broadcast
is_for_us(c) == is_broadcast(c) \/ sent[c.id].to = At(c)

\* Defect: the packet goes on with the TTL it came with.
bug_decrement(ttl) == ttl

\* Ttl::decrement, where the TTL is positive.
decrement(ttl) == ttl - 1

\* The peers a packet is forwarded to.
Onward(c) == links[At(c)] \ {From(c)}

\* Defect: the forwarded packet stays in the queue.
bug_forward_packet(c) ==
    \E new \in Copies(c.id, decrement(c.ttl), c.path, Onward(c)) : inbox' = inbox \cup new

forward_packet(c) ==
    \E new \in Copies(c.id, decrement(c.ttl), c.path, Onward(c)) :
        inbox' = (inbox \ {c}) \cup new

\* Defect: a packet that is not for this node ends here.
bug_handle_incoming_packet(c) ==
    /\ delivered' = delivered \cup (IF is_for_us(c) THEN {c} ELSE {})
    /\ inbox' = inbox \ {c}
    /\ UNCHANGED <<faulty, links, sent, flaps>>

handle_incoming_packet(c) ==
    /\ delivered' = delivered \cup (IF is_for_us(c) THEN {c} ELSE {})
    /\ IF ~is_for_us(c) /\ c.ttl > 0
       THEN forward_packet(c)
       ELSE inbox' = inbox \ {c}
    /\ UNCHANGED <<faulty, links, sent, flaps>>

\* A connection comes up (mark_connected) or goes down (mark_disconnected), each
\* end on its own.
LinkUp(n, m) ==
    /\ faulty /\ flaps < MaxFlaps /\ n # m /\ m \notin links[n]
    /\ links' = [links EXCEPT ![n] = @ \cup {m}]
    /\ flaps' = flaps + 1
    /\ UNCHANGED <<faulty, inbox, delivered, sent>>

LinkDown(n, m) ==
    /\ faulty /\ flaps < MaxFlaps /\ m \in links[n]
    /\ links' = [links EXCEPT ![n] = @ \ {m}]
    /\ flaps' = flaps + 1
    /\ UNCHANGED <<faulty, inbox, delivered, sent>>

-----------------------------------------------------------------------------
Handle(n) == \E c \in inbox : At(c) = n /\ handle_incoming_packet(c)

Next ==
    \/ \E n, peer, to \in Node, id \in Id, ttl \in InitialTtl :
           n # to /\ send_bitchat_packet_to_peer(n, peer, id, to, ttl)
    \/ \E n \in Node, id \in Id, ttl \in InitialTtl : broadcast_bitchat_packet(n, id, ttl)
    \/ \E n \in Node : Handle(n)
    \/ \E n, m \in Node : LinkUp(n, m) \/ LinkDown(n, m)

Spec == Init /\ [][Next]_vars

\* Every node's loop goes on taking packets from its channel: the receiving
\* branch of the select is always ready while the channel holds one.
FairSpec == Spec /\ \A n \in Node : WF_vars(Handle(n))

-----------------------------------------------------------------------------
(* Properties *)

Copy == [id : Id, ttl : Nat, path : Seq(Node)]
Sent == [to : Node \cup {Broadcast}, origin : Node, ttl : Nat, first : SUBSET Node]

\* Type correctness; a TTL never falls below zero, so decrement never wraps a u8.
TypeOK ==
    /\ faulty \in BOOLEAN
    /\ links \in [Node -> SUBSET Node]
    /\ inbox \subseteq Copy
    /\ delivered \subseteq Copy
    /\ sent \in [Id -> Sent \cup {Unsent}]
    /\ flaps \in 0 .. MaxFlaps

\* A packet makes at most one hop more than the TTL it was sent with, whatever
\* cycles the links form and however they change: the sum of the hops and the
\* TTL never changes (forward_packet; the code keeps no record of packets seen).
HopsBounded ==
    \A c \in inbox \cup delivered :
        /\ sent[c.id] # Unsent
        /\ c.ttl + Len(c.path) = sent[c.id].ttl + 2
        /\ Len(c.path) <= sent[c.id].ttl + 2

\* No copy goes straight back to where it came from, at any point of its way
\* ("basic duplicate prevention by not forwarding back to sender").
NoBounce ==
    \A c \in inbox \cup delivered : \A i \in 1 .. Len(c.path) - 2 : c.path[i] # c.path[i + 2]

\* The network falls silent: although packets circle through the mesh and
\* duplicates are not recognised, every copy is used up.
Quiesces == <>[](inbox = {})

\* A way from the origin over one of the first hops that visits no node twice.
Route(id, m) ==
    \E k \in 2 .. sent[id].ttl + 2 : \E p \in [1 .. k -> Node] :
        /\ p[1] = sent[id].origin /\ p[2] \in sent[id].first /\ p[k] = m
        /\ \A i \in 1 .. k - 1 : p[i + 1] \in links[p[i]]
        /\ \A i, j \in 1 .. k : i # j => p[i] # p[j]

Arrived(id, m) == \E c \in delivered : c.id = id /\ At(c) = m

\* With links that stay up and writes that succeed, a private packet reaches its
\* recipient if any way through the mesh is short enough for its TTL
\* (handle_incoming_packet).
PrivateReaches ==
    \A id \in Id, m \in Node :
        (~faulty /\ sent[id] # Unsent /\ sent[id].to = m /\ Route(id, m)) ~> Arrived(id, m)

\* With links that stay up, a broadcast reaches every node its TTL allows: "Any
\* peer that receives and decrypts a broadcast message will process its content
\* and relay it".
BroadcastReaches ==
    \A id \in Id, m \in Node :
        ( /\ ~faulty /\ sent[id] # Unsent /\ sent[id].to = Broadcast
          /\ m # sent[id].origin /\ Route(id, m) ) ~> Arrived(id, m)

\* Every copy of a packet is well formed, has paid for its hops and never went
\* straight back (forward_packet).
CopiesSound == TypeOK /\ HopsBounded /\ NoBounce
=============================================================================
