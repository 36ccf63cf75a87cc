--------------------------- MODULE SimulatedNetwork ---------------------------
(***************************************************************************)
(* The router of the virtual simulator (simulator/virtual,                 *)
(* network_router.rs) that carries packets between simulated peers and     *)
(* imitates bad networks: packets are lost, delayed, duplicated; peers     *)
(* come and go. Random draws are nondeterministic choices; a packet is its *)
(* ends, its sequence number and the time it is due.                       *)
(***************************************************************************)
EXTENDS Integers, Sequences, SequencesExt

CONSTANTS
    SimPeer,
    Profile,        \* Profile[p]: the effects a network profile allows
    MaxSimSends,    \* bound: packets handed to the router
    MaxSimTime,     \* bound: milliseconds
    MaxSimChanges   \* bound: peers added, removed, profile changes, partitions

ASSUME LatenciesAreNaturals == \A name \in DOMAIN Profile : Profile[name].latencies \subseteq Nat

VARIABLES
    peer_channels,     \* peers known to the router
    handles_open,      \* peers that still hold the receiving end
    outgoing,          \* packets sent and not yet taken by the router
    pending_packets,   \* packets on their way, in the order they were taken
    next_sequence,
    net_profile,
    arrived,           \* sequence numbers delivered, in order, to each peer
    removed_at,        \* next_sequence when the peer was last removed, 0 before
    net_stats,
    net_time, net_sends, net_changes

netVars == <<peer_channels, handles_open, outgoing, pending_packets, next_sequence, net_profile,
             arrived, removed_at, net_stats, net_time, net_sends, net_changes>>

NetInit ==
    /\ peer_channels = {} /\ handles_open = {} /\ outgoing = <<>> /\ pending_packets = <<>>
    /\ next_sequence = 1 /\ net_profile \in DOMAIN Profile
    /\ arrived = [p \in SimPeer |-> <<>>] /\ removed_at = [p \in SimPeer |-> 0]
    /\ net_stats = [routed |-> 0, dropped |-> 0, duplicated |-> 0]
    /\ net_time = 0 /\ net_sends = 0 /\ net_changes = 0

\* Vec::retain by position: the elements of s at the indices in kept, in their order.
Retain(s, kept) ==
    LET upTo[i \in 0..Len(s)] ==
            IF i = 0 THEN <<>> ELSE IF i \in kept THEN Append(upTo[i - 1], s[i]) ELSE upTo[i - 1]
    IN  upTo[Len(s)]
PendingAt(Keep(_)) == {i \in DOMAIN pending_packets : Keep(pending_packets[i])}

Change == net_changes < MaxSimChanges /\ net_changes' = net_changes + 1

\* A new channel replaces the old one.
add_peer(p) ==
    /\ Change
    /\ peer_channels' = peer_channels \cup {p}
    /\ handles_open' = handles_open \cup {p}
    /\ UNCHANGED <<outgoing, pending_packets, next_sequence, net_profile, arrived, removed_at,
                   net_stats, net_time, net_sends>>

remove_peer(p) ==
    /\ Change
    /\ peer_channels' = peer_channels \ {p}
    /\ pending_packets' = Retain(pending_packets, PendingAt(LAMBDA k : k.to # p /\ k.from # p))
    /\ removed_at' = [removed_at EXCEPT ![p] = next_sequence]
    /\ UNCHANGED <<handles_open, outgoing, next_sequence, net_profile, arrived, net_stats,
                   net_time, net_sends>>

\* The peer drops its handle without telling the router.
DropHandle(p) ==
    /\ Change
    /\ p \in handles_open
    /\ handles_open' = handles_open \ {p}
    /\ UNCHANGED <<peer_channels, outgoing, pending_packets, next_sequence, net_profile, arrived,
                   removed_at, net_stats, net_time, net_sends>>

set_profile(name) ==
    /\ Change
    /\ net_profile' = name
    /\ UNCHANGED <<peer_channels, handles_open, outgoing, pending_packets, next_sequence, arrived,
                   removed_at, net_stats, net_time, net_sends>>

\* A partition takes away what is on its way and lets later packets through.
partition_peers(p, q) ==
    /\ Change
    /\ pending_packets' = Retain(pending_packets, PendingAt(LAMBDA k : {k.from, k.to} # {p, q}))
    /\ UNCHANGED <<peer_channels, handles_open, outgoing, next_sequence, net_profile, arrived,
                   removed_at, net_stats, net_time, net_sends>>

SendPacket(p, q) ==
    /\ net_sends < MaxSimSends /\ p # q
    /\ outgoing' = Append(outgoing, [from |-> p, to |-> q, seq |-> 0, due |-> net_time])
    /\ net_sends' = net_sends + 1
    /\ UNCHANGED <<peer_channels, handles_open, pending_packets, next_sequence, net_profile, arrived,
                   removed_at, net_stats, net_time, net_changes>>

Drop(packet) ==
    /\ net_stats' = [net_stats EXCEPT !.dropped = net_stats.dropped + 1]
    /\ next_sequence' = packet.seq + 1
    /\ UNCHANGED pending_packets

\* A duplicate is due at once: it is copied before the latency is drawn.
RoutePacket(packet, latency, twice) ==
    LET copy == [packet EXCEPT !.seq = packet.seq + 1]
        late == [packet EXCEPT !.due = net_time + latency]
    IN /\ pending_packets' = Append(IF twice THEN Append(pending_packets, copy) ELSE pending_packets, late)
       /\ next_sequence' = packet.seq + IF twice THEN 2 ELSE 1
       /\ net_stats' = [routed |-> net_stats.routed + 1, dropped |-> net_stats.dropped,
                        duplicated |-> net_stats.duplicated + IF twice THEN 1 ELSE 0]

process_outgoing_packet ==
    LET packet == [Head(outgoing) EXCEPT !.seq = next_sequence]
        effects == Profile[net_profile]
    IN IF packet.to \notin peer_channels THEN Drop(packet)
       ELSE \/ effects.loses /\ Drop(packet)
            \/ \E latency \in effects.latencies, twice \in effects.duplicates : RoutePacket(packet, latency, twice)

TakeOutgoing ==
    /\ outgoing # <<>>
    /\ process_outgoing_packet
    /\ outgoing' = Tail(outgoing)
    /\ UNCHANGED <<peer_channels, handles_open, net_profile, arrived, removed_at, net_time, net_sends, net_changes>>

BugRemoveDelivered(packets, due) ==
    LET left[i \in 0..Len(packets)] ==
            IF i = 0 THEN packets
            ELSE IF i \in due /\ i <= Len(left[i - 1]) THEN RemoveAt(left[i - 1], i) ELSE left[i - 1]
    IN  left[Len(packets)]
\* From the last index to the first, so that the others keep their places.
RemoveDelivered(packets, due) ==
    LET left[n \in 0..Len(packets)] ==
            LET i == Len(packets) + 1 - n
            IN  IF n = 0 THEN packets ELSE IF i \in due THEN RemoveAt(left[n - 1], i) ELSE left[n - 1]
    IN  left[Len(packets)]

\* A peer whose channel turns out closed is forgotten; its packet is gone all the same.
deliver_ready_packets ==
    LET due == PendingAt(LAMBDA k : k.due <= net_time)
        dueTo(p) == {i \in due : pending_packets[i].to = p}
        gone == {p \in peer_channels \ handles_open : dueTo(p) # {}}
        delivered(p) == Retain([i \in DOMAIN pending_packets |->
                            [seq |-> pending_packets[i].seq, from |-> pending_packets[i].from]], dueTo(p))
    IN /\ due # {}
       /\ arrived' = [p \in SimPeer |->
             IF p \in peer_channels \ gone THEN arrived[p] \o delivered(p) ELSE arrived[p]]
       /\ peer_channels' = peer_channels \ gone
       /\ pending_packets' = RemoveDelivered(pending_packets, due)
       /\ UNCHANGED <<handles_open, outgoing, next_sequence, net_profile, removed_at, net_stats,
                      net_time, net_sends, net_changes>>

NetTick ==
    /\ net_time < MaxSimTime /\ net_time' = net_time + 1
    /\ UNCHANGED <<peer_channels, handles_open, outgoing, pending_packets, next_sequence, net_profile,
                   arrived, removed_at, net_stats, net_sends, net_changes>>

NetNext ==
    \/ TakeOutgoing \/ deliver_ready_packets \/ NetTick
    \/ \E p \in SimPeer : add_peer(p) \/ remove_peer(p) \/ DropHandle(p)
    \/ \E name \in DOMAIN Profile : set_profile(name)
    \/ \E p, q \in SimPeer : partition_peers(p, q) \/ SendPacket(p, q)

NetSpec == NetInit /\ [][NetNext]_netVars

-----------------------------------------------------------------------------
(* A packet or a duplicate, known by its sequence number, reaches a peer at *)
(* most once and is not pending any more when it has: deliver_ready_packets *)
(* removes by index exactly what it has delivered, whatever is due and in   *)
(* whatever order it was queued.                                            *)
ArrivesOnce ==
    \A p \in SimPeer : \A i \in DOMAIN arrived[p] :
        /\ \A j \in DOMAIN arrived[p] : arrived[p][j].seq = arrived[p][i].seq => j = i
        /\ \A j \in DOMAIN pending_packets : pending_packets[j].seq # arrived[p][i].seq

(* Removing a peer purges what the router has queued to or from it, and      *)
(* nothing else in the router brings it back, duplicates and returning      *)
(* peers included (remove_peer). What was sent and not yet taken by the     *)
(* router is not purged: it is numbered later and delivered if its receiver *)
(* is known then, even when its sender, or an earlier life of its receiver, *)
(* is gone.                                                                 *)
QueuePurged ==
    \A i \in DOMAIN pending_packets :
        LET k == pending_packets[i] IN k.seq >= removed_at[k.to] /\ k.seq >= removed_at[k.from]

\* The simulated network delivers each packet at most once, and its queue holds nothing
\* it had taken before one of the packet's ends was removed (deliver_ready_packets,
\* remove_peer).
SimNetSound == ArrivesOnce /\ QueuePurged
===============================================================================
