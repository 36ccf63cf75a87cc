--------------------------- MODULE ConnectionManager ---------------------------
(***************************************************************************)
(* ConnectionManager (bitchat-runtime, managers/connection.rs): the map of *)
(* connection states, the audit trail and the statistics, driven by        *)
(* callers that initialise peers, feed them events, poll for timed-out     *)
(* peers and apply what the poll returned later, and clean up.             *)
(***************************************************************************)
EXTENDS ConnectionState, Sequences, FiniteSets

CONSTANTS
    Peer,         \* the peers
    Second,       \* milliseconds in a second (1000 in the code)
    AuditLimit,   \* entries kept in the audit trail (1000 in the code)
    MaxAge,       \* max_age_seconds passed to cleanup_old_peers
    MaxConnTime,      \* bound: the clock
    MaxStats      \* bound: transitions processed and peers initialised

ASSUME ManagerAssumption ==
    /\ Second \in Nat \ {0} /\ AuditLimit \in Nat \ {0}
    /\ MaxAge \in Nat /\ MaxConnTime \in Nat /\ MaxStats \in Nat

VARIABLES
    connections,   \* the state of each peer, or NoConnection
    audit_trail,   \* the last AuditLimit transitions, oldest first
    stats,         \* ConnectionStats
    polled,        \* peers a get_timed_out_peers call returned, not yet handled
    conn_time            \* the clock, in milliseconds

connVars == <<connections, audit_trail, stats, polled, conn_time>>

-----------------------------------------------------------------------------

NoConnection == [name |-> "None"]

Known(p) == connections[p] # NoConnection

AuditRecord ==
    [peer_id : Peer, from_state : StateName, to_state : StateName,
     event : {e.kind : e \in ConnectionEvent}]

ConnInit ==
    /\ connections = [p \in Peer |-> NoConnection]
    /\ audit_trail = <<>>
    /\ stats = [peers_initialized |-> 0, peers_removed |-> 0,
                state_transitions |-> 0, peers_cleaned_up |-> 0]
    /\ polled = {}
    /\ conn_time = 0

-----------------------------------------------------------------------------
(* Operations *)

\* What the statistics become when initialize_peer runs for p.
Initialized(p) ==
    IF Known(p) THEN stats ELSE [stats EXCEPT !.peers_initialized = @ + 1]

StateOf(p) == IF Known(p) THEN connections[p] ELSE new_disconnected

initialize_peer(p) ==
    /\ stats.peers_initialized < MaxStats
    /\ connections' = [connections EXCEPT ![p] = StateOf(p)]
    /\ stats' = Initialized(p)
    /\ UNCHANGED <<audit_trail, polled, conn_time>>

Trimmed(trail) == IF Len(trail) > AuditLimit THEN Tail(trail) ELSE trail

\* The body of process_connection_event once the state has been taken out of
\* the map: it goes back only when the transition is valid.
Transition(p, e) ==
    \/ /\ MayTransition(StateOf(p), e)
       /\ connections' = [connections EXCEPT ![p] = NewState(StateOf(p), e, conn_time)]
       /\ audit_trail' = Trimmed(Append(audit_trail, AuditEntry(p, StateOf(p), e, conn_time)))
       /\ stats' = [Initialized(p) EXCEPT !.state_transitions = @ + 1]
    \/ /\ ~MayTransition(StateOf(p), e)
       /\ connections' = [connections EXCEPT ![p] = NoConnection]
       /\ stats' = Initialized(p)
       /\ UNCHANGED audit_trail

process_connection_event(p, e) ==
    /\ stats.state_transitions < MaxStats /\ stats.peers_initialized < MaxStats
    /\ Transition(p, e)
    /\ UNCHANGED <<polled, conn_time>>

\* Defect: the removal is counted whether or not the peer was there.
BugRemove(p) ==
    /\ stats.peers_removed < MaxStats
    /\ connections' = [connections EXCEPT ![p] = NoConnection]
    /\ stats' = [stats EXCEPT !.peers_removed = @ + 1]
    /\ UNCHANGED <<audit_trail, polled, conn_time>>

remove_peer(p) ==
    /\ Known(p)
    /\ connections' = [connections EXCEPT ![p] = NoConnection]
    /\ stats' = [stats EXCEPT !.peers_removed = @ + 1]
    /\ UNCHANGED <<audit_trail, polled, conn_time>>

TimedOut(p) ==
    /\ Known(p)
    /\ has_timeout(connections[p]) # Never
    /\ conn_time >= has_timeout(connections[p])

get_timed_out_peers ==
    /\ polled' = {p \in Peer : TimedOut(p)}
    /\ UNCHANGED <<connections, audit_trail, stats, conn_time>>

\* The caller applies one polled timeout, possibly long after the poll.
ApplyPolledTimeout(p) ==
    /\ p \in polled
    /\ stats.state_transitions < MaxStats /\ stats.peers_initialized < MaxStats
    /\ Transition(p, Plain("Timeout"))
    /\ polled' = polled \ {p}
    /\ UNCHANGED conn_time

\* as_millis().saturating_sub(max_age_seconds * 1000)
Cutoff == IF conn_time > MaxAge * Second THEN conn_time - MaxAge * Second ELSE 0

Old(p) ==
    \/ /\ connections[p].name = "Disconnected"
       /\ connections[p].last_seen # Never
       /\ connections[p].last_seen < Cutoff
    \/ connections[p].name = "Failed" /\ connections[p].failed_at < Cutoff

cleanup_old_peers ==
    LET gone == {p \in Peer : Known(p) /\ Old(p)}
    IN  /\ connections' = [p \in Peer |-> IF p \in gone THEN NoConnection ELSE connections[p]]
        /\ stats' = [peers_initialized |-> stats.peers_initialized,
                     peers_removed |-> stats.peers_removed + Cardinality(gone),
                     state_transitions |-> stats.state_transitions,
                     peers_cleaned_up |-> stats.peers_cleaned_up + Cardinality(gone)]
        /\ UNCHANGED <<audit_trail, polled, conn_time>>

ConnTick ==
    /\ conn_time < MaxConnTime
    /\ conn_time' = conn_time + 1
    /\ UNCHANGED <<connections, audit_trail, stats, polled>>

ConnNext ==
    \/ \E p \in Peer : initialize_peer(p)
    \/ \E p \in Peer, e \in ConnectionEvent : process_connection_event(p, e)
    \/ \E p \in Peer : remove_peer(p)
    \/ get_timed_out_peers
    \/ \E p \in Peer : ApplyPolledTimeout(p)
    \/ cleanup_old_peers
    \/ ConnTick

ConnSpec == ConnInit /\ [][ConnNext]_connVars

-----------------------------------------------------------------------------
(* Properties *)

\* Type correctness of the map, the trail, the counters and the clock.
ConnTypeOK ==
    /\ connections \in [Peer -> State \cup {NoConnection}]
    /\ audit_trail \in Seq(AuditRecord) /\ Len(audit_trail) <= AuditLimit
    /\ stats \in [peers_initialized : Nat, peers_removed : Nat,
                  state_transitions : Nat, peers_cleaned_up : Nat]
    /\ polled \subseteq Peer
    /\ conn_time \in Nat

EntriesOf(p) == {i \in 1..Len(audit_trail) : audit_trail[i].peer_id = p}

\* The audit trail explains the map: the entries of a peer follow one another
\* (or restart at Disconnected, where a peer that was removed begins again),
\* and the last one leads to the state the peer is in, unless the peer was
\* created anew since and nothing has happened to it.
AuditExplains ==
    \A p \in Peer :
        /\ \A i, j \in EntriesOf(p) :
               (i < j /\ \A k \in EntriesOf(p) : ~(i < k /\ k < j)) =>
                   audit_trail[j].from_state \in {audit_trail[i].to_state, "Disconnected"}
        /\ \A i \in EntriesOf(p) :
               (Known(p) /\ \A k \in EntriesOf(p) : k <= i) =>
                   \/ connections[p].name = audit_trail[i].to_state
                   \/ connections[p] = new_disconnected

\* A peer that get_timed_out_peers reports accepts the Timeout event it is
\* reported with, so a poll applied at once never errs.
TimeoutAccepted ==
    \A p \in Peer : TimedOut(p) => MayTransition(connections[p], Plain("Timeout"))

\* No peer is counted as removed twice: the peers removed and the peers held
\* never exceed the peers initialised, whatever the mix of removals,
\* clean-ups, polled timeouts and events.
RemovedOnce ==
    stats.peers_removed + Cardinality({p \in Peer : Known(p)}) <= stats.peers_initialized

\* What the counters' documentation says: a peer leaves the map by being
\* removed. An invalid event takes the state out of the map and never puts it
\* back, and no counter shows it.
PeersAccounted ==
    stats.peers_removed + Cardinality({p \in Peer : Known(p)}) = stats.peers_initialized

\* The manager's map, trail and counters agree, and the timeouts it reports are ones
\* the states accept (process_connection_event, get_timed_out_peers).
ConnectionsSound == ConnTypeOK /\ AuditExplains /\ TimeoutAccepted /\ RemovedOnce
=============================================================================
