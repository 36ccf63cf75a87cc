------------------------------ MODULE RateLimiter ------------------------------
(***************************************************************************)
(* RateLimiter (bitchat-runtime, rate_limiter.rs): sliding windows of      *)
(* events, one pair per peer and one pair for everybody, with a bounded    *)
(* number of tracked peers. The core logic asks it before it handles a     *)
(* received message, packet or connection.                                 *)
(*                                                                         *)
(* Messages and connections are counted alike, each in windows of their    *)
(* own: Kind stands for the two.                                           *)
(***************************************************************************)
EXTENDS Integers, FiniteSets

CONSTANTS
    RatePeer,
    PeerLimit, GlobalLimit,   \* events of one kind per window: RateLimitConfig
    Window,                   \* window_duration_secs
    MaxTracked,               \* max_tracked_peers
    MaxRateTime, MaxCalls         \* bounds: the clock; checks per clock reading

\* A window of no length would let cleanup_old_peers forget a peer at once.
ASSUME LimiterAssumption ==
    /\ {PeerLimit, GlobalLimit, MaxTracked, MaxRateTime, MaxCalls} \subseteq Nat
    /\ Window \in Nat \ {0}
    /\ IsFiniteSet(RatePeer)

VARIABLES
    global,    \* global[k]: the window of the events of kind k
    peers,     \* peer_limits: the windows and last access of each tracked peer
    rate_time,       \* the clock
    calls,     \* checks since the clock last moved
    accepted,  \* ghost: accepted[k][p]: the events that were allowed
    evicted    \* ghost: the peers a full table had to forget

rateVars == <<global, peers, rate_time, calls, accepted, evicted>>

Kind == {"message", "connection"}
Untracked == [last_access |-> -1]
Tracked == {p \in RatePeer : peers[p] # Untracked}

RateInit ==
    /\ global = [k \in Kind |-> {}]
    /\ peers = [p \in RatePeer |-> Untracked]
    /\ rate_time = 0 /\ calls = 0
    /\ accepted = [k \in Kind |-> [p \in RatePeer |-> {}]]
    /\ evicted = {}

-----------------------------------------------------------------------------
(* EventWindow *)

\* A window is a queue of times. Equal times are told apart by the check that made
\* them, and the order by time is all the order there is.
NewEvent == [at |-> rate_time, check |-> calls + 1]

\* cleanup_old_events: the times are in order, so dropping from the front is
\* dropping every event older than the window.
Cleanup(w) == {e \in w : rate_time - e.at <= Window}

add_event(w, e) == Cleanup(w \cup {e})

-----------------------------------------------------------------------------
(* PeerLimits and their clean-up *)

NewPeerLimits == [windows |-> [k \in Kind |-> {}], last_access |-> rate_time]

\* Defect: a peer is forgotten while its events still count.
BugRecent == {p \in Tracked : rate_time - peers[p].last_access < Window}

Recent == {p \in Tracked : rate_time - peers[p].last_access < 2 * Window}

\* The sets of peers cleanup_old_peers may leave: those accessed recently, less
\* the least recently used beyond MaxTracked (equal times in any order).
Survivors ==
    LET excess == IF Cardinality(Recent) > MaxTracked THEN Cardinality(Recent) - MaxTracked ELSE 0
    IN  {Recent \ out : out \in {o \in SUBSET Recent :
            /\ Cardinality(o) = excess
            /\ \A p \in o, q \in Recent \ o : peers[p].last_access <= peers[q].last_access}}

Keep(kept) == [p \in RatePeer |-> IF p \in kept THEN peers[p] ELSE Untracked]

-----------------------------------------------------------------------------
(* Operations *)

\* The peer's part of a check, after the clean-up left kept.
CheckPeer(p, k, kept) ==
    LET entry == IF p \in kept THEN peers[p] ELSE NewPeerLimits
        window == add_event(entry.windows[k], NewEvent)
    IN  /\ peers' = [Keep(kept) EXCEPT ![p] =
                        [windows |-> [entry.windows EXCEPT ![k] = window],
                         last_access |-> rate_time]]
        /\ accepted' = IF Cardinality(window) > PeerLimit THEN accepted
                       ELSE [accepted EXCEPT ![k] = [accepted[k] EXCEPT ![p] = accepted[k][p] \cup {NewEvent}]]
        /\ evicted' = evicted \cup (Recent \ kept)

\* check_message_allowed and check_connection_allowed. The event is counted
\* whether or not it is then allowed.
check_allowed(p, k) ==
    /\ calls < MaxCalls
    /\ calls' = calls + 1
    /\ global' = [global EXCEPT ![k] = add_event(global[k], NewEvent)]
    /\ \/ Cardinality(global'[k]) > GlobalLimit /\ UNCHANGED <<peers, accepted, evicted>>
       \/ /\ Cardinality(global'[k]) <= GlobalLimit
          /\ \E kept \in Survivors : CheckPeer(p, k, kept)
    /\ UNCHANGED rate_time

get_stats ==
    /\ global' = [k \in Kind |-> Cleanup(global[k])]
    /\ \E kept \in Survivors : peers' = Keep(kept) /\ evicted' = evicted \cup (Recent \ kept)
    /\ UNCHANGED <<rate_time, calls, accepted>>

RateTick ==
    /\ rate_time < MaxRateTime
    /\ rate_time' = rate_time + 1
    /\ calls' = 0
    /\ UNCHANGED <<global, peers, accepted, evicted>>

RateNext ==
    \/ \E p \in RatePeer, k \in Kind : check_allowed(p, k)
    \/ get_stats
    \/ RateTick

RateSpec == RateInit /\ [][RateNext]_rateVars

-----------------------------------------------------------------------------
(* Properties *)

RateEvent == [at : Nat, check : Nat]
Limits == [windows : [Kind -> SUBSET RateEvent], last_access : Nat]

\* Type correctness; windows hold events of the past.
RateTypeOK ==
    /\ global \in [Kind -> SUBSET RateEvent]
    /\ peers \in [RatePeer -> Limits \cup {Untracked}]
    /\ rate_time \in Nat /\ calls \in 0..MaxCalls
    /\ accepted \in [Kind -> [RatePeer -> SUBSET RateEvent]]
    /\ evicted \subseteq RatePeer
    /\ \A k \in Kind : \A e \in global[k] :
           e.at < rate_time \/ (e.at = rate_time /\ e.check <= calls)

\* The events of a set that lie within one window up to time t.
InWindow(w, t) == {e \in w : e.at <= t /\ t - e.at <= Window}

\* The events of a kind that were allowed; each is the check of one peer.
Allowed(k) == UNION {accepted[k][p] : p \in RatePeer}

\* However checks, statistics and clean-ups follow one another, no window of
\* time ever held more accepted events than the global limit (check_allowed).
GlobalRate ==
    \A k \in Kind, t \in 0..rate_time : Cardinality(InWindow(Allowed(k), t)) <= GlobalLimit

\* No window of time ever held more accepted events of one peer than the limit
\* per peer, unless a full table had to evict it: forgetting a peer after two
\* quiet windows never resets a count that still matters (cleanup_old_peers).
PeerRate ==
    \A p \in RatePeer \ evicted, k \in Kind, t \in 0..rate_time :
        Cardinality(InWindow(accepted[k][p], t)) <= PeerLimit

\* The table of peers holds at most one peer more than the maximum: the newcomer
\* enters after the clean-up.
TrackedBounded == Cardinality(Tracked) <= MaxTracked + 1

\* The limits hold in every window of time, with a table of peers that does not grow
\* (check_message_allowed, check_connection_allowed, cleanup_old_peers).
RatesKept == RateTypeOK /\ GlobalRate /\ PeerRate /\ TrackedBounded
=============================================================================
