------------------------------- MODULE Failover -------------------------------
(***************************************************************************)
(* The choice of a transport (bitchat-core, transport/): the               *)
(* BasicTransportManager of failover.rs, the AdvancedTransportManager of   *)
(* advanced_failover.rs around it, and the TransportFailoverCoordinator of *)
(* integration.rs around both. `wrapped` says whether the basic manager is *)
(* used alone, with any strategy, or inside the other two, which fix the   *)
(* strategy and tell it nothing of the peers.                              *)
(*                                                                         *)
(* Scores are fractions, compared by cross-multiplication; they ignore     *)
(* what rounding of floating point numbers could add.                      *)
(***************************************************************************)
EXTENDS Integers, Sequences, FiniteSets, SequencesExt, FiniteSetsExt

CONSTANTS
    RoutedPeer,
    FailureLimit,     \* 3 in record_failure and is_healthy
    MaxRecent,        \* recent operations kept, 100 in update_metrics
    RecentWindow,     \* and for how long, one hour
    LatencySample,    \* latencies a health check may report
    Rules,            \* routing rules that may be added
    MaxRules,         \* bound: how many are
    MaxQueue,         \* max_queue_size
    QueueRetention,   \* queue_retention_time
    CheckInterval,    \* health_check_integration_interval
    MaxRouteTime      \* bound: the clock

ASSUME RoutedAssumption == RoutedPeer \cap {"PublicMesh", "PublicLocation"} = {}

Transport == {"Ble", "Nostr"}
Strategy == {"PreferPrimary", "LoadBalance", "BroadcastAll"}
Primary == "Ble"
NoTime == -1
PeerReachability == [ble : BOOLEAN, nostr : BOOLEAN, ble_seen : Int, nostr_seen : Int]

VARIABLES
    wrapped, advanced,    \* which managers are in use; enable_advanced_failover
    strategy,             \* routing_strategy
    transport_status,     \* TransportStatus: available, consecutive failures
    peer_reachability,    \* by peer, NoReach when nothing is known
    transport_health,     \* TransportHealth, NoHealth before the first operation
    rules,                \* the routing table, highest priority first
    message_queue,        \* time -> message
    pending_checks, last_check,
    route_now,
    outstanding           \* health checks asked for and not yet answered, by transport

routeVars == <<wrapped, advanced, strategy, transport_status, peer_reachability, transport_health,
               rules, message_queue, pending_checks, last_check, route_now, outstanding>>
basicVars == <<transport_status, peer_reachability>>
monitorVars == <<transport_health, rules, message_queue, pending_checks, last_check, outstanding>>
settings == <<wrapped, advanced, strategy>>

NoReach == [ble |-> FALSE, nostr |-> FALSE, ble_seen |-> NoTime - 1, nostr_seen |-> NoTime - 1]
NoHealth == [recent |-> <<>>, failures |-> 0, latency |-> NoTime]

RouteInit ==
    /\ wrapped \in BOOLEAN /\ advanced \in BOOLEAN /\ (advanced => wrapped)
    /\ strategy \in IF wrapped THEN {"PreferPrimary"} ELSE Strategy
    /\ transport_status = [t \in Transport |-> [is_available |-> FALSE, failures |-> 0]]
    /\ peer_reachability = [p \in RoutedPeer |-> NoReach]
    /\ transport_health = [t \in Transport |-> NoHealth]
    /\ rules = <<>> /\ message_queue = << >>
    /\ pending_checks = {} /\ last_check = NoTime /\ route_now = 0
    /\ outstanding = [t \in Transport |-> 0]

Saturating(n) == Min({n + 1, FailureLimit})

-----------------------------------------------------------------------------
(* BasicTransportManager *)

record_success(s) == [is_available |-> TRUE, failures |-> 0]
record_failure(s) ==
    LET n == Saturating(s.failures)
    IN  [is_available |-> s.is_available /\ n < FailureLimit, failures |-> n]

is_transport_healthy(t) == transport_status[t].is_available /\ transport_status[t].failures < FailureLimit

Reported(t, ok) ==
    transport_status' = [transport_status EXCEPT ![t] = IF ok THEN record_success(@) ELSE record_failure(@)]

update_transport_status(t, ok) ==
    /\ ~wrapped
    /\ Reported(t, ok)
    /\ UNCHANGED <<settings, peer_reachability, monitorVars, route_now>>

update_peer_reachability(p, ble, nostr) ==
    /\ ~wrapped
    /\ peer_reachability' = [peer_reachability EXCEPT ![p] =
           [ble |-> ble, ble_seen |-> IF ble THEN route_now ELSE Max({@.ble_seen, NoTime}),
            nostr |-> nostr, nostr_seen |-> IF nostr THEN route_now ELSE Max({@.nostr_seen, NoTime})]]
    /\ UNCHANGED <<settings, transport_status, monitorVars, route_now>>

Use(ts) == [kind |-> "Use", transports |-> ts]
Queue == [kind |-> "Queue", transports |-> {}]
CannotSend == [kind |-> "CannotSend", transports |-> {}]

UseIfHealthy(t) == IF is_transport_healthy(t) THEN Use({t}) ELSE Queue
Reaches(r, t) == IF t = "Ble" THEN r.ble ELSE r.nostr
Other(t) == CHOOSE o \in Transport : o # t

\* preferred_transport under LoadBalance: the one the peer was seen on last.
preferred_transport(r) ==
    IF r.ble /\ r.nostr THEN (IF r.ble_seen > r.nostr_seen THEN "Ble" ELSE "Nostr")
    ELSE IF r.ble THEN "Ble" ELSE "Nostr"

BugUsable(r) == {t \in Transport : Reaches(r, t)}
\* The healthy transports a peer is reachable on.
Usable(r) == {t \in Transport : Reaches(r, t) /\ is_transport_healthy(t)}

\* LoadBalance falls back to the other transport whether it reaches the peer or not.
select_transport_for_peer(p) ==
    LET r == peer_reachability[p]
    IN  CASE strategy = "PreferPrimary" ->
               IF r = NoReach THEN UseIfHealthy(Primary)
               ELSE IF "Ble" \in Usable(r) THEN Use({"Ble"})
               ELSE IF Usable(r) # {} THEN Use({"Nostr"}) ELSE Queue
          [] strategy = "LoadBalance" ->
               IF r = NoReach THEN Queue
               ELSE IF ~r.ble /\ ~r.nostr THEN CannotSend
               ELSE IF is_transport_healthy(preferred_transport(r)) THEN Use({preferred_transport(r)})
               ELSE UseIfHealthy(Other(preferred_transport(r)))
          [] strategy = "BroadcastAll" ->
               IF r = NoReach \/ Usable(r) = {} THEN Queue ELSE Use(Usable(r))

Context == {"PublicMesh", "PublicLocation"} \cup RoutedPeer

select_transport(c) ==
    CASE c = "PublicMesh" -> UseIfHealthy("Ble")
      [] c = "PublicLocation" -> UseIfHealthy("Nostr")
      [] OTHER -> select_transport_for_peer(c)

-----------------------------------------------------------------------------
(* TransportHealth and TransportHealthMonitor *)

update_metrics(recent) ==
    LET kept == SelectSeq(recent, LAMBDA o : o.at > route_now - RecentWindow)
    IN  SubSeq(kept, Len(kept) - Min({Len(kept), MaxRecent}) + 1, Len(kept))

Averaged(old, sample) ==
    IF sample = NoTime THEN old ELSE IF old = NoTime THEN sample ELSE (old + sample) \div 2

record_operation(t, ok, latency) ==
    transport_health' = [transport_health EXCEPT ![t] =
        [recent |-> update_metrics(Append(@.recent, [at |-> route_now, ok |-> ok])),
         failures |-> IF ok THEN 0 ELSE Saturating(@.failures),
         latency |-> IF ok THEN Averaged(@.latency, latency) ELSE @.latency]]

Successes(h) == Len(SelectSeq(h.recent, LAMBDA o : o.ok))
is_healthy(h) == h.failures < FailureLimit /\ 2 * Successes(h) > Len(h.recent)

LatencyFactor(l) == IF l < 100 THEN 10 ELSE IF l < 500 THEN 8 ELSE IF l < 1000 THEN 6 ELSE 4

\* The score as a numerator and a denominator; one half when nothing is known.
get_transport_score(t) ==
    LET h == transport_health[t]
    IN  IF h = NoHealth THEN [num |-> 1, den |-> 2]
        ELSE [num |-> Successes(h) * (10 - Min({9, h.failures})) * LatencyFactor(h.latency),
              den |-> Len(h.recent) * 100]
Better(t, u) == LET a == get_transport_score(t)
                    b == get_transport_score(u)
                IN  a.num * b.den > b.num * a.den

\* Highest score first; the sort is stable, so BLE wins a tie.
get_transport_scores ==
    IF Better("Nostr", "Ble") THEN <<"Nostr", "Ble">> ELSE <<"Ble", "Nostr">>

\* The first that is healthy.
select_by_performance(c) ==
    LET scores == get_transport_scores
    IN  IF c = "PublicMesh" THEN UseIfHealthy("Ble")
        ELSE IF c = "PublicLocation" THEN UseIfHealthy("Nostr")
        ELSE IF is_transport_healthy(scores[1]) THEN Use({scores[1]}) ELSE UseIfHealthy(scores[2])

-----------------------------------------------------------------------------
(* Routing rules *)

AnyContext == "any"
\* A context given in a rule is compared by its kind: any peer fits a rule for peers.
RoutingRule == [context : {AnyContext, "PublicMesh", "peers"}, preferred : Transport,
                fallback : BOOLEAN, priority : Nat, enabled : BOOLEAN]
ASSUME RulesTyped == Rules \subseteq RoutingRule

matches(r, c) ==
    /\ r.enabled
    /\ r.context \in {AnyContext, IF c \in RoutedPeer THEN "peers" ELSE c}

find_rule(c) == SelectSeq(rules, LAMBDA r : matches(r, c))

Trusted(t) == transport_health[t] # NoHealth /\ is_healthy(transport_health[t]) /\ is_transport_healthy(t)

apply_routing_rule(r) ==
    IF Trusted(r.preferred) THEN Use({r.preferred})
    ELSE IF r.fallback /\ Trusted(Other(r.preferred)) THEN Use({Other(r.preferred)}) ELSE Queue

\* route_message: a rule, else the scores, else the basic manager.
select_transport_advanced(c) ==
    IF find_rule(c) # <<>> THEN apply_routing_rule(Head(find_rule(c)))
    ELSE IF advanced THEN select_by_performance(c)
    ELSE select_transport(c)

route_message(c) == IF wrapped THEN select_transport_advanced(c) ELSE select_transport(c)

\* The table is sorted by priority, later rules behind earlier ones of the same.
add_routing_rule(r) ==
    /\ wrapped /\ Len(rules) < MaxRules
    /\ rules' = LET at == Len(SelectSeq(rules, LAMBDA x : x.priority >= r.priority))
                IN  InsertAt(rules, at + 1, r)
    /\ UNCHANGED <<settings, basicVars, transport_health, message_queue, pending_checks,
                   last_check, route_now, outstanding>>

-----------------------------------------------------------------------------
(* TransportFailoverCoordinator *)

\* A status other than Active counts as a failed operation.
process_transport_status(t, active) ==
    /\ wrapped
    /\ record_operation(t, active, NoTime)
    /\ Reported(t, active)
    /\ UNCHANGED <<settings, peer_reachability, rules, message_queue, pending_checks, last_check,
                   route_now, outstanding>>

\* A check that was never answered keeps its transport from being checked again.
Triggered == Transport \ pending_checks

check_health_monitoring ==
    /\ advanced
    /\ last_check = NoTime \/ route_now - last_check > CheckInterval
    /\ last_check' = route_now
    /\ pending_checks' = Transport
    /\ outstanding' = [t \in Transport |-> outstanding[t] + IF t \in Triggered THEN 1 ELSE 0]
    /\ UNCHANGED <<settings, basicVars, transport_health, rules, message_queue, route_now>>

\* The result reaches the health monitor and not the basic manager.
process_health_check_result(t, ok, latency) ==
    /\ outstanding[t] > 0
    /\ outstanding' = [outstanding EXCEPT ![t] = @ - 1]
    /\ pending_checks' = pending_checks \ {t}
    /\ record_operation(t, ok, latency)
    /\ UNCHANGED <<settings, basicVars, rules, message_queue, last_check, route_now>>

\* The transport dies with the request: nobody answers.
CheckLost(t) ==
    /\ outstanding[t] > 0
    /\ outstanding' = [outstanding EXCEPT ![t] = @ - 1]
    /\ UNCHANGED <<settings, basicVars, transport_health, rules, message_queue, pending_checks,
                   last_check, route_now>>

Times == DOMAIN message_queue
FirstDropped == IF Cardinality(Times) >= MaxQueue THEN {Min(Times)} ELSE {}

\* The queue is keyed by the time: a message of the same instant is replaced.
queue_message(c) ==
    /\ wrapped
    /\ message_queue' = [t \in (Times \ FirstDropped) \cup {route_now} |->
           IF t = route_now THEN c ELSE message_queue[t]]
    /\ UNCHANGED <<settings, basicVars, transport_health, rules, pending_checks, last_check,
                   route_now, outstanding>>

ExpiredAt(t) == route_now - t > QueueRetention
Ready == {t \in Times : ~ExpiredAt(t) /\ route_message(message_queue[t]).kind = "Use"}

process_message_queue ==
    /\ wrapped /\ message_queue # << >>
    /\ message_queue' = [t \in {x \in Times \ Ready : ~ExpiredAt(x)} |-> message_queue[t]]
    /\ UNCHANGED <<settings, basicVars, transport_health, rules, pending_checks, last_check,
                   route_now, outstanding>>

RouteTick ==
    /\ route_now < MaxRouteTime
    /\ route_now' = route_now + 1
    /\ UNCHANGED <<settings, basicVars, monitorVars>>

RouteNext ==
    \/ \E t \in Transport :
           \/ \E ok \in BOOLEAN :
                  \/ update_transport_status(t, ok) \/ process_transport_status(t, ok)
                  \/ \E l \in LatencySample \cup {NoTime} : process_health_check_result(t, ok, l)
           \/ CheckLost(t)
    \/ \E p \in RoutedPeer, ble, nostr \in BOOLEAN : update_peer_reachability(p, ble, nostr)
    \/ \E r \in Rules : add_routing_rule(r)
    \/ check_health_monitoring
    \/ \E c \in Context : queue_message(c)
    \/ process_message_queue
    \/ RouteTick

RouteSpec == RouteInit /\ [][RouteNext]_routeVars

-----------------------------------------------------------------------------
(* Properties *)

\* No message is routed to a transport that was never up, or whose reports failed
\* FailureLimit times in a row, whichever rule, score or strategy chose it.
RoutedToHealthy ==
    \A c \in Context : \A t \in route_message(c).transports :
        transport_status[t].is_available /\ transport_status[t].failures < FailureLimit

\* Without LoadBalance, a peer whose reachability is known is only written to over
\* a transport it was last seen on.
RoutedToReachable ==
    ~wrapped /\ strategy # "LoadBalance" =>
        \A p \in RoutedPeer : peer_reachability[p] # NoReach =>
            \A t \in route_message(p).transports : Reaches(peer_reachability[p], t)

\* At most one health check of a transport is under way, however late the answers.
OneCheckAtATime == \A t \in Transport : outstanding[t] <= 1

\* Whatever is routed goes where it can arrive, and health checks do not pile up
\* (route_message, check_health_monitoring).
RoutingSound == RoutedToHealthy /\ RoutedToReachable /\ OneCheckAtATime
=============================================================================
