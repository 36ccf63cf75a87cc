----------------------------- MODULE RelayManager -----------------------------
(***************************************************************************)
(* NostrRelayManager and GeoRelayDirectory (bitchat-nostr,                 *)
(* relay_manager.rs): relays with their health, the selection of some of   *)
(* them and the connections made to those selected. The connection itself  *)
(* is simulated by the code: a relay of unknown health connects by chance. *)
(***************************************************************************)
EXTENDS Integers, FiniteSets

CONSTANTS
    Relay,          \* relay URLs
    DefaultRelay,   \* get_default_relays
    PrivacyScore,   \* privacy_score of each relay
    Near,           \* Near[g]: the relays of the directory for geohash g, best prefix first
    SlowLatency,    \* 5000 ms
    Latency,        \* latencies reported
    MaxAttempts,    \* bound: connection attempts counted
    MaxFailures     \* bound: failures counted by update_relay_health

ASSUME RelayConstants ==
    IsFiniteSet(Relay) /\ DefaultRelay \subseteq Relay /\ Latency \subseteq Nat

VARIABLES
    relay_info,          \* relay_info[u], or NoRelay
    selection_strategy,
    relay_selected       \* the last selection: strategy, was one healthy, which connected

relayVars == <<relay_info, selection_strategy, relay_selected>>

RelayStrategy == {"Geographic", "HealthBased", "PrivacyFocused", "RoundRobin", "BroadcastAll"}
NoRelay == [health |-> "none"]
RelayInfo == [health |-> "Unknown", is_connected |-> FALSE, consecutive_failures |-> 0,
              attempts |-> 0, successes |-> 0]
Managed == {u \in Relay : relay_info[u] # NoRelay}

RelayInit ==
    /\ relay_info = [u \in Relay |-> NoRelay]
    /\ selection_strategy = "Geographic"
    /\ relay_selected = [strategy |-> "Geographic", offered |-> FALSE, connected |-> {}]

\* An entry with the same URL is replaced, its connection forgotten.
add_relay(u) ==
    /\ relay_info' = [relay_info EXCEPT ![u] = RelayInfo]
    /\ UNCHANGED <<selection_strategy, relay_selected>>

load_default_relays ==
    /\ relay_info' = [u \in Relay |-> IF u \in DefaultRelay THEN RelayInfo ELSE relay_info[u]]
    /\ UNCHANGED <<selection_strategy, relay_selected>>

remove_relay(u) ==
    /\ relay_info' = [relay_info EXCEPT ![u] = NoRelay]
    /\ UNCHANGED <<selection_strategy, relay_selected>>

set_selection_strategy(s) ==
    /\ selection_strategy' = s
    /\ UNCHANGED <<relay_info, relay_selected>>

\* connection_success_rate of a is above that of b.
BetterRate(a, b) == a.successes * b.attempts > b.successes * a.attempts
                        \/ (b.attempts = 0 /\ a.successes > 0)

BugBefore(a, b) == BetterRate(a, b)
\* The order of select_healthy_relays.
Before(a, b) ==
    /\ a.health = "Healthy"
    /\ b.health # "Healthy" \/ BetterRate(a, b)

\* The first count relays of some order the sort may leave them in.
Top(S, count, Better(_, _)) ==
    {T \in SUBSET S : /\ Cardinality(T) = IF count < Cardinality(S) THEN count ELSE Cardinality(S)
                      /\ \A u \in T, v \in S \ T : ~Better(v, u)}

select_healthy_relays(count) ==
    Top(Managed, count, LAMBDA u, v : Before(relay_info[u], relay_info[v]))
select_privacy_relays(count) ==
    Top(Managed, count, LAMBDA u, v : PrivacyScore[u] > PrivacyScore[v])
\* Hashes pick the same relay more than once.
select_round_robin(count) ==
    {T \in SUBSET Managed : Cardinality(T) <= count /\ (T = {} <=> Managed = {} \/ count = 0)}

\* The directory knows relays the manager may not have.
closest_relays(g, count) ==
    LET enough == {i \in DOMAIN Near[g] : Cardinality(Near[g][i]) >= count}
        pool == IF enough = {} THEN DefaultRelay
                ELSE Near[g][CHOOSE i \in enough : \A j \in enough : i <= j]
    IN  Top(pool, count, LAMBDA u, v : FALSE)

select_relays(g, count) ==
    CASE selection_strategy = "Geographic" ->
             IF g = "" THEN select_healthy_relays(count) ELSE closest_relays(g, count)
      [] selection_strategy = "HealthBased" -> select_healthy_relays(count)
      [] selection_strategy = "PrivacyFocused" -> select_privacy_relays(count)
      [] selection_strategy = "RoundRobin" -> select_round_robin(count)
      [] OTHER -> {Managed}

\* Healthy relays connect, unknown ones by chance, the others never.
Connects(r, lucky) == r.health = "Healthy" \/ (r.health = "Unknown" /\ lucky)

connect_to_relay(r, lucky) ==
    IF Connects(r, lucky)
    THEN [health |-> "Healthy", is_connected |-> TRUE, consecutive_failures |-> 0,
          attempts |-> r.attempts + 1, successes |-> r.successes + 1]
    ELSE [health |-> IF r.health = "Unknown" THEN "Unhealthy" ELSE r.health,
          is_connected |-> r.is_connected, consecutive_failures |-> r.consecutive_failures + 1,
          attempts |-> r.attempts + 1, successes |-> r.successes]

ensure_connections(targets, lucky) ==
    relay_info' = [u \in Relay |->
        IF u \in targets \cap Managed /\ ~relay_info[u].is_connected
        THEN connect_to_relay(relay_info[u], u \in lucky) ELSE relay_info[u]]

\* Selecting relays for a message and connecting to them.
select_and_connect(g, count, lucky) ==
    \E targets \in select_relays(g, count) :
        /\ \A u \in targets \cap Managed : relay_info[u].attempts < MaxAttempts
        /\ ensure_connections(targets, lucky)
        /\ relay_selected' = [strategy |-> selection_strategy,
               offered |-> \E u \in Managed : relay_info[u].health = "Healthy",
               connected |-> {u \in targets \cap Managed : relay_info'[u].is_connected}]
        /\ UNCHANGED selection_strategy

TooManyFailures(n) == n >= 3

\* What a report of success or of failure makes of a relay.
Rated(r, success, latency) ==
    LET failures == IF success THEN 0 ELSE r.consecutive_failures + 1
    IN  [health |-> IF success THEN IF latency > SlowLatency THEN "Degraded" ELSE "Healthy"
                    ELSE IF TooManyFailures(failures) THEN "Unhealthy" ELSE r.health,
         is_connected |-> r.is_connected, consecutive_failures |-> failures,
         attempts |-> r.attempts, successes |-> r.successes]

update_relay_health(u, success, latency) ==
    /\ u \in Managed
    /\ relay_info[u].consecutive_failures < MaxFailures
    /\ relay_info' = [relay_info EXCEPT ![u] = Rated(@, success, latency)]
    /\ UNCHANGED <<selection_strategy, relay_selected>>

RelayNext ==
    \/ \E u \in Relay :
           \/ add_relay(u) \/ remove_relay(u)
           \/ \E ok \in BOOLEAN, l \in Latency : update_relay_health(u, ok, l)
    \/ load_default_relays
    \/ \E s \in RelayStrategy : set_selection_strategy(s)
    \/ \E g \in DOMAIN Near, count \in 1..2, lucky \in SUBSET Relay :
           select_and_connect(g, count, lucky)

RelaySpec == RelayInit /\ [][RelayNext]_relayVars

-----------------------------------------------------------------------------
(* Properties *)

\* Three failures in a row, of attempts to connect or of transmissions and in any
\* order, leave no relay rated healthy.
ThreeStrikes ==
    \A u \in Managed :
        relay_info[u].consecutive_failures >= 3 => relay_info[u].health \in {"Unhealthy", "Degraded"}

\* Selection by health never leaves a message without a connection while one of the
\* relays is healthy, whatever was selected and whatever failed before.
HealthFindsConnection ==
    relay_selected.strategy = "HealthBased" /\ relay_selected.offered
        => relay_selected.connected # {}

\* The rating of relays can be relied on: failures tell, and selection by health
\* finds a connection when there is one (update_relay_health, select_relays).
RelaysSound == ThreeStrikes /\ HealthFindsConnection
=============================================================================
