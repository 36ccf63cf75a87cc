---------------------------- MODULE ConnectionState ----------------------------
(***************************************************************************)
(* The connection state machine of one peer (bitchat-core,                 *)
(* protocol/connection_state.rs): ConnectionState, ConnectionEvent and     *)
(* ConnectionState::transition. The module has no variables: it is used by *)
(* ConnectionManager and by CoreLogic, which each keep a map of states.    *)
(*                                                                         *)
(* Fields that nothing in the program reads again (session_id, error       *)
(* reasons, retry_after, failed_attempts, the start times) are left out.   *)
(* Timestamps are milliseconds; Never is the None of an Option<Timestamp>. *)
(***************************************************************************)
EXTENDS Integers

CONSTANT TimeoutSeconds   \* the timeout_seconds values callers pass

ASSUME TimeoutAssumption == TimeoutSeconds \subseteq Nat

Never == -1
TransportType == {"Ble", "Nostr"}
NoTransport == "None"

-----------------------------------------------------------------------------
(* States *)

Disconnected(lastSeen) == [name |-> "Disconnected", last_seen |-> lastSeen]

Discovering(found, timeout) ==
    [name |-> "Discovering", discovered_transports |-> found, discovery_timeout |-> timeout]

Connecting(transport, timeout) ==
    [name |-> "Connecting", transport |-> transport, connection_timeout |-> timeout]

Connected(transport, activity) ==
    [name |-> "Connected", transport |-> transport, last_activity |-> activity]

Failed(transport, at) == [name |-> "Failed", transport |-> transport, failed_at |-> at]

new_disconnected == Disconnected(Never)

StateName == {"Disconnected", "Discovering", "Connecting", "Connected", "Failed"}

OptionTime == Nat \cup {Never}

State ==
       [name : {"Disconnected"}, last_seen : OptionTime]
  \cup [name : {"Discovering"}, discovered_transports : SUBSET TransportType,
        discovery_timeout : OptionTime]
  \cup [name : {"Connecting"}, transport : TransportType, connection_timeout : Nat]
  \cup [name : {"Connected"}, transport : TransportType, last_activity : Nat]
  \cup [name : {"Failed"}, transport : TransportType \cup {NoTransport}, failed_at : Nat]

-----------------------------------------------------------------------------
(* Events *)

Plain(kind) == [kind |-> kind]

PlainKind == {"ConnectionEstablished", "ConnectionFailed", "ConnectionLost",
              "ActivityDetected", "Timeout", "Disconnect", "Retry"}

ConnectionEvent ==
       [kind : {"StartDiscovery"}, timeout_seconds : TimeoutSeconds \cup {Never}]
  \cup [kind : {"PeerDiscovered"}, transport : TransportType]
  \cup [kind : {"InitiateConnection"}, transport : TransportType,
        timeout_seconds : TimeoutSeconds]
  \cup [kind : PlainKind]

-----------------------------------------------------------------------------
(* ConnectionState::transition *)

\* The (state, event) pairs with an arm of their own, and the universal arm.
Handles == [
    Disconnected |-> {"StartDiscovery"},
    Discovering  |-> {"PeerDiscovered", "InitiateConnection", "Timeout"},
    Connecting   |-> {"ConnectionEstablished", "ConnectionFailed", "Timeout"},
    Connected    |-> {"ActivityDetected", "ConnectionLost"},
    Failed       |-> {"Retry"} ]

\* FALSE stands for the InvalidTransition error.
MayTransition(s, e) == e.kind \in Handles[s.name] \cup {"Disconnect"}

\* current_timestamp() + secs: the seconds are added to a count of milliseconds.
Deadline(now, secs) == IF secs = Never THEN Never ELSE now + secs

NewState(s, e, now) ==
    CASE e.kind = "StartDiscovery" -> Discovering({}, Deadline(now, e.timeout_seconds))
      [] e.kind = "PeerDiscovered" ->
            [s EXCEPT !.discovered_transports = @ \cup {e.transport}]
      [] e.kind = "InitiateConnection" ->
            Connecting(e.transport, Deadline(now, e.timeout_seconds))
      [] e.kind = "ConnectionEstablished" -> Connected(s.transport, now)
      [] e.kind = "ActivityDetected" -> [s EXCEPT !.last_activity = now]
      [] e.kind = "Timeout" -> Failed(NoTransport, now)
      [] e.kind \in {"ConnectionFailed", "ConnectionLost"} -> Failed(s.transport, now)
      [] e.kind = "Disconnect" -> Disconnected(now)
      [] e.kind = "Retry" -> Disconnected(Never)

AuditEntry(p, s, e, now) ==
    [peer_id |-> p, from_state |-> s.name, to_state |-> NewState(s, e, now).name,
     event |-> e.kind]

can_send_messages(s) == s.name = "Connected"

has_timeout(s) ==
    CASE s.name = "Discovering" -> s.discovery_timeout
      [] s.name = "Connecting" -> s.connection_timeout
      [] OTHER -> Never
=============================================================================
