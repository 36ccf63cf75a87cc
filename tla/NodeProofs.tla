------------------------------ MODULE NodeProofs ------------------------------
(***************************************************************************)
(* Proofs about a running node: the core task with its channels, the       *)
(* tasks of the two transports, the clock of the simulator, the command    *)
(* line application with its terminal and its configuration, the           *)
(* decomposed runtime, and the starts and stops of the whole.              *)
(***************************************************************************)
EXTENDS CoreLogic, BleAdvertising, NostrTransport, RelayManager, VirtualClock, CliApp,
        Configuration, TerminalUi, TaskSupervisor, RuntimeLifecycle, TLAPS,
        FiniteSetTheorems, SequenceTheorems

-----------------------------------------------------------------------------
(* CoreLogic *)

\* The states a connection of a running node can be in.
EarlyState ==
       {NoConnection}
  \cup [name : {"Disconnected"}, last_seen : OptionTime]
  \cup [name : {"Discovering"}, discovered_transports : SUBSET TransportType,
        discovery_timeout : OptionTime]

AnEffect == [kind : EffectKind, transport : TransportType]

\* What every handler returns.
ResultOK(r) ==
    /\ r.connections \in [Peer -> EarlyState]
    /\ r.effects \in Seq(AnEffect)
    /\ r.app_events \in Seq(AppEvent) /\ Len(r.app_events) <= 1

BleAt(q) == {i \in DOMAIN q : q[i].transport = "Ble"}

NodeInv ==
    /\ connections \in [Peer -> EarlyState]
    /\ running \in BOOLEAN /\ ended \in BOOLEAN /\ ui_open \in BOOLEAN
    /\ outbox \in Seq(AppEvent) /\ Len(outbox) <= 1
    /\ commands \in Seq(Command) /\ Len(commands) <= CommandCap
    /\ events \in Seq(Event) /\ Len(events) <= EventCap
    /\ app_events \in Seq(AppEvent) /\ Len(app_events) <= AppEventCap
    /\ effects \in [TransportType -> Seq(AnEffect)]
    /\ \A t \in TransportType : Len(effects[t]) <= EffectCap
    /\ lagged \in [TransportType -> BOOLEAN] /\ alive \in [TransportType -> BOOLEAN]
    /\ missed \in [TransportType -> BOOLEAN]
    /\ ble_out \in Seq(Event) /\ nostr_out \in Seq(Event)
    /\ given \in Nat /\ inputs \in Nat /\ ble_due \in Nat
    /\ \A i \in DOMAIN ble_out : ble_out[i].transport = "Ble"
    /\ \A i \in DOMAIN nostr_out : nostr_out[i].transport = "Nostr"
    /\ ~ended => ble_due = Cardinality(BleAt(events)) + Len(ble_out)
    /\ \A t \in TransportType : missed[t] => lagged[t]

LEMMA EarlyStates ==
    ASSUME NEW s \in EarlyState
    PROVE  /\ s \in State \cup {NoConnection}
           /\ s.name \in {"None", "Disconnected", "Discovering"}
           /\ s # NoConnection => s.name \in {"Disconnected", "Discovering"}
    BY DEF EarlyState, State, NoConnection

LEMMA NewIsEarly == new_disconnected \in EarlyState /\ NoConnection \in EarlyState
                    /\ new_disconnected # NoConnection
    BY DEF EarlyState, new_disconnected, Disconnected, OptionTime, NoConnection, Never

\* No handler's event takes a connection past discovery.
LEMMA TransitionEarly ==
    ASSUME NEW s \in EarlyState, s # NoConnection, NEW e,
           \/ e = DiscoverPeer \/ \E t \in TransportType : e = Discovered(t)
           \/ e \in {Plain("Disconnect"), Plain("ActivityDetected"),
                     Plain("ConnectionEstablished"), Plain("ConnectionLost")},
           MayTransition(s, e)
    PROVE  NewState(s, e, 0) \in EarlyState
<1>1. s.name \in {"Disconnected", "Discovering"}
    BY EarlyStates
<1>2. CASE e = DiscoverPeer
    BY <1>2 DEF DiscoverPeer, NewState, Discovering, Deadline, EarlyState, OptionTime, Never
<1>3. ASSUME NEW t \in TransportType, e = Discovered(t) PROVE NewState(s, e, 0) \in EarlyState
    <2>1. e.kind = "PeerDiscovered" /\ e.transport = t
        BY <1>3 DEF Discovered
    <2>2. s.name = "Discovering"
        BY <1>1, <2>1 DEF MayTransition, Handles
    <2>3. s \in [name : {"Discovering"}, discovered_transports : SUBSET TransportType,
                 discovery_timeout : OptionTime]
        BY <2>2 DEF EarlyState, NoConnection
    <2>4. NewState(s, e, 0) = [s EXCEPT !.discovered_transports = @ \cup {t}]
        BY <2>1 DEF NewState
    <2>5. [s EXCEPT !.discovered_transports = @ \cup {t}]
              \in [name : {"Discovering"}, discovered_transports : SUBSET TransportType,
                   discovery_timeout : OptionTime]
        BY <2>3
    <2> QED
        BY <2>4, <2>5 DEF EarlyState
<1>4. CASE e = Plain("Disconnect")
    BY <1>4 DEF Plain, NewState, Disconnected, EarlyState, OptionTime
<1>5. CASE e \in {Plain("ActivityDetected"), Plain("ConnectionEstablished"), Plain("ConnectionLost")}
    BY <1>1, <1>5 DEF Plain, MayTransition, Handles
<1> QED
    BY <1>2, <1>3, <1>4, <1>5

LEMMA ApplyEarly ==
    ASSUME connections \in [Peer -> EarlyState], NEW p \in Peer, NEW e,
           \/ e = DiscoverPeer \/ \E t \in TransportType : e = Discovered(t)
           \/ e \in {Plain("Disconnect"), Plain("ActivityDetected"),
                     Plain("ConnectionEstablished"), Plain("ConnectionLost")},
           NEW putBack \in EarlyState
    PROVE  /\ Apply(p, e, putBack) \in [Peer -> EarlyState]
           /\ ApplyIfKnown(p, e, putBack) \in [Peer -> EarlyState]
<1>1. StateOf(p) \in EarlyState /\ StateOf(p) # NoConnection
    BY NewIsEarly DEF StateOf, Known
<1>2. MayTransition(StateOf(p), e) => NewState(StateOf(p), e, 0) \in EarlyState
    BY <1>1, TransitionEarly
<1> QED
    BY <1>2 DEF Apply, ApplyIfKnown

LEMMA Singleton ==
    ASSUME NEW S, NEW x \in S
    PROVE  <<x>> \in Seq(S) /\ Len(<<x>>) = 1
    OBVIOUS

LEMMA BothEffects ==
    ASSUME NEW k \in EffectKind
    PROVE  ToBoth(k) \in Seq(AnEffect)
<1>1. Effect(k, "Ble") \in AnEffect /\ Effect(k, "Nostr") \in AnEffect
    BY DEF Effect, AnEffect, TransportType
<1> QED
    BY <1>1 DEF ToBoth

LEMMA Notices ==
    /\ \A k \in {"SystemError", "MessageSent", "MessageReceived", "Report", "DiscoveryStateChanged"} :
           Notice(k) \in AppEvent
    /\ \A p \in Peer : \A s \in {"Disconnected", "Discovering", "Connected", "Error"} :
           Status(p, s) \in AppEvent
    BY DEF Notice, Status, AppEvent

\* A result is built of these parts.
LEMMA ResultIs ==
    ASSUME NEW c \in [Peer -> EarlyState], NEW f \in Seq(AnEffect), NEW a,
           a = <<>> \/ \E x \in AppEvent : a = <<x>>
    PROVE  ResultOK(Result(c, f, a))
<1>1. a \in Seq(AppEvent) /\ Len(a) <= 1
    <2>1. CASE a = <<>>
        BY <2>1
    <2>2. ASSUME NEW x \in AppEvent, a = <<x>> PROVE a \in Seq(AppEvent) /\ Len(a) <= 1
        BY <2>2, Singleton
    <2> QED
        BY <2>1, <2>2
<1> QED
    BY <1>1 DEF ResultOK, Result

LEMMA CommandOK ==
    ASSUME connections \in [Peer -> EarlyState], NEW c \in Command
    PROVE  ResultOK(CommandResult(c))
<1>0. <<>> \in Seq(AnEffect)
    OBVIOUS
<1>1. CASE c.kind = "SendMessage"
    <2>1. c.peer_id \in Peer
        BY <1>1 DEF Command
    <2>2. ~can_send_messages(connections[c.peer_id])
        BY <2>1, EarlyStates DEF can_send_messages
    <2>3. CommandResult(c) = Result(connections, <<>>, <<Notice("SystemError")>>)
        BY <1>1, <2>2 DEF CommandResult, handle_send_message, Unchanged
    <2> QED
        BY <1>0, <2>3, Notices, ResultIs
<1>2. CASE c.kind = "ConnectToPeer"
    <2>1. c.peer_id \in Peer
        BY <1>2 DEF Command
    <2>2. Apply(c.peer_id, DiscoverPeer, NoConnection) \in [Peer -> EarlyState]
        BY <2>1, NewIsEarly, ApplyEarly
    <2>3. PICK a : /\ a = <<>> \/ a = <<Notice("SystemError")>>
                   /\ CommandResult(c) = Result(Apply(c.peer_id, DiscoverPeer, NoConnection), <<>>, a)
        BY <1>2 DEF CommandResult, handle_connect_to_peer
    <2>4. a = <<>> \/ \E x \in AppEvent : a = <<x>>
        BY <2>3, Notices
    <2> QED
        BY <1>0, <2>2, <2>3, <2>4, ResultIs
<1>3. CASE c.kind \in {"StartDiscovery", "StopDiscovery"}
    <2>1. PICK k \in EffectKind : CommandResult(c) = Result(connections, ToBoth(k), <<Notice("DiscoveryStateChanged")>>)
        BY <1>3 DEF CommandResult, handle_start_discovery, handle_stop_discovery, Unchanged, EffectKind
    <2> QED
        BY <2>1, BothEffects, Notices, ResultIs
<1>4. CASE c.kind = "DisconnectFromPeer"
    <2>1. c.peer_id \in Peer
        BY <1>4 DEF Command
    <2>2. ApplyIfKnown(c.peer_id, Plain("Disconnect"), NoConnection) \in [Peer -> EarlyState]
        BY <2>1, NewIsEarly, ApplyEarly
    <2>3. CommandResult(c) = Result(ApplyIfKnown(c.peer_id, Plain("Disconnect"), NoConnection), <<>>,
                                    <<Status(c.peer_id, "Disconnected")>>)
        BY <1>4 DEF CommandResult, handle_disconnect_from_peer
    <2>4. Status(c.peer_id, "Disconnected") \in AppEvent
        BY <2>1, Notices
    <2> QED
        BY <1>0, <2>2, <2>3, <2>4, ResultIs
<1>5. CASE c.kind \in {"PauseTransport", "ResumeTransport"}
    <2>1. Effect(c.kind, c.transport) \in AnEffect
        BY <1>5 DEF Command, Effect, AnEffect, EffectKind
    <2>2. CommandResult(c) = Result(connections, <<Effect(c.kind, c.transport)>>, <<>>)
        BY <1>5 DEF CommandResult, Unchanged
    <2>3. <<Effect(c.kind, c.transport)>> \in Seq(AnEffect)
        BY <2>1, Singleton
    <2> QED
        BY <2>2, <2>3, ResultIs
<1>6. CASE c.kind = "Query"
    <2>1. CommandResult(c) = Result(connections, <<>>, <<Notice("Report")>>)
        BY <1>6 DEF CommandResult, Unchanged
    <2> QED
        BY <1>0, <2>1, Notices, ResultIs
<1>7. CASE c.kind = "Shutdown"
    <2>1. CommandResult(c) = Result(connections, ToBoth("StopListening"), <<>>)
        BY <1>7 DEF CommandResult, handle_shutdown, Unchanged
    <2>2. ToBoth("StopListening") \in Seq(AnEffect)
        BY BothEffects DEF EffectKind
    <2> QED
        BY <2>1, <2>2, ResultIs
<1> QED
    BY <1>1, <1>2, <1>3, <1>4, <1>5, <1>6, <1>7 DEF Command

LEMMA EventOK ==
    ASSUME connections \in [Peer -> EarlyState], NEW e \in Event, NEW r \in EventResults(e)
    PROVE  ResultOK(r)
<1>0. <<>> \in Seq(AnEffect)
    OBVIOUS
<1>1. CASE r = Unchanged(<<>>, <<>>)
    BY <1>0, <1>1, ResultIs DEF Unchanged
<1>2. CASE e.kind \in PeerEventKind /\ r # Unchanged(<<>>, <<>>)
    <2>1. e.peer_id \in Peer /\ e.transport \in TransportType
        BY <1>2 DEF Event, PeerEventKind
    <2>2. PICK p : p = e.peer_id
        OBVIOUS
    <2>3. PICK c, a : c \in [Peer -> EarlyState] /\ r = Result(c, <<>>, a)
              /\ (a = <<>> \/ \E x \in AppEvent : a = <<x>>)
        <3>1. CASE e.kind = "PeerDiscovered"
            <4>1. r = Result(Apply(p, Discovered(e.transport), new_disconnected), <<>>,
                             <<Status(p, "Discovering")>>)
                BY <1>2, <2>2, <3>1 DEF EventResults, handle_peer_discovered, Limited
            <4>2. Apply(p, Discovered(e.transport), new_disconnected) \in [Peer -> EarlyState]
                BY <2>1, <2>2, NewIsEarly, ApplyEarly
            <4> QED
                BY <2>1, <2>2, <4>1, <4>2, Notices
        <3>2. CASE e.kind \in {"MessageReceived", "BitchatPacketReceived"}
            <4>1. PICK kept \in BOOLEAN : r = handle_message_received(p, kept)
                BY <1>2, <2>2, <3>2 DEF EventResults, Limited
            <4>2. PICK a : /\ a = <<>> \/ a = <<Notice("MessageReceived")>>
                           /\ r = Result(ApplyIfKnown(p, Plain("ActivityDetected"), new_disconnected), <<>>, a)
                BY <4>1 DEF handle_message_received
            <4>3. ApplyIfKnown(p, Plain("ActivityDetected"), new_disconnected) \in [Peer -> EarlyState]
                BY <2>1, <2>2, NewIsEarly, ApplyEarly
            <4> QED
                BY <4>2, <4>3, Notices
        <3>3. CASE e.kind = "ConnectionEstablished"
            <4>1. r = Result(ApplyIfKnown(p, Plain("ConnectionEstablished"), new_disconnected), <<>>,
                             <<Status(p, "Connected")>>)
                BY <1>2, <2>2, <3>3 DEF EventResults, handle_connection_established, Limited
            <4>2. ApplyIfKnown(p, Plain("ConnectionEstablished"), new_disconnected) \in [Peer -> EarlyState]
                BY <2>1, <2>2, NewIsEarly, ApplyEarly
            <4> QED
                BY <2>1, <2>2, <4>1, <4>2, Notices
        <3>4. CASE e.kind = "ConnectionLost"
            <4>1. r = Result(ApplyIfKnown(p, Plain("ConnectionLost"), new_disconnected), <<>>,
                             <<Status(p, "Error")>>)
                BY <1>2, <2>2, <3>4 DEF EventResults, handle_connection_lost, Limited
            <4>2. ApplyIfKnown(p, Plain("ConnectionLost"), new_disconnected) \in [Peer -> EarlyState]
                BY <2>1, <2>2, NewIsEarly, ApplyEarly
            <4> QED
                BY <2>1, <2>2, <4>1, <4>2, Notices
        <3> QED
            BY <1>2, <3>1, <3>2, <3>3, <3>4 DEF PeerEventKind
    <2> QED
        BY <1>0, <2>3, ResultIs
<1>3. CASE e.kind \notin PeerEventKind
    <2>1. r = Unchanged(<<>>, <<Notice("SystemError")>>) \/ r = Unchanged(<<>>, <<>>)
        BY <1>3 DEF EventResults, Event, PeerEventKind, Limited
    <2> QED
        BY <1>0, <2>1, Notices, ResultIs DEF Unchanged
<1> QED
    BY <1>1, <1>2, <1>3

\* Counting the BLE events of a queue.
LEMMA BleFinite ==
    ASSUME NEW q \in Seq(Event)
    PROVE  IsFiniteSet(BleAt(q)) /\ Cardinality(BleAt(q)) \in Nat
<1>1. IsFiniteSet(1 .. Len(q)) /\ BleAt(q) \subseteq 1 .. Len(q)
    BY FS_Interval DEF BleAt
<1> QED
    BY <1>1, FS_Subset, FS_CardinalityType

LEMMA BleAppend ==
    ASSUME NEW q \in Seq(Event), NEW e \in Event
    PROVE  Cardinality(BleAt(Append(q, e))) =
               Cardinality(BleAt(q)) + (IF e.transport = "Ble" THEN 1 ELSE 0)
<1> DEFINE n == Len(q) + 1
<1>1. n \notin BleAt(q)
    BY DEF BleAt
<1>2. CASE e.transport = "Ble"
    <2>1. BleAt(Append(q, e)) = BleAt(q) \cup {n}
        BY <1>2 DEF BleAt
    <2> QED
        BY <1>1, <1>2, <2>1, BleFinite, FS_AddElement
<1>3. CASE e.transport # "Ble"
    <2>1. BleAt(Append(q, e)) = BleAt(q)
        BY <1>3 DEF BleAt
    <2> QED
        BY <1>3, <2>1, BleFinite
<1> QED
    BY <1>2, <1>3

LEMMA BleTail ==
    ASSUME NEW q \in Seq(Event), q # <<>>
    PROVE  Cardinality(BleAt(Tail(q))) =
               Cardinality(BleAt(q)) - (IF Head(q).transport = "Ble" THEN 1 ELSE 0)
<1> DEFINE B == BleAt(q) \ {1}
           f == [i \in BleAt(Tail(q)) |-> i + 1]
<1>1. Tail(q) \in Seq(Event) /\ Len(Tail(q)) = Len(q) - 1
      /\ \A i \in 1 .. Len(Tail(q)) : Tail(q)[i] = q[i + 1]
    OBVIOUS
<1>2. f \in Bijection(BleAt(Tail(q)), B)
    <2>1. f \in [BleAt(Tail(q)) -> B]
        BY <1>1 DEF BleAt
    <2>2. \A i, j \in BleAt(Tail(q)) : f[i] = f[j] => i = j
        BY DEF BleAt
    <2>3. ASSUME NEW k \in B PROVE \E i \in BleAt(Tail(q)) : f[i] = k
        <3>1. k - 1 \in BleAt(Tail(q))
            BY <1>1 DEF BleAt
        <3>2. f[k - 1] = k
            BY <3>1 DEF BleAt
        <3> QED
            BY <3>1, <3>2
    <2> QED
        BY <2>1, <2>2, <2>3 DEF Bijection, Injection, Surjection, IsInjective
<1>3. IsFiniteSet(BleAt(q)) /\ IsFiniteSet(BleAt(Tail(q)))
    BY <1>1, BleFinite
<1>4. Cardinality(BleAt(Tail(q))) = Cardinality(B)
    BY <1>2, <1>3, FS_Bijection DEF ExistsBijection
<1>5. Cardinality(B) = Cardinality(BleAt(q)) - (IF 1 \in BleAt(q) THEN 1 ELSE 0)
    <2>1. Cardinality(B) = IF 1 \in BleAt(q) THEN Cardinality(BleAt(q)) - 1 ELSE Cardinality(BleAt(q))
        BY <1>3, FS_RemoveElement
    <2>2. Cardinality(BleAt(q)) \in Nat
        BY BleFinite
    <2> QED
        BY <2>1, <2>2
<1>6. 1 \in BleAt(q) <=> Head(q).transport = "Ble"
    BY DEF BleAt
<1> QED
    BY <1>4, <1>5, <1>6

LEMMA NodeInitInv == Init => NodeInv
<1> SUFFICES ASSUME Init PROVE NodeInv
    OBVIOUS
<1>1. BleAt(<<>>) = {} /\ Cardinality({}) = 0
    BY FS_EmptySet DEF BleAt
<1>3. connections \in [Peer -> EarlyState]
    BY NewIsEarly DEF Init
<1>4. ble_due = Cardinality(BleAt(events)) + Len(ble_out)
    <2>1. Cardinality(BleAt(events)) = 0
        BY <1>1, Zenon DEF Init
    <2> QED
        BY <2>1 DEF Init
<1>5. /\ lagged \in [TransportType -> BOOLEAN] /\ alive \in [TransportType -> BOOLEAN]
      /\ missed \in [TransportType -> BOOLEAN]
      /\ \A t \in TransportType : missed[t] => lagged[t]
    BY DEF Init
<1>6. DOMAIN ble_out = {} /\ DOMAIN nostr_out = {}
    BY DEF Init
<1>7. /\ effects \in [TransportType -> Seq(AnEffect)]
      /\ \A t \in TransportType : Len(effects[t]) <= EffectCap
    BY CoreAssumption DEF Init
<1>8. CommandCap \in Nat /\ EventCap \in Nat /\ AppEventCap \in Nat
    BY CoreAssumption
<1>9. /\ outbox \in Seq(AppEvent) /\ Len(outbox) <= 1
      /\ commands \in Seq(Command) /\ Len(commands) <= CommandCap
      /\ events \in Seq(Event) /\ Len(events) <= EventCap
      /\ app_events \in Seq(AppEvent) /\ Len(app_events) <= AppEventCap
      /\ ble_out \in Seq(Event) /\ nostr_out \in Seq(Event)
    BY <1>8 DEF Init
<1>10. /\ running \in BOOLEAN /\ ended \in BOOLEAN /\ ui_open \in BOOLEAN
       /\ given \in Nat /\ inputs \in Nat /\ ble_due \in Nat
    BY DEF Init
<1> QED
    BY <1>3, <1>4, <1>5, <1>6, <1>7, <1>9, <1>10 DEF NodeInv

\* Kept keeps the newest entries, at most as many as the ring has room for.
LEMMA KeptIs ==
    ASSUME NEW q \in Seq(AnEffect)
    PROVE  /\ Kept(q) \in Seq(AnEffect)
           /\ Len(Kept(q)) = IF Len(q) > EffectCap THEN EffectCap ELSE Len(q)
<1>1. EffectCap \in Nat \ {0}
    BY CoreAssumption
<1>2. CASE Len(q) > EffectCap
    <2>1. Kept(q) = SubSeq(q, Len(q) - EffectCap + 1, Len(q))
        BY <1>2 DEF Kept
    <2>2. Len(q) - EffectCap + 1 \in 1 .. Len(q) + 1
        BY <1>1, <1>2
    <2> QED
        BY <1>1, <1>2, <2>1, <2>2
<1>3. CASE ~(Len(q) > EffectCap)
    BY <1>3 DEF Kept
<1> QED
    BY <1>2, <1>3

\* What broadcasting a handler's result does to the node's state.
BroadcastDone ==
    /\ connections' \in [Peer -> EarlyState]
    /\ outbox' \in Seq(AppEvent) /\ Len(outbox') <= 1
    /\ effects' \in [TransportType -> Seq(AnEffect)]
    /\ \A t \in TransportType : Len(effects'[t]) <= EffectCap
    /\ \A t \in TransportType : alive[t] => Len(effects'[t]) >= Len(effects[t])
    /\ lagged' \in [TransportType -> BOOLEAN] /\ missed' \in [TransportType -> BOOLEAN]
    /\ \A t \in TransportType : missed'[t] => lagged'[t]

LEMMA ConcludeOK ==
    ASSUME NodeInv, NEW r, ResultOK(r), Conclude(r)
    PROVE  BroadcastDone
<1>0. EffectCap \in Nat \ {0}
    BY CoreAssumption
<1>1. connections' \in [Peer -> EarlyState]
    BY DEF Conclude, ResultOK
<1>2. CASE r.effects # <<>> /\ Listening = {}
    <2>1. outbox' = <<>> /\ UNCHANGED <<effects, lagged, missed>>
        BY <1>2 DEF Conclude, Publish
    <2>2. /\ effects \in [TransportType -> Seq(AnEffect)]
          /\ \A t \in TransportType : Len(effects[t]) <= EffectCap
          /\ lagged \in [TransportType -> BOOLEAN] /\ missed \in [TransportType -> BOOLEAN]
          /\ \A t \in TransportType : missed[t] => lagged[t]
        BY DEF NodeInv, AnEffect
    <2>3. \A t \in TransportType : Len(effects[t]) \in Nat
        BY <2>2
    <2> QED
        BY <1>0, <1>1, <2>1, <2>2, <2>3 DEF BroadcastDone
<1>3. CASE ~(r.effects # <<>> /\ Listening = {})
    <2> DEFINE all(t) == effects[t] \o r.effects
    <2>1. /\ effects' = [t \in TransportType |-> IF alive[t] THEN Kept(all(t)) ELSE <<>>]
          /\ lagged' = [t \in TransportType |-> lagged[t] \/ (alive[t] /\ Len(all(t)) > EffectCap)]
          /\ missed' = [t \in TransportType |-> missed[t] \/ lagged'[t]]
          /\ outbox' = r.app_events
        BY <1>3, Zenon DEF Conclude, Publish
    <2>2. outbox' \in Seq(AppEvent) /\ Len(outbox') <= 1
        BY <2>1 DEF ResultOK
    <2>3. ASSUME NEW t \in TransportType
          PROVE  /\ all(t) \in Seq(AnEffect) /\ Len(all(t)) >= Len(effects[t])
                 /\ Len(effects[t]) <= EffectCap /\ Len(effects[t]) \in Nat
                 /\ Len(all(t)) \in Nat
        <3>1. effects[t] \in Seq(AnEffect) /\ Len(effects[t]) <= EffectCap
            BY DEF NodeInv, AnEffect
        <3>2. r.effects \in Seq(AnEffect)
            BY DEF ResultOK
        <3>3. PICK a, b : a = effects[t] /\ b = r.effects
            OBVIOUS
        <3>4. a \in Seq(AnEffect) /\ b \in Seq(AnEffect) /\ all(t) = a \o b
            BY <3>1, <3>2, <3>3
        <3>5. a \o b \in Seq(AnEffect) /\ Len(a \o b) = Len(a) + Len(b)
            BY <3>4
        <3>6. Len(a) \in Nat /\ Len(b) \in Nat
            BY <3>4
        <3>7. all(t) \in Seq(AnEffect) /\ Len(all(t)) = Len(a) + Len(b) /\ Len(effects[t]) = Len(a)
            BY <3>3, <3>4, <3>5, Zenon
        <3> HIDE DEF all
        <3> QED
            BY <3>1, <3>6, <3>7
    <2> HIDE DEF all
    <2>4. ASSUME NEW t \in TransportType
          PROVE  /\ effects'[t] \in Seq(AnEffect) /\ Len(effects'[t]) <= EffectCap
                 /\ alive[t] => Len(effects'[t]) >= Len(effects[t])
        <3>1. PICK k : k = Kept(all(t))
            OBVIOUS
        <3>2. k \in Seq(AnEffect) /\ Len(k) = IF Len(all(t)) > EffectCap THEN EffectCap ELSE Len(all(t))
            BY <2>3, <3>1, KeptIs
        <3>3. effects'[t] = IF alive[t] THEN k ELSE <<>>
            BY <2>1, <3>1
        <3> QED
            BY <1>0, <2>3, <3>2, <3>3
    <2>5. effects' \in [TransportType -> Seq(AnEffect)]
        BY <2>1, <2>4
    <2>6. lagged \in [TransportType -> BOOLEAN] /\ missed \in [TransportType -> BOOLEAN]
          /\ alive \in [TransportType -> BOOLEAN]
          /\ \A t \in TransportType : missed[t] => lagged[t]
        BY DEF NodeInv
    <2>7. lagged' \in [TransportType -> BOOLEAN] /\ \A t \in TransportType : lagged[t] => lagged'[t]
        BY <2>1, <2>6, Zenon
    <2>8. missed' \in [TransportType -> BOOLEAN] /\ \A t \in TransportType : missed'[t] => lagged'[t]
        BY <2>1, <2>6, <2>7, Zenon
    <2> QED
        BY <1>1, <2>2, <2>4, <2>5, <2>7, <2>8 DEF BroadcastDone
<1> QED
    BY <1>2, <1>3

\* A transport loop that missed an effect takes none afterwards.
NothingSkipped ==
    \A t \in TransportType :
        (effects'[t] # effects[t] /\ Len(effects'[t]) < Len(effects[t]) /\ alive'[t]) => ~missed[t]

\* A handler's result is broadcast, and one message is taken from a channel.
LEMMA CoreStep ==
    ASSUME NodeInv, CoreCommand \/ CoreEvent
    PROVE  NodeInv' /\ NothingSkipped
<1>1. /\ connections \in [Peer -> EarlyState] /\ commands \in Seq(Command) /\ events \in Seq(Event)
      /\ Len(commands) <= CommandCap /\ Len(events) <= EventCap
    BY DEF NodeInv
<1>2. BroadcastDone
    <2>1. CASE CoreCommand
        <3>1. Head(commands) \in Command
            BY <1>1, <2>1 DEF CoreCommand
        <3>2. ResultOK(CommandResult(Head(commands)))
            BY <1>1, <3>1, CommandOK
        <3> QED
            BY <2>1, <3>2, ConcludeOK DEF CoreCommand
    <2>2. CASE CoreEvent
        <3>1. Head(events) \in Event
            BY <1>1, <2>2 DEF CoreEvent
        <3>2. PICK r \in EventResults(Head(events)) : Conclude(r)
            BY <2>2 DEF CoreEvent
        <3>3. ResultOK(r)
            BY <1>1, <3>1, <3>2, EventOK
        <3> QED
            BY <3>2, <3>3, ConcludeOK
    <2> QED
        BY <2>1, <2>2
<1>3. UNCHANGED <<ended, app_events, transports, ui>>
    BY DEF CoreCommand, CoreEvent
<1>4. commands' \in Seq(Command) /\ Len(commands') <= CommandCap
    <2>1. commands' = commands \/ (commands # <<>> /\ commands' = Tail(commands))
        BY DEF CoreCommand, CoreEvent
    <2>2. CommandCap \in Nat
        BY CoreAssumption
    <2> QED
        BY <1>1, <2>1, <2>2
<1>5. events' \in Seq(Event) /\ Len(events') <= EventCap
    <2>1. events' = events \/ (events # <<>> /\ events' = Tail(events))
        BY DEF CoreCommand, CoreEvent
    <2>2. EventCap \in Nat
        BY CoreAssumption
    <2> QED
        BY <1>1, <2>1, <2>2
<1>6. running' \in BOOLEAN
    BY DEF CoreCommand, CoreEvent, NodeInv
<1>7. ~ended
    BY DEF CoreCommand, CoreEvent, Ready
<1>8. ble_due' \in Nat /\ ble_due' = Cardinality(BleAt(events')) + Len(ble_out)
    <2>1. ble_due \in Nat /\ ble_due = Cardinality(BleAt(events)) + Len(ble_out) /\ Len(ble_out) \in Nat
        BY <1>7 DEF NodeInv
    <2>2. CASE CoreCommand
        BY <2>1, <2>2 DEF CoreCommand
    <2>3. CASE CoreEvent
        <3>1. /\ events # <<>> /\ events' = Tail(events)
              /\ ble_due' = ble_due - (IF Head(events).transport = "Ble" THEN 1 ELSE 0)
            BY <2>3 DEF CoreEvent
        <3>2. Cardinality(BleAt(events')) =
                  Cardinality(BleAt(events)) - (IF Head(events).transport = "Ble" THEN 1 ELSE 0)
            BY <1>1, <3>1, BleTail
        <3>3. Cardinality(BleAt(events)) \in Nat /\ Cardinality(BleAt(events')) \in Nat
            BY <1>1, <1>5, BleFinite
        <3> QED
            BY <2>1, <3>1, <3>2, <3>3
    <2> QED
        BY <2>2, <2>3
<1>9. /\ UNCHANGED <<ended, app_events, alive, ble_out, nostr_out, inputs, ui_open, given>>
    BY <1>3 DEF transports, ui
<1>10. NodeInv'
    BY <1>2, <1>4, <1>5, <1>6, <1>8, <1>9 DEF NodeInv, BroadcastDone
<1>11. NothingSkipped
    <2>1. \A t \in TransportType : Len(effects[t]) \in Nat /\ Len(effects'[t]) \in Nat
        BY <1>2 DEF BroadcastDone, NodeInv
    <2>2. \A t \in TransportType : alive'[t] => Len(effects'[t]) >= Len(effects[t])
        BY <1>2, <1>3 DEF BroadcastDone, transports
    <2> QED
        BY <2>1, <2>2 DEF NothingSkipped
<1> QED
    BY <1>10, <1>11

\* The other steps leave connections, lagged and missed alone.
LEMMA OtherStep ==
    ASSUME NodeInv, Next, ~CoreCommand, ~CoreEvent
    PROVE  NodeInv' /\ NothingSkipped
<1>0. CommandCap \in Nat /\ EventCap \in Nat /\ EffectCap \in Nat /\ AppEventCap \in Nat
    BY CoreAssumption
<1>1. \A t \in TransportType : Len(effects[t]) \in Nat
    BY DEF NodeInv
<1>2. CASE CoreEmit
    <2>1. /\ UNCHANGED <<connections, running, ended, commands, events, effects, lagged, ble_due, missed>>
          /\ UNCHANGED <<alive, ble_out, nostr_out, inputs, ui_open, given>>
        BY <1>2 DEF CoreEmit, transports, ui
    <2>2. outbox' \in Seq(AppEvent) /\ Len(outbox') <= 1
        BY <1>2 DEF CoreEmit, NodeInv
    <2>3. app_events' \in Seq(AppEvent) /\ Len(app_events') <= AppEventCap
        <3>1. Head(outbox) \in AppEvent
            BY <1>2 DEF CoreEmit, NodeInv
        <3>2. app_events' = app_events
              \/ (Len(app_events) < AppEventCap /\ app_events' = Append(app_events, Head(outbox)))
            BY <1>2 DEF CoreEmit
        <3>3. app_events \in Seq(AppEvent) /\ Len(app_events) <= AppEventCap /\ AppEventCap \in Nat
            BY <1>0 DEF NodeInv
        <3> QED
            BY <3>1, <3>2, <3>3
    <2> QED
        BY <1>1, <2>1, <2>2, <2>3 DEF NodeInv, NothingSkipped
<1>3. CASE CoreEnd
    <2>1. /\ ended' = TRUE /\ running' = FALSE /\ commands' = <<>> /\ events' = <<>>
          /\ UNCHANGED <<connections, outbox, app_events, effects, lagged, ble_due, missed>>
          /\ UNCHANGED <<alive, ble_out, nostr_out, inputs, ui_open, given>>
        BY <1>3 DEF CoreEnd, transports, ui
    <2>2. commands' \in Seq(Command) /\ Len(commands') <= CommandCap
          /\ events' \in Seq(Event) /\ Len(events') <= EventCap
        BY <1>0, <2>1
    <2> QED
        BY <1>1, <2>1, <2>2 DEF NodeInv, NothingSkipped
<1>4. ASSUME NEW in \in BleInput, BleReceive(in) PROVE NodeInv' /\ NothingSkipped
    <2>1. in \in Seq(Event) /\ \A i \in DOMAIN in : in[i].transport = "Ble"
        BY CoreAssumption
    <2>2. /\ ble_out = <<>> /\ ble_out' = in /\ inputs' = inputs + 1 /\ ble_due' = ble_due + Len(in)
          /\ UNCHANGED <<connections, running, ended, outbox, ui_open, given, alive, nostr_out,
                         commands, events, app_events, effects, lagged, missed>>
        BY <1>4 DEF BleReceive, core, ui
    <2>3. Cardinality(BleAt(events)) \in Nat
        BY BleFinite DEF NodeInv
    <2>4. ~ended => ble_due' = Cardinality(BleAt(events)) + Len(ble_out')
        <3>1. ~ended => ble_due = Cardinality(BleAt(events)) + Len(ble_out)
            BY DEF NodeInv
        <3>2. Len(ble_out) = 0
            BY <2>2
        <3> QED
            BY <2>1, <2>2, <2>3, <3>1, <3>2
    <2>5. ble_due' \in Nat /\ inputs' \in Nat
        BY <2>1, <2>2 DEF NodeInv
    <2> QED
        BY <1>1, <2>1, <2>2, <2>4, <2>5 DEF NodeInv, NothingSkipped
<1>5. CASE BleSend
    <2>1. /\ ble_out # <<>> /\ ble_out' = Tail(ble_out)
          /\ UNCHANGED <<connections, running, ended, outbox, ui_open, given, alive, nostr_out, inputs,
                         commands, app_events, effects, lagged, ble_due, missed>>
          /\ \/ Len(events) < EventCap /\ events' = Append(events, Head(ble_out))
             \/ ended /\ events' = events
        BY <1>5 DEF BleSend, core, ui
    <2>2. /\ ble_out \in Seq(Event) /\ events \in Seq(Event) /\ Len(events) <= EventCap
          /\ \A i \in DOMAIN ble_out : ble_out[i].transport = "Ble"
        BY DEF NodeInv
    <2>3. /\ Head(ble_out) \in Event /\ Head(ble_out).transport = "Ble" /\ ble_out' \in Seq(Event)
          /\ Len(ble_out') = Len(ble_out) - 1
          /\ \A i \in DOMAIN ble_out' : ble_out'[i].transport = "Ble"
        BY <2>1, <2>2
    <2>4. events' \in Seq(Event) /\ Len(events') <= EventCap
        <3>1. PICK e \in Event : e = Head(ble_out)
            BY <2>3
        <3>2. Append(events, e) \in Seq(Event) /\ Len(Append(events, e)) = Len(events) + 1
            BY <2>2
        <3>3. CASE events' = events
            BY <2>2, <3>3
        <3>4. CASE Len(events) < EventCap /\ events' = Append(events, e)
            <4>1. Len(events) \in Nat
                BY <2>2
            <4> QED
                BY <1>0, <3>2, <3>4, <4>1
        <3> QED
            BY <2>1, <3>1, <3>3, <3>4
    <2>5. ~ended => ble_due = Cardinality(BleAt(events')) + Len(ble_out')
        <3>1. ASSUME ~ended PROVE ble_due = Cardinality(BleAt(events')) + Len(ble_out')
            <4>1. ble_due = Cardinality(BleAt(events)) + Len(ble_out) /\ Len(ble_out) \in Nat
                BY <3>1, <2>2 DEF NodeInv
            <4>2. Cardinality(BleAt(events')) = Cardinality(BleAt(events)) + 1
                BY <3>1, <2>1, <2>2, <2>3, BleAppend
            <4>3. Cardinality(BleAt(events)) \in Nat
                BY <2>2, BleFinite
            <4> QED
                BY <4>1, <4>2, <4>3, <2>3
        <3> QED
            BY <3>1
    <2> QED
        BY <1>1, <2>1, <2>3, <2>4, <2>5 DEF NodeInv, NothingSkipped
<1>6. ASSUME NEW in \in NostrInput, NostrReceive(in) PROVE NodeInv' /\ NothingSkipped
    <2>1. in \in Seq(Event) /\ \A i \in DOMAIN in : in[i].transport = "Nostr"
        BY CoreAssumption
    <2>2. /\ nostr_out' = in /\ inputs' = inputs + 1
          /\ UNCHANGED <<connections, running, ended, outbox, ui_open, given, alive, ble_out,
                         commands, events, app_events, effects, lagged, ble_due, missed>>
        BY <1>6 DEF NostrReceive, core, ui
    <2> QED
        BY <1>1, <2>1, <2>2 DEF NodeInv, NothingSkipped
<1>7. CASE NostrForward
    <2>1. /\ nostr_out # <<>> /\ nostr_out' = Tail(nostr_out)
          /\ UNCHANGED <<connections, running, ended, outbox, ui_open, given, alive, ble_out, inputs,
                         commands, app_events, effects, lagged, ble_due, missed>>
          /\ \/ Len(events) < EventCap /\ events' = Append(events, Head(nostr_out))
             \/ events' = events
        BY <1>7 DEF NostrForward, core, ui
    <2>2. /\ nostr_out \in Seq(Event) /\ events \in Seq(Event) /\ Len(events) <= EventCap
          /\ \A i \in DOMAIN nostr_out : nostr_out[i].transport = "Nostr"
        BY DEF NodeInv
    <2>3. /\ Head(nostr_out) \in Event /\ Head(nostr_out).transport = "Nostr" /\ nostr_out' \in Seq(Event)
          /\ \A i \in DOMAIN nostr_out' : nostr_out'[i].transport = "Nostr"
        BY <2>1, <2>2
    <2>4. events' \in Seq(Event) /\ Len(events') <= EventCap
        <3>1. PICK e \in Event : e = Head(nostr_out)
            BY <2>3
        <3>2. Append(events, e) \in Seq(Event) /\ Len(Append(events, e)) = Len(events) + 1
            BY <2>2
        <3>3. CASE events' = events
            BY <2>2, <3>3
        <3>4. CASE Len(events) < EventCap /\ events' = Append(events, e)
            <4>1. Len(events) \in Nat
                BY <2>2
            <4> QED
                BY <1>0, <3>2, <3>4, <4>1
        <3> QED
            BY <2>1, <3>1, <3>3, <3>4
    <2>5. Cardinality(BleAt(events')) = Cardinality(BleAt(events))
        <3>1. CASE events' = events
            BY <3>1
        <3>2. CASE events' = Append(events, Head(nostr_out))
            <4>1. Cardinality(BleAt(events)) \in Nat
                BY <2>2, BleFinite
            <4> QED
                BY <2>2, <2>3, <3>2, <4>1, BleAppend
        <3> QED
            BY <2>1, <3>1, <3>2
    <2> QED
        BY <1>1, <2>1, <2>3, <2>4, <2>5 DEF NodeInv, NothingSkipped
<1>8. ASSUME NEW t \in TransportType, TakeEffect(t) PROVE NodeInv' /\ NothingSkipped
    <2>1. /\ effects[t] # <<>> /\ ~lagged[t] /\ effects' = [effects EXCEPT ![t] = Tail(@)]
          /\ UNCHANGED <<connections, running, ended, outbox, ui_open, given, alive, ble_out, nostr_out,
                         inputs, commands, events, app_events, lagged, ble_due, missed>>
        BY <1>8 DEF TakeEffect, core, ui, transports
    <2>2. effects \in [TransportType -> Seq(AnEffect)] /\ Len(effects[t]) <= EffectCap
        BY DEF NodeInv
    <2>3. PICK q \in Seq(AnEffect) : q = effects[t]
        BY <2>2
    <2>4. Tail(q) \in Seq(AnEffect) /\ Len(Tail(q)) <= EffectCap
        BY <1>0, <2>1, <2>2, <2>3
    <2>5. effects' \in [TransportType -> Seq(AnEffect)]
        BY <2>1, <2>2, <2>3, <2>4
    <2>6. \A u \in TransportType : Len(effects'[u]) <= EffectCap
        BY <2>1, <2>2, <2>3, <2>4 DEF NodeInv
    <2>7. NothingSkipped
        BY <1>1, <2>1, <2>2 DEF NothingSkipped, NodeInv
    <2> QED
        BY <2>1, <2>5, <2>6, <2>7 DEF NodeInv
<1>9. ASSUME NEW t \in TransportType, TransportEnd(t) PROVE NodeInv' /\ NothingSkipped
    <2>1. /\ alive' = [alive EXCEPT ![t] = FALSE] /\ effects' = [effects EXCEPT ![t] = <<>>]
          /\ UNCHANGED <<connections, running, ended, outbox, ui_open, given, ble_out, nostr_out,
                         inputs, commands, events, app_events, lagged, ble_due, missed>>
        BY <1>9 DEF TransportEnd, core, ui
    <2>2. /\ effects \in [TransportType -> Seq(AnEffect)] /\ alive \in [TransportType -> BOOLEAN]
          /\ \A u \in TransportType : Len(effects[u]) <= EffectCap
        BY DEF NodeInv
    <2>3. effects' \in [TransportType -> Seq(AnEffect)] /\ alive' \in [TransportType -> BOOLEAN]
        BY <2>1, <2>2
    <2>4. \A u \in TransportType : Len(effects'[u]) <= EffectCap
        BY <1>0, <2>1, <2>2
    <2>5. NothingSkipped
        BY <1>1, <2>1, <2>2 DEF NothingSkipped
    <2> QED
        BY <2>1, <2>3, <2>4, <2>5 DEF NodeInv
<1>10. ASSUME NEW c \in UICommand, UISend(c) PROVE NodeInv' /\ NothingSkipped
    <2>1. /\ Len(commands) < CommandCap /\ commands' = Append(commands, c) /\ given' = given + 1
          /\ UNCHANGED <<connections, running, ended, outbox, alive, ble_out, nostr_out, inputs, ui_open,
                         events, app_events, effects, lagged, ble_due, missed>>
        BY <1>10 DEF UISend, core, transports
    <2>2. c \in Command
        BY CoreAssumption
    <2>3. commands' \in Seq(Command) /\ Len(commands') <= CommandCap
        BY <1>0, <2>1, <2>2 DEF NodeInv
    <2> QED
        BY <1>1, <2>1, <2>3 DEF NodeInv, NothingSkipped
<1>11. CASE UIReceive \/ UIClose
    <2>1. /\ UNCHANGED <<connections, running, ended, outbox, alive, ble_out, nostr_out, inputs, given,
                         commands, events, effects, lagged, ble_due, missed>>
          /\ app_events' = <<>> \/ (app_events # <<>> /\ app_events' = Tail(app_events))
          /\ ui_open' \in BOOLEAN
        BY <1>11 DEF UIReceive, UIClose, core, transports, ui, NodeInv
    <2>2. app_events' \in Seq(AppEvent) /\ Len(app_events') <= AppEventCap
        <3>1. app_events \in Seq(AppEvent) /\ Len(app_events) <= AppEventCap
            BY DEF NodeInv
        <3>2. CASE app_events' = <<>>
            BY <1>0, <3>2
        <3>3. CASE app_events # <<>> /\ app_events' = Tail(app_events)
            BY <1>0, <3>1, <3>3
        <3> QED
            BY <2>1, <3>2, <3>3
    <2> QED
        BY <1>1, <2>1, <2>2 DEF NodeInv, NothingSkipped
<1>12. CASE Stopped
    BY <1>1, <1>12 DEF Stopped, vars, NodeInv, NothingSkipped
<1> QED
    BY <1>2, <1>3, <1>4, <1>5, <1>6, <1>7, <1>8, <1>9, <1>10, <1>11, <1>12 DEF Next

LEMMA NodeStep == NodeInv /\ [Next]_vars => NodeInv' /\ [NothingSkipped]_vars
<1>1. ASSUME NodeInv, UNCHANGED vars PROVE NodeInv'
    BY <1>1 DEF vars, NodeInv
<1> QED
    BY <1>1, CoreStep, OtherStep

\* Whatever the user, the radios and the scheduler do, and whatever the capacity of
\* the channels: no channel holds more than it has room for, and no BLE packet is lost
\* between the radio and a running core (CoreLogicTask::run, send_event).
THEOREM NodeIsSound == Spec => []NodeSound
<1>1. NodeInv => NodeSound
    <2> SUFFICES ASSUME NodeInv PROVE NodeSound
        OBVIOUS
    <2>1. TypeOK
        <3>1. connections \in [Peer -> State \cup {NoConnection}]
            BY EarlyStates DEF NodeInv
        <3>2. {lagged, alive, missed} \subseteq [TransportType -> BOOLEAN]
              /\ {running, ended, ui_open} \subseteq BOOLEAN /\ {given, inputs, ble_due} \subseteq Nat
            BY Zenon DEF NodeInv
        <3> QED
            BY <3>1, <3>2 DEF NodeInv, TypeOK, AnEffect
    <2>2. BleLosesNothing
        BY DEF NodeInv, BleLosesNothing, BleAt
    <2> QED
        BY <2>1, <2>2 DEF NodeSound
<1> QED
    BY <1>1, NodeInitInv, NodeStep, PTL DEF Spec

\* A transport loop that the effect ring overtook takes no further effect
\* (RecvError::Lagged in the select loops).
THEOREM NoneSkipped == Spec => NoEffectSkipped
    BY NodeInitInv, NodeStep, PTL DEF Spec, NoEffectSkipped, NothingSkipped

-----------------------------------------------------------------------------
(* VirtualClock *)

Waiting == [how : {"awake", "sleeping", "ticking", "woken", "given up", "panicked", "timed out"},
            wake : Nat]

\* Unless the clock was taken back, the time of a woken sleeper has come.
ClockInv ==
    /\ virtual_time \in Nat /\ rewound \in BOOLEAN
    /\ task \in [Sleeper -> Waiting]
    /\ \A t \in Sleeper : /\ task[t].how = "panicked" => rewound
                          /\ task[t].how = "woken" => rewound \/ task[t].wake <= virtual_time

LEMMA LessIsNotMore == \A a, b \in Nat : a < b => ~(b <= a)
    OBVIOUS

LEMMA AwakeIs == Awake \in Waiting /\ Awake.how = "awake"
    BY DEF Awake, Waiting

LEMMA WakedIs ==
    ASSUME ClockInv, NEW now \in Nat
    PROVE  /\ Waked(now) \in [Sleeper -> Waiting]
           /\ \A t \in Sleeper :
                 \/ Waked(now)[t] = task[t]
                 \/ Waked(now)[t].how = "awake"
                 \/ Waked(now)[t].how = "woken" /\ Waked(now)[t].wake <= now
<1>1. ASSUME NEW t \in Sleeper
      PROVE  /\ Waked(now)[t] \in Waiting
             /\ \/ Waked(now)[t] = task[t]
                \/ Waked(now)[t].how = "awake"
                \/ Waked(now)[t].how = "woken" /\ Waked(now)[t].wake <= now
    <2>1. PICK w \in Waiting : w = task[t]
        BY DEF ClockInv
    <2>2. CASE w.how = "sleeping" /\ w.wake <= now
        <3>1. Waked(now)[t] = [w EXCEPT !.how = "woken"]
            BY <2>1, <2>2 DEF Waked
        <3> QED
            BY <2>2, <3>1 DEF Waiting
    <2>3. CASE w.how = "ticking" /\ w.wake <= now
        <3>1. Waked(now)[t] = Awake
            BY <2>1, <2>3 DEF Waked
        <3> QED
            BY <3>1, AwakeIs
    <2>4. CASE ~(w.how = "sleeping" /\ w.wake <= now) /\ ~(w.how = "ticking" /\ w.wake <= now)
        BY <2>1, <2>4 DEF Waked
    <2> QED
        BY <2>2, <2>3, <2>4
<1>2. Waked(now) = [t \in Sleeper |-> Waked(now)[t]]
    BY DEF Waked
<1> QED
    BY <1>1, <1>2

\* One task changes the way it waits.
LEMMA OneTask ==
    ASSUME ClockInv, NEW t \in Sleeper, NEW w \in Waiting, task' = [task EXCEPT ![t] = w],
           w.how = "panicked" => rewound, w.how # "woken",
           UNCHANGED <<virtual_time, rewound>>
    PROVE  ClockInv'
    BY DEF ClockInv

LEMMA ClockNextInv == ClockInv /\ [ClockNext]_clockVars => ClockInv'
<1> SUFFICES ASSUME ClockInv, [ClockNext]_clockVars PROVE ClockInv'
    OBVIOUS
<1>0. Awake \in Waiting /\ Awake.how = "awake"
    BY AwakeIs
<1>1. ASSUME NEW t \in Sleeper, NEW d \in Span, clock_sleep(t, d) PROVE ClockInv'
    <2>1. virtual_time + d \in Nat
        BY ClockAssumption DEF ClockInv
    <2>2. [how |-> "sleeping", wake |-> virtual_time + d] \in Waiting
        BY <2>1 DEF Waiting
    <2> QED
        BY <1>1, <2>2, OneTask DEF clock_sleep
<1>2. ASSUME NEW t \in Sleeper, NEW due \in 0..MaxVirtual, interval_tick(t, due) PROVE ClockInv'
    <2>1. [how |-> "ticking", wake |-> due] \in Waiting
        BY ClockAssumption DEF Waiting
    <2>2. PICK w : /\ w = Awake \/ w = [how |-> "ticking", wake |-> due]
                   /\ task' = [task EXCEPT ![t] = w]
        BY <1>2 DEF interval_tick
    <2> QED
        BY <1>0, <1>2, <2>1, <2>2, OneTask DEF interval_tick
<1>3. ASSUME NEW now \in Nat, virtual_time' = now, task' = Waked(now), rewound' \in BOOLEAN,
             rewound' = (rewound \/ now < virtual_time)
      PROVE  ClockInv'
    <2>1. /\ task' \in [Sleeper -> Waiting]
          /\ \A t \in Sleeper :
                 \/ task'[t] = task[t]
                 \/ task'[t].how = "awake"
                 \/ task'[t].how = "woken" /\ task'[t].wake <= now
        BY <1>3, WakedIs
    <2>2. ASSUME NEW t \in Sleeper
          PROVE  /\ task'[t].how = "panicked" => rewound'
                 /\ task'[t].how = "woken" => rewound' \/ task'[t].wake <= now
        <3>1. task[t].wake \in Nat /\ virtual_time \in Nat
            BY DEF ClockInv, Waiting
        <3>2. /\ task[t].how = "panicked" => rewound
              /\ task[t].how = "woken" => rewound \/ task[t].wake <= virtual_time
            BY DEF ClockInv
        <3>3. (rewound => rewound') /\ (now < virtual_time => rewound')
            BY <1>3
        <3>4. CASE task'[t] = task[t]
            <4>1. task[t].wake <= virtual_time => task[t].wake <= now \/ now < virtual_time
                BY <3>1
            <4> QED
                BY <3>2, <3>3, <3>4, <4>1
        <3> QED
            BY <2>1, <3>4
    <2> QED
        BY <1>3, <2>1, <2>2 DEF ClockInv
<1>4. ASSUME NEW d \in Span, clock_advance(d) PROVE ClockInv'
    <2>1. d \in Nat /\ virtual_time \in Nat /\ rewound \in BOOLEAN
        BY ClockAssumption DEF ClockInv
    <2>2. /\ virtual_time' = virtual_time + d /\ task' = Waked(virtual_time + d)
          /\ rewound' = (rewound \/ virtual_time + d < virtual_time)
        BY <1>4, <2>1 DEF clock_advance
    <2>3. virtual_time + d \in Nat /\ rewound' \in BOOLEAN
        BY <1>4, <2>1 DEF clock_advance
    <2> QED
        BY <1>3, <2>2, <2>3
<1>5. ASSUME NEW now \in 0..MaxVirtual, set_time(now) PROVE ClockInv'
    <2>1. now \in Nat
        BY ClockAssumption
    <2> QED
        BY <1>3, <1>5, <2>1 DEF set_time
<1>6. ASSUME NEW t \in Sleeper, GiveUp(t) PROVE ClockInv'
    <2>1. PICK w \in Waiting : w = task[t]
        BY DEF ClockInv
    <2>2. [w EXCEPT !.how = "given up"] \in Waiting /\ [w EXCEPT !.how = "given up"].how = "given up"
        BY DEF Waiting
    <2>3. PICK x : /\ x = Awake \/ x = [w EXCEPT !.how = "given up"]
                   /\ task' = [task EXCEPT ![t] = x]
        BY <1>6, <2>1 DEF GiveUp, ClockInv
    <2> QED
        BY <1>0, <1>6, <2>2, <2>3, OneTask DEF GiveUp
<1>7. ASSUME NEW t \in Sleeper, Resume(t) PROVE ClockInv'
    <2>1. PICK w \in Waiting : w = task[t]
        BY DEF ClockInv
    <2>2. PICK h \in {"panicked", "timed out"} :
              h = IF w.how = "woken" THEN "panicked" ELSE "timed out"
        OBVIOUS
    <2>3. [w EXCEPT !.how = h] \in Waiting /\ [w EXCEPT !.how = h].how = h
        BY DEF Waiting
    <2>4. task' = [task EXCEPT ![t] = IF virtual_time < w.wake THEN [w EXCEPT !.how = h] ELSE Awake]
        BY <1>7, <2>1, <2>2 DEF Resume, ClockInv
    <2>5. virtual_time < w.wake /\ h = "panicked" => rewound
        <3>1. task[t].how = "woken" => rewound \/ task[t].wake <= virtual_time
            BY DEF ClockInv
        <3>2. w.wake \in Nat /\ virtual_time \in Nat
            BY DEF ClockInv, Waiting
        <3>3. virtual_time < w.wake => ~(w.wake <= virtual_time)
            BY <3>2, LessIsNotMore, Zenon
        <3>4. h = "panicked" => w.how = "woken"
            BY <2>2
        <3> QED
            BY <2>1, <3>1, <3>3, <3>4
    <2>6. UNCHANGED <<virtual_time, rewound>>
        BY <1>7 DEF Resume
    <2>7. CASE virtual_time < w.wake
        BY <2>3, <2>4, <2>5, <2>6, <2>7, OneTask
    <2>8. CASE ~(virtual_time < w.wake)
        BY <1>0, <2>4, <2>6, <2>8, OneTask
    <2> QED
        BY <2>7, <2>8
<1>8. CASE UNCHANGED clockVars
    BY <1>8 DEF clockVars, ClockInv
<1> QED
    BY <1>1, <1>2, <1>4, <1>5, <1>6, <1>7, <1>8 DEF ClockNext

\* Whoever sleeps and however the test moves the clock, a woken sleeper goes on
\* unless set_time took the clock back before it looked (clock.rs, sleep).
THEOREM WokenSleepersGoOn == ClockSpec => []WokenGoesOn
<1>1. ClockInit => ClockInv
    <2> SUFFICES ASSUME ClockInit PROVE ClockInv
        OBVIOUS
    <2>1. task \in [Sleeper -> Waiting] /\ \A t \in Sleeper : task[t].how = "awake"
        BY AwakeIs DEF ClockInit
    <2>2. virtual_time \in Nat /\ rewound \in BOOLEAN
        BY DEF ClockInit
    <2> QED
        BY <2>1, <2>2 DEF ClockInv
<1>2. ClockInv => WokenGoesOn
    BY DEF ClockInv, WokenGoesOn
<1> QED
    BY <1>1, <1>2, ClockNextInv, PTL DEF ClockSpec

-----------------------------------------------------------------------------
(* NostrTransport *)

\* An event that is no gift wrap carries the key of its author, and a gift wrap is
\* sealed with a key that nobody has.
EventOnRelayOK(e) ==
    /\ e.kind # "GiftWrap" => e.pubkey = e.author
    /\ e.kind = "GiftWrap" => e.outer = NobodysKey

\* A node's core has events only of a listener that was started.
NostrInv ==
    /\ core_events = [n \in NNode |-> core_events[n]]
    /\ listening = [n \in NNode |-> listening[n]]
    /\ \A n \in NNode : client[n] = "none" => core_events[n] = {} /\ listening[n] = NotListening
    /\ client = [n \in NNode |-> client[n]]
    /\ \A e \in relays : EventOnRelayOK(e)
    /\ HeardFromOthers

LEMMA NobodyOpens ==
    ASSUME NEW n \in NNode, NEW e, EventOnRelayOK(e), e.kind = "GiftWrap"
    PROVE  ~unwrap_gift_wrapped_message(n, e)
<1>1. NobodysKey.owner = "nobody" /\ OwnKey(n).owner = n /\ Readable.owner = "public"
    BY DEF NobodysKey, OwnKey, Readable
<1>2. n # "nobody"
    BY NostrConstants
<1>3. NobodysKey # OwnKey(n) /\ NobodysKey # Readable
    BY <1>1, <1>2
<1> QED
    BY <1>3 DEF EventOnRelayOK, unwrap_gift_wrapped_message, Opens

LEMMA NoteOK ==
    ASSUME NEW k \in {"BitchatKind", "CustomKind"}, NEW n, NEW content, NEW p
    PROVE  EventOnRelayOK(PlainNote(k, n, content, p))
    BY DEF EventOnRelayOK, PlainNote

LEMMA WrapOK ==
    ASSUME NEW n, NEW to, NEW o, NEW p
    PROVE  EventOnRelayOK(create_gift_wrapped_message(n, to, o, p))
    BY DEF EventOnRelayOK, create_gift_wrapped_message, GeneratedKey

LEMMA PublishedKeeps ==
    ASSUME NostrInv, NEW e, EventOnRelayOK(e), Published(e)
    PROVE  NostrInv'
    BY DEF NostrInv, Published, HeardFromOthers

LEMMA NostrNextInv == NostrInv /\ [NostrNext]_nostrVars => NostrInv'
<1> SUFFICES ASSUME NostrInv, [NostrNext]_nostrVars PROVE NostrInv'
    OBVIOUS
<1>1. ASSUME UNCHANGED <<client, listening, relays, core_events>> PROVE NostrInv'
    BY <1>1 DEF NostrInv, HeardFromOthers
<1>2. ASSUME NEW n \in NNode, NEW p, broadcast_bitchat_packet(n, p) PROVE NostrInv'
    BY <1>2, NoteOK, PublishedKeeps DEF broadcast_bitchat_packet
<1>3. ASSUME NEW n \in NNode, NEW s \in PacketSize, NEW to \in NPeer, send_data_to_peer(n, to, s)
      PROVE  NostrInv'
    BY <1>3, NoteOK, PublishedKeeps DEF send_data_to_peer
<1>4. ASSUME NEW n \in NNode, NEW p, NEW to \in NPeer, NEW o \in Offset,
             send_bitchat_packet_to_peer(n, to, p, o)
      PROVE  NostrInv'
    <2>1. \/ Published(create_gift_wrapped_message(n, to, o, p))
          \/ Published(PlainNote("BitchatKind", n, "base64url", p))
          \/ Published(PlainNote("CustomKind", n, "base64url", p))
        BY <1>4 DEF send_bitchat_packet_to_peer
    <2> QED
        BY <2>1, WrapOK, NoteOK, PublishedKeeps
<1>5. ASSUME NEW n \in NNode, NEW e \in relays, process_nostr_event_static(n, e) PROVE NostrInv'
    <2>1. EventOnRelayOK(e)
        BY DEF NostrInv
    <2>2. e.kind # "GiftWrap"
        BY <1>5, <2>1, NobodyOpens DEF process_nostr_event_static, Decoded
    <2>3. e.author # n /\ e.packet.recipient \in {Everyone, listening[n].as} /\ client[n] # "none"
        BY <1>5, <2>1, <2>2
           DEF EventOnRelayOK, process_nostr_event_static, own_event, is_for_us, Subscribed, NostrInv
    <2>4. PICK x, y : /\ x.packet = e.packet /\ y.packet = e.packet
                      /\ core_events' = [core_events EXCEPT ![n] = @ \cup {x, y}]
                      /\ UNCHANGED <<client, listening, relays>>
        <3> DEFINE x == [type |-> "PeerDiscovered", packet |-> e.packet, at |-> nostr_now]
                   y == [type |-> IF e.content = "message" THEN "MessageReceived"
                                                           ELSE "BitchatPacketReceived",
                         packet |-> e.packet, at |-> nostr_now]
        <3>1. x.packet = e.packet /\ y.packet = e.packet
            OBVIOUS
        <3>2. /\ core_events' = [core_events EXCEPT ![n] = @ \cup {x, y}]
              /\ UNCHANGED <<client, listening, relays>>
            BY <1>5, Zenon DEF process_nostr_event_static
        <3> HIDE DEF x, y
        <3> QED
            BY <3>1, <3>2
    <2>5. core_events' = [m \in NNode |-> core_events'[m]]
        BY <2>4 DEF NostrInv
    <2>6. ASSUME NEW m \in NNode, NEW c \in core_events'[m]
          PROVE  \E f \in relays : /\ f.packet = c.packet /\ f.author # m
                                   /\ c.packet.recipient \in {Everyone, listening[m].as}
        <3>1. CASE c \in core_events[m]
            BY <3>1 DEF NostrInv, HeardFromOthers
        <3>2. CASE c \notin core_events[m]
            <4>1. m = n /\ c \in {x, y}
                BY <2>4, <2>6, <3>2 DEF NostrInv
            <4> QED
                BY <4>1, <2>3, <2>4
        <3> QED
            BY <3>1, <3>2
    <2>7. HeardFromOthers'
        BY <2>4, <2>6 DEF HeardFromOthers
    <2>8. \A m \in NNode : client[m] = "none" => core_events'[m] = {} /\ listening[m] = NotListening
        BY <2>3, <2>4 DEF NostrInv
    <2> QED
        BY <2>4, <2>5, <2>7, <2>8 DEF NostrInv
<1>6. ASSUME NEW n \in NNode, NEW ok \in BOOLEAN, run_internal(n, ok) PROVE NostrInv'
    <2>1. /\ client[n] = "none" /\ core_events[n] = {} /\ UNCHANGED <<relays, core_events>>
          /\ client' = [client EXCEPT ![n] = IF ok THEN "up" ELSE "failed"]
        BY <1>6 DEF run_internal, NostrInv
    <2>2. PICK l : listening' = listening \/ listening' = [listening EXCEPT ![n] = l]
        BY <1>6 DEF run_internal
    <2>3. /\ listening' = [m \in NNode |-> listening'[m]]
          /\ \A m \in NNode : m # n => listening'[m] = listening[m] /\ client'[m] = client[m]
          /\ client'[n] # "none" /\ client' = [m \in NNode |-> client'[m]]
        BY <2>1, <2>2 DEF NostrInv
    <2>4. HeardFromOthers'
        BY <2>1, <2>3 DEF NostrInv, HeardFromOthers
    <2> QED
        BY <2>1, <2>3, <2>4 DEF NostrInv
<1>7. ASSUME NEW n \in NNode, NEW p \in NPeer, set_local_peer_id(n, p) PROVE NostrInv'
    BY <1>1, <1>7 DEF set_local_peer_id
<1>8. CASE NostrTick \/ UNCHANGED nostrVars
    BY <1>1, <1>8 DEF NostrTick, nostrVars
<1>9. ASSUME NEW n \in NNode, effects_closed(n) PROVE NostrInv'
    <2>1. /\ client' = [client EXCEPT ![n] = "ended"]
          /\ UNCHANGED <<listening, relays, core_events>>
        BY <1>9 DEF effects_closed
    <2> QED
        BY <2>1 DEF NostrInv, HeardFromOthers
<1> QED
    BY <1>2, <1>3, <1>4, <1>5, <1>6, <1>7, <1>8, <1>9 DEF NostrNext

\* However the relays repeat and delay events, whatever the packets claim and
\* whenever a transport is given its peer id: a node's core hears only what another
\* node wrote to everyone or to the peer id the listener was started with
\* (start_listening, process_nostr_event_static).
THEOREM NostrIsSound == NostrSpec => []NostrSound
<1>1. NostrInit => NostrInv
    BY DEF NostrInit, NostrInv, HeardFromOthers
<1>2. NostrInv => NostrSound
    BY DEF NostrInv, NostrSound
<1> QED
    BY <1>1, <1>2, NostrNextInv, PTL DEF NostrSpec

-----------------------------------------------------------------------------
(* BleAdvertising *)

\* What is on the air has its flag up, on Linux also the other way round and with
\* its peer id; the fallback never has either, and the peripheral manager is there
\* before the flag goes up.
AdvInv ==
    /\ platform \in PlatformAdvertiser /\ ad_calls \in Nat
    /\ on_air # Silent => is_advertising = TRUE
    /\ platform = "Linux" /\ on_air # Silent => on_air.peer = current_peer_id
    /\ platform # "MacOS" /\ on_air = Silent => is_advertising = FALSE
    /\ platform = "Fallback" => on_air = Silent
    /\ platform = "MacOS" => initialized = TRUE \/ (is_advertising = FALSE /\ on_air = Silent)

IsAdvertiser(s) == s = [init |-> s.init, flag |-> s.flag, air |-> s.air, gatt |-> s.gatt]

\* A start that ends before its last step changes neither the flag nor the air, one
\* that the system ignores only the flag.
StartOutcome(s, p, step, r) ==
    \/ /\ platform # "Fallback" /\ step = "done"
       /\ r.init = TRUE /\ r.flag = TRUE /\ r.air = Announcement(p)
    \/ /\ platform = "MacOS" /\ step = "ignored"
       /\ r.init = TRUE /\ r.flag = TRUE /\ r.air = s.air
    \/ /\ platform = "Fallback" \/ ~Ok(step)
       /\ (s.init = TRUE => r.init = TRUE) /\ r.flag = s.flag /\ r.air = s.air

LEMMA StartIs ==
    ASSUME NEW s, NEW p, NEW step \in StepsOf(s), NEW r, r = StartAdvertising(s, p, step),
           IsAdvertiser(s), platform \in PlatformAdvertiser
    PROVE  StartOutcome(s, p, step, r)
<1>2. PICK t : t = [s EXCEPT !.init = TRUE]
    OBVIOUS
<1>3. t = [init |-> TRUE, flag |-> s.flag, air |-> s.air, gatt |-> s.gatt]
    BY <1>2 DEF IsAdvertiser
<1>4. t.init = TRUE /\ t.flag = s.flag /\ t.air = s.air
    BY <1>3
<1>5. PICK u : u = [t EXCEPT !.gatt = @ + 1]
    OBVIOUS
<1>6. u.init = TRUE /\ u.flag = s.flag /\ u.air = s.air
    BY <1>3, <1>5
<1>7. CASE platform = "Fallback"
    BY <1>7 DEF StartAdvertising, FallbackStart, StartOutcome
<1>8. CASE platform # "Fallback" /\ step = "done"
    <2>1. \E gatt : r = OnAir(p, gatt)
        BY <1>8 DEF StartAdvertising, LinuxStart, MacOSStart, PlatformAdvertiser
    <2> QED
        BY <1>8, <2>1 DEF OnAir, StartOutcome
<1>10. CASE platform # "Fallback" /\ step = "ignored"
    <2>1. platform = "MacOS" /\ r = [OnAir(p, s.gatt + 1) EXCEPT !.air = s.air]
        BY <1>10 DEF StepsOf, StartAdvertising, MacOSStart, PlatformAdvertiser
    <2>2. r.init = TRUE /\ r.flag = TRUE /\ r.air = s.air
        BY <2>1 DEF OnAir
    <2> QED
        BY <1>10, <2>1, <2>2 DEF StartOutcome
<1>9. CASE platform # "Fallback" /\ ~Ok(step)
    <2>1. step \in {"init", "gatt", "advertise"}
        BY <1>9 DEF StepsOf, Ok
    <2>2. initialize(s) = t /\ initialize_peripheral_manager(s) = t
        BY <1>2 DEF initialize, initialize_peripheral_manager
    <2>3. r \in {s, t, u}
        BY <1>5, <1>9, <2>1, <2>2 DEF StartAdvertising, LinuxStart, MacOSStart, PlatformAdvertiser
    <2> QED
        BY <1>4, <1>6, <1>9, <2>3 DEF StartOutcome
<1> QED
    BY <1>7, <1>8, <1>9, <1>10 DEF Ok

LEMMA StopIs ==
    ASSUME AdvInv, NEW r, r = StopAdvertising(Advertiser)
    PROVE  r = [init |-> initialized, flag |-> FALSE, air |-> Silent, gatt |-> gatt_services]
<1>1. Advertiser = [init |-> initialized, flag |-> is_advertising, air |-> on_air, gatt |-> gatt_services]
    BY DEF Advertiser
<1>2. PICK s : s = Advertiser
    OBVIOUS
<1>3. s.init = initialized /\ s.air = on_air /\ s.gatt = gatt_services
    BY <1>1, <1>2
<1>4. CASE (platform = "Linux" /\ s.air # Silent) \/ (platform = "MacOS" /\ s.init)
    <2>1. r = [init |-> s.init, flag |-> FALSE, air |-> Silent, gatt |-> s.gatt]
        BY <1>2, <1>4 DEF StopAdvertising
    <2> QED
        BY <1>3, <2>1
<1>5. CASE ~((platform = "Linux" /\ s.air # Silent) \/ (platform = "MacOS" /\ s.init))
    <2>1. on_air = Silent /\ is_advertising = FALSE
        BY <1>3, <1>5 DEF AdvInv, PlatformAdvertiser
    <2>2. r = s
        BY <1>2, <1>5 DEF StopAdvertising
    <2> QED
        BY <1>1, <1>2, <2>1, <2>2
<1> QED
    BY <1>4, <1>5

LEMMA AnnouncementIs ==
    ASSUME ad_calls \in Nat, NEW p
    PROVE  Announcement(p).peer = p /\ Announcement(p) # Silent
<1>1. Announcement(p).stamp = ad_calls + 1 /\ Silent.stamp = 0
    BY DEF Announcement, Silent
<1> QED
    BY <1>1 DEF Announcement

LEMMA AdNextInv == AdvInv /\ [AdNext]_adVars => AdvInv'
<1> SUFFICES ASSUME AdvInv, [AdNext]_adVars PROVE AdvInv'
    OBVIOUS
<1>1. ASSUME NEW p \in AdPeer, manager_start(p) PROVE AdvInv'
    <2>1. PICK step \in StepsOf(Advertiser) :
              /\ Becomes(StartAdvertising(Advertiser, p, step))
              /\ current_peer_id' = IF Ok(step) THEN p ELSE current_peer_id
        BY <1>1 DEF manager_start
    <2>2. PICK r : r = StartAdvertising(Advertiser, p, step)
        OBVIOUS
    <2>3. \/ /\ platform # "Fallback" /\ step = "done"
             /\ r.init = TRUE /\ r.flag = TRUE /\ r.air = Announcement(p)
          \/ /\ platform = "MacOS" /\ step = "ignored"
             /\ r.init = TRUE /\ r.flag = TRUE /\ r.air = on_air
          \/ /\ platform = "Fallback" \/ ~Ok(step)
             /\ (initialized = TRUE => r.init = TRUE) /\ r.flag = is_advertising /\ r.air = on_air
        <3>1. PICK s : s = Advertiser
            OBVIOUS
        <3>2. s = [init |-> initialized, flag |-> is_advertising, air |-> on_air, gatt |-> gatt_services]
            BY <3>1 DEF Advertiser
        <3>3. step \in StepsOf(s) /\ r = StartAdvertising(s, p, step) /\ platform \in PlatformAdvertiser
            BY <2>1, <2>2, <3>1 DEF AdvInv
        <3>4. /\ s.init = initialized /\ s.flag = is_advertising /\ s.air = on_air
              /\ IsAdvertiser(s)
            BY <3>2 DEF IsAdvertiser
        <3>5. StartOutcome(s, p, step, r)
            BY <3>3, <3>4, StartIs
        <3> QED
            BY <3>4, <3>5 DEF StartOutcome
    <2>4. /\ initialized' = r.init /\ is_advertising' = r.flag /\ on_air' = r.air
          /\ platform' = platform /\ ad_calls' = ad_calls + 1
        BY <1>1, <2>1, <2>2 DEF Becomes, manager_start, AdCall
    <2>5. CASE r.air = Announcement(p) /\ platform # "Fallback" /\ step = "done" /\ r.flag = TRUE /\ r.init = TRUE
        BY <2>1, <2>4, <2>5, AnnouncementIs DEF AdvInv, Ok
    <2>7. CASE platform = "MacOS" /\ r.init = TRUE /\ r.flag = TRUE /\ r.air = on_air
        BY <2>4, <2>7 DEF AdvInv
    <2>6. CASE /\ platform = "Fallback" \/ ~Ok(step)
               /\ (initialized = TRUE => r.init = TRUE) /\ r.flag = is_advertising /\ r.air = on_air
        BY <2>1, <2>4, <2>6 DEF AdvInv
    <2> QED
        BY <2>3, <2>5, <2>6, <2>7
<1>2. CASE manager_stop
    <2>1. PICK r : r = StopAdvertising(Advertiser)
        OBVIOUS
    <2>2. r.init = initialized /\ r.flag = FALSE /\ r.air = Silent
        BY <2>1, StopIs
    <2>3. /\ initialized' = r.init /\ is_advertising' = r.flag /\ on_air' = r.air
          /\ platform' = platform /\ ad_calls' = ad_calls + 1
        BY <1>2, <2>1 DEF Becomes, manager_stop, AdCall
    <2> QED
        BY <2>2, <2>3 DEF AdvInv
<1>3. CASE rotate
    <2>1. CASE current_peer_id # NoAdPeer /\ is_advertising
        <3>1. PICK s : s = StopAdvertising(Advertiser)
            OBVIOUS
        <3>2. s = [init |-> initialized, flag |-> FALSE, air |-> Silent, gatt |-> gatt_services]
            BY <3>1, StopIs
        <3>3. PICK step \in StepsOf(s) : Becomes(StartAdvertising(s, current_peer_id, step))
            BY <1>3, <2>1, <3>1 DEF rotate
        <3>4. PICK r : r = StartAdvertising(s, current_peer_id, step)
            OBVIOUS
        <3>5. \/ /\ platform # "Fallback"
                 /\ r.init = TRUE /\ r.flag = TRUE /\ r.air = Announcement(current_peer_id)
              \/ platform = "MacOS" /\ r.init = TRUE /\ r.flag = TRUE /\ r.air = Silent
              \/ (initialized = TRUE => r.init = TRUE) /\ r.flag = FALSE /\ r.air = Silent
            <4>1. platform \in PlatformAdvertiser
                BY DEF AdvInv
            <4>2. /\ s.init = initialized /\ s.flag = FALSE /\ s.air = Silent
                  /\ IsAdvertiser(s)
                BY <3>2 DEF IsAdvertiser
            <4>3. StartOutcome(s, current_peer_id, step, r)
                BY <3>3, <3>4, <4>1, <4>2, StartIs
            <4> QED
                BY <4>2, <4>3 DEF StartOutcome
        <3>6. /\ initialized' = r.init /\ is_advertising' = r.flag /\ on_air' = r.air
              /\ platform' = platform /\ ad_calls' = ad_calls + 1 /\ current_peer_id' = current_peer_id
            BY <1>3, <3>3, <3>4 DEF Becomes, rotate, AdCall
        <3>7. CASE /\ platform # "Fallback"
                   /\ r.init = TRUE /\ r.flag = TRUE /\ r.air = Announcement(current_peer_id)
            BY <3>6, <3>7, AnnouncementIs DEF AdvInv
        <3>8. CASE (initialized = TRUE => r.init = TRUE) /\ r.flag = FALSE /\ r.air = Silent
            BY <3>6, <3>8 DEF AdvInv
        <3>9. CASE platform = "MacOS" /\ r.init = TRUE /\ r.flag = TRUE /\ r.air = Silent
            BY <3>6, <3>9 DEF AdvInv
        <3> QED
            BY <3>5, <3>7, <3>8, <3>9
    <2>2. CASE ~(current_peer_id # NoAdPeer /\ is_advertising)
        <3>1. UNCHANGED <<initialized, is_advertising, on_air, platform, current_peer_id>>
              /\ ad_calls' = ad_calls + 1
            BY <1>3, <2>2 DEF rotate, Becomes, Advertiser, AdCall
        <3> QED
            BY <3>1 DEF AdvInv
    <2> QED
        BY <2>1, <2>2
<1>4. CASE UNCHANGED adVars
    BY <1>4 DEF adVars, AdvInv
<1> QED
    BY <1>1, <1>2, <1>3, <1>4 DEF AdNext

\* Whichever step of a start or of a rotation fails, nothing is on the air behind
\* the flag's back, also where the system gives no answer; where it does, the flag
\* and the manager's peer id tell what is on the air (AdvertisingManager).
THEOREM AdvertisingIsSound == AdSpec => []AdvertisingSound
<1>1. AdInit => AdvInv
    BY DEF AdInit, AdvInv
<1>2. AdvInv => AdvertisingSound
    BY DEF AdvInv, AdvertisingSound, FlagTellsAir, AirIsCurrent
<1> QED
    BY <1>1, <1>2, AdNextInv, PTL DEF AdSpec

-----------------------------------------------------------------------------
(* RelayManager *)

KnownRelay == [health : {"Unknown", "Healthy", "Degraded", "Unhealthy"}, is_connected : BOOLEAN,
               consecutive_failures : Nat, attempts : Nat, successes : Nat]

\* Three failures show in the rating.
StrikesTell(r) == r.consecutive_failures >= 3 => r.health \in {"Unhealthy", "Degraded"}

RelayInv ==
    /\ relay_info \in [Relay -> KnownRelay \cup {NoRelay}]
    /\ \A u \in Relay : relay_info[u] # NoRelay => StrikesTell(relay_info[u])
    /\ HealthFindsConnection

LEMMA KnownIsThere ==
    ASSUME NEW r \in KnownRelay
    PROVE  r # NoRelay
    BY DEF KnownRelay, NoRelay

LEMMA NewRelayOK == RelayInfo \in KnownRelay /\ StrikesTell(RelayInfo)
    BY DEF RelayInfo, KnownRelay, StrikesTell

LEMMA ConnectOK ==
    ASSUME NEW r \in KnownRelay, StrikesTell(r), NEW lucky
    PROVE  /\ connect_to_relay(r, lucky) \in KnownRelay /\ StrikesTell(connect_to_relay(r, lucky))
           /\ r.health = "Healthy" => connect_to_relay(r, lucky).is_connected
<1>1. CASE Connects(r, lucky)
    BY <1>1 DEF connect_to_relay, KnownRelay, StrikesTell
<1>2. CASE ~Connects(r, lucky)
    <2>1. r.health # "Healthy"
        BY <1>2 DEF Connects
    <2>2. connect_to_relay(r, lucky) =
              [health |-> IF r.health = "Unknown" THEN "Unhealthy" ELSE r.health,
               is_connected |-> r.is_connected, consecutive_failures |-> r.consecutive_failures + 1,
               attempts |-> r.attempts + 1, successes |-> r.successes]
        BY <1>2 DEF connect_to_relay
    <2> QED
        BY <2>1, <2>2 DEF KnownRelay, StrikesTell
<1> QED
    BY <1>1, <1>2

LEMMA RatedOK ==
    ASSUME NEW r \in KnownRelay, StrikesTell(r), NEW success \in BOOLEAN, NEW latency
    PROVE  Rated(r, success, latency) \in KnownRelay /\ StrikesTell(Rated(r, success, latency))
    BY DEF Rated, KnownRelay, StrikesTell, TooManyFailures

\* One relay is replaced, removed or rated.
LEMMA OneRelay ==
    ASSUME RelayInv, NEW u \in Relay, NEW r \in KnownRelay \cup {NoRelay},
           r # NoRelay => StrikesTell(r), relay_info' = [relay_info EXCEPT ![u] = r],
           UNCHANGED relay_selected
    PROVE  RelayInv'
    BY DEF RelayInv, HealthFindsConnection

\* A selection by health that is not empty has a healthy relay, if there is one.
LEMMA HealthyChosen ==
    ASSUME NEW count \in 1 .. 2, NEW T \in select_healthy_relays(count),
           NEW v \in Managed, relay_info[v].health = "Healthy"
    PROVE  \E u \in T \cap Managed : relay_info[u].health = "Healthy"
<1>1. /\ T \subseteq Managed
      /\ Cardinality(T) = IF count < Cardinality(Managed) THEN count ELSE Cardinality(Managed)
      /\ \A a \in T, b \in Managed \ T : ~Before(relay_info[b], relay_info[a])
    BY DEF select_healthy_relays, Top
<1>2. IsFiniteSet(Managed) /\ Cardinality(Managed) \in Nat
    BY RelayConstants, FS_Subset, FS_CardinalityType DEF Managed
<1>3. Cardinality(Managed) # 0
    BY <1>2, FS_EmptySet
<1>4. T # {}
    BY <1>1, <1>2, <1>3, FS_EmptySet
<1>5. PICK a \in T : TRUE
    BY <1>4
<1>6. v \notin T => relay_info[a].health = "Healthy"
    BY <1>1, <1>5 DEF Before
<1> QED
    BY <1>1, <1>5, <1>6

LEMMA ConnectionsOK ==
    ASSUME RelayInv, NEW g, NEW count \in 1 .. 2, NEW lucky, select_and_connect(g, count, lucky)
    PROVE  RelayInv'
<1>1. PICK T \in select_relays(g, count) :
          /\ ensure_connections(T, lucky)
          /\ relay_selected' = [strategy |-> selection_strategy,
                 offered |-> \E u \in Managed : relay_info[u].health = "Healthy",
                 connected |-> {u \in T \cap Managed : relay_info'[u].is_connected}]
    BY DEF select_and_connect
<1>2. ASSUME NEW u \in Relay, relay_info[u] # NoRelay
      PROVE  relay_info[u] \in KnownRelay /\ StrikesTell(relay_info[u])
    BY <1>2 DEF RelayInv
<1>3. ASSUME NEW u \in Relay
      PROVE  \/ relay_info'[u] = relay_info[u] /\ (u \in T \cap Managed => relay_info[u].is_connected)
             \/ relay_info[u] # NoRelay /\ relay_info'[u] = connect_to_relay(relay_info[u], u \in lucky)
    BY <1>1 DEF ensure_connections, Managed
<1>4. ASSUME NEW u \in Relay
      PROVE  /\ relay_info'[u] \in KnownRelay \cup {NoRelay}
             /\ relay_info'[u] # NoRelay => StrikesTell(relay_info'[u])
    <2>1. CASE relay_info'[u] = relay_info[u]
        BY <1>2, <2>1 DEF RelayInv
    <2>2. CASE relay_info[u] # NoRelay /\ relay_info'[u] = connect_to_relay(relay_info[u], u \in lucky)
        BY <1>2, <2>2, ConnectOK
    <2> QED
        BY <1>3, <2>1, <2>2
<1>5. relay_info' \in [Relay -> KnownRelay \cup {NoRelay}]
    BY <1>1, <1>4 DEF ensure_connections
<1>6. ASSUME selection_strategy = "HealthBased", NEW v \in Managed, relay_info[v].health = "Healthy"
      PROVE  \E u \in T \cap Managed : relay_info'[u].is_connected
    <2>1. T \in select_healthy_relays(count)
        BY <1>1, <1>6 DEF select_relays
    <2>2. PICK u \in T \cap Managed : relay_info[u].health = "Healthy"
        BY <1>6, <2>1, HealthyChosen
    <2>3. u \in Relay /\ relay_info[u] # NoRelay
        BY DEF Managed
    <2>4. relay_info'[u].is_connected
        BY <1>2, <1>3, <2>2, <2>3, ConnectOK
    <2> QED
        BY <2>4
<1>7. HealthFindsConnection'
    <2>1. /\ relay_selected'.strategy = selection_strategy
          /\ relay_selected'.offered = (\E u \in Managed : relay_info[u].health = "Healthy")
          /\ relay_selected'.connected = {u \in T \cap Managed : relay_info'[u].is_connected}
        BY <1>1
    <2>2. ASSUME relay_selected'.strategy = "HealthBased", relay_selected'.offered
          PROVE  relay_selected'.connected # {}
        <3>1. PICK v \in Managed : relay_info[v].health = "Healthy"
            BY <2>1, <2>2
        <3>2. PICK u \in T \cap Managed : relay_info'[u].is_connected
            BY <1>6, <2>1, <2>2, <3>1
        <3> QED
            BY <2>1, <3>2
    <2> QED
        BY <2>2 DEF HealthFindsConnection
<1> QED
    BY <1>4, <1>5, <1>7 DEF RelayInv

LEMMA RelayNextInv == RelayInv /\ [RelayNext]_relayVars => RelayInv'
<1> SUFFICES ASSUME RelayInv, [RelayNext]_relayVars PROVE RelayInv'
    OBVIOUS
<1>1. ASSUME NEW u \in Relay, add_relay(u) PROVE RelayInv'
    BY <1>1, NewRelayOK, OneRelay DEF add_relay
<1>2. ASSUME NEW u \in Relay, remove_relay(u) PROVE RelayInv'
    BY <1>2, OneRelay DEF remove_relay
<1>3. ASSUME NEW u \in Relay, NEW ok \in BOOLEAN, NEW l \in Latency, update_relay_health(u, ok, l)
      PROVE  RelayInv'
    <2>1. PICK r \in KnownRelay : r = relay_info[u] /\ StrikesTell(r)
        BY <1>3 DEF update_relay_health, Managed, RelayInv
    <2>2. PICK n : n = Rated(r, ok, l)
        OBVIOUS
    <2>3. n \in KnownRelay /\ StrikesTell(n)
        BY <2>1, <2>2, RatedOK
    <2>4. relay_info' = [relay_info EXCEPT ![u] = n] /\ relay_selected' = relay_selected
        BY <1>3, <2>1, <2>2 DEF update_relay_health
    <2> QED
        BY <2>3, <2>4, OneRelay
<1>4. CASE load_default_relays
    <2>1. /\ relay_info' = [u \in Relay |-> IF u \in DefaultRelay THEN RelayInfo ELSE relay_info[u]]
          /\ UNCHANGED relay_selected
        BY <1>4 DEF load_default_relays
    <2>2. relay_info' \in [Relay -> KnownRelay \cup {NoRelay}]
        BY <2>1, NewRelayOK DEF RelayInv
    <2>3. \A u \in Relay : relay_info'[u] # NoRelay => StrikesTell(relay_info'[u])
        BY <2>1, NewRelayOK DEF RelayInv
    <2> QED
        BY <2>1, <2>2, <2>3 DEF RelayInv, HealthFindsConnection
<1>5. ASSUME NEW s \in RelayStrategy, set_selection_strategy(s) PROVE RelayInv'
    BY <1>5 DEF set_selection_strategy, RelayInv, HealthFindsConnection
<1>6. CASE UNCHANGED relayVars
    BY <1>6 DEF relayVars, RelayInv, HealthFindsConnection
<1> QED
    BY <1>1, <1>2, <1>3, <1>4, <1>5, <1>6, ConnectionsOK DEF RelayNext

\* For any set of relays and any order a sort may leave them in: three failures in
\* a row show in a relay's rating, and selection by health finds a connection when
\* one of the relays is healthy (update_relay_health, select_relays).
THEOREM RelaysAreSound == RelaySpec => []RelaysSound
<1>1. RelayInit => RelayInv
    BY DEF RelayInit, RelayInv, HealthFindsConnection
<1>2. RelayInv => RelaysSound
    BY DEF RelayInv, RelaysSound, ThreeStrikes, StrikesTell, Managed
<1> QED
    BY <1>1, <1>2, RelayNextInv, PTL DEF RelaySpec

-----------------------------------------------------------------------------
(* The command line application *)

Configured(c) == c.peer_id # NotSet \/ c.name # NotSet

\* A configured identity is the same whenever it is asked for.
LEMMA ConfiguredId ==
    ASSUME NEW c, NEW a, NEW b, Configured(c)
    PROVE  get_peer_id(c, a) = get_peer_id(c, b)
    BY DEF Configured, get_peer_id

\* Only an identity that validation refuses is no identity.
LEMMA NoIdRefused ==
    ASSUME NEW c, NEW a, get_peer_id(c, a) = NoId
    PROVE  ~cli_validate(c)
<1>1. c.peer_id # NotSet /\ ~parse_peer_id(c.peer_id)
    BY DEF get_peer_id, NoId, PeerIdOf, generate_peer_id_from_name, generate_random_peer_id
<1> QED BY <1>1 DEF cli_validate

\* What was announced is what the configuration gives, and an application that runs
\* has an identity.
CliInv ==
    /\ cli_paused \in [ChannelTransport -> {"no", "yes", "unknown"}]
    /\ cli_process \in {"start", "loaded"} => cli_announced = NoId
    /\ cli_process \in {"start", "loaded", "announced"} => orc_peer_id = NoId
    /\ cli_process = "running" => orc_peer_id # NoId
    /\ Configured(cli_config) /\ cli_announced # NoId => cli_announced = get_peer_id(cli_config, 0)
    /\ Configured(cli_config) /\ orc_peer_id # NoId => orc_peer_id = get_peer_id(cli_config, 0)
    /\ PausedIsQuiet
    /\ AcceptedStarts

Identity == <<cli_process, cli_config, cli_announced, orc_peer_id>>

\* Commands change neither configuration nor identity.
LEMMA IdentityStands ==
    ASSUME CliInv, UNCHANGED Identity, PausedIsQuiet',
           cli_paused' \in [ChannelTransport -> {"no", "yes", "unknown"}]
    PROVE  CliInv'
    BY DEF CliInv, Identity, AcceptedStarts

LEMMA CliInitInv == CliInit => CliInv
    BY DEF CliInit, CliInv, PausedIsQuiet, AcceptedStarts, ChannelTransport

LEMMA AnnounceOK ==
    ASSUME CliInv, cli_announce
    PROVE  CliInv'
<1> DEFINE id == get_peer_id(cli_config, cli_clock + 1)
           says == cli_mode = "automation" \/ (cli_mode \in {"main", "file"} /\ cli_config.verbose)
<1>1. /\ cli_process = "loaded" /\ UNCHANGED <<cli_config, orc_peer_id, cli_transports, cli_paused>>
      /\ cli_announced' = (IF says THEN id ELSE cli_announced)
      /\ cli_process' = (IF says /\ id = NoId THEN "exited" ELSE "announced")
    BY DEF cli_announce
<1>2. cli_announced = NoId /\ orc_peer_id = NoId /\ PausedIsQuiet
      /\ cli_paused \in [ChannelTransport -> {"no", "yes", "unknown"}]
    BY <1>1 DEF CliInv
<1>3. id = NoId => ~cli_validate(cli_config)
    BY NoIdRefused
<1>4. Configured(cli_config) => id = get_peer_id(cli_config, 0)
    BY ConfiguredId
<1> HIDE DEF id, says
<1>5. cli_process' \in {"exited", "announced"} /\ cli_announced' \in {id, NoId}
    BY <1>1, <1>2
<1>6. PausedIsQuiet'
    BY <1>1, <1>2 DEF PausedIsQuiet
<1>7. AcceptedStarts'
    BY <1>1, <1>3 DEF AcceptedStarts
<1> QED BY <1>1, <1>2, <1>4, <1>5, <1>6, <1>7 DEF CliInv

LEMMA AppNewOK ==
    ASSUME CliInv, app_new
    PROVE  CliInv'
<1> DEFINE id == get_peer_id(cli_config, cli_clock + 1)
           enabled == get_enabled_transports(cli_config)
           started == IF id = NoId THEN {} ELSE start_configured_transports(enabled)
<1>1. /\ cli_process = "announced" /\ UNCHANGED <<cli_config, cli_announced>>
      /\ orc_peer_id' = (IF started # {} THEN id ELSE NoId)
      /\ cli_process' = (IF started # {} THEN "running" ELSE "exited")
      /\ cli_paused' = [t \in ChannelTransport |-> IF t \in started THEN "no" ELSE "unknown"]
    BY DEF app_new, orchestrator_start
<1>2. id = NoId => ~cli_validate(cli_config)
    BY NoIdRefused
<1>3. Configured(cli_config) => id = get_peer_id(cli_config, 0)
    BY ConfiguredId
<1>4. started = {} => id = NoId \/ "ble" \notin ToSet(enabled)
    BY DEF start_configured_transports
<1>5. started # {} => id # NoId
    OBVIOUS
<1> HIDE DEF id, started
<1>6. PausedIsQuiet' /\ cli_paused' \in [ChannelTransport -> {"no", "yes", "unknown"}]
    BY <1>1 DEF PausedIsQuiet
<1>7. AcceptedStarts'
    BY <1>1, <1>2, <1>4, <1>5 DEF AcceptedStarts
<1>8. Configured(cli_config) /\ cli_announced # NoId => cli_announced = get_peer_id(cli_config, 0)
    BY DEF CliInv
<1> QED BY <1>1, <1>3, <1>5, <1>6, <1>7, <1>8 DEF CliInv

LEMMA CliStep == CliInv /\ [CliNext]_cliVars => CliInv'
<1> SUFFICES ASSUME CliInv, [CliNext]_cliVars PROVE CliInv'
    OBVIOUS
<1>0. PausedIsQuiet /\ cli_paused \in [ChannelTransport -> {"no", "yes", "unknown"}]
    BY DEF CliInv
<1>1. ASSUME NEW f \in FileLayer, NEW e \in EnvLayer, NEW a \in ArgLayer, load_config(f, e, a)
      PROVE  CliInv'
    <2> DEFINE c == CASE cli_mode = "main"        -> load_with_overrides(f, e, a)
                      [] cli_mode = "file"        -> load_from_file(f)
                      [] cli_mode = "interactive" -> interactive_config(load_layers(f, e), a)
                      [] OTHER                -> interactive_config(Defaults, a)
    <2>1. /\ cli_config' = c /\ cli_process = "start"
          /\ cli_process' = (IF cli_mode = "automation" \/ cli_validate(c) THEN "loaded" ELSE "exited")
          /\ UNCHANGED <<cli_announced, orc_peer_id, cli_transports, cli_paused>>
        BY <1>1, Zenon DEF load_config
    <2> HIDE DEF c
    <2>2. cli_announced = NoId /\ orc_peer_id = NoId
        BY <2>1 DEF CliInv
    <2>3. AcceptedStarts' /\ PausedIsQuiet'
        BY <1>0, <2>1 DEF AcceptedStarts, PausedIsQuiet
    <2> QED BY <1>0, <2>1, <2>2, <2>3 DEF CliInv
<1>2. ASSUME NEW t \in ChannelTransport, pause_transport(t) PROVE CliInv'
    <2>1. UNCHANGED Identity
        BY <1>2 DEF pause_transport, ReadLine, Identity
    <2>2. PausedIsQuiet' /\ cli_paused' \in [ChannelTransport -> {"no", "yes", "unknown"}]
        BY <1>0, <1>2 DEF pause_transport, PausedIsQuiet
    <2> QED BY <2>1, <2>2, IdentityStands
<1>3. ASSUME NEW t \in ChannelTransport, resume_transport(t) PROVE CliInv'
    <2>1. UNCHANGED Identity
        BY <1>3 DEF resume_transport, ReadLine, Identity
    <2>2. PausedIsQuiet' /\ cli_paused' \in [ChannelTransport -> {"no", "yes", "unknown"}]
        BY <1>0, <1>3 DEF resume_transport, PausedIsQuiet
    <2> QED BY <2>1, <2>2, IdentityStands
<1>4. ASSUME UNCHANGED Identity, UNCHANGED <<cli_transports, cli_paused>> PROVE CliInv'
    BY <1>0, <1>4, IdentityStands DEF PausedIsQuiet
<1>5. ASSUME NEW c \in CliCoreCommand, terminal_command(c) PROVE CliInv'
    BY <1>4, <1>5 DEF terminal_command, ReadLine, Identity
<1>6. ASSUME NEW r, automation_report(r) PROVE CliInv'
    BY <1>4, <1>6 DEF automation_report, ReadLine, Identity
<1>7. CASE print_command \/ cli_quit
    BY <1>4, <1>7 DEF print_command, cli_quit, ReadLine, Identity
<1>8. CASE leave_loop
    <2>1. /\ cli_process = "running" /\ cli_process' = "exited"
          /\ UNCHANGED <<cli_config, cli_announced, orc_peer_id>>
        BY <1>8 DEF leave_loop
    <2>2. PausedIsQuiet' /\ cli_paused' \in [ChannelTransport -> {"no", "yes", "unknown"}]
        BY <1>0, <1>8 DEF leave_loop, app_stop, orchestrator_stop, PausedIsQuiet
    <2>3. orc_peer_id # NoId
        BY <2>1 DEF CliInv
    <2> QED BY <2>1, <2>2, <2>3 DEF CliInv, AcceptedStarts
<1>9. CASE task_ends
    <2>1. UNCHANGED Identity /\ UNCHANGED cli_paused
          /\ (UNCHANGED cli_transports \/ \E t \in cli_transports : cli_transports' = cli_transports \ {t})
        BY <1>9 DEF task_ends, Identity
    <2>2. PausedIsQuiet' /\ cli_paused' \in [ChannelTransport -> {"no", "yes", "unknown"}]
        BY <1>0, <2>1 DEF PausedIsQuiet
    <2> QED BY <2>1, <2>2, IdentityStands
<1>10. CASE UNCHANGED cliVars
    BY <1>4, <1>10 DEF cliVars, Identity
<1> QED
    BY <1>1, <1>2, <1>3, <1>5, <1>6, <1>7, <1>8, <1>9, <1>10, AnnounceOK, AppNewOK DEF CliNext

\* Whatever the layers of the configuration say and whatever commands follow: an
\* accepted configuration with a transport to start gets the application going, under
\* the identity that was announced, and a paused transport has no task
\* (CliAppConfig::validate, BitchatCliApp::new, pause_transport).
THEOREM CliIsSound == CliSpec => []CliSound
<1>1. CliInv => CliSound
    <2> SUFFICES ASSUME CliInv PROVE CliSound
        OBVIOUS
    <2>1. NamedIdentityStable
        BY DEF CliInv, NamedIdentityStable, Configured
    <2> QED BY <2>1 DEF CliInv, CliSound
<1> QED
    BY <1>1, CliInitInv, CliStep, PTL DEF CliSpec

-----------------------------------------------------------------------------
(* The configuration *)

\* What a section may hold.
Filled(c, s) == c[s] \in Constructors(s) \cup Custom(s) \/ (s = "test" /\ c[s] = Unset)

LEMMA PartsOfSections ==
    /\ Constructors("channels") = DOMAIN ChannelConfig
    /\ Constructors("delivery") = DOMAIN DeliveryConfig
    /\ Constructors("session") = DOMAIN SessionConfig
    /\ Constructors("ble") = DOMAIN BleTransportConfig
    /\ Constructors("nostr") = DOMAIN NostrTransportConfig
    /\ Constructors("limits") = DOMAIN LimitsConfig
    /\ Constructors("timing") = TimingConfig
    /\ Constructors("ui") = UiConfig
    /\ Constructors("message_store") = MessageStoreConfig
    /\ Constructors("monitoring") = DOMAIN MonitoringConfig
    /\ Constructors("rate_limiting") = RateLimitConfig
    /\ Constructors("test") = TestConfig
    BY DEF Constructors

LEMMA NamesOfConstructors ==
    /\ DOMAIN ChannelConfig = {"default", "browser_optimized", "high_memory", "low_memory", "testing"}
    /\ DOMAIN DeliveryConfig = {"default", "aggressive", "conservative", "testing"}
    /\ DOMAIN SessionConfig = {"default", "low_latency", "high_security", "testing"}
    /\ DOMAIN BleTransportConfig = {"canonical", "battery_optimized", "development", "testing"}
    /\ DOMAIN NostrTransportConfig = {"canonical", "development", "testing"}
    /\ DOMAIN LimitsConfig = {"canonical", "low_memory", "testing"}
    /\ DOMAIN MonitoringConfig = {"default", "minimal", "detailed", "testing"}
    BY DEF ChannelConfig, DeliveryConfig, SessionConfig, BleTransportConfig, NostrTransportConfig,
           LimitsConfig, MonitoringConfig

LEMMA ChannelsValid ==
    ASSUME NEW n \in DOMAIN ChannelConfig
    PROVE  \A b \in Range(ChannelConfig[n]) : b # 0
<1> DEFINE Size == Nat \ {0}
<1>1. ChannelConfig[n] \in [command : Size, event : Size, effect : Size, app_event : Size]
    BY NamesOfConstructors DEF ChannelConfig, Buffers
<1>2. ASSUME NEW r \in [command : Size, event : Size, effect : Size, app_event : Size]
      PROVE  \A x \in Range(r) : x # 0
    <2>1. DOMAIN r = {"command", "event", "effect", "app_event"}
        OBVIOUS
    <2>2. \A f \in DOMAIN r : r[f] \in Size
        BY <2>1
    <2> QED BY <2>2 DEF Range
<1> QED BY <1>1, <1>2

LEMMA DeliveryValid ==
    ASSUME NEW n \in DOMAIN DeliveryConfig, NEW d, d = DeliveryConfig[n]
    PROVE  /\ d.max_retries # 0 /\ d.backoff_multiplier > 10
           /\ d.initial_retry_delay <= d.max_retry_delay
    BY NamesOfConstructors DEF DeliveryConfig, Retries

LEMMA SessionValid ==
    ASSUME NEW n \in DOMAIN SessionConfig, NEW d, d = SessionConfig[n]
    PROVE  d.max_concurrent_sessions # 0 /\ d.handshake_timeout <= d.idle_timeout
    BY NamesOfConstructors DEF SessionConfig, Sessions

LEMMA MonitoringValid ==
    ASSUME NEW n \in DOMAIN MonitoringConfig, NEW d, d = MonitoringConfig[n]
    PROVE  d.max_comm_events # 0 /\ d.max_performance_samples # 0
    BY NamesOfConstructors DEF MonitoringConfig, Monitoring

LEMMA BleValid ==
    ASSUME NEW n \in DOMAIN BleTransportConfig
    PROVE  validate_ble_config(BleTransportConfig[n])
    BY NamesOfConstructors DEF BleTransportConfig, BleCanonical, validate_ble_config, Within

LEMMA NostrValid ==
    ASSUME NEW n \in DOMAIN NostrTransportConfig
    PROVE  validate_nostr_config(NostrTransportConfig[n])
    BY NamesOfConstructors DEF NostrTransportConfig, validate_nostr_config, Within

LEMMA LimitsValid ==
    ASSUME NEW n \in DOMAIN LimitsConfig
    PROVE  validate_limits_config(LimitsConfig[n])
    BY NamesOfConstructors DEF LimitsConfig, validate_limits_config

LEMMA OwnIsValid ==
    ASSUME NEW c, \A s \in Section : Filled(c, s), OwnSections(c)
    PROVE  validate(c)
<1>1. \A s \in Section \ {"test"} : c[s] \in Constructors(s)
    BY DEF Filled, OwnSections
<1>2. /\ c["channels"] \in DOMAIN ChannelConfig
      /\ c["delivery"] \in DOMAIN DeliveryConfig
      /\ c["session"] \in DOMAIN SessionConfig
      /\ c["ble"] \in DOMAIN BleTransportConfig
      /\ c["nostr"] \in DOMAIN NostrTransportConfig
      /\ c["limits"] \in DOMAIN LimitsConfig
      /\ c["monitoring"] \in DOMAIN MonitoringConfig
    BY <1>1, PartsOfSections DEF Section
<1>3. /\ DeliveryOf(c) = DeliveryConfig[c["delivery"]]
      /\ SessionOf(c) = SessionConfig[c["session"]]
      /\ BleOf(c) = BleTransportConfig[c["ble"]]
    BY <1>2 DEF InTables, DeliveryOf, SessionOf, BleOf
<1>4. \A b \in Range(ChannelConfig[c["channels"]]) : b # 0
    BY <1>2, ChannelsValid
<1>5. /\ DeliveryOf(c).max_retries # 0 /\ DeliveryOf(c).backoff_multiplier > 10
      /\ DeliveryOf(c).initial_retry_delay <= DeliveryOf(c).max_retry_delay
    BY <1>2, <1>3, DeliveryValid
<1>6. SessionOf(c).max_concurrent_sessions # 0
      /\ SessionOf(c).handshake_timeout <= SessionOf(c).idle_timeout
    BY <1>2, <1>3, SessionValid
<1>7. /\ validate_ble_config(BleOf(c))
      /\ validate_nostr_config(NostrTransportConfig[c["nostr"]])
      /\ validate_limits_config(LimitsConfig[c["limits"]])
    BY <1>2, <1>3, BleValid, NostrValid, LimitsValid
<1>8. /\ MonitoringConfig[c["monitoring"]].max_comm_events # 0
      /\ MonitoringConfig[c["monitoring"]].max_performance_samples # 0
    BY <1>2, MonitoringValid
<1> QED BY <1>4, <1>5, <1>6, <1>7, <1>8 DEF validate

\* A configuration: each of the sections holds what it may.
AllFilled(c) == DOMAIN c = Section /\ c = [s \in Section |-> c[s]] /\ \A s \in Section : Filled(c, s)

\* Setting one section to one of its constructors.
LEMMA SetFilled ==
    ASSUME NEW c, AllFilled(c), NEW t \in Section, NEW n \in Constructors(t) \cup Custom(t)
    PROVE  AllFilled([c EXCEPT ![t] = n])
    BY DEF AllFilled, Filled

LEMMA CanonicalFilled == AllFilled(canonical)
<1> QED BY PartsOfSections, NamesOfConstructors
    DEF AllFilled, Filled, canonical, Section, TimingConfig, UiConfig, MessageStoreConfig,
        RateLimitConfig

LEMMA TestingFilled == AllFilled(testing)
<1> QED BY PartsOfSections, NamesOfConstructors
    DEF AllFilled, Filled, testing, Section, TimingConfig, UiConfig, MessageStoreConfig,
        RateLimitConfig, TestConfig

LEMMA SpecialisedFilled ==
    /\ AllFilled(browser_optimized) /\ AllFilled(server_optimized)
    /\ AllFilled(mobile_optimized) /\ AllFilled(high_security)
<1>1. /\ {"browser_optimized", "high_memory", "low_memory"} \subseteq Constructors("channels")
      /\ {"conservative", "aggressive"} \subseteq Constructors("delivery")
      /\ {"low_memory", "high_capacity"} \subseteq Constructors("message_store")
      /\ {"low_latency", "high_security"} \subseteq Constructors("session")
      /\ {"minimal", "detailed"} \subseteq Constructors("monitoring")
      /\ {"permissive", "strict"} \subseteq Constructors("rate_limiting")
      /\ "battery_optimized" \in Constructors("ble")
      /\ "low_memory" \in Constructors("limits")
    BY PartsOfSections, NamesOfConstructors DEF MessageStoreConfig, RateLimitConfig
<1>2. AllFilled(browser_optimized)
    BY <1>1, CanonicalFilled DEF AllFilled, Filled, browser_optimized
<1>3. AllFilled(server_optimized)
    BY <1>1, CanonicalFilled DEF AllFilled, Filled, server_optimized
<1>4. AllFilled(mobile_optimized)
    BY <1>1, CanonicalFilled DEF AllFilled, Filled, mobile_optimized
<1>5. AllFilled(high_security)
    BY <1>1, CanonicalFilled DEF AllFilled, Filled, high_security
<1> QED BY <1>2, <1>3, <1>4, <1>5

LEMMA PresetFilled ==
    ASSUME NEW c, AllFilled(c), NEW p \in ConfigPreset
    PROVE  AllFilled(with_preset(c, p))
<1>1. /\ apply_to_ble_config(p) \in Constructors("ble")
      /\ apply_to_nostr_config(p) \in Constructors("nostr")
      /\ apply_to_limits_config(p) \in Constructors("limits")
      /\ apply_to_timing_config(p) \in Constructors("timing")
      /\ apply_to_ui_config(p) \in Constructors("ui")
    BY PartsOfSections, NamesOfConstructors
    DEF ConfigPreset, apply_to_ble_config, apply_to_nostr_config, apply_to_limits_config,
        apply_to_timing_config, apply_to_ui_config, TimingConfig, UiConfig
<1> QED BY <1>1 DEF AllFilled, Filled, with_preset

LEMMA DevelopmentFilled == AllFilled(development) /\ AllFilled(production)
<1>1. AllFilled(with_preset(canonical, "Development")) /\ AllFilled(production)
    BY CanonicalFilled, PresetFilled DEF ConfigPreset, production
<1>2. /\ "detailed" \in Constructors("monitoring") /\ "permissive" \in Constructors("rate_limiting")
      /\ "with_logging" \in Constructors("test")
    BY PartsOfSections, NamesOfConstructors DEF RateLimitConfig, TestConfig
<1> QED BY <1>1, <1>2 DEF AllFilled, Filled, development

ConfigInv ==
    /\ DOMAIN chosen = Section /\ chosen = [s \in Section |-> chosen[s]]
    /\ \A s \in Section : chosen[s] = Unset \/ Filled(chosen, s)
    /\ config = NoConfig \/ AllFilled(config)
    /\ config_accepted => config # NoConfig /\ validate(config)

LEMMA WholeIsFilled ==
    \A w \in Whole \cup {development, production, embedded} : AllFilled(w)
    BY CanonicalFilled, TestingFilled, SpecialisedFilled, DevelopmentFilled DEF Whole, embedded

LEMMA BuiltFilled ==
    ASSUME ConfigInv
    PROVE  AllFilled(Built)
<1>1. \A s \in Section : Filled(canonical, s)
    BY CanonicalFilled DEF AllFilled
<1> QED BY <1>1 DEF ConfigInv, AllFilled, Filled, Built

\* A configuration is never the absence of one.
LEMMA FilledIsOne ==
    ASSUME NEW c, AllFilled(c)
    PROVE  c # NoConfig
<1>1. c["nostr"] \in {"canonical", "development", "testing"} \cup Custom("nostr")
    BY PartsOfSections, NamesOfConstructors DEF AllFilled, Filled, Section
<1>2. Custom("nostr") = {}
    BY DEF Custom
<1>3. NoConfig["nostr"] = Unset
    BY DEF NoConfig, Section
<1> QED BY <1>1, <1>2, <1>3 DEF Unset

LEMMA ConfigStep == ConfigInv /\ [ConfigNext]_configVars => ConfigInv'
<1> SUFFICES ASSUME ConfigInv, [ConfigNext]_configVars PROVE ConfigInv'
    OBVIOUS
<1>1. ASSUME NEW s \in Section, NEW n \in Constructors(s) \cup Custom(s), builder_section(s, n)
      PROVE  ConfigInv'
    BY <1>1 DEF ConfigInv, builder_section, Filled
<1>2. ASSUME NEW s \in Section, NEW n \in Constructors(s) \cup Custom(s), with_section(s, n)
      PROVE  ConfigInv'
    BY <1>2, SetFilled DEF ConfigInv, with_section
<1>3. ASSUME NEW w \in Whole, builder_preset(w) PROVE ConfigInv'
    BY <1>3, WholeIsFilled DEF ConfigInv, builder_preset, AllFilled, Filled
<1>4. ASSUME NEW w \in Whole \cup {development, production, embedded}, from_whole(w) PROVE ConfigInv'
    BY <1>4, WholeIsFilled DEF ConfigInv, from_whole
<1>5. ASSUME NEW p \in ConfigPreset, use_preset(p) PROVE ConfigInv'
    BY <1>5, PresetFilled DEF ConfigInv, use_preset
<1>6. CASE build
    BY <1>6, BuiltFilled, FilledIsOne DEF ConfigInv, build
<1>7. CASE build_unchecked
    BY <1>7, BuiltFilled DEF ConfigInv, build_unchecked
<1>8. CASE validate_config
    BY <1>8 DEF ConfigInv, validate_config
<1>9. CASE UNCHANGED configVars
    BY <1>9 DEF ConfigInv, configVars, Filled, AllFilled
<1> QED BY <1>1, <1>2, <1>3, <1>4, <1>5, <1>6, <1>7, <1>8, <1>9 DEF ConfigNext

\* However sections, presets and whole configurations are combined, before or after
\* building: what the library's constructors give validates, and what validated has
\* room for data in a fragment (BitchatConfigBuilder, ConfigPreset, validate).
THEOREM ConfigurationsAreSound == ConfigSpec => []ConfigSound
<1>1. ConfigInit => ConfigInv
    BY DEF ConfigInit, ConfigInv, NoConfig
<1>2. ConfigInv => ConfigSound
    <2> SUFFICES ASSUME ConfigInv PROVE ConfigSound
        OBVIOUS
    <2>1. PresetsCompose
        BY OwnIsValid DEF ConfigInv, PresetsCompose, AllFilled
    <2>2. ASSUME config_accepted PROVE BleOf(config).fragment_size > FragmentHeader
        <3>1. AllFilled(config) /\ Within(BleOf(config).fragment_size, 100, 1024)
            BY <2>2 DEF ConfigInv, validate, validate_ble_config
        <3>2. config["ble"] \in DOMAIN BleTransportConfig \cup DOMAIN CustomBle
            BY <3>1, PartsOfSections DEF AllFilled, Filled, Section, Custom
        <3>3. \A n \in DOMAIN BleTransportConfig : BleTransportConfig[n].fragment_size = 469
            BY NamesOfConstructors DEF BleTransportConfig, BleCanonical
        <3>4. BleOf(config).fragment_size \in Nat
            BY <3>2, <3>3, ConfigAssumption DEF BleOf, InTables
        <3> QED BY <3>1, <3>4, ConfigAssumption DEF Within
    <2> QED BY <2>1, <2>2 DEF ConfigSound, FragmentsCarryData
<1> QED
    BY <1>1, <1>2, ConfigStep, PTL DEF ConfigSpec

-----------------------------------------------------------------------------
(* The terminal interface *)

UiInv ==
    /\ busy_operations \in [BusyOperation -> Nat]
    /\ DOMAIN ui_peers = UiPeer
    /\ recent_messages \in Seq([peer : UiPeer, direction : {"Incoming", "Outgoing"}])
    /\ discovery_active \in BOOLEAN
    /\ DiscoveryListed /\ ShownBounded

LEMMA UiInitInv == UiInit => UiInv
<1> SUFFICES ASSUME UiInit PROVE UiInv
    OBVIOUS
<1>1. busy_operations \in [BusyOperation -> Nat] /\ DiscoveryListed
    BY DEF UiInit, NothingBusy, DiscoveryListed, BusyOperation
<1>2. recent_messages = <<>> /\ ShownBounded
    BY UiConstants DEF UiInit, ShownBounded
<1>3. \A S : <<>> \in Seq(S)
    OBVIOUS
<1>4. DOMAIN ui_peers = UiPeer /\ discovery_active \in BOOLEAN
    BY DEF UiInit
<1> QED BY <1>1, <1>2, <1>3, <1>4, Zenon DEF UiInv

\* The list drops its first message when it is full.
LEMMA PushOK ==
    ASSUME UiInv, NEW p \in UiPeer, NEW d \in {"Incoming", "Outgoing"},
           PushMessage([peer |-> p, direction |-> d])
    PROVE  /\ recent_messages' \in Seq([peer : UiPeer, direction : {"Incoming", "Outgoing"}])
           /\ ShownBounded'
<1> PICK M : M = [peer : UiPeer, direction : {"Incoming", "Outgoing"}]
    OBVIOUS
<1> PICK m : m = [peer |-> p, direction |-> d]
    OBVIOUS
<1>1. m \in M /\ recent_messages \in Seq(M) /\ Len(recent_messages) <= MaxShown /\ MaxShown \in Nat
    BY UiConstants DEF UiInv, ShownBounded
<1>2. recent_messages' = IF Len(Append(recent_messages, m)) > MaxShown
                         THEN Tail(Append(recent_messages, m)) ELSE Append(recent_messages, m)
    BY DEF PushMessage
<1>3. PICK all \in Seq(M) : all = Append(recent_messages, m) /\ Len(all) = Len(recent_messages) + 1
    <2>1. Append(recent_messages, m) \in Seq(M)
        BY <1>1
    <2>2. Len(Append(recent_messages, m)) = Len(recent_messages) + 1
        BY <1>1
    <2> QED BY <2>1, <2>2
<1>4. CASE Len(all) > MaxShown
    <2>1. all # <<>> /\ recent_messages' = Tail(all)
        BY <1>1, <1>2, <1>3, <1>4
    <2>2. Tail(all) \in Seq(M) /\ Len(Tail(all)) = Len(all) - 1
        BY <2>1
    <2> QED BY <1>1, <1>3, <2>1, <2>2 DEF ShownBounded
<1>5. CASE ~(Len(all) > MaxShown)
    <2>1. recent_messages' = all /\ Len(all) \in Nat
        BY <1>2, <1>3, <1>5
    <2> QED BY <1>1, <1>5, <2>1 DEF ShownBounded
<1> QED BY <1>4, <1>5

\* What happens to one peer leaves it on the list, and the others alone.
LEMMA SetPeerOK ==
    ASSUME UiInv, NEW p \in UiPeer, NEW st, NEW seen, NEW n,
           ui_peers' = [ui_peers EXCEPT ![p] = PeerUIState(st, seen, n)] \/ ui_peers' = ui_peers
    PROVE  DOMAIN ui_peers' = UiPeer /\ ConnectedStay
<1>1. PeerUIState(st, seen, n) # NoUiPeer
    <2>1. "last_seen" \in DOMAIN PeerUIState(st, seen, n) /\ "last_seen" \notin DOMAIN NoUiPeer
        BY DEF PeerUIState, NoUiPeer
    <2> QED BY <2>1
<1>2. DOMAIN ui_peers = UiPeer
    BY DEF UiInv
<1> QED BY <1>1, <1>2 DEF ConnectedStay, Shown

LEMMA ListedOK ==
    ASSUME UiInv, NEW op \in BusyOperation \ {DiscoveryOp}, UNCHANGED discovery_active,
           busy_operations' = IF busy_operations[op] > 0 THEN busy_operations ELSE Listed(op)
    PROVE  busy_operations' \in [BusyOperation -> Nat] /\ DiscoveryListed'
    BY DEF UiInv, Listed, DiscoveryListed, BusyOperation

LEMMA UiStep ==
    ASSUME UiInv, [UiNext]_uiVars
    PROVE  UiInv' /\ ConnectedStay
<1>0. \A p \in Shown : ui_peers[p] # NoUiPeer
    BY DEF Shown
<1>1. ASSUME UNCHANGED <<discovery_active, busy_operations, recent_messages>>,
             DOMAIN ui_peers' = UiPeer, ConnectedStay
      PROVE  UiInv' /\ ConnectedStay
    BY <1>1 DEF UiInv, DiscoveryListed, ShownBounded
<1>2. ASSUME UNCHANGED ui_peers PROVE DOMAIN ui_peers' = UiPeer /\ ConnectedStay
    BY <1>0, <1>2 DEF UiInv, ConnectedStay
<1>3. ASSUME NEW p \in UiPeer, NEW d \in Nat, MessageReceived(p, ui_now + d)
      PROVE  UiInv' /\ ConnectedStay
    <2>1. DOMAIN ui_peers' = UiPeer /\ ConnectedStay
        BY <1>3, SetPeerOK DEF MessageReceived, Touch
    <2>2. UNCHANGED <<discovery_active, busy_operations>>
        BY <1>3 DEF MessageReceived
    <2>3. /\ recent_messages' \in Seq([peer : UiPeer, direction : {"Incoming", "Outgoing"}])
          /\ ShownBounded'
        BY <1>3, PushOK DEF MessageReceived
    <2> QED BY <2>1, <2>2, <2>3 DEF UiInv, DiscoveryListed
<1>4. ASSUME NEW p \in UiPeer, MessageSent(p) PROVE UiInv' /\ ConnectedStay
    <2>1. DOMAIN ui_peers' = UiPeer /\ ConnectedStay
        BY <1>4, SetPeerOK DEF MessageSent, Touch
    <2>2. UNCHANGED <<discovery_active, busy_operations>>
        BY <1>4 DEF MessageSent
    <2>3. /\ recent_messages' \in Seq([peer : UiPeer, direction : {"Incoming", "Outgoing"}])
          /\ ShownBounded'
        BY <1>4, PushOK DEF MessageSent
    <2> QED BY <2>1, <2>2, <2>3 DEF UiInv, DiscoveryListed
<1>5. ASSUME NEW p \in UiPeer, ConversationUpdated(p, 2) PROVE UiInv' /\ ConnectedStay
    <2>1. DOMAIN ui_peers' = UiPeer /\ ConnectedStay
        BY <1>5, SetPeerOK DEF ConversationUpdated, Touch
    <2> QED BY <1>1, <1>5, <2>1 DEF ConversationUpdated
<1>6. ASSUME NEW p \in UiPeer, NEW s, PeerStatusChanged(p, s) PROVE UiInv' /\ ConnectedStay
    <2>1. DOMAIN ui_peers' = UiPeer /\ ConnectedStay
        BY <1>6, SetPeerOK DEF PeerStatusChanged
    <2> QED BY <1>1, <1>6, <2>1 DEF PeerStatusChanged
<1>7. ASSUME NEW b \in BOOLEAN, DiscoveryStateChanged(b) PROVE UiInv' /\ ConnectedStay
    <2>1. busy_operations' \in [BusyOperation -> Nat] /\ DiscoveryListed'
        BY <1>7 DEF DiscoveryStateChanged, UiInv, Listed, WithoutDiscovery, DiscoveryListed, BusyOperation
    <2>2. UNCHANGED <<ui_peers, recent_messages>> /\ discovery_active' \in BOOLEAN
        BY <1>7 DEF DiscoveryStateChanged
    <2> QED BY <1>2, <2>1, <2>2 DEF UiInv, ShownBounded
<1>8. ASSUME NEW op \in {"reason", Overloaded}, Busy(op) PROVE UiInv' /\ ConnectedStay
    <2>1. op \in BusyOperation \ {DiscoveryOp}
        BY DEF BusyOperation, DiscoveryOp, Overloaded
    <2>2. busy_operations' \in [BusyOperation -> Nat] /\ DiscoveryListed'
        BY <1>8, <2>1, ListedOK DEF Busy
    <2> QED BY <1>2, <1>8, <2>2 DEF Busy, UiInv, ShownBounded
<1>9. CASE SystemBusy \/ send_command_full
    BY <1>8, <1>9 DEF SystemBusy, send_command_full
<1>10. CASE SystemError \/ ui_run \/ ui_stop \/ UiTick
    BY <1>1, <1>2, <1>10 DEF SystemError, ui_run, ui_stop, UiTick
<1>11. CASE perform_ui_maintenance
    <2>1. /\ busy_operations' = IF discovery_active THEN busy_operations ELSE WithoutDiscovery
          /\ UNCHANGED <<discovery_active, recent_messages>>
          /\ \/ ui_peers' = [p \in UiPeer |-> IF p \in Forgotten THEN NoUiPeer ELSE ui_peers[p]]
             \/ UNCHANGED ui_peers
        BY <1>11 DEF perform_ui_maintenance
    <2>2. busy_operations' \in [BusyOperation -> Nat] /\ DiscoveryListed'
        BY <2>1 DEF UiInv, WithoutDiscovery, DiscoveryListed, BusyOperation
    <2>3. DOMAIN ui_peers' = UiPeer /\ ConnectedStay
        BY <1>0, <1>2, <2>1 DEF ConnectedStay, Forgotten, Shown
    <2> QED BY <2>1, <2>2, <2>3 DEF UiInv, ShownBounded
<1>12. CASE UNCHANGED uiVars
    BY <1>1, <1>2, <1>12 DEF uiVars
<1> QED
    BY <1>3, <1>4, <1>5, <1>6, <1>7, <1>9, <1>10, <1>11, <1>12, UiConstants DEF UiNext

\* Whatever events, commands and maintenance follow one another: the discovery shown
\* is the one that is on, the list of messages keeps its limit, and no connected peer
\* is taken off the list (handle_app_event, perform_ui_maintenance).
THEOREM DisplayIsSound == UiSpec => DisplaySound
<1>1. UiInv /\ [UiNext]_uiVars => UiInv'
    BY UiStep
<1>2. UiInv /\ [UiNext]_uiVars => [DiscoveryListed' /\ ShownBounded' /\ ConnectedStay]_uiVars
    BY UiStep DEF UiInv
<1> QED
    BY <1>1, <1>2, UiInitInv, PTL DEF UiSpec, DisplaySound

-----------------------------------------------------------------------------
(* The decomposed runtime *)

StorageCommand == [kind : {"StoreMessage"}, sender : Correspondent \cup {Self}, id : Nat]
                      \cup {[kind |-> "Shutdown"]}
IngressCommand == [kind : {"SendMessage", "ConnectToPeer", "Unhandled"},
                   peer : Correspondent \cup {Self}, id : Nat]
                      \cup {[kind |-> "Shutdown"]}

\* The messages that wait for the storage task.
Queued == {storage_queue[i].id : i \in {j \in DOMAIN storage_queue : storage_queue[j].kind = "StoreMessage"}}

\* Without an abort: nothing is queued behind a Shutdown, since the task that would is
\* gone by then, and nothing is left when the storage task has gone.
QueueOrdered ==
    /\ \A i \in DOMAIN storage_queue : storage_queue[i].kind = "Shutdown" =>
           i = Len(storage_queue) /\ "ingress" \notin sup_alive
    /\ "storage" \notin sup_alive => storage_queue = <<>> /\ "ingress" \notin sup_alive
    /\ announced \subseteq answered \cup Queued

SupInv ==
    /\ message_sequence \in Nat
    /\ sup_commands \in Seq(IngressCommand)
    /\ storage_queue \in Seq(StorageCommand)
    /\ handle_state # "aborted" => QueueOrdered

\* The queues of a runtime that is not aborted.
LEMMA Appended ==
    ASSUME storage_queue \in Seq(StorageCommand), NEW c \in StorageCommand, QueueOrdered,
           "ingress" \in sup_alive, "storage" \in sup_alive, ToStorage(c), UNCHANGED answered,
           c.kind = "Shutdown" => sup_alive' = sup_alive \ {"ingress"} /\ announced' = announced,
           c.kind = "StoreMessage" => sup_alive' = sup_alive /\ announced' \subseteq announced \cup {c.id}
    PROVE  storage_queue' \in Seq(StorageCommand) /\ QueueOrdered'
<1>1. PICK q \in Seq(StorageCommand) : q = storage_queue
    OBVIOUS
<1>2. PICK n \in Nat : n = Len(q)
    OBVIOUS
<1>3. PICK r \in Seq(StorageCommand) : r = Append(q, c)
    <2>1. Append(q, c) \in Seq(StorageCommand)
        OBVIOUS
    <2> QED BY <2>1
<1>4. Len(r) = n + 1 /\ r[n + 1] = c /\ DOMAIN r = 1 .. n + 1 /\ \A i \in 1 .. n : r[i] = q[i]
    BY <1>2, <1>3
<1>5. storage_queue' = r /\ DOMAIN q = 1 .. n
    BY <1>1, <1>2, <1>3 DEF ToStorage
<1>6. \A i \in 1 .. n : q[i].kind # "Shutdown"
    BY <1>1, <1>5 DEF QueueOrdered
<1>7. \A i \in DOMAIN r : r[i].kind = "Shutdown" => i = Len(r) /\ "ingress" \notin sup_alive'
    BY <1>4, <1>6
<1>8. c.kind \in {"StoreMessage", "Shutdown"}
    BY DEF StorageCommand
<1>9. "storage" \in sup_alive'
    BY <1>8
<1>10. Queued \subseteq Queued' /\ (c.kind = "StoreMessage" => c.id \in Queued')
    <2>1. ASSUME NEW i \in DOMAIN q, q[i].kind = "StoreMessage"
          PROVE  q[i].id \in Queued'
        <3>1. i \in DOMAIN r /\ r[i] = q[i]
            BY <1>4, <1>5
        <3> QED BY <1>5, <2>1, <3>1 DEF Queued
    <2>2. c.kind = "StoreMessage" => c.id \in Queued'
        BY <1>4, <1>5 DEF Queued
    <2> QED BY <1>1, <2>1, <2>2 DEF Queued
<1>11. announced' \subseteq answered' \cup Queued'
    BY <1>8, <1>10 DEF QueueOrdered
<1> QED BY <1>5, <1>7, <1>9, <1>11 DEF QueueOrdered

\* The storage task takes the first command.
LEMMA Taken ==
    ASSUME storage_queue \in Seq(StorageCommand), storage_queue # <<>>, QueueOrdered,
           storage_queue' = Tail(storage_queue), announced' = announced,
           \/ /\ Head(storage_queue).kind = "Shutdown"
              /\ sup_alive' = sup_alive \ {"storage"} /\ answered' = answered
           \/ /\ Head(storage_queue).kind # "Shutdown" /\ sup_alive' = sup_alive
              /\ "storage" \in sup_alive
              /\ answered' = answered \cup {Head(storage_queue).id}
    PROVE  QueueOrdered'
<1>1. PICK q \in Seq(StorageCommand) : q = storage_queue
    OBVIOUS
<1>2. PICK n \in Nat : n + 1 = Len(q)
    BY <1>1
<1>3. PICK r \in Seq(StorageCommand) : r = Tail(q)
    BY <1>1
<1>4. Len(r) = n /\ DOMAIN r = 1 .. n /\ \A i \in 1 .. n : r[i] = q[i + 1]
    BY <1>1, <1>2, <1>3
<1>5. storage_queue' = r /\ DOMAIN q = 1 .. n + 1 /\ Head(q) = q[1]
    BY <1>1, <1>2, <1>3
<1>6. \A i \in 1 .. n + 1 : q[i].kind = "Shutdown" => i = n + 1 /\ "ingress" \notin sup_alive
    BY <1>1, <1>2, <1>5 DEF QueueOrdered
<1>7. "ingress" \in sup_alive' => "ingress" \in sup_alive
    OBVIOUS
<1>8. ASSUME NEW i \in DOMAIN r, r[i].kind = "Shutdown" PROVE i = Len(r) /\ "ingress" \notin sup_alive'
    <2>1. i + 1 \in 1 .. n + 1 /\ q[i + 1].kind = "Shutdown"
        BY <1>4, <1>8
    <2>2. i + 1 = n + 1 /\ "ingress" \notin sup_alive
        BY <1>6, <2>1
    <2>3. i = n
        BY <1>4, <2>2
    <2> QED BY <1>4, <1>7, <2>2, <2>3
<1>9. q[1].kind = "Shutdown" => n = 0 /\ "ingress" \notin sup_alive
    <2>1. 1 \in 1 .. n + 1
        OBVIOUS
    <2>2. q[1].kind = "Shutdown" => 1 = n + 1 /\ "ingress" \notin sup_alive
        BY <1>6, <2>1
    <2> QED BY <2>2
<1>10. "storage" \notin sup_alive' => r = <<>> /\ "ingress" \notin sup_alive'
    <2>1. "storage" \notin sup_alive' => q[1].kind = "Shutdown"
        BY <1>1, <1>5
    <2>2. n = 0 => r = <<>>
        BY <1>4
    <2> QED BY <1>7, <1>9, <2>1, <2>2
<1>11. announced' \subseteq answered' \cup Queued'
    <2> SUFFICES ASSUME NEW i \in DOMAIN q, q[i].kind = "StoreMessage"
                 PROVE  q[i].id \in answered' \cup Queued'
        BY <1>1 DEF QueueOrdered, Queued
    <2>1. CASE i = 1
        BY <1>1, <1>5, <2>1
    <2>2. CASE i # 1
        <3>1. i - 1 \in 1 .. n /\ i - 1 + 1 = i
            BY <1>5, <2>2
        <3>2. i - 1 \in DOMAIN r /\ r[i - 1] = q[i]
            BY <1>4, <3>1
        <3> QED BY <1>5, <3>2 DEF Queued
    <2> QED BY <2>1, <2>2
<1> QED BY <1>5, <1>8, <1>10, <1>11 DEF QueueOrdered

LEMMA SupInitInv == SupInit => SupInv
<1> SUFFICES ASSUME SupInit PROVE SupInv
    OBVIOUS
<1>1. storage_queue = <<>> /\ sup_commands = <<>> /\ sup_alive = SupTask /\ announced = {}
    BY DEF SupInit
<1>2. QueueOrdered
    BY <1>1 DEF QueueOrdered, SupTask
<1>3. \A S : <<>> \in Seq(S)
    OBVIOUS
<1>4. message_sequence \in Nat
    BY DEF SupInit
<1> QED BY <1>1, <1>2, <1>3, <1>4, Zenon DEF SupInv

LEMMA IngressOK ==
    ASSUME SupInv, NEW allowed, ingress_command(allowed)
    PROVE  SupInv'
<1>1. PICK c \in IngressCommand : c = Head(sup_commands)
    BY DEF SupInv, ingress_command
<1>2. sup_commands' \in Seq(IngressCommand) /\ UNCHANGED <<message_sequence, answered, handle_state>>
    BY DEF SupInv, ingress_command
<1>3. "ingress" \in sup_alive /\ storage_queue \in Seq(StorageCommand) /\ message_sequence \in Nat
    BY DEF SupInv, ingress_command
<1>4. ASSUME UNCHANGED <<sup_alive, storage_queue, announced>> PROVE SupInv'
    BY <1>2, <1>3, <1>4 DEF SupInv, QueueOrdered, Queued
<1>5. CASE c.kind = "SendMessage" /\ HandleSend(c)
    <2>1. CASE UNCHANGED <<storage_queue, announced>>
        BY <1>4, <1>5, <2>1 DEF HandleSend
    <2>2. CASE ~UNCHANGED <<storage_queue, announced>>
        <3>1. PICK s : s = [kind |-> "StoreMessage", sender |-> Self, id |-> c.id]
            OBVIOUS
        <3>2. /\ "storage" \in sup_alive /\ ToStorage(s) /\ UNCHANGED sup_alive
              /\ SupAppEvent({c.id})
            BY <1>5, <2>2, <3>1 DEF HandleSend
        <3>3. s \in StorageCommand /\ s.kind = "StoreMessage" /\ s.id = c.id
            BY <1>1, <1>5, <3>1 DEF StorageCommand, IngressCommand
        <3>4. announced' \subseteq announced \cup {s.id}
            BY <3>2, <3>3 DEF SupAppEvent
        <3>5. storage_queue' \in Seq(StorageCommand)
            BY <1>3, <3>2, <3>3 DEF ToStorage
        <3>6. QueueOrdered => QueueOrdered'
            BY <1>2, <1>3, <3>2, <3>3, <3>4, Appended
        <3> QED BY <1>2, <1>3, <3>5, <3>6 DEF SupInv
    <2> QED BY <2>1, <2>2
<1>6. CASE c.kind = "Shutdown" /\ HandleShutdown
    <2>1. CASE "storage" \in sup_alive
        <3>1. PICK s : s = [kind |-> "Shutdown"]
            OBVIOUS
        <3>2. ToStorage(s) /\ sup_alive' = sup_alive \ {"ingress"} /\ announced' = announced
            BY <1>6, <2>1, <3>1 DEF HandleShutdown
        <3>3. s \in StorageCommand /\ s.kind = "Shutdown"
            BY <3>1 DEF StorageCommand
        <3>5. storage_queue' \in Seq(StorageCommand)
            BY <1>3, <3>2, <3>3 DEF ToStorage
        <3>6. QueueOrdered => QueueOrdered'
            BY <1>2, <1>3, <2>1, <3>2, <3>3, Appended
        <3> QED BY <1>2, <1>3, <3>5, <3>6 DEF SupInv
    <2>2. CASE "storage" \notin sup_alive
        <3>1. /\ UNCHANGED <<storage_queue, announced>> /\ sup_alive' = sup_alive \ {"ingress"}
            BY <1>6, <2>2 DEF HandleShutdown
        <3> QED BY <1>2, <1>3, <3>1 DEF SupInv, QueueOrdered, Queued
    <2> QED BY <2>1, <2>2
<1>7. \/ c.kind = "SendMessage" /\ HandleSend(c)
      \/ c.kind = "Shutdown" /\ HandleShutdown
      \/ UNCHANGED <<sup_alive, storage_queue, announced>>
    BY <1>1 DEF ingress_command
<1> QED BY <1>4, <1>5, <1>6, <1>7

LEMMA IngressEventOK ==
    ASSUME SupInv, NEW p \in Correspondent, NEW kind, ingress_event(p, kind)
    PROVE  SupInv'
<1>1. /\ "ingress" \in sup_alive /\ UNCHANGED <<sup_commands, sup_alive, answered, handle_state>>
      /\ message_sequence' = message_sequence + 1
    BY DEF ingress_event
<1>2. storage_queue \in Seq(StorageCommand) /\ message_sequence \in Nat /\ message_sequence' \in Nat
    BY <1>1 DEF SupInv
<1>3. announced' = announced
    BY DEF ingress_event, SupAppEvent
<1>4. CASE UNCHANGED storage_queue
    BY <1>1, <1>2, <1>3, <1>4 DEF SupInv, QueueOrdered, Queued
<1>5. CASE ~UNCHANGED storage_queue
    <2>1. PICK s : s = [kind |-> "StoreMessage", sender |-> p, id |-> message_sequence']
        OBVIOUS
    <2>2. "storage" \in sup_alive /\ ToStorage(s)
        BY <1>5, <2>1 DEF ingress_event
    <2>3. s \in StorageCommand /\ s.kind = "StoreMessage"
        BY <1>2, <2>1 DEF StorageCommand
    <2>5. storage_queue' \in Seq(StorageCommand)
        BY <1>2, <2>2, <2>3 DEF ToStorage
    <2>6. QueueOrdered => QueueOrdered'
        BY <1>1, <1>2, <1>3, <2>2, <2>3, Appended
    <2> QED BY <1>1, <1>2, <2>5, <2>6 DEF SupInv
<1> QED BY <1>4, <1>5

LEMMA SupStep == SupInv /\ [SupNext]_supVars => SupInv'
<1> SUFFICES ASSUME SupInv, [SupNext]_supVars PROVE SupInv'
    OBVIOUS
<1>1. ASSUME UNCHANGED <<storage_queue, sup_alive, answered, announced>>, handle_state' # "aborted",
             sup_commands' \in Seq(IngressCommand), message_sequence' \in Nat,
             handle_state # "aborted"
      PROVE  SupInv'
    BY <1>1 DEF SupInv, QueueOrdered, Queued
<1>2. ASSUME UNCHANGED <<storage_queue, sup_alive, answered, announced, handle_state>>,
             sup_commands' \in Seq(IngressCommand), message_sequence' \in Nat
      PROVE  SupInv'
    BY <1>2 DEF SupInv, QueueOrdered, Queued
<1>3. sup_commands \in Seq(IngressCommand) /\ message_sequence \in Nat
      /\ storage_queue \in Seq(StorageCommand)
    BY DEF SupInv
<1>4. ASSUME NEW c \in Sendable, send_command(c) PROVE SupInv'
    <2>1. PICK d : d = [kind |-> c.kind, peer |-> c.peer, id |-> message_sequence']
        OBVIOUS
    <2>2. /\ sup_commands' = Append(sup_commands, d) /\ message_sequence' = message_sequence + 1
          /\ UNCHANGED <<storage_queue, sup_alive, answered, announced, handle_state>>
        BY <1>4, <2>1 DEF send_command
    <2>3. d \in IngressCommand /\ message_sequence' \in Nat
        BY <1>3, <2>1, <2>2 DEF IngressCommand, Sendable
    <2>4. sup_commands' \in Seq(IngressCommand)
        BY <1>3, <2>2, <2>3
    <2> QED BY <1>2, <2>2, <2>3, <2>4
<1>5. CASE take_app_event \/ session_command \/ perform_health_check \/ SupTick
    <2>1. CASE session_command
        <3>1. /\ UNCHANGED <<sup_commands, storage_queue, message_sequence, answered, announced, handle_state>>
              /\ sup_alive' \in {sup_alive, sup_alive \ {"session"}}
            BY <2>1 DEF session_command
        <3> QED BY <3>1 DEF SupInv, QueueOrdered, Queued
    <2> QED BY <1>2, <1>3, <1>5, <2>1 DEF take_app_event, perform_health_check, SupTick
<1>6. CASE storage_command
    <2>1. /\ "storage" \in sup_alive /\ storage_queue # <<>>
          /\ storage_queue' = Tail(storage_queue)
          /\ UNCHANGED <<sup_commands, message_sequence, announced, handle_state>>
          /\ \/ /\ Head(storage_queue).kind = "Shutdown"
                /\ sup_alive' = sup_alive \ {"storage"} /\ answered' = answered
             \/ /\ Head(storage_queue).kind # "Shutdown" /\ sup_alive' = sup_alive
                /\ answered' = answered \cup {Head(storage_queue).id}
        BY <1>6 DEF storage_command, StorageShutdown
    <2>2. storage_queue' \in Seq(StorageCommand)
        BY <1>3, <2>1
    <2>3. QueueOrdered => QueueOrdered'
        BY <1>3, <2>1, Taken
    <2> QED BY <1>3, <2>1, <2>2, <2>3 DEF SupInv
<1>7. CASE sup_shutdown
    <2>1. PICK d : d = [kind |-> "Shutdown"]
        OBVIOUS
    <2>2. /\ handle_state = "running" /\ handle_state' = "closing"
          /\ sup_commands' = Append(sup_commands, d) \/ sup_commands' = sup_commands
          /\ UNCHANGED <<storage_queue, sup_alive, message_sequence, answered, announced>>
        BY <1>7, <2>1 DEF sup_shutdown
    <2>3. d \in IngressCommand
        BY <2>1 DEF IngressCommand
    <2>4. sup_commands' \in Seq(IngressCommand)
        BY <1>3, <2>2, <2>3
    <2> QED BY <1>1, <1>3, <2>2, <2>4
<1>8. CASE handle_shut
    BY <1>1, <1>3, <1>8 DEF handle_shut
<1>9. CASE supervisor_shutdown
    <2>1. PICK s : s = [kind |-> "Shutdown"]
        OBVIOUS
    <2>2. /\ handle_state' = "aborted" /\ storage_queue' = Append(storage_queue, s)
          /\ UNCHANGED <<sup_commands, message_sequence>>
        BY <1>9, <2>1 DEF supervisor_shutdown, ToStorage
    <2>3. s \in StorageCommand
        BY <2>1 DEF StorageCommand
    <2>4. storage_queue' \in Seq(StorageCommand)
        BY <1>3, <2>2, <2>3
    <2> QED BY <1>3, <2>2, <2>4 DEF SupInv
<1>10. CASE UNCHANGED supVars
    BY <1>2, <1>3, <1>10 DEF supVars
<1>11. ASSUME NEW ch, channel_closes(ch) PROVE SupInv'
    BY <1>2, <1>3, <1>11 DEF channel_closes
<1>12. CASE ingress_closed
    <2>1. /\ UNCHANGED <<sup_commands, storage_queue, message_sequence, answered, announced, handle_state>>
          /\ sup_alive' = sup_alive \ {"ingress"}
        BY <1>12 DEF ingress_closed
    <2> QED BY <2>1 DEF SupInv, QueueOrdered, Queued
<1> QED
    BY <1>4, <1>5, <1>6, <1>7, <1>8, <1>9, <1>10, <1>11, <1>12, IngressOK, IngressEventOK DEF SupNext

\* A message the user was told is sent has been taken and answered by the storage task
\* before that task stops, unless the task set was aborted past its queues: Shutdown
\* comes last (MessageIngressTask, StorageDeliveryTask).
THEOREM AnnouncedAreAnswered == SupSpec => []AnnouncedAnswered
<1>1. SupInv => AnnouncedAnswered
    <2> SUFFICES ASSUME SupInv, handle_state # "aborted", "storage" \notin sup_alive
                 PROVE  announced \subseteq answered
        BY DEF AnnouncedAnswered
    <2>1. storage_queue = <<>> /\ announced \subseteq answered \cup Queued
        BY DEF SupInv, QueueOrdered
    <2>2. Queued = {}
        BY <2>1 DEF Queued
    <2> QED BY <2>1, <2>2
<1> QED
    BY <1>1, SupInitInv, SupStep, PTL DEF SupSpec

-----------------------------------------------------------------------------
(* RuntimeLifecycle *)

\* The application's sender leads to the core task whose handle the runtime keeps, through
\* failed starts, stops and restarts (runtime.rs, start, stop and Drop).
THEOREM SenderFeedsItsCore == RtSpec => []SenderFeedsCore
<1>1. RtInit => SenderFeedsCore
    BY DEF RtInit, SenderFeedsCore
<1>2. SenderFeedsCore /\ [RtNext]_rtVars => SenderFeedsCore'
    <2> SUFFICES ASSUME SenderFeedsCore, [RtNext]_rtVars
                 PROVE  SenderFeedsCore'
        OBVIOUS
    <2>1. ASSUME NEW t \in TransportKind, NEW a \in BOOLEAN, add_transport(t, a)
          PROVE  SenderFeedsCore'
        BY <2>1 DEF add_transport, SenderFeedsCore
    <2>2. ASSUME NEW ok \in BOOLEAN, start(ok)
          PROVE  SenderFeedsCore'
        BY <2>2 DEF start, SenderFeedsCore
    <2>3. CASE stop
        BY <2>3 DEF stop, SenderFeedsCore
    <2>4. CASE rt_drop
        BY <2>4 DEF rt_drop, SenderFeedsCore
    <2>5. CASE clone_sender
        BY <2>5 DEF clone_sender, SenderFeedsCore
    <2>6. ASSUME NEW n \in 1 .. MaxStarts, release_sender(n) \/ core_ends(n)
          PROVE  SenderFeedsCore'
        BY <2>6 DEF release_sender, core_ends, SenderFeedsCore
    <2>7. ASSUME NEW x \in TransportKind \X (1 .. MaxStarts), transport_ends(x)
          PROVE  SenderFeedsCore'
        BY <2>7 DEF transport_ends, SenderFeedsCore
    <2>8. CASE UNCHANGED rtVars
        BY <2>8 DEF rtVars, SenderFeedsCore
    <2> QED
        BY <2>1, <2>2, <2>3, <2>4, <2>5, <2>6, <2>7, <2>8 DEF RtNext
<1> QED
    BY <1>1, <1>2, PTL DEF RtSpec
=============================================================================
