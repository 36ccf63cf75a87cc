------------------------------- MODULE CoreLogic -------------------------------
(***************************************************************************)
(* The tasks of a running BitChat node and the four channels between them: *)
(* the CoreLogicTask with its command and event handlers (bitchat-runtime, *)
(* logic/task.rs and logic/handlers.rs), the BLE and Nostr transport loops *)
(* (bitchat-ble and bitchat-nostr, transport.rs), and the terminal         *)
(* interface (bitchat-cli, terminal_interface.rs).                         *)
(*                                                                         *)
(*   commands    UI -> core          bounded, try_send (refused when full) *)
(*   events      transports -> core  bounded; BLE waits, Nostr drops       *)
(*   effects     core -> transports  broadcast ring; the oldest is lost    *)
(*   app events  core -> UI          bounded, the core waits               *)
(*                                                                         *)
(* The audit trail, the statistics and the message store are written and   *)
(* never read by these handlers (the store may refuse a message); payloads *)
(* and timestamps are left out.                                            *)
(***************************************************************************)
EXTENDS ConnectionState, Sequences, FiniteSets

CONSTANTS
    Peer,                  \* remote peers
    EstablishedSessions,   \* peers with an established session in session_manager
    UICommand,             \* the commands the user gives (a subset of Command)
    BleInput, NostrInput,  \* what the radios hand in: sequences of events
    CommandCap, EventCap, EffectCap, AppEventCap,   \* ChannelConfig
    MaxCommands, MaxInputs \* bounds: commands given, inputs handed in

NoConnection == [name |-> "None"]

Command ==
       [kind : {"SendMessage", "ConnectToPeer", "DisconnectFromPeer"}, peer_id : Peer]
  \cup [kind : {"PauseTransport", "ResumeTransport"}, transport : TransportType]
  \cup [kind : {"StartDiscovery", "StopDiscovery", "Query", "Shutdown"}]

PeerEventKind == {"PeerDiscovered", "MessageReceived", "BitchatPacketReceived",
                  "ConnectionEstablished", "ConnectionLost"}

Event ==
       [kind : PeerEventKind, peer_id : Peer, transport : TransportType]
  \cup [kind : {"TransportError", "TransportNotice"}, transport : TransportType]

ASSUME CoreAssumption ==
    /\ EstablishedSessions \subseteq Peer
    /\ UICommand \subseteq Command
    /\ BleInput \subseteq Seq(Event) /\ NostrInput \subseteq Seq(Event)
    /\ \A in \in BleInput : \A i \in DOMAIN in : in[i].transport = "Ble"
    /\ \A in \in NostrInput : \A i \in DOMAIN in : in[i].transport = "Nostr"
    /\ {CommandCap, EventCap, EffectCap, AppEventCap} \subseteq Nat \ {0}
    /\ {MaxCommands, MaxInputs} \subseteq Nat

VARIABLES
    connections,  \* CoreState.connections
    running,      \* CoreLogicTask.running
    ended,        \* the core task has returned and dropped its channel ends
    outbox,       \* app events the handler returned and the core has yet to send
    commands, events, app_events,   \* the mpsc channels
    effects,      \* effects[t]: what t's subscription still holds
    lagged,       \* lagged[t]: the ring overwrote something t had not read
    alive,        \* alive[t]: the transport loop runs
    ble_out,      \* events the BLE loop is sending (it waits for room)
    nostr_out,    \* events Nostr's notification task is forwarding
    ui_open,      \* the UI still holds its ends of the channels
    given,        \* ghost: commands the command channel accepted
    inputs,       \* ghost: inputs handed in so far
    ble_due,      \* ghost: events the BLE loop produced and the core has not taken
    missed        \* ghost: missed[t]: some effect never reached t

vars == <<connections, running, ended, outbox, commands, events, app_events, effects,
          lagged, alive, ble_out, nostr_out, ui_open, given, inputs, ble_due, missed>>

core == <<connections, running, ended, outbox>>
transports == <<alive, ble_out, nostr_out, inputs>>
ui == <<ui_open, given>>

-----------------------------------------------------------------------------
(* Messages *)

Effect(kind, t) == [kind |-> kind, transport |-> t]
ToBoth(kind) == <<Effect(kind, "Ble"), Effect(kind, "Nostr")>>

Status(p, s) == [kind |-> "PeerStatusChanged", peer_id |-> p, status |-> s]
Notice(kind) == [kind |-> kind]

Known(p) == connections[p] # NoConnection
StateOf(p) == IF Known(p) THEN connections[p] ELSE new_disconnected

\* What a handler does: the connection map, and the effects and the app events
\* it returns.
Result(conns, effs, apps) == [connections |-> conns, effects |-> effs, app_events |-> apps]

Unchanged(effs, apps) == Result(connections, effs, apps)

\* transition() and apply_state_transition: on an error the peer's entry,
\* already taken out of the map, becomes what the handler puts back.
Apply(p, e, putBack) ==
    [connections EXCEPT ![p] =
        IF MayTransition(StateOf(p), e) THEN NewState(StateOf(p), e, 0) ELSE putBack]

ApplyIfKnown(p, e, putBack) == IF Known(p) THEN Apply(p, e, putBack) ELSE connections

-----------------------------------------------------------------------------
(* Command handlers *)

handle_send_message(p) ==
    IF ~Known(p) \/ ~can_send_messages(connections[p]) \/ p \notin EstablishedSessions
    THEN Unchanged(<<>>, <<Notice("SystemError")>>)
    ELSE Unchanged(<<Effect("SendPacket", connections[p].transport)>>,
                   <<Notice("MessageSent")>>)

DiscoverPeer == [kind |-> "StartDiscovery", timeout_seconds |-> 60]

\* "Effects handled by transition": the ones it returned go no further, here and
\* in every other handler.
handle_connect_to_peer(p) ==
    Result(Apply(p, DiscoverPeer, NoConnection), <<>>,
           IF MayTransition(StateOf(p), DiscoverPeer) THEN <<>> ELSE <<Notice("SystemError")>>)

handle_start_discovery ==
    Unchanged(ToBoth("StartTransportDiscovery"), <<Notice("DiscoveryStateChanged")>>)

handle_stop_discovery ==
    Unchanged(ToBoth("StopTransportDiscovery"), <<Notice("DiscoveryStateChanged")>>)

handle_disconnect_from_peer(p) ==
    Result(ApplyIfKnown(p, Plain("Disconnect"), NoConnection), <<>>,
           <<Status(p, "Disconnected")>>)

handle_shutdown == Unchanged(ToBoth("StopListening"), <<>>)

\* process_command's match.
CommandResult(c) ==
    CASE c.kind = "SendMessage" -> handle_send_message(c.peer_id)
      [] c.kind = "ConnectToPeer" -> handle_connect_to_peer(c.peer_id)
      [] c.kind = "StartDiscovery" -> handle_start_discovery
      [] c.kind = "StopDiscovery" -> handle_stop_discovery
      [] c.kind = "DisconnectFromPeer" -> handle_disconnect_from_peer(c.peer_id)
      [] c.kind \in {"PauseTransport", "ResumeTransport"} ->
            Unchanged(<<Effect(c.kind, c.transport)>>, <<>>)
      [] c.kind = "Query" -> Unchanged(<<>>, <<Notice("Report")>>)
      [] c.kind = "Shutdown" -> handle_shutdown

-----------------------------------------------------------------------------
(* Event handlers *)

Discovered(t) == [kind |-> "PeerDiscovered", transport |-> t]

handle_peer_discovered(p, t) ==
    Result(Apply(p, Discovered(t), new_disconnected), <<>>, <<Status(p, "Discovering")>>)

\* handle_message_received and handle_bitchat_packet_received: activity first,
\* then the store, which may refuse the message and end the handler.
handle_message_received(p, stored) ==
    Result(ApplyIfKnown(p, Plain("ActivityDetected"), new_disconnected), <<>>,
           IF stored THEN <<Notice("MessageReceived")>> ELSE <<>>)

handle_connection_established(p) ==
    Result(ApplyIfKnown(p, Plain("ConnectionEstablished"), new_disconnected), <<>>,
           <<Status(p, "Connected")>>)

handle_connection_lost(p) ==
    Result(ApplyIfKnown(p, Plain("ConnectionLost"), new_disconnected), <<>>,
           <<Status(p, "Error")>>)

\* The rate limiter may refuse these before their handler runs.
Limited == {"MessageReceived", "BitchatPacketReceived", "ConnectionEstablished"}

\* process_event's match: the results an event may have.
EventResults(e) ==
    (IF e.kind \in Limited THEN {Unchanged(<<>>, <<>>)} ELSE {})
    \cup
    CASE e.kind = "PeerDiscovered" -> {handle_peer_discovered(e.peer_id, e.transport)}
      [] e.kind \in {"MessageReceived", "BitchatPacketReceived"} ->
            {handle_message_received(e.peer_id, stored) : stored \in BOOLEAN}
      [] e.kind = "ConnectionEstablished" -> {handle_connection_established(e.peer_id)}
      [] e.kind = "ConnectionLost" -> {handle_connection_lost(e.peer_id)}
      [] e.kind = "TransportError" -> {Unchanged(<<>>, <<Notice("SystemError")>>)}
      [] e.kind = "TransportNotice" -> {Unchanged(<<>>, <<>>)}

-----------------------------------------------------------------------------
(* The core task *)

Listening == {t \in TransportType : alive[t]}

\* What a subscription of the broadcast ring still holds of the queue q.
Kept(q) == IF Len(q) > EffectCap THEN SubSeq(q, Len(q) - EffectCap + 1, Len(q)) ELSE q

\* send_effect for each effect: the broadcast never waits. A subscription that
\* is full loses its oldest entries. Without a subscriber the send fails and
\* the app events of the same result are never sent.
Publish(r) ==
    IF r.effects # <<>> /\ Listening = {}
    THEN /\ outbox' = <<>>
         /\ UNCHANGED <<effects, lagged, missed>>
    ELSE LET all(t) == effects[t] \o r.effects
         IN  /\ effects' = [t \in TransportType |-> IF alive[t] THEN Kept(all(t)) ELSE <<>>]
             /\ lagged' = [t \in TransportType |->
                              lagged[t] \/ (alive[t] /\ Len(all(t)) > EffectCap)]
             /\ missed' = [t \in TransportType |-> missed[t] \/ lagged'[t]]
             /\ outbox' = r.app_events

Conclude(r) ==
    /\ connections' = r.connections
    /\ Publish(r)

Ready == running /\ ~ended /\ outbox = <<>>

CoreCommand ==
    /\ Ready /\ commands # <<>>
    /\ Conclude(CommandResult(Head(commands)))
    /\ commands' = Tail(commands)
    /\ running' = (Head(commands).kind # "Shutdown")
    /\ UNCHANGED <<ended, events, app_events, ble_due>>
    /\ UNCHANGED transports /\ UNCHANGED ui

CoreEvent ==
    /\ Ready /\ events # <<>>
    /\ \E r \in EventResults(Head(events)) : Conclude(r)
    /\ events' = Tail(events)
    /\ ble_due' = ble_due - (IF Head(events).transport = "Ble" THEN 1 ELSE 0)
    /\ UNCHANGED <<running, ended, commands, app_events>>
    /\ UNCHANGED transports /\ UNCHANGED ui

\* Defect: a send to a UI that has gone waits instead of failing.
BugCoreEmit ==
    /\ ~ended /\ outbox # <<>>
    /\ ui_open /\ Len(app_events) < AppEventCap
    /\ app_events' = Append(app_events, Head(outbox))
    /\ outbox' = Tail(outbox)
    /\ UNCHANGED <<connections, running, ended, commands, events, effects, lagged,
                   ble_due, missed>>
    /\ UNCHANGED transports /\ UNCHANGED ui

\* send_app_event: waits for room, fails when the UI has gone.
CoreEmit ==
    /\ ~ended /\ outbox # <<>>
    /\ \/ /\ ui_open /\ Len(app_events) < AppEventCap
          /\ app_events' = Append(app_events, Head(outbox))
       \/ ~ui_open /\ UNCHANGED app_events
    /\ outbox' = Tail(outbox)
    /\ UNCHANGED <<connections, running, ended, commands, events, effects, lagged,
                   ble_due, missed>>
    /\ UNCHANGED transports /\ UNCHANGED ui

\* The loop ends after Shutdown, or when the command channel is closed and empty.
CoreEnd ==
    /\ ~ended /\ outbox = <<>>
    /\ ~running \/ (~ui_open /\ commands = <<>>)
    /\ ended' = TRUE
    /\ running' = FALSE
    /\ commands' = <<>> /\ events' = <<>>
    /\ UNCHANGED <<connections, outbox, app_events, effects, lagged, ble_due, missed>>
    /\ UNCHANGED transports /\ UNCHANGED ui

-----------------------------------------------------------------------------
(* The transport loops *)

\* BLE's select loop has a packet from the radio (handle_incoming_packet).
BleReceive(in) ==
    /\ alive["Ble"] /\ ble_out = <<>> /\ inputs < MaxInputs
    /\ ble_out' = in
    /\ inputs' = inputs + 1
    /\ ble_due' = ble_due + Len(in)
    /\ UNCHANGED <<core, ui, alive, nostr_out, commands, events, app_events, effects,
                   lagged, missed>>

\* Defect: the event is dropped when the channel is full.
BugBleSend ==
    /\ ble_out # <<>>
    /\ events' = IF ended \/ Len(events) >= EventCap THEN events
                 ELSE Append(events, Head(ble_out))
    /\ ble_out' = Tail(ble_out)
    /\ UNCHANGED <<core, ui, alive, nostr_out, inputs, commands, app_events, effects,
                   lagged, ble_due, missed>>

\* Defect: the send waits for a core that has gone.
BugBleWaits ==
    /\ ble_out # <<>> /\ ~ended /\ Len(events) < EventCap
    /\ events' = Append(events, Head(ble_out))
    /\ ble_out' = Tail(ble_out)
    /\ UNCHANGED <<core, ui, alive, nostr_out, inputs, commands, app_events, effects,
                   lagged, ble_due, missed>>

\* send_event: waits for room; fails once the core has gone.
BleSend ==
    /\ ble_out # <<>>
    /\ \/ ~ended /\ Len(events) < EventCap /\ events' = Append(events, Head(ble_out))
       \/ ended /\ UNCHANGED events
    /\ ble_out' = Tail(ble_out)
    /\ UNCHANGED <<core, ui, alive, nostr_out, inputs, commands, app_events, effects,
                   lagged, ble_due, missed>>

\* process_nostr_event_static, in a task of its own that outlives the loop.
NostrReceive(in) ==
    /\ nostr_out = <<>> /\ inputs < MaxInputs
    /\ nostr_out' = in
    /\ inputs' = inputs + 1
    /\ UNCHANGED <<core, ui, alive, ble_out, commands, events, app_events, effects,
                   lagged, ble_due, missed>>

\* forward_event: try_send, so an event that finds no room is lost.
NostrForward ==
    /\ nostr_out # <<>>
    /\ events' = IF ~ended /\ Len(events) < EventCap
                 THEN Append(events, Head(nostr_out)) ELSE events
    /\ nostr_out' = Tail(nostr_out)
    /\ UNCHANGED <<core, ui, alive, ble_out, inputs, commands, app_events, effects,
                   lagged, ble_due, missed>>

Idle(t) == alive[t] /\ (t = "Ble" => ble_out = <<>>)

\* Defect: the loop goes on after a lag, as if nothing had been lost.
BugTakeEffect(t) ==
    /\ Idle(t) /\ effects[t] # <<>>
    /\ effects' = [effects EXCEPT ![t] = Tail(@)]
    /\ lagged' = [lagged EXCEPT ![t] = FALSE]
    /\ UNCHANGED <<core, ui, transports, commands, events, app_events, ble_due, missed>>

\* recv gives Ok(effect). No effect the core broadcasts makes a transport send
\* an event: only InitiateConnection would, and the core never broadcasts it.
TakeEffect(t) ==
    /\ Idle(t) /\ effects[t] # <<>> /\ ~lagged[t]
    /\ effects' = [effects EXCEPT ![t] = Tail(@)]
    /\ UNCHANGED <<core, ui, transports, commands, events, app_events, lagged, ble_due,
                   missed>>

\* recv gives an error, Lagged or Closed, and the loop breaks on either.
TransportEnd(t) ==
    /\ Idle(t)
    /\ lagged[t] \/ (ended /\ effects[t] = <<>>)
    /\ alive' = [alive EXCEPT ![t] = FALSE]
    /\ effects' = [effects EXCEPT ![t] = <<>>]
    /\ UNCHANGED <<core, ui, ble_out, nostr_out, inputs, commands, events, app_events,
                   lagged, ble_due, missed>>

-----------------------------------------------------------------------------
(* The terminal interface *)

\* send_command: try_send; a full or closed channel is an error to the user.
UISend(c) ==
    /\ ui_open /\ ~ended /\ given < MaxCommands
    /\ Len(commands) < CommandCap
    /\ commands' = Append(commands, c)
    /\ given' = given + 1
    /\ UNCHANGED <<core, transports, ui_open, events, app_events, effects, lagged,
                   ble_due, missed>>

UIReceive ==
    /\ ui_open /\ app_events # <<>>
    /\ app_events' = Tail(app_events)
    /\ UNCHANGED <<core, transports, ui, commands, events, effects, lagged, ble_due,
                   missed>>

\* The UI task returns or is dropped: both its channel ends go with it.
UIClose ==
    /\ ui_open
    /\ ui_open' = FALSE
    /\ app_events' = <<>>
    /\ UNCHANGED <<core, transports, given, commands, events, effects, lagged, ble_due,
                   missed>>

-----------------------------------------------------------------------------

Init ==
    /\ connections = [p \in Peer |-> NoConnection]
    /\ running = TRUE /\ ended = FALSE
    /\ outbox = <<>> /\ commands = <<>> /\ events = <<>> /\ app_events = <<>>
    /\ effects = [t \in TransportType |-> <<>>]
    /\ lagged = [t \in TransportType |-> FALSE]
    /\ alive = [t \in TransportType |-> TRUE]
    /\ ble_out = <<>> /\ nostr_out = <<>>
    /\ ui_open = TRUE
    /\ given = 0 /\ inputs = 0 /\ ble_due = 0
    /\ missed = [t \in TransportType |-> FALSE]

\* Everything has stopped.
Stopped ==
    /\ ended /\ \A t \in TransportType : ~alive[t]
    /\ UNCHANGED vars

Next ==
    \/ CoreCommand \/ CoreEvent \/ CoreEmit \/ CoreEnd
    \/ \E in \in BleInput : BleReceive(in)
    \/ BleSend
    \/ \E in \in NostrInput : NostrReceive(in)
    \/ NostrForward
    \/ \E t \in TransportType : TakeEffect(t) \/ TransportEnd(t)
    \/ \E c \in UICommand : UISend(c)
    \/ UIReceive \/ UIClose
    \/ Stopped

\* Every task is scheduled again and again (weak fairness). tokio::select! polls
\* its branches in random order, so a branch that is ready again and again is
\* taken (strong fairness). The user, the radios and the UI owe nothing.
Fairness ==
    /\ SF_vars(CoreCommand) /\ SF_vars(CoreEvent)
    /\ WF_vars(CoreEmit) /\ WF_vars(CoreEnd)
    /\ WF_vars(BleSend) /\ WF_vars(NostrForward)
    /\ \A t \in TransportType : SF_vars(TakeEffect(t)) /\ SF_vars(TransportEnd(t))

Spec == Init /\ [][Next]_vars
FairSpec == Spec /\ Fairness

-----------------------------------------------------------------------------
(* Properties *)

AppEvent ==
       [kind : {"PeerStatusChanged"}, peer_id : Peer,
        status : {"Disconnected", "Discovering", "Connected", "Error"}]
  \cup [kind : {"SystemError", "MessageSent", "MessageReceived", "Report",
                "DiscoveryStateChanged"}]

EffectKind == {"SendPacket", "StartTransportDiscovery", "StopTransportDiscovery",
               "StopListening", "PauseTransport", "ResumeTransport"}

\* Type correctness; no channel ever holds more than its capacity.
TypeOK ==
    /\ connections \in [Peer -> State \cup {NoConnection}]
    /\ {running, ended, ui_open} \subseteq BOOLEAN
    /\ outbox \in Seq(AppEvent) /\ Len(outbox) <= 1
    /\ commands \in Seq(Command) /\ Len(commands) <= CommandCap
    /\ events \in Seq(Event) /\ Len(events) <= EventCap
    /\ app_events \in Seq(AppEvent) /\ Len(app_events) <= AppEventCap
    /\ effects \in [TransportType -> Seq([kind : EffectKind, transport : TransportType])]
    /\ \A t \in TransportType : Len(effects[t]) <= EffectCap
    /\ {lagged, alive, missed} \subseteq [TransportType -> BOOLEAN]
    /\ ble_out \in Seq(Event) /\ nostr_out \in Seq(Event)
    /\ {given, inputs, ble_due} \subseteq Nat

\* The BLE loop waits for room, so while the core runs no packet it received is
\* lost between the radio and the core, however full the channels are.
BleLosesNothing ==
    ~ended =>
        ble_due = Cardinality({i \in DOMAIN events : events[i].transport = "Ble"}) + Len(ble_out)

\* A transport loop never works on past an effect it did not get: a loop that
\* missed one takes no further effect and stops.
NoEffectSkipped ==
    [][\A t \in TransportType :
          (effects'[t] # effects[t] /\ Len(effects'[t]) < Len(effects[t]) /\ alive'[t])
          => ~missed[t]]_vars

\* There is room for app events again and again, or nobody holds their receiver: the
\* holder reads it or drops it. No task of the repository does: the terminal interface
\* that would is built and never run (app_orchestrator.rs:213).
AppEventsDrained == []<>(~ui_open \/ Len(app_events) < AppEventCap)

\* Provided whoever holds the receiver of the app events drains or drops it: after
\* Shutdown or the UI's departure every task ends, though the core may be waiting
\* for the UI and the BLE loop for the core.
ShutdownCompletes ==
    AppEventsDrained =>
        (~running \/ ~ui_open) ~> (ended /\ \A t \in TransportType : ~alive[t])

\* Under the same proviso every command the channel accepted is taken by the core,
\* unless it stops, however many events compete with it in select!. (Without it the
\* core may wait in send_app_event for ever, Shutdown in its queue.)
CommandsServed ==
    AppEventsDrained =>
        \A n \in 1..MaxCommands : (given >= n) ~> (given - Len(commands) >= n \/ ended)

\* What the transports' log line says of a loop that stops: the effect channel
\* is closed. A loop also stops when it lagged behind, with the core still up.
EndsOnlyWhenClosed ==
    \A t \in TransportType : ~alive[t] => ended

\* The node's state holds together under backpressure: channels within their
\* capacity, no BLE packet lost (CoreLogicTask::run, send_event).
NodeSound == TypeOK /\ BleLosesNothing
=============================================================================
