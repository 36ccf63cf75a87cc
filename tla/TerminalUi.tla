------------------------------ MODULE TerminalUi ------------------------------
(***************************************************************************)
(* The state the terminal interface shows (bitchat-cli,                    *)
(* terminal_interface.rs): application events change it, sending a command *)
(* may, and a maintenance every ten idle seconds tidies it up. All of them *)
(* take one lock, which a panic poisons. Reports change nothing.           *)
(*                                                                         *)
(* A message carries the time of its sender, whose clock may be ahead.     *)
(***************************************************************************)
EXTENDS Integers, Sequences

CONSTANTS
    UiPeer,
    MaxShown,       \* 100 in process_app_event
    PeerTimeout,    \* timeout_threshold, five minutes
    ClockSkew,      \* how far the clocks of senders are ahead
    MaxUiEvents,    \* bound: events and commands
    MaxUiTime       \* bound: the clock

ASSUME UiConstants == ClockSkew \subseteq Nat /\ MaxShown \in Nat

VARIABLES
    ui_running, poisoned,
    discovery_active,
    ui_peers,          \* ui_peers[p]: PeerUIState or NoUiPeer
    recent_messages,
    system_status,
    busy_operations,   \* how often each operation is listed
    ui_now, ui_given

uiVars == <<ui_running, poisoned, discovery_active, ui_peers, recent_messages, system_status,
            busy_operations, ui_now, ui_given>>

NoUiPeer == [status |-> "None"]
PeerUIState(status, seen, count) == [status |-> status, last_seen |-> seen, message_count |-> count]
NewUiPeer == PeerUIState("Disconnected", 0, 0)
Shown == {p \in UiPeer : ui_peers[p] # NoUiPeer}
ConnectionStatus == {"Connected", "Disconnected"}
DiscoveryOp == "Discovery active"
Overloaded == "Core Logic overloaded"
BusyOperation == {DiscoveryOp, Overloaded, "reason"}
NothingBusy == [o \in BusyOperation |-> 0]

UiInit ==
    /\ ui_running = FALSE /\ poisoned = FALSE /\ discovery_active = FALSE
    /\ ui_peers = [p \in UiPeer |-> NoUiPeer]
    /\ recent_messages = <<>> /\ system_status = "Starting" /\ busy_operations = NothingBusy
    /\ ui_now = 0 /\ ui_given = 0

\* An event of run's loop; a poisoned lock makes it an error that is logged.
UiEvent ==
    /\ ui_running /\ ~poisoned /\ ui_given < MaxUiEvents
    /\ ui_given' = ui_given + 1
    /\ UNCHANGED <<ui_running, poisoned, ui_now>>

PushMessage(m) ==
    LET all == Append(recent_messages, m)
    IN  recent_messages' = IF Len(all) > MaxShown THEN Tail(all) ELSE all

Touch(p, change(_)) ==
    ui_peers' = IF p \in Shown THEN [ui_peers EXCEPT ![p] = change(ui_peers[p])] ELSE ui_peers

MessageReceived(p, time) ==
    /\ UiEvent
    /\ PushMessage([peer |-> p, direction |-> "Incoming"])
    /\ Touch(p, LAMBDA s : PeerUIState(s.status, time, s.message_count + 1))
    /\ UNCHANGED <<discovery_active, system_status, busy_operations>>

MessageSent(p) ==
    /\ UiEvent
    /\ PushMessage([peer |-> p, direction |-> "Outgoing"])
    /\ Touch(p, LAMBDA s : PeerUIState(s.status, s.last_seen, s.message_count + 1))
    /\ UNCHANGED <<discovery_active, system_status, busy_operations>>

PeerStatusChanged(p, status) ==
    /\ UiEvent
    /\ LET s == IF p \in Shown THEN ui_peers[p] ELSE NewUiPeer
       IN  ui_peers' = [ui_peers EXCEPT ![p] = PeerUIState(status, ui_now, s.message_count)]
    /\ UNCHANGED <<discovery_active, recent_messages, system_status, busy_operations>>

Listed(op) == [busy_operations EXCEPT ![op] = busy_operations[op] + 1]
WithoutDiscovery == [busy_operations EXCEPT ![DiscoveryOp] = 0]

DiscoveryStateChanged(active) ==
    /\ UiEvent
    /\ discovery_active' = active
    /\ busy_operations' = IF active THEN Listed(DiscoveryOp) ELSE WithoutDiscovery
    /\ UNCHANGED <<ui_peers, recent_messages, system_status>>

ConversationUpdated(p, count) ==
    /\ UiEvent
    /\ Touch(p, LAMBDA s : PeerUIState(s.status, s.last_seen, count))
    /\ UNCHANGED <<discovery_active, recent_messages, system_status, busy_operations>>

Busy(reason) ==
    /\ system_status' = "Busy"
    /\ busy_operations' = IF busy_operations[reason] > 0 THEN busy_operations ELSE Listed(reason)
    /\ UNCHANGED <<discovery_active, ui_peers, recent_messages>>

SystemBusy == UiEvent /\ Busy("reason")

SystemError ==
    /\ UiEvent
    /\ system_status' = "Error"
    /\ UNCHANGED <<discovery_active, ui_peers, recent_messages, busy_operations>>

\* send_command when the core's channel is full; else it leaves the state alone.
send_command_full ==
    /\ ~poisoned /\ ui_given < MaxUiEvents
    /\ ui_given' = ui_given + 1
    /\ Busy(Overloaded)
    /\ UNCHANGED <<ui_running, poisoned, ui_now>>

ui_run ==
    /\ ~ui_running /\ system_status = "Starting" /\ ~poisoned
    /\ ui_running' = TRUE /\ system_status' = "Ready"
    /\ UNCHANGED <<poisoned, discovery_active, ui_peers, recent_messages, busy_operations, ui_now, ui_given>>

\* The events' channel is closed, or stop was called.
ui_stop ==
    /\ ui_running /\ ~poisoned
    /\ ui_running' = FALSE /\ system_status' = "ShuttingDown"
    /\ UNCHANGED <<poisoned, discovery_active, ui_peers, recent_messages, busy_operations, ui_now, ui_given>>

Ahead == {p \in Shown : ui_peers[p].last_seen > ui_now}
\* current_time - last_seen wraps around for a sender that is ahead.
NotSeenRecently(p) == p \in Ahead \/ ui_now - ui_peers[p].last_seen > PeerTimeout
BugForgotten == {p \in Shown : NotSeenRecently(p)}
Forgotten == {p \in Shown : NotSeenRecently(p) /\ ui_peers[p].status = "Disconnected"}

\* A build with overflow checks panics on the subtraction, after the status.
perform_ui_maintenance ==
    /\ ui_running /\ ~poisoned
    /\ LET ops == IF discovery_active THEN busy_operations ELSE WithoutDiscovery
       IN  /\ busy_operations' = ops
           /\ system_status' = IF ops = NothingBusy /\ system_status = "Busy" THEN "Ready" ELSE system_status
    /\ \/ /\ ui_peers' = [p \in UiPeer |-> IF p \in Forgotten THEN NoUiPeer ELSE ui_peers[p]]
          /\ UNCHANGED <<ui_running, poisoned>>
       \/ /\ Ahead # {}
          /\ poisoned' = TRUE /\ ui_running' = FALSE
          /\ UNCHANGED ui_peers
    /\ UNCHANGED <<discovery_active, recent_messages, ui_now, ui_given>>

UiTick ==
    /\ ui_now < MaxUiTime
    /\ ui_now' = ui_now + 1
    /\ UNCHANGED <<ui_running, poisoned, discovery_active, ui_peers, recent_messages,
                   system_status, busy_operations, ui_given>>

UiNext ==
    \/ \E p \in UiPeer :
           \/ \E d \in ClockSkew : MessageReceived(p, ui_now + d)
           \/ MessageSent(p) \/ ConversationUpdated(p, 2)
           \/ \E s \in ConnectionStatus : PeerStatusChanged(p, s)
    \/ \E b \in BOOLEAN : DiscoveryStateChanged(b)
    \/ SystemBusy \/ SystemError \/ send_command_full
    \/ ui_run \/ ui_stop \/ perform_ui_maintenance \/ UiTick

UiSpec == UiInit /\ [][UiNext]_uiVars

-----------------------------------------------------------------------------
(* Properties *)

\* The discovery shown as a busy operation is the discovery that is on, however
\* often it was switched on and whatever maintenance removed in between.
DiscoveryListed == discovery_active <=> busy_operations[DiscoveryOp] > 0

\* The list of messages never outgrows its limit.
ShownBounded == Len(recent_messages) <= MaxShown

\* A peer that is connected is never taken off the list, not even when the clock of
\* its messages is ahead.
ConnectedStay ==
    \A p \in Shown : ui_peers[p].status = "Connected" => ui_peers'[p] # NoUiPeer

\* What the user sees is what is: the discovery that is on, a bounded list of
\* messages, and every peer that is connected (handle_app_event, maintenance).
DisplaySound == [][DiscoveryListed' /\ ShownBounded' /\ ConnectedStay]_uiVars
=============================================================================
