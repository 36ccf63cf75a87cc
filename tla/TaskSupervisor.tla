---------------------------- MODULE TaskSupervisor ----------------------------
(***************************************************************************)
(* The decomposed runtime (bitchat-runtime, builder.rs, supervisor.rs,     *)
(* tasks.rs): an ingress task hands commands and events on to a session    *)
(* task and a storage task over unbounded queues, and a supervisor keeps   *)
(* their health. RuntimeHandle shuts them down with a command that passes  *)
(* through the same queues; a supervisor nobody runs can be shut down      *)
(* directly. The storage task puts nothing in its message store: it        *)
(* answers each message with MessageStored and no more. The limiter        *)
(* refuses commands at its own discretion here.                            *)
(***************************************************************************)
EXTENDS Integers, Sequences

CONSTANTS
    Correspondent,   \* PeerId of others
    Self,            \* the peer_id of the runtime
    NullPeer,        \* PeerId::new([0; 8])
    AppEventRoom,    \* capacity of the application's event channel
    StaleThreshold,  \* stale_threshold
    MaxSupInputs,       \* bound: commands and events given to the ingress task
    MaxSupTime       \* bound: the clock

VARIABLES
    sup_commands, session_queue, storage_queue,  \* waiting commands, in order
    sup_alive,             \* the tasks that have not finished
    senders,           \* "commands" and "events": the channels somebody can still send to
    ingress_exit,      \* why the ingress task returned: "Shutdown", "closed", or "" so far
    message_sequence,  \* inputs taken so far, which number the messages
    established,       \* connections of the session task
    answered,          \* messages the storage task answered with MessageStored
    announced,         \* messages announced to the application as sent
    tracked,           \* delivery_tracker
    app_room,          \* free places for application events
    task_health, last_update, sup_now,
    handle_state       \* "running", "closing", "shut"; without a handle "direct", "aborted"

supVars == <<sup_commands, session_queue, storage_queue, sup_alive, senders, ingress_exit,
             message_sequence, established, answered, announced, tracked, app_room,
             task_health, last_update, sup_now, handle_state>>

SupTask == {"ingress", "session", "storage"}
HealthKey == {"CoreLogic", "SessionManager", "DeliveryManager"}
ToSession(c) == session_queue' = Append(session_queue, c)
ToStorage(c) == storage_queue' = Append(storage_queue, c)

\* SupervisorTask::start, through build_and_start or by itself.
SupInit ==
    /\ sup_commands = <<>> /\ session_queue = <<>> /\ storage_queue = <<>>
    /\ sup_alive = SupTask /\ senders = {"commands", "events"} /\ ingress_exit = ""
    /\ message_sequence = 0 /\ established = {} /\ answered = {} /\ announced = {} /\ tracked = {}
    /\ app_room = AppEventRoom
    /\ task_health = [k \in HealthKey |-> "Healthy"]
    /\ last_update = [k \in HealthKey |-> 0] /\ sup_now = 0
    /\ handle_state \in {"running", "direct"}

Sendable == [kind : {"SendMessage", "ConnectToPeer"}, peer : Correspondent]
                \cup {[kind |-> "Unhandled", peer |-> Self]}

send_command(c) ==
    /\ "commands" \in senders
    /\ "ingress" \in sup_alive /\ message_sequence < MaxSupInputs
    /\ message_sequence' = message_sequence + 1
    /\ sup_commands' = Append(sup_commands, [kind |-> c.kind, peer |-> c.peer,
                                           id |-> message_sequence'])
    /\ UNCHANGED <<senders, ingress_exit, session_queue, storage_queue, sup_alive,
                   established, answered, announced, tracked, app_room, task_health,
                   last_update, sup_now, handle_state>>

SupAppEvent(m) ==
    IF app_room > 0
    THEN app_room' = app_room - 1 /\ announced' = announced \cup m
    ELSE UNCHANGED <<app_room, announced>>

\* EstablishSession, then StoreMessage, then the event: a task that is gone stops it there.
HandleSend(c) ==
    /\ IF "session" \notin sup_alive
       THEN UNCHANGED <<session_queue, storage_queue, app_room, announced>>
       ELSE /\ ToSession([kind |-> "EstablishSession", peer |-> c.peer])
            /\ IF "storage" \notin sup_alive
               THEN UNCHANGED <<storage_queue, app_room, announced>>
               ELSE /\ ToStorage([kind |-> "StoreMessage", sender |-> Self,
                                  id |-> c.id])
                    /\ SupAppEvent({c.id})
    /\ UNCHANGED <<sup_alive, ingress_exit>>

BugHandleShutdown ==
    /\ sup_alive' = sup_alive \ {"ingress"} /\ ingress_exit' = "Shutdown"
    /\ IF "session" \in sup_alive THEN ToSession([kind |-> "Shutdown"]) ELSE UNCHANGED session_queue
    /\ UNCHANGED <<storage_queue, app_room, announced>>
HandleShutdown ==
    /\ sup_alive' = sup_alive \ {"ingress"} /\ ingress_exit' = "Shutdown"
    /\ IF "session" \in sup_alive THEN ToSession([kind |-> "Shutdown"]) ELSE UNCHANGED session_queue
    /\ IF "storage" \in sup_alive THEN ToStorage([kind |-> "Shutdown"]) ELSE UNCHANGED storage_queue
    /\ UNCHANGED <<app_room, announced>>

\* Every command is charged to one null peer first, Shutdown too.
ingress_command(allowed) ==
    /\ "ingress" \in sup_alive /\ sup_commands # <<>>
    /\ sup_commands' = Tail(sup_commands)
    /\ LET c == Head(sup_commands) IN
       IF ~allowed THEN UNCHANGED <<sup_alive, ingress_exit, session_queue, storage_queue,
                                    app_room, announced>>
       ELSE \/ c.kind = "SendMessage" /\ HandleSend(c)
            \/ /\ c.kind = "ConnectToPeer"
               /\ IF "session" \in sup_alive
                  THEN ToSession([kind |-> "EstablishSession", peer |-> c.peer])
                  ELSE UNCHANGED session_queue
               /\ UNCHANGED <<sup_alive, ingress_exit, storage_queue, app_room, announced>>
            \/ c.kind = "Shutdown" /\ HandleShutdown
            \/ /\ c.kind = "Unhandled"
               /\ UNCHANGED <<sup_alive, ingress_exit, session_queue, storage_queue, app_room,
                              announced>>
    /\ UNCHANGED <<senders, message_sequence, established, answered, tracked, task_health,
                   last_update, sup_now, handle_state>>

\* A channel loses its last sender: the handle is dropped, the transports are gone. (A
\* runtime without a transport has no sender of events from the start.)
channel_closes(ch) ==
    /\ ch \in senders /\ handle_state # "closing"
    /\ senders' = senders \ {ch}
    /\ UNCHANGED <<sup_commands, session_queue, storage_queue, sup_alive, ingress_exit,
                   message_sequence, established, answered, announced, tracked, app_room,
                   task_health, last_update, sup_now, handle_state>>

\* The else of select!: both channels closed. The other tasks are not told.
ingress_closed ==
    /\ "ingress" \in sup_alive /\ senders = {} /\ sup_commands = <<>>
    /\ sup_alive' = sup_alive \ {"ingress"} /\ ingress_exit' = "closed"
    /\ UNCHANGED <<sup_commands, session_queue, storage_queue, senders, message_sequence,
                   established, answered, announced, tracked, app_room, task_health,
                   last_update, sup_now, handle_state>>

\* A message received is stored under its own id; an empty one is refused. The other
\* events only become application events.
ingress_event(p, kind) ==
    /\ "events" \in senders
    /\ "ingress" \in sup_alive /\ message_sequence < MaxSupInputs
    /\ message_sequence' = message_sequence + 1
    /\ CASE kind = "MessageReceived" ->
              IF "storage" \in sup_alive
              THEN /\ ToStorage([kind |-> "StoreMessage", sender |-> p, id |-> message_sequence'])
                   /\ SupAppEvent({})
              ELSE UNCHANGED <<storage_queue, app_room, announced>>
         [] kind = "EmptyMessage" -> UNCHANGED <<storage_queue, app_room, announced>>
         [] OTHER -> SupAppEvent({}) /\ UNCHANGED storage_queue
    /\ UNCHANGED <<senders, ingress_exit, sup_commands, session_queue, sup_alive, established,
                   answered, tracked, task_health, last_update, sup_now, handle_state>>

\* The application reads an event.
take_app_event ==
    /\ app_room < AppEventRoom
    /\ app_room' = app_room + 1
    /\ UNCHANGED <<senders, ingress_exit, sup_commands, session_queue, storage_queue,
                   sup_alive, message_sequence, established, answered, announced, tracked,
                   task_health, last_update, sup_now, handle_state>>

\* SessionEstablished is reported before a connection is even asked for.
session_command ==
    /\ "session" \in sup_alive /\ session_queue # <<>>
    /\ session_queue' = Tail(session_queue)
    /\ LET c == Head(session_queue) IN
       IF c.kind = "Shutdown"
       THEN sup_alive' = sup_alive \ {"session"} /\ UNCHANGED established
       ELSE established' = established \cup {c.peer} /\ UNCHANGED sup_alive
    /\ UNCHANGED <<senders, ingress_exit, sup_commands, storage_queue, message_sequence,
                   answered, announced, tracked, app_room, task_health, last_update, sup_now,
                   handle_state>>

StorageShutdown == sup_alive' = sup_alive \ {"storage"} /\ storage_queue' = Tail(storage_queue)

\* Delivery is tracked for messages of the null peer only.
storage_command ==
    /\ "storage" \in sup_alive /\ storage_queue # <<>>
    /\ LET c == Head(storage_queue) IN
       IF c.kind = "Shutdown"
       THEN StorageShutdown /\ UNCHANGED <<answered, tracked>>
       ELSE /\ storage_queue' = Tail(storage_queue)
            /\ answered' = answered \cup {c.id}
            /\ tracked' = IF c.sender = NullPeer THEN tracked \cup {c.id} ELSE tracked
            /\ UNCHANGED sup_alive
    /\ UNCHANGED <<senders, ingress_exit, sup_commands, session_queue, message_sequence,
                   established, announced, app_room, task_health, last_update, sup_now,
                   handle_state>>

Stale(k) == sup_now - last_update[k] > StaleThreshold

\* run: a task that has finished only makes the loop turn faster.
perform_health_check ==
    /\ handle_state # "direct"
    /\ \E k \in HealthKey : Stale(k)
    /\ task_health' = [k \in HealthKey |-> IF Stale(k) THEN "Degraded" ELSE task_health[k]]
    /\ last_update' = [k \in HealthKey |-> IF Stale(k) THEN sup_now ELSE last_update[k]]
    /\ UNCHANGED <<senders, ingress_exit, sup_commands, session_queue, storage_queue,
                   sup_alive, message_sequence, established, answered, announced, tracked,
                   app_room, sup_now, handle_state>>

\* RuntimeHandle::shutdown waits for room, sends the command, waits ten seconds for a
\* supervisor that does not end, and aborts the transports.
sup_shutdown ==
    /\ handle_state = "running" /\ "commands" \in senders
    /\ handle_state' = "closing"
    /\ sup_commands' = IF "ingress" \in sup_alive
                       THEN Append(sup_commands, [kind |-> "Shutdown"]) ELSE sup_commands
    /\ UNCHANGED <<senders, ingress_exit, session_queue, storage_queue, sup_alive,
                   message_sequence, established, answered, announced, tracked, app_room,
                   task_health, last_update, sup_now>>

handle_shut ==
    /\ handle_state = "closing"
    /\ handle_state' = "shut"
    /\ UNCHANGED <<senders, ingress_exit, sup_commands, session_queue, storage_queue,
                   sup_alive, message_sequence, established, answered, announced, tracked,
                   app_room, task_health, last_update, sup_now>>

\* SupervisorTask::shutdown: the ingress task is not told, and all are aborted when
\* the deadline has passed.
supervisor_shutdown ==
    /\ handle_state = "direct"
    /\ handle_state' = "aborted"
    /\ ToSession([kind |-> "Shutdown"]) /\ ToStorage([kind |-> "Shutdown"])
    /\ sup_alive' \in {sup_alive, {}}
    /\ UNCHANGED <<senders, ingress_exit, sup_commands, message_sequence, established,
                   answered, announced, tracked, app_room, task_health, last_update, sup_now>>

SupTick ==
    /\ sup_now < MaxSupTime
    /\ sup_now' = sup_now + 1
    /\ UNCHANGED <<senders, ingress_exit, sup_commands, session_queue, storage_queue,
                   sup_alive, message_sequence, established, answered, announced, tracked,
                   app_room, task_health, last_update, handle_state>>

SupNext ==
    \/ \E c \in Sendable : send_command(c)
    \/ \E ok \in BOOLEAN : ingress_command(ok)
    \/ \E ch \in {"commands", "events"} : channel_closes(ch)
    \/ ingress_closed
    \/ \E p \in Correspondent, k \in {"MessageReceived", "EmptyMessage", "ConnectionLost"} :
           ingress_event(p, k)
    \/ take_app_event \/ session_command \/ storage_command \/ perform_health_check
    \/ sup_shutdown \/ handle_shut \/ supervisor_shutdown \/ SupTick

\* A task that has something in its queue is scheduled.
SupFairness == WF_supVars(session_command) /\ WF_supVars(storage_command)

SupSpec == SupInit /\ [][SupNext]_supVars /\ SupFairness

-----------------------------------------------------------------------------
(* Properties *)

\* A message announced to the user as sent has been taken and answered by the storage
\* task before that task stops, when the runtime was shut down through its handle: the
\* Shutdown command follows every StoreMessage in the same queue. (What the task does
\* with the message is another matter: for now it keeps nothing. SupervisorTask::shutdown
\* sends its own command past the ingress task and does not promise this.)
AnnouncedAnswered ==
    handle_state # "aborted" /\ "storage" \notin sup_alive => announced \subseteq answered

\* A Shutdown the ingress task takes ends the other tasks too: their queues never close
\* by themselves, since the supervisor keeps a sender to each of them. (An ingress task
\* that ends because its channels closed tells nobody, and the other two wait on.)
ShutdownPropagates ==
    (ingress_exit = "Shutdown") ~> (sup_alive = {})

\* Shutting the task set down skips no announced message and leaves no task behind
\* (MessageIngressTask, StorageDeliveryTask).
SupervisionSound == []AnnouncedAnswered /\ ShutdownPropagates
=============================================================================
