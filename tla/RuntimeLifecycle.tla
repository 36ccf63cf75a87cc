--------------------------- MODULE RuntimeLifecycle ---------------------------
(***************************************************************************)
(* BitchatRuntime (bitchat-runtime, runtime.rs): transports are registered,*)
(* started together with a core task, stopped or dropped. A task ends when *)
(* it is aborted, when it gives up, or when the channel it reads is closed:*)
(* the core's commands when nobody holds a sender any more, a transport's  *)
(* effects when its core is gone. Each start makes channels of its own, so *)
(* tasks and channels are named by the number of the start.                *)
(***************************************************************************)
EXTENDS Integers, Sequences

CONSTANTS
    TransportKind,  \* ChannelTransportType
    MaxStarts       \* bound: the starts that make channels

VARIABLES
    rt_running,          \* running
    pending_transports,  \* sequence of [type, attached]
    transport_handles,   \* transport_handles[t]: the start its task is of, 0 for none
    core_logic_handle,   \* the start its task is of, or 0
    command_sender,      \* the start whose channel it feeds, or 0
    ui_senders,          \* the clones the user interface keeps
    core_tasks,          \* core tasks that are alive
    transport_tasks,     \* transport tasks that are alive, <<type, start>>
    starts,              \* starts that made channels
    rt_dropped

rtVars == <<rt_running, pending_transports, transport_handles, core_logic_handle,
            command_sender, ui_senders, core_tasks, transport_tasks, starts, rt_dropped>>

NoStart == 0

RtInit ==
    /\ rt_running = FALSE /\ pending_transports = <<>>
    /\ transport_handles = [t \in TransportKind |-> NoStart]
    /\ core_logic_handle = NoStart /\ command_sender = NoStart
    /\ ui_senders = {} /\ core_tasks = {} /\ transport_tasks = {}
    /\ starts = 0 /\ rt_dropped = FALSE

\* A transport that was attached to another runtime before is accepted here and
\* refused by attach_channels.
add_transport(t, attached) ==
    /\ ~rt_dropped /\ ~rt_running
    /\ \A i \in DOMAIN pending_transports : pending_transports[i].type # t
    /\ pending_transports' = Append(pending_transports, [type |-> t, attached |-> attached])
    /\ UNCHANGED <<rt_running, transport_handles, core_logic_handle, command_sender,
                   ui_senders, core_tasks, transport_tasks, starts, rt_dropped>>

Attachable(p) == ~p.attached

\* start_transport_task for each registered transport, in order, until one fails.
Started(n) ==
    {<<pending_transports[i].type, n>> : i \in
        {j \in DOMAIN pending_transports : \A k \in 1..j : Attachable(pending_transports[k])}}

\* The core and the channels are in place before the first transport; a transport
\* that cannot be attached ends the start with the earlier ones running.
start(configOk) ==
    /\ ~rt_dropped /\ ~rt_running /\ pending_transports # <<>> /\ configOk
    /\ starts < MaxStarts
    /\ starts' = starts + 1
    /\ command_sender' = starts'
    /\ core_logic_handle' = starts'
    /\ core_tasks' = core_tasks \cup {starts'}
    /\ pending_transports' = <<>>
    /\ transport_tasks' = transport_tasks \cup Started(starts')
    /\ transport_handles' = [t \in TransportKind |->
           IF <<t, starts'>> \in Started(starts') THEN starts' ELSE transport_handles[t]]
    /\ rt_running' = (\A i \in DOMAIN pending_transports : Attachable(pending_transports[i]))
    /\ UNCHANGED <<ui_senders, rt_dropped>>

AbortHandles ==
    /\ core_tasks' = core_tasks \ {core_logic_handle}
    /\ transport_tasks' = {x \in transport_tasks : transport_handles[x[1]] # x[2]}

stop ==
    /\ ~rt_dropped /\ rt_running
    /\ AbortHandles
    /\ rt_running' = FALSE
    /\ transport_handles' = [t \in TransportKind |-> NoStart]
    /\ core_logic_handle' = NoStart /\ command_sender' = NoStart
    /\ UNCHANGED <<pending_transports, ui_senders, starts, rt_dropped>>

\* Nothing is aborted unless the runtime runs; its channels' ends go with it.
rt_drop ==
    /\ ~rt_dropped
    /\ rt_dropped' = TRUE
    /\ IF rt_running THEN AbortHandles ELSE UNCHANGED <<core_tasks, transport_tasks>>
    /\ command_sender' = NoStart
    /\ UNCHANGED <<rt_running, pending_transports, transport_handles, core_logic_handle,
                   ui_senders, starts>>

clone_sender ==
    /\ ~rt_dropped /\ command_sender # NoStart
    /\ ui_senders' = ui_senders \cup {command_sender}
    /\ UNCHANGED <<rt_running, pending_transports, transport_handles, core_logic_handle,
                   command_sender, core_tasks, transport_tasks, starts, rt_dropped>>

release_sender(n) ==
    /\ n \in ui_senders
    /\ ui_senders' = ui_senders \ {n}
    /\ UNCHANGED <<rt_running, pending_transports, transport_handles, core_logic_handle,
                   command_sender, core_tasks, transport_tasks, starts, rt_dropped>>

CommandsClosed(n) == n # command_sender /\ n \notin ui_senders
BugCoreEnds(n) ==
    /\ n \in core_tasks /\ ~CommandsClosed(n)
    /\ core_tasks' = core_tasks \ {n}
    /\ UNCHANGED <<rt_running, pending_transports, transport_handles, core_logic_handle,
                   command_sender, ui_senders, transport_tasks, starts, rt_dropped>>
\* The core ends when its commands are closed, on Shutdown or on a fatal error.
core_ends(n) ==
    /\ n \in core_tasks
    /\ core_tasks' = core_tasks \ {n}
    /\ UNCHANGED <<rt_running, pending_transports, transport_handles, core_logic_handle,
                   command_sender, ui_senders, transport_tasks, starts, rt_dropped>>

\* A transport ends when its core is gone or it fails.
transport_ends(x) ==
    /\ x \in transport_tasks
    /\ transport_tasks' = transport_tasks \ {x}
    /\ UNCHANGED <<rt_running, pending_transports, transport_handles, core_logic_handle,
                   command_sender, ui_senders, core_tasks, starts, rt_dropped>>

RtNext ==
    \/ \E t \in TransportKind, a \in BOOLEAN : add_transport(t, a)
    \/ \E ok \in BOOLEAN : start(ok)
    \/ stop \/ rt_drop \/ clone_sender
    \/ \E n \in 1..MaxStarts : release_sender(n) \/ core_ends(n)
    \/ \E x \in TransportKind \X (1..MaxStarts) : transport_ends(x)

\* A select loop that finds its channel closed ends, and a transport whose effects
\* are closed ends. Nothing obliges a core to end while a sender is held.
RtFairness ==
    /\ \A n \in 1..MaxStarts : WF_rtVars(CommandsClosed(n) /\ core_ends(n))
    /\ \A x \in TransportKind \X (1..MaxStarts) :
           WF_rtVars(x[2] \notin core_tasks /\ transport_ends(x))

RtSpec == RtInit /\ [][RtNext]_rtVars /\ RtFairness

-----------------------------------------------------------------------------
(* Properties *)

\* The commands an application sends reach the core whose handle the runtime keeps,
\* whatever starts failed before: the two are replaced and cleared together.
SenderFeedsCore == rt_dropped \/ command_sender = core_logic_handle

\* No task outlives the runtime: after a stop, or a drop also of one whose start
\* failed halfway, the tasks end one after the other once the application has let
\* go of its senders, though nothing aborts those the runtime has lost track of.
RuntimeQuiesces ==
    (rt_dropped /\ ui_senders = {}) ~> (core_tasks = {} /\ transport_tasks = {})

\* The runtime's handles follow its tasks, and none of them outlives it (start, stop,
\* Drop).
RuntimeSound == []SenderFeedsCore /\ RuntimeQuiesces
=============================================================================
