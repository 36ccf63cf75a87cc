----------------------------- MODULE MCLiveness -----------------------------
(* What must happen in the end, for model checking: the tasks of a node     *)
(* under Shutdown, the life cycle of the runtime that owns them, and the    *)
(* supervised task set. Each is checked on its own; in its initial state    *)
(* none has a step it owes, so the fairness of one asks nothing of a        *)
(* behaviour about another.                                                 *)
EXTENDS CoreLogic, RuntimeLifecycle, TaskSupervisor

\* One remote peer.
CONSTANT p

MCPeer == {p}
MCTimeoutSeconds == {}
NoSessions == {}

ToPeer(kind) == [kind |-> kind, peer_id |-> p]
Of(kind, t) == [kind |-> kind, transport |-> t]
From(kind, t) == [kind |-> kind, peer_id |-> p, transport |-> t]

\* What fills each channel.
FewCommands == {Plain("StartDiscovery"), Plain("Query"), Plain("Shutdown")}
OneBle == {<<From("PeerDiscovered", "Ble"), From("BitchatPacketReceived", "Ble")>>}
OneNostr == {<<From("PeerDiscovered", "Nostr"), From("MessageReceived", "Nostr")>>}

VARIABLE turn  \* the component this behaviour is about

allVars == <<turn, vars, rtVars, supVars>>

\* Of the components that are not its subject a behaviour has one initial state.
LivenessInit ==
    /\ turn \in {"core", "runtime", "supervisor"}
    /\ Init /\ RtInit /\ SupInit
    /\ turn # "supervisor" => handle_state = "running"

\* The health clock, which no task reads, moves once the tasks have ended.
LateClock == sup_now' # sup_now => sup_alive = {}

LivenessNext ==
    \/ turn = "core" /\ Next /\ UNCHANGED <<turn, rtVars, supVars>>
    \/ turn = "runtime" /\ RtNext /\ UNCHANGED <<turn, vars, supVars>>
    \/ turn = "supervisor" /\ SupNext /\ LateClock /\ UNCHANGED <<turn, vars, rtVars>>

LivenessSpec ==
    /\ LivenessInit /\ [][LivenessNext]_allVars
    /\ Fairness /\ RtFairness /\ SupFairness
=============================================================================
