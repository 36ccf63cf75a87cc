------------------------------- MODULE MCNode -------------------------------
(* The tasks of a node and the command line application around them for     *)
(* model checking: the core with its transports, the terminal's display,    *)
(* the library's configuration, and the application that starts it all. The *)
(* core's channels are the only way between them, and the core is driven    *)
(* with every input, so each is checked on its own. Beside them stand the   *)
(* devices of one user, each of which is such a node.                       *)
EXTENDS CoreLogic, TerminalUi, Configuration, CliApp, SessionSync

\* One remote peer, every command, and what the two transports hand to the core
\* for what they receive.
CONSTANT p

MCPeer == {p}
MCTimeoutSeconds == {}
NoSessions == {}

ToPeer(kind) == [kind |-> kind, peer_id |-> p]
Of(kind, t) == [kind |-> kind, transport |-> t]
From(kind, t) == [kind |-> kind, peer_id |-> p, transport |-> t]

AllCommands ==
    {ToPeer("SendMessage"), ToPeer("ConnectToPeer"), ToPeer("DisconnectFromPeer"),
     Of("PauseTransport", "Ble"), Of("ResumeTransport", "Nostr"), Plain("StartDiscovery"),
     Plain("StopDiscovery"), Plain("Query"), Plain("Shutdown")}

\* An announce packet, any other packet, and the events of a TransportTask that
\* reports connections and errors.
AllBle ==
    {<<From("PeerDiscovered", "Ble"), From("BitchatPacketReceived", "Ble")>>,
     <<From("BitchatPacketReceived", "Ble")>>,
     <<From("ConnectionEstablished", "Ble")>>, <<From("ConnectionLost", "Ble")>>,
     <<Of("TransportError", "Ble")>>, <<Of("TransportNotice", "Ble")>>}

\* An embedded packet and a legacy message.
AllNostr ==
    {<<From("PeerDiscovered", "Nostr"), From("BitchatPacketReceived", "Nostr")>>,
     <<From("PeerDiscovered", "Nostr"), From("MessageReceived", "Nostr")>>}

VARIABLE turn  \* the component this behaviour is about

\* Sections an application may bring: retries that never happen, do not grow or
\* shrink, sessions without room, and fragments of the header's size.
MCDeliveries ==
    [never |-> Retries(0, 500, 30000, 20), flat |-> Retries(5, 500, 30000, 10),
     back |-> Retries(5, 500, 100, 20)]
MCSessions == [none |-> Sessions(100, 1000, 0), short |-> Sessions(30000, 10000, 1)]
MCBles == [tiny |-> [BleCanonical EXCEPT !.fragment_size = 13],
           least |-> [BleCanonical EXCEPT !.fragment_size = 100]]

\* What a file, the environment and the command line may say.
MCFile == {<<>>, [peer_id |-> "malformed", verbose |-> TRUE],
           [peer_id |-> "hex", transports |-> <<"nostr">>, verbose |-> TRUE]}
MCEnv == {<<>>, [peer_id |-> "hex", name |-> "alice", transports |-> <<"ble">>]}
MCArg == {<<>>, [peer_id |-> "hex", transports |-> <<"zigbee">>, verbose |-> TRUE],
          [name |-> "alice", transports |-> <<"ble">>]}

\* The key order is not the order of time: a later message, and two of one time.
MCRefStamp == <<1, 0, 0>>

allVars == <<turn, vars, uiVars, configVars, cliVars, syncVars>>

\* Of the components that are not its subject a behaviour has one initial state.
NodeInit ==
    /\ turn \in {"core", "display", "config", "cli", "devices"}
    /\ Init /\ UiInit /\ ConfigInit /\ CliInit /\ SyncInit
    /\ turn # "cli" => cli_mode = "main"

NodeNext ==
    \/ turn = "core" /\ Next /\ UNCHANGED <<turn, uiVars, configVars, cliVars, syncVars>>
    \/ turn = "display" /\ UiNext /\ UNCHANGED <<turn, vars, configVars, cliVars, syncVars>>
    \/ turn = "config" /\ ConfigNext /\ UNCHANGED <<turn, vars, uiVars, cliVars, syncVars>>
    \/ turn = "cli" /\ CliNext /\ UNCHANGED <<turn, vars, uiVars, configVars, syncVars>>
    \/ turn = "devices" /\ SyncNext /\ UNCHANGED <<turn, vars, uiVars, configVars, cliVars>>
    \/ turn # "core" /\ UNCHANGED allVars

NodeSpec == NodeInit /\ [][NodeNext]_allVars
\* The core alone.
CoreSpec == NodeInit /\ turn = "core" /\ [][NodeNext]_allVars
=============================================================================
