-------------------------------- MODULE CliApp --------------------------------
(***************************************************************************)
(* The command line application (bitchat-cli: main.rs, config.rs,          *)
(* app_orchestrator.rs): it merges its configuration from layers, announces*)
(* its peer id, starts a core and the transports, reads commands from a    *)
(* user or, as JSON events, for an automation, and stops.                  *)
(*                                                                         *)
(* A layer of the configuration is a record of the keys it sets among an   *)
(* identity, a name, the transports and the verbosity.                     *)
(***************************************************************************)
EXTENDS Integers, Sequences, SequencesExt, TLC

CONSTANTS
    FileLayer, EnvLayer, ArgLayer,   \* sets of layers
    MaxCliCommands                   \* bound: commands read

ASSUME CliConstants == MaxCliCommands \in Nat

VARIABLES
    cli_mode,           \* main, file (--config), interactive, automation
    cli_process,        \* start, loaded, announced, running, exited
    cli_config,
    cli_announced,   \* the peer id printed before the application exists, or NoId
    orc_peer_id,        \* the orchestrator's, or NoId
    cli_clock,          \* readings of the clock, from which peer ids are generated
    app_running,    \* BitchatCliApp::running
    orc_running,    \* CliAppOrchestrator::running; the terminal interface exists
    cli_core,       \* the core task is alive
    cli_transports, \* transport tasks that are alive
    cli_handles,    \* transport_handles
    cli_paused,         \* paused_transports: type -> "no", "yes", or "unknown"
    last_event,     \* the event printed last
    cli_commands

cliVars == <<cli_mode, cli_process, cli_config, cli_announced, orc_peer_id, cli_clock, app_running, orc_running,
             cli_core, cli_transports, cli_handles, cli_paused, last_event, cli_commands>>

NotSet == "absent"
\* Where a peer id comes from: a name, a reading of the clock, or neither.
PeerIdOf(kind, name, n) == [kind |-> kind, name |-> name, n |-> n]
NoId == PeerIdOf("none", NotSet, 0)
ChannelTransport == {"ble", "nostr"}
JsonEvent(type, transport, status) == [type |-> type, transport |-> transport, status |-> status]
PlainEvent(type) == JsonEvent(type, "none", "none")

Defaults == [peer_id |-> NotSet, name |-> NotSet, transports |-> <<"ble", "nostr">>, verbose |-> FALSE]

CliInit ==
    /\ cli_mode \in {"main", "file", "interactive", "automation"} /\ cli_process = "start"
    /\ cli_config = Defaults
    /\ cli_announced = NoId /\ orc_peer_id = NoId /\ cli_clock = 0
    /\ app_running = FALSE /\ orc_running = FALSE /\ cli_core = FALSE
    /\ cli_transports = {} /\ cli_handles = {}
    /\ cli_paused = [t \in ChannelTransport |-> "unknown"]
    /\ last_event = PlainEvent("none") /\ cli_commands = 0

(* Configuration *)
MergeLayer(below, layer) == layer @@ below

\* Env::split("_") makes identity.peer.id of BITCHAT_IDENTITY_PEER_ID: a variable
\* for a field with an underscore in its name is ignored.
EnvVisible(layer) == [k \in DOMAIN layer \cap {"name", "verbose"} |-> layer[k]]

load_layers(file, env) == MergeLayer(MergeLayer(Defaults, file), EnvVisible(env))
load_from_file(file) == MergeLayer(Defaults, file)
load_with_overrides(file, env, args) == MergeLayer(load_layers(file, env), args)

\* --name and --relay of the subcommand; the automation never reads a file.
interactive_config(base, args) ==
    [base EXCEPT !.name = IF "name" \in DOMAIN args THEN args.name ELSE @,
                 !.transports = IF "transports" \in DOMAIN args THEN Append(@, "nostr") ELSE @]

parse_peer_id(s) == s = "hex"
cli_validate(c) ==
    /\ c.peer_id # NotSet => parse_peer_id(c.peer_id)
    /\ ToSet(c.transports) \subseteq ChannelTransport

generate_peer_id_from_name(name) == PeerIdOf("name", name, 0)
generate_random_peer_id(now) == PeerIdOf("random", NotSet, now)

\* The effective peer id, or NoId when the configured one cannot be parsed.
get_peer_id(c, now) ==
    CASE c.peer_id # NotSet -> IF parse_peer_id(c.peer_id) THEN PeerIdOf("explicit", NotSet, 0) ELSE NoId
      [] c.name # NotSet    -> generate_peer_id_from_name(c.name)
      [] OTHER              -> generate_random_peer_id(now)

get_enabled_transports(c) == SelectSeq(c.transports, LAMBDA t : t \in ChannelTransport)

\* main and run_interactive_mode: a configuration that is refused ends the process.
load_config(file, env, args) ==
    /\ cli_process = "start"
    /\ LET c == CASE cli_mode = "main"        -> load_with_overrides(file, env, args)
                  [] cli_mode = "file"        -> load_from_file(file)
                  [] cli_mode = "interactive" -> interactive_config(load_layers(file, env), args)
                  [] OTHER                -> interactive_config(Defaults, args)
       IN  /\ cli_config' = c
           /\ cli_process' = IF cli_mode = "automation" \/ cli_validate(c) THEN "loaded" ELSE "exited"
    /\ UNCHANGED <<cli_mode, cli_announced, orc_peer_id, cli_clock, app_running, orc_running, cli_core,
                   cli_transports, cli_handles, cli_paused, last_event, cli_commands>>

\* The start-up information of a verbose main, or the Ready event.
cli_announce ==
    /\ cli_process = "loaded"
    /\ LET says == cli_mode = "automation" \/ (cli_mode \in {"main", "file"} /\ cli_config.verbose)
           id == get_peer_id(cli_config, cli_clock + 1)
       IN  /\ cli_clock' = cli_clock + 1
           /\ cli_announced' = IF says THEN id ELSE cli_announced
           /\ cli_process' = IF says /\ id = NoId THEN "exited" ELSE "announced"
           /\ last_event' = IF cli_mode = "automation" THEN PlainEvent("Ready") ELSE last_event
    /\ UNCHANGED <<cli_mode, cli_config, orc_peer_id, app_running, orc_running, cli_core,
                   cli_transports, cli_handles, cli_paused, cli_commands>>

(* The orchestrator *)

\* Only BLE is ever started; the Nostr transport is skipped.
start_configured_transports(enabled) == ToSet(enabled) \cap {"ble"}

\* CliAppOrchestrator::start: the core is spawned first, then the transports.
orchestrator_start(started) ==
    LET ok == started # {}
    IN /\ orc_running' = ok /\ cli_core' = ok
       /\ cli_transports' = started /\ cli_handles' = started
       /\ cli_paused' = [t \in ChannelTransport |-> IF t \in started THEN "no" ELSE "unknown"]

\* BitchatCliApp::new, which starts the orchestrator; without an identity or a
\* transport the process ends, and its tasks with it.
app_new ==
    /\ cli_process = "announced"
    /\ LET id == get_peer_id(cli_config, cli_clock + 1)
           started == IF id = NoId THEN {}
                      ELSE start_configured_transports(get_enabled_transports(cli_config))
           ok == started # {}
       IN  /\ cli_clock' = cli_clock + 1
           /\ orc_peer_id' = IF ok THEN id ELSE NoId
           /\ cli_process' = IF ok THEN "running" ELSE "exited"
           /\ app_running' = ok
           /\ orchestrator_start(started)
    /\ UNCHANGED <<cli_mode, cli_config, cli_announced, last_event, cli_commands>>

ReadLine ==
    /\ cli_process = "running" /\ app_running /\ cli_commands < MaxCliCommands
    /\ cli_commands' = cli_commands + 1
    /\ UNCHANGED <<cli_mode, cli_config, cli_announced, orc_peer_id, cli_clock>>

\* Whatever the result, the automation is told a status.
TransportStatus(t, status) == last_event' = JsonEvent("TransportStatusChanged", t, status)

BugPause(t) ==
    /\ ReadLine /\ cli_mode = "automation" /\ orc_running
    /\ cli_paused' = [cli_paused EXCEPT ![t] = IF @ = "no" THEN "yes" ELSE @]
    /\ cli_handles' = cli_handles \ {t}
    /\ TransportStatus(t, "paused")
    /\ UNCHANGED <<cli_transports, cli_process, app_running, orc_running, cli_core>>
pause_transport(t) ==
    /\ ReadLine /\ cli_mode = "automation" /\ orc_running
    /\ IF cli_paused[t] = "no" /\ t \in cli_handles
       THEN /\ cli_handles' = cli_handles \ {t}
            /\ cli_transports' = cli_transports \ {t}
            /\ cli_paused' = [cli_paused EXCEPT ![t] = "yes"]
       ELSE UNCHANGED <<cli_handles, cli_transports, cli_paused>>
    /\ TransportStatus(t, "paused")
    /\ UNCHANGED <<cli_process, app_running, orc_running, cli_core>>

\* It is marked as resumed; no task is started.
resume_transport(t) ==
    /\ ReadLine /\ cli_mode = "automation" /\ orc_running
    /\ IF cli_paused[t] = "yes"
       THEN cli_paused' = [cli_paused EXCEPT ![t] = "no"]
       ELSE UNCHANGED cli_paused
    /\ TransportStatus(t, "active")
    /\ UNCHANGED <<cli_handles, cli_transports, cli_process, app_running, orc_running, cli_core>>

(* The other commands *)

\* send, private, connect, discover and stop-discovery put a command into the
\* core's channel, whose other end is the core.
CliCoreCommand == {"SendMessage", "ConnectToPeer", "StartDiscovery", "StopDiscovery"}

terminal_command(c) ==
    /\ ReadLine /\ orc_running
    /\ last_event' = CASE cli_mode # "automation" -> last_event
                       [] ~cli_core -> PlainEvent("error")
                       [] c = "StartDiscovery" -> PlainEvent("DiscoveryStateChanged")
                       [] c = "SendMessage" -> PlainEvent("MessageSent")
                       [] OTHER -> last_event
    /\ UNCHANGED <<cli_process, app_running, orc_running, cli_core, cli_transports, cli_handles, cli_paused>>

\* configure answers with the kind of setting and applies nothing.
configure_events == {"RekeyThresholdSet", "RekeyIntervalSet", "SessionStateChanged",
                     "ConfigurationError", "ConfigurationChanged"}
session_reports == {"SystemStatusReport", "SessionList", "SessionStats", "SessionCleanup",
                    "CryptographicValidation", "SessionSecurity"}
rekey_reports == {"SessionRekeyStarted", "SessionRekeyForced", "RekeyStatusReport", "ProtocolVersion"}
compatibility_reports == {"TransportCompatibilityTest", "ErrorHandlingTest", "CompatibilityReport"}

\* The answers that are the same whatever the application does.
automation_report(type) ==
    /\ ReadLine /\ cli_mode = "automation"
    /\ last_event' = PlainEvent(type)
    /\ UNCHANGED <<cli_process, app_running, orc_running, cli_core, cli_transports, cli_handles, cli_paused>>

\* help, status, peers and clear print, and so does an unknown command.
print_command ==
    /\ ReadLine /\ cli_mode # "automation"
    /\ UNCHANGED <<last_event, cli_process, app_running, orc_running, cli_core, cli_transports,
                   cli_handles, cli_paused>>

cli_quit ==
    /\ ReadLine
    /\ app_running' = FALSE
    /\ last_event' = IF cli_mode = "automation" THEN PlainEvent("Shutdown") ELSE last_event
    /\ UNCHANGED <<cli_process, orc_running, cli_core, cli_transports, cli_handles, cli_paused>>

orchestrator_stop ==
    /\ orc_running' = FALSE /\ cli_core' = FALSE
    /\ cli_transports' = {} /\ cli_handles' = {}
    /\ cli_paused' = [t \in ChannelTransport |-> "unknown"]

\* BitchatCliApp::stop returns at once when quit already cleared the flag, and the
\* interactive mode does not call it.
app_stop ==
    IF app_running /\ cli_mode # "interactive"
    THEN app_running' = FALSE /\ orchestrator_stop
    ELSE UNCHANGED <<app_running, orc_running, cli_core, cli_transports, cli_handles, cli_paused>>

\* End of input, or the turn of the loop after quit; the tasks end with the process.
leave_loop ==
    /\ cli_process = "running"
    /\ app_stop
    /\ cli_process' = "exited"
    /\ UNCHANGED <<cli_mode, cli_config, cli_announced, orc_peer_id, cli_clock, last_event, cli_commands>>

\* A task ends by itself, for example because its adapter is missing.
task_ends ==
    /\ cli_process = "running"
    /\ \/ cli_core' = FALSE /\ cli_core /\ UNCHANGED cli_transports
       \/ \E t \in cli_transports : cli_transports' = cli_transports \ {t} /\ UNCHANGED cli_core
    /\ UNCHANGED <<cli_mode, cli_process, cli_config, cli_announced, orc_peer_id, cli_clock, app_running,
                   orc_running, cli_handles, cli_paused, last_event, cli_commands>>

CliNext ==
    \/ \E f \in FileLayer, e \in EnvLayer, a \in ArgLayer : load_config(f, e, a)
    \/ cli_announce \/ app_new
    \/ \E t \in ChannelTransport : pause_transport(t) \/ resume_transport(t)
    \/ \E c \in CliCoreCommand : terminal_command(c)
    \/ \E r \in configure_events \cup session_reports \cup rekey_reports \cup compatibility_reports :
           automation_report(r)
    \/ print_command \/ cli_quit \/ leave_loop \/ task_ends

CliSpec == CliInit /\ [][CliNext]_cliVars

-----------------------------------------------------------------------------
(* Properties *)

\* A transport that counts as paused has no task, through any number of pauses and
\* resumptions, and though a resumption starts none.
PausedIsQuiet == \A t \in ChannelTransport : cli_paused[t] = "yes" => t \notin cli_transports

\* A configuration that was accepted gets the application going unless it lacks the
\* one transport the orchestrator can start: no identity is refused afterwards.
AcceptedStarts ==
    cli_process = "exited" /\ orc_peer_id = NoId =>
        \/ ~cli_validate(cli_config)
        \/ "ble" \notin ToSet(get_enabled_transports(cli_config))

\* The peer id a user or an automation is told is the one the application uses, when
\* an identity or a name is configured.
NamedIdentityStable ==
    cli_announced # NoId /\ orc_peer_id # NoId /\ (cli_config.peer_id # NotSet \/ cli_config.name # NotSet)
        => cli_announced = orc_peer_id

\* The application does what its configuration and its commands say: it starts, goes
\* by one identity, and a paused transport is quiet.
CliSound == PausedIsQuiet /\ AcceptedStarts /\ NamedIdentityStable
=============================================================================
