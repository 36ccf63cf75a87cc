---------------------------- MODULE SimulationRun ----------------------------
(***************************************************************************)
(* The executor that plays a scenario against simulated peers              *)
(* (simulator/virtual, simulation_executor.rs, with the report of          *)
(* simulator/shared): setup, one step after the other at its virtual time, *)
(* the final checks, cleanup; the same executor may play another scenario. *)
(* The steps of a scenario are chosen as it runs. Contents are values; the *)
(* durations of the code are constants in one unit.                        *)
(***************************************************************************)
EXTENDS Integers, Sequences, FiniteSets, Functions

CONSTANTS
    Player,          \* peers of a scenario
    Stranger,        \* a name no peer of a scenario has
    Line,            \* message contents
    StepTime,        \* times a step may be planned for
    BaseLatency, HandshakeTime,
    MaxSteps,        \* bound: steps of a scenario
    MaxScenarios     \* bound: scenarios

ASSUME RunConstants == IsFiniteSet(Player) /\ MaxSteps \in Nat /\ MaxScenarios \in Nat

VARIABLES
    exec_state,      \* "Uninitialized", "Ready" or "Completed"
    players,         \* per player: sent, received, connected, session
    clock_now,       \* the virtual clock, which setup leaves alone
    sim_metrics,
    report,          \* results of actions and checks, and the verdict
    planned,         \* the time the current step was planned for
    steps_done, scenarios,
    sent_now         \* messages sent in this scenario

runVars == <<exec_state, players, clock_now, sim_metrics, report, planned, steps_done, scenarios, sent_now>>

NewPlayer == [sent |-> 0, received |-> <<>>, connected |-> {}, session |-> "Disconnected"]
NewReport == [failed_actions |-> 0, checks |-> {}, result |-> "Passed"]
NewMetrics == [sent |-> 0, received |-> 0]

RunInit ==
    /\ exec_state = "Uninitialized" /\ players = [p \in Player |-> NewPlayer] /\ clock_now = 0
    /\ sim_metrics = NewMetrics /\ report = NewReport /\ planned = 0
    /\ steps_done = 0 /\ scenarios = 0 /\ sent_now = {}

BugScenarioSetup ==
    /\ exec_state # "Ready" /\ scenarios < MaxScenarios
    /\ exec_state' = "Ready"
    /\ sim_metrics' = NewMetrics /\ report' = NewReport /\ planned' = 0
    /\ steps_done' = 0 /\ scenarios' = scenarios + 1 /\ sent_now' = {}
    /\ UNCHANGED <<clock_now, players>>
scenario_setup ==
    /\ exec_state # "Ready" /\ scenarios < MaxScenarios
    /\ exec_state' = "Ready"
    /\ players' = [p \in Player |-> NewPlayer]
    /\ sim_metrics' = NewMetrics /\ report' = NewReport /\ planned' = 0
    /\ steps_done' = 0 /\ scenarios' = scenarios + 1 /\ sent_now' = {}
    /\ UNCHANGED clock_now

\* current_time is a stub that returns zero, so the clock moves by the whole of the
\* planned time, however far it has come already.
current_time == 0
AtStep(t) == clock_now + (IF t > current_time THEN t - current_time ELSE 0)

Step(t, elapsed) ==
    /\ exec_state = "Ready" /\ steps_done < MaxSteps
    /\ steps_done' = steps_done + 1
    /\ planned' = t
    /\ clock_now' = AtStep(t) + elapsed
    /\ UNCHANGED <<exec_state, scenarios>>

\* What a message to some names does to the players: packets are never lost, because
\* nothing sets a loss rate or a partition, and every player runs.
Deliver(from, to, line) ==
    [p \in Player |->
        [sent      |-> players[p].sent + IF p = from THEN Cardinality(to) ELSE 0,
         received  |-> IF p \in to THEN Append(players[p].received, <<from, line>>)
                       ELSE players[p].received,
         connected |-> players[p].connected, session |-> players[p].session]]

send_message(t, from, to, line) ==
    /\ Step(t, IF from \in Player THEN BaseLatency ELSE 0)
    /\ IF from \notin Player
       THEN report' = [report EXCEPT !.failed_actions = @ + 1] /\ UNCHANGED <<players, sim_metrics, sent_now>>
       ELSE /\ players' = Deliver(from, {to}, line)
            /\ sim_metrics' = [sent |-> sim_metrics.sent + 1,
                               received |-> sim_metrics.received + IF to \in Player THEN 1 ELSE 0]
            /\ sent_now' = sent_now \cup {<<from, to, line>>}
            /\ UNCHANGED report

send_broadcast(t, from, line) ==
    LET others == Player \ {from}
    IN /\ Step(t, IF from \in Player THEN BaseLatency * Cardinality(others) ELSE 0)
       /\ IF from \notin Player
          THEN report' = [report EXCEPT !.failed_actions = @ + 1] /\ UNCHANGED <<players, sim_metrics, sent_now>>
          ELSE /\ players' = Deliver(from, others, line)
               /\ sim_metrics' = [sent |-> sim_metrics.sent + Cardinality(others),
                                  received |-> sim_metrics.received + Cardinality(others)]
               /\ sent_now' = sent_now \cup {<<from, to, line>> : to \in others}
               /\ UNCHANGED report

\* Each side is changed if it exists; a stranger on the other side is noted as well.
Relinked(r, connected, session) ==
    [sent |-> r.sent, received |-> r.received, connected |-> connected, session |-> session]
PlayersLinked(ps, p, q) ==
    IF p \notin Player \/ q \in ps[p].connected THEN ps
    ELSE [ps EXCEPT ![p] = Relinked(@, @.connected \cup {q}, "Established")]
Unlinked(ps, p, q) ==
    IF p \notin Player THEN ps
    ELSE [ps EXCEPT ![p] = Relinked(@, @.connected \ {q},
             IF @.connected \ {q} = {} THEN "Disconnected" ELSE @.session)]

connect_peers(t, p, q) ==
    /\ Step(t, HandshakeTime)
    /\ players' = PlayersLinked(PlayersLinked(players, p, q), q, p)
    /\ UNCHANGED <<sim_metrics, report, sent_now>>

disconnect_peers(t, p, q) ==
    /\ Step(t, 0)
    /\ players' = Unlinked(Unlinked(players, p, q), q, p)
    /\ UNCHANGED <<sim_metrics, report, sent_now>>

\* Discovery, waiting and the single-sided connect only take time; partition, heal
\* and network conditions are logged; a check in the middle is made and its result
\* thrown away.
other_step(t, elapsed) ==
    /\ Step(t, elapsed)
    /\ UNCHANGED <<players, sim_metrics, report, sent_now>>

\* These are "simulated": they pass whatever the players' state is, for a name no
\* player has too.
AlwaysPassed == {"PeerDisconnected", "StateReached", "Custom"}

CheckPasses(c) ==
    \/ c.kind \in AlwaysPassed
    \/ /\ c.of \in Player
       /\ CASE c.kind = "MessageDelivered" -> <<c.from, c.line>> \in Range(players[c.of].received)
            [] c.kind = "PeerConnected" -> c.from \in players[c.of].connected
            [] c.kind = "PeerCount" -> Cardinality(players[c.of].connected) = c.count
            [] c.kind = "MessageCount" -> Len(players[c.of].received) = c.count

Check == [kind : {"MessageDelivered"}, of : Player \cup {Stranger}, from : Player, line : Line, count : {0}]
    \cup [kind : {"PeerConnected"}, of : Player, from : Player \cup {Stranger}, line : {"-"}, count : {0}]
    \cup [kind : {"PeerCount", "MessageCount"}, of : Player, from : {Stranger}, line : {"-"}, count : {0, 1}]
    \cup [kind : AlwaysPassed, of : {Stranger}, from : {Stranger}, line : {"-"}, count : {0}]

\* Only a failed check makes the verdict; failed actions are listed and no more.
final_check(c) ==
    /\ exec_state = "Ready" /\ report.checks = {}
    /\ report' = [failed_actions |-> report.failed_actions,
                  checks |-> {[check |-> c, passed |-> CheckPasses(c)]},
                  result |-> IF CheckPasses(c) THEN report.result ELSE "Failed"]
    /\ UNCHANGED <<exec_state, players, clock_now, sim_metrics, planned, scenarios, sent_now>>
    /\ steps_done' = MaxSteps

scenario_cleanup ==
    /\ exec_state = "Ready" /\ report.checks # {}
    /\ exec_state' = "Completed"
    /\ UNCHANGED <<players, clock_now, sim_metrics, report, planned, steps_done, scenarios, sent_now>>

RunNext ==
    \/ scenario_setup \/ scenario_cleanup
    \/ \E c \in Check : final_check(c)
    \/ \E t \in StepTime : \/ \E p, q \in Player \cup {Stranger} : p # q /\ (connect_peers(t, p, q) \/ disconnect_peers(t, p, q))
                           \/ \E p, q \in Player \cup {Stranger}, l \in Line : p # q /\ send_message(t, p, q, l)
                           \/ \E p \in Player \cup {Stranger}, l \in Line : send_broadcast(t, p, l)
                           \/ \E d \in {0, HandshakeTime} : other_step(t, d)

RunSpec == RunInit /\ [][RunNext]_runVars

-----------------------------------------------------------------------------
(* A delivery check that passed is about a message sent in this very        *)
(* scenario to that peer, not one left by an earlier scenario played with   *)
(* the same executor (setup, validate_checks).                              *)
VerdictIsFresh ==
    \A r \in report.checks :
        r.check.kind = "MessageDelivered"
        => (r.passed <=> <<r.check.from, r.check.of, r.check.line>> \in sent_now /\ r.check.of \in Player)

(* The players' views of their connections agree, and a player is in an     *)
(* established session exactly while it has some connection, through any    *)
(* sequence of connects and disconnects (execute_action).                   *)
ConnectionsAgree ==
    \A p \in Player :
        /\ (players[p].session = "Established") <=> (players[p].connected # {})
        /\ \A q \in players[p].connected \cap Player : p \in players[q].connected

\* A scenario's verdict is about that scenario, and the players agree on their
\* connections (setup, validate_checks, execute_action).
RunSound == VerdictIsFresh /\ ConnectionsAgree
==============================================================================
