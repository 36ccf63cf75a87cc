----------------------------- MODULE MCNetworks -----------------------------
(* Networks for model checking: the mesh of BLE nodes, and the simulator's  *)
(* network, clock and scenarios that stand for it in tests. A behaviour is  *)
(* about one of them; the mesh at rest owes no step, so its fairness asks   *)
(* nothing of the simulator.                                                *)
EXTENDS MeshForwarding, SimulatedNetwork, VirtualClock, SimulationRun

CONSTANTS a, b, c, d, p

VARIABLE turn  \* the component this behaviour is about

ThreeNodes == {a, b, c}
FourNodes == {a, b, c, d}

\* The links of an undirected graph on a set of nodes.
Linked(nodes, edges) == [n \in nodes |-> {m \in nodes : {n, m} \in edges}]

Line3 == Linked(ThreeNodes, {{a, b}, {b, c}})
Line4 == Linked(FourNodes, {{a, b}, {b, c}, {c, d}})
Square == Linked(FourNodes, {{a, b}, {b, c}, {c, d}, {d, a}})
Kite == Linked(FourNodes, {{a, b}, {b, c}, {b, d}, {c, d}})
Complete4 == Linked(FourNodes, {e \in SUBSET FourNodes : Cardinality(e) = 2})

Large == {Line4, Square, Kite, Complete4}
OnlyLine == {Line3}

\* A network without faults, and one that loses, delays and duplicates.
Effects(loses, latencies, duplicates) ==
    [loses |-> loses, latencies |-> latencies, duplicates |-> duplicates]
MCProfile == [Perfect |-> Effects(FALSE, {0}, {FALSE}), Custom |-> Effects(TRUE, {0, 1}, BOOLEAN)]

allVars == <<turn, vars, netVars, clockVars, runVars>>

\* Of the components that are not its subject a behaviour has one initial state.
NetworksInit ==
    /\ turn \in {"mesh", "network", "clock", "scenario"}
    /\ Init /\ NetInit /\ ClockInit /\ RunInit
    /\ turn # "mesh" => ~faulty /\ links = CHOOSE l \in Topologies : TRUE
    /\ turn # "network" => net_profile = "Perfect"

NetworksNext ==
    \/ turn = "mesh" /\ Next /\ UNCHANGED <<turn, netVars, clockVars, runVars>>
    \/ turn = "network" /\ NetNext /\ UNCHANGED <<turn, vars, clockVars, runVars>>
    \/ turn = "clock" /\ ClockNext /\ UNCHANGED <<turn, vars, netVars, runVars>>
    \/ turn = "scenario" /\ RunNext /\ UNCHANGED <<turn, vars, netVars, clockVars>>

NetworksSpec ==
    NetworksInit /\ [][NetworksNext]_allVars /\ \A n \in Node : WF_vars(Handle(n))
=============================================================================
