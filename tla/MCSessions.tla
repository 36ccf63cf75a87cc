----------------------------- MODULE MCSessions -----------------------------
(* Sessions and identities for model checking: Noise peers with one session *)
(* each, the verification of a contact by QR code, and the store of         *)
(* identities. The three share no state, so an instance is one of them at a *)
(* time.                                                                    *)
EXTENDS NoiseSession, Verification, IdentityManager, TLC

CONSTANTS n1, n2, n3

VARIABLE turn  \* the component this behaviour is about

MCNode == {n1, n2, n3}

\* Every state but the names of the nodes is the same after a swap.
NodeSymmetry == Permutations(MCNode)

allVars == <<turn, vars, vVars, idVars>>

\* Idle times are told apart in one handshake between no more than two sessions.
Sessions == {x \in Node \X PeerId : IsSession(x[1], x[2])}
IdleBound ==
    \/ Cardinality(Sessions) <= 2 /\ nextId <= XXMessages
    \/ \A x \in Sessions : sessions[x[1]][x[2]].idle = 0
NoiseNext == Next /\ IdleBound'

SessionsInit ==
    /\ turn \in {"noise", "verify", "identity"}
    /\ Init /\ VInit /\ IdInit

SessionsNext ==
    \/ turn = "noise" /\ NoiseNext /\ UNCHANGED <<turn, vVars, idVars>>
    \/ turn = "verify" /\ VNext /\ UNCHANGED <<turn, vars, idVars>>
    \/ turn = "identity" /\ IdNext /\ UNCHANGED <<turn, vars, vVars>>
    \/ turn # "noise" /\ UNCHANGED allVars

SessionsSpec == SessionsInit /\ [][SessionsNext]_allVars
=============================================================================
