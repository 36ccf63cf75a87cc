------------------------------- MODULE MCLinks -------------------------------
(* Connections and transports for model checking: the connection manager,   *)
(* the rate limiter, the BLE link and its advertising, and the Nostr        *)
(* transport and its relays. They are checked one at a time: the code calls *)
(* none of them from another.                                               *)
EXTENDS ConnectionManager, RateLimiter, BleLink, BleAdvertising, NostrTransport,
        RelayManager, TLC

CONSTANTS p1, p2, q1, q2, q3

VARIABLE turn  \* the component this behaviour is about

MCPeer == {p1, p2}
MCRatePeer == {q1, q2, q3}
LinkSymmetry == Permutations(MCPeer) \cup Permutations(MCRatePeer)

\* One relay scores better than the other and is the nearer one in one place.
MCScore == [u \in Relay |-> IF u = "r1" THEN 8 ELSE 7]
MCNear == ("" :> <<>>) @@ ("u4" :> <<{"r1"}, {"r1", "r2"}>>)

allVars == <<turn, connVars, rateVars, bleVars, adVars, nostrVars, relayVars>>

\* Of the components that are not its subject a behaviour has one initial state.
LinksInit ==
    /\ turn \in {"connections", "rates", "ble", "advertising", "nostr", "relays"}
    /\ ConnInit /\ RateInit /\ BleInit /\ AdInit /\ NostrInit /\ RelayInit
    /\ turn # "advertising" => platform = "Linux"
    /\ turn # "nostr" => \A n \in NNode : embedding_strategy[n] = "CustomKind"

LinksNext ==
    \/ /\ turn = "connections" /\ ConnNext
       /\ UNCHANGED <<turn, rateVars, bleVars, adVars, nostrVars, relayVars>>
    \/ /\ turn = "rates" /\ RateNext
       /\ UNCHANGED <<turn, connVars, bleVars, adVars, nostrVars, relayVars>>
    \/ /\ turn = "ble" /\ BleNext
       /\ UNCHANGED <<turn, connVars, rateVars, adVars, nostrVars, relayVars>>
    \/ /\ turn = "advertising" /\ AdNext
       /\ UNCHANGED <<turn, connVars, rateVars, bleVars, nostrVars, relayVars>>
    \/ /\ turn = "nostr" /\ NostrNext
       /\ UNCHANGED <<turn, connVars, rateVars, bleVars, adVars, relayVars>>
    \/ /\ turn = "relays" /\ RelayNext
       /\ UNCHANGED <<turn, connVars, rateVars, bleVars, adVars, nostrVars>>
    \/ turn \notin {"connections", "rates"} /\ UNCHANGED allVars

LinksSpec == LinksInit /\ [][LinksNext]_allVars
=============================================================================
