------------------------------ MODULE MCPackets ------------------------------
(* From a message to the transport that carries it, for model checking: the *)
(* message store, the encodings of payloads and packets, fragments, files   *)
(* in chunks, and the choice of a transport. They pass one another values   *)
(* only, so each is checked on its own.                                     *)
EXTENDS Fragmentation, PacketCodec, PayloadCodec, FileTransfer, Failover, MessageStore

CONSTANTS s1, s2, i1

VARIABLE turn  \* the component this behaviour is about

\* Messages of one, two and three fragments of two bytes, the last one short.
TwoSenders == {s1, s2}
OneId == {i1}
Short == [data |-> <<1>>, type |-> 1]
Long == [data |-> <<2, 3, 4>>, type |-> 1]
Reversed == [data |-> <<4, 3, 2>>, type |-> 1]
Longer == [data |-> <<5, 6, 7, 8, 9>>, type |-> 2]
TooLong == [data |-> <<1, 2, 3, 4, 5, 6, 7>>, type |-> 1]
NoData == [data |-> <<>>, type |-> 1]
EveryMessage == {NoData, Short, Long, Reversed, Longer, TooLong}

\* Payloads that end like padding, that compress, and that reach a block's size.
Bytes(n, byte) == [i \in 1..n |-> byte]
MCPayload == {Bytes(0, 0), Bytes(4, 9), <<9, 2, 2>>, <<9, 3, 3>>, Bytes(15, 9), Bytes(18, 9), Bytes(15, 1)}
MCSignature == {Bytes(4, 9), <<9, 9, 9, 1>>, Bytes(4, 4)}
MCBlocks == <<16, 32>>

\* Texts around the largest length byte, and lists of neighbours around theirs.
MCTexts == {<<>>, <<1, 1, 1>>, <<2, 2, 2, 2>>}
MCNeighbours == {Missing, <<>>, <<1>>, <<1, 2>>}

\* Anybody by Nostr, or BLE; one peer by BLE and nothing else.
MCRules ==
    {[context |-> "any", preferred |-> "Nostr", fallback |-> TRUE, priority |-> 1, enabled |-> TRUE],
     [context |-> "peers", preferred |-> "Ble", fallback |-> FALSE, priority |-> 2, enabled |-> TRUE]}

allVars == <<turn, vars, codecVars, payloadVars, transferVars, routeVars, storeVars>>

\* Of the components that are not its subject a behaviour has one initial state.
PacketsInit ==
    /\ turn \in {"fragments", "packets", "payloads", "files", "routes", "store"}
    /\ Init /\ CodecInit /\ PayloadInit /\ TransferInit /\ RouteInit /\ StoreInit
    /\ turn # "routes" => advanced

PacketsNext ==
    \/ /\ turn = "fragments" /\ Next
       /\ UNCHANGED <<turn, codecVars, payloadVars, transferVars, routeVars, storeVars>>
    \/ /\ turn = "packets" /\ CodecNext
       /\ UNCHANGED <<turn, vars, payloadVars, transferVars, routeVars, storeVars>>
    \/ /\ turn = "payloads" /\ PayloadNext
       /\ UNCHANGED <<turn, vars, codecVars, transferVars, routeVars, storeVars>>
    \/ /\ turn = "files" /\ TransferNext
       /\ UNCHANGED <<turn, vars, codecVars, payloadVars, routeVars, storeVars>>
    \/ /\ turn = "routes" /\ RouteNext
       /\ UNCHANGED <<turn, vars, codecVars, payloadVars, transferVars, storeVars>>
    \/ /\ turn = "store" /\ StoreNext
       /\ UNCHANGED <<turn, vars, codecVars, payloadVars, transferVars, routeVars>>
    \/ turn # "fragments" /\ UNCHANGED allVars

PacketsSpec == PacketsInit /\ [][PacketsNext]_allVars
=============================================================================
