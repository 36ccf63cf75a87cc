----------------------------- MODULE MCMessaging -----------------------------
(* Messages and what peers agree upon, for model checking: delivery and     *)
(* receipts, duplicate detection, groups, and capabilities. None of them    *)
(* calls another, so each is checked on its own.                            *)
EXTENDS Delivery, Deduplication, GroupMessaging, Capabilities, TLC

CONSTANTS u1, u2, m1, m2

VARIABLES
    turn,  \* the component this behaviour is about
    pair   \* the two builds it is about, if that is the capabilities

OneUuid == {u1}
TwoUuids == {u1, u2}
OneId == {m1}
TwoIds == {m1, m2}
Config(retries, delay, multiplier, cap, timeout) ==
    [max_retries |-> retries, initial_retry_delay |-> delay, backoff_multiplier |-> multiplier,
     max_retry_delay |-> cap, confirmation_timeout |-> timeout]

\* Attempts that run out before the confirmation times out, and delays that
\* grow up to their cap.
TwoConfigs == {Config(2, 1, 2, 1, 1), Config(3, 1, 3, 2, 1)}
OneConfig == {Config(2, 1, 2, 1, 1)}

\* Receipts of both kinds on, or of both off.
OnOff == {[k \in Receipt |-> on] : on \in BOOLEAN}
Symmetry == Permutations(TwoUuids) \cup Permutations(TwoIds)

\* Three packets, two of which share a bit of the filter.
MCBitsOf == <<{0, 1}, {1, 2}, {3, 4}>>

\* Builds of three ages: one version, its successor, and the next major one.
Version(major, minor) == [major |-> major, minor |-> minor]
MCCapNode == {"n1", "n2", "n3"}
MCVersions == [n1 |-> <<Version(1, 0)>>, n2 |-> <<Version(1, 1), Version(2, 0)>>,
               n3 |-> <<Version(2, 0), Version(1, 0)>>]
Cap(version, parameters) == [version |-> version, parameters |-> parameters]
MCLocalCaps == [n1 |-> [core |-> Cap("1.0", {}), files |-> Cap("1.0", {"x"})],
                n2 |-> [core |-> Cap("1.1", {}), files |-> Cap("2.0", {"x", "y"}),
                        groups |-> Cap("1.0", {"z"})],
                n3 |-> [core |-> Cap("1.0", {})]]

allVars == <<turn, pair, vars, dedupVars, groupVars, capVars>>

\* Of the components that are not its subject a behaviour has one initial state.
MessagingInit ==
    /\ turn \in {"delivery", "filters", "group", "capabilities"}
    /\ Init /\ DedupInit /\ GroupInit /\ CapInit
    /\ turn # "delivery" => config = CHOOSE k \in Configs : TRUE
    /\ pair \in {{n, o} : n, o \in CapNode} \ {{n} : n \in CapNode}
    /\ turn # "capabilities" => pair = CHOOSE s \in SUBSET CapNode : Cardinality(s) = 2

\* A node's entries of different peers do not meet, so two builds are looked at together.
AmongThePair ==
    /\ \A m \in cap_net' : {m.from, m.to} = pair
    /\ \A n, o \in CapNode : {n, o} # pair =>
           peer_capabilities'[n][o] = peer_capabilities[n][o]

MessagingNext ==
    \/ /\ turn = "delivery" /\ Next
       /\ UNCHANGED <<turn, pair, dedupVars, groupVars, capVars>>
    \/ /\ turn = "filters" /\ DedupNext
       /\ UNCHANGED <<turn, pair, vars, groupVars, capVars>>
    \/ /\ turn = "group" /\ GroupNext
       /\ UNCHANGED <<turn, pair, vars, dedupVars, capVars>>
    \/ /\ turn = "capabilities" /\ CapNext /\ AmongThePair
       /\ UNCHANGED <<turn, pair, vars, dedupVars, groupVars>>
    \/ turn # "delivery" /\ UNCHANGED allVars

MessagingSpec == MessagingInit /\ [][MessagingNext]_allVars
=============================================================================
