------------------------------- MODULE BleLink -------------------------------
(***************************************************************************)
(* The peer table of the BLE transport (bitchat-ble, transport.rs, peer.rs,*)
(* discovery.rs, connection.rs, protocol.rs): devices are discovered by    *)
(* their signed advertisements, connected, lost and dropped again, and the *)
(* transport's loop scans and does its maintenance between effects and     *)
(* packets. The radio (external) shows advertisements, also old ones and   *)
(* under another name, connects or not, and loses links.                   *)
(***************************************************************************)
EXTENDS Integers, FiniteSets

CONSTANTS
    BPeer,          \* peer ids, each the fingerprint of the key of the same name
    AdMaxAge,       \* 60 s, the age at which an advertisement is refused
    RetryStep,      \* 5 s, the wait grows by with every attempt
    MaxRetries,     \* 3
    StaleAge,       \* 300 s
    ScanAfter, MaintainAfter,  \* the timers of the loop, 5 s and 30 s
    MaxAds          \* bound: advertisements on the air

ASSUME BleConstants == /\ ScanAfter \in Nat \ {0} /\ MaintainAfter \in Nat
                       /\ MaxRetries \in Nat /\ RetryStep \in Nat /\ StaleAge \in Nat
                       /\ "free" \notin BPeer

VARIABLES
    ble_peers,     \* ble_peers[p]: BlePeer or NoPeer
    cached_peers,  \* cached_peers[p]: how often the vector names p; its order is never read
    ads,           \* advertisements on the air, with their age
    table_lock,    \* the peer connect_to_peer holds the table's lock for, or Free
    link,          \* links that are up
    receiving,     \* peers with a notification task
    loop_idle      \* time since the loop's last turn

bleVars == <<ble_peers, cached_peers, ads, table_lock, link, receiving, loop_idle>>

Free == "free"
NoPeer == [connection_state |-> "none"]
KnownPeers == {p \in BPeer : ble_peers[p] # NoPeer}
\* BlePeer::new; attempt_age -1 for last_connection_attempt None.
NewPeer == [connection_state |-> "Disconnected", attempt_age |-> -1, retry_count |-> 0]
AgeCap == StaleAge + 1

\* mark_connected, mark_disconnected and mark_failed.
Marked(b, state, retries) ==
    [connection_state |-> state, attempt_age |-> b.attempt_age, retry_count |-> retries]

BleInit ==
    /\ ble_peers = [p \in BPeer |-> NoPeer] /\ cached_peers = [p \in BPeer |-> 0]
    /\ ads = {} /\ table_lock = Free /\ link = {} /\ receiving = {}
    /\ loop_idle = 0

\* A transport signs the peer id it was given, which need not belong to its key, and
\* the device name made from it.
generate_advertising_data(peer, signer, shown) ==
    /\ Cardinality(ads) < MaxAds
    /\ ads' = ads \cup {[peer_id |-> peer, signer |-> signer, signed_name |-> peer,
                         device_name |-> shown, age |-> 0]}
    /\ UNCHANGED <<ble_peers, cached_peers, table_lock, link, receiving, loop_idle>>

BugVerifyAd(a) == a.age <= AdMaxAge /\ a.signed_name = a.device_name
VerifyAd(a) ==
    /\ a.age <= AdMaxAge
    /\ a.signer = a.peer_id
    /\ a.signed_name = a.device_name

extract_and_verify_peer_id(a) == VerifyAd(a) /\ a.device_name = a.peer_id

\* The first peripheral seen for a peer id stays.
process_discovery_event(a) ==
    /\ table_lock = Free
    /\ extract_and_verify_peer_id(a)
    /\ a.peer_id \notin KnownPeers
    /\ ble_peers' = [ble_peers EXCEPT ![a.peer_id] = NewPeer]
    /\ cached_peers' = [cached_peers EXCEPT ![a.peer_id] = @ + 1]
    /\ UNCHANGED <<ads, table_lock, link, receiving, loop_idle>>

\* CentralEvent::DeviceDisconnected, some time after the link went down.
device_disconnected(p) ==
    /\ table_lock = Free /\ p \in KnownPeers /\ p \notin link
    /\ ble_peers' = [ble_peers EXCEPT ![p] = Marked(@, "Disconnected", @.retry_count)]
    /\ receiving' = receiving \ {p}
    /\ UNCHANGED <<cached_peers, ads, table_lock, link, loop_idle>>

link_lost(p) ==
    /\ p \in link
    /\ link' = link \ {p}
    /\ UNCHANGED <<ble_peers, cached_peers, ads, table_lock, receiving, loop_idle>>

can_retry(b) ==
    /\ b.retry_count < MaxRetries
    /\ b.attempt_age = -1 \/ b.attempt_age > b.retry_count * RetryStep

\* connect_to_peer keeps the write lock until the platform has answered.
connect_to_peer(p) ==
    /\ table_lock = Free /\ p \in KnownPeers
    /\ ble_peers[p].connection_state \notin {"Connected", "Connecting"}
    /\ can_retry(ble_peers[p])
    /\ table_lock' = p
    /\ ble_peers' = [ble_peers EXCEPT ![p] = [connection_state |-> "Connecting", attempt_age |-> 0,
                                              retry_count |-> @.retry_count + 1]]
    /\ UNCHANGED <<cached_peers, ads, link, receiving, loop_idle>>

\* Connected and subscribed; connected without a subscription; connected without
\* services; refused or timed out.
connect_result(p, outcome) ==
    /\ table_lock = p
    /\ table_lock' = Free
    /\ ble_peers' = [ble_peers EXCEPT ![p] =
           CASE outcome \in {"subscribed", "unsubscribed"} ->
                    Marked(@, "Connected", 0)
             [] outcome = "no services" -> Marked(@, "Failed", 0)
             [] OTHER -> Marked(@, "Failed", @.retry_count)]
    /\ link' = IF outcome = "refused" THEN link ELSE link \cup {p}
    /\ receiving' = IF outcome = "subscribed" THEN receiving \cup {p} ELSE receiving
    /\ UNCHANGED <<cached_peers, ads, loop_idle>>

HangUp(S) ==
    /\ ble_peers' = [p \in BPeer |->
           IF p \in S \cap KnownPeers /\ ble_peers[p].connection_state = "Connected"
           THEN Marked(ble_peers[p], "Disconnected", ble_peers[p].retry_count) ELSE ble_peers[p]]
    /\ link' = link \ {p \in S \cap KnownPeers : ble_peers[p].connection_state = "Connected"}
    /\ receiving' = receiving \ {p \in S \cap KnownPeers : ble_peers[p].connection_state = "Connected"}

disconnect_peer(p) ==
    /\ table_lock = Free
    /\ HangUp({p})
    /\ UNCHANGED <<cached_peers, ads, table_lock, loop_idle>>

disconnect_all_peers ==
    /\ table_lock = Free
    /\ HangUp(BPeer)
    /\ UNCHANGED <<cached_peers, ads, table_lock, loop_idle>>

\* The loop's turns. The effect InitiateConnection makes no connection: the core is
\* told ConnectionEstablished for a peer that is merely known.
initiate_connection(p) ==
    /\ table_lock = Free /\ p \in KnownPeers
    /\ loop_idle' = 0
    /\ UNCHANGED <<ble_peers, cached_peers, ads, table_lock, link, receiving>>

\* An announce packet neither adds a peer nor changes one.
handle_announce_packet(p) ==
    /\ p \in receiving /\ p \in link
    /\ loop_idle' = 0
    /\ UNCHANGED <<ble_peers, cached_peers, ads, table_lock, link, receiving>>

perform_discovery_scan ==
    /\ loop_idle >= ScanAfter
    /\ loop_idle' = 0
    /\ UNCHANGED <<ble_peers, cached_peers, ads, table_lock, link, receiving>>

StalePeers == {p \in KnownPeers : ble_peers[p].attempt_age > StaleAge}

RemoveCached(S) == cached_peers' = [p \in BPeer |-> IF p \in S THEN 0 ELSE cached_peers[p]]

perform_maintenance ==
    /\ loop_idle >= MaintainAfter /\ table_lock = Free
    /\ loop_idle' = 0
    /\ ble_peers' = [p \in BPeer |-> IF p \in StalePeers THEN NoPeer ELSE ble_peers[p]]
    /\ RemoveCached(StalePeers)
    /\ UNCHANGED <<ads, table_lock, link, receiving>>

Older == [p \in BPeer |->
    IF p \in KnownPeers /\ ble_peers[p].attempt_age \in 0..(AgeCap - 1)
    THEN [ble_peers[p] EXCEPT !.attempt_age = @ + 1] ELSE ble_peers[p]]
AgedAds == {[a EXCEPT !.age = @ + 1] : a \in {b \in ads : b.age <= AdMaxAge}}

\* Timers are served when they are due.
BleTick ==
    /\ loop_idle < ScanAfter
    /\ loop_idle' = loop_idle + 1
    /\ ble_peers' = Older /\ ads' = AgedAds
    /\ UNCHANGED <<cached_peers, table_lock, link, receiving>>

\* The process is not scheduled until both timers are due.
suspended ==
    /\ loop_idle < MaintainAfter
    /\ loop_idle' = MaintainAfter
    /\ ble_peers' = Older /\ ads' = AgedAds
    /\ UNCHANGED <<cached_peers, table_lock, link, receiving>>

BleNext ==
    \/ \E p \in BPeer :
           \/ device_disconnected(p) \/ link_lost(p) \/ connect_to_peer(p)
           \/ disconnect_peer(p) \/ initiate_connection(p) \/ handle_announce_packet(p)
           \/ \E o \in {"subscribed", "unsubscribed", "no services", "refused"} : connect_result(p, o)
           \/ \E q, r \in BPeer : generate_advertising_data(p, q, r)
    \/ \E a \in ads : process_discovery_event(a)
    \/ disconnect_all_peers \/ perform_discovery_scan \/ perform_maintenance \/ BleTick \/ suspended

\* Time passes and a timer that is due is served; the platform answers.
BleFairness ==
    /\ WF_bleVars(BleTick) /\ WF_bleVars(perform_discovery_scan) /\ SF_bleVars(perform_maintenance)
    /\ \A p \in BPeer : WF_bleVars(\E o \in {"subscribed", "refused"} : connect_result(p, o))

BleSpec == BleInit /\ [][BleNext]_bleVars
BleFairSpec == BleSpec /\ BleFairness

-----------------------------------------------------------------------------
(* Properties *)

\* discovered_peers tells exactly the peers of the table, each of them once, though
\* the list is kept apart from it.
CachedMatchesPeers ==
    \A p \in BPeer : cached_peers[p] = IF p \in KnownPeers THEN 1 ELSE 0

\* No peer enters the table by an advertisement its own key did not sign, or signed
\* for another device's name.
PeersGenuine ==
    \A p \in BPeer : ble_peers[p] = NoPeer /\ ble_peers'[p] # NoPeer =>
        \E a \in ads : a.peer_id = p /\ a.signer = p /\ a.device_name = p

\* A peer whose last attempt is older than five minutes is taken out of the table in
\* time ("Periodic maintenance", transport.rs:154).
StaleRemoved == \A p \in BPeer : p \in StalePeers ~> p \notin StalePeers

\* The table of peers is genuine and its cached copy exact (process_discovery_event,
\* perform_maintenance).
PeerTableSound == [][CachedMatchesPeers' /\ PeersGenuine]_bleVars
=============================================================================
