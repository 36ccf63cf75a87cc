---------------------------- MODULE NostrTransport ----------------------------
(***************************************************************************)
(* NostrTransportTask with its NIP-17 wrapping and bitchat1: embedding     *)
(* (bitchat-nostr, transport.rs, nip17.rs, embedding.rs, message.rs). The  *)
(* relays (external) keep every event published and show each subscriber   *)
(* those its filters admit, in any order, again after a reconnection, or   *)
(* never. A key names who can decrypt with it. The sender and recipient in *)
(* a packet are what its author wrote there; `author` only records who     *)
(* that was.                                                               *)
(***************************************************************************)
EXTENDS Integers, FiniteSets

CONSTANTS
    NNode,          \* transports, each with Nostr keys of its own
    NPeer,          \* peer ids
    PacketSize,     \* sizes of packets
    MaxDataSize,    \* max_data_size
    Offset,         \* how far a gift wrap is dated back
    MaxPublished,   \* bound: events on the relays
    MaxNostrTime    \* bound: the clock

ASSUME NostrConstants ==
    /\ PacketSize \subseteq Nat /\ MaxDataSize \in Nat /\ Offset \subseteq Nat
    /\ "nobody" \notin NNode /\ "ephemeral" \notin NNode

VARIABLES
    local_peer_id,      \* of each transport, NoPeerId before set_local_peer_id
    client,             \* "none", "up" or "failed"; "ended" when the loop over the effects has
    listening,          \* local_peer_id and time of the subscription, or NotListening
    embedding_strategy,
    relays,             \* events published
    core_events,        \* what each listener forwarded to its core
    nostr_now

nostrVars == <<local_peer_id, client, listening, embedding_strategy, relays, core_events, nostr_now>>

Everyone == "everyone"   \* recipient_id None
NoPeerId == "no peer id"
NotListening == [as |-> NoPeerId, since |-> -1]
Recipient == NPeer \cup {Everyone}
Packet(from, to, size) == [sender |-> from, recipient |-> to, size |-> size]
OwnKey(n) == [owner |-> n]
NobodysKey == [owner |-> "nobody"]
Readable == [owner |-> "public"]

\* SHA-256 of the peer id, taken as a public key: no node holds the secret key of it.
peer_id_to_pubkey(p) == NobodysKey
\* Keys::generate: the secret key is dropped with the value.
GeneratedKey == NobodysKey

NostrInit ==
    /\ local_peer_id = [n \in NNode |-> NoPeerId]
    /\ client = [n \in NNode |-> "none"] /\ listening = [n \in NNode |-> NotListening]
    /\ embedding_strategy \in [NNode -> {"PrivateMessage", "PublicGeohash", "CustomKind"}]
    /\ relays = {} /\ core_events = [n \in NNode |-> {}] /\ nostr_now = 0

\* The loop over the effects borrows the transport while it runs.
set_local_peer_id(n, p) ==
    /\ client[n] # "up"
    /\ local_peer_id' = [local_peer_id EXCEPT ![n] = p]
    /\ UNCHANGED <<client, listening, embedding_strategy, relays, core_events, nostr_now>>

\* A relay URL that does not parse ends the task; a relay that cannot be added is
\* skipped. The listener, a task of its own, keeps the peer id of this moment.
run_internal(n, urlsOk) ==
    /\ client[n] = "none"
    /\ client' = [client EXCEPT ![n] = IF urlsOk THEN "up" ELSE "failed"]
    /\ listening' = IF urlsOk
                    THEN [listening EXCEPT ![n] = [as |-> local_peer_id[n], since |-> nostr_now]]
                    ELSE listening
    /\ UNCHANGED <<local_peer_id, embedding_strategy, relays, core_events, nostr_now>>

\* The effect channel is closed: the listener goes on.
effects_closed(n) ==
    /\ client[n] = "up"
    /\ client' = [client EXCEPT ![n] = "ended"]
    /\ UNCHANGED <<local_peer_id, listening, embedding_strategy, relays, core_events, nostr_now>>

Published(e) ==
    /\ Cardinality(relays) < MaxPublished
    /\ relays' = relays \cup {e}
    /\ UNCHANGED <<local_peer_id, client, listening, embedding_strategy, core_events, nostr_now>>

PlainNote(kind, n, content, p) ==
    [kind |-> kind, pubkey |-> n, author |-> n, outer |-> Readable, inner |-> Readable,
     content |-> content, created_at |-> nostr_now, packet |-> p]

send_data_to_peer(n, to, size) ==
    /\ client[n] = "up" /\ local_peer_id[n] # NoPeerId /\ size <= MaxDataSize
    /\ Published(PlainNote("BitchatKind", n, "message", Packet(local_peer_id[n], to, size)))

\* Encrypted to the recipient, and once more to a key made up for the occasion; signed
\* by an ephemeral key and dated back. The transport embeds with base64url.
create_gift_wrapped_message(n, to, offset, p) ==
    [kind |-> "GiftWrap", pubkey |-> "ephemeral", author |-> n, outer |-> GeneratedKey,
     inner |-> peer_id_to_pubkey(to), content |-> "base64url",
     created_at |-> nostr_now - offset, packet |-> p]

\* The size is not checked here; broadcast_bitchat_packet checks it. What the packet
\* names as sender and recipient nobody checks.
send_bitchat_packet_to_peer(n, to, p, offset) ==
    /\ client[n] = "up" /\ local_peer_id[n] # NoPeerId
    /\ \/ /\ embedding_strategy[n] = "PrivateMessage"
          /\ Published(create_gift_wrapped_message(n, to, offset, p))
       \/ /\ embedding_strategy[n] = "PublicGeohash" /\ offset = 0
          /\ Published(PlainNote("BitchatKind", n, "base64url", p))
       \/ /\ embedding_strategy[n] = "CustomKind" /\ offset = 0
          /\ Published(PlainNote("CustomKind", n, "base64url", p))

broadcast_bitchat_packet(n, p) ==
    /\ client[n] = "up" /\ p.size <= MaxDataSize
    /\ Published(PlainNote("BitchatKind", n, "base64url", p))

\* start_listening: the filters, none of which looks at the recipient of a gift wrap.
Subscribed(n, e) ==
    /\ listening[n] # NotListening
    /\ e.kind \in {"BitchatKind", "GiftWrap"} /\ e.created_at >= listening[n].since

\* nip04::decrypt with our secret key.
Opens(n, key) == key \in {OwnKey(n), Readable}
unwrap_gift_wrapped_message(n, e) == Opens(n, e.outer) /\ Opens(n, e.inner)
\* The NIP-17 content is read as padded standard base64, which base64url without
\* padding is for some packets only.
to_bitchat_packet(e) == e.content = "base64" \/ (e.content = "base64url" /\ e.packet.size % 3 = 0)

Decoded(n, e) ==
    CASE e.kind = "GiftWrap" -> unwrap_gift_wrapped_message(n, e) /\ to_bitchat_packet(e)
      [] OTHER -> TRUE

is_for_us(n, p) == p.recipient = Everyone \/ p.recipient = listening[n].as

\* Mutant of own_event: the listener skips nothing.
BugOwnEvent(n, e) == FALSE
own_event(n, e) == e.pubkey = n

\* The listener: discovery of the sender first, then the packet or the message.
process_nostr_event_static(n, e) ==
    /\ e \in relays /\ Subscribed(n, e)
    /\ ~own_event(n, e) /\ Decoded(n, e) /\ is_for_us(n, e.packet)
    /\ core_events' = [core_events EXCEPT ![n] = @ \cup
           {[type |-> "PeerDiscovered", packet |-> e.packet, at |-> nostr_now],
            [type |-> IF e.content = "message" THEN "MessageReceived" ELSE "BitchatPacketReceived",
             packet |-> e.packet, at |-> nostr_now]}]
    /\ UNCHANGED <<local_peer_id, client, listening, embedding_strategy, relays, nostr_now>>

NostrTick ==
    /\ nostr_now < MaxNostrTime
    /\ nostr_now' = nostr_now + 1
    /\ UNCHANGED <<local_peer_id, client, listening, embedding_strategy, relays, core_events>>

NostrNext ==
    \/ \E n \in NNode :
           \/ \E p \in NPeer : set_local_peer_id(n, p)
           \/ effects_closed(n)
           \/ \E ok \in BOOLEAN : run_internal(n, ok)
           \/ \E s \in PacketSize, to \in NPeer : send_data_to_peer(n, to, s)
           \/ \E from \in NPeer, recipient \in Recipient, s \in PacketSize :
                  \/ broadcast_bitchat_packet(n, Packet(from, recipient, s))
                  \/ \E to \in NPeer, o \in Offset :
                         send_bitchat_packet_to_peer(n, to, Packet(from, recipient, s), o)
           \/ \E e \in relays : process_nostr_event_static(n, e)
    \/ NostrTick

NostrSpec == NostrInit /\ [][NostrNext]_nostrVars

-----------------------------------------------------------------------------
(* Properties *)

\* Whatever a core hears from its Nostr transport another node wrote, to everyone
\* or to the peer id this listener was started with: the relays show every event to
\* every node, its author included, gift wraps hide who made them, and the peer id
\* of the transport may have changed meanwhile. Who the packet says it is from is
\* not part of it: that is its author's word.
HeardFromOthers ==
    \A n \in NNode : \A c \in core_events[n] : \E e \in relays :
        /\ e.packet = c.packet /\ e.author # n
        /\ c.packet.recipient \in {Everyone, listening[n].as}

\* The transport hands its core what others sent to it (start_listening,
\* process_nostr_event_static).
NostrSound == HeardFromOthers
=============================================================================
