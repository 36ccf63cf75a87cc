----------------------------- MODULE PayloadCodec -----------------------------
(***************************************************************************)
(* What packets carry (bitchat-core): the announcement of a peer as a list *)
(* of type-length-value entries (protocol/tlv.rs, protocol/announce.rs)    *)
(* and the chat message (protocol/message.rs). A string is a sequence of   *)
(* bytes; a byte holds 0..U8, a length of two bytes 0..U16. The flags byte *)
(* of a message is kept as the set of its names. A key is one byte, a      *)
(* signature is ideal, and every node has one Noise and one signing key.   *)
(***************************************************************************)
EXTENDS Integers, Sequences, SequencesExt

CONSTANTS
    U8,             \* 255
    KeyOwner,       \* nodes; a node is also the byte of its keys and of its peer id
    Text,           \* strings used in nicknames, identifiers and content
    NeighbourList   \* neighbour lists an announcement may carry

U16 == (U8 + 1) * (U8 + 1) - 1
Missing == <<-1>>    \* an absent optional field

\* A neighbour list comes out of a packet of at most U8 bytes of payload, far below U16.
ASSUME PayloadConstants ==
    /\ U8 \in Nat /\ U8 >= 2
    /\ KeyOwner \subseteq 0..U8 /\ Text \subseteq Seq(Nat)
    /\ \A ns \in NeighbourList : ns = Missing \/ (ns \in Seq(Nat) /\ Len(ns) <= U16)

VARIABLES
    message,      \* the message under construction, or NoMessage
    message_out,  \* what to_binary made of it, or NoBytes
    message_in,   \* what from_binary made of that, or NoMessage
    announced,    \* the announce packet sent, or NoMessage
    discovered    \* the peer its receiver made of it, or NoMessage

payloadVars == <<message, message_out, message_in, announced, discovered>>

NoMessage == [state |-> "none"]
Invalid == [state |-> "invalid"]
NoBytes == [flags |-> {"none"}, bytes |-> <<>>]

(* Reading from a byte string: what was read and what is left, or TooShort.    *)
TooShort == [ok |-> FALSE, val |-> <<>>, rest |-> <<>>]
ReadN(b, n) == IF Len(b) < n THEN TooShort
               ELSE [ok |-> TRUE, val |-> SubSeq(b, 1, n), rest |-> SubSeq(b, n + 1, Len(b))]
Read8(b) == IF b = <<>> THEN TooShort ELSE ReadN(Tail(b), b[1])
Read16(b) == IF Len(b) < 2 THEN TooShort ELSE ReadN(SubSeq(b, 3, Len(b)), b[1] * (U8 + 1) + b[2])
With8(s) == <<Len(s) % (U8 + 1)>> \o s
With16(s) == <<(Len(s) \div (U8 + 1)) % (U8 + 1), Len(s) % (U8 + 1)>> \o s

-----------------------------------------------------------------------------
(* Messages                                                                 *)

message_new(id, sender, content) ==
    [state |-> "built", flags |-> {}, id |-> id, sender |-> sender, content |-> content,
     original_sender |-> Missing, recipient_nickname |-> Missing, sender_peer_id |-> Missing,
     mentions |-> <<>>]

\* No limit on the mentions, in number or in length.
message_validate(m) ==
    /\ "HAS_ORIGINAL_SENDER" \in m.flags => m.original_sender # Missing
    /\ "HAS_RECIPIENT_NICKNAME" \in m.flags => m.recipient_nickname # Missing
    /\ "HAS_SENDER_PEER_ID" \in m.flags => m.sender_peer_id # Missing
    /\ "HAS_MENTIONS" \in m.flags => m.mentions # <<>>
    /\ Len(m.id) <= U8 /\ Len(m.sender) <= U8 /\ Len(m.content) <= U16
    /\ Len(m.original_sender) <= U8 /\ Len(m.recipient_nickname) <= U8

BugToBinary(m) ==
    LET opt(f, s) == IF f \in m.flags THEN s ELSE <<>>
    IN [flags |-> m.flags,
        bytes |-> With8(m.id) \o With8(m.sender) \o With16(m.content) \o
                  opt("HAS_RECIPIENT_NICKNAME", With8(m.recipient_nickname)) \o
                  opt("HAS_ORIGINAL_SENDER", With8(m.original_sender)) \o
                  opt("HAS_SENDER_PEER_ID", m.sender_peer_id) \o
                  opt("HAS_MENTIONS", <<Len(m.mentions) % (U8 + 1)>> \o
                                      FlattenSeq([i \in DOMAIN m.mentions |-> With8(m.mentions[i])]))]
to_binary(m) ==
    LET opt(f, s) == IF f \in m.flags THEN s ELSE <<>>
    IN [flags |-> m.flags,
        bytes |-> With8(m.id) \o With8(m.sender) \o With16(m.content) \o
                  opt("HAS_ORIGINAL_SENDER", With8(m.original_sender)) \o
                  opt("HAS_RECIPIENT_NICKNAME", With8(m.recipient_nickname)) \o
                  opt("HAS_SENDER_PEER_ID", m.sender_peer_id) \o
                  opt("HAS_MENTIONS", <<Len(m.mentions) % (U8 + 1)>> \o
                                      FlattenSeq([i \in DOMAIN m.mentions |-> With8(m.mentions[i])]))]

Absent(b) == [ok |-> TRUE, val |-> Missing, rest |-> b]
Optional8(flag, flags, b) == IF flag \in flags THEN Read8(b) ELSE Absent(b)
Optional1(flag, flags, b) == IF flag \in flags THEN ReadN(b, 1) ELSE Absent(b)

ReadMentions(n, b) ==
    LET mention[i \in 0..n] == IF i = 0 THEN [ok |-> TRUE, val |-> <<>>, rest |-> b]
                               ELSE Read8(mention[i - 1].rest)
    IN [ok |-> \A i \in 0..n : mention[i].ok, val |-> [i \in 1..n |-> mention[i].val]]

\* Bytes behind the last field are not looked at.
from_binary(w) ==
    LET id == Read8(w.bytes)
        sender == Read8(id.rest)
        content == Read16(sender.rest)
        original == Optional8("HAS_ORIGINAL_SENDER", w.flags, content.rest)
        nickname == Optional8("HAS_RECIPIENT_NICKNAME", w.flags, original.rest)
        peer == Optional1("HAS_SENDER_PEER_ID", w.flags, nickname.rest)
        count == Optional1("HAS_MENTIONS", w.flags, peer.rest)
        mentions == ReadMentions(IF "HAS_MENTIONS" \in w.flags /\ count.ok THEN count.val[1] ELSE 0,
                                 count.rest)
        m == [state |-> "built", flags |-> w.flags, id |-> id.val, sender |-> sender.val,
              content |-> content.val, original_sender |-> original.val,
              recipient_nickname |-> nickname.val, sender_peer_id |-> peer.val,
              mentions |-> mentions.val]
    IN IF /\ id.ok /\ sender.ok /\ content.ok /\ original.ok /\ nickname.ok /\ peer.ok /\ count.ok
          /\ mentions.ok /\ message_validate(m)
       THEN m ELSE Invalid

-----------------------------------------------------------------------------
(* Announcements                                                            *)

TlvType == [Nickname |-> 1, NoisePublicKey |-> 2, SigningPublicKey |-> 3, DirectNeighbors |-> 4]

tlv_encode(type, value) == <<TlvType[type]>> \o With16(value)

\* The list is carried even when it is empty; a receiver tells it from an absent one.
announce_encode(p) ==
    tlv_encode("Nickname", p.nickname) \o tlv_encode("NoisePublicKey", <<p.noise_key>>) \o
    tlv_encode("SigningPublicKey", <<p.signing_key>>) \o
    (IF p.neighbours = Missing THEN <<>> ELSE tlv_encode("DirectNeighbors", p.neighbours))

NoEntry == [ok |-> FALSE, type |-> 0, val |-> <<>>, rest |-> <<>>]
NextEntry(prev) ==
    LET d == prev.rest
        v == Read16(Tail(d))
    IN IF ~prev.ok \/ Len(d) < 3 THEN NoEntry
       ELSE [ok |-> v.ok /\ d[1] \in Range(TlvType), type |-> d[1], val |-> v.val, rest |-> v.rest]

\* Entry after entry until the data is used up; one that does not parse fails the whole.
tlv_codec_decode(data) ==
    LET at[i \in 0..Len(data)] ==
            IF i = 0 THEN [ok |-> TRUE, type |-> 0, val |-> <<>>, rest |-> data] ELSE NextEntry(at[i - 1])
        n == Cardinality({i \in 0..Len(data) : at[i].ok}) - 1
    IN [ok |-> at[n].rest = <<>>, entries |-> [i \in 1..n |-> at[i]]]

\* The first entry of a type, or TooShort.
find_entry(entries, type) ==
    LET found == SelectInSeq(entries, LAMBDA e : e.type = TlvType[type])
    IN IF found = 0 THEN TooShort ELSE [ok |-> TRUE, val |-> entries[found].val, rest |-> <<>>]

announce_decode(data) ==
    LET codec == tlv_codec_decode(data)
        entry(t) == find_entry(codec.entries, t)
    IN IF /\ codec.ok
          /\ \A t \in {"Nickname", "NoisePublicKey", "SigningPublicKey"} : entry(t).ok
          /\ Len(entry("NoisePublicKey").val) = 1 /\ Len(entry("SigningPublicKey").val) = 1
       THEN [state |-> "parsed", nickname |-> entry("Nickname").val,
             noise_key |-> entry("NoisePublicKey").val[1], signing_key |-> entry("SigningPublicKey").val[1],
             neighbours |-> IF entry("DirectNeighbors").ok THEN entry("DirectNeighbors").val ELSE Missing]
       ELSE Invalid

\* The signature covers the payload and the sender; signed_by is the key that made it.
\* about is what the payload was made from, kept for the property alone.
create_announce(sender, nickname, noise_key, identity, neighbours) ==
    LET content == [state |-> "parsed", nickname |-> nickname, noise_key |-> noise_key,
                    signing_key |-> identity, neighbours |-> neighbours]
    IN [state |-> "announce", sender |-> sender, signed_by |-> identity,
        payload |-> announce_encode(content), about |-> content]

verify_and_parse_announce(p) ==
    LET payload == announce_decode(p.payload)
    IN IF payload = Invalid THEN Invalid
       ELSE IF p.signed_by # payload.signing_key THEN Invalid
       ELSE payload

from_announce_packet(p) ==
    LET payload == verify_and_parse_announce(p)
    IN IF payload = Invalid THEN Invalid
       ELSE IF p.sender # payload.noise_key THEN Invalid
       ELSE payload

-----------------------------------------------------------------------------
PayloadInit ==
    /\ message = NoMessage /\ message_out = NoBytes /\ message_in = NoMessage
    /\ announced = NoMessage /\ discovered = NoMessage

Composing == message # NoMessage /\ message_out = NoBytes
Composed(m) == message' = m /\ UNCHANGED <<message_out, message_in, announced, discovered>>

Compose(id, sender, content) == message = NoMessage /\ announced = NoMessage /\ Composed(message_new(id, sender, content))
Flagged(m, names) == [m EXCEPT !.flags = m.flags \cup names]
with_relay(s) ==
    Composing /\ Composed(Flagged([message EXCEPT !.original_sender = s], {"IS_RELAY", "HAS_ORIGINAL_SENDER"}))
with_recipient_nickname(s) ==
    Composing /\ Composed(Flagged([message EXCEPT !.recipient_nickname = s], {"HAS_RECIPIENT_NICKNAME"}))
with_sender_peer_id(n) ==
    Composing /\ Composed(Flagged([message EXCEPT !.sender_peer_id = <<n>>], {"HAS_SENDER_PEER_ID"}))
with_mentions(ms) ==
    /\ Composing
    /\ Composed(IF ms = <<>> THEN message ELSE Flagged([message EXCEPT !.mentions = ms], {"HAS_MENTIONS"}))

Serialize ==
    /\ Composing /\ message_validate(message)
    /\ message_out' = to_binary(message)
    /\ UNCHANGED <<message, message_in, announced, discovered>>
Deserialize ==
    /\ message_out # NoBytes /\ message_in = NoMessage
    /\ message_in' = from_binary(message_out)
    /\ UNCHANGED <<message, message_out, announced, discovered>>

\* The caller names its sender id and its Noise key; they need not belong together.
Announce(sender, nickname, key, identity, neighbours) ==
    /\ announced = NoMessage /\ message = NoMessage
    /\ Len(nickname) <= U8
    /\ announced' = create_announce(sender, nickname, key, identity, neighbours)
    /\ UNCHANGED <<message, message_out, message_in, discovered>>
Discover ==
    /\ announced # NoMessage /\ discovered = NoMessage
    /\ discovered' = from_announce_packet(announced)
    /\ UNCHANGED <<message, message_out, message_in, announced>>

PayloadNext ==
    \/ \E id, sender, content \in Text : Compose(id, sender, content)
    \/ \E s \in Text : with_relay(s) \/ with_recipient_nickname(s)
    \/ \E n \in KeyOwner : with_sender_peer_id(n)
    \/ \E a, b \in Text : with_mentions(<<>>) \/ with_mentions(<<a>>) \/ with_mentions(<<a, b>>)
    \/ Serialize \/ Deserialize \/ Discover
    \/ \E s, k, i \in KeyOwner, t \in Text, ns \in NeighbourList : Announce(s, t, k, i, ns)

PayloadSpec == PayloadInit /\ [][PayloadNext]_payloadVars

-----------------------------------------------------------------------------
(* A message whose mentions fit their length bytes is read back as it was   *)
(* composed, whichever optional fields it has and however they were set:    *)
(* the reader finds every field where the writer put it (message.rs,        *)
(* to_binary and from_binary).                                              *)
MessagesSurvive ==
    (message_in # NoMessage /\ \A i \in DOMAIN message.mentions : Len(message.mentions[i]) <= U8)
    => message_in = message

(* What a receiver learns from an announcement is what was announced, and a *)
(* peer is discovered exactly when the sender id is that of the Noise key:  *)
(* no length of nickname or neighbour list moves an entry into another      *)
(* (announce.rs, encode, decode and from_announce_packet).                  *)
AnnouncedIsDiscovered ==
    discovered # NoMessage
    => discovered = IF announced.about.noise_key = announced.sender THEN announced.about ELSE Invalid

\* Payloads survive their encodings: messages and announcements are read back as
\* they were written.
PayloadsSurvive == MessagesSurvive /\ AnnouncedIsDiscovered
===============================================================================
