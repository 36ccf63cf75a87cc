----------------------------- MODULE PacketCodec -----------------------------
(***************************************************************************)
(* Packets and their wire format (bitchat-core, protocol/packet.rs and     *)
(* protocol/wire.rs). A packet is built, signed, encoded with optional     *)
(* compression and padding, decoded by every relay on the way, encoded     *)
(* again with one hop less to live, and decoded at the end. All sizes are  *)
(* constants: the instances keep the proportions of the code (a byte, the  *)
(* smallest block and the compression threshold all stand at 256).         *)
(* Signatures are ideal: signed remembers what the key has signed, and the *)
(* bytes of a signature are arbitrary.                                     *)
(***************************************************************************)
EXTENDS Integers, Sequences, SequencesExt, FiniteSetsExt

CONSTANTS
    ByteValues,              \* 256: values of a byte
    PADDING_BLOCK_SIZES,     \* increasing sequence of block sizes
    COMPRESSION_THRESHOLD,
    SIGNATURE_SIZE,
    SomePayload,             \* payloads a sender may have
    SignatureBytes,          \* byte strings a signature may turn out to be
    MAX_HOPS                 \* Ttl::DEFAULT

ASSUME CodecConstants ==
    /\ {ByteValues, COMPRESSION_THRESHOLD, SIGNATURE_SIZE} \subseteq Nat \ {0} /\ MAX_HOPS \in Nat
    /\ SomePayload \subseteq Seq(Nat) /\ SignatureBytes \subseteq Seq(Nat)
    /\ \A s \in SignatureBytes : Len(s) = SIGNATURE_SIZE
    /\ PADDING_BLOCK_SIZES \in Seq(Nat \ {0}) /\ PADDING_BLOCK_SIZES # <<>>
    /\ \A i \in 2..Len(PADDING_BLOCK_SIZES) : PADDING_BLOCK_SIZES[i - 1] < PADDING_BLOCK_SIZES[i]

VARIABLES
    packet,     \* the packet under construction, or NoPacket
    wire_bytes,       \* the bytes in flight, or <<>>
    origin,     \* the packet encoded by its sender, or NoPacket
    options,    \* how it was encoded
    received,   \* the last decoded packet, or DecodeFailed, or NoPacket
    signed,     \* what the identity key has signed
    encoded     \* what the last encoding came to: "none", "ok" or "refused"

codecVars == <<packet, wire_bytes, origin, options, received, signed, encoded>>

NoPacket == [version |-> 0]
DecodeFailed == [version |-> -1]
NoField == <<>>

(* Flags as a set of names; the byte is their sum.                          *)
FlagBit == [HAS_RECIPIENT |-> 1, HAS_SIGNATURE |-> 2, IS_COMPRESSED |-> 4, HAS_ROUTE |-> 8]
flags_as_u8(F) ==
    LET bit(x) == IF x \in F THEN FlagBit[x] ELSE 0
    IN bit("HAS_RECIPIENT") + bit("HAS_SIGNATURE") + bit("IS_COMPRESSED") + bit("HAS_ROUTE")
flags_new(b) == {x \in DOMAIN FlagBit : (b \div FlagBit[x]) % 2 = 1}

max_payload_size(version) == IF version = 2 THEN ByteValues * ByteValues ELSE ByteValues - 1
HeaderValid(p) == p.version \in {1, 2} /\ p.payload_length <= max_payload_size(p.version)

\* Version, type, TTL, timestamp, flags and length. The length takes one byte in
\* version 1 and four in version 2, whose declared size counts only three of them.
\* Every packet the code builds is of version 1.
header_to_bytes(p) ==
    <<p.version, p.type, p.ttl, p.timestamp, flags_as_u8(p.flags)>> \o
    IF p.version = 2 THEN <<0, 0, p.payload_length \div ByteValues, p.payload_length % ByteValues>>
    ELSE <<p.payload_length>>
header_size(version) == IF version = 2 THEN 8 ELSE 6
PEER_ID_SIZE == 1

\* The header a byte string starts with, or DecodeFailed. Version 2 reads one byte past the
\* size it has checked.
header_from_bytes(b) ==
    IF b = <<>> THEN DecodeFailed
    ELSE IF b[1] \notin {1, 2} \/ Len(b) < header_size(b[1]) \/ (b[1] = 2 /\ Len(b) < 9) THEN DecodeFailed
    ELSE [version |-> b[1], type |-> b[2], ttl |-> b[3], timestamp |-> b[4], flags |-> flags_new(b[5]),
          payload_length |-> IF b[1] = 2 THEN b[8] * ByteValues + b[9] ELSE b[6]]

packet_validate(p) ==
    /\ HeaderValid(p)
    /\ Len(p.payload) = p.payload_length
    /\ ("HAS_RECIPIENT" \in p.flags) <=> (p.recipient # NoField)
    /\ ("HAS_SIGNATURE" \in p.flags) <=> (p.signature # NoField)

header_new(type, flags, payload) ==
    [version |-> 1, type |-> type, ttl |-> MAX_HOPS, timestamp |-> 5, flags |-> flags,
     payload_length |-> Len(payload)]

\* A header h and the fields behind it.
BitchatPacket(h, sender, recipient, route, payload, signature) ==
    [version |-> h.version, type |-> h.type, ttl |-> h.ttl, timestamp |-> h.timestamp, flags |-> h.flags,
     payload_length |-> h.payload_length, sender |-> sender, recipient |-> recipient, route |-> route,
     payload |-> payload, signature |-> signature]

packet_new(type, recipient, payload, flags) ==
    BitchatPacket(header_new(type, IF recipient = NoField THEN flags ELSE flags \cup {"HAS_RECIPIENT"}, payload),
                  <<7>>, recipient, NoField, payload, NoField)

new_simple(type, payload) ==
    BitchatPacket(header_new(type, {}, payload), <<7>>, NoField, NoField, payload, NoField)

\* p with another payload and flags; update_payload_length keeps the header in step.
WithPayload(p, payload, flags) ==
    LET carrying == [p EXCEPT !.payload = payload]
        measured == [carrying EXCEPT !.payload_length = Len(payload)]
    IN [measured EXCEPT !.flags = flags]

canonical_bytes_for_signing(p) == <<p.version, p.type, p.timestamp, p.sender, p.recipient, p.payload>>

verify_signature(p) == p.signature # NoField /\ <<canonical_bytes_for_signing(p), p.signature>> \in signed

-----------------------------------------------------------------------------
(* Compression and padding                                                  *)

should_compress(data) == Len(data) >= COMPRESSION_THRESHOLD

\* zlib, on the payloads of the model: a run of one byte becomes its length and the
\* byte, anything else grows.
compress(data) ==
    IF Cardinality(Range(data)) = 1
    THEN <<0, Len(data) \div ByteValues, Len(data) % ByteValues, data[1]>>
    ELSE <<1>> \o data
decompress(data) ==
    IF data = <<>> THEN NoField
    ELSE IF data[1] = 0 /\ Len(data) = 4 THEN [i \in 1..(data[2] * ByteValues + data[3]) |-> data[4]]
    ELSE Tail(data)

optimal_block_size(length) ==
    LET Fits == {i \in DOMAIN PADDING_BLOCK_SIZES : length <= PADDING_BLOCK_SIZES[i]}
        last == PADDING_BLOCK_SIZES[Len(PADDING_BLOCK_SIZES)]
    IN IF Fits # {} THEN PADDING_BLOCK_SIZES[Min(Fits)]
       ELSE ((length + last - 1) \div last) * last

BugPad(data) ==
    LET padding_length == optimal_block_size(Len(data)) - Len(data)
    IN data \o [i \in 1..padding_length |-> (padding_length - 1) % ByteValues]
\* Nothing is added to data that fills a block.
pad(data) ==
    LET padding_length == optimal_block_size(Len(data)) - Len(data)
    IN data \o [i \in 1..padding_length |-> padding_length % ByteValues]

unpad(data) ==
    LET n == data[Len(data)]
    IN IF n = 0 \/ n > Len(data) THEN data
       ELSE IF \E i \in (Len(data) - n + 1)..Len(data) : data[i] # n THEN data
       ELSE SubSeq(data, 1, Len(data) - n)

-----------------------------------------------------------------------------
(* Encoding and decoding                                                    *)

encodable(p) == packet_validate(p) /\ (("HAS_ROUTE" \in p.flags) => (p.route # NoField))

encode(p) ==
    header_to_bytes(p) \o p.sender \o p.recipient \o
    (IF "HAS_ROUTE" \in p.flags THEN <<0, Len(p.route)>> \o p.route ELSE <<>>) \o
    p.payload \o p.signature

\* Field after field; every length is checked before the field is cut out, and no
\* byte may be left over.
decode(b) ==
    LET header == header_from_bytes(b)
    IN IF header = DecodeFailed THEN DecodeFailed
       ELSE LET has(f) == f \in header.flags
                at == header_size(header.version) + PEER_ID_SIZE
                r == at + IF has("HAS_RECIPIENT") THEN PEER_ID_SIZE ELSE 0
                routed == has("HAS_ROUTE")
                l == IF routed /\ Len(b) >= r + 2 THEN b[r + 1] * ByteValues + b[r + 2] ELSE 0
                o == r + IF routed THEN 2 + l ELSE 0
                p == o + header.payload_length
                s == p + IF has("HAS_SIGNATURE") THEN SIGNATURE_SIZE ELSE 0
            IN IF s # Len(b) THEN DecodeFailed
               ELSE BitchatPacket(header, SubSeq(b, at - PEER_ID_SIZE + 1, at), SubSeq(b, at + 1, r),
                                  IF routed THEN SubSeq(b, r + 3, o) ELSE NoField,
                                  SubSeq(b, o + 1, p), SubSeq(b, p + 1, s))

Squeezed(p, squeeze) ==
    IF squeeze /\ should_compress(p.payload)
    THEN WithPayload(p, compress(p.payload), p.flags \cup {"IS_COMPRESSED"})
    ELSE p

encode_with_options(p, o) ==
    LET bytes == encode(Squeezed(p, o.compress)) IN IF o.pad THEN pad(bytes) ELSE bytes

decode_with_options(bytes) ==
    LET p == decode(unpad(bytes))
    IN IF p = DecodeFailed \/ "IS_COMPRESSED" \notin p.flags THEN p
       ELSE IF decompress(p.payload) = NoField THEN DecodeFailed
       ELSE WithPayload(p, decompress(p.payload), p.flags \ {"IS_COMPRESSED"})

-----------------------------------------------------------------------------
CodecInit ==
    /\ packet = NoPacket /\ wire_bytes = <<>> /\ origin = NoPacket /\ options = [compress |-> FALSE, pad |-> FALSE]
    /\ received = NoPacket /\ signed = {} /\ encoded = "none"

Building == origin = NoPacket /\ packet # NoPacket
Leave == UNCHANGED <<wire_bytes, origin, options, received, encoded>>

Build ==
    /\ packet = NoPacket
    /\ \E payload \in SomePayload :
          \/ packet' = new_simple(2, payload)
          \/ \E recipient \in {NoField, <<8>>}, flags \in SUBSET {"HAS_SIGNATURE", "HAS_ROUTE"} :
                packet' = packet_new(3, recipient, payload, flags)
    /\ UNCHANGED signed /\ Leave

with_recipient ==
    /\ Building
    /\ LET addressed == [packet EXCEPT !.recipient = <<8>>]
       IN packet' = [addressed EXCEPT !.flags = packet.flags \cup {"HAS_RECIPIENT"}]
    /\ UNCHANGED signed /\ Leave

with_ttl(t) ==
    /\ Building
    /\ packet' = [packet EXCEPT !.ttl = t]
    /\ UNCHANGED signed /\ Leave

Signed(p, s) ==
    LET signature_set == [p EXCEPT !.signature = s]
    IN [signature_set EXCEPT !.flags = p.flags \cup {"HAS_SIGNATURE"}]

\* Tests and callers that sign elsewhere: the signature is whatever they pass.
with_signature(s) ==
    /\ Building
    /\ packet' = Signed(packet, s)
    /\ UNCHANGED signed /\ Leave

sign(s) ==
    /\ Building
    /\ signed' = signed \cup {<<canonical_bytes_for_signing(packet), s>>}
    /\ packet' = Signed(packet, s)
    /\ Leave

Transmit(o) ==
    /\ Building
    /\ options' = o
    /\ IF encodable(Squeezed(packet, o.compress))
       THEN wire_bytes' = encode_with_options(packet, o) /\ origin' = packet /\ encoded' = "ok"
       ELSE encoded' = "refused" /\ UNCHANGED <<wire_bytes, origin>>
    /\ UNCHANGED <<packet, received, signed>>

Receive ==
    /\ wire_bytes # <<>> /\ received = NoPacket
    /\ received' = decode_with_options(wire_bytes)
    /\ UNCHANGED <<packet, wire_bytes, origin, options, signed, encoded>>

\* A relay takes one hop off the packet it has decoded and encodes it again.
Relay ==
    /\ received \notin {NoPacket, DecodeFailed} /\ received.ttl > 0
    /\ LET p == [received EXCEPT !.ttl = received.ttl - 1]
       IN IF encodable(Squeezed(p, options.compress))
          THEN wire_bytes' = encode_with_options(p, options) /\ received' = NoPacket /\ encoded' = "ok"
          ELSE encoded' = "refused" /\ UNCHANGED <<wire_bytes, received>>
    /\ UNCHANGED <<packet, origin, options, signed>>

CodecNext ==
    \/ Build \/ with_recipient \/ with_ttl(2) \/ Receive \/ Relay
    \/ \E s \in SignatureBytes : with_signature(s) \/ sign(s)
    \/ \E c, p \in BOOLEAN : Transmit([compress |-> c, pad |-> p])

CodecSpec == CodecInit /\ [][CodecNext]_codecVars

-----------------------------------------------------------------------------
Unpadded(p) == encode(Squeezed(p, options.compress))

(* A packet that was padded by less than a byte's worth reaches every relay *)
(* and its destination unchanged but for the time to live, whatever its     *)
(* bytes are: unpad takes away exactly what pad added, and compression is   *)
(* undone with its flag and its length (wire.rs, pad, unpad and            *)
(* decode_with_options).                                                    *)
PaddedArrives ==
    (received # NoPacket /\ options.pad
        /\ optimal_block_size(Len(Unpadded(origin))) - Len(Unpadded(origin)) \in 1..(ByteValues - 1))
    => received # DecodeFailed /\ [received EXCEPT !.ttl = origin.ttl] = origin

(* A signature made over the packet as built verifies at every hop: relays  *)
(* change the time to live and compression changes payload, length and      *)
(* flags, none of which may be left in what is signed                       *)
(* (canonical_bytes_for_signing).                                           *)
SignatureSurvives ==
    (received \notin {NoPacket, DecodeFailed} /\ verify_signature(origin)) => verify_signature(received)

\* A packet survives the wire: what arrives is what was sent, and its signature
\* still verifies (encode_with_options, decode_with_options).
PacketsSurvive == PaddedArrives /\ SignatureSurvives
=============================================================================
