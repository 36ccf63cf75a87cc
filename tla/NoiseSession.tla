----------------------------- MODULE NoiseSession -----------------------------
(***************************************************************************)
(* Noise XX sessions between peers: NoiseSession (bitchat-core,            *)
(* protocol/session.rs), the wrapper around snow's handshake and transport *)
(* states (protocol/crypto.rs), and the NoiseSessionManager that keeps one *)
(* session per peer (bitchat-runtime, managers/session.rs).                *)
(*                                                                         *)
(* Every node runs one manager, which files its sessions under peer ids.   *)
(* A peer id is a name the caller gives: nothing in a session compares it  *)
(* with the static key the handshake reveals, and nothing in the bytes     *)
(* says for whom they are. Handshake messages and ciphertexts travel over  *)
(* mesh transports that lose, duplicate, delay, reorder and misdeliver     *)
(* them: both kinds stay in a set for ever and any session of any node,    *)
(* the author's own included, may be handed any of them at any time, any   *)
(* number of times, or never. `from` only records who wrote them.          *)
(*                                                                         *)
(* Cryptography is symbolic. A handshake message carries a fresh           *)
(* identifier (its ephemeral key or its encrypted static key) and the      *)
(* transcript of identifiers it was written under; messages 2 and 3 are    *)
(* authenticated under that transcript, message 1 is a bare ephemeral that *)
(* any reader accepts. The transport key is the final transcript.          *)
(***************************************************************************)
EXTENDS Integers, Sequences, FiniteSets

CONSTANTS
    Node,              \* the nodes, each with its own static Noise key
    PeerId,            \* the names sessions are filed under
    MaxMsgs,           \* bound: handshake messages ever written
    MaxCount,          \* bound: message_count of one session
    RekeyThreshold,    \* rekey_threshold: messages before an automatic rekey
    RekeyInterval,     \* rekey_interval_secs
    HandshakeTimeout,  \* SessionTimeouts.handshake_timeout
    IdleTimeout,       \* SessionTimeouts.idle_timeout
    FailedTimeout      \* Duration::from_secs(1) of cleanup_expired

ASSUME ConstantsAssumption ==
    /\ MaxMsgs \in Nat /\ MaxCount \in Nat
    /\ RekeyThreshold \in Nat /\ RekeyInterval \in Nat
    /\ HandshakeTimeout \in Nat /\ IdleTimeout \in Nat /\ FailedTimeout \in Nat

VARIABLES
    sessions,   \* sessions[n][p]: node n's session under peer id p, or NoSession
    net,        \* handshake messages written so far
    wire,       \* ciphertexts produced so far
    nextId      \* number of handshake messages written: the next fresh id

vars == <<sessions, net, wire, nextId>>

-----------------------------------------------------------------------------
(* Types *)

NoSession == [state |-> "None"]
NoHandshake == [role |-> "none"]
NoTransport == [role |-> "none"]

Role == {"initiator", "responder"}
SessionState == {"Handshaking", "Established", "Rekeying", "Failed"}

\* Transcripts: the identifiers of the handshake messages mixed in so far.
Transcript == Seq(Nat)

\* peer_fingerprint: None, or the fingerprint of a node's static key.
NoFingerprint == [of |-> "none"]
FingerprintOf(n) == [of |-> "node", node |-> n]
Fingerprint == {NoFingerprint} \cup {FingerprintOf(n) : n \in Node}

NoiseHandshake == [role : Role, h : Transcript, rs : Fingerprint]
NoiseTransport == [role : Role, key : Transcript, sendN : Nat, recvN : Nat]

\* The fields of a NoiseSession: idle is time_since_activity.
Session == [state : SessionState,
            handshake : NoiseHandshake \cup {NoHandshake},
            transport : NoiseTransport \cup {NoTransport},
            fingerprint : Fingerprint,
            count : Nat,
            idle : Nat]

Message == [id : Nat, from : Node, h : Transcript]
Ciphertext == [key : Transcript, role : Role, n : Nat, from : Node]

\* Type correctness of the sessions of every node, the network and the wire.
TypeOK ==
    /\ sessions \in [Node -> [PeerId -> Session \cup {NoSession}]]
    /\ net \subseteq Message
    /\ wire \subseteq Ciphertext
    /\ nextId \in Nat

-----------------------------------------------------------------------------
(* NoiseHandshake: the XX pattern of snow. Messages 1 and 3 are the        *)
(* initiator's, message 2 the responder's.                                 *)

XXMessages == 3
Initiator == [role |-> "initiator", h |-> << >>, rs |-> NoFingerprint]
Responder == [role |-> "responder", h |-> << >>, rs |-> NoFingerprint]

is_handshake_finished(hs) == Len(hs.h) >= XXMessages
MyTurn(hs) == (hs.role = "initiator") <=> (Len(hs.h) % 2 = 0)

\* snow refuses to write out of turn or past the last message.
CanWrite(hs) == ~is_handshake_finished(hs) /\ MyTurn(hs)

\* Mutant of CanRead: the transcript of messages 2 and 3 is not authenticated.
BugCanRead(hs, m) == ~is_handshake_finished(hs) /\ ~MyTurn(hs)

\* snow refuses to read out of turn; message 1 carries nothing to
\* authenticate, messages 2 and 3 only decrypt under the transcript they were
\* written under. A refused read leaves the handshake as it was.
CanRead(hs, m) ==
    /\ ~is_handshake_finished(hs) /\ ~MyTurn(hs)
    /\ Len(hs.h) = 0 \/ m.h = hs.h

Written(hs, id) == [hs EXCEPT !.h = Append(@, id)]

\* Messages 2 and 3 carry the writer's static key.
Read(hs, m) ==
    [hs EXCEPT !.h = Append(@, m.id),
               !.rs = IF Len(hs.h) = 0 THEN @ ELSE FingerprintOf(m.from)]

into_transport_mode(hs) ==
    [role |-> hs.role, key |-> hs.h, sendN |-> 0, recvN |-> 0]

-----------------------------------------------------------------------------
(* NoiseSession *)

NewSession(hs) ==
    [state |-> "Handshaking", handshake |-> hs, transport |-> NoTransport,
     fingerprint |-> NoFingerprint, count |-> 0, idle |-> 0]

\* The common tail of process_handshake_message and create_handshake_message:
\* a finished handshake becomes a transport, and the activity is recorded.
Advanced(s, hs) ==
    IF is_handshake_finished(hs)
    THEN [s EXCEPT !.state = "Established",
                   !.handshake = NoHandshake,
                   !.transport = into_transport_mode(hs),
                   !.fingerprint = hs.rs,
                   !.idle = 0]
    ELSE [s EXCEPT !.handshake = hs, !.idle = 0]

\* The guard of both handshake operations.
MayHandshake(s) == s.state = "Handshaking"

needs_rekey(s) ==
    /\ s.state = "Established"
    /\ \/ s.count >= (RekeyThreshold * 90) \div 100
       \/ s.idle >= RekeyInterval

IsSession(n, p) == sessions[n][p] # NoSession

Put(n, p, s) == sessions' = [sessions EXCEPT ![n][p] = s]

-----------------------------------------------------------------------------
(* NoiseSessionManager                                                     *)

Init ==
    /\ sessions = [n \in Node |-> [p \in PeerId |-> NoSession]]
    /\ net = {}
    /\ wire = {}
    /\ nextId = 0

\* A session that exists, whatever its state, is returned unchanged.
get_or_create_outbound(n, p) ==
    /\ ~IsSession(n, p)
    /\ Put(n, p, NewSession(Initiator))
    /\ UNCHANGED <<net, wire, nextId>>

\* insert() replaces whatever session the peer had.
create_inbound(n, p) ==
    /\ Put(n, p, NewSession(Responder))
    /\ UNCHANGED <<net, wire, nextId>>

remove_session(n, p) ==
    /\ IsSession(n, p)
    /\ Put(n, p, NoSession)
    /\ UNCHANGED <<net, wire, nextId>>

Timeout(s) ==
    CASE s.state = "Handshaking" -> HandshakeTimeout
      [] s.state \in {"Established", "Rekeying"} -> IdleTimeout
      [] s.state = "Failed" -> FailedTimeout

Expired(s) == s # NoSession /\ s.idle > Timeout(s)

cleanup_expired(n) ==
    /\ \E p \in PeerId : Expired(sessions[n][p])
    /\ sessions' = [sessions EXCEPT ![n] =
           [p \in PeerId |-> IF Expired(@[p]) THEN NoSession ELSE @[p]]]
    /\ UNCHANGED <<net, wire, nextId>>

create_handshake_message(n, p) ==
    LET s == sessions[n][p] IN
    /\ IsSession(n, p)
    /\ MayHandshake(s)
    /\ CanWrite(s.handshake)
    /\ nextId < MaxMsgs
    /\ net' = net \cup {[id |-> nextId, from |-> n, h |-> s.handshake.h]}
    /\ nextId' = nextId + 1
    /\ Put(n, p, Advanced(s, Written(s.handshake, nextId)))
    /\ UNCHANGED wire

\* A message the handshake refuses leaves the session unchanged.
process_handshake_message(n, p, m) ==
    LET s == sessions[n][p] IN
    /\ IsSession(n, p)
    /\ MayHandshake(s)
    /\ CanRead(s.handshake, m)
    /\ Put(n, p, Advanced(s, Read(s.handshake, m)))
    /\ UNCHANGED <<net, wire, nextId>>

\* Mutant of encrypt: the sending nonce is not counted up.
BugEncrypt(n, p) ==
    LET s == sessions[n][p]
        t == s.transport IN
    /\ IsSession(n, p)
    /\ s.state = "Established"
    /\ s.count < MaxCount
    /\ wire' = wire \cup {[key |-> t.key, role |-> t.role, n |-> t.sendN,
                           from |-> n]}
    /\ Put(n, p, [s EXCEPT !.count = @ + 1, !.idle = 0])
    /\ UNCHANGED <<net, nextId>>

encrypt(n, p) ==
    LET s == sessions[n][p]
        t == s.transport IN
    /\ IsSession(n, p)
    /\ s.state = "Established"
    /\ s.count < MaxCount
    /\ wire' = wire \cup {[key |-> t.key, role |-> t.role, n |-> t.sendN,
                           from |-> n]}
    /\ Put(n, p, [s EXCEPT !.transport.sendN = @ + 1,
                           !.count = @ + 1, !.idle = 0])
    /\ UNCHANGED <<net, nextId>>

\* snow decrypts with the key and the next expected nonce only, and counts the
\* nonce up only when the tag verifies.
Decrypts(t, c) == c.key = t.key /\ c.role # t.role /\ c.n = t.recvN

\* Mutant of decrypt: received messages are not counted.
BugDecryptUncounted(n, p, c) ==
    LET s == sessions[n][p] IN
    /\ IsSession(n, p)
    /\ s.state = "Established"
    /\ s.count < MaxCount
    /\ Put(n, p, [s EXCEPT
           !.transport.recvN = IF Decrypts(s.transport, c) THEN @ + 1 ELSE @,
           !.idle = 0])
    /\ UNCHANGED <<net, wire, nextId>>

\* message_count and the activity are updated even when decryption fails.
decrypt(n, p, c) ==
    LET s == sessions[n][p] IN
    /\ IsSession(n, p)
    /\ s.state = "Established"
    /\ s.count < MaxCount
    /\ Put(n, p, [s EXCEPT
           !.transport.recvN = IF Decrypts(s.transport, c) THEN @ + 1 ELSE @,
           !.count = @ + 1, !.idle = 0])
    /\ UNCHANGED <<net, wire, nextId>>

start_rekey(n, p) ==
    LET s == sessions[n][p] IN
    /\ IsSession(n, p)
    /\ s.state = "Established"
    /\ Put(n, p, [s EXCEPT !.state = "Rekeying", !.handshake = Initiator,
                           !.transport = NoTransport, !.count = 0, !.idle = 0])
    /\ UNCHANGED <<net, wire, nextId>>

\* complete_rekey succeeds only with a finished handshake.
CanCompleteRekey(s) ==
    s.state = "Rekeying" /\ s.handshake # NoHandshake
        /\ is_handshake_finished(s.handshake)

mark_failed(n, p) ==
    LET s == sessions[n][p] IN
    /\ IsSession(n, p)
    /\ Put(n, p, [s EXCEPT !.state = "Failed", !.handshake = NoHandshake,
                           !.transport = NoTransport])
    /\ UNCHANGED <<net, wire, nextId>>

\* The clock. Idle times past every timeout and the interval are indistinguishable.
MaxIdle ==
    LET ts == {HandshakeTimeout + 1, IdleTimeout + 1, FailedTimeout + 1, RekeyInterval}
    IN  CHOOSE t \in ts : \A u \in ts : u <= t

Tick ==
    /\ \E n \in Node, p \in PeerId : IsSession(n, p) /\ sessions[n][p].idle < MaxIdle
    /\ sessions' = [n \in Node |-> [p \in PeerId |->
           LET s == sessions[n][p]
           IN  IF s = NoSession \/ s.idle >= MaxIdle THEN s
               ELSE [s EXCEPT !.idle = @ + 1]]]
    /\ UNCHANGED <<net, wire, nextId>>

Next ==
    \/ Tick
    \/ \E n \in Node : cleanup_expired(n)
    \/ \E n \in Node, p \in PeerId :
        \/ get_or_create_outbound(n, p)
        \/ create_inbound(n, p)
        \/ remove_session(n, p)
        \/ create_handshake_message(n, p)
        \/ \E m \in net : process_handshake_message(n, p, m)
        \/ encrypt(n, p)
        \/ \E c \in wire : decrypt(n, p, c)
        \/ start_rekey(n, p)
        \/ mark_failed(n, p)

Spec == Init /\ [][Next]_vars
-----------------------------------------------------------------------------
(* Safety *)

\* Message i was written by node a under transcript h.
Wrote(i, a, h) == [id |-> i, from |-> a, h |-> h] \in net

IsEstablished(n, p) == IsSession(n, p) /\ sessions[n][p].state = "Established"

\* A session's state says exactly which of the two cipher states it holds:
\* encrypt and decrypt never meet an established session without transport
\* (the "No transport state" errors of session.rs are unreachable), a failed
\* session holds no key material, and a session that is still handshaking
\* never holds a finished handshake. So complete_rekey, which wants one, always
\* errs: a rekeying session stays one until it is removed or fails.
SessionShape ==
    \A n \in Node, p \in PeerId : LET s == sessions[n][p] IN
        IsSession(n, p) =>
            /\ s.state \in {"Handshaking", "Rekeying"} <=> s.handshake # NoHandshake
            /\ s.state = "Established" <=> s.transport # NoTransport
            /\ s.handshake # NoHandshake => ~is_handshake_finished(s.handshake)
            /\ s.transport # NoTransport => Len(s.transport.key) = XXMessages
            /\ ~ CanCompleteRekey(s)

\* The fingerprint of an established session is that of the node that wrote the
\* other end's messages of this very handshake, whichever bytes were handed to
\* the session, whoever they came from and whatever name it is filed under. The
\* fingerprint is taken when the handshake finishes, by a write in the initiator
\* and by a read in the responder, from a message any node may have written.
PeerAuthenticated ==
    \A n \in Node, p \in PeerId : IsEstablished(n, p) =>
        \E q \in Node : LET k == sessions[n][p].transport.key IN
            /\ sessions[n][p].fingerprint = FingerprintOf(q)
            /\ IF sessions[n][p].transport.role = "initiator"
               THEN Wrote(k[2], q, <<k[1]>>)
               ELSE Wrote(k[1], q, << >>) /\ Wrote(k[3], q, <<k[1], k[2]>>)

\* Both ends agree on how an established key came about: the messages of this
\* session's own role were written by this node under the transcript so far,
\* those of the other role by one other end, each of them in answer to the
\* others and to nothing else: never a message of another handshake, of another
\* turn or replayed.
TranscriptAuthentic ==
    \A n \in Node, p \in PeerId : IsEstablished(n, p) =>
        \E q \in Node :
            LET t == sessions[n][p].transport
                k == t.key
                i == IF t.role = "initiator" THEN n ELSE q
                r == IF t.role = "initiator" THEN q ELSE n
            IN  /\ Wrote(k[1], i, << >>)
                /\ Wrote(k[2], r, <<k[1]>>)
                /\ Wrote(k[3], i, <<k[1], k[2]>>)

Holds(n, p, k) == IsEstablished(n, p) /\ sessions[n][p].transport.key = k

\* A transport key is held by at most two sessions anywhere, in opposite roles,
\* and each carries the fingerprint of the other's node: no message, in whatever
\* session of whatever node it ends up, makes a third one share the key.
KeyExclusive ==
    \A n, q \in Node : \A p, r \in PeerId :
        ( /\ <<n, p>> # <<q, r>>
          /\ IsEstablished(n, p)
          /\ Holds(q, r, sessions[n][p].transport.key) )
            => /\ sessions[n][p].transport.role # sessions[q][r].transport.role
               /\ sessions[n][p].fingerprint = FingerprintOf(q)
               /\ sessions[q][r].fingerprint = FingerprintOf(n)

\* No ciphertext exists yet under the key, direction and nonce an established
\* session will use next, nor under any later one: however sessions are
\* replaced, expired, rekeyed and re-established, encrypt never uses a nonce
\* twice under one key.
NonceFresh ==
    \A n \in Node, p \in PeerId : LET s == sessions[n][p] IN
        IsEstablished(n, p) =>
            \A c \in wire :
                (c.key = s.transport.key /\ c.role = s.transport.role)
                    => c.n < s.transport.sendN

\* Whatever a session has decrypted, the node of its fingerprint encrypted under
\* the same key in the other role, each ciphertext accepted once and in order:
\* one that is replayed, reordered, reflected to its author or meant for another
\* session never advances the receiving counter.
DecryptedWasSent ==
    \A n \in Node, p \in PeerId : LET s == sessions[n][p] IN
        IsEstablished(n, p) =>
            \A i \in 0..(s.transport.recvN - 1) :
                \E c \in wire :
                    /\ c.key = s.transport.key /\ c.role # s.transport.role
                    /\ c.n = i /\ s.fingerprint = FingerprintOf(c.from)

\* A key that has carried 90% of the threshold's messages, sent and received
\* together, is reported by needs_rekey: message_count misses none of them.
RekeyTriggerReached ==
    \A n \in Node, p \in PeerId : LET s == sessions[n][p] IN
        ( /\ IsEstablished(n, p)
          /\ s.transport.sendN + s.transport.recvN
                >= (RekeyThreshold * 90) \div 100 )
            => needs_rekey(s)

\* The life of a session holds together: its types, the cipher state it has in each
\* state, and that a key near its limit is reported (session.rs, every operation).
SessionSound == TypeOK /\ SessionShape /\ RekeyTriggerReached

\* An established session carries the fingerprint of its other end, and both ends agree
\* on the handshake behind it, with any bytes handed to any session
\* (process_handshake_message, create_handshake_message).
Authenticated == PeerAuthenticated /\ TranscriptAuthentic

\* A transport key has two holders, encrypts no nonce twice and decrypts only what
\* the other holder sent, once and in order (encrypt, decrypt).
KeysSafe == KeyExclusive /\ NonceFresh /\ DecryptedWasSent
=============================================================================
