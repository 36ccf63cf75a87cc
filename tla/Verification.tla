----------------------------- MODULE Verification -----------------------------
(***************************************************************************)
(* VerificationService (bitchat-core, verification.rs): one node scans the *)
(* QR code of another, sends a challenge and judges the response. Codes,   *)
(* challenges and responses can be shown again, delayed and lost, and      *)
(* anyone may answer a challenge under any name: a code or a response      *)
(* names a noise key, which is what the table of challenges goes by, and a *)
(* signing key, and nothing ties the two. Signatures cannot be forged;     *)
(* those ever made over a pair of nonces are all one can put into a        *)
(* response. A code that was altered fails its self-signature and is       *)
(* refused without effect, so it is left out.                              *)
(***************************************************************************)
EXTENDS Integers, FiniteSets

CONSTANTS
    VNode,
    ChallengeTimeout,  \* challenge_timeout
    MaxPending,        \* max_pending_challenges
    MaxNonce,          \* bound: the nonces drawn
    MaxVTime           \* bound: the clock

\* Limits and times are unsigned.
ASSUME VAssumption ==
    ChallengeTimeout \in Nat /\ MaxPending \in Nat /\ MaxNonce \in Nat /\ MaxVTime \in Nat

VARIABLES
    pending_challenges,    \* pending_challenges[n][p], or NoChallenge
    qr_codes, challenges,  \* everything ever shown or sent
    signatures,            \* every signature made over a pair of nonces
    verified,              \* the Success results returned
    nonces,                \* nonces drawn so far
    v_now

vVars == <<pending_challenges, qr_codes, challenges, signatures, verified, nonces, v_now>>

\* The keys are named by the nodes: p's noise key, n's signing key.
NoChallenge == [nonce_b |-> 0]
VerificationQR(n, p) == [noise_public_key |-> p, signing_public_key |-> n,
                         timestamp |-> v_now, nonce |-> nonces + 1]
QrExpired(q) == v_now - q.timestamp > ChallengeTimeout
ChallengeExpired(c) == v_now > c.expires_at

VInit ==
    /\ pending_challenges = [n \in VNode |-> [p \in VNode |-> NoChallenge]]
    /\ qr_codes = {} /\ challenges = {} /\ signatures = {} /\ verified = {}
    /\ nonces = 0 /\ v_now = 0

Drawn == nonces < MaxNonce /\ nonces' = nonces + 1

\* n signs a code with p's noise key in it: a service is given the two apart.
generate_verification_qr(n, p) ==
    /\ Drawn
    /\ qr_codes' = qr_codes \cup {VerificationQR(n, p)}
    /\ UNCHANGED <<pending_challenges, challenges, signatures, verified, v_now>>

Remaining(n) == [p \in VNode |->
    IF pending_challenges[n][p] # NoChallenge /\ ChallengeExpired(pending_challenges[n][p])
    THEN NoChallenge ELSE pending_challenges[n][p]]

cleanup_expired_challenges(n) ==
    /\ pending_challenges' = [pending_challenges EXCEPT ![n] = Remaining(n)]
    /\ UNCHANGED <<qr_codes, challenges, signatures, verified, nonces, v_now>>

PendingOf(t) == {p \in VNode : t[p] # NoChallenge}

\* The peer_qr a PendingChallenge also holds is never looked at again.
PendingChallenge(q) == [nonce_a |-> q.nonce, nonce_b |-> nonces + 1,
                        expires_at |-> v_now + ChallengeTimeout]

\* A full table refuses after it was cleaned up, also a peer that has an entry.
process_scanned_qr(n, q) ==
    /\ ~QrExpired(q)
    /\ IF Cardinality(PendingOf(Remaining(n))) >= MaxPending
       THEN /\ pending_challenges' = [pending_challenges EXCEPT ![n] = Remaining(n)]
            /\ UNCHANGED <<challenges, nonces>>
       ELSE LET c == PendingChallenge(q) IN
            /\ Drawn
            /\ pending_challenges' = [pending_challenges EXCEPT
                   ![n] = [Remaining(n) EXCEPT ![q.noise_public_key] = c]]
            /\ challenges' = challenges \cup
                   {[by |-> n, to |-> q.noise_public_key, challenge |-> c]}
    /\ UNCHANGED <<qr_codes, signatures, verified, v_now>>

\* Whoever gets hold of a challenge may answer it. Of the response only the
\* signature matters: the rest of it anyone can write.
Signature(n, c) == [signed_by |-> n, nonce_a |-> c.nonce_a, nonce_b |-> c.nonce_b]
create_challenge_response(n, m) ==
    /\ Drawn
    /\ signatures' = signatures \cup {Signature(n, m.challenge)}
    /\ UNCHANGED <<pending_challenges, qr_codes, challenges, verified, v_now>>

\* A response names a noise key and a signing key, as it likes, and carries the
\* nonces and the signature of some answer, or no valid signature at all.
NoSignature == [signed_by |-> "none"]
Response(p, k, s) == [noise_public_key |-> p, signing_public_key |-> k, signature |-> s]

\* Mutant of verify: the nonces are not compared.
BugVerify(r, c) == r.signature # NoSignature /\ r.signature.signed_by = r.signing_public_key

\* The signature is over the nonces of the pending challenge, by the signing key
\* the response itself names.
verify(r, c) == r.signature = Signature(r.signing_public_key, c)

Success(n, r, c) == [verifier |-> n, peer |-> r.noise_public_key,
                     key |-> r.signing_public_key, nonce_b |-> c.nonce_b, at |-> v_now]

Removed(n, p) == pending_challenges' = [pending_challenges EXCEPT ![n][p] = NoChallenge]

\* The challenge is used up whatever the outcome.
process_verification_response(n, r) ==
    LET p == r.noise_public_key
        c == pending_challenges[n][p]
    IN  /\ c # NoChallenge
        /\ Removed(n, p)
        /\ verified' = IF ~ChallengeExpired(c) /\ verify(r, c)
                       THEN verified \cup {Success(n, r, c)} ELSE verified
        /\ UNCHANGED <<qr_codes, challenges, signatures, nonces, v_now>>

VTick ==
    /\ v_now < MaxVTime
    /\ v_now' = v_now + 1
    /\ UNCHANGED <<pending_challenges, qr_codes, challenges, signatures, verified, nonces>>

VNext ==
    \/ \E n \in VNode :
           \/ \E p \in VNode : generate_verification_qr(n, p)
           \/ cleanup_expired_challenges(n)
           \/ \E q \in qr_codes : process_scanned_qr(n, q)
           \/ \E m \in challenges : create_challenge_response(n, m)
           \/ \E p, k \in VNode, s \in signatures \cup {NoSignature} :
                  process_verification_response(n, Response(p, k, s))
    \/ VTick

VSpec == VInit /\ [][VNext]_vVars

-----------------------------------------------------------------------------
(* Properties *)

\* A Success for a peer means that this node put a challenge to that name, that
\* the signing key the response carried has signed exactly the two nonces of that
\* challenge, and that it was judged within its time: a response made for another
\* challenge, of this node or of another one, or one that comes late, verifies
\* nobody, whoever wrote it and whatever it claims.
VerifiedAnswered ==
    \A v \in verified : \E m \in challenges :
        /\ m.by = v.verifier /\ m.to = v.peer /\ m.challenge.nonce_b = v.nonce_b
        /\ v.at <= m.challenge.expires_at
        /\ Signature(v.key, m.challenge) \in signatures

\* One challenge verifies at most once: repeating a response gains nothing.
ChallengeUsedOnce ==
    \A v \in verified' \ verified : v.nonce_b \notin {w.nonce_b : w \in verified}

\* A success of the verification by QR code rests on a signature made for it: over
\* this node's own challenge to that peer, in time and once
\* (process_verification_response, VerificationResponse::verify).
VerificationSound == [][VerifiedAnswered' /\ ChallengeUsedOnce]_vVars
=============================================================================
